---------------------------- MODULE CheckQueue ----------------------------
(***************************************************************************)
(* CCheckQueue and CCheckQueueControl (src/src/checkqueue.h): a master     *)
(* adds batches of script checks, joins the worker threads in Wait() and   *)
(* gets the conjunction of all results.                                    *)
(*                                                                         *)
(* A critical section of the mutex is one step: in Loop() it goes from the *)
(* lock (or the return of cond.wait) to the next cond.wait, to the end of  *)
(* the block with a batch taken, or to the return.  Checks are names, so   *)
(* that none can be lost or run twice unnoticed; the queue is a set, as    *)
(* the order in which a stack is popped does not matter here.  fQuit is    *)
(* never set in this code base, so a worker never returns from Loop().     *)
(***************************************************************************)
EXTENDS Integers, FiniteSets, FiniteSetsExt

CONSTANTS
    Worker,         \* the threads that run Thread()
    Master,         \* the thread that owns the CCheckQueueControl
    Check,          \* checks
    nBatchSize

ASSUME ThreadAssumption == Master \notin Worker /\ IsFiniteSet(Worker)
ASSUME CheckAssumption == IsFiniteSet(Check) /\ nBatchSize \in Nat \ {0}

Thread == Worker \cup {Master}

VARIABLES
    queue, nIdle, nTotal, fAllOk, nTodo,    \* CCheckQueue
    pc,         \* [Thread -> position], see TypeOK
    vChecks,    \* [Thread -> SUBSET Check]: the batch, until its clean-up
    fOk,        \* [Thread -> BOOLEAN]
    added,      \* the checks added since the control object was made
    bad,        \* those of them whose operator() returns false
    fRet        \* what the last Wait() returned

queueVars == <<queue, nIdle, nTotal, fAllOk, nTodo>>
vars == <<queueVars, pc, vChecks, fOk, added, bad, fRet>>

Init ==
    /\ queue = {} /\ nIdle = 0 /\ nTotal = 0 /\ fAllOk = TRUE /\ nTodo = 0
    /\ pc = [t \in Thread |-> IF t = Master THEN "outside" ELSE "lock"]
    /\ vChecks = [t \in Thread |-> {}]
    /\ fOk = [t \in Thread |-> TRUE]
    /\ added = {} /\ bad = {} /\ fRet = TRUE

-----------------------------------------------------------------------------
(* The master outside Loop(). *)

IsIdle == nTotal = nIdle /\ nTodo = 0 /\ fAllOk = TRUE

\* CCheckQueueControl's constructor, whose assert(isIdle) is AssertIdle below.
NewControl ==
    /\ pc[Master] = "outside"
    /\ pc' = [pc EXCEPT ![Master] = "control"]
    /\ added' = {} /\ bad' = {}
    /\ UNCHANGED <<queueVars, vChecks, fOk, fRet>>

\* Threads blocked on condWorker; notify_one wakes one of them, if there is one.
WaitingWorkers == {w \in Worker : pc[w] = "wait"}

\* Add() of the batch C, of which the checks in B will fail.
Add(C, B) ==
    /\ pc[Master] = "control"
    /\ C \cap added = {} /\ B \subseteq C
    /\ queue' = queue \cup C
    /\ nTodo' = nTodo + Cardinality(C)
    /\ added' = added \cup C /\ bad' = bad \cup B
    /\ \E W \in SUBSET WaitingWorkers :
          /\ Cardinality(C) = 0 => W = {}
          /\ Cardinality(C) = 1 => Cardinality(W) = Min({1, Cardinality(WaitingWorkers)})
          /\ Cardinality(C) > 1 => W = WaitingWorkers
          /\ pc' = [t \in Thread |-> IF t \in W THEN "woken" ELSE pc[t]]
    /\ UNCHANGED <<nIdle, nTotal, fAllOk, vChecks, fOk, fRet>>

\* CCheckQueueControl::Wait(), or its destructor, enters Loop(true).
Wait ==
    /\ pc[Master] = "control"
    /\ pc' = [pc EXCEPT ![Master] = "lock"]
    /\ vChecks' = [vChecks EXCEPT ![Master] = {}]
    /\ fOk' = [fOk EXCEPT ![Master] = TRUE]
    /\ UNCHANGED <<queueVars, added, bad, fRet>>

-----------------------------------------------------------------------------
(* Loop(). *)

nNow(t) == Cardinality(vChecks[t])

\* The size of the next batch, with nTotal and nIdle as the critical section left them.
BatchSize(total, idle) ==
    Max({1, Min({nBatchSize, Cardinality(queue) \div (total + idle + 1)})})

\* The while loop and what follows it, for thread t that holds the mutex.  The arguments are
\* the values of the counters after the clean-up or after cond.wait; others is pc with
\* the notifications sent.
WhileQueueEmpty(t, total, idle, todo, ok, others) ==
    \/ /\ queue = {} /\ t = Master /\ todo = 0          \* return fRet
       /\ nTotal' = total - 1 /\ nIdle' = idle
       /\ fAllOk' = TRUE /\ fRet' = ok
       /\ vChecks' = [vChecks EXCEPT ![t] = {}]
       /\ pc' = [others EXCEPT ![t] = "outside"]
       /\ UNCHANGED <<queue, fOk>>
    \/ /\ queue = {} /\ ~ (t = Master /\ todo = 0)      \* cond.wait(lock)
       /\ nTotal' = total /\ nIdle' = idle + 1 /\ fAllOk' = ok
       /\ vChecks' = [vChecks EXCEPT ![t] = {}]
       /\ pc' = [others EXCEPT ![t] = "wait"]
       /\ UNCHANGED <<queue, fOk, fRet>>
    \/ /\ queue # {}                                    \* take a batch
       /\ \E C \in SUBSET queue :
             /\ Cardinality(C) = BatchSize(total, idle)
             /\ queue' = queue \ C
             /\ vChecks' = [vChecks EXCEPT ![t] = C]
       /\ nTotal' = total /\ nIdle' = idle /\ fAllOk' = ok
       /\ fOk' = [fOk EXCEPT ![t] = ok]
       /\ pc' = [others EXCEPT ![t] = "run"]
       /\ UNCHANGED fRet

\* Mutant of Lock: the last report does not notify the master.
LockWithoutNotify(t) ==
    LET first == vChecks[t] = {}
        todo == nTodo - nNow(t)
    IN /\ pc[t] = "lock"
       /\ nTodo' = todo
       /\ WhileQueueEmpty(t, IF first THEN nTotal + 1 ELSE nTotal, nIdle, todo,
                          IF first THEN fAllOk ELSE fAllOk /\ fOk[t], pc)
       /\ UNCHANGED <<added, bad>>

\* unique_lock at the top of the do loop: the first iteration registers the thread, a later
\* one reports the batch; the worker that reports the last check notifies the master.
Lock(t) ==
    LET first == vChecks[t] = {}
        todo == nTodo - nNow(t)
        wakes == ~ first /\ todo = 0 /\ t # Master /\ pc[Master] = "wait"
    IN /\ pc[t] = "lock"
       /\ nTodo' = todo
       /\ WhileQueueEmpty(t, IF first THEN nTotal + 1 ELSE nTotal, nIdle, todo,
                          IF first THEN fAllOk ELSE fAllOk /\ fOk[t],
                          IF wakes THEN [pc EXCEPT ![Master] = "woken"] ELSE pc)
       /\ UNCHANGED <<added, bad>>

\* Mutant of Wake: nIdle is not decremented.
WakeStaysIdle(t) ==
    /\ pc[t] = "woken"
    /\ WhileQueueEmpty(t, nTotal, nIdle, nTodo, fAllOk, pc)
    /\ UNCHANGED <<nTodo, added, bad>>

\* cond.wait returns with the mutex.
Wake(t) ==
    /\ pc[t] = "woken"
    /\ WhileQueueEmpty(t, nTotal, nIdle - 1, nTodo, fAllOk, pc)
    /\ UNCHANGED <<nTodo, added, bad>>

\* cond.wait may return without a notification.
SpuriousWake(t) ==
    /\ pc[t] = "wait"
    /\ pc' = [pc EXCEPT ![t] = "woken"]
    /\ UNCHANGED <<queueVars, vChecks, fOk, added, bad, fRet>>

\* Mutant of Run: the results of the checks are not looked at.
RunIgnoringResults(t) ==
    /\ pc[t] = "run"
    /\ pc' = [pc EXCEPT ![t] = "lock"]
    /\ UNCHANGED <<queueVars, vChecks, fOk, added, bad, fRet>>

\* The checks of the batch run, without the mutex, until one fails.
Run(t) ==
    /\ pc[t] = "run"
    /\ fOk' = [fOk EXCEPT ![t] = @ /\ vChecks[t] \cap bad = {}]
    /\ pc' = [pc EXCEPT ![t] = "lock"]
    /\ UNCHANGED <<queueVars, vChecks, added, bad, fRet>>

LoopStep(t) == Lock(t) \/ Wake(t) \/ Run(t)

Next ==
    \/ NewControl \/ Wait
    \/ \E C \in SUBSET Check : \E B \in SUBSET C : Add(C, B)
    \/ \E t \in Thread : LoopStep(t) \/ SpuriousWake(t)

Spec == Init /\ [][Next]_vars

\* Threads run.  No fairness is assumed of spurious wake-ups, nor of the master's caller.
FairSpec == Spec /\ \A t \in Thread : WF_vars(LoopStep(t))

-----------------------------------------------------------------------------

\* The counters are natural numbers (nTodo is unsigned and is subtracted from), the threads
\* are at a position of Loop(), or the master is outside it or filling its control object.
TypeOK ==
    /\ queue \subseteq Check /\ nIdle \in Nat /\ nTotal \in Nat /\ nTodo \in Nat
    /\ fAllOk \in BOOLEAN /\ fRet \in BOOLEAN
    /\ pc \in [Thread -> {"lock", "run", "wait", "woken", "outside", "control"}]
    /\ vChecks \in [Thread -> SUBSET Check]
    /\ fOk \in [Thread -> BOOLEAN]
    /\ added \subseteq Check /\ bad \subseteq added

\* Wait() returns true exactly if every check that was added would succeed: none was lost
\* between the queue and the batches, and no failure forgotten.
ResultIsConjunction == pc[Master] = "outside" => fRet = (bad = {})

\* assert(isIdle) in CCheckQueueControl's constructor: when the master is about to make a
\* control object, no worker is still in a batch and the counters agree, whatever workers
\* have been woken, have not yet started, or have just finished.
AssertIdle == pc[Master] = "outside" => IsIdle

\* The checks that are queued or in a batch that has not been reported.
Pending == queue \cup UNION {vChecks[t] : t \in Thread}

\* nTodo counts the checks in the queue and in the batches of all threads, which are disjoint.
TodoCountsPending ==
    /\ nTodo = Cardinality(Pending)
    /\ \A t \in Thread : vChecks[t] \cap queue = {}
    /\ \A t, u \in Thread : t # u => vChecks[t] \cap vChecks[u] = {}

InLoop == pc[Master] \in {"lock", "run", "wait", "woken"}

Abstract == INSTANCE CheckAll WITH
    phase <- IF InLoop THEN "waiting" ELSE pc[Master], jobs <- added, result <- fRet

\* The threads, the queue and the condition variables implement CheckAll, its liveness
\* included: Wait() returns (the master does not sleep through the last worker's notification),
\* and it returns the conjunction of the checks.
ImplementsCheckAll == Abstract!FairSpec
=============================================================================
