------------------------- MODULE CheckQueue_proofs -------------------------
(***************************************************************************)
(* Proofs about CheckQueue, for any number of workers and checks and any   *)
(* batch size.                                                             *)
(*                                                                         *)
(* nTotal counts the threads that have entered the do loop (Registered),   *)
(* nIdle those in cond.wait (Idle), nTodo the unreported checks (Pending); *)
(* a failure is known either in fAllOk or in the fOk of a batch that is    *)
(* still pending (Verdict).  WhileBody shows that the while loop and what  *)
(* follows keep this, from what holds at its head (LoopHead) after the     *)
(* clean-up of a batch or after cond.wait.                                 *)
(***************************************************************************)
EXTENDS CheckQueue, FiniteSetTheorems, TLAPS

Registered == {t \in Thread : pc[t] \in {"wait", "woken", "run"} \/ vChecks[t] # {}}
Idle == {t \in Thread : pc[t] \in {"wait", "woken"}}

Positions ==
    /\ \A w \in Worker : pc[w] \notin {"outside", "control"}
    /\ \A t \in Thread : /\ pc[t] = "run" => vChecks[t] # {}
                         /\ pc[t] \notin {"run", "lock"} => vChecks[t] = {}

Counters == nTotal = Cardinality(Registered) /\ nIdle = Cardinality(Idle)

\* What is known of failed checks.  Outside, the result has been handed over and fAllOk reset.
Verdict ==
    /\ Pending \subseteq added
    /\ pc[Master] = "outside" => Pending = {} /\ fAllOk /\ fRet = (bad = {})
    /\ pc[Master] # "outside" => /\ fAllOk => bad \subseteq Pending
                                 /\ ~ fAllOk => bad # {}
    /\ \A t \in Thread : vChecks[t] # {} =>
          /\ ~ fOk[t] => bad # {}
          /\ (pc[t] = "lock" /\ fOk[t]) => vChecks[t] \cap bad = {}

IInv == TypeOK /\ Positions /\ Counters /\ TodoCountsPending /\ Verdict

\* The unreported checks that are not in t's batch.
Rest(t) == queue \cup UNION {vChecks[u] : u \in Thread \ {t}}

\* What holds when thread t, with the mutex, evaluates the condition of the while loop.
LoopHead(t, total, idle, todo, ok, others) ==
    /\ ok \in BOOLEAN
    /\ pc[t] \in {"lock", "woken"}
    /\ total = Cardinality(Registered \cup {t})
    /\ idle = Cardinality(Idle \ {t})
    /\ todo = Cardinality(Rest(t))
    /\ others \in {pc, [pc EXCEPT ![Master] = "woken"]}
    /\ others # pc => pc[Master] = "wait"
    /\ pc[Master] = "outside" => Rest(t) = {} /\ ok
    /\ pc[Master] # "outside" => (ok => bad \subseteq Rest(t)) /\ (~ ok => bad # {})

-----------------------------------------------------------------------------

\* The threads and checks are finitely many.
LEMMA Finite == IsFiniteSet(Thread) /\ IsFiniteSet(Check)
BY ThreadAssumption, CheckAssumption, FS_AddElement DEF Thread

\* The greater of two numbers is one of them, and no less than either.
LEMMA MaxOfPair ==
    ASSUME NEW a \in Int, NEW b \in Int
    PROVE  Max({a, b}) \in {a, b} /\ Max({a, b}) >= a /\ Max({a, b}) >= b
BY DEF Max

\* The lesser of two numbers is one of them.
LEMMA MinOfPair == ASSUME NEW a \in Int, NEW b \in Int PROVE Min({a, b}) \in {a, b}
BY DEF Min

\* A thread that finds checks in the queue takes at least one of them.
LEMMA BatchNotEmpty ==
    ASSUME TypeOK, NEW total \in Nat, NEW idle \in Nat
    PROVE  BatchSize(total, idle) \in Nat /\ BatchSize(total, idle) >= 1
<1> DEFINE share == Cardinality(queue) \div (total + idle + 1)
           size == Min({nBatchSize, share})
<1>1. Cardinality(queue) \in Nat BY Finite, FS_Subset, FS_CardinalityType DEF TypeOK
<1>2. share \in Int BY <1>1
<1>3. size \in Int
  <2> HIDE DEF share
  <2> QED BY <1>2, MinOfPair, CheckAssumption
<1>4. BatchSize(total, idle) = Max({1, size}) BY DEF BatchSize
<1> HIDE DEF size
<1>5. Max({1, size}) \in {1, size} /\ Max({1, size}) >= 1 BY <1>3, MaxOfPair
<1> QED BY <1>3, <1>4, <1>5

\* A check is pending if it is queued or in the batch of some thread.
LEMMA PendingElements ==
    /\ \A c : c \in Pending <=> c \in queue \/ \E u \in Thread : c \in vChecks[u]
    /\ \A t, c : c \in Rest(t) <=> c \in queue \/ \E u \in Thread \ {t} : c \in vChecks[u]
BY DEF Pending, Rest

\* The initial state satisfies the invariant.
LEMMA InitIInv == Init => IInv
<1> SUFFICES ASSUME Init PROVE IInv OBVIOUS
<1> USE ThreadAssumption
<1>1. TypeOK BY DEF Init, TypeOK
<1>2. Positions BY DEF Init, Positions, Thread
<1>3. Registered = {} /\ Idle = {} BY DEF Init, Registered, Idle
<1>4. Counters BY <1>3, FS_EmptySet DEF Init, Counters
<1>5. Pending = {} BY DEF Init, Pending
<1>6. TodoCountsPending BY <1>5, FS_EmptySet DEF Init, TodoCountsPending
<1>7. Verdict BY <1>5 DEF Init, Verdict, Thread
<1> QED BY <1>1, <1>2, <1>4, <1>6, <1>7 DEF IInv

-----------------------------------------------------------------------------

\* From the head of the while loop, returning, waiting and taking a batch all lead to a state
\* of the invariant.
LEMMA WhileBody ==
    ASSUME IInv, NEW t \in Thread, NEW total, NEW idle, NEW todo, NEW ok, NEW others,
           LoopHead(t, total, idle, todo, ok, others),
           WhileQueueEmpty(t, total, idle, todo, ok, others),
           nTodo' = todo, UNCHANGED <<added, bad>>
    PROVE  IInv'
<1> USE ThreadAssumption, CheckAssumption
<1>0. TypeOK /\ Positions /\ TodoCountsPending /\ Verdict BY DEF IInv
<1>1. /\ IsFiniteSet(Registered \cup {t}) /\ IsFiniteSet(Idle \ {t}) /\ IsFiniteSet(Rest(t))
      /\ Registered \cup {t} \subseteq Thread
      /\ Rest(t) \subseteq Check
  <2>1. Registered \cup {t} \subseteq Thread /\ Idle \ {t} \subseteq Thread
    BY DEF Registered, Idle
  <2>2. Rest(t) \subseteq Check BY <1>0, PendingElements DEF TypeOK
  <2> QED BY <2>1, <2>2, Finite, FS_Subset
<1>2. total \in Nat /\ idle \in Nat /\ todo \in Nat
  BY <1>1, FS_CardinalityType DEF LoopHead
<1>3. \A u \in Thread : u # t => vChecks'[u] = vChecks[u]
  BY <1>0 DEF WhileQueueEmpty, TypeOK
<1>4. \A u \in Thread : /\ others[u] = pc[u] \/ (pc[u] = "wait" /\ others[u] = "woken")
                        /\ u # t => pc'[u] = others[u]
  BY <1>0 DEF WhileQueueEmpty, LoopHead, TypeOK
<1>5. /\ others \in [Thread -> {"lock", "run", "wait", "woken", "outside", "control"}]
      /\ ok \in BOOLEAN
  BY <1>0 DEF LoopHead, TypeOK, Thread
<1>6. CASE queue = {} /\ t = Master /\ todo = 0 /\ pc'[t] = "outside"
  <2>1. /\ nTotal' = total - 1 /\ nIdle' = idle /\ fAllOk' = TRUE /\ fRet' = ok
        /\ vChecks' = [vChecks EXCEPT ![t] = {}] /\ pc' = [others EXCEPT ![t] = "outside"]
        /\ queue' = queue /\ fOk' = fOk
    BY <1>6, <1>5 DEF WhileQueueEmpty
  <2>2. Rest(t) = {} BY <1>6, <1>1, FS_EmptySet DEF LoopHead
  <2>3. Pending' = {} /\ \A u \in Thread : vChecks'[u] = {}
    <3>1. \A u \in Thread : vChecks'[u] = {}
      <4> SUFFICES ASSUME NEW u \in Thread, NEW c \in vChecks'[u] PROVE FALSE OBVIOUS
      <4>1. u # t BY <2>1, <1>0 DEF TypeOK
      <4>2. c \in vChecks[u] BY <4>1, <1>3
      <4>3. c \in Rest(t) BY <4>1, <4>2, PendingElements
      <4> QED BY <4>3, <2>2
    <3> QED BY <3>1, <2>1, <1>6 DEF Pending
  <2>4. Registered' = (Registered \cup {t}) \ {t}
    BY <2>1, <2>3, <1>0, <1>3, <1>4, <1>6 DEF Registered, TypeOK
  <2>5. Idle' = Idle \ {t}
    BY <2>1, <1>0, <1>4, <1>6, <1>5 DEF Idle, TypeOK
  <2>6. Cardinality(Registered') = total - 1
    BY <2>4, <1>1, FS_RemoveElement DEF LoopHead
  <2>7. Counters' BY <2>1, <2>5, <2>6 DEF Counters, LoopHead
  <2>8. total # 0 BY <1>1, FS_EmptySet DEF LoopHead
  <2>9. TypeOK' BY <2>1, <2>8, <1>0, <1>2, <1>5 DEF TypeOK
  <2>10. Positions'
    BY <2>1, <2>3, <1>0, <1>4, <1>5, <1>6 DEF Positions, TypeOK, Thread
  <2>11. TodoCountsPending' BY <2>3, <1>6, FS_EmptySet DEF TodoCountsPending
  <2>12. fRet' = (bad' = {})
    <3>1. pc[Master] # "outside" BY <1>6 DEF LoopHead
    <3> QED BY <3>1, <2>1, <2>2 DEF LoopHead
  <2>13. Verdict' BY <2>1, <2>3, <2>12, <1>6 DEF Verdict
  <2> QED BY <2>7, <2>9, <2>10, <2>11, <2>13 DEF IInv
<1>7. CASE queue = {} /\ ~ (t = Master /\ todo = 0) /\ pc'[t] = "wait"
  <2>1. /\ nTotal' = total /\ nIdle' = idle + 1 /\ fAllOk' = ok
        /\ vChecks' = [vChecks EXCEPT ![t] = {}] /\ pc' = [others EXCEPT ![t] = "wait"]
        /\ queue' = queue /\ fOk' = fOk /\ fRet' = fRet
    BY <1>7, <1>5 DEF WhileQueueEmpty
  <2>2. Pending' = Rest(t) BY <2>1, <1>0, PendingElements DEF Pending, TypeOK
  <2>3. Registered' = Registered \cup {t}
    BY <2>1, <1>0, <1>3, <1>4, <1>5 DEF Registered, TypeOK
  <2>4. Idle' = (Idle \ {t}) \cup {t}
    BY <2>1, <1>0, <1>4, <1>5 DEF Idle, TypeOK
  <2>5. Cardinality(Idle') = idle + 1
    BY <2>4, <1>1, FS_AddElement DEF LoopHead
  <2>6. Counters' BY <2>1, <2>3, <2>5 DEF Counters, LoopHead
  <2>7. TypeOK' BY <2>1, <1>0, <1>2, <1>5 DEF TypeOK
  <2>8. Positions' BY <2>1, <1>0, <1>4, <1>5 DEF Positions, TypeOK, Thread
  <2>9. TodoCountsPending' BY <2>1, <2>2, <1>0 DEF TodoCountsPending, LoopHead, TypeOK
  <2>10. Verdict'
    <3>1. pc'[Master] = "outside" <=> (pc[Master] = "outside" /\ t # Master)
      BY <2>1, <1>0, <1>4, <1>5 DEF TypeOK, Thread
    <3>2. Pending' \subseteq added' BY <2>2, <1>0, PendingElements DEF Verdict
    <3>3. \A u \in Thread : vChecks'[u] # {} => u # t /\ vChecks'[u] = vChecks[u]
      BY <2>1, <1>0 DEF TypeOK
    <3>4. \A u \in Thread : u # t /\ pc'[u] = "lock" => pc[u] = "lock"
      BY <1>4
    <3>5. \A u \in Thread : vChecks'[u] # {} =>
             /\ ~ fOk'[u] => bad' # {}
             /\ (pc'[u] = "lock" /\ fOk'[u]) => vChecks'[u] \cap bad' = {}
      BY <2>1, <3>3, <3>4, <1>0 DEF Verdict
    <3>6. pc[Master] = "outside" => t # Master BY DEF LoopHead
    <3> QED BY <2>1, <2>2, <3>1, <3>2, <3>5, <3>6, <1>0 DEF Verdict, LoopHead
  <2> QED BY <2>6, <2>7, <2>8, <2>9, <2>10 DEF IInv
<1>8. CASE queue # {} /\ pc'[t] = "run"
  <2>1. PICK C \in SUBSET queue :
            /\ Cardinality(C) = BatchSize(total, idle)
            /\ queue' = queue \ C
            /\ vChecks' = [vChecks EXCEPT ![t] = C]
    BY <1>8 DEF WhileQueueEmpty
  <2>2. /\ nTotal' = total /\ nIdle' = idle /\ fAllOk' = ok
        /\ fOk' = [fOk EXCEPT ![t] = ok]
        /\ pc' = [others EXCEPT ![t] = "run"] /\ fRet' = fRet
    BY <1>8 DEF WhileQueueEmpty
  <2>3. C # {}
    <3>1. Cardinality(C) >= 1 BY <2>1, <1>0, <1>2, BatchNotEmpty
    <3>2. Cardinality({}) = 0 BY FS_EmptySet
    <3> QED BY <3>1, <3>2
  <2>4. vChecks'[t] = C BY <2>1, <1>0 DEF TypeOK
  <2>5. Pending' = Rest(t)
    BY <2>1, <2>4, <1>0, <1>3, PendingElements DEF Pending, TypeOK
  <2>6. Registered' = Registered \cup {t}
    BY <2>2, <2>3, <2>4, <1>0, <1>3, <1>4, <1>5 DEF Registered, TypeOK
  <2>7. Idle' = Idle \ {t}
    BY <2>2, <1>0, <1>4, <1>5 DEF Idle, TypeOK
  <2>8. Counters' BY <2>2, <2>6, <2>7 DEF Counters, LoopHead
  <2>9. TypeOK' BY <2>1, <2>2, <1>0, <1>2, <1>5 DEF TypeOK
  <2>10. Positions'
    BY <2>2, <2>3, <2>4, <1>0, <1>3, <1>4, <1>5 DEF Positions, TypeOK, Thread
  <2>11. TodoCountsPending'
    <3>1. \A u \in Thread : vChecks'[u] \cap queue' = {}
      BY <2>1, <2>4, <1>0, <1>3 DEF TodoCountsPending
    <3>2. \A u, v \in Thread : u # v => vChecks'[u] \cap vChecks'[v] = {}
      BY <2>1, <2>4, <1>0, <1>3 DEF TodoCountsPending
    <3> QED BY <3>1, <3>2, <2>5 DEF TodoCountsPending, LoopHead
  <2>12. Verdict'
    <3>1. pc[Master] # "outside"
      BY <1>8, PendingElements DEF LoopHead
    <3>2. pc'[Master] # "outside"
      BY <2>2, <3>1, <1>0, <1>4, <1>5 DEF TypeOK, Thread
    <3>3. Pending' \subseteq added' BY <2>5, <1>0, PendingElements DEF Verdict
    <3>4. ASSUME NEW u \in Thread, vChecks'[u] # {}
          PROVE  /\ ~ fOk'[u] => bad' # {}
                 /\ (pc'[u] = "lock" /\ fOk'[u]) => vChecks'[u] \cap bad' = {}
      <4>1. CASE u = t
        <5>1. fOk'[t] = ok BY <2>2, <1>0 DEF TypeOK
        <5>2. pc'[t] # "lock" BY <1>8
        <5> QED BY <4>1, <5>1, <5>2, <3>1 DEF LoopHead
      <4>2. CASE u # t
        <5>1. fOk'[u] = fOk[u] /\ vChecks'[u] = vChecks[u] BY <4>2, <2>2, <1>0, <1>3 DEF TypeOK
        <5>2. pc'[u] = "lock" => pc[u] = "lock" BY <4>2, <1>4
        <5> QED BY <3>4, <5>1, <5>2, <1>0 DEF Verdict
      <4> QED BY <4>1, <4>2
    <3> QED BY <2>2, <2>5, <3>1, <3>2, <3>3, <3>4 DEF Verdict, LoopHead
  <2> QED BY <2>8, <2>9, <2>10, <2>11, <2>12 DEF IInv
<1> QED
  <2>1. t \in Thread /\ DOMAIN others = Thread BY <1>5
  <2> QED BY <2>1, <1>6, <1>7, <1>8 DEF WhileQueueEmpty

\* Taking the mutex at the top of the do loop, with or without a batch to report.
LEMMA LockStep == ASSUME IInv, NEW t \in Thread, Lock(t) PROVE IInv'
<1> DEFINE first == vChecks[t] = {}
           todo == nTodo - nNow(t)
           wakes == ~ first /\ todo = 0 /\ t # Master /\ pc[Master] = "wait"
           total == IF first THEN nTotal + 1 ELSE nTotal
           ok == IF first THEN fAllOk ELSE fAllOk /\ fOk[t]
           others == IF wakes THEN [pc EXCEPT ![Master] = "woken"] ELSE pc
<1> USE ThreadAssumption, CheckAssumption
<1>0. TypeOK /\ Positions /\ Counters /\ TodoCountsPending /\ Verdict BY DEF IInv
<1>1. /\ pc[t] = "lock"
      /\ WhileQueueEmpty(t, total, nIdle, todo, ok, others)
      /\ nTodo' = todo /\ UNCHANGED <<added, bad>>
  BY DEF Lock
<1>2. IsFiniteSet(Registered) /\ IsFiniteSet(Pending) /\ IsFiniteSet(vChecks[t])
  <2>1. Registered \subseteq Thread BY DEF Registered
  <2>2. Pending \subseteq Check BY <1>0, PendingElements DEF TypeOK
  <2> QED BY <1>0, <2>1, <2>2, Finite, FS_Subset DEF TypeOK
<1>3. total = Cardinality(Registered \cup {t})
  <2>1. t \in Registered <=> ~ first BY <1>1 DEF Registered
  <2>2. Cardinality(Registered \cup {t}) =
           IF t \in Registered THEN Cardinality(Registered) ELSE Cardinality(Registered) + 1
    BY <1>2, FS_AddElement
  <2> QED BY <2>1, <2>2, <1>0 DEF Counters
<1>4. nIdle = Cardinality(Idle \ {t})
  <2>1. Idle \ {t} = Idle BY <1>1 DEF Idle
  <2> QED BY <2>1, <1>0 DEF Counters
<1>5. todo = Cardinality(Rest(t))
  <2>1. Rest(t) = Pending \ vChecks[t]
    <3>1. \A c : c \in Rest(t) <=> c \in Pending /\ c \notin vChecks[t]
      BY <1>0, PendingElements DEF TodoCountsPending
    <3> QED BY <3>1
  <2>2. Pending \cap vChecks[t] = vChecks[t] BY PendingElements
  <2>3. Cardinality(Pending \ vChecks[t]) = Cardinality(Pending) - Cardinality(vChecks[t])
    BY <1>2, <2>2, FS_Difference
  <2> QED BY <2>1, <2>3, <1>0 DEF TodoCountsPending, nNow
<1>6. Rest(t) \subseteq Pending BY PendingElements
<1>7. pc[Master] = "outside" => Rest(t) = {} /\ ok
  <2> SUFFICES ASSUME pc[Master] = "outside" PROVE Rest(t) = {} /\ ok OBVIOUS
  <2>1. Pending = {} /\ fAllOk BY <1>0 DEF Verdict
  <2>2. first BY <2>1, PendingElements
  <2> QED BY <2>1, <2>2, <1>6
<1>8. pc[Master] # "outside" => (ok => bad \subseteq Rest(t)) /\ (~ ok => bad # {})
  <2> SUFFICES ASSUME pc[Master] # "outside"
               PROVE  (ok => bad \subseteq Rest(t)) /\ (~ ok => bad # {})
      OBVIOUS
  <2>1. ASSUME ok PROVE bad \subseteq Rest(t)
    <3>1. bad \subseteq Pending BY <2>1, <1>0 DEF Verdict
    <3>2. vChecks[t] \cap bad = {} BY <2>1, <1>0, <1>1 DEF Verdict
    <3> QED BY <3>1, <3>2, PendingElements
  <2>2. ASSUME ~ ok PROVE bad # {} BY <2>2, <1>0 DEF Verdict
  <2> QED BY <2>1, <2>2
<1>9. ok \in BOOLEAN BY <1>0 DEF TypeOK
<1>10. /\ others \in {pc, [pc EXCEPT ![Master] = "woken"]}
       /\ others # pc => pc[Master] = "wait"
  OBVIOUS
<1>11. LoopHead(t, total, nIdle, todo, ok, others)
  <2> HIDE DEF total, todo, ok, others
  <2> QED BY <1>1, <1>3, <1>4, <1>5, <1>7, <1>8, <1>9, <1>10 DEF LoopHead
<1> HIDE DEF total, todo, ok, others
<1> QED BY <1>1, <1>11, WhileBody

\* The return of cond.wait.
LEMMA WakeStep == ASSUME IInv, NEW t \in Thread, Wake(t) PROVE IInv'
<1> USE ThreadAssumption, CheckAssumption
<1>0. TypeOK /\ Positions /\ Counters /\ TodoCountsPending /\ Verdict BY DEF IInv
<1>1. /\ pc[t] = "woken"
      /\ WhileQueueEmpty(t, nTotal, nIdle - 1, nTodo, fAllOk, pc)
      /\ nTodo' = nTodo /\ UNCHANGED <<added, bad>>
  BY DEF Wake
<1>2. Registered \cup {t} = Registered BY <1>1 DEF Registered
<1>3. nIdle - 1 = Cardinality(Idle \ {t})
  <2>1. t \in Idle BY <1>1 DEF Idle
  <2>2. IsFiniteSet(Idle)
    <3>1. Idle \subseteq Thread BY DEF Idle
    <3> QED BY <3>1, Finite, FS_Subset
  <2> QED BY <2>1, <2>2, <1>0, FS_RemoveElement DEF Counters
<1>4. Rest(t) = Pending
  <2>1. vChecks[t] = {} BY <1>0, <1>1 DEF Positions
  <2>2. \A c : c \in Rest(t) <=> c \in Pending BY <2>1, PendingElements
  <2> QED BY <2>2
<1>5. LoopHead(t, nTotal, nIdle - 1, nTodo, fAllOk, pc)
  BY <1>0, <1>1, <1>2, <1>3, <1>4
     DEF LoopHead, TypeOK, Counters, TodoCountsPending, Verdict
<1> QED BY <1>1, <1>5, WhileBody

-----------------------------------------------------------------------------

\* Every step of every thread preserves the invariant.
LEMMA NextIInv == IInv /\ [Next]_vars => IInv'
<1> SUFFICES ASSUME IInv, [Next]_vars PROVE IInv' OBVIOUS
<1> USE ThreadAssumption, CheckAssumption
<1>0. TypeOK /\ Positions /\ Counters /\ TodoCountsPending /\ Verdict BY DEF IInv
<1>m. Master \in Thread BY DEF Thread
<1>1. CASE NewControl
  <2>1. pc[Master] = "outside" /\ Pending = {} /\ fAllOk BY <1>0, <1>1 DEF NewControl, Verdict
  <2>2. /\ pc' = [pc EXCEPT ![Master] = "control"] /\ added' = {} /\ bad' = {}
        /\ UNCHANGED <<queueVars, vChecks, fOk, fRet>>
    BY <1>1 DEF NewControl
  <2>3. Pending' = Pending BY <2>2 DEF Pending, queueVars
  <2>4. TypeOK' BY <2>2, <1>0 DEF TypeOK, queueVars
  <2>5. Positions' BY <2>1, <2>2, <1>0, <1>m DEF Positions, TypeOK, Thread
  <2>6. Registered' = Registered /\ Idle' = Idle
    BY <2>1, <2>2, <1>0 DEF Registered, Idle, TypeOK
  <2>7. Counters' BY <2>2, <2>6, <1>0 DEF Counters, queueVars
  <2>8. TodoCountsPending' BY <2>2, <2>3, <1>0 DEF TodoCountsPending, queueVars
  <2>9. \A t \in Thread : vChecks[t] = {} BY <2>1, PendingElements
  <2>10. Verdict' BY <2>1, <2>2, <2>3, <2>9, <1>0, <1>m DEF Verdict, TypeOK, queueVars
  <2> QED BY <2>4, <2>5, <2>7, <2>8, <2>10 DEF IInv
<1>2. CASE Wait
  <2>1. /\ pc[Master] = "control" /\ pc' = [pc EXCEPT ![Master] = "lock"]
        /\ vChecks' = [vChecks EXCEPT ![Master] = {}]
        /\ fOk' = [fOk EXCEPT ![Master] = TRUE]
        /\ UNCHANGED <<queueVars, added, bad, fRet>>
    BY <1>2 DEF Wait
  <2>2. vChecks' = vChecks BY <2>1, <1>0, <1>m DEF Positions, TypeOK
  <2>3. Pending' = Pending BY <2>1, <2>2 DEF Pending, queueVars
  <2>4. TypeOK' BY <2>1, <1>0 DEF TypeOK, queueVars
  <2>5. Positions' BY <2>1, <2>2, <1>0, <1>m DEF Positions, TypeOK, Thread
  <2>6. Registered' = Registered /\ Idle' = Idle
    BY <2>1, <2>2, <1>0 DEF Registered, Idle, TypeOK
  <2>7. Counters' BY <2>1, <2>6, <1>0 DEF Counters, queueVars
  <2>8. TodoCountsPending' BY <2>1, <2>2, <2>3, <1>0 DEF TodoCountsPending, queueVars
  <2>9. vChecks[Master] = {} BY <2>1, <1>0, <1>m DEF Positions
  <2>10. Verdict' BY <2>1, <2>2, <2>3, <2>9, <1>0, <1>m DEF Verdict, TypeOK, queueVars
  <2> QED BY <2>4, <2>5, <2>7, <2>8, <2>10 DEF IInv
<1>3. ASSUME NEW C \in SUBSET Check, NEW B \in SUBSET C, Add(C, B) PROVE IInv'
  <2>1. /\ pc[Master] = "control" /\ C \cap added = {}
        /\ queue' = queue \cup C /\ nTodo' = nTodo + Cardinality(C)
        /\ added' = added \cup C /\ bad' = bad \cup B
        /\ UNCHANGED <<nIdle, nTotal, fAllOk, vChecks, fOk, fRet>>
    BY <1>3 DEF Add
  <2>2. PICK W \in SUBSET WaitingWorkers :
           pc' = [t \in Thread |-> IF t \in W THEN "woken" ELSE pc[t]]
    BY <1>3 DEF Add
  <2>3. \A t \in Thread : pc'[t] = pc[t] \/ (pc[t] = "wait" /\ pc'[t] = "woken")
    BY <2>2 DEF WaitingWorkers
  <2>4. Pending' = Pending \cup C BY <2>1 DEF Pending
  <2>5. Pending \cap C = {} BY <2>1, <1>0 DEF Verdict
  <2>6. Cardinality(C) \in Nat BY Finite, FS_Subset, FS_CardinalityType
  <2>7. nTodo' = Cardinality(Pending')
    <3>1. Pending \subseteq Check BY <1>0, PendingElements DEF TypeOK
    <3>2. IsFiniteSet(Pending) /\ IsFiniteSet(C) BY <3>1, Finite, FS_Subset
    <3>3. Cardinality(Pending \cup C) =
             Cardinality(Pending) + Cardinality(C) - Cardinality(Pending \cap C)
      BY <3>2, FS_Union
    <3>4. Cardinality(Pending \cap C) = 0 BY <2>5, FS_EmptySet
    <3>5. Cardinality(Pending) \in Nat BY <3>2, FS_CardinalityType
    <3> QED BY <2>1, <2>4, <2>6, <3>3, <3>4, <3>5, <1>0 DEF TodoCountsPending
  <2>8. TypeOK' BY <2>1, <2>2, <2>6, <1>0 DEF TypeOK
  <2>9. Positions' BY <2>1, <2>3, <1>0 DEF Positions, TypeOK, Thread
  <2>10. Registered' = Registered /\ Idle' = Idle BY <2>1, <2>3 DEF Registered, Idle
  <2>11. Counters' BY <2>1, <2>10, <1>0 DEF Counters
  <2>12. \A t \in Thread : vChecks[t] \cap C = {} BY <2>5, PendingElements
  <2>13. TodoCountsPending' BY <2>1, <2>7, <2>12, <1>0 DEF TodoCountsPending
  <2>14. Verdict'
    <3>1. pc'[Master] = "control" BY <2>1, <2>3, <1>m
    <3>2. Pending' \subseteq added' BY <2>1, <2>4, <1>0 DEF Verdict
    <3>3. (fAllOk => bad \subseteq Pending) /\ (~ fAllOk => bad # {})
      BY <2>1, <1>0 DEF Verdict
    <3>4. (fAllOk' => bad' \subseteq Pending') /\ (~ fAllOk' => bad' # {})
      BY <2>1, <2>4, <3>3
    <3>5. ASSUME NEW t \in Thread, vChecks'[t] # {}
          PROVE  /\ ~ fOk'[t] => bad' # {}
                 /\ (pc'[t] = "lock" /\ fOk'[t]) => vChecks'[t] \cap bad' = {}
      <4>1. pc'[t] = "lock" => pc[t] = "lock" BY <2>3
      <4>2. /\ ~ fOk[t] => bad # {}
            /\ (pc[t] = "lock" /\ fOk[t]) => vChecks[t] \cap bad = {}
        BY <3>5, <2>1, <1>0 DEF Verdict
      <4>3. vChecks[t] \cap B = {} BY <2>12
      <4> QED BY <2>1, <4>1, <4>2, <4>3
    <3> QED BY <3>1, <3>2, <3>4, <3>5 DEF Verdict
  <2> QED BY <2>8, <2>9, <2>11, <2>13, <2>14 DEF IInv
<1>4. ASSUME NEW t \in Thread, Lock(t) PROVE IInv' BY <1>4, LockStep
<1>5. ASSUME NEW t \in Thread, Wake(t) PROVE IInv' BY <1>5, WakeStep
<1>6. ASSUME NEW t \in Thread, SpuriousWake(t) PROVE IInv'
  <2>1. /\ pc[t] = "wait" /\ pc' = [pc EXCEPT ![t] = "woken"]
        /\ UNCHANGED <<queueVars, vChecks, fOk, added, bad, fRet>>
    BY <1>6 DEF SpuriousWake
  <2>2. \A u \in Thread : pc'[u] = pc[u] \/ (pc[u] = "wait" /\ pc'[u] = "woken")
    BY <2>1, <1>0 DEF TypeOK
  <2>3. Pending' = Pending BY <2>1 DEF Pending, queueVars
  <2>4. TypeOK' BY <2>1, <1>0 DEF TypeOK, queueVars
  <2>5. Positions' BY <2>1, <2>2, <1>0 DEF Positions, Thread
  <2>6. Registered' = Registered /\ Idle' = Idle BY <2>1, <2>2 DEF Registered, Idle
  <2>7. Counters' BY <2>1, <2>6, <1>0 DEF Counters, queueVars
  <2>8. TodoCountsPending' BY <2>1, <2>3, <1>0 DEF TodoCountsPending, queueVars
  <2>9. pc'[Master] = "outside" <=> pc[Master] = "outside" BY <2>2, <1>m
  <2>10. Verdict' BY <2>1, <2>2, <2>3, <2>9, <1>0 DEF Verdict, queueVars
  <2> QED BY <2>4, <2>5, <2>7, <2>8, <2>10 DEF IInv
<1>7. ASSUME NEW t \in Thread, Run(t) PROVE IInv'
  <2>1. /\ pc[t] = "run" /\ pc' = [pc EXCEPT ![t] = "lock"]
        /\ fOk' = [fOk EXCEPT ![t] = @ /\ vChecks[t] \cap bad = {}]
        /\ UNCHANGED <<queueVars, vChecks, added, bad, fRet>>
    BY <1>7 DEF Run
  <2>2. vChecks[t] # {} BY <2>1, <1>0 DEF Positions
  <2>3. Pending' = Pending BY <2>1 DEF Pending, queueVars
  <2>4. TypeOK' BY <2>1, <1>0 DEF TypeOK, queueVars
  <2>5. Positions' BY <2>1, <2>2, <1>0, <1>m DEF Positions, TypeOK, Thread
  <2>6. Registered' = Registered /\ Idle' = Idle
    BY <2>1, <2>2, <1>0 DEF Registered, Idle, TypeOK
  <2>7. Counters' BY <2>1, <2>6, <1>0 DEF Counters, queueVars
  <2>8. TodoCountsPending' BY <2>1, <2>3, <1>0 DEF TodoCountsPending, queueVars
  <2>9. pc'[Master] = "outside" <=> pc[Master] = "outside"
    BY <2>1, <1>0, <1>m DEF TypeOK
  <2>10. ASSUME NEW u \in Thread, vChecks'[u] # {}
         PROVE  /\ ~ fOk'[u] => bad' # {}
                /\ (pc'[u] = "lock" /\ fOk'[u]) => vChecks'[u] \cap bad' = {}
    <3>1. CASE u = t
      <4>1. fOk'[t] = (fOk[t] /\ vChecks[t] \cap bad = {}) BY <2>1, <1>0 DEF TypeOK
      <4>2. ~ fOk[t] => bad # {} BY <2>2, <1>0 DEF Verdict
      <4> QED BY <3>1, <4>1, <4>2, <2>1
    <3>2. CASE u # t
      <4>1. fOk'[u] = fOk[u] /\ pc'[u] = pc[u] BY <3>2, <2>1, <1>0 DEF TypeOK
      <4> QED BY <4>1, <2>1, <2>10, <1>0 DEF Verdict
    <3> QED BY <3>1, <3>2
  <2>11. Verdict' BY <2>1, <2>3, <2>9, <2>10, <1>0 DEF Verdict, queueVars
  <2> QED BY <2>4, <2>5, <2>7, <2>8, <2>11 DEF IInv
<1>8. CASE UNCHANGED vars
  <2>1. Pending' = Pending /\ Registered' = Registered /\ Idle' = Idle
    BY <1>8 DEF vars, queueVars, Pending, Registered, Idle
  <2> QED BY <1>8, <2>1, <1>0 DEF vars, queueVars, IInv, TypeOK, Positions, Counters,
                                  TodoCountsPending, Verdict
<1> QED BY <1>1, <1>2, <1>3, <1>4, <1>5, <1>6, <1>7, <1>8 DEF Next, LoopStep

\* The counters of CCheckQueue never go below zero and the threads stay at their positions.
THEOREM TypeCorrect == Spec => []TypeOK
<1>1. IInv => TypeOK BY DEF IInv
<1> QED BY <1>1, InitIInv, NextIInv, PTL DEF Spec

\* nTodo is at all times the number of queued and unreported checks, held by one thread each.
THEOREM TodoIsPending == Spec => []TodoCountsPending
<1>1. IInv => TodoCountsPending BY DEF IInv
<1> QED BY <1>1, InitIInv, NextIInv, PTL DEF Spec

\* Wait() returns the conjunction of all checks added to the control object.
THEOREM WaitReturnsConjunction == Spec => []ResultIsConjunction
<1>1. IInv => ResultIsConjunction BY DEF IInv, Verdict, ResultIsConjunction
<1> QED BY <1>1, InitIInv, NextIInv, PTL DEF Spec

\* The constructor's assertion holds: a new control object finds the queue idle.
THEOREM ControlFindsIdleQueue == Spec => []AssertIdle
<1>1. IInv => AssertIdle
  <2> SUFFICES ASSUME IInv, pc[Master] = "outside" PROVE IsIdle BY DEF AssertIdle
  <2>1. Pending = {} /\ fAllOk = TRUE BY DEF IInv, Verdict, TypeOK
  <2>2. Registered = Idle
    <3>1. \A t \in Thread : vChecks[t] = {} BY <2>1, PendingElements
    <3>2. \A t \in Thread : pc[t] # "run" BY <3>1 DEF IInv, Positions
    <3> QED BY <3>1, <3>2 DEF Registered, Idle
  <2>3. nTotal = nIdle BY <2>2 DEF IInv, Counters
  <2>4. nTodo = 0 BY <2>1, FS_EmptySet DEF IInv, TodoCountsPending
  <2> QED BY <2>1, <2>3, <2>4 DEF IsIdle
<1> QED BY <1>1, InitIInv, NextIInv, PTL DEF Spec

-----------------------------------------------------------------------------

\* A step of the while loop is a return of the abstract Wait() or leaves it waiting.
LEMMA WhileRefines ==
    ASSUME IInv, IInv', NEW t \in Thread, NEW total, NEW idle, NEW todo, NEW ok, NEW others,
           pc[t] \in {"lock", "woken"},
           others \in {pc, [pc EXCEPT ![Master] = "woken"]}, others # pc => pc[Master] = "wait",
           WhileQueueEmpty(t, total, idle, todo, ok, others), UNCHANGED <<added, bad>>
    PROVE  [Abstract!Next]_(Abstract!vars)
<1> USE ThreadAssumption DEF Thread
<1>0. TypeOK /\ Verdict' BY DEF IInv
<1>1. CASE pc'[Master] = "outside" /\ t = Master
  <2>1. InLoop BY <1>1 DEF InLoop
  <2>2. ~ InLoop' BY <1>1 DEF InLoop
  <2>3. fRet' = (bad = {}) BY <1>0, <1>1 DEF Verdict
  <2> QED BY <1>1, <2>1, <2>2, <2>3 DEF Abstract!Next, Abstract!Return
<1>2. CASE ~ (pc'[Master] = "outside" /\ t = Master)
  <2>1. fRet' = fRet BY <1>0, <1>2 DEF WhileQueueEmpty, TypeOK
  <2>2. (InLoop /\ InLoop') \/ (~ InLoop /\ ~ InLoop' /\ pc'[Master] = pc[Master])
    BY <1>0, <1>2 DEF WhileQueueEmpty, TypeOK, InLoop
  <2> QED BY <2>1, <2>2 DEF Abstract!vars
<1> QED BY <1>1, <1>2

\* The threads and the condition variables implement CheckAll (its safety part): what users
\* see is batches handed over and one result, the conjunction.
THEOREM RefinesCheckAll == Spec => Abstract!Spec
<1>1. Init => Abstract!Init
  BY ThreadAssumption DEF Init, Abstract!Init, InLoop, Thread
<1>2. IInv /\ IInv' /\ [Next]_vars => [Abstract!Next]_(Abstract!vars)
  <2> SUFFICES ASSUME IInv, IInv', [Next]_vars PROVE [Abstract!Next]_(Abstract!vars) OBVIOUS
  <2> USE ThreadAssumption
  <2>0. TypeOK /\ Master \in Thread BY DEF IInv, Thread
  <2>1. CASE NewControl
    BY <2>1, <2>0 DEF NewControl, Abstract!Next, Abstract!Begin, InLoop, TypeOK
  <2>2. CASE Wait
    BY <2>2, <2>0 DEF Wait, Abstract!Next, Abstract!Wait, InLoop, TypeOK
  <2>3. ASSUME NEW C \in SUBSET Check, NEW B \in SUBSET C, Add(C, B)
        PROVE  [Abstract!Next]_(Abstract!vars)
    <3>1. pc[Master] = "control" /\ pc'[Master] = "control"
      BY <2>3, <2>0 DEF Add, WaitingWorkers
    <3>2. ~ InLoop /\ ~ InLoop' BY <3>1 DEF InLoop
    <3>3. Abstract!HandOver(C, B) BY <2>3, <3>1, <3>2 DEF Add, Abstract!HandOver
    <3> QED BY <3>3 DEF Abstract!Next
  <2>4. ASSUME NEW t \in Thread, Lock(t) PROVE [Abstract!Next]_(Abstract!vars)
    BY <2>4, WhileRefines DEF Lock
  <2>5. ASSUME NEW t \in Thread, Wake(t) PROVE [Abstract!Next]_(Abstract!vars)
    BY <2>5, WhileRefines DEF Wake
  <2>6. ASSUME NEW t \in Thread, SpuriousWake(t) \/ Run(t) PROVE UNCHANGED Abstract!vars
    BY <2>6, <2>0 DEF SpuriousWake, Run, Abstract!vars, InLoop, TypeOK
  <2>7. CASE UNCHANGED vars BY <2>7 DEF vars, Abstract!vars, InLoop
  <2> QED BY <2>1, <2>2, <2>3, <2>4, <2>5, <2>6, <2>7 DEF Next, LoopStep
<1> QED BY <1>1, <1>2, InitIInv, NextIInv, PTL DEF Spec, Abstract!Spec
=============================================================================
