------------------------------ MODULE CacheFiles ------------------------------
(***************************************************************************)
(* The flat files that carry the masternode list, the payment votes, the   *)
(* governance objects and the fulfilled requests over a restart: CFlatDB's *)
(* Load and Dump, and the order in which AppInit2 and PrepareShutdown call *)
(* them.  A write truncates the file and fills it afterwards, so a process *)
(* that dies in between, or a full disk, leaves a damaged file.            *)
(* A cache is known by its version, 0 for an empty one.                    *)
(***************************************************************************)
EXTENDS Naturals, Sequences, FiniteSets

CONSTANTS
    Cache,        \* the caches in the order they are loaded and dumped
    First,        \* mncache: the one that decides whether Dependent are loaded
    Dependent,    \* mnpayments and governance
    MaxVersion,   \* bound of the caches' versions
    MaxFaults     \* bound of crashes, failed writes and failed starts

ASSUME CacheAssumption ==
    /\ Cache \in Seq(STRING) /\ Len(Cache) > 0
    /\ \A i, j \in DOMAIN Cache : Cache[i] = Cache[j] => i = j
    /\ First = Cache[1]
    /\ Dependent \subseteq {Cache[i] : i \in DOMAIN Cache} \ {First}
    /\ MaxVersion \in Nat /\ MaxFaults \in Nat

Names == {Cache[i] : i \in DOMAIN Cache}
Version == 0..MaxVersion

\* What a file can be: missing, cut short, of another network or program, with
\* the right header and data of an older format, or a whole dump of a version.
Kinds == {"absent", "cut", "foreign", "oldformat", "whole"}
File == {f \in [kind : Kinds, version : Version] : f.kind # "whole" => f.version = 0}

Whole(v) == [kind |-> "whole", version |-> v]
Spoilt(kind) == [kind |-> kind, version |-> 0]

VARIABLES
    disk,      \* the files
    mem,       \* the caches in memory
    pc, at,    \* what the process does, and the cache it is at
    faults,
    stop       \* observed: whether the last process ended with every cache
               \* written, and what it held

vars == <<disk, mem, pc, at, faults, stop>>

Empty == [c \in Names |-> 0]

Init ==
    /\ disk \in [Names -> {Spoilt(k) : k \in {"absent", "foreign", "oldformat"}}]
    /\ mem = Empty /\ pc = "down" /\ at = 1 /\ faults = 0
    /\ stop = [clean |-> FALSE, mem |-> Empty]

\* CFlatDB::Read
ReadResult(f) ==
    CASE f.kind = "whole" -> "Ok"
      [] f.kind = "absent" -> "FileError"
      [] f.kind = "cut" -> "IncorrectHash"
      [] f.kind = "foreign" -> "IncorrectMagic"
      [] f.kind = "oldformat" -> "IncorrectFormat"

ReadableIfThere(f) == ReadResult(f) \in {"Ok", "IncorrectFormat"}      \* mutant

Readable(f) == ReadResult(f) \in {"Ok", "FileError", "IncorrectFormat"}

Contents(f) == IF ReadResult(f) = "Ok" THEN f.version ELSE 0

Fault == faults < MaxFaults /\ faults' = faults + 1

-----------------------------------------------------------------------------
(* AppInit2.                                                               *)

Start ==
    /\ pc = "down"
    /\ pc' = "load" /\ at' = 1 /\ mem' = Empty
    /\ UNCHANGED <<disk, faults, stop>>

\* Init stops before the caches are reached (the data directory is locked, a
\* wrong option, a damaged block index); Shutdown runs all the same.
StartFails ==
    /\ Fault /\ pc = "down"
    /\ pc' = "dump" /\ at' = 1 /\ mem' = Empty
    /\ UNCHANGED <<disk, stop>>

\* With an empty masternode list the payments and governance are not read.
Skipped(c) == c \in Dependent /\ mem[First] = 0

AfterLoad ==
    IF at < Len(Cache) THEN pc' = "load" /\ at' = at + 1
                       ELSE pc' = "up" /\ at' = 1

Skip ==
    /\ pc = "load" /\ Skipped(Cache[at])
    /\ AfterLoad
    /\ UNCHANGED <<disk, mem, faults, stop>>

Load ==
    LET c == Cache[at] IN
    /\ pc = "load" /\ ~Skipped(c)
    /\ Readable(disk[c])
    /\ mem' = [mem EXCEPT ![c] = Contents(disk[c])]
    /\ AfterLoad
    /\ UNCHANGED <<disk, faults, stop>>

\* InitError, and Shutdown after it.
LoadFails ==
    /\ pc = "load" /\ ~Skipped(Cache[at])
    /\ ~Readable(disk[Cache[at]])
    /\ pc' = "dump" /\ at' = 1
    /\ UNCHANGED <<disk, mem, faults, stop>>

-----------------------------------------------------------------------------
(* The running node, and PrepareShutdown.                                  *)

Change(c) ==
    /\ pc = "up" /\ mem[c] < MaxVersion
    /\ mem' = [mem EXCEPT ![c] = @ + 1]
    /\ UNCHANGED <<disk, pc, at, faults, stop>>

PrepareShutdown ==
    /\ pc = "up"
    /\ pc' = "dump" /\ at' = 1
    /\ UNCHANGED <<disk, mem, faults, stop>>

\* The cache is done with; fine says that its file was written.
AfterDump(fine) ==
    LET good == fine /\ (at = 1 \/ stop.clean) IN
    IF at < Len(Cache)
    THEN /\ pc' = "dump" /\ at' = at + 1
         /\ stop' = [stop EXCEPT !.clean = good]
    ELSE /\ pc' = "down" /\ at' = 1
         /\ stop' = [clean |-> good, mem |-> mem]

\* Dump first reads the file there is and leaves a damaged one alone.
DumpRefused ==
    /\ pc = "dump" /\ ~Readable(disk[Cache[at]])
    /\ AfterDump(FALSE)
    /\ UNCHANGED <<disk, mem, faults>>

\* mutant
DumpOpenBlindly ==
    /\ pc = "dump" /\ pc' = "write"
    /\ disk' = [disk EXCEPT ![Cache[at]] = Spoilt("cut")]
    /\ UNCHANGED <<mem, at, faults, stop>>

\* Write: fopen truncates, the data follow.  Dump ignores Write's result.
DumpOpen ==
    /\ pc = "dump" /\ Readable(disk[Cache[at]])
    /\ disk' = [disk EXCEPT ![Cache[at]] = Spoilt("cut")]
    /\ pc' = "write"
    /\ UNCHANGED <<mem, at, faults, stop>>

DumpOpenFails ==
    /\ Fault /\ pc = "dump" /\ Readable(disk[Cache[at]])
    /\ AfterDump(FALSE)
    /\ UNCHANGED <<disk, mem>>

SerializedFirst(c) == Whole(mem[First])      \* mutant
SerializedUnlessEmpty(c) == IF mem[c] = 0 THEN disk[c] ELSE Whole(mem[c])      \* mutant

Serialized(c) == Whole(mem[c])

DumpClose ==
    /\ pc = "write"
    /\ disk' = [disk EXCEPT ![Cache[at]] = Serialized(Cache[at])]
    /\ AfterDump(TRUE)
    /\ UNCHANGED <<mem, faults>>

DumpWriteFails ==
    /\ Fault /\ pc = "write"
    /\ AfterDump(FALSE)
    /\ UNCHANGED <<disk, mem>>

\* A second process finds the data directory locked by this one, and shuts down
\* the way every process does, with caches it has never loaded.
SecondProcess ==
    /\ Fault /\ pc = "up"
    /\ disk' = [c \in Names |-> IF Readable(disk[c]) THEN Whole(0) ELSE disk[c]]
    /\ UNCHANGED <<mem, pc, at, stop>>

-----------------------------------------------------------------------------
(* The process dies; an operator removes a damaged file.                   *)

Crash ==
    /\ Fault /\ pc # "down"
    /\ pc' = "down" /\ at' = 1 /\ mem' = Empty
    /\ stop' = [stop EXCEPT !.clean = FALSE]
    /\ UNCHANGED disk

FixManually(c) ==
    /\ pc = "down" /\ ~Readable(disk[c])
    /\ disk' = [disk EXCEPT ![c] = Spoilt("absent")]
    /\ stop' = [stop EXCEPT !.clean = FALSE]
    /\ UNCHANGED <<mem, pc, at, faults>>

Next ==
    \/ Start \/ StartFails \/ Skip \/ Load \/ LoadFails
    \/ PrepareShutdown \/ DumpRefused \/ DumpOpen \/ DumpOpenFails
    \/ DumpClose \/ DumpWriteFails \/ SecondProcess \/ Crash
    \/ \E c \in Names : Change(c) \/ FixManually(c)

Spec == Init /\ [][Next]_vars

(* The process goes on by itself, a stopped node is started again, and an  *)
(* operator looks after a file the log asks to fix.                        *)
Fairness ==
    /\ WF_vars(Start) /\ WF_vars(Skip) /\ WF_vars(Load) /\ WF_vars(LoadFails)
    /\ WF_vars(DumpRefused) /\ WF_vars(DumpOpen) /\ WF_vars(DumpClose)
    /\ \A c \in Names : SF_vars(FixManually(c))

FairSpec == Spec /\ Fairness

-----------------------------------------------------------------------------
(* Properties.                                                             *)

TypeOK ==
    /\ disk \in [Names -> File]
    /\ mem \in [Names -> Version]
    /\ pc \in {"down", "load", "up", "dump", "write"}
    /\ at \in DOMAIN Cache
    /\ faults \in 0..MaxFaults
    /\ stop \in [clean : BOOLEAN, mem : [Names -> Version]]

\* However the process dies or its writes fail, each such fault damages at most
\* one file (and one more is truncated while it is being written).
DamageIsBounded ==
    Cardinality({c \in Names : disk[c].kind = "cut"})
        <= faults + (IF pc = "write" THEN 1 ELSE 0)

\* After a shutdown in which every dump went well the next start finds exactly
\* the caches the node had.
CleanStopRestores ==
    pc = "down" /\ stop.clean => \A c \in Names : disk[c] = Whole(stop.mem[c])

\* The program never writes over a file it cannot read: only a hand removes it.
DamagedFilesKept ==
    [][\A c \in Names :
          ~Readable(disk[c]) /\ ~(pc = "write" /\ c = Cache[at])
             => disk'[c] \in {disk[c], Spoilt("absent")}]_vars

\* A node whose damaged files are looked after always comes up again.
ComesUp == []<>(pc = "up")
=============================================================================
