----------------------- MODULE MasternodeCache_proofs -----------------------
(***************************************************************************)
(* Proofs about the masternode list and about the cache files that carry   *)
(* it over a restart.  CacheFiles: for any number of files and faults, a   *)
(* fault damages one file, a clean stop is restored and a file that cannot *)
(* be read is left alone.  MasternodeList: for any masternodes, peers and  *)
(* times, news only replaces older news, an expired entry comes back with  *)
(* a new start or a quorum only, and a peer answers a recovery once.       *)
(*                                                                         *)
(* The two components share no variable; they meet in a clean stop, which  *)
(* MasternodeList's Restart takes to bring its entries back and CacheFiles *)
(* shows to do so.                                                         *)
(***************************************************************************)
EXTENDS CacheFiles, MasternodeList, FiniteSetTheorems, SequenceTheorems, TLAPS

-----------------------------------------------------------------------------
(* Files and caches.                                                       *)

LEMMA FilesAreFiles ==
    /\ \A v \in Version : Whole(v) \in File
    /\ \A k \in Kinds \ {"whole"} : Spoilt(k) \in File
    /\ 0 \in Version
BY CacheAssumption DEF Whole, Spoilt, File, Kinds, Version

LEMMA ReadableFiles ==
    ASSUME NEW f \in File
    PROVE  /\ Readable(f) <=> f.kind \in {"whole", "absent", "oldformat"}
           /\ Contents(f) \in Version
<1>1. f.kind \in Kinds /\ f.version \in Version
  BY DEF File
<1>2. /\ f.kind = "whole" => ReadResult(f) = "Ok"
      /\ f.kind = "absent" => ReadResult(f) = "FileError"
      /\ f.kind = "cut" => ReadResult(f) = "IncorrectHash"
      /\ f.kind = "foreign" => ReadResult(f) = "IncorrectMagic"
      /\ f.kind = "oldformat" => ReadResult(f) = "IncorrectFormat"
  BY DEF ReadResult
<1> QED
  BY <1>1, <1>2, FilesAreFiles DEF Readable, Contents, Kinds

LEMMA CacheNames ==
    /\ Len(Cache) \in Nat \ {0} /\ DOMAIN Cache = 1..Len(Cache)
    /\ \A i \in DOMAIN Cache : Cache[i] \in Names
    /\ \A c \in Names : \E i \in DOMAIN Cache : c = Cache[i]
    /\ First \in Names
<1>1. Len(Cache) \in Nat \ {0} /\ DOMAIN Cache = 1..Len(Cache)
  BY CacheAssumption
<1> QED
  BY <1>1, CacheAssumption DEF Names

LEMMA NamesFinite == IsFiniteSet(Names)
<1>1. IsFiniteSet(DOMAIN Cache)
  BY CacheNames, FS_Interval
<1>2. Cache \in [DOMAIN Cache -> Names]
  BY CacheNames, CacheAssumption
<1>3. Cache \in Surjection(DOMAIN Cache, Names)
  BY <1>2, CacheNames DEF Surjection
<1> QED
  BY <1>1, <1>3, FS_Surjection

-----------------------------------------------------------------------------
(* Types.                                                                  *)

LEMMA TypeInit == Init => TypeOK
<1> SUFFICES ASSUME Init PROVE TypeOK
  OBVIOUS
<1>1. disk \in [Names -> File]
  BY FilesAreFiles DEF Init, Kinds
<1>2. Empty \in [Names -> Version]
  BY FilesAreFiles DEF Empty
<1> QED
  BY <1>1, <1>2, CacheNames, CacheAssumption DEF Init, TypeOK

LEMMA AfterLoadTypes ==
    ASSUME at \in DOMAIN Cache, AfterLoad
    PROVE  pc' \in {"load", "up"} /\ at' \in DOMAIN Cache
BY CacheNames DEF AfterLoad

\* What ends the dump of one cache.
LEMMA AfterDumpTypes ==
    ASSUME TypeOK, NEW fine \in BOOLEAN, AfterDump(fine)
    PROVE  /\ pc' \in {"dump", "down"} /\ at' \in DOMAIN Cache
           /\ stop' \in [clean : BOOLEAN, mem : [Names -> Version]]
           /\ stop'.clean = (fine /\ (at = 1 \/ stop.clean))
           /\ pc' = "dump" => at' = at + 1
           /\ pc' = "down" => at = Len(Cache) /\ stop'.mem = mem
<1> DEFINE good == fine /\ (at = 1 \/ stop.clean)
<1>1. good \in BOOLEAN /\ at \in 1..Len(Cache) /\ mem \in [Names -> Version]
  BY CacheNames DEF TypeOK
<1>2. CASE at < Len(Cache)
  <2>1. stop' = [stop EXCEPT !.clean = good] /\ pc' = "dump" /\ at' = at + 1
    BY <1>2 DEF AfterDump
  <2> QED
    BY <2>1, <1>1, <1>2, CacheNames DEF TypeOK
<1>3. CASE ~(at < Len(Cache))
  <2>1. stop' = [clean |-> good, mem |-> mem] /\ pc' = "down" /\ at' = 1
    BY <1>3 DEF AfterDump
  <2> QED
    BY <2>1, <1>1, <1>3, CacheNames
<1> QED
  BY <1>2, <1>3

LEMMA TypeStep == TypeOK /\ [Next]_vars => TypeOK'
<1> SUFFICES ASSUME TypeOK, [Next]_vars PROVE TypeOK'
  OBVIOUS
<1> USE DEF TypeOK
<1>0. /\ Empty \in [Names -> Version]
      /\ Cache[at] \in Names /\ 1 \in DOMAIN Cache
  BY FilesAreFiles, CacheNames DEF Empty
<1>f. ASSUME Fault PROVE faults' \in 0..MaxFaults
  BY <1>f, CacheAssumption DEF Fault
<1>1. CASE Start
  BY <1>1, <1>0 DEF Start
<1>2. CASE StartFails
  BY <1>2, <1>0, <1>f DEF StartFails
<1>3. CASE Skip
  BY <1>3, AfterLoadTypes DEF Skip
<1>4. CASE Load
  <2>1. Contents(disk[Cache[at]]) \in Version
    BY <1>0, ReadableFiles
  <2> QED
    BY <1>4, <1>0, <2>1, AfterLoadTypes DEF Load
<1>5. CASE LoadFails
  BY <1>5, <1>0 DEF LoadFails
<1>6. CASE PrepareShutdown
  BY <1>6, <1>0 DEF PrepareShutdown
<1>7. CASE DumpRefused
  BY <1>7, AfterDumpTypes DEF DumpRefused
<1>8. CASE DumpOpen
  BY <1>8, <1>0, FilesAreFiles DEF DumpOpen, Kinds
<1>9. CASE DumpOpenFails
  BY <1>9, <1>f, AfterDumpTypes DEF DumpOpenFails
<1>10. CASE DumpClose
  <2>1. disk' \in [Names -> File]
    BY <1>10, <1>0, FilesAreFiles DEF DumpClose, Serialized
  <2> QED
    BY <1>10, <2>1, AfterDumpTypes DEF DumpClose
<1>11. CASE DumpWriteFails
  BY <1>11, <1>f, AfterDumpTypes DEF DumpWriteFails
<1>12. CASE SecondProcess
  BY <1>12, <1>f, FilesAreFiles DEF SecondProcess
<1>13. CASE Crash
  BY <1>13, <1>0, <1>f DEF Crash
<1>14. ASSUME NEW c \in Names, Change(c) PROVE TypeOK'
  BY <1>14, CacheAssumption DEF Change, Version
<1>15. ASSUME NEW c \in Names, FixManually(c) PROVE TypeOK'
  BY <1>15, FilesAreFiles DEF FixManually, Kinds
<1>16. CASE UNCHANGED vars
  BY <1>16 DEF vars
<1> QED
  BY <1>1, <1>2, <1>3, <1>4, <1>5, <1>6, <1>7, <1>8, <1>9, <1>10, <1>11, <1>12, <1>13,
     <1>14, <1>15, <1>16 DEF Next

\* Files, caches and the process keep their types, for any number of files.
THEOREM TypeCorrect == Spec => []TypeOK
<1> QED
  BY TypeInit, TypeStep, PTL DEF Spec

-----------------------------------------------------------------------------
(* Damaged files.                                                          *)

Cut == {c \in Names : disk[c].kind = "cut"}

\* The file that is being written is the one that may be cut for free.
WritesCut == pc = "write" => disk[Cache[at]].kind = "cut"

LEMMA SomeNames ==
    ASSUME NEW S \in SUBSET Names
    PROVE  /\ IsFiniteSet(S) /\ Cardinality(S) \in Nat
           /\ \A T \in SUBSET S : Cardinality(T) <= Cardinality(S)
<1>1. IsFiniteSet(S) /\ Cardinality(S) \in Nat
  BY NamesFinite, FS_Subset, FS_CardinalityType
<1> QED
  BY <1>1, FS_Subset

LEMMA CutInit == Init => DamageIsBounded /\ WritesCut
<1> SUFFICES ASSUME Init PROVE DamageIsBounded /\ WritesCut
  OBVIOUS
<1>1. {c \in Names : disk[c].kind = "cut"} = {}
  BY DEF Init, Spoilt
<1> QED
  BY <1>1, FS_EmptySet DEF Init, DamageIsBounded, WritesCut

\* A step that cuts no file.
LEMMA NoMoreCut ==
    ASSUME TypeOK, DamageIsBounded, TypeOK', Cut' \subseteq Cut,
           faults' >= faults + (IF pc = "write" THEN 1 ELSE 0) - (IF pc' = "write" THEN 1 ELSE 0)
    PROVE  DamageIsBounded'
<1>1. Cardinality(Cut') <= Cardinality(Cut) /\ Cardinality(Cut') \in Nat
  <2>1. Cut \in SUBSET Names /\ Cut' \in SUBSET Names
    BY DEF Cut
  <2> QED
    BY <2>1, SomeNames
<1>2. Cardinality(Cut) <= faults + (IF pc = "write" THEN 1 ELSE 0)
  BY DEF DamageIsBounded, Cut
<1>3. faults \in Nat /\ faults' \in Nat /\ Cardinality(Cut) \in Nat
  <2>1. Cut \in SUBSET Names
    BY DEF Cut
  <2> QED
    BY <2>1, SomeNames, CacheAssumption DEF TypeOK
<1> QED
  BY <1>1, <1>2, <1>3 DEF DamageIsBounded, Cut

LEMMA CutStep ==
    TypeOK /\ TypeOK' /\ DamageIsBounded /\ WritesCut /\ [Next]_vars
        => DamageIsBounded' /\ WritesCut'
<1> SUFFICES ASSUME TypeOK, TypeOK', DamageIsBounded, WritesCut, [Next]_vars
             PROVE  DamageIsBounded' /\ WritesCut'
  OBVIOUS
<1>0. /\ faults \in Nat /\ Cache[at] \in Names
      /\ disk \in [Names -> File] /\ disk' \in [Names -> File]
  BY CacheNames, CacheAssumption DEF TypeOK
<1>c. IsFiniteSet(Cut) /\ Cardinality(Cut) \in Nat
  <2>1. Cut \in SUBSET Names
    BY DEF Cut
  <2> QED
    BY <2>1, SomeNames
<1>r. \A c \in Names : disk[c].kind = "cut" => ~Readable(disk[c])
  BY <1>0, ReadableFiles
\* Steps that leave the files alone and do not open one.
<1>a. ASSUME disk' = disk, pc' # "write",
             faults' = faults + 1 \/ (faults' = faults /\ pc # "write")
      PROVE  DamageIsBounded' /\ WritesCut'
  <2>1. Cut' = Cut
    BY <1>a DEF Cut
  <2> QED
    BY <1>a, <1>0, <2>1, NoMoreCut DEF WritesCut
<1>1. CASE Start
  BY <1>1, <1>a DEF Start
<1>2. CASE StartFails
  BY <1>2, <1>a DEF StartFails, Fault
<1>3. CASE Skip
  BY <1>3, <1>a, AfterLoadTypes DEF Skip, TypeOK
<1>4. CASE Load
  BY <1>4, <1>a, AfterLoadTypes DEF Load, TypeOK
<1>5. CASE LoadFails
  BY <1>5, <1>a DEF LoadFails
<1>6. CASE PrepareShutdown
  BY <1>6, <1>a DEF PrepareShutdown
<1>7. CASE DumpRefused
  <2>1. pc' # "write"
    BY <1>7, AfterDumpTypes DEF DumpRefused
  <2> QED
    BY <1>7, <2>1, <1>a DEF DumpRefused
<1>8. CASE DumpOpen
  <2>1. Cut' = Cut \cup {Cache[at]}
    BY <1>8, <1>0 DEF DumpOpen, Cut, Spoilt
  <2>2. Cardinality(Cut') <= Cardinality(Cut) + 1
    BY <2>1, <1>c, FS_AddElement
  <2>3. Cardinality(Cut) <= faults
    BY <1>8, <1>0 DEF DumpOpen, DamageIsBounded, Cut
  <2>4. Cardinality(Cut) \in Nat /\ Cardinality(Cut') \in Nat
    BY <2>1, <1>c, FS_AddElement, FS_CardinalityType
  <2>5. DamageIsBounded'
    BY <1>8, <1>0, <2>2, <2>3, <2>4 DEF DumpOpen, DamageIsBounded, Cut
  <2> QED
    BY <1>8, <1>0, <2>5 DEF DumpOpen, WritesCut, Spoilt
<1>9. CASE DumpOpenFails
  <2>1. pc' # "write"
    BY <1>9, AfterDumpTypes DEF DumpOpenFails
  <2> QED
    BY <1>9, <2>1, <1>a DEF DumpOpenFails, Fault
<1>10. CASE DumpClose
  <2>1. pc' # "write" /\ pc = "write" /\ faults' = faults
    BY <1>10, AfterDumpTypes DEF DumpClose
  <2>2. Cache[at] \in Cut
    BY <1>0, <2>1 DEF WritesCut, Cut
  <2>3. Cut' = Cut \ {Cache[at]}
    BY <1>10, <1>0 DEF DumpClose, Serialized, Whole, Cut
  <2>4. Cardinality(Cut') = Cardinality(Cut) - 1
    BY <2>2, <2>3, <1>c, FS_RemoveElement
  <2>5. Cardinality(Cut) <= faults + 1
    BY <2>1 DEF DamageIsBounded, Cut
  <2>6. DamageIsBounded'
    BY <1>0, <2>1, <2>4, <2>5, <1>c DEF DamageIsBounded, Cut
  <2> QED
    BY <2>1, <2>6 DEF WritesCut
<1>11. CASE DumpWriteFails
  <2>1. pc' # "write"
    BY <1>11, AfterDumpTypes DEF DumpWriteFails
  <2> QED
    BY <1>11, <2>1, <1>a DEF DumpWriteFails, Fault
<1>12. CASE SecondProcess
  <2>1. Cut' \subseteq Cut
    BY <1>12, <1>0, <1>r DEF SecondProcess, Cut, Whole
  <2> QED
    BY <1>12, <1>0, <2>1, NoMoreCut DEF SecondProcess, Fault, WritesCut
<1>13. CASE Crash
  BY <1>13, <1>a DEF Crash, Fault
<1>14. ASSUME NEW c \in Names, Change(c) PROVE DamageIsBounded' /\ WritesCut'
  BY <1>14, <1>a DEF Change
<1>15. ASSUME NEW c \in Names, FixManually(c) PROVE DamageIsBounded' /\ WritesCut'
  <2>1. Cut' \subseteq Cut
    BY <1>15, <1>0 DEF FixManually, Cut, Spoilt
  <2> QED
    BY <1>15, <1>0, <2>1, NoMoreCut DEF FixManually, WritesCut
<1>16. CASE UNCHANGED vars
  BY <1>16 DEF vars, DamageIsBounded, WritesCut
<1> QED
  BY <1>1, <1>2, <1>3, <1>4, <1>5, <1>6, <1>7, <1>8, <1>9, <1>10, <1>11, <1>12, <1>13,
     <1>14, <1>15, <1>16 DEF Next

\* For any caches and any number of crashes, failed writes and failed starts,
\* each of them leaves at most one damaged file.
THEOREM OneFilePerFault == Spec => []DamageIsBounded
<1>1. Init => TypeOK /\ DamageIsBounded /\ WritesCut
  BY TypeInit, CutInit
<1>2. TypeOK /\ DamageIsBounded /\ WritesCut /\ [Next]_vars
        => (TypeOK /\ DamageIsBounded /\ WritesCut)'
  BY TypeStep, CutStep
<1> QED
  BY <1>1, <1>2, PTL DEF Spec

-----------------------------------------------------------------------------
(* A clean stop.                                                           *)

\* While a dump goes well, the files up to the one in work are what is in memory.
DumpedSoFar ==
    pc \in {"dump", "write"} /\ at # 1 /\ stop.clean
        => \A i \in DOMAIN Cache : i < at => disk[Cache[i]] = Whole(mem[Cache[i]])

LEMMA RestoreStep ==
    TypeOK /\ TypeOK' /\ DumpedSoFar /\ CleanStopRestores /\ [Next]_vars
        => DumpedSoFar' /\ CleanStopRestores'
<1> SUFFICES ASSUME TypeOK, TypeOK', DumpedSoFar, CleanStopRestores, [Next]_vars
             PROVE  DumpedSoFar' /\ CleanStopRestores'
  OBVIOUS
<1>0. /\ Cache[at] \in Names /\ at \in 1..Len(Cache) /\ Len(Cache) \in Nat
      /\ disk \in [Names -> File]
  BY CacheNames DEF TypeOK
\* The dump of a cache ends badly, or the process is where nothing is promised.
<1>a. ASSUME AfterDump(FALSE) PROVE DumpedSoFar' /\ CleanStopRestores'
  <2>1. ~stop'.clean
    BY <1>a, AfterDumpTypes
  <2> QED
    BY <2>1 DEF DumpedSoFar, CleanStopRestores
<1>b. ASSUME pc' \in {"load", "up"} \/ (pc' = "dump" /\ at' = 1) \/ ~stop'.clean
      PROVE  DumpedSoFar' /\ CleanStopRestores'
  BY <1>b DEF DumpedSoFar, CleanStopRestores
<1>1. CASE Start
  BY <1>1, <1>b DEF Start
<1>2. CASE StartFails
  BY <1>2, <1>b DEF StartFails
<1>3. CASE Skip
  BY <1>3, <1>b, AfterLoadTypes DEF Skip, TypeOK
<1>4. CASE Load
  BY <1>4, <1>b, AfterLoadTypes DEF Load, TypeOK
<1>5. CASE LoadFails
  BY <1>5, <1>b DEF LoadFails
<1>6. CASE PrepareShutdown
  BY <1>6, <1>b DEF PrepareShutdown
<1>7. CASE DumpRefused
  BY <1>7, <1>a DEF DumpRefused
<1>8. CASE DumpOpen
  <2>1. \A i \in DOMAIN Cache : i < at => Cache[i] # Cache[at]
    BY <1>0, CacheNames, CacheAssumption
  <2> QED
    BY <1>8, <1>0, <2>1, CacheNames DEF DumpOpen, DumpedSoFar, CleanStopRestores
<1>9. CASE DumpOpenFails
  BY <1>9, <1>a DEF DumpOpenFails
<1>10. CASE DumpClose
  <2>1. /\ pc = "write" /\ mem' = mem /\ AfterDump(TRUE)
        /\ disk' = [disk EXCEPT ![Cache[at]] = Whole(mem[Cache[at]])]
    BY <1>10 DEF DumpClose, Serialized
  <2>2. CASE ~stop'.clean
    BY <2>2, <1>b
  <2>3. CASE stop'.clean
    <3>1. at = 1 \/ stop.clean
      BY <2>1, <2>3, AfterDumpTypes
    <3>2. \A i \in DOMAIN Cache : i < at => disk[Cache[i]] = Whole(mem[Cache[i]])
      BY <2>1, <3>1, <1>0, CacheNames DEF DumpedSoFar
    <3>3. \A i \in DOMAIN Cache : i <= at => disk'[Cache[i]] = Whole(mem[Cache[i]])
      <4> SUFFICES ASSUME NEW i \in DOMAIN Cache, i <= at
                   PROVE  disk'[Cache[i]] = Whole(mem[Cache[i]])
        OBVIOUS
      <4>1. CASE Cache[i] = Cache[at]
        BY <4>1, <2>1, <1>0
      <4>2. CASE Cache[i] # Cache[at]
        <5>1. i < at /\ Cache[i] \in Names
          BY <4>2, <1>0, CacheNames
        <5> QED
          BY <4>2, <5>1, <2>1, <3>2, <1>0
      <4> QED
        BY <4>1, <4>2
    <3>4. CASE pc' = "dump"
      <4>1. at' = at + 1
        BY <3>4, <2>1, AfterDumpTypes
      <4> QED
        BY <3>4, <4>1, <3>3, <2>1, <1>0, CacheNames DEF DumpedSoFar, CleanStopRestores
    <3>5. CASE pc' = "down"
      <4>1. at = Len(Cache) /\ stop'.mem = mem
        BY <3>5, <2>1, AfterDumpTypes
      <4>2. \A c \in Names : disk'[c] = Whole(mem[c])
        BY <4>1, <3>3, CacheNames
      <4> QED
        BY <3>5, <4>1, <4>2 DEF DumpedSoFar, CleanStopRestores
    <3> QED
      BY <2>1, <3>4, <3>5, AfterDumpTypes
  <2> QED
    BY <2>2, <2>3
<1>11. CASE DumpWriteFails
  BY <1>11, <1>a DEF DumpWriteFails
<1>12. CASE SecondProcess
  BY <1>12, <1>b DEF SecondProcess
<1>13. CASE Crash
  <2>1. ~stop'.clean
    BY <1>13 DEF Crash, TypeOK
  <2> QED
    BY <2>1, <1>b
<1>14. ASSUME NEW c \in Names, Change(c) PROVE DumpedSoFar' /\ CleanStopRestores'
  BY <1>14, <1>b DEF Change
<1>15. ASSUME NEW c \in Names, FixManually(c) PROVE DumpedSoFar' /\ CleanStopRestores'
  <2>1. ~stop'.clean
    BY <1>15 DEF FixManually, TypeOK
  <2> QED
    BY <2>1, <1>b
<1>16. CASE UNCHANGED vars
  BY <1>16 DEF vars, DumpedSoFar, CleanStopRestores
<1> QED
  BY <1>1, <1>2, <1>3, <1>4, <1>5, <1>6, <1>7, <1>8, <1>9, <1>10, <1>11, <1>12, <1>13,
     <1>14, <1>15, <1>16 DEF Next

\* After a shutdown whose dumps all went well, the files hold the caches the
\* node had, for any caches and however earlier processes ended.
THEOREM CleanStop == Spec => []CleanStopRestores
<1>1. Init => TypeOK /\ DumpedSoFar /\ CleanStopRestores
  BY TypeInit DEF Init, DumpedSoFar, CleanStopRestores
<1>2. TypeOK /\ DumpedSoFar /\ CleanStopRestores /\ [Next]_vars
        => (TypeOK /\ DumpedSoFar /\ CleanStopRestores)'
  BY TypeStep, RestoreStep
<1> QED
  BY <1>1, <1>2, PTL DEF Spec

-----------------------------------------------------------------------------
(* Files that cannot be read.                                              *)

LEMMA KeepStep ==
    ASSUME TypeOK, [Next]_vars, NEW c \in Names,
           ~Readable(disk[c]), ~(pc = "write" /\ c = Cache[at])
    PROVE  disk'[c] \in {disk[c], Spoilt("absent")}
<1>0. Cache[at] \in Names /\ disk \in [Names -> File]
  BY CacheNames DEF TypeOK
<1>1. CASE disk' = disk
  BY <1>1
<1>2. CASE DumpOpen
  BY <1>2, <1>0 DEF DumpOpen
<1>3. CASE DumpClose
  BY <1>3, <1>0 DEF DumpClose
<1>4. CASE SecondProcess
  BY <1>4, <1>0 DEF SecondProcess
<1>5. ASSUME NEW d \in Names, FixManually(d) PROVE disk'[c] \in {disk[c], Spoilt("absent")}
  BY <1>5, <1>0 DEF FixManually
<1> QED
  BY <1>1, <1>2, <1>3, <1>4, <1>5
  DEF Next, vars, Start, StartFails, Skip, Load, LoadFails, PrepareShutdown, DumpRefused,
      DumpOpenFails, DumpWriteFails, Crash, Change

\* No start, shutdown or failure of the program overwrites a file it cannot read.
THEOREM UnreadableFilesKept == Spec => DamagedFilesKept
<1>1. TypeOK /\ [Next]_vars
        => [\A c \in Names :
              ~Readable(disk[c]) /\ ~(pc = "write" /\ c = Cache[at])
                 => disk'[c] \in {disk[c], Spoilt("absent")}]_vars
  BY KeepStep
<1> QED
  BY <1>1, TypeCorrect, PTL DEF Spec, DamagedFilesKept

-----------------------------------------------------------------------------
(* Induction and recursion over an interval.                               *)

LEMMA IntervalInduction ==
    ASSUME NEW n \in Nat, NEW G \in SUBSET (0..n),
           0 \in G, \A k \in G : k < n => k + 1 \in G
    PROVE  G = 0..n
<1> SUFFICES ASSUME NEW m \in (0..n) \ G PROVE FALSE
  OBVIOUS
<1> DEFINE below == {k \in G : k < m}
           next == [k \in below |-> k + 1]
<1>1. IsFiniteSet(below)
  <2>1. IsFiniteSet(0..n)
    BY FS_Interval
  <2> QED
    BY <2>1, FS_Subset
<1>2. next \in Injection(below, below)
  <2>1. \A k \in below : k + 1 \in below
    OBVIOUS
  <2>2. next \in [below -> below]
    BY <2>1
  <2>3. \A a, b \in DOMAIN next : next[a] = next[b] => a = b
    OBVIOUS
  <2> HIDE DEF below, next
  <2> QED
    BY <2>2, <2>3 DEF Injection, IsInjective
<1>3. next \in Surjection(below, below)
  BY <1>1, <1>2, FS_Injection
<1>4. \E k \in below : next[k] = 0
  <2>1. 0 \in below
    OBVIOUS
  <2> QED
    BY <1>3, <2>1 DEF Surjection
<1> QED
  BY <1>4

\* f is the run of step from s0.
Runs(f, S, n, s0, step) ==
    f \in [0..n -> S] /\ \A i \in 0..n : f[i] = IF i = 0 THEN s0 ELSE step[i][f[i - 1]]

LEMMA IntervalRecursion ==
    ASSUME NEW S, NEW n \in Nat, NEW s0 \in S, NEW step,
           \A i \in 1..n : \A s \in S : step[i][s] \in S
    PROVE  \E f : Runs(f, S, n, s0, step)
<1> DEFINE Upto(f, k) == \A i \in 0..n : i <= k => f[i] = IF i = 0 THEN s0 ELSE step[i][f[i - 1]]
           G == {k \in 0..n : \E f \in [0..n -> S] : Upto(f, k)}
<1> HIDE DEF Upto
<1>1. 0 \in G
  <2> DEFINE f == [i \in 0..n |-> s0]
  <2>1. f \in [0..n -> S] /\ Upto(f, 0)
    BY DEF Upto
  <2> HIDE DEF f
  <2> QED
    BY <2>1
<1>2. \A k \in G : k < n => k + 1 \in G
  <2> SUFFICES ASSUME NEW k \in G, k < n PROVE \E g \in [0..n -> S] : Upto(g, k + 1)
    OBVIOUS
  <2>1. PICK f \in [0..n -> S] : Upto(f, k)
    OBVIOUS
  <2> DEFINE g == [f EXCEPT ![k + 1] = step[k + 1][f[k]]]
  <2>2. step[k + 1][f[k]] \in S /\ k + 1 \in 0..n
    BY <2>1
  <2>3. g \in [0..n -> S]
    BY <2>1, <2>2
  <2>4. Upto(g, k + 1)
    <3> SUFFICES ASSUME NEW i \in 0..n, i <= k + 1
                 PROVE  g[i] = IF i = 0 THEN s0 ELSE step[i][g[i - 1]]
      BY DEF Upto
    <3>1. CASE i = k + 1
      BY <2>1, <2>2, <3>1
    <3>2. CASE i <= k
      BY <2>1, <2>2, <3>2 DEF Upto
    <3> QED
      BY <3>1, <3>2
  <2> HIDE DEF g
  <2> QED
    BY <2>3, <2>4
<1>3. G = 0..n
  <2>1. G \in SUBSET (0..n)
    OBVIOUS
  <2> HIDE DEF G
  <2> QED
    BY <1>1, <1>2, <2>1, IntervalInduction
<1>4. PICK f \in [0..n -> S] : Upto(f, n)
  BY <1>3
<1>5. Runs(f, S, n, s0, step)
  BY <1>4 DEF Upto, Runs
<1> QED
  BY <1>5

-----------------------------------------------------------------------------
(* The list: what its maps hold.                                           *)

Entry == [state : State, sig : SigTimes, ping : PingTimes,
          score : (-BAN_MAX_SCORE)..BAN_MAX_SCORE, until : Nat]
Broadcasts == [ping : PingTimes \cup {0}, real : BOOLEAN]
Answer == [peer : Peer, ping : PingTimes]
Answers == Seq(Answer)

Entries == UNION {[D -> Entry] : D \in SUBSET MN}
Seen == UNION {[D -> Broadcasts] : D \in SUBSET (MN \X SigTimes)}
Work == [entries : Entries, seen : Seen, pings : SUBSET (MN \X PingTimes)]

\* What Check and the handlers read besides their arguments.
Surroundings ==
    /\ now \in Nat /\ height \in Nat /\ unspent \subseteq MN /\ synced \in BOOLEAN
    /\ Listed \subseteq MN

ListTypes ==
    /\ now \in 1..MaxTime /\ height \in Nat /\ unspent \subseteq MN /\ synced \in BOOLEAN
    /\ entries \in Entries /\ seen \in Seen /\ seenPing \subseteq MN \X PingTimes
    /\ DOMAIN requests \subseteq MN \X SigTimes /\ DOMAIN replies \subseteq DOMAIN requests
    /\ requests \in [DOMAIN requests -> [until : Nat, peers : SUBSET Peer]]
    /\ replies \in [DOMAIN replies -> Answers]

\* A peer answers once: who is among the answers is not asked any more.
AnsweredOnce ==
    \A h \in DOMAIN replies :
        /\ \A i, j \in DOMAIN replies[h] : replies[h][i].peer = replies[h][j].peer => i = j
        /\ \A i \in DOMAIN replies[h] : replies[h][i].peer \notin requests[h].peers

ListInv == ListTypes /\ AnsweredOnce

LEMMA ListNumbers ==
    /\ SigTimes \subseteq Nat /\ PingTimes \subseteq Nat
    /\ MIN_MNP \in Nat /\ MNP_SLACK \in Nat /\ MIN_MNP - MNP_SLACK > 0 /\ MIN_MNB \in Nat
    /\ BAN_MAX_SCORE \in Nat /\ QUORUM_REQUIRED \in Nat \ {0}
    /\ RECOVERY_WAIT \in Nat /\ RECOVERY_RETRY \in Nat /\ MaxTime \in Nat
    /\ NEW_START \in Nat /\ EXPIRATION \in Nat
BY ListAssumption

\* What is in these sets of maps, and which maps are.
LEMMA EntriesAre ==
    /\ \A f \in Entries : DOMAIN f \subseteq MN /\ f = [x \in DOMAIN f |-> f[x]]
                          /\ \A x \in DOMAIN f : f[x] \in Entry
    /\ \A D \in SUBSET MN : \A f \in [D -> Entry] : f \in Entries
BY DEF Entries

LEMMA SeenAre ==
    /\ \A f \in Seen : DOMAIN f \subseteq MN \X SigTimes /\ f = [x \in DOMAIN f |-> f[x]]
                       /\ \A x \in DOMAIN f : f[x] \in Broadcasts
    /\ \A D \in SUBSET (MN \X SigTimes) : \A f \in [D -> Broadcasts] : f \in Seen
BY DEF Seen

LEMMA TypesHold == ListTypes => ListTypeOK /\ Surroundings
<1> SUFFICES ASSUME ListTypes PROVE ListTypeOK /\ Surroundings
  OBVIOUS
<1>1. now \in Nat
  BY ListNumbers DEF ListTypes
<1>2. /\ Listed \subseteq MN /\ \A m \in Listed : entries[m] \in Entry
      /\ DOMAIN seen \subseteq MN \X SigTimes /\ \A h \in DOMAIN seen : seen[h] \in Broadcasts
  BY EntriesAre, SeenAre DEF ListTypes, Listed
<1>3. /\ \A h \in DOMAIN requests : requests[h] \in [until : Nat, peers : SUBSET Peer]
      /\ \A h \in DOMAIN replies : replies[h] \in Answers
  BY DEF ListTypes
<1> QED
  BY <1>1, <1>2, <1>3 DEF ListTypes, ListTypeOK, Surroundings, Entry, Broadcasts, Answers, Answer

\* The end of Check decides the state and nothing else.
LEMMA ByAgeType ==
    ASSUME Surroundings, NEW e \in Entry
    PROVE  ByAge(e) \in Entry /\ ByAge(e).sig = e.sig /\ ByAge(e).ping = e.ping
           /\ (ByAge(e).state = "OUTPOINT_SPENT" => e.state = "OUTPOINT_SPENT")
<1>1. Alive(e) \in Entry /\ Alive(e).sig = e.sig /\ Alive(e).ping = e.ping
      /\ Alive(e).state # "OUTPOINT_SPENT"
  BY DEF Alive, Entry, State
<1>2. ASSUME NEW s \in {"NEW_START_REQUIRED", "EXPIRED"}
      PROVE  /\ [e EXCEPT !.state = s] \in Entry
             /\ [e EXCEPT !.state = s].sig = e.sig /\ [e EXCEPT !.state = s].ping = e.ping
             /\ [e EXCEPT !.state = s].state # "OUTPOINT_SPENT"
  BY DEF Entry, State
<1>3. ByAge(e) \in {e, Alive(e), [e EXCEPT !.state = "NEW_START_REQUIRED"],
                    [e EXCEPT !.state = "EXPIRED"]}
  BY DEF ByAge
<1> QED
  BY <1>1, <1>2, <1>3

\* Check keeps signature and ping times; an entry becomes spent only with its collateral.
LEMMA CheckType ==
    ASSUME Surroundings, NEW m, NEW e \in Entry
    PROVE  /\ Check(m, e) \in Entry /\ Check(m, e).sig = e.sig /\ Check(m, e).ping = e.ping
           /\ Check(m, e).state = "OUTPOINT_SPENT" =>
                 e.state = "OUTPOINT_SPENT" \/ m \notin unspent
<1>1. Cardinality(Listed) \in Nat
  BY ListAssumption, FS_Subset, FS_CardinalityType DEF Surroundings
<1> DEFINE spent == [e EXCEPT !.state = "OUTPOINT_SPENT"]
           lower == [e EXCEPT !.score = IF @ > -BAN_MAX_SCORE THEN @ - 1 ELSE @]
           end == height + Cardinality(Listed)
           banned == [e EXCEPT !.state = "POSE_BAN", !.until = end]
<1>2. spent \in Entry /\ spent.sig = e.sig /\ spent.ping = e.ping
  BY DEF Entry, State
<1>3. lower \in Entry /\ lower.sig = e.sig /\ lower.ping = e.ping /\ lower.state = e.state
  BY ListNumbers DEF Entry
<1>4. banned \in Entry /\ banned.sig = e.sig /\ banned.ping = e.ping /\ banned.state = "POSE_BAN"
  <2>1. end \in Nat
    BY <1>1 DEF Surroundings
  <2> HIDE DEF end
  <2> QED
    BY <2>1 DEF Entry, State
<1>5. Check(m, e) = IF e.state = "OUTPOINT_SPENT" THEN e
                    ELSE IF m \notin unspent THEN spent
                    ELSE IF e.state = "POSE_BAN" THEN IF height < e.until THEN e ELSE ByAge(lower)
                    ELSE IF e.score >= BAN_MAX_SCORE THEN banned
                    ELSE ByAge(e)
  BY DEF Check
<1> HIDE DEF spent, lower, banned
<1> QED
  BY <1>2, <1>3, <1>4, <1>5, ByAgeType

\* Update takes neither an older signature nor an earlier ping; it renews the ping only with
\* the signature it is given, an equal one only in recovery.
LEMMA UpdateType ==
    ASSUME Surroundings, NEW m, NEW e \in Entry, NEW s \in SigTimes, NEW p \in PingTimes,
           NEW fRecovery \in BOOLEAN, NEW checked \in BOOLEAN, NEW known \in BOOLEAN
    PROVE  LET u == Update(m, e, s, p, fRecovery, checked, known)
           IN /\ u.entry \in Entry /\ u.ok \in BOOLEAN /\ u.pinged \in BOOLEAN
              /\ u.entry.sig >= e.sig /\ u.entry.ping >= e.ping
              /\ u.entry.ping # e.ping =>
                    u.entry.sig = s /\ (s > e.sig \/ (s = e.sig /\ fRecovery))
<1> DEFINE f == IF checked THEN Check(m, e) ELSE e
           pinged == known /\ ~ TooEarly(f, p)
           g == [f EXCEPT !.sig = s, !.score = 0, !.until = 0, !.ping = IF pinged THEN p ELSE @]
           u == Update(m, e, s, p, fRecovery, checked, known)
<1> SUFFICES /\ u.entry \in Entry /\ u.ok \in BOOLEAN /\ u.pinged \in BOOLEAN
             /\ u.entry.sig >= e.sig /\ u.entry.ping >= e.ping
             /\ u.entry.ping # e.ping =>
                   u.entry.sig = s /\ (s > e.sig \/ (s = e.sig /\ fRecovery))
  OBVIOUS
<1>1. f \in Entry /\ f.sig = e.sig /\ f.ping = e.ping
  BY CheckType
<1>2. e.sig \in Nat /\ e.ping \in Nat /\ s \in Nat /\ p \in Nat
  BY ListNumbers DEF Entry
<1>3. pinged \in BOOLEAN /\ (pinged => p > f.ping)
  BY <1>1, <1>2, ListNumbers DEF TooEarly
<1>4. u = IF s < e.sig \/ (s = e.sig /\ ~ fRecovery)
          THEN [entry |-> e, ok |-> FALSE, pinged |-> FALSE]
          ELSE IF Refused(f) THEN [entry |-> f, ok |-> FALSE, pinged |-> FALSE]
          ELSE IF IsBroadcastedWithin(f) THEN [entry |-> f, ok |-> TRUE, pinged |-> FALSE]
          ELSE [entry |-> Check(m, g), ok |-> TRUE, pinged |-> pinged]
  BY DEF Update, UpdateFromNewBroadcast
<1> HIDE DEF u, pinged, f
<1>5. g \in Entry /\ g.sig = s /\ g.ping = IF pinged THEN p ELSE f.ping
  <2> DEFINE q == IF pinged THEN p ELSE f.ping
  <2>1. q \in PingTimes
    BY <1>1 DEF Entry
  <2>2. 0 \in (-BAN_MAX_SCORE)..BAN_MAX_SCORE /\ 0 \in Nat
    BY ListNumbers
  <2>3. g = [f EXCEPT !.sig = s, !.score = 0, !.until = 0, !.ping = q]
    OBVIOUS
  <2> HIDE DEF q, g
  <2>4. g \in Entry /\ g.sig = s /\ g.ping = q
    BY <1>1, <2>1, <2>2, <2>3 DEF Entry
  <2> QED
    BY <2>4 DEF q
<1> HIDE DEF g
<1>6. Check(m, g) \in Entry /\ Check(m, g).sig = s /\ Check(m, g).ping >= e.ping
  BY <1>1, <1>2, <1>3, <1>5, CheckType
<1>7. CASE s < e.sig \/ (s = e.sig /\ ~ fRecovery)
  <2>1. u = [entry |-> e, ok |-> FALSE, pinged |-> FALSE]
    BY <1>4, <1>7
  <2>2. u.entry = e /\ u.ok \in BOOLEAN /\ u.pinged \in BOOLEAN
    BY <2>1
  <2> HIDE DEF u
  <2> QED
    BY <1>2, <2>2
<1>8. CASE ~ (s < e.sig \/ (s = e.sig /\ ~ fRecovery))
  <2>1. s > e.sig \/ (s = e.sig /\ fRecovery)
    BY <1>2, <1>8
  <2>2. /\ u.entry \in {f, Check(m, g)} /\ u.ok \in BOOLEAN /\ u.pinged \in BOOLEAN
    BY <1>3, <1>4, <1>8
  <2>3. CASE u.entry = f
    BY <1>1, <1>2, <2>2, <2>3
  <2>4. CASE u.entry = Check(m, g)
    <3>1. u.entry.sig >= e.sig
      BY <1>2, <1>6, <2>1, <2>4
    <3> QED
      BY <1>6, <2>1, <2>2, <2>4, <3>1
  <2> QED
    BY <2>2, <2>3, <2>4
<1> QED
  BY <1>7, <1>8
-----------------------------------------------------------------------------
(* A broadcast processed.                                                  *)

LEMMA SeenWith ==
    ASSUME NEW f \in Seen, NEW h \in MN \X SigTimes, NEW b \in Broadcasts
    PROVE  With(f, h, b) \in Seen /\ Insert(f, h, b) \in Seen
<1>1. DOMAIN f \cup {h} \in SUBSET (MN \X SigTimes)
  BY SeenAre
<1>2. With(f, h, b) \in [DOMAIN f \cup {h} -> Broadcasts]
  BY SeenAre DEF With
<1>3. With(f, h, b) \in Seen
  BY <1>1, <1>2, SeenAre
<1> QED
  BY <1>3 DEF Insert

LEMMA SeenWithout ==
    ASSUME NEW f \in Seen, NEW H
    PROVE  Without(f, H) \in Seen
<1>1. DOMAIN f \ H \in SUBSET (MN \X SigTimes)
  BY SeenAre
<1>2. Without(f, H) \in [DOMAIN f \ H -> Broadcasts]
  BY SeenAre DEF Without
<1> QED
  BY <1>1, <1>2, SeenAre

LEMMA SeenPinged ==
    ASSUME NEW f \in Seen, NEW h, NEW p \in PingTimes
    PROVE  [f EXCEPT ![h].ping = p] \in Seen
<1> DEFINE b == [f[h] EXCEPT !.ping = p]
           g == [f EXCEPT ![h] = b]
<1>1. [f EXCEPT ![h].ping = p] = g
  OBVIOUS
<1>2. h \in DOMAIN f => b \in Broadcasts
  BY SeenAre DEF Broadcasts
<1> HIDE DEF b
<1>3. g \in [DOMAIN f -> Broadcasts]
  BY <1>2, SeenAre
<1> QED
  BY <1>1, <1>3, SeenAre

LEMMA InsertedType ==
    ASSUME NEW st \in Work, NEW h \in MN \X SigTimes, NEW p \in PingTimes
    PROVE  /\ Inserted(st, h, p) \in Work
           /\ Inserted(st, h, p).entries = st.entries /\ Inserted(st, h, p).pings = st.pings
<1> DEFINE b == [ping |-> p, real |-> TRUE]
<1>1. b \in Broadcasts
  BY DEF Broadcasts
<1>2. st.seen \in Seen
  BY DEF Work
<1> HIDE DEF b
<1>3. Insert(st.seen, h, b) \in Seen
  BY <1>1, <1>2, SeenWith
<1>4. Inserted(st, h, p) = [st EXCEPT !.seen = Insert(st.seen, h, b)]
  BY DEF Inserted, b
<1> QED
  BY <1>3, <1>4 DEF Work

\* A broadcast of m with signature time s, processed: entries get no older; a ping is renewed
\* only of m, by this broadcast; a new entry has its collateral.
Effect(st, new, m, s, fRecovery) ==
    /\ \A n \in DOMAIN st.entries :
          /\ n \in DOMAIN new.entries
          /\ new.entries[n].sig >= st.entries[n].sig /\ new.entries[n].ping >= st.entries[n].ping
          /\ new.entries[n].ping # st.entries[n].ping =>
                /\ n = m /\ new.entries[n].sig = s
                /\ s > st.entries[n].sig \/ (s = st.entries[n].sig /\ fRecovery)
    /\ \A n \in DOMAIN new.entries \ DOMAIN st.entries : n \in unspent

LEMMA UpdateKnownType ==
    ASSUME Surroundings, NEW st \in Work, NEW m \in DOMAIN st.entries, NEW s \in SigTimes,
           NEW p \in PingTimes, NEW fRecovery \in BOOLEAN, NEW checked \in BOOLEAN,
           NEW known \in BOOLEAN
    PROVE  LET new == UpdateKnown(st, m, s, p, fRecovery, checked, known)
           IN new \in Work /\ Effect(st, new, m, s, fRecovery)
<1> DEFINE new == UpdateKnown(st, m, s, p, fRecovery, checked, known)
           hash == <<m, s>>
           old == HashOf(m, st.entries[m])
           u == Update(m, st.entries[m], s, p, fRecovery, checked, known)
           none == [ping |-> 0, real |-> FALSE]
           both == Insert(Inserted(st, hash, p).seen, old, none)
           pinged == IF u.pinged THEN [both EXCEPT ![hash].ping = p] ELSE both
           e == [st.entries EXCEPT ![m] = u.entry]
           sn == IF u.ok /\ old # hash /\ both[old].real THEN Without(pinged, {old}) ELSE pinged
           pg == IF u.pinged /\ u.entry.state = "ENABLED" THEN st.pings \cup {<<m, p>>} ELSE st.pings
<1> SUFFICES new \in Work /\ Effect(st, new, m, s, fRecovery)
  OBVIOUS
<1>1. /\ st.entries \in Entries /\ st.seen \in Seen /\ st.pings \in SUBSET (MN \X PingTimes)
      /\ DOMAIN st.entries \subseteq MN /\ m \in MN /\ st.entries[m] \in Entry
  BY EntriesAre DEF Work
<1>2. hash \in MN \X SigTimes /\ old \in MN \X SigTimes
  BY <1>1 DEF HashOf, Entry
<1>3. new = [entries |-> e, seen |-> sn, pings |-> pg]
  BY DEF UpdateKnown
<1>4. /\ u.entry \in Entry /\ u.ok \in BOOLEAN /\ u.pinged \in BOOLEAN
      /\ u.entry.sig >= st.entries[m].sig /\ u.entry.ping >= st.entries[m].ping
      /\ u.entry.ping # st.entries[m].ping =>
           u.entry.sig = s /\ (s > st.entries[m].sig \/ (s = st.entries[m].sig /\ fRecovery))
  BY <1>1, UpdateType
<1> HIDE DEF new, u
<1>5. sn \in Seen
  <2>1. none \in Broadcasts
    BY DEF Broadcasts
  <2>2. Inserted(st, hash, p).seen \in Seen
    BY <1>2, InsertedType DEF Work
  <2> HIDE DEF none, hash, old
  <2>3. both \in Seen
    BY <1>2, <2>1, <2>2, SeenWith
  <2> HIDE DEF both
  <2>4. pinged \in Seen
    BY <2>3, SeenPinged
  <2> HIDE DEF pinged
  <2>5. Without(pinged, {old}) \in Seen
    BY <2>4, SeenWithout
  <2> QED
    BY <2>4, <2>5
<1>6. pg \in SUBSET (MN \X PingTimes)
  BY <1>1
<1>7. e \in Entries /\ DOMAIN e = DOMAIN st.entries
  <2>1. e \in [DOMAIN st.entries -> Entry]
    BY <1>1, <1>4, EntriesAre
  <2> QED
    BY <1>1, <2>1, EntriesAre
<1>8. \A n \in DOMAIN st.entries : e[n] = IF n = m THEN u.entry ELSE st.entries[n]
  BY <1>1, EntriesAre
<1>9. \A n \in DOMAIN st.entries : st.entries[n].sig \in Nat /\ st.entries[n].ping \in Nat
  BY <1>1, EntriesAre, ListNumbers DEF Entry
<1> HIDE DEF e, sn, pg
<1>10. new.entries = e /\ new \in Work
  BY <1>3, <1>5, <1>6, <1>7 DEF Work
<1>11. Effect(st, new, m, s, fRecovery)
  <2>1. ASSUME NEW n \in DOMAIN st.entries
        PROVE  /\ e[n].sig >= st.entries[n].sig /\ e[n].ping >= st.entries[n].ping
               /\ e[n].ping # st.entries[n].ping =>
                    /\ n = m /\ e[n].sig = s
                    /\ s > st.entries[n].sig \/ (s = st.entries[n].sig /\ fRecovery)
    <3>1. CASE n = m
      BY <1>4, <1>8, <3>1
    <3>2. CASE n # m
      BY <1>8, <1>9, <3>2
    <3> QED
      BY <3>1, <3>2
  <2> QED
    BY <1>7, <1>10, <2>1 DEF Effect
<1> QED
  BY <1>10, <1>11

LEMMA AddNewType ==
    ASSUME Surroundings, NEW st \in Work, NEW m \in MN \ DOMAIN st.entries, NEW s \in SigTimes,
           NEW p \in PingTimes, NEW fRecovery \in BOOLEAN, NEW checked \in BOOLEAN,
           NEW known \in BOOLEAN
    PROVE  LET new == AddNew(st, m, s, p, checked, known)
           IN new \in Work /\ Effect(st, new, m, s, fRecovery)
<1> DEFINE new == AddNew(st, m, s, p, checked, known)
           ins == Inserted(st, <<m, s>>, p)
           entry == EntryOf(s, p, IF known THEN "ENABLED" ELSE "EXPIRED")
           e == With(ins.entries, m, entry)
           D == DOMAIN st.entries \cup {m}
<1> SUFFICES new \in Work /\ Effect(st, new, m, s, fRecovery)
  OBVIOUS
<1>1. st.entries \in Entries /\ DOMAIN st.entries \subseteq MN
      /\ \A n \in DOMAIN st.entries : st.entries[n] \in Entry
  BY EntriesAre DEF Work
<1>2. <<m, s>> \in MN \X SigTimes
  OBVIOUS
<1>3. ins \in Work /\ ins.entries = st.entries
  BY <1>2, InsertedType
<1>4. new = IF m \in unspent /\ checked THEN [ins EXCEPT !.entries = e] ELSE ins
  BY DEF AddNew
<1>5. entry \in Entry
  BY ListNumbers DEF EntryOf, Entry, State
<1> HIDE DEF new, ins, entry
<1>6. e = [n \in D |-> IF n = m THEN entry ELSE st.entries[n]]
  BY <1>3 DEF With
<1> HIDE DEF e
<1>7. e \in [D -> Entry] /\ D \in SUBSET MN
  BY <1>1, <1>5, <1>6
<1>8. e \in Entries
  BY <1>7, EntriesAre
<1>9. \A n \in DOMAIN st.entries : st.entries[n].sig \in Nat /\ st.entries[n].ping \in Nat
  BY <1>1, ListNumbers DEF Entry
<1>10. CASE m \in unspent /\ checked
  <2>1. new \in Work /\ new.entries = e
    BY <1>3, <1>4, <1>8, <1>10 DEF Work
  <2>2. \A n \in DOMAIN st.entries : n \in DOMAIN e /\ e[n] = st.entries[n]
    BY <1>6
  <2>3. \A n \in DOMAIN e \ DOMAIN st.entries : n \in unspent
    BY <1>6, <1>10
  <2> QED
    BY <1>9, <2>1, <2>2, <2>3 DEF Effect
<1>11. CASE ~ (m \in unspent /\ checked)
  BY <1>3, <1>4, <1>9, <1>11 DEF Effect
<1> QED
  BY <1>10, <1>11

\* What CheckMnbAndUpdateMasternodeList does to the entries.
LEMMA ProcessType ==
    ASSUME Surroundings, NEW st \in Work, NEW m \in MN, NEW s \in SigTimes,
           NEW p \in PingTimes, NEW fRecovery \in BOOLEAN, NEW checked \in BOOLEAN,
           NEW known \in BOOLEAN
    PROVE  LET new == Process(st, m, s, p, fRecovery, checked, known)
           IN new \in Work /\ Effect(st, new, m, s, fRecovery)
<1>1. CASE m \in DOMAIN st.entries
  BY <1>1, UpdateKnownType DEF Process
<1>2. CASE m \notin DOMAIN st.entries
  BY <1>2, AddNewType DEF Process
<1> QED
  BY <1>1, <1>2
-----------------------------------------------------------------------------
(* The good answers processed one after the other.                         *)

\* What may have become of the entries: none is older; a ping is renewed with a newer
\* signature or by the answers of good; a new entry has its collateral.
News(start, st, good) ==
    /\ \A n \in DOMAIN start.entries :
          /\ n \in DOMAIN st.entries
          /\ st.entries[n].sig >= start.entries[n].sig
          /\ st.entries[n].ping >= start.entries[n].ping
          /\ st.entries[n].ping # start.entries[n].ping =>
                \/ st.entries[n].sig > start.entries[n].sig
                \/ HashOf(n, start.entries[n]) \in good
    /\ \A n \in DOMAIN st.entries \ DOMAIN start.entries : n \in unspent

LEMMA WorkNumbers ==
    ASSUME NEW st \in Work, NEW n \in DOMAIN st.entries
    PROVE  n \in MN /\ st.entries[n] \in Entry
           /\ st.entries[n].sig \in Nat /\ st.entries[n].ping \in Nat
<1>1. n \in MN /\ st.entries[n] \in Entry
  BY EntriesAre DEF Work
<1> QED
  BY <1>1, ListNumbers DEF Entry

LEMMA NewsGoOn ==
    ASSUME NEW start \in Work, NEW st \in Work, NEW new \in Work, NEW good, News(start, st, good),
           NEW m \in MN, NEW s \in SigTimes, <<m, s>> \in good, Effect(st, new, m, s, TRUE)
    PROVE  News(start, new, good)
<1>1. ASSUME NEW n \in DOMAIN start.entries
      PROVE  /\ n \in DOMAIN new.entries
             /\ new.entries[n].sig >= start.entries[n].sig
             /\ new.entries[n].ping >= start.entries[n].ping
             /\ new.entries[n].ping # start.entries[n].ping =>
                   \/ new.entries[n].sig > start.entries[n].sig
                   \/ HashOf(n, start.entries[n]) \in good
  <2>1. /\ n \in DOMAIN st.entries
        /\ st.entries[n].sig >= start.entries[n].sig
        /\ st.entries[n].ping >= start.entries[n].ping
        /\ st.entries[n].ping # start.entries[n].ping =>
              \/ st.entries[n].sig > start.entries[n].sig
              \/ HashOf(n, start.entries[n]) \in good
    BY DEF News
  <2>2. /\ n \in DOMAIN new.entries
        /\ new.entries[n].sig >= st.entries[n].sig /\ new.entries[n].ping >= st.entries[n].ping
        /\ new.entries[n].ping # st.entries[n].ping =>
              n = m /\ new.entries[n].sig = s
    BY <2>1 DEF Effect
  <2>3. /\ start.entries[n].sig \in Nat /\ start.entries[n].ping \in Nat
        /\ st.entries[n].sig \in Nat /\ st.entries[n].ping \in Nat
        /\ new.entries[n].sig \in Nat /\ new.entries[n].ping \in Nat
    BY <2>1, <2>2, WorkNumbers
  <2>4. /\ new.entries[n].sig >= start.entries[n].sig
        /\ new.entries[n].ping >= start.entries[n].ping
    BY <2>1, <2>2, <2>3
  <2>5. ASSUME new.entries[n].ping # start.entries[n].ping
        PROVE  \/ new.entries[n].sig > start.entries[n].sig
               \/ HashOf(n, start.entries[n]) \in good
    <3>1. CASE st.entries[n].ping # start.entries[n].ping
      BY <2>1, <2>2, <2>3, <3>1
    <3>2. CASE st.entries[n].ping = start.entries[n].ping
      <4>1. n = m /\ new.entries[n].sig = s
        BY <2>2, <2>5, <3>2
      <4>2. CASE s = start.entries[n].sig
        BY <4>1, <4>2 DEF HashOf
      <4>3. CASE s # start.entries[n].sig
        BY <2>3, <2>4, <4>1, <4>3
      <4> QED
        BY <4>2, <4>3
    <3> QED
      BY <3>1, <3>2
  <2> QED
    BY <2>2, <2>4, <2>5
<1>2. \A n \in DOMAIN new.entries \ DOMAIN start.entries : n \in unspent
  BY DEF News, Effect
<1> QED
  BY <1>1, <1>2 DEF News

LEMMA RecoveredType ==
    ASSUME Surroundings, NEW start \in Work, NEW good \in SUBSET (MN \X SigTimes),
           \A h \in good : replies[h][1].ping \in PingTimes,
           NEW order \in SetToSeqs(good), NEW checked \in BOOLEAN, NEW known \in BOOLEAN
    PROVE  LET st == Recovered(start, order, checked, known)
           IN st \in Work /\ News(start, st, good)
<1> DEFINE n == Len(order)
           Do(st, h) == Process(st, h[1], h[2], replies[h][1].ping, TRUE, checked, known)
           body(g) == [i \in 0..n |-> IF i = 0 THEN start ELSE Do(g[i - 1], order[i])]
           acc == CHOOSE g : g = body(g)
           step == [i \in 1..n |-> [w \in Work |-> Do(w, order[i])]]
<1>1. n \in Nat /\ \A i \in 1..n : order[i] \in good
  <2>1. IsFiniteSet(MN \X SigTimes)
    BY ListAssumption, FS_Product
  <2>2. Cardinality(good) \in Nat
    BY <2>1, FS_Subset, FS_CardinalityType
  <2>3. order \in [1..Cardinality(good) -> good]
    BY DEF SetToSeqs
  <2>4. order \in Seq(good)
    BY <2>2, <2>3, SeqDef
  <2> QED
    BY <2>4
<1>2. ASSUME NEW w \in Work, NEW h \in good
      PROVE  Do(w, h) \in Work /\ (News(start, w, good) => News(start, Do(w, h), good))
  <2>1. h[1] \in MN /\ h[2] \in SigTimes /\ h = <<h[1], h[2]>>
    OBVIOUS
  <2>2. Do(w, h) \in Work /\ Effect(w, Do(w, h), h[1], h[2], TRUE)
    BY <2>1, ProcessType
  <2> HIDE DEF Do
  <2> QED
    BY <2>1, <2>2, NewsGoOn
<1>3. Recovered(start, order, checked, known) = acc[n]
  BY DEF Recovered
<1>4. \A i \in 1..n : \A w \in Work : step[i][w] = Do(w, order[i])
  OBVIOUS
<1> HIDE DEF n, Do, step
<1>5. \A i \in 1..n : \A w \in Work : step[i][w] \in Work
  BY <1>1, <1>2, <1>4
<1>6. PICK f : Runs(f, Work, n, start, step)
  BY <1>1, <1>5, IntervalRecursion
<1>7. /\ f \in [0..n -> Work] /\ f[0] = start
      /\ \A i \in 1..n : f[i] = Do(f[i - 1], order[i])
  <2>1. f \in [0..n -> Work] /\ \A i \in 0..n : f[i] = IF i = 0 THEN start ELSE step[i][f[i - 1]]
    BY <1>6 DEF Runs
  <2>2. 0 \in 0..n /\ \A i \in 1..n : i \in 0..n /\ i - 1 \in 0..n /\ i # 0
    BY <1>1
  <2>3. f[0] = start
    BY <2>1, <2>2
  <2>4. \A i \in 1..n : f[i] = step[i][f[i - 1]] /\ f[i - 1] \in Work
    BY <2>1, <2>2
  <2> QED
    BY <1>4, <2>1, <2>3, <2>4
<1>8. f = body(f)
  BY <1>1, <1>7
<1>9. acc = body(acc)
  BY <1>8
<1> HIDE DEF acc
<1>10. acc[0] = start /\ \A i \in 1..n : acc[i] = Do(acc[i - 1], order[i])
  <2> DEFINE h(i) == IF i = 0 THEN start ELSE Do(acc[i - 1], order[i])
  <2>1. acc = [i \in 0..n |-> h(i)]
    BY <1>9
  <2>2. h(0) = start /\ \A i \in 1..n : h(i) = Do(acc[i - 1], order[i])
    BY <1>1
  <2>3. 0 \in 0..n /\ \A i \in 1..n : i \in 0..n
    BY <1>1
  <2> HIDE DEF h
  <2>4. \A i \in 0..n : acc[i] = h(i)
    BY <2>1
  <2> QED
    BY <2>2, <2>3, <2>4
<1> DEFINE G == {i \in 0..n : acc[i] \in Work /\ News(start, acc[i], good)}
<1>11. 0 \in G
  <2>1. News(start, start, good)
    <3>1. \A k \in DOMAIN start.entries : start.entries[k].sig \in Nat /\ start.entries[k].ping \in Nat
      BY WorkNumbers
    <3> QED
      BY <3>1 DEF News
  <2> QED
    BY <1>1, <1>10, <2>1
<1>12. \A k \in G : k < n => k + 1 \in G
  <2> SUFFICES ASSUME NEW k \in G, k < n
               PROVE  acc[k + 1] \in Work /\ News(start, acc[k + 1], good)
    BY <1>1
  <2>1. k + 1 \in 1..n /\ (k + 1) - 1 = k
    BY <1>1
  <2>2. acc[k + 1] = Do(acc[k], order[k + 1])
    BY <1>10, <2>1
  <2> QED
    BY <1>1, <1>2, <2>1, <2>2
<1>13. G = 0..n
  <2>1. G \in SUBSET (0..n)
    OBVIOUS
  <2> HIDE DEF G
  <2> QED
    BY <1>1, <1>11, <1>12, <2>1, IntervalInduction
<1> QED
  BY <1>1, <1>3, <1>13
-----------------------------------------------------------------------------
(* The steps.                                                              *)

\* What the two properties say of a step.
Newer ==
    \A m \in Listed \cap Listed' : entries[m].state # "OUTPOINT_SPENT" =>
        entries'[m].sig >= entries[m].sig /\ entries'[m].ping >= entries[m].ping

Renewed(m) ==
    \/ entries'[m].sig > entries[m].sig
    \/ LET h == HashOf(m, entries[m])
       IN h \in DOMAIN replies /\ now > requests[h].until /\
          Cardinality({replies[h][i].peer : i \in DOMAIN replies[h]}) >= QUORUM_REQUIRED

StartedAnew ==
    \A m \in Listed \cap Listed' :
        entries[m].state = "NEW_START_REQUIRED" /\ entries'[m].ping # entries[m].ping => Renewed(m)

Kept == ListInv' /\ Newer /\ StartedAnew

\* The masternode's numbers in the list.
LEMMA EntryNumbers ==
    ASSUME ListTypes, NEW m \in Listed
    PROVE  m \in MN /\ entries[m] \in Entry /\ entries[m].sig \in Nat /\ entries[m].ping \in Nat
<1>1. m \in MN /\ entries[m] \in Entry
  BY EntriesAre DEF ListTypes, Listed
<1> QED
  BY <1>1, ListNumbers DEF Entry

\* Entries that stay the same, or are checked, satisfy both.
LEMMA SameNews ==
    ASSUME ListTypes,
           \A m \in Listed \cap Listed' : entries'[m].sig = entries[m].sig
                                          /\ entries'[m].ping = entries[m].ping
    PROVE  Newer /\ StartedAnew
<1>1. \A m \in Listed : entries[m].sig \in Nat /\ entries[m].ping \in Nat
  BY EntryNumbers
<1> QED
  BY <1>1 DEF Newer, StartedAnew

LEMMA EmptyMaps == << >> \in Entries /\ << >> \in Seen /\ DOMAIN << >> = {}
                   /\ \A S : << >> \in [{} -> S]
<1>1. DOMAIN << >> = {} /\ \A S : << >> \in [{} -> S]
  OBVIOUS
<1> QED
  BY <1>1, EntriesAre, SeenAre

LEMMA InitListInv == ListInit => ListInv
<1> SUFFICES ASSUME ListInit PROVE ListInv
  OBVIOUS
<1>1. 1 \in 1..MaxTime
  BY ListAssumption
<1>2. ListTypes
  BY <1>1, EmptyMaps DEF ListInit, ListTypes
<1> QED
  BY <1>2, EmptyMaps DEF ListInit, ListInv, AnsweredOnce

\* Steps that leave requests and answers alone.
LEMMA QuietRequests ==
    ASSUME ListInv, UNCHANGED <<requests, replies>>, ListTypes'
    PROVE  ListInv'
BY DEF ListInv, AnsweredOnce

LEMMA NewBroadcastKept ==
    ASSUME ListInv, NEW m \in MN, NEW s \in SigTimes, NEW p \in PingTimes, NewBroadcast(m, s, p)
    PROVE  Kept
<1> DEFINE st == [entries |-> entries, seen |-> seen, pings |-> seenPing]
<1>0. ListTypes /\ Surroundings
  BY TypesHold DEF ListInv
<1>1. st \in Work
  BY <1>0 DEF Work, ListTypes
<1>2. PICK checked \in BOOLEAN, known \in BOOLEAN :
        LET new == Process(st, m, s, p, FALSE, checked, known)
        IN entries' = new.entries /\ seen' = new.seen /\ seenPing' = new.pings
  BY DEF NewBroadcast
<1> DEFINE new == Process(st, m, s, p, FALSE, checked, known)
<1>3. new \in Work /\ Effect(st, new, m, s, FALSE)
  BY <1>0, <1>1, ProcessType
<1>4. entries' = new.entries /\ seen' = new.seen /\ seenPing' = new.pings
  BY <1>2
<1>5. UNCHANGED <<now, height, unspent, synced, requests, replies>>
  BY DEF NewBroadcast, chain
<1>6. st.entries = entries
  OBVIOUS
<1> HIDE DEF new, st
<1>7. ListTypes'
  <2>1. entries' \in Entries /\ seen' \in Seen /\ seenPing' \subseteq MN \X PingTimes
    BY <1>3, <1>4 DEF Work
  <2> QED
    BY <1>0, <1>5, <2>1 DEF ListTypes
<1>8. \A n \in Listed : entries'[n].sig >= entries[n].sig /\ entries'[n].ping >= entries[n].ping
  BY <1>3, <1>4, <1>6 DEF Effect, Listed
<1>9. ASSUME NEW n \in Listed, entries'[n].ping # entries[n].ping
      PROVE  entries'[n].sig > entries[n].sig
  BY <1>3, <1>4, <1>6, <1>9 DEF Effect, Listed
<1> QED
  BY <1>5, <1>7, <1>8, <1>9, QuietRequests DEF Kept, Newer, StartedAnew, Renewed

LEMMA PingKept ==
    ASSUME ListInv, NEW m \in MN, NEW p \in PingTimes, Ping(m, p)
    PROVE  Kept
<1>0. ListTypes /\ Surroundings
  BY TypesHold DEF ListInv
<1>1. UNCHANGED <<now, height, unspent, synced, requests, replies>>
      /\ seenPing' = seenPing \cup {<<m, p>>}
  BY DEF Ping, chain
<1>2. seenPing' \subseteq MN \X PingTimes
  BY <1>0, <1>1 DEF ListTypes
<1>3. CASE UNCHANGED <<entries, seen>>
  <2>1. ListTypes'
    BY <1>0, <1>1, <1>2, <1>3 DEF ListTypes
  <2>2. Newer /\ StartedAnew
    BY <1>0, <1>3, SameNews
  <2> QED
    BY <1>1, <2>1, <2>2, QuietRequests DEF Kept
<1>4. CASE ~ UNCHANGED <<entries, seen>>
  <2> DEFINE e == [entries[m] EXCEPT !.ping = p]
             c == Check(m, e)
  <2>1. /\ m \in Listed /\ entries[m].state # "NEW_START_REQUIRED" /\ ~ TooEarly(entries[m], p)
        /\ entries' = [entries EXCEPT ![m] = c]
        /\ seen' = IF HashOf(m, e) \in DOMAIN seen
                   THEN [seen EXCEPT ![HashOf(m, e)].ping = p] ELSE seen
    BY <1>4 DEF Ping
  <2>2. /\ entries[m] \in Entry /\ entries[m].sig \in Nat /\ entries[m].ping \in Nat /\ p \in Nat
    BY <1>0, <2>1, EntryNumbers, ListNumbers
  <2>3. e \in Entry /\ e.sig = entries[m].sig /\ e.ping = p
    BY <2>2 DEF Entry
  <2> HIDE DEF e
  <2>4. c \in Entry /\ c.sig = entries[m].sig /\ c.ping = p
    BY <1>0, <2>3, CheckType
  <2>5. p > entries[m].ping
    BY <2>1, <2>2, ListNumbers DEF TooEarly
  <2> HIDE DEF c
  <2>6. /\ DOMAIN entries' = Listed
        /\ \A n \in Listed : entries'[n] = IF n = m THEN c ELSE entries[n]
    BY <1>0, <2>1, EntriesAre DEF ListTypes, Listed
  <2>7. entries' \in Entries
    <3>1. \A n \in Listed : entries[n] \in Entry
      BY <1>0, EntryNumbers
    <3>2. entries' \in [Listed -> Entry]
      BY <2>1, <2>4, <3>1 DEF Listed
    <3> QED
      BY <1>0, <3>2, EntriesAre DEF Surroundings
  <2>8. seen' \in Seen
    BY <1>0, <2>1, SeenPinged DEF ListTypes
  <2>9. ListTypes'
    BY <1>0, <1>1, <1>2, <2>7, <2>8 DEF ListTypes
  <2>10. \A n \in Listed : entries[n].sig \in Nat /\ entries[n].ping \in Nat
    BY <1>0, EntryNumbers
  <2>11. Newer
    BY <2>2, <2>4, <2>5, <2>6, <2>10 DEF Newer
  <2>12. StartedAnew
    BY <2>1, <2>6 DEF StartedAnew
  <2> QED
    BY <1>1, <2>9, <2>11, <2>12, QuietRequests DEF Kept
<1> QED
  BY <1>3, <1>4

\* The entries rechecked, some of them.
LEMMA RecheckedType ==
    ASSUME ListTypes, Surroundings, NEW S
    PROVE  LET fresh == [m \in Listed |-> IF m \in S THEN Check(m, entries[m]) ELSE entries[m]]
           IN /\ fresh \in [Listed -> Entry] /\ fresh \in Entries
              /\ \A m \in Listed :
                   /\ fresh[m].sig = entries[m].sig /\ fresh[m].ping = entries[m].ping
                   /\ fresh[m].state = "OUTPOINT_SPENT" =>
                         entries[m].state = "OUTPOINT_SPENT" \/ m \notin unspent
<1> DEFINE F(m) == IF m \in S THEN Check(m, entries[m]) ELSE entries[m]
           fresh == [m \in Listed |-> F(m)]
<1>1. ASSUME NEW m \in Listed
      PROVE  /\ F(m) \in Entry
             /\ F(m).sig = entries[m].sig /\ F(m).ping = entries[m].ping
             /\ F(m).state = "OUTPOINT_SPENT" =>
                   entries[m].state = "OUTPOINT_SPENT" \/ m \notin unspent
  BY EntryNumbers, CheckType
<1> HIDE DEF F
<1>2. fresh \in [Listed -> Entry]
  BY <1>1
<1>3. fresh \in Entries
  BY <1>2, EntriesAre DEF Surroundings
<1> QED
  BY <1>1, <1>2, <1>3 DEF F

LEMMA CheckAllKept ==
    ASSUME ListInv, CheckAll
    PROVE  Kept
<1>0. ListTypes /\ Surroundings
  BY TypesHold DEF ListInv
<1>1. UNCHANGED <<now, height, unspent, synced, seen, seenPing, requests, replies>>
  BY DEF CheckAll, chain
<1>2. PICK S \in SUBSET Listed :
        entries' = [m \in Listed |-> IF m \in S THEN Check(m, entries[m]) ELSE entries[m]]
  BY DEF CheckAll
<1>3. /\ entries' \in Entries /\ Listed' = Listed
      /\ \A m \in Listed : entries'[m].sig = entries[m].sig /\ entries'[m].ping = entries[m].ping
  BY <1>0, <1>2, RecheckedType DEF Listed
<1>4. ListTypes'
  BY <1>0, <1>1, <1>3 DEF ListTypes
<1> QED
  BY <1>0, <1>1, <1>3, <1>4, SameNews, QuietRequests DEF Kept

LEMMA VerifyKept ==
    ASSUME ListInv, NEW m \in MN, Verify(m)
    PROVE  Kept
<1>0. ListTypes /\ Surroundings
  BY TypesHold DEF ListInv
<1>1. UNCHANGED <<now, height, unspent, synced, seen, seenPing, requests, replies>>
      /\ m \in Listed
  BY DEF Verify
<1>2. PICK score \in (-BAN_MAX_SCORE)..BAN_MAX_SCORE :
        entries' = [entries EXCEPT ![m].score = score]
  BY DEF Verify
<1> DEFINE e == [entries[m] EXCEPT !.score = score]
<1>3. entries' = [entries EXCEPT ![m] = e]
  BY <1>2
<1>4. e \in Entry /\ e.sig = entries[m].sig /\ e.ping = entries[m].ping
  BY <1>0, <1>1, EntryNumbers DEF Entry
<1> HIDE DEF e
<1>5. \A n \in Listed : entries[n] \in Entry
  BY <1>0, EntryNumbers
<1>6. entries' \in [Listed -> Entry] /\ Listed' = Listed
      /\ \A n \in Listed : entries'[n] = IF n = m THEN e ELSE entries[n]
  BY <1>3, <1>4, <1>5 DEF Listed
<1>7. entries' \in Entries
  BY <1>0, <1>6, EntriesAre DEF Surroundings
<1>8. ListTypes'
  BY <1>0, <1>1, <1>7 DEF ListTypes
<1>9. \A n \in Listed : entries'[n].sig = entries[n].sig /\ entries'[n].ping = entries[n].ping
  BY <1>4, <1>6
<1> QED
  BY <1>0, <1>1, <1>6, <1>8, <1>9, SameNews, QuietRequests DEF Kept

\* The clock, blocks, spends and restarts leave the list alone.
LEMMA OutsideKept ==
    ASSUME ListInv, Tick \/ Block \/ Restart \/ Synced \/ (\E m \in MN : Spend(m))
    PROVE  Kept
<1>0. ListTypes
  BY DEF ListInv
<1>1. UNCHANGED <<entries, seen, seenPing, requests, replies>>
  BY DEF Tick, Block, Restart, Synced, Spend
<1>2. now' \in 1..MaxTime /\ height' \in Nat /\ unspent' \subseteq MN /\ synced' \in BOOLEAN
  <2>1. CASE Tick
    <3>1. now \in Nat /\ now < MaxTime /\ now' = now + 1
      BY <1>0, <2>1, ListNumbers DEF Tick, ListTypes
    <3>2. now' \in 1..MaxTime
      BY <3>1, ListNumbers
    <3> QED
      BY <1>0, <2>1, <3>2 DEF Tick, ListTypes
  <2>2. CASE Block
    BY <1>0, <2>2 DEF Block, ListTypes
  <2>3. CASE Restart \/ Synced
    BY <1>0, <2>3 DEF Restart, Synced, ListTypes
  <2>4. CASE \E m \in MN : Spend(m)
    BY <1>0, <2>4 DEF Spend, ListTypes
  <2> QED
    BY <2>1, <2>2, <2>3, <2>4
<1>3. ListTypes'
  BY <1>0, <1>1, <1>2 DEF ListTypes
<1>4. Newer /\ StartedAnew
  BY <1>0, <1>1, SameNews
<1> QED
  BY <1>1, <1>3, <1>4, QuietRequests DEF Kept

\* An answer: the peer that gave it is asked no more.
LEMMA ReplyKept ==
    ASSUME ListInv, NEW m \in MN, NEW s \in SigTimes, NEW p \in PingTimes, NEW peer \in Peer,
           Reply(m, s, p, peer)
    PROVE  Kept
<1> DEFINE hash == <<m, s>>
           a == [peer |-> peer, ping |-> p]
           q == [requests[hash] EXCEPT !.peers = @ \ {peer}]
<1>0. ListTypes
  BY DEF ListInv
<1>1. /\ UNCHANGED <<now, height, unspent, synced, entries, seen, seenPing>>
      /\ hash \in DOMAIN requests /\ peer \in requests[hash].peers
      /\ requests' = [requests EXCEPT ![hash] = q]
  BY DEF Reply, Answered, chain
<1>2. \/ replies' = replies
      \/ hash \in DOMAIN replies /\ replies' = [replies EXCEPT ![hash] = Append(replies[hash], a)]
      \/ hash \notin DOMAIN replies /\ replies' = With(replies, hash, <<a>>)
  BY DEF Reply
<1>3. a \in Answer /\ a.peer = peer
  BY DEF Answer
<1> HIDE DEF hash, a
<1>4. requests[hash] \in [until : Nat, peers : SUBSET Peer]
  BY <1>0, <1>1 DEF ListTypes
<1>5. q \in [until : Nat, peers : SUBSET Peer] /\ q.peers = requests[hash].peers \ {peer}
  BY <1>4
<1> HIDE DEF q
<1>6. /\ DOMAIN requests' = DOMAIN requests
      /\ \A h \in DOMAIN requests : requests'[h] = IF h = hash THEN q ELSE requests[h]
      /\ requests' \in [DOMAIN requests' -> [until : Nat, peers : SUBSET Peer]]
  BY <1>0, <1>1, <1>5 DEF ListTypes
<1>7. \A h \in DOMAIN replies : replies[h] \in Answers /\ h \in DOMAIN requests
  BY <1>0 DEF ListTypes
<1>8. \A h \in DOMAIN requests : requests'[h].peers \subseteq requests[h].peers
  BY <1>4, <1>5, <1>6
\* The answers of h are as before, or extended by a.
<1> DEFINE Extended == /\ hash \in DOMAIN replies
                       /\ \A h \in DOMAIN replies :
                             replies'[h] = IF h = hash THEN Append(replies[hash], a) ELSE replies[h]
                       /\ DOMAIN replies' = DOMAIN replies
           FirstAnswer == /\ hash \notin DOMAIN replies
                          /\ \A h \in DOMAIN replies : replies'[h] = replies[h]
                          /\ DOMAIN replies' = DOMAIN replies \cup {hash} /\ replies'[hash] = <<a>>
<1>9. /\ replies' = replies \/ Extended \/ FirstAnswer
      /\ replies' \in [DOMAIN replies' -> Answers]
  <2>1. CASE replies' = replies
    BY <1>0, <2>1 DEF ListTypes
  <2>2. CASE hash \in DOMAIN replies /\ replies' = [replies EXCEPT ![hash] = Append(replies[hash], a)]
    <3>1. Append(replies[hash], a) \in Answers
      BY <1>3, <1>7, <2>2 DEF Answers
    <3> DEFINE l == Append(replies[hash], a)
    <3>2. replies' = [replies EXCEPT ![hash] = l] /\ l \in Answers
      BY <2>2, <3>1
    <3> HIDE DEF l
    <3>3. /\ DOMAIN replies' = DOMAIN replies /\ replies' \in [DOMAIN replies' -> Answers]
          /\ \A h \in DOMAIN replies : replies'[h] = IF h = hash THEN l ELSE replies[h]
      BY <1>0, <2>2, <3>2 DEF ListTypes
    <3> QED
      BY <2>2, <3>3 DEF l
  <2>3. CASE hash \notin DOMAIN replies /\ replies' = With(replies, hash, <<a>>)
    <3>1. <<a>> \in Answers
      BY <1>3 DEF Answers
    <3> DEFINE l == <<a>>
               D == DOMAIN replies \cup {hash}
    <3>2. replies' = [x \in D |-> IF x = hash THEN l ELSE replies[x]] /\ l \in Answers
      BY <2>3, <3>1 DEF With
    <3> HIDE DEF l, D
    <3>3. DOMAIN replies' = D /\ \A x \in D : replies'[x] = IF x = hash THEN l ELSE replies[x]
      BY <3>2
    <3>4. replies' \in [D -> Answers]
      BY <1>7, <3>2 DEF D
    <3> QED
      BY <2>3, <3>3, <3>4 DEF l, D
  <2> QED
    BY <1>2, <2>1, <2>2, <2>3
<1>10. DOMAIN replies' \subseteq DOMAIN requests'
  BY <1>1, <1>6, <1>7, <1>9
<1>11. ListTypes'
  BY <1>0, <1>1, <1>6, <1>9, <1>10 DEF ListTypes
<1>12. ASSUME NEW h \in DOMAIN replies, replies'[h] = replies[h]
       PROVE  /\ \A i, j \in DOMAIN replies'[h] :
                    replies'[h][i].peer = replies'[h][j].peer => i = j
              /\ \A i \in DOMAIN replies'[h] : replies'[h][i].peer \notin requests'[h].peers
  BY <1>7, <1>8, <1>12 DEF ListInv, AnsweredOnce
<1>13. CASE Extended
  <2> DEFINE l == replies[hash]
             k == Append(l, a)
  <2>1. l \in Answers /\ Len(l) \in Nat
    BY <1>7, <1>13 DEF Answers
  <2>2. /\ DOMAIN k = 1..(Len(l) + 1) /\ DOMAIN l = 1..Len(l)
        /\ \A i \in 1..Len(l) : k[i] = l[i]
        /\ k[Len(l) + 1] = a
    BY <1>3, <2>1 DEF Answers
  <2>3. /\ \A i, j \in DOMAIN l : l[i].peer = l[j].peer => i = j
        /\ \A i \in DOMAIN l : l[i].peer \notin requests[hash].peers
    BY <1>13 DEF ListInv, AnsweredOnce
  <2>4. replies'[hash] = k
    BY <1>13
  <2>5. \A i \in DOMAIN k : i \in DOMAIN l \/ i = Len(l) + 1
    BY <2>1, <2>2
  <2>6. \A i \in DOMAIN l : k[i] = l[i] /\ l[i].peer # peer
    BY <1>1, <2>2, <2>3
  <2> HIDE DEF k, l
  <2>7. \A i, j \in DOMAIN k : k[i].peer = k[j].peer => i = j
    BY <1>3, <2>2, <2>3, <2>5, <2>6
  <2>8. \A i \in DOMAIN k : k[i].peer \notin requests'[hash].peers
    <3>1. requests'[hash].peers = requests[hash].peers \ {peer}
      BY <1>1, <1>5, <1>6
    <3> QED
      BY <1>3, <2>2, <2>3, <2>5, <2>6, <3>1
  <2>9. AnsweredOnce'
    <3> SUFFICES ASSUME NEW h \in DOMAIN replies
                 PROVE  /\ \A i, j \in DOMAIN replies'[h] :
                              replies'[h][i].peer = replies'[h][j].peer => i = j
                        /\ \A i \in DOMAIN replies'[h] :
                              replies'[h][i].peer \notin requests'[h].peers
      BY <1>13 DEF AnsweredOnce
    <3>1. CASE h = hash
      BY <2>4, <2>7, <2>8, <3>1
    <3>2. CASE h # hash
      BY <1>12, <1>13, <3>2
    <3> QED
      BY <3>1, <3>2
  <2> QED
    BY <1>0, <1>1, <1>11, <2>9, SameNews DEF Kept, ListInv
<1>14. CASE FirstAnswer
  <2>1. /\ \A i, j \in DOMAIN replies'[hash] :
                 replies'[hash][i].peer = replies'[hash][j].peer => i = j
        /\ \A i \in DOMAIN replies'[hash] : replies'[hash][i].peer \notin requests'[hash].peers
    <3>1. requests'[hash].peers = requests[hash].peers \ {peer}
      BY <1>1, <1>5, <1>6
    <3>2. replies'[hash] = <<a>> /\ DOMAIN <<a>> = {1} /\ <<a>>[1].peer = peer
      BY <1>3, <1>14
    <3> QED
      BY <3>1, <3>2
  <2>2. AnsweredOnce'
    <3> SUFFICES ASSUME NEW h \in DOMAIN replies'
                 PROVE  /\ \A i, j \in DOMAIN replies'[h] :
                              replies'[h][i].peer = replies'[h][j].peer => i = j
                        /\ \A i \in DOMAIN replies'[h] :
                              replies'[h][i].peer \notin requests'[h].peers
      BY DEF AnsweredOnce
    <3>1. CASE h = hash
      BY <2>1, <3>1
    <3>2. CASE h # hash
      BY <1>12, <1>14, <3>2
    <3> QED
      BY <3>1, <3>2
  <2> QED
    BY <1>0, <1>1, <1>11, <2>2, SameNews DEF Kept, ListInv
<1>15. CASE replies' = replies
  <2>1. AnsweredOnce'
    BY <1>12, <1>15 DEF AnsweredOnce
  <2> QED
    BY <1>0, <1>1, <1>11, <2>1, SameNews DEF Kept, ListInv
<1> QED
  BY <1>9, <1>13, <1>14, <1>15

\* As many peers as answers.
LEMMA PeersCounted ==
    ASSUME ListInv, NEW h \in DOMAIN replies
    PROVE  /\ Len(replies[h]) \in Nat
           /\ Cardinality({replies[h][i].peer : i \in DOMAIN replies[h]}) = Len(replies[h])
<1> DEFINE l == replies[h]
           P == {l[i].peer : i \in DOMAIN l}
           f == [i \in 1..Len(l) |-> l[i].peer]
<1>1. l \in Answers /\ \A i, j \in DOMAIN l : l[i].peer = l[j].peer => i = j
  BY DEF ListInv, ListTypes, AnsweredOnce
<1> HIDE DEF l
<1>2. Len(l) \in Nat /\ DOMAIN l = 1..Len(l)
  BY <1>1 DEF Answers
<1>3. f \in Bijection(1..Len(l), P)
  <2>1. f \in [1..Len(l) -> P]
    BY <1>2
  <2>2. \A i, j \in 1..Len(l) : f[i] = f[j] => i = j
    BY <1>1, <1>2
  <2>3. \A x \in P : \E i \in 1..Len(l) : f[i] = x
    BY <1>2
  <2> HIDE DEF f, P
  <2> QED
    BY <2>1, <2>2, <2>3 DEF Bijection, Injection, Surjection, IsInjective
<1>4. IsFiniteSet(1..Len(l)) /\ Cardinality(1..Len(l)) = Len(l)
  BY <1>2, FS_Interval
<1>5. Cardinality(P) = Len(l)
  <2> HIDE DEF f, P
  <2>1. ExistsBijection(1..Len(l), P)
    BY <1>3 DEF ExistsBijection
  <2> QED
    BY <2>1, <1>4, FS_Bijection
<1>6. DOMAIN l = DOMAIN replies[h]
  BY DEF l
<1> QED
  BY <1>2, <1>5, <1>6, Zenon DEF l

LEMMA RemovalKept ==
    ASSUME ListInv, CheckAndRemove
    PROVE  Kept
<1>0. ListTypes /\ Surroundings
  BY TypesHold DEF ListInv
<1>1. UNCHANGED <<now, height, unspent, synced>>
  BY DEF CheckAndRemove, chain
<1> DEFINE Fresh(S) == [m \in Listed |-> IF m \in S THEN Check(m, entries[m]) ELSE entries[m]]
           Spent(S) == {m \in Listed : Fresh(S)[m].state = "OUTPOINT_SPENT"}
           Rest(S) == [m \in Listed \ Spent(S) |-> Fresh(S)[m]]
           Wanted(S) == {HashOf(m, Rest(S)[m]) : m \in
                            {n \in DOMAIN Rest(S) : Rest(S)[n].state = "NEW_START_REQUIRED"}}
           due == {h \in DOMAIN replies : Due(h)}
           good == {h \in due : Len(replies[h]) >= QUORUM_REQUIRED}
           StartOf(S) == [entries |-> Rest(S), pings |-> seenPing,
                          seen |-> Without(seen, {HashOf(m, Fresh(S)[m]) : m \in Spent(S)})]
           All(ask, asked) ==
               [h \in ask \cup DOMAIN requests |->
                   IF h \in ask THEN [until |-> now + RECOVERY_WAIT, peers |-> asked[h]]
                   ELSE requests[h]]
<1>2. PICK S \in SUBSET Listed, checked \in BOOLEAN, known \in BOOLEAN :
         \E order \in SetToSeqs(good), ask \in SUBSET (Wanted(S) \ DOMAIN requests) :
         \E asked \in [ask -> SUBSET Peer] :
            LET st == Recovered(StartOf(S), order, checked, known)
                all == All(ask, asked)
            IN /\ entries' = st.entries /\ seen' = st.seen
               /\ seenPing' = {x \in st.pings : now - x[2] <= NEW_START}
               /\ replies' = Without(replies, due)
               /\ requests' = [h \in {k \in DOMAIN all : now - all[k].until <= RECOVERY_RETRY}
                                |-> all[h]]
  BY DEF CheckAndRemove
<1> DEFINE fresh == Fresh(S)
           spent == Spent(S)
           rest == Rest(S)
           start == StartOf(S)
<1>3. PICK order \in SetToSeqs(good), ask \in SUBSET (Wanted(S) \ DOMAIN requests) :
         \E asked \in [ask -> SUBSET Peer] :
            LET st == Recovered(start, order, checked, known)
                all == All(ask, asked)
            IN /\ entries' = st.entries /\ seen' = st.seen
               /\ seenPing' = {x \in st.pings : now - x[2] <= NEW_START}
               /\ replies' = Without(replies, due)
               /\ requests' = [h \in {k \in DOMAIN all : now - all[k].until <= RECOVERY_RETRY}
                                |-> all[h]]
  BY <1>2
<1>4. PICK asked \in [ask -> SUBSET Peer] :
            LET st == Recovered(start, order, checked, known)
                all == All(ask, asked)
            IN /\ entries' = st.entries /\ seen' = st.seen
               /\ seenPing' = {x \in st.pings : now - x[2] <= NEW_START}
               /\ replies' = Without(replies, due)
               /\ requests' = [h \in {k \in DOMAIN all : now - all[k].until <= RECOVERY_RETRY}
                                |-> all[h]]
  BY <1>3
<1> DEFINE st == Recovered(start, order, checked, known)
           all == All(ask, asked)
           D == {k \in DOMAIN all : now - all[k].until <= RECOVERY_RETRY}
<1>5. /\ entries' = st.entries /\ seen' = st.seen
      /\ seenPing' = {x \in st.pings : now - x[2] <= NEW_START}
      /\ replies' = Without(replies, due)
      /\ requests' = [h \in D |-> all[h]]
  BY <1>4
<1>6. /\ fresh \in [Listed -> Entry]
      /\ \A m \in Listed :
           /\ fresh[m].sig = entries[m].sig /\ fresh[m].ping = entries[m].ping
           /\ fresh[m].state = "OUTPOINT_SPENT" =>
                 entries[m].state = "OUTPOINT_SPENT" \/ m \notin unspent
  BY <1>0, RecheckedType
<1>7. rest = [m \in Listed \ spent |-> fresh[m]] /\ spent \subseteq Listed
      /\ \A m \in spent : fresh[m].state = "OUTPOINT_SPENT"
  OBVIOUS
<1>8. Wanted(S) = {HashOf(m, rest[m]) : m \in
                      {n \in DOMAIN rest : rest[n].state = "NEW_START_REQUIRED"}}
  OBVIOUS
<1>9. start = [entries |-> rest, pings |-> seenPing,
               seen |-> Without(seen, {HashOf(m, fresh[m]) : m \in spent})]
  OBVIOUS
<1>10. all = [h \in ask \cup DOMAIN requests |->
                IF h \in ask THEN [until |-> now + RECOVERY_WAIT, peers |-> asked[h]]
                ELSE requests[h]]
  OBVIOUS
<1> HIDE DEF fresh, spent, rest, start, st, all, Wanted, StartOf, Rest, Spent, Fresh, All
<1>11. /\ rest \in Entries /\ DOMAIN rest = Listed \ spent
       /\ \A m \in DOMAIN rest : rest[m] = fresh[m] /\ rest[m] \in Entry
  <2>1. /\ rest \in [Listed \ spent -> Entry] /\ Listed \ spent \in SUBSET MN
    BY <1>0, <1>6, <1>7 DEF Surroundings
  <2> QED
    BY <1>7, <2>1, EntriesAre
<1>12. start \in Work /\ start.entries = rest
  BY <1>0, <1>9, <1>11, SeenWithout DEF Work, ListTypes
<1>13. /\ good \in SUBSET (MN \X SigTimes)
       /\ \A h \in good : replies[h][1].ping \in PingTimes
  <2>1. ASSUME NEW h \in good PROVE replies[h][1].ping \in PingTimes
    <3>1. replies[h] \in Answers /\ Len(replies[h]) >= QUORUM_REQUIRED
      BY <1>0 DEF ListTypes
    <3>2. 1 \in 1..Len(replies[h])
      BY <3>1, ListNumbers DEF Answers
    <3>3. replies[h][1] \in Answer
      BY <3>1, <3>2 DEF Answers
    <3> QED
      BY <3>3 DEF Answer
  <2> QED
    BY <1>0, <2>1 DEF ListTypes
<1>14. /\ good \subseteq due
       /\ \A h \in due : h \in DOMAIN replies /\ requests[h].until < now
       /\ \A h \in good : Len(replies[h]) >= QUORUM_REQUIRED
  BY DEF Due
<1>15. \A h \in DOMAIN replies \ due : h \in DOMAIN requests /\ ~ (requests[h].until < now)
  BY <1>0 DEF Due, ListTypes
<1> HIDE DEF good, due
<1>16. st \in Work /\ News(start, st, good)
  BY <1>0, <1>12, <1>13, RecoveredType DEF st
<1>17. /\ entries' \in Entries /\ seen' \in Seen /\ seenPing' \subseteq MN \X PingTimes
  BY <1>5, <1>16 DEF Work
\* Requests and answers.
<1>18. ask \subseteq MN \X SigTimes /\ ask \cap DOMAIN requests = {}
  <2>1. \A m \in DOMAIN rest : HashOf(m, rest[m]) \in MN \X SigTimes
    BY <1>0, <1>11 DEF HashOf, Entry, Surroundings
  <2> QED
    BY <1>8, <2>1
<1>19. /\ DOMAIN all \subseteq MN \X SigTimes
       /\ \A h \in DOMAIN all : all[h] \in [until : Nat, peers : SUBSET Peer]
       /\ \A h \in DOMAIN requests : h \in DOMAIN all /\ all[h] = requests[h]
  <2>1. now + RECOVERY_WAIT \in Nat
    BY <1>0, ListNumbers DEF Surroundings
  <2>2. \A h \in DOMAIN requests : requests[h] \in [until : Nat, peers : SUBSET Peer]
    BY <1>0 DEF ListTypes
  <2> DEFINE w == now + RECOVERY_WAIT
  <2>3. \A h \in ask : [until |-> w, peers |-> asked[h]] \in [until : Nat, peers : SUBSET Peer]
    BY <2>1
  <2> HIDE DEF w
  <2>4. all = [h \in ask \cup DOMAIN requests |->
                 IF h \in ask THEN [until |-> w, peers |-> asked[h]] ELSE requests[h]]
    BY <1>10 DEF w
  <2> QED
    BY <1>0, <1>18, <2>2, <2>3, <2>4 DEF ListTypes
<1>20. /\ DOMAIN requests' = D /\ D \subseteq MN \X SigTimes
       /\ requests' \in [D -> [until : Nat, peers : SUBSET Peer]]
       /\ \A h \in D : requests'[h] = all[h]
  BY <1>5, <1>19
<1>21. /\ DOMAIN replies' = DOMAIN replies \ due
       /\ \A h \in DOMAIN replies' : replies'[h] = replies[h] /\ replies[h] \in Answers
       /\ replies' \in [DOMAIN replies' -> Answers]
  <2>1. \A h \in DOMAIN replies : replies[h] \in Answers
    BY <1>0 DEF ListTypes
  <2>2. replies' = [h \in DOMAIN replies \ due |-> replies[h]]
    BY <1>5 DEF Without
  <2> QED
    BY <2>1, <2>2
<1>22. ASSUME NEW h \in DOMAIN replies' PROVE h \in D /\ requests'[h] = requests[h]
  <2>1. h \in DOMAIN requests /\ ~ (requests[h].until < now)
    BY <1>15, <1>21
  <2>2. h \in DOMAIN all /\ all[h] = requests[h] /\ requests[h].until \in Nat
    BY <1>19, <2>1
  <2>3. now - all[h].until <= RECOVERY_RETRY
    BY <1>0, <2>1, <2>2, ListNumbers DEF Surroundings
  <2> QED
    BY <1>20, <2>2, <2>3
<1> HIDE DEF D
<1>23. ListTypes'
  BY <1>0, <1>1, <1>17, <1>20, <1>21, <1>22 DEF ListTypes
<1>24. AnsweredOnce'
  BY <1>21, <1>22 DEF ListInv, AnsweredOnce
\* Entries.
<1>25. ASSUME NEW m \in Listed, m \in Listed', entries[m].state # "OUTPOINT_SPENT"
       PROVE  /\ m \in DOMAIN rest /\ rest[m].sig = entries[m].sig /\ rest[m].ping = entries[m].ping
              /\ HashOf(m, rest[m]) = HashOf(m, entries[m])
  <2>1. m \in DOMAIN rest
    <3> SUFFICES ASSUME m \in spent PROVE FALSE
      BY <1>11
    <3>1. m \notin unspent
      BY <1>6, <1>7, <1>25
    <3>2. m \in DOMAIN st.entries
      BY <1>5, <1>25 DEF Listed
    <3> QED
      BY <1>11, <1>12, <1>16, <3>1, <3>2 DEF News
  <2> QED
    BY <1>6, <1>11, <2>1 DEF HashOf
<1>26. Newer
  BY <1>5, <1>12, <1>16, <1>25 DEF Newer, News
<1>27. StartedAnew
  <2> SUFFICES ASSUME NEW m \in Listed, m \in Listed', entries[m].state = "NEW_START_REQUIRED",
                      entries'[m].ping # entries[m].ping
               PROVE  Renewed(m)
    BY DEF StartedAnew
  <2>1. \/ entries'[m].sig > entries[m].sig
        \/ HashOf(m, entries[m]) \in good
    BY <1>5, <1>12, <1>16, <1>25 DEF News
  <2>2. CASE HashOf(m, entries[m]) \in good
    <3> DEFINE h == HashOf(m, entries[m])
    <3>1. h \in DOMAIN replies /\ requests[h].until < now /\ Len(replies[h]) >= QUORUM_REQUIRED
      BY <1>14, <2>2
    <3> HIDE DEF h
    <3>2. requests[h].until \in Nat
      BY <1>0, <3>1 DEF ListTypes
    <3>3. now > requests[h].until
      BY <1>0, <3>1, <3>2 DEF Surroundings
    <3>4. Cardinality({replies[h][i].peer : i \in DOMAIN replies[h]}) >= QUORUM_REQUIRED
      BY <3>1, PeersCounted
    <3> QED
      BY <3>1, <3>3, <3>4 DEF Renewed, h
  <2> QED
    BY <2>1, <2>2 DEF Renewed
<1> QED
  BY <1>23, <1>24, <1>26, <1>27 DEF Kept, ListInv

LEMMA ListStep ==
    ASSUME ListInv, [ListNext]_listVars
    PROVE  Kept
<1>1. ASSUME NEW m \in MN, NEW s \in SigTimes, NEW p \in PingTimes, Announce(m, s, p)
      PROVE  Kept
  BY <1>1, NewBroadcastKept, ReplyKept DEF Announce
<1>2. CASE UNCHANGED listVars
  <2>1. UNCHANGED <<now, height, unspent, synced, entries, seen, seenPing, requests, replies>>
    BY <1>2 DEF listVars
  <2>2. ListTypes
    BY DEF ListInv
  <2>3. ListTypes'
    BY <2>1, <2>2 DEF ListTypes
  <2> QED
    BY <2>1, <2>2, <2>3, SameNews, QuietRequests DEF Kept
<1>3. CASE ListNext
  BY <1>1, <1>3, PingKept, CheckAllKept, RemovalKept, OutsideKept, VerifyKept DEF ListNext
<1> QED
  BY <1>2, <1>3

\* The list keeps its types and no peer answers a recovery request twice.
THEOREM ListInvHolds == ListSpec => []ListInv
<1>1. ListInv /\ [ListNext]_listVars => ListInv'
  BY ListStep DEF Kept
<1> QED
  BY <1>1, InitListInv, PTL DEF ListSpec

\* Entries, broadcasts and pings seen, requests and answers keep their types.
THEOREM ListTypeCorrect == ListSpec => []ListTypeOK
<1>1. ListInv => ListTypeOK
  BY TypesHold DEF ListInv
<1> QED
  BY <1>1, ListInvHolds, PTL

\* In whatever order broadcasts, pings and recovered copies arrive (MNANNOUNCE, MNPING,
\* CheckAndRemove), an entry never goes back to an older signature or ping.
THEOREM NewsNeverOlder == ListSpec => NewsOnlyNewer
<1>1. ListInv /\ [ListNext]_listVars =>
        [\A m \in Listed \cap Listed' : entries[m].state # "OUTPOINT_SPENT" =>
            entries'[m].sig >= entries[m].sig /\ entries'[m].ping >= entries[m].ping]_listVars
  BY ListStep DEF Kept, Newer
<1> QED
  BY <1>1, ListInvHolds, PTL DEF ListSpec, NewsOnlyNewer

\* An entry that requires a new start gets a new ping only with a newer broadcast, or by the
\* answers of QUORUM_REQUIRED different peers to a request whose time is over.
THEOREM NewStartOrQuorum == ListSpec => ExpiredNeedsNewStart
<1>1. ListInv /\ [ListNext]_listVars =>
        [\A m \in Listed \cap Listed' :
            entries[m].state = "NEW_START_REQUIRED" /\ entries'[m].ping # entries[m].ping =>
              \/ entries'[m].sig > entries[m].sig
              \/ LET h == HashOf(m, entries[m])
                 IN h \in DOMAIN replies /\ now > requests[h].until /\
                    Cardinality({replies[h][i].peer : i \in DOMAIN replies[h]}) >= QUORUM_REQUIRED
        ]_listVars
  BY ListStep DEF Kept, StartedAnew, Renewed
<1> QED
  BY <1>1, ListInvHolds, PTL DEF ListSpec, ExpiredNeedsNewStart
=============================================================================
