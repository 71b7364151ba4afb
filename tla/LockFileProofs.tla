--------------------------- MODULE LockFileProofs ---------------------------
(***************************************************************************)
(* Proofs about LockFile, for any set of processes and any number of       *)
(* attempts.                                                               *)
(*                                                                         *)
(* A process that holds the lock, and one that is about to write the file  *)
(* it created, each know what the file holds: their own pid, or nothing    *)
(* yet.  O_EXCL makes that knowledge exclusive, and only a crash, a stamp  *)
(* that grew too old or a heartbeat can spoil it: the theorems exclude     *)
(* those, and the run LockCrash shows of the crash that they must.         *)
(***************************************************************************)
EXTENDS LockFile, TLAPS

\* Nobody dies, nothing expires, and so nobody removes what is not his.
Undisturbed ==
  /\ ~old
  /\ \A p \in Procs : /\ beat[p] = "quiet"
                      /\ pc[p] \notin {"dead", "read2", "remove"}

\* What the program counter of a process says of the file.
Knowledge ==
  \A p \in Procs : /\ Holds(p) => tag = p
                   /\ pc[p] = "write" => tag = Torn

\* Only one process is between O_EXCL and the write.
OneCreator ==
  \A p, q \in Procs : pc[p] = "write" /\ pc[q] = "write" => p = q

LockInv == TypeOK /\ Undisturbed /\ Knowledge /\ OneCreator

-----------------------------------------------------------------------------
\* Every variable keeps its type, with any of the hazards.
THEOREM TypeCorrect == Spec => []TypeOK
<1>1. Init => TypeOK
  <2> SUFFICES ASSUME Init PROVE TypeOK
    OBVIOUS
  <2>1. 0 \in 0..MaxAttempts
    BY LockAssumption
  <2>2. <<Absent, FALSE>> \in Contents \X BOOLEAN
    BY DEF Contents
  <2>3. seen \in [Procs -> Contents \X BOOLEAN]
    BY <2>2 DEF Init
  <2> QED
    BY <2>1, <2>3 DEF Init, TypeOK, Contents, Labels
<1>2. TypeOK /\ [Next]_vars => TypeOK'
  <2> SUFFICES ASSUME TypeOK, [Next]_vars PROVE TypeOK'
    OBVIOUS
  <2> USE LockAssumption DEF TypeOK, Contents, Labels
  <2>1. ASSUME NEW p \in Procs, Acquire(p) \/ ClearStale(p) PROVE TypeOK'
    BY <2>1 DEF Acquire, ClearStale, Goto
  <2>2. ASSUME NEW p \in Procs, Read1(p) PROVE TypeOK'
    BY <2>2 DEF Read1, AfterClear, Goto
  <2>3. ASSUME NEW p \in Procs, Read2(p) PROVE TypeOK'
    BY SMTT(30), <2>3 DEF Read2, AfterClear, Goto
  <2>4. ASSUME NEW p \in Procs, Remove(p) PROVE TypeOK'
    BY <2>4 DEF Remove, AfterClear, Goto
  <2>5. ASSUME NEW p \in Procs, Create(p) PROVE TypeOK'
    <3>1. tries[p] + 1 \in 0..MaxAttempts
      BY <2>5 DEF Create
    <3>2. tries' \in [Procs -> 0..MaxAttempts]
      BY <2>5, <3>1 DEF Create
    <3> QED
      BY ZenonT(60), <2>5, <3>2 DEF Create, Goto
  <2>6. ASSUME NEW p \in Procs, GiveUp(p) \/ Inspect(p) \/ Write(p) PROVE TypeOK'
    BY ZenonT(60), <2>6 DEF GiveUp, Inspect, Write, Goto
  <2>7. ASSUME NEW p \in Procs, Release(p) \/ Unlink(p) \/ UnlinkShared(p) PROVE TypeOK'
    BY ZenonT(60), <2>7 DEF Release, Unlink, UnlinkShared, Goto
  <2>8. ASSUME NEW p \in Procs, BeatCheck(p) \/ Beat(p) PROVE TypeOK'
    BY ZenonT(60), <2>8 DEF BeatCheck, Beat, BeatTruncate, BeatWrite
  <2>9. ASSUME NEW p \in Procs, Crash(p) PROVE TypeOK'
    BY <2>9 DEF Crash, Goto
  <2>10. CASE Age
    BY <2>10 DEF Age
  <2>11. CASE UNCHANGED vars
    BY <2>11 DEF vars
  <2> QED
    BY <2>1, <2>2, <2>3, <2>4, <2>5, <2>6, <2>7, <2>8, <2>9, <2>10, <2>11
       DEF Next, Start, Step
<1> QED
  BY <1>1, <1>2, PTL DEF Spec

-----------------------------------------------------------------------------
\* The inductive invariant holds in every reachable state.
LEMMA Invariance ==
  ASSUME Hazards \cap {"crash", "age", "beat"} = {}
  PROVE  Spec => []LockInv
<1> USE LockAssumption
<1>1. Init /\ TypeOK => LockInv
  BY DEF Init, LockInv, Undisturbed, Knowledge, OneCreator, Holds
<1>2. LockInv /\ TypeOK' /\ [Next]_vars => LockInv'
  <2> SUFFICES ASSUME LockInv, TypeOK', [Next]_vars PROVE LockInv'
    OBVIOUS
  <2> USE DEF LockInv, Undisturbed, Knowledge, OneCreator, Holds, TypeOK, Contents
  <2>1. ASSUME NEW p \in Procs, Acquire(p) \/ ClearStale(p) PROVE LockInv'
    BY <2>1 DEF Acquire, ClearStale, Goto
  <2>2. ASSUME NEW p \in Procs, Read1(p) PROVE LockInv'
    <3>1. ~Expired
      BY DEF Expired, Alive
    <3> QED
      BY <2>2, <3>1 DEF Read1, AfterClear, Goto
  <2>3. ASSUME NEW p \in Procs, Read2(p) \/ Remove(p) PROVE FALSE
    BY <2>3 DEF Read2, Remove
  <2>4. ASSUME NEW p \in Procs, Create(p) PROVE LockInv'
    BY SMTT(30), <2>4 DEF Create, Goto
  <2>5. ASSUME NEW p \in Procs, GiveUp(p) \/ Inspect(p) PROVE LockInv'
    BY <2>5 DEF GiveUp, Inspect, Goto
  <2>6. ASSUME NEW p \in Procs, Write(p) PROVE LockInv'
    BY <2>6 DEF Write, Goto
  <2>7. ASSUME NEW p \in Procs, Release(p) \/ UnlinkShared(p) PROVE LockInv'
    BY <2>7 DEF Release, UnlinkShared, Goto
  <2>8. ASSUME NEW p \in Procs, Unlink(p) PROVE LockInv'
    BY <2>8 DEF Unlink, Goto
  <2>9. ASSUME NEW p \in Procs, BeatCheck(p) \/ Beat(p) \/ Crash(p) \/ Age PROVE FALSE
    BY <2>9 DEF BeatCheck, Beat, BeatTruncate, BeatWrite, Crash, Age
  <2>10. CASE UNCHANGED vars
    BY <2>10 DEF vars
  <2>11. ~Age
    BY DEF Age
  <2> QED
    BY <2>1, <2>2, <2>3, <2>4, <2>5, <2>6, <2>7, <2>8, <2>9, <2>10, <2>11
       DEF Next, Start, Step
<1> QED
  BY <1>1, <1>2, TypeCorrect, PTL DEF Spec

\* "Acquire creates an exclusive backup lock for this process"
\* (lock_windows.go:206): without a crash, an expired stamp or a heartbeat,
\* two of any number of processes never hold the lock at once.
THEOREM Exclusion ==
  ASSUME Hazards \cap {"crash", "age", "beat"} = {}
  PROVE  Spec => []MutualExclusion
<1>1. LockInv => MutualExclusion
  BY DEF LockInv, Knowledge, MutualExclusion
<1> QED
  BY <1>1, Invariance, PTL

\* Under the same assumption the file names its holder as long as it holds,
\* so that IsHeld (lock_windows.go:167) misses none.
THEOREM Visibility ==
  ASSUME Hazards \cap {"crash", "age", "beat"} = {}
  PROVE  Spec => []HeldIsVisible
<1>1. LockInv => HeldIsVisible
  BY DEF LockInv, Knowledge, HeldIsVisible
<1> QED
  BY <1>1, Invariance, PTL

\* When moreover no reader makes a removal fail, a file never outlives the
\* critical section of the live process it names.
THEOREM NoLeak ==
  ASSUME Hazards = {}
  PROVE  Spec => []NoLeakedLock
<1> USE LockAssumption
<1> DEFINE Inv == tag \in Procs => Holds(tag)
<1>1. Spec => []LockInv
  BY Invariance
<1>2. Init => Inv
  BY DEF Init
<1>3. Inv /\ LockInv /\ [Next]_vars => Inv'
  <2> SUFFICES ASSUME Inv, LockInv, [Next]_vars PROVE Inv'
    OBVIOUS
  <2> USE DEF Holds, LockInv, Undisturbed, Knowledge, TypeOK, Contents
  <2>1. ASSUME NEW p \in Procs, Start(p) PROVE Inv'
    BY <2>1 DEF Start, Acquire, ClearStale, Goto
  <2>2. ASSUME NEW p \in Procs, Read1(p) PROVE Inv'
    BY <2>2 DEF Read1, AfterClear, Goto, Expired, Alive
  <2>3. ASSUME NEW p \in Procs, Create(p) \/ GiveUp(p) \/ Inspect(p) \/ Write(p) PROVE Inv'
    BY <2>3 DEF Create, GiveUp, Inspect, Write, Goto
  <2>4. ASSUME NEW p \in Procs, Release(p) PROVE Inv'
    BY <2>4 DEF Release, Goto
  <2>5. ASSUME NEW p \in Procs, Unlink(p) PROVE Inv'
    <3>1. ~OpenForWriting
      BY <2>5 DEF OpenForWriting, Unlink
    <3> QED
      BY <2>5, <3>1 DEF Unlink, Goto
  <2>6. ASSUME NEW p \in Procs, Read2(p) \/ Remove(p) \/ UnlinkShared(p) PROVE FALSE
    BY <2>6 DEF Read2, Remove, UnlinkShared
  <2>7. ASSUME NEW p \in Procs, BeatCheck(p) \/ Beat(p) \/ Crash(p) PROVE FALSE
    BY <2>7 DEF BeatCheck, Beat, BeatTruncate, BeatWrite, Crash
  <2>8. ~Age
    BY DEF Age
  <2>9. CASE UNCHANGED vars
    BY <2>9 DEF vars
  <2> QED
    BY <2>1, <2>2, <2>3, <2>4, <2>5, <2>6, <2>7, <2>8, <2>9 DEF Next, Step
<1>4. Inv => NoLeakedLock
  BY DEF NoLeakedLock
<1> QED
  BY <1>1, <1>2, <1>3, <1>4, PTL DEF Spec
=============================================================================
