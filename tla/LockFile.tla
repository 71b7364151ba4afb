------------------------------ MODULE LockFile ------------------------------
(***************************************************************************)
(* The lock files of the data directory, at the grain of file system       *)
(* calls: backup.lock (internal/backuplock), backup_queue.lock             *)
(* (internal/backupqueue) and the <name>.lock files of internal/datalock.  *)
(* One file, several processes.  A lock is taken by creating the file with *)
(* O_EXCL and writing "<pid> <unix time>" into it in a later call; it is   *)
(* released by reading it back and removing it.  Whoever finds a file      *)
(* whose process is dead, or whose time is more than LockMaxAge old,       *)
(* reads it a second time, compares, and removes it.                       *)
(*                                                                         *)
(* Procs are process incarnations: one that crashed never comes back, a    *)
(* restarted program is another member.                                    *)
(***************************************************************************)
EXTENDS Naturals, FiniteSets

CONSTANTS
  Procs,        \* process incarnations
  Absent,       \* there is no file
  Torn,         \* the file exists and does not parse: created or truncated, not yet written
  FailFast,     \* TRUE: backuplock.Acquire gives up on a live holder;
                \* FALSE: acquireQueueLock and datalock.acquire wait and retry
  MaxAttempts,  \* bound of the acquisition loop (3, 100 and 200 in the code)
  Hazards       \* which of "crash", "age", "beat" and "share" may happen

AllHazards == {"crash", "age", "beat", "share"}

ASSUME LockAssumption ==
  /\ Absent \notin Procs
  /\ Torn \notin Procs \cup {Absent}
  /\ FailFast \in BOOLEAN
  /\ MaxAttempts \in Nat \ {0}
  /\ Hazards \subseteq AllHazards

VARIABLES
  tag,    \* what a reader of the file sees: a process, Torn or Absent
  old,    \* the time in the file is more than LockMaxAge ago
  pc,     \* where each process is in Acquire, ClearStale or Release
  goal,   \* what the process wants: the lock, or only to clear a stale one
  tries,  \* attempts the acquisition loop has made
  seen,   \* the first of the two reads of tryRemoveStaleLock
  beat    \* the heartbeat goroutine of the process

vars == <<tag, old, pc, goal, tries, seen, beat>>

Labels == {"idle", "read1", "read2", "remove", "create", "inspect",
           "write", "held", "unlink", "dead"}

Contents == Procs \cup {Absent, Torn}

TypeOK ==
  /\ tag \in Contents
  /\ old \in BOOLEAN
  /\ pc \in [Procs -> Labels]
  /\ goal \in [Procs -> {"acquire", "probe"}]
  /\ tries \in [Procs -> 0..MaxAttempts]
  /\ seen \in [Procs -> Contents \X BOOLEAN]
  /\ beat \in [Procs -> {"quiet", "checked", "truncated"}]

Init ==
  /\ tag = Absent
  /\ old = FALSE
  /\ pc = [p \in Procs |-> "idle"]
  /\ goal = [p \in Procs |-> "probe"]
  /\ tries = [p \in Procs |-> 0]
  /\ seen = [p \in Procs |-> <<Absent, FALSE>>]
  /\ beat = [p \in Procs |-> "quiet"]

-----------------------------------------------------------------------------
Alive(p) == pc[p] # "dead"

\* Variants, here and below: what a bug in the code would make of a definition.
\* The properties are tested against them.
ExpiredWhoever == tag \in Procs
ExpiredByAgeOnly == tag \in Procs /\ old
ExpiredByPidOnly == tag \in Procs /\ ~Alive(tag)

\* lockExpired: the process is dead, or the time in the file is too old.
Expired == /\ tag \in Procs
           /\ ~Alive(tag) \/ old

\* Windows refuses to remove a file that a process has open for writing.
OpenForWriting == \E p \in Procs : pc[p] = "write" \/ beat[p] = "truncated"

Goto(p, label) == pc' = [pc EXCEPT ![p] = label]

\* Where a process continues once its attempt to clear a stale file ended.
AfterClear(p, cleared) ==
  Goto(p, IF goal[p] = "probe" THEN "idle"
          ELSE IF tries[p] = 0 \/ cleared \/ ~FailFast THEN "create"
          ELSE "idle")

\* Acquire begins by clearing a stale file, whatever comes of it.
Acquire(p) ==
  /\ pc[p] = "idle"
  /\ goal' = [goal EXCEPT ![p] = "acquire"]
  /\ tries' = [tries EXCEPT ![p] = 0]
  /\ Goto(p, "read1")
  /\ UNCHANGED <<tag, old, seen, beat>>

\* ClearStale alone: the check before a queue is drained or a worker started.
ClearStale(p) ==
  /\ pc[p] = "idle"
  /\ goal' = [goal EXCEPT ![p] = "probe"]
  /\ tries' = [tries EXCEPT ![p] = 0]
  /\ Goto(p, "read1")
  /\ UNCHANGED <<tag, old, seen, beat>>

\* tryRemoveStaleLock, first read.  Contents that do not parse end it too,
\* on the second parse; the lock is then as little cleared as a live one.
Read1(p) ==
  /\ pc[p] = "read1"
  /\ IF Expired
       THEN /\ seen' = [seen EXCEPT ![p] = <<tag, old>>]
            /\ Goto(p, "read2")
       ELSE /\ AfterClear(p, tag = Absent /\ ~FailFast)
            /\ UNCHANGED seen
  /\ UNCHANGED <<tag, old, goal, tries, beat>>

\* tryRemoveStaleLock, second read: same bytes, still expired.  The time in
\* a file only grows older until the file is written again.
Read2(p) ==
  /\ pc[p] = "read2"
  /\ IF tag = seen[p][1] /\ (seen[p][2] => old) /\ Expired
       THEN Goto(p, "remove")
       ELSE AfterClear(p, FALSE)
  /\ UNCHANGED <<tag, old, goal, tries, seen, beat>>

\* tryRemoveStaleLock, os.Remove: by path, whatever file has it by now.
Remove(p) ==
  /\ pc[p] = "remove"
  /\ IF tag # Absent /\ ~OpenForWriting
       THEN /\ tag' = Absent
            /\ old' = FALSE
            /\ AfterClear(p, TRUE)
       ELSE /\ AfterClear(p, FALSE)
            /\ UNCHANGED <<tag, old>>
  /\ UNCHANGED <<goal, tries, seen, beat>>

\* Variant: one attempt too many.
CreateOnceMore(p) ==
  /\ pc[p] = "create"
  /\ tries' = [tries EXCEPT ![p] = @ + 1]
  /\ IF tag = Absent
       THEN tag' = Torn /\ old' = FALSE /\ Goto(p, "write")
       ELSE Goto(p, "read1") /\ UNCHANGED <<tag, old>>
  /\ UNCHANGED <<goal, seen, beat>>

\* os.OpenFile with O_CREATE|O_EXCL: the new file is empty until Write.
Create(p) ==
  /\ pc[p] = "create"
  /\ tries[p] < MaxAttempts
  /\ tries' = [tries EXCEPT ![p] = @ + 1]
  /\ IF tag = Absent
       THEN /\ tag' = Torn
            /\ old' = FALSE
            /\ Goto(p, "write")
       ELSE /\ Goto(p, IF FailFast THEN "inspect" ELSE "read1")
            /\ UNCHANGED <<tag, old>>
  /\ UNCHANGED <<goal, seen, beat>>

\* The loop is over: "could not acquire", "queue busy", "data lock busy".
GiveUp(p) ==
  /\ pc[p] = "create"
  /\ tries[p] = MaxAttempts
  /\ Goto(p, "idle")
  /\ UNCHANGED <<tag, old, goal, tries, seen, beat>>

\* Variant: any holder is taken for this process.
InspectAnyOwner(p) ==
  /\ pc[p] = "inspect"
  /\ Goto(p, IF tag \in Procs THEN "held" ELSE "read1")
  /\ UNCHANGED <<tag, old, goal, tries, seen, beat>>

\* backuplock.Acquire reads who has the lock: itself (re-entrant), a live
\* process (contention, it fails), or one to clear away.
Inspect(p) ==
  /\ pc[p] = "inspect"
  /\ Goto(p, IF tag = p THEN "held"
             ELSE IF tag \in Procs /\ ~Expired THEN "idle"
             ELSE "read1")
  /\ UNCHANGED <<tag, old, goal, tries, seen, beat>>

\* writeLockFile
Write(p) ==
  /\ pc[p] = "write"
  /\ tag' = p
  /\ old' = FALSE
  /\ Goto(p, "held")
  /\ UNCHANGED <<goal, tries, seen, beat>>

\* Release, the read: only a file that still names this process is removed.
Release(p) ==
  /\ pc[p] = "held"
  /\ Goto(p, IF tag = p THEN "unlink" ELSE "idle")
  /\ UNCHANGED <<tag, old, goal, tries, seen, beat>>

\* Variant: the file is left behind.
UnlinkForgotten(p) ==
  /\ pc[p] = "unlink"
  /\ Goto(p, "idle")
  /\ UNCHANGED <<tag, old, goal, tries, seen, beat>>

\* Release, the removal, by path; its error is ignored.
Unlink(p) ==
  /\ pc[p] = "unlink"
  /\ Goto(p, "idle")
  /\ IF OpenForWriting
       THEN UNCHANGED <<tag, old>>
       ELSE /\ tag' = Absent
            /\ old' = FALSE
  /\ UNCHANGED <<goal, tries, seen, beat>>

\* The same removal refused because another process is reading the file.
UnlinkShared(p) ==
  /\ "share" \in Hazards
  /\ pc[p] = "unlink"
  /\ \E q \in Procs \ {p} : pc[q] \in {"read1", "read2", "inspect"}
  /\ Goto(p, "idle")
  /\ UNCHANGED <<tag, old, goal, tries, seen, beat>>

-----------------------------------------------------------------------------
\* touchLockFile in its own goroutine: it reads the file while the lock is
\* held, then opens it with O_TRUNC and writes it again.  Release does not
\* wait for it.
BeatCheck(p) ==
  /\ "beat" \in Hazards
  /\ pc[p] \in {"held", "unlink"}
  /\ beat[p] = "quiet"
  /\ tag = p
  /\ beat' = [beat EXCEPT ![p] = "checked"]
  /\ UNCHANGED <<tag, old, pc, goal, tries, seen>>

BeatTruncate(p) ==
  /\ Alive(p)
  /\ beat[p] = "checked"
  /\ IF tag = Absent
       THEN /\ beat' = [beat EXCEPT ![p] = "quiet"]
            /\ UNCHANGED <<tag, old>>
       ELSE /\ beat' = [beat EXCEPT ![p] = "truncated"]
            /\ tag' = Torn
            /\ old' = FALSE
  /\ UNCHANGED <<pc, goal, tries, seen>>

BeatWrite(p) ==
  /\ Alive(p)
  /\ beat[p] = "truncated"
  /\ beat' = [beat EXCEPT ![p] = "quiet"]
  /\ tag' = p
  /\ old' = FALSE
  /\ UNCHANGED <<pc, goal, tries, seen>>

\* The process dies: what it had in the file stays there.
Crash(p) ==
  /\ "crash" \in Hazards
  /\ Alive(p)
  /\ Goto(p, "dead")
  /\ beat' = [beat EXCEPT ![p] = "quiet"]
  /\ UNCHANGED <<tag, old, goal, tries, seen>>

\* More than LockMaxAge passes, a machine that slept through its heartbeats.
Age ==
  /\ "age" \in Hazards
  /\ tag \in Procs
  /\ ~old
  /\ old' = TRUE
  /\ UNCHANGED <<tag, pc, goal, tries, seen, beat>>

-----------------------------------------------------------------------------
\* What a process does once it began: the code runs on by itself.
Step(p) ==
  \/ Read1(p) \/ Read2(p) \/ Remove(p)
  \/ Create(p) \/ GiveUp(p) \/ Inspect(p) \/ Write(p)
  \/ Unlink(p) \/ UnlinkShared(p)

\* The heartbeat goroutine once it looked at the file.
Beat(p) == BeatTruncate(p) \/ BeatWrite(p)

Start(p) == Acquire(p) \/ ClearStale(p)

Next ==
  \/ \E p \in Procs : \/ Start(p) \/ Step(p) \/ Release(p)
                     \/ BeatCheck(p) \/ Beat(p) \/ Crash(p)
  \/ Age

Spec == Init /\ [][Next]_vars

\* The scheduler runs every live process, a backup ends, and the five-second
\* tick keeps looking whether the next one can start.
Fairness == \A p \in Procs :
  /\ WF_vars(Step(p))
  /\ WF_vars(Beat(p))
  /\ WF_vars(Start(p))
  /\ WF_vars(Release(p))

FairSpec == Spec /\ Fairness

-----------------------------------------------------------------------------
Holds(p) == pc[p] \in {"held", "unlink"}

\* "Acquire creates an exclusive backup lock for this process"
\* (lock_windows.go:206): two processes never hold the lock at once.
MutualExclusion == \A p, q \in Procs : Holds(p) /\ Holds(q) => p = q

\* While a process holds the lock the file names it, so that IsHeld answers
\* TRUE to everybody (lock_windows.go:167).
HeldIsVisible == \A p \in Procs : Holds(p) => tag = p

\* A file that names a live process is that of a process in the critical
\* section: Release leaves no file that would block the others until the
\* process exits.
NoLeakedLock == tag \in Procs /\ Alive(tag) => Holds(tag)

\* A lock that names a dead process is cleared, as long as somebody is left
\* to look at it (tryRemoveStaleLock, called by every ClearStale and Acquire).
StaleLockCleared ==
  \A p \in Procs :
    (tag = p /\ ~Alive(p)) ~> (tag # p \/ \A q \in Procs : ~Alive(q))

\* A lock older than LockMaxAge is cleared or renewed, though its process
\* lives (lockExpired).
AgedLockRenewed == old ~> (~old \/ \A q \in Procs : ~Alive(q))
=============================================================================
