---------------------------- MODULE BackupQueue ----------------------------
(***************************************************************************)
(* From a request to a recorded result: internal/backupqueue, the Submit   *)
(* and Execute of internal/backuprunner, the running flag and the lock of  *)
(* internal/backup.Engine, and the workers of the window application       *)
(* (backup_worker.go) and of the Windows service (service/queue.go).       *)
(*                                                                         *)
(* The programs are processes that share three files: the queue, the       *)
(* single in-flight marker and the backup lock.  A thread is a goroutine   *)
(* of a process: it submits a request, drains the queue, or runs a backup. *)
(* A goroutine that a launch starts is modelled as the launching thread    *)
(* going on, which is free to do so because its caller returns at once.    *)
(* Each file operation under a lock file is one action here; module        *)
(* LockFile has the lock files themselves, and only the lock of a live     *)
(* process keeps anybody out.                                              *)
(***************************************************************************)
EXTENDS Naturals, Sequences

CONSTANTS
  Procs,          \* the programs: window application, service
  Threads,        \* their goroutines
  Owner,          \* the program of a goroutine
  Items,          \* requests, each submitted once
  Key,            \* dedupeKey: job and slot of a scheduled request
  NoKey,          \* the key of a manual request
  None,
  Stale,          \* the backup lock of a process that died
  MaxQueueItems,  \* 1000 in the code
  Retries,        \* bound of the network retries of one Execute
  MaxCrashes      \* bound of the crashes of a behaviour

ASSUME QueueAssumption ==
  /\ Owner \in [Threads -> Procs]
  /\ None \notin Procs \cup Items \cup Threads
  /\ Stale \notin Procs \cup {None}
  /\ MaxQueueItems \in Nat \ {0}
  /\ Retries \in Nat
  /\ MaxCrashes \in Nat

VARIABLES
  up,         \* the process runs
  queue,      \* backup_queue.json
  marker,     \* backup_queue_inflight.json, one item
  fresh,      \* the marker was written less than inflightRecentGrace ago
  queueLock,  \* the thread between two steps under backup_queue.lock
  markLock,   \* the thread between two steps under the marker's datalock
  lock,       \* whose backup.lock it is
  running,    \* Engine.running of each process
  pc,         \* where each thread is
  item,       \* the request a thread has in hand
  claimed,    \* Item.FromQueue of that request
  result,     \* what Engine.Run returned
  left,       \* network retries Execute still has
  crashes,    \* crashes so far
  submitted,  \* history: requests handed to Submit
  queued,     \* history: those that entered the queue
  attempted,  \* history: those whose start or run came to an end
  wiped,      \* history: those whose marker was removed by who did not set it
  ended       \* how the programs answered for a request

files == <<queue, marker, fresh, queueLock, markLock>>
thread == <<pc, item, claimed, result, left>>
history == <<submitted, queued, attempted, wiped>>
vars == <<up, files, lock, running, thread, crashes, history, ended>>

Labels == {"free", "submit", "claim", "pop", "start", "dead letter", "begin",
           "lock", "run", "after", "backoff", "finish", "defer", "drain",
           "reconcile", "restore", "unmark"}

Answers == {"done", "refused", "panic", "dead letter", "merged", "rejected"}

TypeOK ==
  /\ up \in [Procs -> BOOLEAN]
  /\ queue \in Seq(Items)
  /\ marker \in Items \cup {None}
  /\ fresh \in BOOLEAN
  /\ queueLock \in Threads \cup {None}
  /\ markLock \in Threads \cup {None}
  /\ lock \in Procs \cup {None, Stale}
  /\ running \in [Procs -> BOOLEAN]
  /\ pc \in [Threads -> Labels]
  /\ item \in [Threads -> Items \cup {None}]
  /\ claimed \in [Threads -> BOOLEAN]
  /\ result \in [Threads -> {"done", "retry", "refused", "panic"}]
  /\ left \in [Threads -> 0..Retries]
  /\ crashes \in 0..MaxCrashes
  /\ submitted \in SUBSET Items
  /\ queued \in SUBSET Items
  /\ attempted \in SUBSET Items
  /\ wiped \in SUBSET Items
  /\ ended \in [Items -> SUBSET Answers]

Init ==
  /\ up = [p \in Procs |-> FALSE]
  /\ queue = <<>>
  /\ marker = None
  /\ fresh = FALSE
  /\ queueLock = None
  /\ markLock = None
  /\ lock = None
  /\ running = [p \in Procs |-> FALSE]
  /\ pc = [t \in Threads |-> "free"]
  /\ item = [t \in Threads |-> None]
  /\ claimed = [t \in Threads |-> FALSE]
  /\ result = [t \in Threads |-> "done"]
  /\ left = [t \in Threads |-> 0]
  /\ crashes = 0
  /\ submitted = {}
  /\ queued = {}
  /\ attempted = {}
  /\ wiped = {}
  /\ ended = [i \in Items |-> {}]

-----------------------------------------------------------------------------
InQueue(i) == \E n \in DOMAIN queue : queue[n] = i

\* Two requests the deduplication takes for one.
Same(i, j) == i = j \/ (Key[i] # NoKey /\ Key[i] = Key[j])

\* queueContainsItemLocked
QueueContains(i) == \E n \in DOMAIN queue : Same(i, queue[n])

Held == lock \in Procs

At(t, label) == pc[t] = label /\ up[Owner[t]]

Goto(t, label) == pc' = [pc EXCEPT ![t] = label]

\* The thread's goroutine ends, or goes back to its loop, with nothing in hand.
Drop(t) ==
  /\ item' = [item EXCEPT ![t] = None]
  /\ claimed' = [claimed EXCEPT ![t] = FALSE]
  /\ result' = [result EXCEPT ![t] = "done"]
  /\ left' = [left EXCEPT ![t] = 0]

Done(t) == Goto(t, "free") /\ Drop(t)

\* Start-up is sequential: a program serves nobody before it has reconciled.
Booting(p) == \E t \in Threads : /\ Owner[t] = p
                               /\ pc[t] \in {"reconcile", "restore", "unmark"}

Answer(i, a) == ended' = [ended EXCEPT ![i] = @ \cup {a}]

\* A backup may start: this engine is idle and no live process has the lock.
CanStart(t) == ~running[Owner[t]] /\ ~Held

\* Variant: a live holder's lock is cleared too.
ClearAnyLock == lock' = None

\* ClearStale, when it answers that the lock is free, has made it so.
ClearStale == lock' = IF Held THEN lock ELSE None

\* clearInflight: the marker goes, whoever wrote it.
ClearInflight(t) ==
  /\ markLock = None
  /\ marker' = None
  /\ fresh' = FALSE
  /\ wiped' = wiped \cup {i \in Items : i = marker /\ i # item[t]}
  /\ UNCHANGED <<queue, queueLock, markLock>>

-----------------------------------------------------------------------------
\* Submit of a new request: launch it at once, or queue it.
Submit(t, i) ==
  /\ At(t, "free")
  /\ ~Booting(Owner[t])
  /\ i \notin submitted
  /\ submitted' = submitted \cup {i}
  /\ item' = [item EXCEPT ![t] = i]
  /\ claimed' = [claimed EXCEPT ![t] = FALSE]
  /\ Goto(t, IF CanStart(t) THEN "start" ELSE "submit")
  /\ IF running[Owner[t]] THEN UNCHANGED lock ELSE ClearStale
  /\ UNCHANGED <<up, files, running, result, left, crashes, queued, attempted, wiped, ended>>

\* Enqueue: at most MaxQueueItems, one item per slot.
Enqueue(t) ==
  /\ At(t, "submit")
  /\ queueLock = None
  /\ \/ /\ Len(queue) >= MaxQueueItems
        /\ Answer(item[t], "rejected")
        /\ UNCHANGED <<queue, queued>>
     \/ /\ Len(queue) < MaxQueueItems
        /\ Key[item[t]] # NoKey
        /\ QueueContains(item[t])
        /\ Answer(item[t], "merged")
        /\ UNCHANGED <<queue, queued>>
     \/ /\ Len(queue) < MaxQueueItems
        /\ Key[item[t]] = NoKey \/ ~QueueContains(item[t])
        /\ queue' = Append(queue, item[t])
        /\ queued' = queued \cup {item[t]}
        /\ UNCHANGED ended
  /\ Done(t)
  /\ UNCHANGED <<up, marker, fresh, queueLock, markLock, lock, running, crashes,
                 submitted, attempted, wiped>>

\* Drain on a tick or at start-up: its two checks, ahead of ClaimNext.
DrainTick(t) ==
  /\ At(t, "free")
  /\ ~Booting(Owner[t])
  /\ CanStart(t)
  /\ ClearStale
  /\ Goto(t, "claim")
  /\ UNCHANGED <<up, files, running, item, claimed, result, left, crashes, history, ended>>

\* Drain at the end of a worker.
DrainAgain(t) ==
  /\ At(t, "drain")
  /\ \/ /\ CanStart(t)
        /\ ClearStale
        /\ Goto(t, "claim")
        /\ UNCHANGED <<item, claimed, result, left>>
     \/ /\ ~CanStart(t)
        /\ Done(t)
        /\ UNCHANGED lock
  /\ UNCHANGED <<up, files, running, crashes, history, ended>>

\* reconcileOrphanInflightLocked: an item found in flight goes back to the
\* head of the queue, unless a backup is under way.
Restored == IF marker # None /\ ~QueueContains(marker)
              THEN <<marker>> \o queue ELSE queue

ClaimBlocked == marker # None /\ Held

\* Variant: the head is taken without a marker, as PopNext does.
ClaimUnmarked(t) ==
  /\ At(t, "claim")
  /\ queueLock = None
  /\ IF queue = <<>>
       THEN Done(t) /\ UNCHANGED files
       ELSE /\ queueLock' = t
            /\ item' = [item EXCEPT ![t] = Head(queue)]
            /\ claimed' = [claimed EXCEPT ![t] = TRUE]
            /\ Goto(t, "pop")
            /\ UNCHANGED <<queue, marker, fresh, markLock, result, left>>
  /\ UNCHANGED <<up, lock, running, crashes, history, ended>>

\* ClaimNext under the queue lock: the head of the queue is marked in flight.
ClaimMark(t) ==
  /\ At(t, "claim")
  /\ queueLock = None
  /\ \/ /\ ClaimBlocked \/ Restored = <<>>
        /\ Done(t)
        /\ UNCHANGED files
     \/ /\ ~ClaimBlocked
        /\ Restored # <<>>
        /\ queue' = Restored
        /\ marker' = Head(Restored)
        /\ fresh' = TRUE
        /\ queueLock' = t
        /\ item' = [item EXCEPT ![t] = Head(Restored)]
        /\ claimed' = [claimed EXCEPT ![t] = TRUE]
        /\ Goto(t, "pop")
        /\ UNCHANGED <<markLock, result, left>>
  /\ UNCHANGED <<up, lock, running, crashes, history, ended>>

\* ClaimNext, the end: the queue is saved without its head.
ClaimPop(t) ==
  /\ At(t, "pop")
  /\ queue' = Tail(queue)
  /\ queueLock' = None
  /\ Goto(t, "start")
  /\ UNCHANGED <<up, marker, fresh, markLock, lock, running, item, claimed, result, left,
                 crashes, history, ended>>

\* ResolveLaunch finds job, destination and secret: the worker starts.
Launch(t) ==
  /\ At(t, "start")
  /\ left' = [left EXCEPT ![t] = Retries]
  /\ Goto(t, "begin")
  /\ UNCHANGED <<up, files, lock, running, item, claimed, result, crashes, history, ended>>

\* Variant: Drain drops the error and files no dead letter.
LaunchFailsSilently(t) ==
  /\ At(t, "start")
  /\ attempted' = attempted \cup {item[t]}
  /\ \/ /\ ~claimed[t]
        /\ Answer(item[t], "rejected")
        /\ UNCHANGED <<files, wiped>>
     \/ claimed[t] /\ ClearInflight(t) /\ UNCHANGED ended
  /\ Done(t)
  /\ UNCHANGED <<up, lock, running, crashes, submitted, queued>>

\* Variant: the error is not marked as permanent, and Drain puts the item back.
LaunchFailsAgain(t) ==
  /\ At(t, "start")
  /\ attempted' = attempted \cup {item[t]}
  /\ \/ /\ ~claimed[t]
        /\ Answer(item[t], "rejected")
        /\ UNCHANGED <<files, wiped>>
     \/ /\ claimed[t]
        /\ queueLock = None
        /\ queue' = <<item[t]>> \o queue
        /\ marker' = None
        /\ fresh' = FALSE
        /\ UNCHANGED <<queueLock, markLock, wiped, ended>>
  /\ Done(t)
  /\ UNCHANGED <<up, lock, running, crashes, submitted, queued>>

\* ResolveLaunch fails: always a permanent error.  Submit returns it to its
\* caller; Drain removes the marker and files a dead letter.
LaunchFails(t) ==
  /\ At(t, "start")
  /\ attempted' = attempted \cup {item[t]}
  /\ \/ /\ ~claimed[t]
        /\ Answer(item[t], "rejected")
        /\ Done(t)
        /\ UNCHANGED <<files, wiped>>
     \/ /\ claimed[t]
        /\ ClearInflight(t)
        /\ Goto(t, "dead letter")
        /\ UNCHANGED <<item, claimed, result, left, ended>>
  /\ UNCHANGED <<up, lock, running, crashes, submitted, queued>>

RecordDeadLetter(t) ==
  /\ At(t, "dead letter")
  /\ Answer(item[t], "dead letter")
  /\ Done(t)
  /\ UNCHANGED <<up, files, lock, running, crashes, history>>

-----------------------------------------------------------------------------
\* Engine.Run: one run at a time in a process.
Begin(t) ==
  /\ At(t, "begin")
  /\ \/ /\ running[Owner[t]]
        /\ result' = [result EXCEPT ![t] = "refused"]
        /\ attempted' = attempted \cup {item[t]}
        /\ Goto(t, "after")
        /\ UNCHANGED running
     \/ /\ ~running[Owner[t]]
        /\ running' = [running EXCEPT ![Owner[t]] = TRUE]
        /\ Goto(t, "lock")
        /\ UNCHANGED <<result, attempted>>
  /\ UNCHANGED <<up, files, lock, item, claimed, left, crashes, submitted, queued, wiped, ended>>

\* Engine.Run: ClearStale and Acquire, or the error of the lock.
AcquireLock(t) ==
  /\ At(t, "lock")
  /\ \/ /\ lock \in Procs \ {Owner[t]}
        /\ running' = [running EXCEPT ![Owner[t]] = FALSE]
        /\ result' = [result EXCEPT ![t] = "refused"]
        /\ attempted' = attempted \cup {item[t]}
        /\ Goto(t, "after")
        /\ UNCHANGED lock
     \/ /\ lock \notin Procs \ {Owner[t]}
        /\ lock' = Owner[t]
        /\ Goto(t, "run")
        /\ UNCHANGED <<result, running, attempted>>
  /\ UNCHANGED <<up, files, item, claimed, left, crashes, submitted, queued, wiped, ended>>

\* Engine.Run returns, by its deferred calls: the lock is released, then the
\* engine is idle.  A result to keep or a network error to retry go back to
\* Execute, a panic past it.
RunEnds(t) ==
  /\ At(t, "run")
  /\ lock' = None
  /\ running' = [running EXCEPT ![Owner[t]] = FALSE]
  /\ \/ /\ result' = [result EXCEPT ![t] = "retry"]
        /\ attempted' = IF left[t] > 0 THEN attempted ELSE attempted \cup {item[t]}
        /\ Goto(t, "after")
     \/ /\ result' = [result EXCEPT ![t] = "done"]
        /\ attempted' = attempted \cup {item[t]}
        /\ Goto(t, "after")
     \/ /\ result' = [result EXCEPT ![t] = "panic"]
        /\ attempted' = attempted \cup {item[t]}
        /\ Goto(t, "finish")
  /\ UNCHANGED <<up, files, item, claimed, left, crashes, submitted, queued, wiped, ended>>

\* A network error, and retries are left.
WillRetry(t) == result[t] = "retry" /\ left[t] > 0

\* Variant: no count of the retries.
AfterRunForEver(t) ==
  /\ At(t, "after")
  /\ Goto(t, IF result[t] = "retry" THEN "backoff" ELSE "finish")
  /\ IF claimed[t] /\ result[t] # "retry" THEN ClearInflight(t) ELSE UNCHANGED <<files, wiped>>
  /\ UNCHANGED <<up, lock, running, item, claimed, result, left, crashes,
                 submitted, queued, attempted, ended>>

\* Execute after Engine.Run: the marker stays for a retry and goes otherwise.
\* The branch that would put a refused item back (IsContention, ErrJobAlreadyRunning)
\* compares with texts and values that the localised errors never equal.
AfterRun(t) ==
  /\ At(t, "after")
  /\ \/ /\ WillRetry(t)
        /\ Goto(t, "backoff")
        /\ UNCHANGED <<files, wiped>>
     \/ /\ ~WillRetry(t)
        /\ Goto(t, "finish")
        /\ IF claimed[t] THEN ClearInflight(t) ELSE UNCHANGED <<files, wiped>>
  /\ UNCHANGED <<up, lock, running, item, claimed, result, left, crashes,
                 submitted, queued, attempted, ended>>

\* The wait of retry.Backoff is over, or the context of a program that shuts
\* down ends it: the last network error is then the result.
Backoff(t) ==
  /\ At(t, "backoff")
  /\ \/ /\ left' = [left EXCEPT ![t] = @ - 1]
        /\ Goto(t, "begin")
        /\ UNCHANGED attempted
     \/ /\ attempted' = attempted \cup {item[t]}
        /\ Goto(t, "finish")
        /\ UNCHANGED left
  /\ UNCHANGED <<up, files, lock, running, item, claimed, result, crashes,
                 submitted, queued, wiped, ended>>

\* FinishCommon: the result is recorded; mails and webhooks take their time.
Finish(t) ==
  /\ At(t, "finish")
  /\ Answer(item[t], IF result[t] = "retry" THEN "done" ELSE result[t])
  /\ Goto(t, "defer")
  /\ UNCHANGED <<up, files, lock, running, item, claimed, result, left, crashes, history>>

\* The worker's deferred ClearInflight, for any worker and any marker.
WorkerDefer(t) ==
  /\ At(t, "defer")
  /\ ClearInflight(t)
  /\ Goto(t, "drain")
  /\ Drop(t)
  /\ UNCHANGED <<up, lock, running, crashes, submitted, queued, attempted, ended>>

-----------------------------------------------------------------------------
\* A program starts: ClearStale, then ReconcileInflight, then Drain.
Boot(t) ==
  /\ ~up[Owner[t]]
  /\ up' = [up EXCEPT ![Owner[t]] = TRUE]
  /\ ClearStale
  /\ Goto(t, "reconcile")
  /\ UNCHANGED <<files, running, item, claimed, result, left, crashes, history, ended>>

\* ReconcileInflight under the marker's datalock: nothing to do while a
\* backup holds the lock or the marker is recent.
Reconcile(t) ==
  /\ At(t, "reconcile")
  /\ markLock = None
  /\ \/ /\ marker = None \/ Held \/ fresh
        /\ Goto(t, "drain")
        /\ UNCHANGED <<item, markLock>>
     \/ /\ marker # None /\ ~Held /\ ~fresh
        /\ item' = [item EXCEPT ![t] = marker]
        /\ markLock' = t
        /\ Goto(t, IF QueueContains(marker) THEN "unmark" ELSE "restore")
  /\ UNCHANGED <<up, queue, marker, fresh, queueLock, lock, running, claimed, result, left,
                 crashes, history, ended>>

\* ReconcileInflight: EnqueueFront, which takes the queue lock.
Restore(t) ==
  /\ At(t, "restore")
  /\ queueLock = None
  /\ queue' = <<item[t]>> \o queue
  /\ Goto(t, "unmark")
  /\ UNCHANGED <<up, marker, fresh, queueLock, markLock, lock, running, item, claimed, result,
                 left, crashes, history, ended>>

\* ReconcileInflight: the marker file is removed, by its path, though ClaimNext
\* does not take the datalock and may have written another one.
Unmark(t) ==
  /\ At(t, "unmark")
  /\ marker' = None
  /\ fresh' = FALSE
  /\ wiped' = wiped \cup {i \in Items : i = marker /\ (i # item[t] \/ fresh)}
  /\ markLock' = None
  /\ item' = [item EXCEPT ![t] = None]
  /\ Goto(t, "drain")
  /\ UNCHANGED <<up, queue, queueLock, lock, running, claimed, result, left, crashes,
                 submitted, queued, attempted, ended>>

\* inflightRecentGrace, two minutes, passes: longer than ClaimNext takes from
\* the marker to the queue, and ReconcileInflight from its check to the removal.
GraceEnds ==
  /\ queueLock = None
  /\ markLock = None
  /\ marker # None
  /\ fresh
  /\ fresh' = FALSE
  /\ UNCHANGED <<up, queue, marker, queueLock, markLock, lock, running, thread, crashes,
                 history, ended>>

\* A process dies.  Its files stay; its lock files are stale, and those of the
\* queue and the marker are cleared by whoever comes next.
Crash(p) ==
  /\ up[p]
  /\ crashes < MaxCrashes
  /\ crashes' = crashes + 1
  /\ up' = [up EXCEPT ![p] = FALSE]
  /\ running' = [running EXCEPT ![p] = FALSE]
  /\ lock' = IF lock = p THEN Stale ELSE lock
  /\ queueLock' = IF \E t \in Threads : queueLock = t /\ Owner[t] = p THEN None ELSE queueLock
  /\ markLock' = IF \E t \in Threads : markLock = t /\ Owner[t] = p THEN None ELSE markLock
  /\ pc' = [t \in Threads |-> IF Owner[t] = p THEN "free" ELSE pc[t]]
  /\ item' = [t \in Threads |-> IF Owner[t] = p THEN None ELSE item[t]]
  /\ claimed' = [t \in Threads |-> IF Owner[t] = p THEN FALSE ELSE claimed[t]]
  /\ result' = [t \in Threads |-> IF Owner[t] = p THEN "done" ELSE result[t]]
  /\ left' = [t \in Threads |-> IF Owner[t] = p THEN 0 ELSE left[t]]
  /\ UNCHANGED <<queue, marker, fresh, history, ended>>

-----------------------------------------------------------------------------
\* What a goroutine does by itself once it is under way.
Proceed(t) ==
  \/ Enqueue(t) \/ DrainAgain(t) \/ ClaimMark(t) \/ ClaimPop(t)
  \/ Launch(t) \/ LaunchFails(t) \/ RecordDeadLetter(t)
  \/ Begin(t) \/ AcquireLock(t) \/ RunEnds(t) \/ AfterRun(t) \/ Backoff(t)
  \/ Finish(t) \/ WorkerDefer(t)
  \/ Reconcile(t) \/ Restore(t) \/ Unmark(t)

Next ==
  \/ \E t \in Threads : \/ Proceed(t)
                        \/ DrainTick(t)
                        \/ Boot(t)
                        \/ \E i \in Items : Submit(t, i)
  \/ \E p \in Procs : Crash(p)
  \/ GraceEnds

Spec == Init /\ [][Next]_vars

\* Goroutines are scheduled, every backup ends, and the five-second tick of
\* each program looks at the queue for ever.
Fairness == \A t \in Threads : WF_vars(Proceed(t)) /\ WF_vars(DrainTick(t))

FairSpec == Spec /\ Fairness

-----------------------------------------------------------------------------
\* The request is somewhere a program will still find it.
Present(i) == InQueue(i) \/ marker = i \/ \E t \in Threads : item[t] = i /\ up[Owner[t]]

\* One backup at a time, over all programs: who transfers data holds the
\* backup lock and has its own engine to itself (engine.go:75, :190).
ExclusiveRun ==
  \A t \in Threads : pc[t] = "run" =>
    /\ lock = Owner[t]
    /\ running[Owner[t]]
    /\ \A u \in Threads : pc[u] = "run" => u = t

\* A queued request is in a file until it, or another one for its slot, has
\* been tried, so that a crash of any program at any step leaves it there
\* (inflight.go:131); only a removal of its marker by the worker of another
\* request, or by a ReconcileInflight that read an earlier marker, can take it
\* away.
DurableClaim ==
  \A i \in queued :
    \E j \in Items : Same(i, j) /\ (InQueue(j) \/ marker = j \/ j \in attempted \cup wiped)

-----------------------------------------------------------------------------
\* The ledger of requests this system keeps: see RunLedger.
Status(i) ==
  IF "merged" \in ended[i] THEN "merged"
  ELSE IF ended[i] # {} THEN "done"
  ELSE IF i \notin submitted THEN "new"
  ELSE IF Present(i) THEN "pending"
  ELSE "lost"

Ledger == INSTANCE RunLedger WITH status <- [i \in Items |-> Status(i)]

\* What the programs promise of every request, while none crashes: it is
\* pending until it is answered, it is not lost on the way, and it is merged
\* only into another request for the same slot.
LedgerKept == Ledger!Spec

\* Every submitted request gets its answer in the end.
EveryRequestAnswered ==
  \A i \in Items : i \in submitted ~> ended[i] # {}
=============================================================================
