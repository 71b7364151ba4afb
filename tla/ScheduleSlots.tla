--------------------------- MODULE ScheduleSlots ---------------------------
(***************************************************************************)
(* One scheduled job and its slots: internal/service (the tick of the      *)
(* service, slot claims, BeginScheduledRun, schedule_state.json), the tick *)
(* of the window application (runScheduledJobs), and what Submit, Drain    *)
(* and the workers do to the claim of a slot.                              *)
(*                                                                         *)
(* A slot is one due time of the job.  To run it a tick takes the claim    *)
(* file of the slot, looks a second time at the last recorded slot, marks  *)
(* the slot active in its process, and submits an item.  The item is       *)
(* launched at once or queued, and from the queue any program may take it. *)
(* Taking an item from the queue and marking it in flight is one action    *)
(* here, and so are a lock and the running flag it guards: modules         *)
(* BackupQueue and LockFile have their steps.                              *)
(***************************************************************************)
EXTENDS Naturals, Sequences

CONSTANTS
  Procs,          \* the programs
  Service,        \* the one that ticks whenever it runs
  Workers,        \* goroutines that run a backup
  Owner,          \* the program of a worker
  None,
  Gone,           \* the owner of a claim file whose process died
  Other,          \* a backup of another job
  MaxSlot,        \* slots in a behaviour
  MaxOther,       \* bound of the other backups
  MaxFails,       \* bound of the launches that fail
  MaxExits,       \* bound of the exits of programs
  MaxEdits,       \* bound of SaveJob
  SkipOptions,    \* the values its option SkipIfRunning may have
  ConfigFails     \* the configuration may fail to load when an item starts

Slots == 1..MaxSlot

ASSUME SlotAssumption ==
  /\ Owner \in [Workers -> Procs]
  /\ Service \in Procs
  /\ {None, Gone} \cap Procs = {} /\ None # Gone
  /\ {None, Other} \cap Workers = {} /\ None # Other
  /\ None \notin Slots
  /\ {MaxSlot, MaxOther, MaxFails, MaxExits, MaxEdits} \subseteq Nat
  /\ SkipOptions \in (SUBSET BOOLEAN) \ {{}}
  /\ ConfigFails \in BOOLEAN

VARIABLES
  up,        \* the program runs
  now,       \* the slot that is due, 0 before the first
  skip,      \* the option SkipIfRunning of its schedule, which no edit changes here
  claim,     \* schedule_claim_<job>_<slot>.lock: the process it names
  lastRun,   \* the job's entry in schedule_state.json
  active,    \* activeScheduled of each process
  queue,     \* backup_queue.json: slots
  marker,    \* backup_queue_inflight.json
  holder,    \* who has the engine and the backup lock
  step,      \* where the tick of each program is
  at,        \* the slot of that tick
  wstep,     \* where each worker is
  work,      \* its slot
  queued,    \* Item.FromQueue of its item
  others, fails, exits, edits,  \* so far
  succeeded, \* history: slots with a successful backup
  again,     \* history: slots with a second one
  reopened   \* history: slots that lost what keeps them from a second run

job == <<now, skip>>
files == <<claim, lastRun, queue, marker>>
ticks == <<step, at>>
workers == <<wstep, work, queued>>
counters == <<others, fails, exits, edits>>
history == <<succeeded, again, reopened>>
vars == <<up, job, files, active, holder, ticks, workers, counters, history>>

TickSteps == {"idle", "drain", "look", "contains", "claim", "recheck", "begin",
              "submit", "enqueue", "abort"}

WorkerSteps == {"free", "begin", "run", "ok", "unclaim", "failed", "end", "drain"}

TypeOK ==
  /\ up \in [Procs -> BOOLEAN]
  /\ now \in 0..MaxSlot
  /\ skip \in SkipOptions
  /\ claim \in [Slots -> Procs \cup {None, Gone}]
  /\ lastRun \in Slots \cup {None}
  /\ active \in [Procs -> SUBSET Slots]
  /\ queue \in Seq(Slots)
  /\ marker \in Slots \cup {None}
  /\ holder \in Workers \cup {None, Other}
  /\ step \in [Procs -> TickSteps]
  /\ at \in [Procs -> 0..MaxSlot]
  /\ wstep \in [Workers -> WorkerSteps]
  /\ work \in [Workers -> Slots \cup {None}]
  /\ queued \in [Workers -> BOOLEAN]
  /\ others \in 0..MaxOther
  /\ fails \in 0..MaxFails
  /\ exits \in 0..MaxExits
  /\ edits \in 0..MaxEdits
  /\ {succeeded, again, reopened} \subseteq SUBSET Slots

Init ==
  /\ up = [p \in Procs |-> FALSE]
  /\ now = 0
  /\ skip \in SkipOptions
  /\ claim = [s \in Slots |-> None]
  /\ lastRun = None
  /\ active = [p \in Procs |-> {}]
  /\ queue = <<>>
  /\ marker = None
  /\ holder = None
  /\ step = [p \in Procs |-> "idle"]
  /\ at = [p \in Procs |-> 0]
  /\ wstep = [w \in Workers |-> "free"]
  /\ work = [w \in Workers |-> None]
  /\ queued = [w \in Workers |-> FALSE]
  /\ others = 0 /\ fails = 0 /\ exits = 0 /\ edits = 0
  /\ succeeded = {} /\ again = {} /\ reopened = {}

-----------------------------------------------------------------------------
InQueue(s) == \E n \in DOMAIN queue : queue[n] = s

\* An engine is idle and the lock is free.
CanStart == holder = None

Goto(p, label) == step' = [step EXCEPT ![p] = label]

WorkerGoto(w, label) == wstep' = [wstep EXCEPT ![w] = label]

\* releaseScheduleClaim removes the file by its path, whoever wrote it.
ReleaseClaim(s) == claim' = [claim EXCEPT ![s] = None]

\* EndScheduledRun
EndRun(p, s) == active' = [active EXCEPT ![p] = @ \ {s}]

\* A goroutine of the program that is free takes the slot to Execute.
StartWorker(w, s, fromQueue) ==
  /\ WorkerGoto(w, "begin")
  /\ work' = [work EXCEPT ![w] = s]
  /\ queued' = [queued EXCEPT ![w] = fromQueue]

\* Bookkeeping of the bound MaxFails.
CountFailure == fails < MaxFails /\ fails' = fails + 1

\* The items ClaimNext finds: a marker without a backup goes back first.
Items == IF marker # None /\ ~InQueue(marker) THEN <<marker>> \o queue ELSE queue

\* ClaimNext takes the head.
TakeHead ==
  /\ Items # <<>>
  /\ queue' = Tail(Items)
  /\ reopened' = reopened \cup {s \in Slots : s = marker}

\* Drain finds nothing it may start.
DrainNothing ==
  /\ ~CanStart \/ Items = <<>>
  /\ UNCHANGED <<claim, active, queue, marker, reopened, fails>>

\* Drain takes the head of the queue for worker w.
DrainStarts(w) ==
  /\ CanStart
  /\ TakeHead
  /\ marker' = Head(Items)
  /\ StartWorker(w, Head(Items), TRUE)
  /\ UNCHANGED <<claim, active, fails>>

\* Drain cannot launch the head: ReleaseLaunchFailure.  With no job at hand the
\* key of the claim is computed from an empty schedule, and is another one
\* unless the tick was in the very minute of the slot.
DrainFails(p) ==
  /\ CanStart
  /\ CountFailure
  /\ TakeHead
  /\ EndRun(p, Head(Items))
  /\ \/ ReleaseClaim(Head(Items))
     \/ ConfigFails /\ UNCHANGED claim
  /\ marker' = None

Free(w, p) == Owner[w] = p /\ wstep[w] = "free"

-----------------------------------------------------------------------------
\* The next due time of the job.
NextSlot ==
  /\ now < MaxSlot
  /\ now' = now + 1
  /\ UNCHANGED <<up, skip, files, active, holder, ticks, workers, counters, history>>

\* A tick: every program has its ticker, and the window application leaves
\* the schedule to a running service.
Tick(p) ==
  /\ up[p]
  /\ step[p] = "idle"
  /\ now > 0
  /\ p = Service \/ ~up[Service]
  /\ at' = [at EXCEPT ![p] = now]
  /\ Goto(p, "drain")
  /\ UNCHANGED <<up, job, files, active, holder, workers, counters, history>>

\* The tick drains the queue first.
TickDrain(p) ==
  /\ step[p] = "drain"
  /\ \/ DrainNothing /\ UNCHANGED workers
     \/ \E w \in Workers : Free(w, p) /\ DrainStarts(w)
     \/ DrainFails(p) /\ UNCHANGED workers
  /\ Goto(p, "look")
  /\ UNCHANGED <<up, job, lastRun, holder, at, others, exits, edits, succeeded, again>>

\* SlotAlreadySucceeded, the first time.
TickLook(p) ==
  /\ step[p] = "look"
  /\ Goto(p, IF lastRun = at[p] THEN "idle" ELSE "contains")
  /\ UNCHANGED <<up, job, files, active, holder, at, workers, counters, history>>

\* backupqueue.Contains
TickContains(p) ==
  /\ step[p] = "contains"
  /\ Goto(p, IF InQueue(at[p]) THEN "idle" ELSE "claim")
  /\ UNCHANGED <<up, job, files, active, holder, at, workers, counters, history>>

\* Variant: a claim file that exists is written over.
TickClaimShared(p) ==
  /\ step[p] = "claim"
  /\ claim' = [claim EXCEPT ![at[p]] = p]
  /\ Goto(p, "recheck")
  /\ UNCHANGED <<up, job, lastRun, queue, marker, active, holder, at, workers, counters, history>>

\* TryClaimSlot: the claim of a process that died gives way.
TickClaim(p) ==
  /\ step[p] = "claim"
  /\ \/ /\ claim[at[p]] \in Procs
        /\ Goto(p, "idle")
        /\ UNCHANGED claim
     \/ /\ claim[at[p]] \notin Procs
        /\ claim' = [claim EXCEPT ![at[p]] = p]
        /\ Goto(p, "recheck")
  /\ UNCHANGED <<up, job, lastRun, queue, marker, active, holder, at, workers, counters, history>>

\* Variant: what was read before the claim is still good.
TickRecheckNot(p) ==
  /\ step[p] = "recheck"
  /\ Goto(p, "begin")
  /\ UNCHANGED <<up, job, files, active, holder, at, workers, counters, history>>

\* SlotAlreadySucceeded once more, now that the slot is claimed.
TickRecheck(p) ==
  /\ step[p] = "recheck"
  /\ \/ /\ lastRun = at[p]
        /\ ReleaseClaim(at[p])
        /\ Goto(p, "idle")
     \/ /\ lastRun # at[p]
        /\ Goto(p, "begin")
        /\ UNCHANGED claim
  /\ UNCHANGED <<up, job, lastRun, queue, marker, active, holder, at, workers, counters, history>>

\* BeginScheduledRun
TickBegin(p) ==
  /\ step[p] = "begin"
  /\ \/ /\ at[p] \in active[p]
        /\ ReleaseClaim(at[p])
        /\ Goto(p, "idle")
        /\ UNCHANGED active
     \/ /\ at[p] \notin active[p]
        /\ active' = [active EXCEPT ![p] = @ \cup {at[p]}]
        /\ Goto(p, "submit")
        /\ UNCHANGED claim
  /\ UNCHANGED <<up, job, lastRun, queue, marker, holder, at, workers, counters, history>>

\* What Submit does to a slot it skips, finds queued or cannot start.
SlotGivenUp(p) == EndRun(p, at[p]) /\ ReleaseClaim(at[p])

\* Submit: launch, or fail to; skip the slot while another backup runs; or queue.
TickSubmit(p) ==
  /\ step[p] = "submit"
  /\ \/ /\ CanStart
        /\ \E w \in Workers : Free(w, p) /\ StartWorker(w, at[p], FALSE)
        /\ Goto(p, "idle")
        /\ UNCHANGED <<claim, active, fails>>
     \/ /\ CanStart
        /\ CountFailure
        /\ SlotGivenUp(p)
        /\ Goto(p, "abort")
        /\ UNCHANGED workers
     \/ /\ ~CanStart
        /\ skip
        /\ SlotGivenUp(p)
        /\ Goto(p, "idle")
        /\ UNCHANGED <<workers, fails>>
     \/ /\ ~CanStart
        /\ ~skip
        /\ Goto(p, "enqueue")
        /\ UNCHANGED <<claim, active, workers, fails>>
  /\ UNCHANGED <<up, job, lastRun, queue, marker, holder, at, others, exits, edits,
                 history>>

\* Enqueue: the slot is queued already, or goes to the tail.
TickEnqueue(p) ==
  /\ step[p] = "enqueue"
  /\ \/ /\ InQueue(at[p])
        /\ SlotGivenUp(p)
        /\ UNCHANGED queue
     \/ /\ ~InQueue(at[p])
        /\ queue' = Append(queue, at[p])
        /\ UNCHANGED <<active, claim>>
  /\ Goto(p, "idle")
  /\ UNCHANGED <<up, job, lastRun, marker, holder, at, workers, counters, history>>

\* The error of Submit: the tick ends the run and releases the claim, again,
\* though another program may have taken it in the meantime.
TickAbort(p) ==
  /\ step[p] = "abort"
  /\ SlotGivenUp(p)
  /\ reopened' = reopened \cup {s \in Slots : s = at[p] /\ claim[s] \in Procs}
  /\ Goto(p, "idle")
  /\ UNCHANGED <<up, job, lastRun, queue, marker, holder, at, workers, counters, succeeded,
                 again>>

-----------------------------------------------------------------------------
\* Engine.Run, or its refusal.
WorkerBegin(w) ==
  /\ wstep[w] = "begin"
  /\ \/ /\ holder = None
        /\ holder' = w
        /\ WorkerGoto(w, "run")
        /\ UNCHANGED marker
     \/ /\ holder # None
        /\ marker' = IF queued[w] THEN None ELSE marker
        /\ WorkerGoto(w, "failed")
        /\ UNCHANGED holder
  /\ UNCHANGED <<up, job, claim, lastRun, queue, active, ticks, work, queued, counters, history>>

\* The backup ends, well or not; Execute removes the marker of a queued item.
WorkerRuns(w) ==
  /\ wstep[w] = "run"
  /\ holder' = None
  /\ marker' = IF queued[w] THEN None ELSE marker
  /\ \/ /\ succeeded' = succeeded \cup {work[w]}
        /\ again' = again \cup ({work[w]} \cap succeeded)
        /\ WorkerGoto(w, "ok")
     \/ /\ WorkerGoto(w, "failed")
        /\ UNCHANGED <<succeeded, again>>
  /\ UNCHANGED <<up, job, claim, lastRun, queue, active, ticks, work, queued, counters, reopened>>

\* RecordScheduleOutcome of a success: schedule_state.json, one slot per job.
RecordSuccess(w) ==
  /\ wstep[w] = "ok"
  /\ lastRun' = work[w]
  /\ reopened' = reopened \cup {s \in Slots : s = lastRun /\ s # work[w]}
  /\ WorkerGoto(w, "unclaim")
  /\ UNCHANGED <<up, job, claim, queue, marker, active, holder, ticks, work, queued, counters,
                 succeeded, again>>

\* RecordScheduleOutcome, the end: the claim goes.
Unclaim(w) ==
  /\ wstep[w] = "unclaim"
  /\ ReleaseClaim(work[w])
  /\ WorkerGoto(w, "end")
  /\ UNCHANGED <<up, job, lastRun, queue, marker, active, holder, ticks, work, queued, counters,
                 history>>

\* Variant: the claim of a slot that failed stays.
RecordFailureOnly(w) ==
  /\ wstep[w] = "failed"
  /\ WorkerGoto(w, "end")
  /\ UNCHANGED <<up, job, files, active, holder, ticks, work, queued, counters, succeeded, again,
                 reopened>>

\* RecordScheduleOutcome of a failure or a cancellation, and a panic: the claim
\* goes and catch-up may try again.
RecordFailure(w) ==
  /\ wstep[w] = "failed"
  /\ ReleaseClaim(work[w])
  /\ WorkerGoto(w, "end")
  /\ UNCHANGED <<up, job, lastRun, queue, marker, active, holder, ticks, work, queued, counters,
                 succeeded, again, reopened>>

\* Variant: the slot stays active in the process.
WorkerEndsActive(w) ==
  /\ wstep[w] = "end"
  /\ marker' = None
  /\ WorkerGoto(w, "drain")
  /\ work' = [work EXCEPT ![w] = None]
  /\ queued' = [queued EXCEPT ![w] = FALSE]
  /\ UNCHANGED <<up, job, claim, lastRun, queue, active, holder, ticks, counters, history>>

\* The worker's deferred calls: ClearInflight and EndScheduledRun.
WorkerEnds(w) ==
  /\ wstep[w] = "end"
  /\ marker' = None
  /\ EndRun(Owner[w], work[w])
  /\ WorkerGoto(w, "drain")
  /\ work' = [work EXCEPT ![w] = None]
  /\ queued' = [queued EXCEPT ![w] = FALSE]
  /\ UNCHANGED <<up, job, claim, lastRun, queue, holder, ticks, counters, history>>

\* The worker's deferred processBackupQueue.
WorkerDrains(w) ==
  /\ wstep[w] = "drain"
  /\ \/ DrainNothing /\ WorkerGoto(w, "free") /\ UNCHANGED <<work, queued>>
     \/ DrainStarts(w)
     \/ DrainFails(Owner[w]) /\ WorkerGoto(w, "free") /\ UNCHANGED <<work, queued>>
  /\ UNCHANGED <<up, job, lastRun, holder, ticks, others, exits, edits, succeeded, again>>

-----------------------------------------------------------------------------
\* A backup of another job begins and ends.
OtherBegins ==
  /\ holder = None
  /\ others < MaxOther
  /\ others' = others + 1
  /\ holder' = Other
  /\ UNCHANGED <<up, job, files, active, ticks, workers, fails, exits, edits, history>>

\* Its worker drains the queue; a run of the command line has none.
OtherEnds ==
  /\ holder = Other
  /\ holder' = None
  /\ \/ \E w \in Workers : /\ up[Owner[w]]
                          /\ wstep[w] = "free"
                          /\ WorkerGoto(w, "drain")
     \/ UNCHANGED wstep
  /\ UNCHANGED <<up, job, files, active, ticks, work, queued, counters, history>>

\* A program starts: ClearStaleScheduleClaims and ReconcileInflight, which
\* waits while a backup runs or the marker is recent.
Boot(p) ==
  /\ ~up[p]
  /\ up' = [up EXCEPT ![p] = TRUE]
  /\ claim' = [s \in Slots |-> IF claim[s] = Gone THEN None ELSE claim[s]]
  /\ \/ UNCHANGED <<queue, marker, reopened>>
     \/ /\ marker # None
        /\ holder = None
        /\ queue' = Items
        /\ marker' = None
        /\ reopened' = reopened \cup {marker}
  /\ UNCHANGED <<job, lastRun, active, holder, ticks, workers, counters, succeeded, again>>

\* A program ends, killed or closed: its claims stay behind.
Exit(p) ==
  /\ up[p]
  /\ exits < MaxExits
  /\ exits' = exits + 1
  /\ up' = [up EXCEPT ![p] = FALSE]
  /\ claim' = [s \in Slots |-> IF claim[s] = p THEN Gone ELSE claim[s]]
  /\ reopened' = reopened \cup {s \in Slots : claim[s] = p}
  /\ active' = [active EXCEPT ![p] = {}]
  /\ holder' = IF \E w \in Workers : holder = w /\ Owner[w] = p THEN None ELSE holder
  /\ step' = [step EXCEPT ![p] = "idle"]
  /\ wstep' = [w \in Workers |-> IF Owner[w] = p THEN "free" ELSE wstep[w]]
  /\ work' = [w \in Workers |-> IF Owner[w] = p THEN None ELSE work[w]]
  /\ queued' = [w \in Workers |-> IF Owner[w] = p THEN FALSE ELSE queued[w]]
  /\ UNCHANGED <<job, lastRun, queue, marker, at, others, fails, edits, succeeded, again>>

\* SaveJob: ClearScheduleClaims removes the claims and the last slot of the job.
SaveJob ==
  /\ edits < MaxEdits
  /\ edits' = edits + 1
  /\ claim' = [s \in Slots |-> None]
  /\ lastRun' = None
  /\ reopened' = reopened \cup {s \in Slots : claim[s] # None \/ lastRun = s}
  /\ UNCHANGED <<up, job, queue, marker, active, holder, ticks, workers, others, fails, exits,
                 succeeded, again>>

-----------------------------------------------------------------------------
TickGoesOn(p) ==
  \/ Tick(p) \/ TickDrain(p) \/ TickLook(p) \/ TickContains(p) \/ TickClaim(p)
  \/ TickRecheck(p) \/ TickBegin(p) \/ TickSubmit(p) \/ TickEnqueue(p) \/ TickAbort(p)

WorkerGoesOn(w) ==
  \/ WorkerBegin(w) \/ WorkerRuns(w) \/ RecordSuccess(w) \/ Unclaim(w)
  \/ RecordFailure(w) \/ WorkerEnds(w) \/ WorkerDrains(w)

Next ==
  \/ NextSlot
  \/ \E p \in Procs : TickGoesOn(p) \/ Boot(p) \/ Exit(p)
  \/ \E w \in Workers : WorkerGoesOn(w)
  \/ OtherBegins \/ OtherEnds
  \/ SaveJob

Spec == Init /\ [][Next]_vars

\* The tickers of the programs that run, their goroutines, and the end of
\* every backup, this job's and the others'.
Fairness ==
  /\ \A p \in Procs : WF_vars(TickGoesOn(p))
  /\ \A w \in Workers : WF_vars(WorkerGoesOn(w))
  /\ WF_vars(OtherEnds)

FairSpec == Spec /\ Fairness

-----------------------------------------------------------------------------
\* A worker runs the slot or is about to.
Running(w, s) == work[w] = s /\ wstep[w] \in {"begin", "run"}

\* No slot of the schedule is backed up twice, by whichever program and over
\* failures and retries (schedule_claims.go, schedule_guard.go): only the end
\* of a program with a claim, an item put back from the marker, an edit of the
\* job, the record of another slot in its place, or the second release of a
\* launch that failed can make it run again.
SlotOnce == again \subseteq reopened

\* A slot has one run at a time: it is queued once or has one worker, and
\* with both there is nothing the second check could still prevent.
OneRunPerSlot ==
  \A s \in Slots \ reopened :
    /\ \A v, w \in Workers : Running(v, s) /\ Running(w, s) => v = w
    /\ \A w \in Workers : Running(w, s) => ~InQueue(s)

\* "ReleaseLaunchFailure clears scheduled-run markers when a queue item cannot
\* start" (launch.go:9): the claim of a live program has somebody behind it,
\* a tick, an item or a worker.  Not so when the program that drained the item
\* exits while it runs it, nor after a launch that failed because the
\* configuration could not be loaded: these claims wait for their age.
ClaimJustified ==
  \A s \in Slots : (claim[s] \in Procs /\ exits = 0 /\ (ConfigFails => fails = 0)) =>
    \/ InQueue(s) \/ marker = s
    \/ \E w \in Workers : work[w] = s
    \/ \E p \in Procs : step[p] # "idle" /\ at[p] = s

\* Catch-up (ReleaseSlotClaim): while a slot is due and not done, it is run or
\* tried again, for ever.
CatchUp ==
  \A s \in Slots :
    (now = s /\ s \notin succeeded /\ up[Service])
      ~> (s \in succeeded \/ now # s \/ ~up[Service] \/ \E w \in Workers : wstep[w] = "run" /\ work[w] = s)
=============================================================================
