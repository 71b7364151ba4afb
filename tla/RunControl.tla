----------------------------- MODULE RunControl -----------------------------
(***************************************************************************)
(* Stopping a backup: the engine of each program (internal/backup), the    *)
(* cancel signals with which the window asks the service to stop           *)
(* (internal/backupcancel), and the shutdown of both programs.             *)
(*                                                                         *)
(* A run is a goroutine inside Engine.Run.  It takes the engine, looks for *)
(* a signal, starts a poll goroutine, takes backup.lock, works, and undoes *)
(* all of it in the order of its deferred calls; the engine is free before *)
(* the last of them, so the next run of the program may begin while this   *)
(* one still winds down, and its poll goroutine may outlive it.            *)
(*                                                                         *)
(* Left out: what a run does (FileChain, PbsBackup), the queue that starts *)
(* it (BackupQueue), and the moment of the label "stopping" of the views.  *)
(***************************************************************************)
EXTENDS Naturals, FiniteSets

CONSTANTS
  Jobs,       \* backup jobs
  FileJobs,   \* those whose destination is a folder (FTP, SMB)
  NoJob,      \* not a job
  MaxRuns,    \* bound: runs of both programs
  MaxAsks,    \* bound: calls of StopBackup
  MaxMishaps  \* bound: crashes, shutdowns and signals that grow old

\* What the constants must satisfy.
RunControlAssumption ==
  /\ FileJobs \subseteq Jobs /\ NoJob \notin Jobs
  /\ {MaxRuns, MaxAsks, MaxMishaps} \subseteq Nat

VARIABLES
  engine,     \* Engine of each program: running, current job, the run Stop cancels
  run,        \* every run: its program, job and place
  polls,      \* the poll goroutines: run, program, job and place
  cancelled,  \* runs whose context is cancelled
  signal,     \* jobs with a signal file
  active,     \* jobs with a checkpoint that looks active
  held,       \* the program that backup.lock names
  down,       \* how far the shutdown of each program is
  view,       \* a call of StopBackup
  asks,       \* calls of StopBackup so far
  mishaps,    \* crashes, shutdowns and expired signals so far
  owed,       \* history: runs a signal was written for while they worked
  shared      \* history: jobs of which two runs, or their goroutines, overlapped

world == <<signal, active, held>>
control == <<engine, run, polls, cancelled, world, down, view, asks, mishaps, owed, shared>>

Programs == {"window", "service"}
NoProgram == "none"
Runs == 1..MaxRuns

Free == [running |-> FALSE, job |-> NoJob, cancel |-> 0]
NoRun == [pc |-> "none", p |-> NoProgram, job |-> NoJob]
NoView == [pc |-> "idle", job |-> NoJob]

Begun == {n \in Runs : run[n].pc # "none"}

Init ==
  /\ engine = [p \in Programs |-> Free]
  /\ run = [n \in Runs |-> NoRun]
  /\ polls = {} /\ cancelled = {}
  /\ signal = {} /\ active = {} /\ held = NoProgram
  /\ down = [p \in Programs |-> "up"]
  /\ view = NoView /\ asks = 0 /\ mishaps = 0
  /\ owed = {} /\ shared = {}

-----------------------------------------------------------------------------
(* Engine.Run *)

Goto(n, pc) == run' = [run EXCEPT ![n].pc = pc]
At(n, pc) == run[n].pc = pc

\* Another run of the job is under way in either program, or its poll
\* goroutine is.
Clash(job) ==
  \/ \E m \in Begun : run[m].job = job /\ run[m].pc # "over"
  \/ \E g \in polls : g.job = job

Begin(p, job) ==
  LET n == Cardinality(Begun) + 1
  IN /\ ~engine[p].running /\ down[p] # "gone" /\ n <= MaxRuns
     /\ engine' = [engine EXCEPT ![p] = [running |-> TRUE, job |-> job, cancel |-> n]]
     /\ run' = [run EXCEPT ![n] = [pc |-> "check", p |-> p, job |-> job]]
     /\ shared' = IF Clash(job) THEN shared \cup {job} ELSE shared
     /\ UNCHANGED <<polls, cancelled, world, down, view, asks, mishaps, owed>>

\* A signal ends the run at once: it stays, and so does the cancel function.
Refused(n) ==
  /\ At(n, "check") /\ run[n].job \in signal
  /\ engine' = [engine EXCEPT ![run[n].p].running = FALSE, ![run[n].p].job = NoJob]
  /\ Goto(n, "over")
  /\ UNCHANGED <<polls, cancelled, world, down, view, asks, mishaps, owed, shared>>

Polling(n) ==
  /\ At(n, "check") /\ run[n].job \notin signal
  /\ polls' = polls \cup {[n |-> n, p |-> run[n].p, job |-> run[n].job, pc |-> "wait"]}
  /\ Goto(n, "acquire")
  /\ UNCHANGED <<engine, cancelled, world, down, view, asks, mishaps, owed, shared>>

\* backuplock.Acquire; a Proxmox backup writes its checkpoint as it begins.
Acquire(n) ==
  /\ At(n, "acquire") /\ held = NoProgram
  /\ held' = run[n].p
  /\ active' = active \cup ({run[n].job} \ FileJobs)
  /\ Goto(n, "work")
  /\ UNCHANGED <<engine, polls, cancelled, signal, down, view, asks, mishaps, owed, shared>>

\* The lock is taken, or the job is incomplete.
NotBegun(n) ==
  /\ At(n, "acquire")
  /\ Goto(n, "reset")
  /\ UNCHANGED <<engine, polls, cancelled, world, down, view, asks, mishaps, owed, shared>>

\* The backup has ended: done, failed, or cancelled by its context.
WorkEnds(n) ==
  /\ At(n, "work")
  /\ active' = active \ {run[n].job}
  /\ Goto(n, "release")
  /\ UNCHANGED <<engine, polls, cancelled, signal, held, down, view, asks, mishaps, owed, shared>>

\* The deferred calls, last one first: Lock.Release, ...
Release(n) ==
  /\ At(n, "release")
  /\ held' = IF held = run[n].p THEN NoProgram ELSE held
  /\ Goto(n, "reset")
  /\ UNCHANGED <<engine, polls, cancelled, signal, active, down, view, asks, mishaps, owed, shared>>

\* ... the engine is free, ...
Reset(n) ==
  /\ At(n, "reset")
  /\ engine' = [engine EXCEPT ![run[n].p] = Free]
  /\ Goto(n, "close")
  /\ UNCHANGED <<polls, cancelled, world, down, view, asks, mishaps, owed, shared>>

\* ... pollDone is closed, ...
ClosePoll(n) ==
  /\ At(n, "close")
  /\ Goto(n, "clear")
  /\ UNCHANGED <<engine, polls, cancelled, world, down, view, asks, mishaps, owed, shared>>

\* ... and the signal is cleared.
ClearAtEnd(n) ==
  /\ At(n, "clear")
  /\ signal' = signal \ {run[n].job}
  /\ Goto(n, "over")
  /\ UNCHANGED <<engine, polls, cancelled, active, held, down, view, asks, mishaps, owed, shared>>

\* Engine.Stop: the context of the run that took the engine last.
Stopped(p) == cancelled \cup ({engine[p].cancel} \ {0})

\* The ticker of the poll goroutine finds a signal; when the run has ended at
\* the same moment, select may still choose the ticker.
PollSees(g) ==
  /\ g.pc = "wait" /\ g.job \in signal
  /\ polls' = (polls \ {g}) \cup {[g EXCEPT !.pc = "clear"]}
  /\ UNCHANGED <<engine, run, cancelled, world, down, view, asks, mishaps, owed, shared>>

PollClears(g) ==
  /\ g.pc = "clear"
  /\ signal' = signal \ {g.job}
  /\ polls' = (polls \ {g}) \cup {[g EXCEPT !.pc = "stop"]}
  /\ UNCHANGED <<engine, run, cancelled, active, held, down, view, asks, mishaps, owed, shared>>

\* Variant: the goroutine ends after the signal is cleared.
PollStopsNot(g) ==
  /\ g.pc = "stop"
  /\ polls' = polls \ {g}
  /\ UNCHANGED <<engine, run, cancelled, world, down, view, asks, mishaps, owed, shared>>

PollStops(g) ==
  /\ g.pc = "stop"
  /\ cancelled' = Stopped(g.p)
  /\ polls' = polls \ {g}
  /\ UNCHANGED <<engine, run, world, down, view, asks, mishaps, owed, shared>>

\* The context or pollDone ends the goroutine.
PollReturns(g) ==
  /\ g.pc = "wait"
  /\ g.n \in cancelled \/ run[g.n].pc \in {"clear", "over"}
  /\ polls' = polls \ {g}
  /\ UNCHANGED <<engine, run, cancelled, world, down, view, asks, mishaps, owed, shared>>

-----------------------------------------------------------------------------
(* The window: App.StopBackup *)

\* The own engine runs something, whatever job was asked for: Engine.Stop is
\* next.  Else isJobActivelyRunning looks at the checkpoints.
StopBackup(job) ==
  /\ view.pc = "idle" /\ asks < MaxAsks /\ down["window"] # "gone"
  /\ asks' = asks + 1
  /\ CASE engine["window"].running ->
            view' = [pc |-> "stop", job |-> job] /\ UNCHANGED signal
       [] ~engine["window"].running /\ job \in active ->
            view' = [pc |-> "request", job |-> job] /\ UNCHANGED signal
       [] OTHER -> signal' = signal \ {job} /\ UNCHANGED view
  /\ UNCHANGED <<engine, run, polls, cancelled, active, held, down, mishaps, owed, shared>>

StopOwn ==
  /\ view.pc = "stop"
  /\ cancelled' = Stopped("window") /\ view' = NoView
  /\ UNCHANGED <<engine, run, polls, world, down, asks, mishaps, owed, shared>>

\* backupcancel.Request
Request ==
  /\ view.pc = "request"
  /\ signal' = signal \cup {view.job} /\ view' = NoView
  /\ owed' = owed \cup {n \in Runs : run[n].pc = "work" /\ run[n].job = view.job}
  /\ UNCHANGED <<engine, run, polls, cancelled, active, held, down, asks, mishaps, shared>>

\* A signal is older than ten minutes and ReapStale or IsRequested removes it:
\* no run of the job has polled for that long.
SignalExpires(job) ==
  /\ job \in signal /\ mishaps < MaxMishaps
  /\ \A n \in Runs : run[n].job = job => run[n].pc \in {"over", "check"}
  /\ signal' = signal \ {job} /\ mishaps' = mishaps + 1
  /\ UNCHANGED <<engine, run, polls, cancelled, active, held, down, view, asks, owed, shared>>

\* The checkpoint of a run that died is older than three minutes.
CheckpointExpires(job) ==
  /\ job \in active
  /\ \A n \in Runs : run[n].job = job => run[n].pc # "work"
  /\ active' = active \ {job}
  /\ UNCHANGED <<engine, run, polls, cancelled, signal, held, down, view, asks, mishaps, owed, shared>>

-----------------------------------------------------------------------------
(* The end of a program *)

\* App.shutdown, handler.Execute on a stop request: a run is cancelled and
\* waited for; without one the window leaves the lock alone.
Shutdown(p) ==
  /\ down[p] = "up" /\ mishaps < MaxMishaps /\ mishaps' = mishaps + 1
  /\ IF engine[p].running
     THEN down' = [down EXCEPT ![p] = "waiting"] /\ cancelled' = Stopped(p)
     ELSE /\ down' = [down EXCEPT ![p] = IF p = "window" THEN "leaving" ELSE "clearing"]
          /\ UNCHANGED cancelled
  /\ UNCHANGED <<engine, run, polls, world, view, asks, owed, shared>>

\* The engine is free, or sixty seconds have passed.
WaitEnds(p) ==
  /\ down[p] = "waiting"
  /\ down' = [down EXCEPT ![p] = "clearing"]
  /\ UNCHANGED <<engine, run, polls, cancelled, world, view, asks, mishaps, owed, shared>>

\* Variant: the lock goes whoever owns it.
ForceClearAny(p) ==
  /\ down[p] = "clearing"
  /\ held' = NoProgram
  /\ down' = [down EXCEPT ![p] = "leaving"]
  /\ UNCHANGED <<engine, run, polls, cancelled, signal, active, view, asks, mishaps, owed, shared>>

\* backuplock.ForceClearOwn
ForceClearOwn(p) ==
  /\ down[p] = "clearing"
  /\ held' = IF held = p THEN NoProgram ELSE held
  /\ down' = [down EXCEPT ![p] = "leaving"]
  /\ UNCHANGED <<engine, run, polls, cancelled, signal, active, view, asks, mishaps, owed, shared>>

\* The process is no more; a lock it leaves is cleared as stale.
Gone(p) ==
  /\ down' = [down EXCEPT ![p] = "gone"]
  /\ engine' = [engine EXCEPT ![p] = Free]
  /\ run' = [n \in Runs |-> IF run[n].p = p THEN [run[n] EXCEPT !.pc = "over"] ELSE run[n]]
  /\ polls' = {g \in polls : g.p # p}
  /\ held' = IF held = p THEN NoProgram ELSE held
  /\ view' = IF p = "window" THEN NoView ELSE view
  /\ UNCHANGED <<cancelled, signal, active, asks, owed, shared>>

Exit(p) == down[p] = "leaving" /\ Gone(p) /\ UNCHANGED mishaps

Crash(p) ==
  /\ down[p] # "gone" /\ mishaps < MaxMishaps
  /\ Gone(p) /\ mishaps' = mishaps + 1

Restart(p) ==
  /\ down[p] = "gone"
  /\ down' = [down EXCEPT ![p] = "up"]
  /\ UNCHANGED <<engine, run, polls, cancelled, world, view, asks, mishaps, owed, shared>>

RunStep(n) ==
  Refused(n) \/ Polling(n) \/ Acquire(n) \/ NotBegun(n) \/ WorkEnds(n) \/ Release(n)
    \/ Reset(n) \/ ClosePoll(n) \/ ClearAtEnd(n)

Next ==
  \/ \E p \in Programs, job \in Jobs : Begin(p, job)
  \/ \E n \in Runs : RunStep(n)
  \/ \E g \in polls : PollSees(g) \/ PollClears(g) \/ PollStops(g) \/ PollReturns(g)
  \/ \E job \in Jobs : StopBackup(job) \/ SignalExpires(job) \/ CheckpointExpires(job)
  \/ StopOwn \/ Request
  \/ \E p \in Programs :
       Shutdown(p) \/ WaitEnds(p) \/ ForceClearOwn(p) \/ Exit(p) \/ Crash(p) \/ Restart(p)

Spec == Init /\ [][Next]_control

-----------------------------------------------------------------------------
Working(p) == \E n \in Begun : run[n].p = p /\ run[n].pc = "work"

(* Both programs work at once only while one of them is on its way out: its  *)
(* shutdown has given up the lock of a run that goes on, and the process has *)
(* not ended yet (App.shutdown, handler.Execute, ForceClearOwn).             *)
OneRunUnlessLeaving ==
  (\A p \in Programs : Working(p)) => \E p \in Programs : down[p] = "leaving"

(* A request to stop that was written while a run of the job worked is not   *)
(* lost: the signal is there, or the poll goroutine that has taken it is     *)
(* about to cancel the run - unless another run of the same job was under    *)
(* way, or its poll goroutine, which clear the signal too (Engine.Run,       *)
(* StopBackup, backupcancel.Clear).                                          *)
RequestNotLost ==
  \A n \in owed \ cancelled :
    (run[n].pc = "work" /\ run[n].job \notin shared) =>
      \/ run[n].job \in signal
      \/ \E g \in polls : g.p = run[n].p /\ g.job = run[n].job /\ g.pc \in {"clear", "stop"}
=============================================================================
