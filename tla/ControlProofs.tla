---------------------------- MODULE ControlProofs ---------------------------
(***************************************************************************)
(* Proofs about RunControl and RestoreControl.                             *)
(*                                                                         *)
(* Of runs, for any jobs and any number of runs, requests, shutdowns and   *)
(* crashes: both programs work at once only while one of them leaves, and  *)
(* a request to stop is not lost.  Of restores, for any number of them and *)
(* of calls to cancel them: a call reaches the group it was meant for and  *)
(* nobody else.                                                            *)
(***************************************************************************)
EXTENDS RunControl, RestoreControl, FiniteSetTheorems, TLAPS

-----------------------------------------------------------------------------
(* The control of runs. *)

Places == {"none", "check", "acquire", "work", "release", "reset", "close", "clear", "over"}

\* Every variable has its type.
Types ==
  /\ engine \in [Programs -> [running : BOOLEAN, job : Jobs \cup {NoJob}, cancel : Nat]]
  /\ run \in [Runs -> [pc : Places, p : Programs \cup {NoProgram}, job : Jobs \cup {NoJob}]]
  /\ polls \subseteq [n : Runs, p : Programs, job : Jobs, pc : {"wait", "clear", "stop"}]
  /\ cancelled \subseteq Nat /\ signal \subseteq Jobs
  /\ active \subseteq Jobs \ FileJobs
  /\ held \in Programs \cup {NoProgram}
  /\ down \in [Programs -> {"up", "waiting", "clearing", "leaving", "gone"}]
  /\ view \in [pc : {"idle", "stop", "request"}, job : Jobs \cup {NoJob}]
  /\ owed \subseteq Runs /\ shared \subseteq Jobs

\* Runs have numbers in the order of their beginnings.
Numbered == \E k \in 0..MaxRuns : Begun = 1..k

\* A run is one of a program and a job from its beginning.
Named ==
  \A n \in Runs : IF run[n].pc = "none" THEN run[n] = NoRun
                  ELSE run[n].p \in Programs /\ run[n].job \in Jobs

\* A run between its first look at the engine and the moment it frees it.
Inside(n) == run[n].pc \in {"check", "acquire", "work", "release", "reset"}

\* It has the engine, which would cancel it, alone.
Engines ==
  \A n \in Runs : Inside(n) =>
    /\ engine[run[n].p].running /\ engine[run[n].p].cancel = n
    /\ \A m \in Runs : Inside(m) /\ run[m].p = run[n].p => m = n

\* Whoever works has the lock, unless its program gave it up on the way out.
Locked ==
  \A n \in Runs : run[n].pc = "work" =>
    held = run[n].p \/ down[run[n].p] = "leaving"

\* A poll goroutine is that of a run of its program and job.
Polls ==
  \A g \in polls :
    g.p = run[g.n].p /\ g.job = run[g.n].job /\ run[g.n].pc \notin {"none", "check"}

\* What never overlapped in a job: two runs, or a run and another one's poll
\* goroutine.
Alone ==
  \A n \in Begun : run[n].job \notin shared /\ run[n].pc # "over" =>
    /\ \A m \in Begun : run[m].job = run[n].job /\ run[m].pc # "over" => m = n
    /\ \A g \in polls : g.job = run[n].job => g.n = n

\* A backup to a server that works can be seen by StopBackup, only such a job is
\* asked to stop, and a run it was asked of has worked.
Visible ==
  /\ \A n \in Runs :
       run[n].pc = "work" /\ run[n].job \notin shared \cup FileJobs => run[n].job \in active
  /\ view.pc = "request" => view.job \in Jobs \ FileJobs
  /\ \A n \in owed : run[n].job \notin FileJobs /\ run[n].pc \notin {"none", "check", "acquire"}

ControlInv ==
  /\ Types /\ Numbered /\ Named
  /\ Engines /\ Locked
  /\ Polls /\ Alone
  /\ Visible /\ RequestNotLost

-----------------------------------------------------------------------------
\* A run that goes on stays the run it is.
LEMMA Moves ==
  ASSUME ControlInv, RunControlAssumption, NEW n \in Begun, NEW l \in Places \ {"none"},
         run' = [run EXCEPT ![n].pc = l]
  PROVE  /\ \A m \in Runs : run'[m].p = run[m].p /\ run'[m].job = run[m].job
         /\ \A m \in Runs : m # n => run'[m] = run[m]
         /\ run'[n].pc = l /\ n \in Runs
         /\ Begun' = Begun /\ Numbered' /\ Named'
<1>1. /\ \A m \in Runs : run'[m].p = run[m].p /\ run'[m].job = run[m].job
      /\ \A m \in Runs : m # n => run'[m] = run[m]
      /\ run'[n].pc = l /\ n \in Runs
  BY DEF ControlInv, Types, Begun, Places
<1>2. Begun' = Begun
  BY <1>1 DEF Begun
<1>3. Numbered'
  BY <1>2 DEF ControlInv, Numbered
<1>4. Named'
  BY <1>1 DEF ControlInv, Named, Begun
<1> QED
  BY <1>1, <1>2, <1>3, <1>4

\* Engine.Stop cancels runs.
LEMMA StoppedRuns ==
  ASSUME Types, NEW p \in Programs
  PROVE  Stopped(p) \subseteq Nat
<1>1. engine[p].cancel \in Nat
  BY DEF Types
<1>2. cancelled \subseteq Nat
  BY DEF Types
<1> QED
  BY <1>1, <1>2 DEF Stopped

\* The steps of Engine.Run.
LEMMA RunStepKeeps ==
  ASSUME ControlInv, RunControlAssumption, NEW n \in Runs, RunStep(n)
  PROVE  ControlInv'
<1> USE RunControlAssumption DEF ControlInv, RunControlAssumption, At, Goto, world, Runs
<1>1. n \in Begun /\ \E l \in Places \ {"none"} : run' = [run EXCEPT ![n].pc = l]
  BY DEF RunStep, Refused, Polling, Acquire, NotBegun, WorkEnds, Release, Reset, ClosePoll,
         ClearAtEnd, Begun, Places
<1>2. /\ \A m \in Runs : run'[m].p = run[m].p /\ run'[m].job = run[m].job
      /\ \A m \in Runs : m # n => run'[m] = run[m]
      /\ run'[n].pc \in Places \ {"none"}
      /\ Begun' = Begun /\ Numbered' /\ Named'
  BY <1>1, Moves
<1>t. run' \in [Runs -> [pc : Places, p : Programs \cup {NoProgram}, job : Jobs \cup {NoJob}]]
  <2>1. run[n] \in [pc : Places, p : Programs \cup {NoProgram}, job : Jobs \cup {NoJob}]
    BY DEF Types
  <2>2. \A l \in Places : [run[n] EXCEPT !.pc = l]
                            \in [pc : Places, p : Programs \cup {NoProgram}, job : Jobs \cup {NoJob}]
    BY <2>1
  <2>3. \E l \in Places : run' = [run EXCEPT ![n] = [run[n] EXCEPT !.pc = l]]
    BY <1>1 DEF Types
  <2> QED
    BY <2>2, <2>3 DEF Types
<1>q. run[n].p \in Programs /\ run[n].job \in Jobs
  BY <1>1 DEF Named, Begun
<1>3. CASE Refused(n)
  <2> DEFINE q == run[n].p
  <2>a. q \in Programs /\ run[n].job \in Jobs
    BY <1>1 DEF Named, Begun
  <2>b. engine' = [engine EXCEPT ![q] = [engine[q] EXCEPT !.running = FALSE, !.job = NoJob]]
    BY <1>3, <2>a DEF Refused, Types
  <2>c. \A e \in [running : BOOLEAN, job : Jobs \cup {NoJob}, cancel : Nat] :
          [e EXCEPT !.running = FALSE, !.job = NoJob]
            \in [running : BOOLEAN, job : Jobs \cup {NoJob}, cancel : Nat]
    OBVIOUS
  <2>d. engine[q] \in [running : BOOLEAN, job : Jobs \cup {NoJob}, cancel : Nat]
    BY <2>a DEF Types
  <2>1. engine' \in [Programs -> [running : BOOLEAN, job : Jobs \cup {NoJob}, cancel : Nat]]
    BY <2>a, <2>b, <2>c, <2>d DEF Types
  <2>f. \A m \in Programs : m # q => engine'[m] = engine[m]
    BY <2>a, <2>b DEF Types
  <2>2. Types'
    BY <1>t, <1>q, <1>3, <2>1 DEF Refused, Types, Free
  <2>3. Engines' /\ Locked'
    <3>1. \A m \in Runs : Inside(m)' => m # n /\ Inside(m) /\ run[m].p # q /\ run[m].p \in Programs
      <4>1. run'[n].pc = "over" /\ run[n].pc = "check"
        BY <1>3 DEF Refused, Types
      <4>2. SUFFICES ASSUME NEW m \in Runs, Inside(m)'
                     PROVE  m # n /\ Inside(m) /\ run[m].p # q /\ run[m].p \in Programs
        OBVIOUS
      <4>3. m # n
        BY <4>1, <4>2 DEF Inside
      <4>4. Inside(m) /\ Inside(n)
        BY <1>2, <4>1, <4>2, <4>3 DEF Inside
      <4>5. run[m].p # q
        BY <4>3, <4>4 DEF Engines
      <4>6. run[m].p \in Programs
        BY <4>4 DEF Named, Inside
      <4> QED
        BY <4>3, <4>4, <4>5, <4>6
    <3>2. Engines'
      BY <1>2, <2>f, <3>1 DEF Engines
    <3>3. Locked'
      BY <1>2, <1>3 DEF Refused, Locked
    <3> QED
      BY <3>2, <3>3
  <2>4. Polls' /\ Alone'
    BY <1>1, <1>2, <1>3 DEF Refused, Types, Begun, Polls, Alone, Programs, NoProgram
  <2>5. Visible'
    BY <1>1, <1>2, <1>3 DEF Refused, Types, Named, Begun, Alone, Visible, NoView, Programs,
       NoProgram
  <2>6. RequestNotLost'
    BY <1>1, <1>2, <1>3 DEF Refused, Types, Named, Begun, Engines, Inside, Polls, Alone,
       Visible, RequestNotLost, Programs, NoProgram
  <2> QED
    BY <1>2, <2>2, <2>3, <2>4, <2>5, <2>6
<1>4. CASE Polling(n)
  <2>1. Types'
    BY <1>t, <1>q, <1>4 DEF Polling, Types, Free
  <2>2. Engines' /\ Locked'
    BY <1>1, <1>2, <1>4 DEF Polling, Types, Named, Engines, Inside, Locked, Free, Programs,
       NoProgram
  <2>3. Polls' /\ Alone'
    BY <1>1, <1>2, <1>4 DEF Polling, Types, Begun, Polls, Alone, Programs, NoProgram
  <2>4. Visible'
    BY <1>1, <1>2, <1>4 DEF Polling, Types, Named, Begun, Alone, Visible, NoView, Programs,
       NoProgram
  <2>5. RequestNotLost'
    BY <1>1, <1>2, <1>4 DEF Polling, Types, Named, Begun, Engines, Inside, Polls, Alone,
       Visible, RequestNotLost, Programs, NoProgram
  <2> QED
    BY <1>2, <2>1, <2>2, <2>3, <2>4, <2>5
<1>5. CASE Acquire(n)
  <2>1. Types'
    BY <1>t, <1>q, <1>5 DEF Acquire, Types, Free
  <2>2. Engines' /\ Locked'
    BY <1>1, <1>2, <1>5 DEF Acquire, Types, Named, Engines, Inside, Locked, Free, Programs,
       NoProgram
  <2>3. Polls' /\ Alone'
    BY <1>1, <1>2, <1>5 DEF Acquire, Types, Begun, Polls, Alone, Programs, NoProgram
  <2>4. Visible'
    BY <1>1, <1>2, <1>5 DEF Acquire, Types, Named, Begun, Alone, Visible, NoView, Programs,
       NoProgram
  <2>5. RequestNotLost'
    BY <1>1, <1>2, <1>5 DEF Acquire, Types, Named, Begun, Engines, Inside, Polls, Alone,
       Visible, RequestNotLost, Programs, NoProgram
  <2> QED
    BY <1>2, <2>1, <2>2, <2>3, <2>4, <2>5
<1>6. CASE NotBegun(n)
  <2>1. Types'
    BY <1>t, <1>q, <1>6 DEF NotBegun, Types, Free
  <2>2. Engines' /\ Locked'
    BY <1>1, <1>2, <1>6 DEF NotBegun, Types, Named, Engines, Inside, Locked, Free, Programs,
       NoProgram
  <2>3. Polls' /\ Alone'
    BY <1>1, <1>2, <1>6 DEF NotBegun, Types, Begun, Polls, Alone, Programs, NoProgram
  <2>4. Visible'
    BY <1>1, <1>2, <1>6 DEF NotBegun, Types, Named, Begun, Alone, Visible, NoView, Programs,
       NoProgram
  <2>5. RequestNotLost'
    BY <1>1, <1>2, <1>6 DEF NotBegun, Types, Named, Begun, Engines, Inside, Polls, Alone,
       Visible, RequestNotLost, Programs, NoProgram
  <2> QED
    BY <1>2, <2>1, <2>2, <2>3, <2>4, <2>5
<1>7. CASE WorkEnds(n)
  <2>1. Types'
    BY <1>t, <1>q, <1>7 DEF WorkEnds, Types, Free
  <2>2. Engines' /\ Locked'
    BY <1>1, <1>2, <1>7 DEF WorkEnds, Types, Named, Engines, Inside, Locked, Free, Programs,
       NoProgram
  <2>3. Polls' /\ Alone'
    BY <1>1, <1>2, <1>7 DEF WorkEnds, Types, Begun, Polls, Alone, Programs, NoProgram
  <2>4. Visible'
    BY SMTT(30), <1>1, <1>2, <1>7 DEF WorkEnds, Types, Named, Begun, Alone, Visible, NoView,
       Programs, NoProgram
  <2>5. RequestNotLost'
    BY <1>1, <1>2, <1>7 DEF WorkEnds, Types, Named, Begun, Engines, Inside, Polls, Alone,
       Visible, RequestNotLost, Programs, NoProgram
  <2> QED
    BY <1>2, <2>1, <2>2, <2>3, <2>4, <2>5
<1>8. CASE Release(n)
  <2>1. Types'
    BY <1>t, <1>q, <1>8 DEF Release, Types, Free
  <2>2. Engines' /\ Locked'
    BY <1>1, <1>2, <1>8 DEF Release, Types, Named, Engines, Inside, Locked, Free, Programs,
       NoProgram
  <2>3. Polls' /\ Alone'
    BY <1>1, <1>2, <1>8 DEF Release, Types, Begun, Polls, Alone, Programs, NoProgram
  <2>4. Visible'
    BY <1>1, <1>2, <1>8 DEF Release, Types, Named, Begun, Alone, Visible, NoView, Programs,
       NoProgram
  <2>5. RequestNotLost'
    BY <1>1, <1>2, <1>8 DEF Release, Types, Named, Begun, Engines, Inside, Polls, Alone,
       Visible, RequestNotLost, Programs, NoProgram
  <2> QED
    BY <1>2, <2>1, <2>2, <2>3, <2>4, <2>5
<1>9. CASE Reset(n)
  <2>1. Types'
    BY <1>t, <1>q, <1>9 DEF Reset, Types, Free
  <2>2. Engines' /\ Locked'
    BY <1>1, <1>2, <1>9 DEF Reset, Types, Named, Engines, Inside, Locked, Free, Programs,
       NoProgram
  <2>3. Polls' /\ Alone'
    BY <1>1, <1>2, <1>9 DEF Reset, Types, Begun, Polls, Alone, Programs, NoProgram
  <2>4. Visible'
    BY <1>1, <1>2, <1>9 DEF Reset, Types, Named, Begun, Alone, Visible, NoView, Programs,
       NoProgram
  <2>5. RequestNotLost'
    BY <1>1, <1>2, <1>9 DEF Reset, Types, Named, Begun, Engines, Inside, Polls, Alone,
       Visible, RequestNotLost, Programs, NoProgram
  <2> QED
    BY <1>2, <2>1, <2>2, <2>3, <2>4, <2>5
<1>10. CASE ClosePoll(n)
  <2>1. Types'
    BY <1>t, <1>q, <1>10 DEF ClosePoll, Types, Free
  <2>2. Engines' /\ Locked'
    BY <1>1, <1>2, <1>10 DEF ClosePoll, Types, Named, Engines, Inside, Locked, Free,
       Programs, NoProgram
  <2>3. Polls' /\ Alone'
    BY <1>1, <1>2, <1>10 DEF ClosePoll, Types, Begun, Polls, Alone, Programs, NoProgram
  <2>4. Visible'
    BY <1>1, <1>2, <1>10 DEF ClosePoll, Types, Named, Begun, Alone, Visible, NoView,
       Programs, NoProgram
  <2>5. RequestNotLost'
    BY <1>1, <1>2, <1>10 DEF ClosePoll, Types, Named, Begun, Engines, Inside, Polls, Alone,
       Visible, RequestNotLost, Programs, NoProgram
  <2> QED
    BY <1>2, <2>1, <2>2, <2>3, <2>4, <2>5
<1>11. CASE ClearAtEnd(n)
  <2>1. Types'
    BY <1>t, <1>q, <1>11 DEF ClearAtEnd, Types, Free
  <2>2. Engines' /\ Locked'
    BY <1>1, <1>2, <1>11 DEF ClearAtEnd, Types, Named, Engines, Inside, Locked, Free,
       Programs, NoProgram
  <2>3. Polls' /\ Alone'
    BY <1>1, <1>2, <1>11 DEF ClearAtEnd, Types, Begun, Polls, Alone, Programs, NoProgram
  <2>4. Visible'
    BY <1>1, <1>2, <1>11 DEF ClearAtEnd, Types, Named, Begun, Alone, Visible, NoView,
       Programs, NoProgram
  <2>5. RequestNotLost'
    BY <1>1, <1>2, <1>11 DEF ClearAtEnd, Types, Named, Begun, Engines, Inside, Polls, Alone,
       Visible, RequestNotLost, Programs, NoProgram
  <2> QED
    BY <1>2, <2>1, <2>2, <2>3, <2>4, <2>5
<1> QED
  BY <1>3, <1>4, <1>5, <1>6, <1>7, <1>8, <1>9, <1>10, <1>11 DEF RunStep

\* The steps of a poll goroutine.
LEMMA PollKeeps ==
  ASSUME ControlInv, RunControlAssumption, NEW g \in polls,
         PollSees(g) \/ PollClears(g) \/ PollStops(g) \/ PollReturns(g)
  PROVE  ControlInv'
<1> USE RunControlAssumption DEF ControlInv, RunControlAssumption, At, Goto, world, Runs
<1>1. run' = run /\ Begun' = Begun
  BY DEF PollSees, PollClears, PollStops, PollReturns, Begun
<1>2. Numbered' /\ Named'
  BY <1>1 DEF Numbered, Named
<1>3. CASE PollSees(g)
  <2>1. Types'
    BY <1>1, <1>3 DEF PollSees, Types, Places, Named, Free, NoView, Programs, NoProgram
  <2>2. Engines' /\ Locked'
    BY <1>1, <1>3 DEF PollSees, Types, Named, Engines, Inside, Locked, Free, Programs, NoProgram
  <2>3. Polls' /\ Alone'
    BY <1>1, <1>3 DEF PollSees, Types, Begun, Polls, Alone, Programs, NoProgram
  <2>4. Visible'
    BY <1>1, <1>3 DEF PollSees, Types, Named, Begun, Alone, Visible, NoView, Programs, NoProgram
  <2>5. RequestNotLost'
    BY <1>1, <1>3 DEF PollSees, Types, Named, Begun, Engines, Inside, Polls, Alone, Visible,
       RequestNotLost, Programs, NoProgram
  <2> QED
    BY <1>2, <2>1, <2>2, <2>3, <2>4, <2>5
<1>4. CASE PollClears(g)
  <2>1. Types'
    BY SMTT(30), <1>1, <1>4 DEF PollClears, Types, Places, Named, Free, NoView, Programs,
       NoProgram
  <2>2. Engines' /\ Locked'
    BY <1>1, <1>4 DEF PollClears, Types, Named, Engines, Inside, Locked, Free, Programs,
       NoProgram
  <2>3. Polls' /\ Alone'
    BY <1>1, <1>4 DEF PollClears, Types, Begun, Polls, Alone, Programs, NoProgram
  <2>4. Visible'
    BY <1>1, <1>4 DEF PollClears, Types, Named, Begun, Alone, Visible, NoView, Programs,
       NoProgram
  <2> DEFINE gg == [g EXCEPT !.pc = "stop"]
  <2>5. RequestNotLost'
    <3>1. gg \in polls' /\ \A h \in polls : h # g => h \in polls'
      BY <1>4 DEF PollClears
    <3>2. gg.p = g.p /\ gg.job = g.job /\ gg.pc = "stop"
      BY DEF Types
    <3> HIDE DEF gg
    <3>3. SUFFICES ASSUME NEW m \in owed \ cancelled, run[m].pc = "work", run[m].job \notin shared
                   PROVE  \/ run[m].job \in signal'
                          \/ \E h \in polls' : /\ h.p = run[m].p /\ h.job = run[m].job
                                              /\ h.pc \in {"clear", "stop"}
      BY <1>1, <1>4 DEF PollClears, RequestNotLost
    <3>4. CASE run[m].job = g.job
      <4>1. m \in Begun
        BY <3>3 DEF Types, Begun
      <4>2. g.n = m
        BY <3>3, <3>4, <4>1 DEF Alone
      <4>3. g.p = run[m].p
        BY <4>2 DEF Polls
      <4> QED
        BY <3>1, <3>2, <3>4, <4>3
    <3>5. CASE run[m].job # g.job
      <4>1. run[m].job \in signal => run[m].job \in signal'
        BY <1>4, <3>5 DEF PollClears
      <4> QED
        BY <3>1, <3>3, <3>5, <4>1 DEF RequestNotLost
    <3> QED
      BY <3>4, <3>5
  <2> QED
    BY <1>2, <2>1, <2>2, <2>3, <2>4, <2>5
<1>5. CASE PollStops(g)
  <2>1. cancelled' \subseteq Nat
    <3>1. g.p \in Programs
      BY DEF Types
    <3> QED
      BY <1>5, <3>1, StoppedRuns DEF PollStops
  <2>2. Types'
    BY <1>1, <1>5, <2>1 DEF PollStops, Stopped, Types, Places, Named, Free, NoView,
       Programs, NoProgram
  <2>3. Engines' /\ Locked'
    BY <1>1, <1>5 DEF PollStops, Stopped, Types, Named, Engines, Inside, Locked, Free,
       Programs, NoProgram
  <2>4. Polls' /\ Alone'
    BY <1>1, <1>5 DEF PollStops, Stopped, Types, Begun, Polls, Alone, Programs, NoProgram
  <2>5. Visible'
    BY <1>1, <1>5 DEF PollStops, Stopped, Types, Named, Begun, Alone, Visible, NoView,
       Programs, NoProgram
  <2>6. RequestNotLost'
    BY <1>1, <1>5 DEF PollStops, Stopped, Types, Named, Begun, Engines, Inside, Polls,
       Alone, Visible, RequestNotLost, Programs, NoProgram
  <2> QED
    BY <1>2, <2>2, <2>3, <2>4, <2>5, <2>6
<1>6. CASE PollReturns(g)
  <2>1. Types'
    BY <1>1, <1>6 DEF PollReturns, Types, Places, Named, Free, NoView, Programs, NoProgram
  <2>2. Engines' /\ Locked'
    BY <1>1, <1>6 DEF PollReturns, Types, Named, Engines, Inside, Locked, Free, Programs,
       NoProgram
  <2>3. Polls' /\ Alone'
    BY <1>1, <1>6 DEF PollReturns, Types, Begun, Polls, Alone, Programs, NoProgram
  <2>4. Visible'
    BY <1>1, <1>6 DEF PollReturns, Types, Named, Begun, Alone, Visible, NoView, Programs,
       NoProgram
  <2>5. RequestNotLost'
    BY <1>1, <1>6 DEF PollReturns, Types, Named, Begun, Engines, Inside, Polls, Alone,
       Visible, RequestNotLost, Programs, NoProgram
  <2> QED
    BY <1>2, <2>1, <2>2, <2>3, <2>4, <2>5
<1> QED
  BY <1>3, <1>4, <1>5, <1>6

\* StopBackup, and what gets old.
LEMMA ViewKeeps ==
  ASSUME ControlInv, RunControlAssumption, NEW job \in Jobs,
         StopBackup(job) \/ SignalExpires(job) \/ CheckpointExpires(job)
  PROVE  ControlInv'
<1> USE RunControlAssumption DEF ControlInv, RunControlAssumption, At, Goto, world, Runs
<1>1. run' = run /\ Begun' = Begun
  BY DEF StopBackup, SignalExpires, CheckpointExpires, Begun
<1>2. Numbered' /\ Named'
  BY <1>1 DEF Numbered, Named
<1>3. CASE StopBackup(job)
  <2>1. Types'
    BY <1>1, <1>3 DEF StopBackup, Types, Places, Named, Free, NoView, Programs, NoProgram
  <2>2. Engines' /\ Locked'
    BY <1>1, <1>3 DEF StopBackup, Types, Named, Engines, Inside, Locked, Free, Programs,
       NoProgram
  <2>3. Polls' /\ Alone'
    BY <1>1, <1>3 DEF StopBackup, Types, Begun, Polls, Alone, Programs, NoProgram
  <2>4. Visible'
    BY <1>1, <1>3 DEF StopBackup, Types, Named, Begun, Alone, Visible, NoView, Programs,
       NoProgram
  <2>5. RequestNotLost'
    BY <1>1, <1>3 DEF StopBackup, Types, Named, Begun, Engines, Inside, Polls, Alone,
       Visible, RequestNotLost, Programs, NoProgram
  <2> QED
    BY <1>2, <2>1, <2>2, <2>3, <2>4, <2>5
<1>4. CASE SignalExpires(job)
  <2>1. Types'
    BY <1>1, <1>4 DEF SignalExpires, Types, Places, Named, Free, NoView, Programs, NoProgram
  <2>2. Engines' /\ Locked'
    BY <1>1, <1>4 DEF SignalExpires, Types, Named, Engines, Inside, Locked, Free, Programs,
       NoProgram
  <2>3. Polls' /\ Alone'
    BY <1>1, <1>4 DEF SignalExpires, Types, Begun, Polls, Alone, Programs, NoProgram
  <2>4. Visible'
    BY <1>1, <1>4 DEF SignalExpires, Types, Named, Begun, Alone, Visible, NoView, Programs,
       NoProgram
  <2>5. RequestNotLost'
    BY <1>1, <1>4 DEF SignalExpires, Types, Named, Begun, Engines, Inside, Polls, Alone,
       Visible, RequestNotLost, Programs, NoProgram
  <2> QED
    BY <1>2, <2>1, <2>2, <2>3, <2>4, <2>5
<1>5. CASE CheckpointExpires(job)
  <2>1. Types'
    BY <1>1, <1>5 DEF CheckpointExpires, Types, Places, Named, Free, NoView, Programs, NoProgram
  <2>2. Engines' /\ Locked'
    BY <1>1, <1>5 DEF CheckpointExpires, Types, Named, Engines, Inside, Locked, Free,
       Programs, NoProgram
  <2>3. Polls' /\ Alone'
    BY <1>1, <1>5 DEF CheckpointExpires, Types, Begun, Polls, Alone, Programs, NoProgram
  <2>4. Visible'
    BY <1>1, <1>5 DEF CheckpointExpires, Types, Named, Begun, Alone, Visible, NoView,
       Programs, NoProgram
  <2>5. RequestNotLost'
    BY <1>1, <1>5 DEF CheckpointExpires, Types, Named, Begun, Engines, Inside, Polls, Alone,
       Visible, RequestNotLost, Programs, NoProgram
  <2> QED
    BY <1>2, <2>1, <2>2, <2>3, <2>4, <2>5
<1> QED
  BY <1>3, <1>4, <1>5

\* The second half of StopBackup.
LEMMA StopKeeps ==
  ASSUME ControlInv, RunControlAssumption,
         StopOwn \/ Request
  PROVE  ControlInv'
<1> USE RunControlAssumption DEF ControlInv, RunControlAssumption, At, Goto, world, Runs
<1>1. run' = run /\ Begun' = Begun
  BY DEF StopOwn, Request, Begun
<1>2. Numbered' /\ Named'
  BY <1>1 DEF Numbered, Named
<1>3. CASE StopOwn
  <2>1. Types'
    BY <1>1, <1>3 DEF StopOwn, Stopped, Types, Places, Named, Free, NoView, Programs, NoProgram
  <2>2. Engines' /\ Locked'
    BY <1>1, <1>3 DEF StopOwn, Stopped, Types, Named, Engines, Inside, Locked, Free,
       Programs, NoProgram
  <2>3. Polls' /\ Alone'
    BY <1>1, <1>3 DEF StopOwn, Stopped, Types, Begun, Polls, Alone, Programs, NoProgram
  <2>4. Visible'
    BY <1>1, <1>3 DEF StopOwn, Stopped, Types, Named, Begun, Alone, Visible, NoView,
       Programs, NoProgram
  <2>5. RequestNotLost'
    BY <1>1, <1>3 DEF StopOwn, Stopped, Types, Named, Begun, Engines, Inside, Polls, Alone,
       Visible, RequestNotLost, Programs, NoProgram
  <2> QED
    BY <1>2, <2>1, <2>2, <2>3, <2>4, <2>5
<1>4. CASE Request
  <2>1. Types'
    BY <1>1, <1>4 DEF Request, Types, Places, Named, Free, NoView, Visible, Programs, NoProgram
  <2>2. Engines' /\ Locked'
    BY <1>1, <1>4 DEF Request, Types, Named, Engines, Inside, Locked, Free, Programs, NoProgram
  <2>3. Polls' /\ Alone'
    BY <1>1, <1>4 DEF Request, Types, Begun, Polls, Alone, Programs, NoProgram
  <2>4. Visible'
    BY <1>1, <1>4 DEF Request, Types, Named, Begun, Alone, Visible, NoView, Programs, NoProgram
  <2>5. RequestNotLost'
    BY <1>1, <1>4 DEF Request, Types, Named, Begun, Engines, Inside, Polls, Alone, Visible,
       RequestNotLost, Programs, NoProgram
  <2> QED
    BY <1>2, <2>1, <2>2, <2>3, <2>4, <2>5
<1> QED
  BY <1>3, <1>4

\* The shutdown of a program, and its next start.
LEMMA DownKeeps ==
  ASSUME ControlInv, RunControlAssumption, NEW p \in Programs,
         Shutdown(p) \/ WaitEnds(p) \/ ForceClearOwn(p) \/ Restart(p)
  PROVE  ControlInv'
<1> USE RunControlAssumption DEF ControlInv, RunControlAssumption, At, Goto, world, Runs
<1>1. run' = run /\ Begun' = Begun
  BY DEF Shutdown, WaitEnds, ForceClearOwn, Restart, Begun
<1>2. Numbered' /\ Named'
  BY <1>1 DEF Numbered, Named
<1>3. CASE Shutdown(p)
  <2>1. cancelled' \subseteq Nat
    <3>1. Stopped(p) \subseteq Nat /\ cancelled \subseteq Nat
      BY StoppedRuns DEF Types
    <3> QED
      BY <1>3, <3>1 DEF Shutdown
  <2>2. Types'
    BY <1>1, <1>3, <2>1 DEF Shutdown, Stopped, Types, Places, Named, Free, NoView, Programs,
       NoProgram
  <2>3. Engines' /\ Locked'
    BY <1>1, <1>3 DEF Shutdown, Stopped, Types, Named, Engines, Inside, Locked, Free,
       Programs, NoProgram
  <2>4. Polls' /\ Alone'
    BY <1>1, <1>3 DEF Shutdown, Stopped, Types, Begun, Polls, Alone, Programs, NoProgram
  <2>5. Visible'
    BY <1>1, <1>3 DEF Shutdown, Stopped, Types, Named, Begun, Alone, Visible, NoView,
       Programs, NoProgram
  <2>6. RequestNotLost'
    BY <1>1, <1>3 DEF Shutdown, Stopped, Types, Named, Begun, Engines, Inside, Polls, Alone,
       Visible, RequestNotLost, Programs, NoProgram
  <2> QED
    BY <1>2, <2>2, <2>3, <2>4, <2>5, <2>6
<1>4. CASE WaitEnds(p)
  <2>1. Types'
    BY <1>1, <1>4 DEF WaitEnds, Types, Places, Named, Free, NoView, Programs, NoProgram
  <2>2. Engines' /\ Locked'
    BY <1>1, <1>4 DEF WaitEnds, Types, Named, Engines, Inside, Locked, Free, Programs, NoProgram
  <2>3. Polls' /\ Alone'
    BY <1>1, <1>4 DEF WaitEnds, Types, Begun, Polls, Alone, Programs, NoProgram
  <2>4. Visible'
    BY <1>1, <1>4 DEF WaitEnds, Types, Named, Begun, Alone, Visible, NoView, Programs, NoProgram
  <2>5. RequestNotLost'
    BY <1>1, <1>4 DEF WaitEnds, Types, Named, Begun, Engines, Inside, Polls, Alone, Visible,
       RequestNotLost, Programs, NoProgram
  <2> QED
    BY <1>2, <2>1, <2>2, <2>3, <2>4, <2>5
<1>5. CASE ForceClearOwn(p)
  <2>1. Types'
    BY <1>1, <1>5 DEF ForceClearOwn, Types, Places, Named, Free, NoView, Programs, NoProgram
  <2>2. Engines' /\ Locked'
    BY <1>1, <1>5 DEF ForceClearOwn, Types, Named, Engines, Inside, Locked, Free, Programs,
       NoProgram
  <2>3. Polls' /\ Alone'
    BY <1>1, <1>5 DEF ForceClearOwn, Types, Begun, Polls, Alone, Programs, NoProgram
  <2>4. Visible'
    BY <1>1, <1>5 DEF ForceClearOwn, Types, Named, Begun, Alone, Visible, NoView, Programs,
       NoProgram
  <2>5. RequestNotLost'
    BY <1>1, <1>5 DEF ForceClearOwn, Types, Named, Begun, Engines, Inside, Polls, Alone,
       Visible, RequestNotLost, Programs, NoProgram
  <2> QED
    BY <1>2, <2>1, <2>2, <2>3, <2>4, <2>5
<1>6. CASE Restart(p)
  <2>1. Types'
    BY <1>1, <1>6 DEF Restart, Types, Places, Named, Free, NoView, Programs, NoProgram
  <2>2. Engines' /\ Locked'
    BY <1>1, <1>6 DEF Restart, Types, Named, Engines, Inside, Locked, Free, Programs, NoProgram
  <2>3. Polls' /\ Alone'
    BY <1>1, <1>6 DEF Restart, Types, Begun, Polls, Alone, Programs, NoProgram
  <2>4. Visible'
    BY <1>1, <1>6 DEF Restart, Types, Named, Begun, Alone, Visible, NoView, Programs, NoProgram
  <2>5. RequestNotLost'
    BY <1>1, <1>6 DEF Restart, Types, Named, Begun, Engines, Inside, Polls, Alone, Visible,
       RequestNotLost, Programs, NoProgram
  <2> QED
    BY <1>2, <2>1, <2>2, <2>3, <2>4, <2>5
<1> QED
  BY <1>3, <1>4, <1>5, <1>6

\* The end of a program.
LEMMA GoneKeeps ==
  ASSUME ControlInv, RunControlAssumption, NEW p \in Programs, Exit(p) \/ Crash(p)
  PROVE  ControlInv'
<1> USE RunControlAssumption DEF ControlInv, RunControlAssumption, At, Goto, world, Runs
<1>1. /\ \A m \in Runs : run'[m] = IF run[m].p = p THEN [run[m] EXCEPT !.pc = "over"] ELSE run[m]
      /\ Gone(p)
  BY DEF Exit, Crash, Gone
<1>a. \A m \in Runs :
         /\ run'[m].p = run[m].p /\ run'[m].job = run[m].job
         /\ run'[m].pc = IF run[m].p = p THEN "over" ELSE run[m].pc
         /\ run[m].p = p => run[m].pc # "none"
  <2>1. SUFFICES ASSUME NEW m \in Runs
                 PROVE  /\ run'[m].p = run[m].p /\ run'[m].job = run[m].job
                        /\ run'[m].pc = IF run[m].p = p THEN "over" ELSE run[m].pc
                        /\ run[m].p = p => run[m].pc # "none"
    OBVIOUS
  <2>2. run[m] \in [pc : Places, p : Programs \cup {NoProgram}, job : Jobs \cup {NoJob}]
    BY DEF Types
  <2>3. /\ run'[m].p = run[m].p /\ run'[m].job = run[m].job
        /\ run'[m].pc = IF run[m].p = p THEN "over" ELSE run[m].pc
    BY <1>1, <2>2
  <2>4. run[m].p = p => run[m].pc # "none"
    BY DEF Named, NoRun, Programs, NoProgram
  <2> QED
    BY <2>3, <2>4
<1>b. Begun' = Begun
  BY <1>a DEF Begun
<1>2. Numbered' /\ Named'
  <2>1. Numbered'
    BY <1>b DEF Numbered
  <2>2. Named'
    BY <1>1, <1>a DEF Named
  <2> QED
    BY <2>1, <2>2
<1>c. run' \in [Runs -> [pc : Places, p : Programs \cup {NoProgram}, job : Jobs \cup {NoJob}]]
  <2> DEFINE R == [pc : Places, p : Programs \cup {NoProgram}, job : Jobs \cup {NoJob}]
  <2>1. \A m \in Runs : run[m] \in R
    BY DEF Types
  <2>2. \A r \in R : [r EXCEPT !.pc = "over"] \in R
    BY DEF Places
  <2> DEFINE v(m) == IF run[m].p = p THEN [run[m] EXCEPT !.pc = "over"] ELSE run[m]
  <2>3. \A m \in Runs : v(m) \in R
    BY <2>1, <2>2
  <2>4. run' = [m \in Runs |-> v(m)]
    BY <1>1 DEF Gone
  <2> HIDE DEF R, v
  <2>5. run' \in [Runs -> R]
    BY <2>3, <2>4
  <2> QED
    BY <2>5 DEF R
<1>3. Types'
  BY <1>1, <1>c DEF Gone, Exit, Crash, Types, Free, NoView, Programs
<1>4. Engines' /\ Locked'
  BY <1>1, <1>a DEF Gone, Types, Named, Engines, Inside, Locked, Free, Programs, NoProgram
<1>5. Polls' /\ Alone'
  BY <1>1, <1>a, <1>b DEF Gone, Types, Begun, Polls, Alone
<1>6. Visible'
  BY <1>1, <1>a DEF Gone, Types, Visible, NoView
<1>7. RequestNotLost'
  BY <1>1, <1>a DEF Gone, Types, Polls, RequestNotLost
<1> QED
  BY <1>2, <1>3, <1>4, <1>5, <1>6, <1>7

\* A new run.
LEMMA BeginKeeps ==
  ASSUME ControlInv, RunControlAssumption, NEW p \in Programs, NEW job \in Jobs, Begin(p, job)
  PROVE  ControlInv'
<1> USE RunControlAssumption DEF ControlInv, RunControlAssumption, At, Goto, world, Runs
<1> DEFINE n == Cardinality(Begun) + 1
<1>1. PICK k \in 0..MaxRuns : Begun = 1..k
  BY DEF Numbered
<1>2. n = k + 1
  <2>1. MaxRuns \in Nat /\ k \in Int
    OBVIOUS
  <2>2. Cardinality(1..k) = k
    BY <2>1, FS_Interval
  <2> QED
    BY <1>1, <2>2
<1>3. n \in Runs /\ n \notin Begun /\ Begun \cup {n} = 1..n
  BY <1>1, <1>2 DEF Begin
<1>4. /\ engine' = [engine EXCEPT ![p] = [running |-> TRUE, job |-> job, cancel |-> n]]
      /\ run' = [run EXCEPT ![n] = [pc |-> "check", p |-> p, job |-> job]]
      /\ shared' = IF Clash(job) THEN shared \cup {job} ELSE shared
      /\ ~engine[p].running
      /\ UNCHANGED <<polls, cancelled, signal, active, held, down, view, asks, mishaps, owed>>
  BY DEF Begin
<1> HIDE DEF n
<1>5. /\ \A m \in Runs : m # n => run'[m] = run[m]
      /\ run'[n] = [pc |-> "check", p |-> p, job |-> job]
      /\ run[n].pc = "none"
  BY <1>3, <1>4 DEF Types, Begun
<1>6. Begun' = Begun \cup {n}
  BY <1>3, <1>5 DEF Begun
<1>7. Types'
  BY <1>3, <1>4 DEF Types, Places, Programs
<1>8. Numbered'
  BY <1>3, <1>6 DEF Numbered
<1>9. Named'
  BY <1>3, <1>5 DEF Named
<1>10. Engines' /\ Locked'
  BY <1>3, <1>4, <1>5 DEF Types, Named, Engines, Inside, Locked
<1>11. Polls'
  BY <1>3, <1>4, <1>5 DEF Types, Polls
<1>12. Alone'
  BY <1>3, <1>4, <1>5, <1>6 DEF Types, Begun, Polls, Alone, Clash
<1>13. Visible'
  BY <1>3, <1>4, <1>5 DEF Types, Named, Visible
<1>14. RequestNotLost'
  BY <1>3, <1>4, <1>5 DEF Types, RequestNotLost
<1> QED
  BY <1>7, <1>8, <1>9, <1>10, <1>11, <1>12, <1>13, <1>14

\* No run has begun.
LEMMA InitControl ==
  ASSUME RunControlAssumption, Init
  PROVE  ControlInv
<1>1. MaxRuns \in Nat
  BY DEF RunControlAssumption
<1>2. \A n \in Runs : run[n] = NoRun
  BY DEF Init
<1>3. Begun = {}
  BY <1>2 DEF Begun, NoRun
<1>4. Types
  BY <1>1 DEF Init, Types, Free, NoRun, NoView, Places, Programs
<1>5. Numbered
  BY <1>1, <1>3 DEF Numbered
<1>6. Named /\ Engines /\ Locked
  BY <1>2 DEF Named, Engines, Locked, Inside, NoRun
<1>7. Polls /\ Alone
  BY <1>3 DEF Init, Polls, Alone
<1>8. Visible /\ RequestNotLost
  BY <1>2 DEF Init, Visible, RequestNotLost, NoView, NoRun
<1> QED
  BY <1>4, <1>5, <1>6, <1>7, <1>8 DEF ControlInv

\* The invariant holds of every behaviour.
LEMMA ControlInvariant ==
  ASSUME RunControlAssumption
  PROVE  Spec => []ControlInv
<1>1. Init => ControlInv
  BY InitControl
<1>2. ControlInv /\ [Next]_control => ControlInv'
  <2>1. SUFFICES ASSUME ControlInv, [Next]_control
                 PROVE  ControlInv'
    OBVIOUS
  <2>2. CASE UNCHANGED control
    BY <2>1, <2>2 DEF control, world, ControlInv, Types, Numbered, Begun, Named, Engines,
       Inside,
                      Locked, Polls, Alone, Visible, RequestNotLost
  <2>3. CASE Next
    BY <2>1, <2>3, BeginKeeps, RunStepKeeps, PollKeeps, ViewKeeps, StopKeeps, DownKeeps,
       GoneKeeps
       DEF Next
  <2> QED
    BY <2>1, <2>2, <2>3
<1> QED
  BY <1>1, <1>2, PTL DEF Spec

(* A request to stop that was written while a run of the job worked is not   *)
(* lost before it cancels the run, with any number of runs and requests.     *)
THEOREM RequestKept ==
  ASSUME RunControlAssumption
  PROVE  Spec => []RequestNotLost
<1>1. ControlInv => RequestNotLost
  BY DEF ControlInv
<1> QED
  BY <1>1, ControlInvariant, PTL

(* The window and the service never work at once, unless one of them has     *)
(* given up the lock on its way out and has not ended yet.                   *)
THEOREM OneRunWhileStaying ==
  ASSUME RunControlAssumption
  PROVE  Spec => []OneRunUnlessLeaving
<1>1. ControlInv => OneRunUnlessLeaving
  <2>1. SUFFICES ASSUME ControlInv, \A p \in Programs : Working(p)
                 PROVE  \E p \in Programs : down[p] = "leaving"
    BY DEF OneRunUnlessLeaving
  <2>2. \A p \in Programs : held = p \/ down[p] = "leaving"
    BY <2>1 DEF Working, Begun, ControlInv, Locked
  <2>3. "window" \in Programs /\ "service" \in Programs
    BY DEF Programs
  <2> QED
    BY <2>2, <2>3
<1> QED
  BY <1>1, ControlInvariant, PTL

-----------------------------------------------------------------------------
(* The control of restores. *)

\* Every variable has its type.
GroupTypes ==
  /\ group \in [active : Nat, ctx : Nat, cancel : Nat] /\ groups \in Nat
  /\ restore \in [Restores -> [pc : {"none", "running", "asking", "done"}, ctx : Nat]]
  /\ ctxdone \subseteq Nat /\ stop \in Nat
  /\ status \in [Restores -> {"none", "ok", "error", "declined", "cancelled"}]
  /\ asked \subseteq Nat /\ meant \subseteq Restores

\* restoreController.active counts the restores under way, which is what end
\* goes by.
Counted == IsFiniteSet(Active) /\ group.active = Cardinality(Active)

\* One group at a time: all restores under way have its context, and its cancel
\* function ends that context.
Grouped ==
  /\ group.cancel = group.ctx
  /\ group.ctx > 0 <=> group.active > 0
  /\ \A r \in Active : restore[r].ctx = group.ctx

\* Contexts are made one after the other: a new one is neither cancelled nor
\* asked for.
Fresh ==
  /\ group.ctx <= groups /\ stop <= groups
  /\ \A c \in ctxdone \cup asked : c <= groups

\* The call under way holds the function of the group it looked at, and what an
\* earlier call was meant for is cancelled.
Held ==
  /\ stop > 0 => stop \in asked
  /\ \A r \in meant : restore[r].pc # "none"
  /\ \A r \in meant \cap Active : restore[r].ctx \in ctxdone \/ restore[r].ctx = stop

\* Whoever is cancelled was asked to, except by the end of its own group.
Asked ==
  /\ group.active > 0 /\ group.ctx \in ctxdone => group.ctx \in asked
  /\ \A r \in Restores :
       status[r] = "cancelled" => restore[r].pc = "done" /\ restore[r].ctx \in asked

GroupInv == GroupTypes /\ Counted /\ Grouped /\ Fresh /\ Held /\ Asked

-----------------------------------------------------------------------------
\* A restore that begins joins the group, or makes one that nobody has asked
\* to cancel yet.
LEMMA RestoreBeginKeeps ==
  ASSUME GroupInv, NEW r \in Restores, BeginRestore(r)
  PROVE  GroupInv'
<1> USE DEF GroupInv
<1> DEFINE ctx == IF group.active = 0 THEN groups + 1 ELSE group.ctx
<1>1. /\ group' = [active |-> group.active + 1, ctx |-> ctx, cancel |-> ctx]
      /\ groups' = IF group.active = 0 THEN groups + 1 ELSE groups
      /\ restore' = [restore EXCEPT ![r] = [pc |-> "running", ctx |-> ctx]]
  BY DEF BeginRestore, Grouped
<1>2. GroupTypes'
  BY <1>1 DEF BeginRestore, GroupTypes
<1>3. Active' = Active \cup {r} /\ r \notin Active
  BY <1>1 DEF BeginRestore, GroupTypes, Active
<1>4. Counted'
  BY <1>1, <1>3, FS_AddElement, FS_CardinalityType DEF Counted, GroupTypes
<1>5. \A q \in Active : restore'[q] = restore[q]
  BY <1>1, <1>3 DEF GroupTypes, Active
<1>6. group.active = 0 => Active = {}
  BY FS_EmptySet DEF Counted
<1>7. Grouped'
  BY <1>1, <1>3, <1>5, <1>6 DEF GroupTypes, Grouped
<1>8. Fresh'
  BY <1>1 DEF BeginRestore, GroupTypes, Fresh
<1>9. Held'
  <2>1. r \notin meant
    BY DEF BeginRestore, Held
  <2>2. QED
    BY <1>1, <1>3, <1>5, <2>1 DEF BeginRestore, GroupTypes, Held
<1>10. Asked'
  <2>1. status[r] # "cancelled"
    BY DEF BeginRestore, Asked
  <2>2. groups + 1 \notin ctxdone
    BY DEF GroupTypes, Fresh
  <2>3. QED
    BY <1>1, <2>1, <2>2 DEF BeginRestore, GroupTypes, Asked, Grouped
<1> QED
  BY <1>2, <1>4, <1>7, <1>8, <1>9, <1>10

\* A restore that ends, however it does, is taken out of the count; the last one
\* ends the context of its group, which nobody else has.
LEMMA EndKeeps ==
  ASSUME GroupInv, NEW r \in Active,
         NEW outcome \in {"ok", "error", "declined", "cancelled"},
         outcome = "cancelled" => restore[r].ctx \in ctxdone,
         EndRestore(r, outcome)
  PROVE  GroupInv'
<1> USE DEF GroupInv
<1>1. /\ restore' = [restore EXCEPT ![r].pc = "done"]
      /\ status' = [status EXCEPT ![r] = outcome]
      /\ UNCHANGED <<groups, stop, stops, asked, meant>>
  BY DEF EndRestore, Record
<1>2. r \in Restores
  BY DEF Active
<1>3. Active' = Active \ {r}
  BY <1>1 DEF GroupTypes, Active
<1>4. /\ IsFiniteSet(Active') /\ Cardinality(Active') = Cardinality(Active) - 1
      /\ Cardinality(Active) \in Nat
  BY <1>3, FS_RemoveElement, FS_CardinalityType DEF Counted
<1>5. /\ LastOne => /\ group' = [active |-> 0, ctx |-> 0, cancel |-> 0]
                    /\ ctxdone' = ctxdone \cup {group.cancel}
      /\ ~LastOne => /\ group' = [group EXCEPT !.active = @ - 1]
                     /\ ctxdone' = ctxdone
  BY DEF EndRestore
<1>6. group.active > 0
  BY <1>2, FS_EmptySet, FS_CardinalityType DEF Counted, GroupTypes
<1>7. GroupTypes'
  BY <1>1, <1>2, <1>5, <1>6 DEF GroupTypes, LastOne
<1>8. Counted'
  BY <1>4, <1>5 DEF Counted, LastOne, GroupTypes
<1>9. LastOne => Active' = {}
  BY <1>4, <1>8, FS_EmptySet DEF Counted, LastOne, GroupTypes
<1>10. \A q \in Restores : restore'[q].ctx = restore[q].ctx
  BY <1>1 DEF GroupTypes
<1>11. Grouped'
  BY <1>3, <1>5, <1>6, <1>9, <1>10 DEF Grouped, GroupTypes, LastOne, Active
<1>12. Fresh'
  BY <1>1, <1>5 DEF Fresh, GroupTypes, Grouped
<1>13. Held'
  BY <1>1, <1>3, <1>5, <1>10 DEF Held, GroupTypes, Active
<1>14. Asked'
  <2>1. LastOne => group'.active = 0
    BY <1>5
  <2>2. ~LastOne => group'.ctx = group.ctx
    BY <1>5 DEF GroupTypes
  <2>3. group.ctx \in ctxdone => group.ctx \in asked
    BY <1>6 DEF Asked
  <2>4. outcome = "cancelled" => restore[r].ctx \in asked
    BY <2>3 DEF Grouped
  <2>5. QED
    BY <1>1, <1>2, <1>5, <1>10, <2>1, <2>2, <2>3, <2>4 DEF Asked, GroupTypes
<1> QED
  BY <1>7, <1>8, <1>11, <1>12, <1>13, <1>14

\* A question to the user, and the answer, change nothing of the group.
LEMMA AskKeeps ==
  ASSUME GroupInv, NEW r \in Restores, Ask(r) \/ Agree(r)
  PROVE  GroupInv'
<1> USE DEF GroupInv
<1>1. \E l \in {"asking", "running"} : restore' = [restore EXCEPT ![r].pc = l]
  BY DEF Ask, Agree
<1>2. r \in Active /\ UNCHANGED <<group, groups, ctxdone, stop, stops, status, asked, meant>>
  BY DEF Ask, Agree, Active
<1>3. \A q \in Restores : restore'[q].ctx = restore[q].ctx /\ (q # r => restore'[q] = restore[q])
  BY <1>1 DEF GroupTypes
<1>4. GroupTypes' /\ restore'[r].pc \in {"asking", "running"}
  BY <1>1, <1>2 DEF GroupTypes
<1>5. Active' = Active
  BY <1>2, <1>3, <1>4 DEF Active
<1>6. Counted' /\ Grouped' /\ Fresh'
  BY <1>2, <1>3, <1>5 DEF Counted, Grouped, Fresh, Active
<1>7. Held' /\ Asked'
  <2>1. status[r] # "cancelled"
    BY <1>2 DEF Asked, Active
  <2>2. Asked'
    BY <1>2, <1>3, <2>1 DEF Asked
  <2>3. Held'
    BY <1>2, <1>3, <1>4, <1>5 DEF Held, Active, GroupTypes
  <2> QED
    BY <2>2, <2>3
<1> QED
  BY <1>4, <1>6, <1>7

\* A call to cancel takes the function of the group there is, and calls it when
\* the group may be over.
LEMMA RestoreStopKeeps ==
  ASSUME GroupInv, StopLooks \/ StopCancels
  PROVE  GroupInv'
<1> USE DEF GroupInv
<1>1. UNCHANGED <<group, groups, restore, status>> /\ Active' = Active
  BY DEF StopLooks, StopCancels, Active
<1>2. CASE StopLooks
  <2>1. GroupTypes'
    BY <1>1, <1>2 DEF StopLooks, GroupTypes, Active
  <2>2. Counted' /\ Grouped'
    BY <1>1 DEF Counted, Grouped
  <2>3. Fresh' /\ Asked'
    BY <1>1, <1>2 DEF StopLooks, GroupTypes, Grouped, Fresh, Asked
  <2>4. Held'
    BY <1>1, <1>2 DEF StopLooks, GroupTypes, Grouped, Held, Active
  <2> QED
    BY <2>1, <2>2, <2>3, <2>4
<1>3. CASE StopCancels
  <2>1. GroupTypes' /\ Counted' /\ Grouped' /\ Fresh'
    BY <1>1, <1>3 DEF StopCancels, GroupTypes, Counted, Grouped, Fresh
  <2>2. Held' /\ Asked'
    BY <1>1, <1>3 DEF StopCancels, GroupTypes, Held, Asked
  <2> QED
    BY <2>1, <2>2
<1> QED
  BY <1>2, <1>3

\* The invariant holds at first and is kept by every step.
LEMMA GroupInvariant == RestoresSpec => []GroupInv
<1>1. RestoresInit => GroupInv
  <2> SUFFICES ASSUME RestoresInit PROVE GroupInv
    OBVIOUS
  <2>1. Active = {}
    BY DEF RestoresInit, Active
  <2>2. Counted
    BY <2>1, FS_EmptySet DEF RestoresInit, Counted
  <2> QED
    BY <2>1, <2>2 DEF RestoresInit, GroupInv, GroupTypes, Grouped, Fresh, Held, Asked
<1>2. GroupInv /\ [RestoresNext]_restoring => GroupInv'
  <2> SUFFICES ASSUME GroupInv, [RestoresNext]_restoring PROVE GroupInv'
    OBVIOUS
  <2>1. ASSUME NEW r \in Restores, BeginRestore(r) PROVE GroupInv'
    BY <2>1, RestoreBeginKeeps
  <2>2. ASSUME NEW r \in Restores, Ask(r) \/ Agree(r) PROVE GroupInv'
    BY <2>2, AskKeeps
  <2>3. ASSUME NEW r \in Restores, Finish(r) PROVE GroupInv'
    <3>1. r \in Active
      BY <2>3 DEF Finish, Active
    <3>2. PICK s \in {"ok", "error"} : EndRestore(r, s)
      BY <2>3 DEF Finish
    <3> QED
      BY <3>1, <3>2, EndKeeps
  <2>4. ASSUME NEW r \in Restores, Decline(r) PROVE GroupInv'
    <3>1. r \in Active /\ EndRestore(r, "declined")
      BY <2>4 DEF Decline, Active
    <3> QED
      BY <3>1, EndKeeps
  <2>5. ASSUME NEW r \in Restores, Cancelled(r) PROVE GroupInv'
    <3>1. r \in Active /\ EndRestore(r, "cancelled") /\ restore[r].ctx \in ctxdone
      BY <2>5 DEF Cancelled, Active
    <3> QED
      BY <3>1, EndKeeps
  <2>6. CASE StopLooks \/ StopCancels
    BY <2>6, RestoreStopKeeps
  <2>7. CASE UNCHANGED restoring
    BY <2>7 DEF restoring, GroupInv, GroupTypes, Counted, Grouped, Fresh, Held, Asked, Active
  <2> QED
    BY <2>1, <2>2, <2>3, <2>4, <2>5, <2>6, <2>7 DEF RestoresNext
<1> QED
  BY <1>1, <1>2, PTL DEF RestoresSpec

\* A call to cancel reaches every restore that was active when it looked and
\* still is, and a restore that is recorded as cancelled was in a group that
\* somebody asked to cancel: for any number of restores and calls
\* (restoreController.begin, stop and end).
THEOREM CancelReaches == RestoresSpec => []CancelReachesGroup
<1>1. GroupInv => CancelReachesGroup
  <2> SUFFICES ASSUME GroupInv PROVE CancelReachesGroup
    OBVIOUS
  <2>1. ASSUME stop = 0, NEW r \in meant \cap Active PROVE restore[r].ctx \in ctxdone
    <3>1. restore[r].ctx > 0
      <4>1. Active # {}
        BY <2>1
      <4>2. group.active > 0
        BY <4>1, FS_EmptySet, FS_CardinalityType DEF GroupInv, Counted, GroupTypes
      <4> QED
        BY <2>1, <4>2 DEF GroupInv, Grouped
    <3> QED
      BY <2>1, <3>1 DEF GroupInv, Held
  <2> QED
    BY <2>1 DEF GroupInv, Asked, CancelReachesGroup
<1> QED
  BY <1>1, GroupInvariant, PTL
=============================================================================
