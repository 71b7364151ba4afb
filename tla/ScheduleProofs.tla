--------------------------- MODULE ScheduleProofs ---------------------------
(***************************************************************************)
(* Proofs about ScheduleSlots and DueTimes.                                *)
(*                                                                         *)
(* Of slots, for every number of programs, goroutines and slots: the       *)
(* types, the guard of a slot (SlotOnce, OneRunPerSlot) and that a claim   *)
(* has somebody behind it (ClaimJustified).  Of due times, for days,       *)
(* months and catch-up windows of any length: when a job is due            *)
(* (DueExactly) and when a run is a full one (FullOnce).                   *)
(***************************************************************************)
EXTENDS ScheduleSlots, DueTimes, WellFoundedInduction, FiniteSetTheorems, TLAPS

USE DEF Goto, WorkerGoto

-----------------------------------------------------------------------------
\* TypeOK in parts, and what the steps of a tick and of a worker say of its slot.
FileTypes ==
  /\ claim \in [Slots -> Procs \cup {None, Gone}]
  /\ lastRun \in Slots \cup {None}
  /\ queue \in Seq(Slots)
  /\ marker \in Slots \cup {None}

TickTypes ==
  /\ now \in 0..MaxSlot
  /\ step \in [Procs -> TickSteps]
  /\ at \in [Procs -> 0..MaxSlot]
  /\ \A p \in Procs : step[p] # "idle" => at[p] \in Slots

WorkerTypes ==
  /\ wstep \in [Workers -> WorkerSteps]
  /\ work \in [Workers -> Slots \cup {None}]
  /\ queued \in [Workers -> BOOLEAN]
  /\ \A w \in Workers : wstep[w] \notin {"free", "drain"} => work[w] \in Slots

OtherTypes ==
  /\ up \in [Procs -> BOOLEAN]
  /\ skip \in SkipOptions
  /\ active \in [Procs -> SUBSET Slots]
  /\ holder \in Workers \cup {None, Other}

CountTypes ==
  /\ others \in 0..MaxOther
  /\ fails \in 0..MaxFails
  /\ exits \in 0..MaxExits
  /\ edits \in 0..MaxEdits

HistoryTypes == {succeeded, again, reopened} \subseteq SUBSET Slots

Types == FileTypes /\ TickTypes /\ WorkerTypes /\ OtherTypes /\ CountTypes /\ HistoryTypes

LEMMA ItemsType ==
  ASSUME FileTypes
  PROVE  /\ Items \in Seq(Slots)
         /\ Items # <<>> => Head(Items) \in Slots /\ Tail(Items) \in Seq(Slots)
  BY DEF FileTypes, Items

\* What the queue, its marker and the claims become when Drain starts or
\* gives up the head, and what Drain does to a worker.
LEMMA DrainFiles ==
  ASSUME FileTypes, HistoryTypes, lastRun' = lastRun, UNCHANGED <<succeeded, again>>,
         \/ DrainNothing
         \/ \E w \in Workers : DrainStarts(w)
         \/ \E p \in Procs : DrainFails(p)
  PROVE  FileTypes' /\ HistoryTypes'
<1>1. CASE DrainNothing
  BY <1>1 DEF DrainNothing, FileTypes, HistoryTypes
<1>2. ASSUME NEW w \in Workers, DrainStarts(w) PROVE FileTypes' /\ HistoryTypes'
  <2>1. FileTypes'
    BY <1>2, ItemsType DEF DrainStarts, TakeHead, FileTypes
  <2>2. HistoryTypes'
    BY <1>2 DEF DrainStarts, TakeHead, HistoryTypes
  <2> QED BY <2>1, <2>2
<1>3. ASSUME NEW p \in Procs, DrainFails(p) PROVE FileTypes' /\ HistoryTypes'
  <2>1. FileTypes'
    BY <1>3, ItemsType DEF DrainFails, TakeHead, FileTypes, ReleaseClaim
  <2>2. HistoryTypes'
    BY <1>3 DEF DrainFails, TakeHead, HistoryTypes
  <2> QED BY <2>1, <2>2
<1> QED BY <1>1, <1>2, <1>3

LEMMA DrainOthers ==
  ASSUME Types, UNCHANGED <<up, skip, holder, others, exits, edits>>,
         \/ DrainNothing
         \/ \E w \in Workers : DrainStarts(w)
         \/ \E p \in Procs : DrainFails(p)
  PROVE  OtherTypes' /\ CountTypes'
<1>1. CASE DrainNothing
  BY <1>1 DEF DrainNothing, Types, OtherTypes, CountTypes
<1>2. ASSUME NEW w \in Workers, DrainStarts(w) PROVE OtherTypes' /\ CountTypes'
  BY <1>2 DEF DrainStarts, Types, OtherTypes, CountTypes
<1>3. ASSUME NEW p \in Procs, DrainFails(p) PROVE OtherTypes' /\ CountTypes'
  <2>1. OtherTypes'
    BY <1>3 DEF DrainFails, Types, OtherTypes, EndRun
  <2>2. CountTypes'
    BY <1>3, SlotAssumption DEF DrainFails, CountFailure, Types, CountTypes
  <2> QED BY <2>1, <2>2
<1> QED BY <1>1, <1>2, <1>3

LEMMA StartTypes ==
  ASSUME WorkerTypes, NEW w \in Workers, NEW s \in Slots, NEW b \in BOOLEAN, StartWorker(w, s, b)
  PROVE  WorkerTypes'
  BY DEF StartWorker, WorkerTypes, WorkerSteps

LEMMA TickTypeStep == ASSUME Types, NEW p \in Procs, TickGoesOn(p) PROVE Types'
<1>1. CASE Tick(p)
  <2>1. TickTypes'
    BY <1>1, SlotAssumption DEF Tick, Types, TickTypes, TickSteps, Slots, job
  <2> QED BY <1>1, <2>1 DEF Tick, Types, FileTypes, WorkerTypes, OtherTypes, CountTypes,
      HistoryTypes, job, files, workers, counters, history
<1>2. CASE TickDrain(p)
  <2>1. TickTypes'
    BY <1>2 DEF TickDrain, Types, TickTypes, TickSteps, job
  <2>2. FileTypes' /\ HistoryTypes' /\ OtherTypes' /\ CountTypes'
    BY <1>2, DrainFiles, DrainOthers DEF TickDrain, Types, job
  <2>3. WorkerTypes'
    <3>1. CASE UNCHANGED workers
      BY <3>1 DEF workers, Types, WorkerTypes
    <3>2. ASSUME NEW w \in Workers, DrainStarts(w) PROVE WorkerTypes'
      BY <3>2, StartTypes, ItemsType DEF DrainStarts, TakeHead, Types
    <3> QED BY <1>2, <3>1, <3>2 DEF TickDrain
  <2> QED BY <2>1, <2>2, <2>3 DEF Types
<1>3. CASE TickLook(p)
  <2>1. TickTypes'
    BY <1>3 DEF TickLook, TickSteps, job, Types, TickTypes
  <2> QED
    BY <1>3, <2>1 DEF TickLook, Types, FileTypes, WorkerTypes, OtherTypes, CountTypes,
       HistoryTypes,
      job, files, ticks, workers, counters, history
<1>4. CASE TickContains(p)
  <2>1. TickTypes'
    BY <1>4 DEF TickContains, TickSteps, job, Types, TickTypes
  <2> QED
    BY <1>4, <2>1 DEF TickContains, Types, FileTypes, WorkerTypes, OtherTypes, CountTypes,
       HistoryTypes,
      job, files, ticks, workers, counters, history
<1>5. CASE TickClaim(p)
  <2>1. TickTypes'
    BY <1>5 DEF TickClaim, TickSteps, job, Types, TickTypes
  <2>2. FileTypes'
    BY <1>5 DEF TickClaim, Types, FileTypes
  <2> QED
    BY <1>5, <2>1, <2>2 DEF TickClaim, Types, WorkerTypes, OtherTypes, CountTypes, HistoryTypes,
      job, files, ticks, workers, counters, history
<1>6. CASE TickRecheck(p)
  <2>1. TickTypes'
    BY <1>6 DEF TickRecheck, TickSteps, job, Types, TickTypes
  <2>2. FileTypes'
    BY <1>6 DEF TickRecheck, ReleaseClaim, Types, FileTypes
  <2> QED
    BY <1>6, <2>1, <2>2 DEF TickRecheck, Types, WorkerTypes, OtherTypes, CountTypes, HistoryTypes,
      job, files, ticks, workers, counters, history
<1>7. CASE TickBegin(p)
  <2>1. TickTypes'
    BY <1>7 DEF TickBegin, TickSteps, job, Types, TickTypes
  <2>2. FileTypes'
    BY <1>7 DEF TickBegin, ReleaseClaim, Types, FileTypes
  <2>3. OtherTypes'
    BY <1>7, <2>1 DEF TickBegin, TickTypes, job, Types, OtherTypes
  <2> QED
    BY <1>7, <2>1, <2>2, <2>3 DEF TickBegin, Types, WorkerTypes, CountTypes, HistoryTypes,
      job, files, ticks, workers, counters, history
<1>8. CASE TickSubmit(p)
  <2>1. TickTypes'
    BY <1>8 DEF TickSubmit, TickSteps, job, Types, TickTypes
  <2>2. FileTypes'
    BY <1>8 DEF TickSubmit, SlotGivenUp, ReleaseClaim, Types, FileTypes
  <2>3. OtherTypes'
    BY <1>8 DEF TickSubmit, SlotGivenUp, EndRun, job, Types, OtherTypes
  <2>4. CountTypes'
    <3>1. UNCHANGED fails \/ CountFailure
      BY <1>8 DEF TickSubmit
    <3>2. UNCHANGED <<others, exits, edits>>
      BY <1>8 DEF TickSubmit
    <3> QED BY <3>1, <3>2, SlotAssumption DEF CountFailure, Types, CountTypes
  <2>5. WorkerTypes'
    <3>1. at[p] \in Slots
      BY <1>8 DEF TickSubmit, Types, TickTypes
    <3>2. CASE UNCHANGED workers
      BY <3>2 DEF workers, Types, WorkerTypes
    <3>3. ASSUME NEW w \in Workers, StartWorker(w, at[p], FALSE) PROVE WorkerTypes'
      BY <3>1, <3>3, StartTypes DEF Types
    <3> QED BY <1>8, <3>2, <3>3 DEF TickSubmit
  <2> QED
    BY <1>8, <2>1, <2>2, <2>3, <2>4, <2>5 DEF TickSubmit, Types, HistoryTypes,
      job, files, ticks, workers, counters, history
<1>9. CASE TickEnqueue(p)
  <2>1. TickTypes'
    BY <1>9 DEF TickEnqueue, TickSteps, job, Types, TickTypes
  <2>2. FileTypes'
    <3>1. at[p] \in Slots
      BY <1>9 DEF TickEnqueue, Types, TickTypes
    <3>2. queue' \in Seq(Slots)
      BY <1>9, <3>1 DEF TickEnqueue, Types, FileTypes
    <3> QED
      BY <1>9, <3>2 DEF TickEnqueue, SlotGivenUp, ReleaseClaim, Types, FileTypes
  <2>3. OtherTypes'
    BY <1>9 DEF TickEnqueue, SlotGivenUp, EndRun, job, Types, OtherTypes
  <2> QED
    BY <1>9, <2>1, <2>2, <2>3 DEF TickEnqueue, Types, WorkerTypes, CountTypes, HistoryTypes,
      job, files, ticks, workers, counters, history
<1>10. CASE TickAbort(p)
  <2>1. TickTypes'
    BY <1>10 DEF TickAbort, TickSteps, job, Types, TickTypes
  <2>2. FileTypes'
    BY <1>10 DEF TickAbort, SlotGivenUp, ReleaseClaim, Types, FileTypes
  <2>3. OtherTypes'
    BY <1>10 DEF TickAbort, SlotGivenUp, EndRun, job, Types, OtherTypes
  <2>4. HistoryTypes'
    BY <1>10 DEF TickAbort, Types, HistoryTypes
  <2> QED
    BY <1>10, <2>1, <2>2, <2>3, <2>4 DEF TickAbort, Types, WorkerTypes, CountTypes,
      job, files, ticks, workers, counters, history
<1> QED
  BY <1>1, <1>2, <1>3, <1>4, <1>5, <1>6, <1>7, <1>8, <1>9, <1>10 DEF TickGoesOn

LEMMA WorkerTypeStep == ASSUME Types, NEW w \in Workers, WorkerGoesOn(w) PROVE Types'
<1>1. CASE WorkerBegin(w)
  <2>1. WorkerTypes'
    BY <1>1 DEF WorkerBegin, WorkerSteps, Types, WorkerTypes
  <2>2. FileTypes'
    BY <1>1 DEF WorkerBegin, Types, FileTypes
  <2>3. OtherTypes'
    BY <1>1 DEF WorkerBegin, job, Types, OtherTypes
  <2> QED
    BY <1>1, <2>1, <2>2, <2>3 DEF WorkerBegin, Types, TickTypes, CountTypes, HistoryTypes,
      job, files, ticks, workers, counters, history
<1>2. CASE WorkerRuns(w)
  <2>1. WorkerTypes'
    BY <1>2 DEF WorkerRuns, WorkerSteps, Types, WorkerTypes
  <2>2. FileTypes'
    BY <1>2 DEF WorkerRuns, Types, FileTypes
  <2>3. OtherTypes'
    BY <1>2 DEF WorkerRuns, job, Types, OtherTypes
  <2>4. HistoryTypes'
    BY <1>2 DEF WorkerRuns, WorkerTypes, Types, HistoryTypes
  <2> QED
    BY <1>2, <2>1, <2>2, <2>3, <2>4 DEF WorkerRuns, Types, TickTypes, CountTypes,
      job, files, ticks, workers, counters, history
<1>3. CASE RecordSuccess(w)
  <2>1. WorkerTypes'
    BY <1>3 DEF RecordSuccess, WorkerSteps, Types, WorkerTypes
  <2>2. FileTypes'
    BY <1>3 DEF RecordSuccess, WorkerTypes, Types, FileTypes
  <2>3. HistoryTypes'
    BY <1>3 DEF RecordSuccess, Types, HistoryTypes
  <2> QED
    BY <1>3, <2>1, <2>2, <2>3 DEF RecordSuccess, Types, TickTypes, OtherTypes, CountTypes,
      job, files, ticks, workers, counters, history
<1>4. CASE Unclaim(w)
  <2>1. WorkerTypes'
    BY <1>4 DEF Unclaim, WorkerSteps, Types, WorkerTypes
  <2>2. FileTypes'
    BY <1>4 DEF Unclaim, ReleaseClaim, Types, FileTypes
  <2> QED
    BY <1>4, <2>1, <2>2 DEF Unclaim, Types, TickTypes, OtherTypes, CountTypes, HistoryTypes,
      job, files, ticks, workers, counters, history
<1>5. CASE RecordFailure(w)
  <2>1. WorkerTypes'
    BY <1>5 DEF RecordFailure, WorkerSteps, Types, WorkerTypes
  <2>2. FileTypes'
    BY <1>5 DEF RecordFailure, ReleaseClaim, Types, FileTypes
  <2> QED
    BY <1>5, <2>1, <2>2 DEF RecordFailure, Types, TickTypes, OtherTypes, CountTypes, HistoryTypes,
      job, files, ticks, workers, counters, history
<1>6. CASE WorkerEnds(w)
  <2>1. WorkerTypes'
    BY <1>6 DEF WorkerEnds, WorkerSteps, Types, WorkerTypes
  <2>2. FileTypes'
    BY <1>6 DEF WorkerEnds, Types, FileTypes
  <2>3. OtherTypes'
    BY <1>6 DEF WorkerEnds, EndRun, job, Types, OtherTypes
  <2> QED
    BY <1>6, <2>1, <2>2, <2>3 DEF WorkerEnds, Types, TickTypes, CountTypes, HistoryTypes,
      job, files, ticks, workers, counters, history
<1>7. CASE WorkerDrains(w)
  <2>1. FileTypes' /\ HistoryTypes' /\ OtherTypes' /\ CountTypes'
    BY <1>7, DrainFiles, DrainOthers, SlotAssumption DEF WorkerDrains, Types, job
  <2>2. TickTypes'
    BY <1>7 DEF WorkerDrains, Types, TickTypes, ticks, job
  <2>3. WorkerTypes'
    <3>1. CASE WorkerGoto(w, "free") /\ UNCHANGED <<work, queued>>
      BY <3>1 DEF Types, WorkerTypes, WorkerSteps
    <3>2. CASE DrainStarts(w)
      BY <3>2, StartTypes, ItemsType DEF DrainStarts, TakeHead, Types
    <3> QED BY <1>7, <3>1, <3>2 DEF WorkerDrains
  <2> QED BY <2>1, <2>2, <2>3 DEF Types
<1> QED
  BY <1>1, <1>2, <1>3, <1>4, <1>5, <1>6, <1>7 DEF WorkerGoesOn

LEMMA TypeStep == ASSUME Types, [Next]_vars PROVE Types'
<1>1. CASE NextSlot
  <2>1. TickTypes'
    BY <1>1, SlotAssumption DEF NextSlot, Slots, ticks, Types, TickTypes
  <2> QED
    BY <1>1, <2>1 DEF NextSlot, Types, FileTypes, WorkerTypes, OtherTypes, CountTypes,
       HistoryTypes,
      job, files, ticks, workers, counters, history
<1>2. CASE OtherBegins
  <2>1. OtherTypes'
    BY <1>2 DEF OtherBegins, job, Types, OtherTypes
  <2>2. CountTypes'
    BY <1>2, SlotAssumption DEF OtherBegins, Types, CountTypes
  <2> QED
    BY <1>2, <2>1, <2>2 DEF OtherBegins, Types, FileTypes, TickTypes, WorkerTypes, HistoryTypes,
      job, files, ticks, workers, counters, history
<1>3. CASE OtherEnds
  <2>1. OtherTypes'
    BY <1>3 DEF OtherEnds, job, Types, OtherTypes
  <2>2. WorkerTypes'
    BY <1>3 DEF OtherEnds, WorkerSteps, Types, WorkerTypes
  <2> QED
    BY <1>3, <2>1, <2>2 DEF OtherEnds, Types, FileTypes, TickTypes, CountTypes, HistoryTypes,
      job, files, ticks, workers, counters, history
<1>4. CASE SaveJob
  <2>1. FileTypes'
    BY <1>4 DEF SaveJob, Types, FileTypes
  <2>2. HistoryTypes'
    BY <1>4 DEF SaveJob, Types, HistoryTypes
  <2>3. CountTypes'
    BY <1>4, SlotAssumption DEF SaveJob, Types, CountTypes
  <2> QED
    BY <1>4, <2>1, <2>2, <2>3 DEF SaveJob, Types, TickTypes, WorkerTypes, OtherTypes,
      job, files, ticks, workers, counters, history
<1>5. ASSUME NEW p \in Procs, Boot(p) PROVE Types'
  <2>1. FileTypes'
    BY <1>5, ItemsType DEF Boot, files, Types, FileTypes
  <2>2. HistoryTypes'
    BY <1>5 DEF Boot, FileTypes, Types, HistoryTypes
  <2>3. OtherTypes'
    BY <1>5 DEF Boot, job, Types, OtherTypes
  <2> QED
    BY <1>5, <2>1, <2>2, <2>3 DEF Boot, Types, TickTypes, WorkerTypes, CountTypes,
      job, files, ticks, workers, counters, history
<1>6. ASSUME NEW p \in Procs, Exit(p) PROVE Types'
  <2>1. FileTypes'
    BY <1>6 DEF Exit, Types, FileTypes
  <2>2. HistoryTypes'
    BY <1>6 DEF Exit, Types, HistoryTypes
  <2>3. OtherTypes'
    BY <1>6 DEF Exit, job, Types, OtherTypes
  <2>4. WorkerTypes'
    BY <1>6 DEF Exit, WorkerSteps, Types, WorkerTypes
  <2>5. TickTypes'
    BY <1>6 DEF Exit, TickSteps, job, Types, TickTypes
  <2>6. CountTypes'
    BY <1>6, SlotAssumption DEF Exit, Types, CountTypes
  <2> QED
    BY <1>6, <2>1, <2>2, <2>3, <2>4, <2>5, <2>6 DEF Types
<1>7. CASE UNCHANGED vars
  BY <1>7 DEF vars, Types, FileTypes, TickTypes, WorkerTypes, OtherTypes, CountTypes,
     HistoryTypes,
    job, files, ticks, workers, counters, history
<1> QED
  BY TickTypeStep, WorkerTypeStep, <1>1, <1>2, <1>3, <1>4, <1>5, <1>6, <1>7 DEF Next

LEMMA TypeInvariance == Spec => []Types
<1>1. Init => Types
  BY SlotAssumption DEF Init, Types, FileTypes, TickTypes, WorkerTypes, OtherTypes, CountTypes,
    HistoryTypes, TickSteps, WorkerSteps
<1> QED BY <1>1, TypeStep, PTL DEF Spec

\* The type invariant: every variable keeps its type, whatever the programs do.
THEOREM TypeCorrect == Spec => []TypeOK
<1>1. Types => TypeOK
  BY DEF Types, FileTypes, TickTypes, WorkerTypes, OtherTypes, CountTypes, HistoryTypes, TypeOK
<1> QED BY <1>1, TypeInvariance, PTL
-----------------------------------------------------------------------------
\* A tick has claimed the slot and means to submit it.
Asks(p, s) == at[p] = s /\ step[p] \in {"recheck", "begin", "submit", "enqueue"}

\* A worker has the slot, up to the end of its record.
Has(w, s) == work[w] = s /\ wstep[w] \in {"begin", "run", "ok", "unclaim", "failed"}

Injective == \A m, n \in DOMAIN queue : queue[m] = queue[n] => m = n

\* Whoever means to run the slot has its claim, and is the only one: one tick,
\* one item or one worker.
Token(s) ==
  /\ \A p \in Procs : Asks(p, s) => claim[s] = p
  /\ InQueue(s) => claim[s] \in Procs
  /\ InQueue(s) => \A p \in Procs : ~Asks(p, s)
  /\ \A w \in Workers : Has(w, s) =>
       /\ claim[s] \in Procs
       /\ ~InQueue(s)
       /\ \A p \in Procs : ~Asks(p, s)
       /\ \A v \in Workers : Has(v, s) => v = w

\* A slot that was backed up is not on its way to another run: it is recorded,
\* or its claim is held for the worker that will record it.
Shut(s) ==
  /\ ~InQueue(s)
  /\ \A w \in Workers : Has(w, s) => wstep[w] \in {"ok", "unclaim"}
  /\ \A p \in Procs : Asks(p, s) => step[p] = "recheck"
  /\ lastRun # s =>
       /\ claim[s] \in Procs
       /\ \A w \in Workers : Has(w, s) => wstep[w] = "ok"
       /\ \A p \in Procs : ~Asks(p, s)

Guarded ==
  /\ Injective
  /\ \A s \in Slots \ reopened : Token(s)
  /\ \A s \in succeeded \ reopened : Shut(s)
  /\ again \subseteq reopened

\* The head leaves the queue, or the marker was put in front of it and leaves;
\* a slot that was marked is reopened.
LEMMA TakeHeadStep ==
  ASSUME Types, Injective, TakeHead
  PROVE  /\ Injective'
         /\ Head(Items) \in Slots
         /\ reopened \subseteq reopened'
         /\ \A s \in Slots : InQueue(s) => InQueue(s)' \/ s = Head(Items)
         /\ \A s \in Slots \ reopened' :
              /\ InQueue(s)' <=> InQueue(s) /\ s # Head(Items)
              /\ s = Head(Items) => InQueue(s)
<1>1. Head(Items) \in Slots
  BY ItemsType DEF TakeHead, Types
<1>2. CASE marker # None /\ ~InQueue(marker)
  <2>1. queue' = queue /\ Head(Items) = marker
    BY <1>2 DEF TakeHead, Items, Types, FileTypes
  <2>2. marker \in reopened'
    BY <1>2 DEF TakeHead, Types, FileTypes
  <2> QED BY <1>1, <2>1, <2>2, <1>2 DEF Injective, InQueue, TakeHead
<1>3. CASE ~(marker # None /\ ~InQueue(marker))
  <2>1. queue # <<>> /\ queue' = Tail(queue) /\ Head(Items) = queue[1]
    BY <1>3 DEF TakeHead, Items, Types, FileTypes
  <2>2. /\ queue \in Seq(Slots) /\ Len(queue) \in Nat \ {0}
        /\ DOMAIN queue = 1..Len(queue)
        /\ DOMAIN queue' = 1..(Len(queue) - 1)
        /\ \A n \in 1..(Len(queue) - 1) : queue'[n] = queue[n + 1]
    BY <2>1 DEF Types, FileTypes
  <2>3. Injective'
    BY <2>2 DEF Injective
  <2>4. ASSUME NEW s \in Slots PROVE InQueue(s)' <=> InQueue(s) /\ s # queue[1]
    <3>1. ASSUME NEW n \in DOMAIN queue', queue'[n] = s PROVE InQueue(s) /\ s # queue[1]
      BY <3>1, <2>2 DEF Injective, InQueue
    <3>2. ASSUME NEW n \in DOMAIN queue, queue[n] = s, s # queue[1] PROVE InQueue(s)'
      <4>1. n - 1 \in DOMAIN queue' /\ queue'[n - 1] = s
        BY <3>2, <2>2
      <4> QED BY <4>1 DEF InQueue
    <3> QED BY <3>1, <3>2 DEF InQueue
  <2>5. InQueue(queue[1])
    BY <2>2 DEF InQueue
  <2> QED BY <1>1, <2>1, <2>3, <2>4, <2>5 DEF TakeHead
<1> QED BY <1>2, <1>3

\* Nothing that matters for the guard changes, but a worker may give up its slot
\* or go on with it before its record.
LEMMA SameGuarded ==
  ASSUME Types, Guarded, UNCHANGED <<claim, lastRun, queue, at, succeeded, again, reopened>>,
         \A p \in Procs : step'[p] = step[p] \/ {step[p], step'[p]} \subseteq {"drain", "look"},
         \A s \in Slots, w \in Workers : Has(w, s)' =>
           Has(w, s) /\ (wstep'[w] = wstep[w] \/ wstep[w] \notin {"ok", "unclaim"})
  PROVE  Guarded'
<1>1. /\ Injective' <=> Injective
      /\ \A s \in Slots : InQueue(s)' <=> InQueue(s)
      /\ \A s \in Slots, p \in Procs : Asks(p, s)' => Asks(p, s) /\ step'[p] = step[p]
  BY DEF Injective, InQueue, Asks
<1>2. ASSUME NEW s \in Slots \ reopened PROVE Token(s)'
  BY <1>1 DEF Guarded, Token
<1>3. ASSUME NEW s \in succeeded \ reopened PROVE Shut(s)'
  <2>1. s \in Slots /\ Shut(s)
    BY DEF Guarded, Types, HistoryTypes
  <2> QED BY <1>1, <2>1 DEF Shut
<1> QED BY <1>1, <1>2, <1>3 DEF Guarded

\* A step of a tick leaves the other slots alone.
LEMMA OwnSlotGuarded ==
  ASSUME Types, Guarded, NEW p \in Procs,
         UNCHANGED <<lastRun, queue, at, wstep, work, succeeded, again, reopened>>,
         \A q \in Procs \ {p} : step'[q] = step[q],
         \A s \in Slots \ {at[p]} : claim'[s] = claim[s],
         \A s \in Slots \ reopened : s = at[p] => Token(s)',
         \A s \in succeeded \ reopened : s = at[p] => Shut(s)'
  PROVE  Guarded'
<1>1. /\ Injective' <=> Injective
      /\ \A s \in Slots : InQueue(s)' <=> InQueue(s)
      /\ \A s \in Slots, w \in Workers : (Has(w, s)' <=> Has(w, s)) /\ wstep'[w] = wstep[w]
  BY DEF Injective, InQueue, Has
<1>2. ASSUME NEW s \in Slots, s # at[p], NEW q \in Procs
      PROVE  (Asks(q, s)' <=> Asks(q, s)) /\ (Asks(q, s) => step'[q] = step[q])
  BY <1>2 DEF Asks
<1>3. ASSUME NEW s \in Slots \ reopened PROVE Token(s)'
  BY <1>1, <1>2 DEF Guarded, Token
<1>4. ASSUME NEW s \in succeeded \ reopened PROVE Shut(s)'
  <2>1. s \in Slots /\ Shut(s)
    BY DEF Guarded, Types, HistoryTypes
  <2> QED BY <1>1, <1>2, <2>1 DEF Shut
<1> QED BY <1>1, <1>3, <1>4 DEF Guarded

\* Each step keeps the guard, of the slot it works for and of the others.
LEMMA TickGuarded == ASSUME Types, Guarded, NEW p \in Procs, Tick(p) PROVE Guarded'
<1> USE SlotAssumption DEF Tick, job, files, workers, counters, history, Types, FileTypes,
    TickTypes, WorkerTypes, HistoryTypes
<1>1. Injective'
  BY DEF Guarded, Injective
<1>2. ASSUME NEW s \in Slots \ reopened' PROVE Token(s)'
  <2>1. Token(s)
    BY DEF Guarded
  <2> QED BY <2>1 DEF Token, Asks, Has, InQueue
<1>3. ASSUME NEW s \in succeeded' \ reopened' PROVE Shut(s)'
  <2>1. s \in Slots /\ Token(s)
    BY DEF Guarded
  <2>2. s \in succeeded => Shut(s)
    BY DEF Guarded
  <2> QED BY <2>1, <2>2 DEF Token, Asks, Has, InQueue, Shut
<1>4. (again \subseteq reopened)'
  BY DEF Guarded, Token, Shut, Asks, Has
<1> QED BY <1>1, <1>2, <1>3, <1>4 DEF Guarded

LEMMA TickLookGuarded == ASSUME Types, Guarded, NEW p \in Procs, TickLook(p) PROVE Guarded'
<1> USE SlotAssumption DEF TickLook, job, files, workers, counters, history, Types, FileTypes,
    TickTypes, WorkerTypes, HistoryTypes
<1>1. Injective'
  BY DEF Guarded, Injective
<1>2. ASSUME NEW s \in Slots \ reopened' PROVE Token(s)'
  <2>1. Token(s)
    BY DEF Guarded
  <2> QED BY <2>1 DEF Token, Asks, Has, InQueue
<1>3. ASSUME NEW s \in succeeded' \ reopened' PROVE Shut(s)'
  <2>1. s \in Slots /\ Token(s)
    BY DEF Guarded
  <2>2. s \in succeeded => Shut(s)
    BY DEF Guarded
  <2> QED BY <2>1, <2>2 DEF Token, Asks, Has, InQueue, Shut
<1>4. (again \subseteq reopened)'
  BY DEF Guarded, Token, Shut, Asks, Has
<1> QED BY <1>1, <1>2, <1>3, <1>4 DEF Guarded

LEMMA TickContainsGuarded ==
  ASSUME Types, Guarded, NEW p \in Procs, TickContains(p)
  PROVE  Guarded'
<1> USE SlotAssumption DEF TickContains, job, files, workers, counters, history, Types,
    FileTypes, TickTypes, WorkerTypes, HistoryTypes
<1>1. Injective'
  BY DEF Guarded, Injective
<1>2. ASSUME NEW s \in Slots \ reopened' PROVE Token(s)'
  <2>1. Token(s)
    BY DEF Guarded
  <2> QED BY <2>1 DEF Token, Asks, Has, InQueue
<1>3. ASSUME NEW s \in succeeded' \ reopened' PROVE Shut(s)'
  <2>1. s \in Slots /\ Token(s)
    BY DEF Guarded
  <2>2. s \in succeeded => Shut(s)
    BY DEF Guarded
  <2> QED BY <2>1, <2>2 DEF Token, Asks, Has, InQueue, Shut
<1>4. (again \subseteq reopened)'
  BY DEF Guarded, Token, Shut, Asks, Has
<1> QED BY <1>1, <1>2, <1>3, <1>4 DEF Guarded

LEMMA TickClaimGuarded == ASSUME Types, Guarded, NEW p \in Procs, TickClaim(p) PROVE Guarded'
<1>1. /\ UNCHANGED <<lastRun, queue, at, wstep, work, succeeded, again, reopened>>
      /\ \A q \in Procs \ {p} : step'[q] = step[q]
      /\ \A s \in Slots \ {at[p]} : claim'[s] = claim[s]
  BY DEF TickClaim, workers, history, Types, FileTypes, TickTypes
<1>2. \/ claim'[at[p]] = claim[at[p]] /\ step'[p] = "idle"
      \/ claim[at[p]] \notin Procs /\ claim'[at[p]] = p /\ step'[p] = "recheck"
  BY DEF TickClaim, Types, FileTypes, TickTypes
<1>3. ASSUME NEW s \in Slots, s = at[p]
      PROVE  /\ InQueue(s)' <=> InQueue(s)
             /\ \A w \in Workers : (Has(w, s)' <=> Has(w, s)) /\ wstep'[w] = wstep[w]
             /\ \A q \in Procs \ {p} : (Asks(q, s)' <=> Asks(q, s)) /\ step'[q] = step[q]
  BY <1>1 DEF InQueue, Has, Asks
<1>4. ASSUME NEW s \in Slots \ reopened, s = at[p] PROVE Token(s)'
  <2>1. Token(s)
    BY DEF Guarded
  <2>2. CASE claim'[s] = claim[s] /\ step'[p] = "idle"
    BY <1>1, <1>3, <1>4, <2>1, <2>2 DEF Token, Asks
  <2>3. CASE claim[s] \notin Procs /\ claim'[s] = p /\ step'[p] = "recheck"
    <3>1. ~InQueue(s) /\ (\A w \in Workers : ~Has(w, s)) /\ \A q \in Procs : ~Asks(q, s)
      BY <2>1, <2>3 DEF Token
    <3> QED BY <1>1, <1>3, <1>4, <2>3, <3>1 DEF Token
  <2> QED BY <1>2, <1>4, <2>2, <2>3
<1>5. ASSUME NEW s \in succeeded \ reopened, s = at[p] PROVE Shut(s)'
  <2>1. s \in Slots /\ Shut(s) /\ Token(s)
    BY DEF Guarded, Types, HistoryTypes
  <2>2. CASE claim'[s] = claim[s] /\ step'[p] = "idle"
    BY <1>1, <1>3, <1>5, <2>1, <2>2 DEF Shut, Asks
  <2>3. CASE claim[s] \notin Procs /\ claim'[s] = p /\ step'[p] = "recheck"
    <3>1. lastRun = s /\ \A w \in Workers : ~Has(w, s)
      BY <2>1, <2>3 DEF Shut, Token
    <3> QED BY <1>1, <1>3, <1>5, <2>1, <2>3, <3>1 DEF Shut
  <2> QED BY <1>2, <1>5, <2>2, <2>3
<1> QED BY <1>1, <1>4, <1>5, OwnSlotGuarded

LEMMA TickRecheckGuarded == ASSUME Types, Guarded, NEW p \in Procs, TickRecheck(p) PROVE Guarded'
<1>1. /\ UNCHANGED <<lastRun, queue, at, wstep, work, succeeded, again, reopened>>
      /\ \A q \in Procs \ {p} : step'[q] = step[q]
      /\ \A s \in Slots \ {at[p]} : claim'[s] = claim[s]
  BY DEF TickRecheck, ReleaseClaim, workers, history, Types, FileTypes, TickTypes
<1>2. /\ Asks(p, at[p]) /\ step[p] = "recheck"
      /\ \/ lastRun = at[p] /\ claim'[at[p]] = None /\ step'[p] = "idle"
         \/ lastRun # at[p] /\ claim'[at[p]] = claim[at[p]] /\ step'[p] = "begin"
  BY DEF TickRecheck, ReleaseClaim, Asks, Types, FileTypes, TickTypes
<1>3. ASSUME NEW s \in Slots, s = at[p]
      PROVE  /\ InQueue(s)' <=> InQueue(s)
             /\ \A w \in Workers : (Has(w, s)' <=> Has(w, s)) /\ wstep'[w] = wstep[w]
             /\ \A q \in Procs \ {p} : (Asks(q, s)' <=> Asks(q, s)) /\ step'[q] = step[q]
  BY <1>1 DEF InQueue, Has, Asks
<1>4. ASSUME NEW s \in Slots \ reopened, s = at[p] PROVE Token(s)'
  <2>1. /\ claim[s] = p /\ ~InQueue(s)
        /\ \A w \in Workers : ~Has(w, s)
        /\ \A q \in Procs \ {p} : ~Asks(q, s)
    BY <1>2, <1>4 DEF Guarded, Token
  <2>2. step'[p] = "idle" => ~Asks(p, s)'
    BY DEF Asks
  <2> QED BY <1>1, <1>2, <1>3, <1>4, <2>1, <2>2 DEF Token
<1>5. ASSUME NEW s \in succeeded \ reopened, s = at[p] PROVE Shut(s)'
  <2>1. s \in Slots /\ Shut(s)
    BY DEF Guarded, Types, HistoryTypes
  <2>2. lastRun = s /\ step'[p] = "idle"
    BY <1>2, <1>5, <2>1 DEF Shut
  <2>3. ~Asks(p, s)'
    BY <2>2 DEF Asks
  <2> QED BY <1>1, <1>3, <1>5, <2>1, <2>2, <2>3 DEF Shut
<1> QED BY <1>1, <1>4, <1>5, OwnSlotGuarded

LEMMA TickBeginGuarded == ASSUME Types, Guarded, NEW p \in Procs, TickBegin(p) PROVE Guarded'
<1>1. /\ UNCHANGED <<lastRun, queue, at, wstep, work, succeeded, again, reopened>>
      /\ \A q \in Procs \ {p} : step'[q] = step[q]
      /\ \A s \in Slots \ {at[p]} : claim'[s] = claim[s]
  BY DEF TickBegin, ReleaseClaim, workers, history, Types, FileTypes, TickTypes
<1>2. /\ Asks(p, at[p]) /\ step[p] = "begin"
      /\ \/ claim'[at[p]] = None /\ step'[p] = "idle"
         \/ claim'[at[p]] = claim[at[p]] /\ step'[p] = "submit"
  BY DEF TickBegin, ReleaseClaim, Asks, Types, FileTypes, TickTypes
<1>3. ASSUME NEW s \in Slots, s = at[p]
      PROVE  /\ InQueue(s)' <=> InQueue(s)
             /\ \A w \in Workers : (Has(w, s)' <=> Has(w, s)) /\ wstep'[w] = wstep[w]
             /\ \A q \in Procs \ {p} : (Asks(q, s)' <=> Asks(q, s)) /\ step'[q] = step[q]
  BY <1>1 DEF InQueue, Has, Asks
<1>4. ASSUME NEW s \in Slots \ reopened, s = at[p] PROVE Token(s)'
  <2>1. /\ claim[s] = p /\ ~InQueue(s)
        /\ \A w \in Workers : ~Has(w, s)
        /\ \A q \in Procs \ {p} : ~Asks(q, s)
    BY <1>2, <1>4 DEF Guarded, Token
  <2>2. step'[p] = "idle" => ~Asks(p, s)'
    BY DEF Asks
  <2> QED BY <1>1, <1>2, <1>3, <1>4, <2>1, <2>2 DEF Token
<1>5. ASSUME NEW s \in succeeded \ reopened, s = at[p] PROVE Shut(s)'
  <2>1. s \in Slots /\ Shut(s)
    BY DEF Guarded, Types, HistoryTypes
  <2> QED BY <1>2, <1>5, <2>1 DEF Shut
<1> QED BY <1>1, <1>4, <1>5, OwnSlotGuarded

LEMMA TickSubmitGuarded == ASSUME Types, Guarded, NEW p \in Procs, TickSubmit(p) PROVE Guarded'
<1>1. /\ UNCHANGED <<lastRun, queue, at, succeeded, again, reopened>>
      /\ \A s \in Slots \ {at[p]} : claim'[s] = claim[s]
      /\ at[p] \in Slots /\ Asks(p, at[p]) /\ step[p] = "submit"
      /\ \A q \in Procs \ {p} : step'[q] = step[q]
  BY DEF TickSubmit, SlotGivenUp, ReleaseClaim, Asks, job, history, Types, TickTypes, FileTypes
<1>2. \/ /\ \E w \in Workers : Free(w, p) /\ StartWorker(w, at[p], FALSE)
         /\ UNCHANGED claim
         /\ step'[p] = "idle"
      \/ /\ UNCHANGED workers
         /\ claim'[at[p]] = None
         /\ step'[p] \in {"idle", "abort"}
      \/ /\ UNCHANGED workers
         /\ UNCHANGED claim
         /\ step'[p] = "enqueue"
  BY <1>1 DEF TickSubmit, SlotGivenUp, ReleaseClaim, Types, TickTypes, FileTypes
<1>3. ASSUME NEW s \in Slots, s # at[p]
      PROVE  /\ InQueue(s)' <=> InQueue(s)
             /\ \A q \in Procs : Asks(q, s)' <=> Asks(q, s)
             /\ \A w \in Workers : Has(w, s)' <=> Has(w, s)
             /\ \A w \in Workers : Has(w, s) => wstep'[w] = wstep[w]
             /\ \A q \in Procs : Asks(q, s) => step'[q] = step[q]
  <2>1. (InQueue(s)' <=> InQueue(s)) /\ \A q \in Procs : Asks(q, s)' <=> Asks(q, s)
    BY <1>1, <1>3 DEF InQueue, Asks
  <2>2. \A w \in Workers : (Has(w, s)' <=> Has(w, s)) /\ (Has(w, s) => wstep'[w] = wstep[w])
    BY <1>2, <1>3 DEF Has, workers, StartWorker, Free, Types, WorkerTypes
  <2> QED BY <2>1, <2>2, <1>1, <1>3 DEF Asks
<1>4. ASSUME NEW s \in Slots \ reopened' PROVE Token(s)'
  <2>1. Token(s)
    BY <1>1 DEF Guarded
  <2>2. CASE s # at[p]
    BY <1>1, <1>3, <2>1, <2>2 DEF Token
  <2>3. CASE s = at[p]
    <3>1. /\ claim[s] = p /\ ~InQueue(s)
          /\ \A w \in Workers : ~Has(w, s)
          /\ \A q \in Procs : Asks(q, s) => q = p
      BY <1>1, <2>1, <2>3 DEF Token
    <3>2. ~InQueue(s)' /\ \A q \in Procs : Asks(q, s)' => q = p
      BY <1>1, <3>1 DEF InQueue, Asks
    <3>3. ASSUME NEW w \in Workers, Free(w, p), StartWorker(w, s, FALSE), claim' = claim,
              step'[p] = "idle"
          PROVE  Token(s)'
      <4>1. \A v \in Workers : Has(v, s)' => v = w
        BY <3>1, <3>3 DEF Has, StartWorker, Types, WorkerTypes
      <4>2. \A q \in Procs : ~Asks(q, s)'
        BY <3>2, <3>3 DEF Asks
      <4> QED BY <3>1, <3>2, <3>3, <4>1, <4>2 DEF Token
    <3>4. CASE UNCHANGED workers /\ step'[p] \in {"idle", "abort"}
      BY <3>1, <3>2, <3>4 DEF Token, Has, Asks, workers
    <3>5. CASE UNCHANGED workers /\ UNCHANGED claim
      BY <3>1, <3>2, <3>5 DEF Token, Has, workers
    <3> QED BY <1>2, <2>3, <3>3, <3>4, <3>5
  <2> QED BY <2>2, <2>3
<1>5. ASSUME NEW s \in succeeded' \ reopened' PROVE Shut(s)'
  <2>1. Shut(s) /\ s \in Slots
    BY <1>1 DEF Guarded, Types, HistoryTypes
  <2>2. s # at[p]
    BY <1>1, <2>1 DEF Shut
  <2> QED BY <1>1, <1>3, <2>1, <2>2 DEF Shut
<1> QED BY <1>1, <1>4, <1>5 DEF Guarded, Injective

LEMMA TickAbortGuarded == ASSUME Types, Guarded, NEW p \in Procs, TickAbort(p) PROVE Guarded'
<1> USE SlotAssumption DEF TickAbort, SlotGivenUp, ReleaseClaim, EndRun, job, workers, counters,
    Types, FileTypes, TickTypes, WorkerTypes, HistoryTypes
<1>1. Injective'
  BY DEF Guarded, Injective
<1>2. ASSUME NEW s \in Slots \ reopened' PROVE Token(s)'
  <2>1. Token(s)
    BY DEF Guarded
  <2> QED BY <2>1 DEF Token, Asks, Has, InQueue
<1>3. ASSUME NEW s \in succeeded' \ reopened' PROVE Shut(s)'
  <2>1. s \in Slots /\ Token(s)
    BY DEF Guarded
  <2>2. s \in succeeded => Shut(s)
    BY DEF Guarded
  <2> QED BY <2>1, <2>2 DEF Token, Asks, Has, InQueue, Shut
<1>4. (again \subseteq reopened)'
  BY DEF Guarded, Token, Shut, Asks, Has
<1> QED BY <1>1, <1>2, <1>3, <1>4 DEF Guarded

LEMMA WorkerBeginGuarded == ASSUME Types, Guarded, NEW w \in Workers, WorkerBegin(w) PROVE Guarded'
<1>1. UNCHANGED <<claim, lastRun, queue, step, at, succeeded, again, reopened>>
  BY DEF WorkerBegin, files, ticks, history
<1>2. ASSUME NEW s \in Slots, NEW v \in Workers, Has(v, s)'
      PROVE  Has(v, s) /\ (wstep'[v] = wstep[v] \/ wstep[v] \notin {"ok", "unclaim"})
  BY <1>2 DEF WorkerBegin, Has, Types, WorkerTypes
<1> QED BY <1>1, <1>2, SameGuarded

LEMMA WorkerRunsGuarded == ASSUME Types, Guarded, NEW w \in Workers, WorkerRuns(w) PROVE Guarded'
<1> USE SlotAssumption DEF WorkerRuns, job, ticks, counters, Types, FileTypes, TickTypes,
    WorkerTypes, HistoryTypes
<1>1. Injective'
  BY DEF Guarded, Injective
<1>2. ASSUME NEW s \in Slots \ reopened' PROVE Token(s)'
  <2>1. Token(s)
    BY DEF Guarded
  <2> QED BY <2>1, SMTT(30) DEF Token, Asks, Has, InQueue
<1>3. ASSUME NEW s \in succeeded' \ reopened' PROVE Shut(s)'
  <2>1. s \in Slots /\ Token(s)
    <3>1. work[w] \in Slots /\ succeeded \in SUBSET Slots
      BY DEF HistoryTypes
    <3>2. s \in succeeded \cup {work[w]}
      OBVIOUS
    <3> QED BY <3>1, <3>2 DEF Guarded
  <2>2. s \in succeeded => Shut(s)
    BY DEF Guarded
  <2>3. CASE s = work[w]
    <3>1. /\ Has(w, s) /\ claim[s] \in Procs /\ ~InQueue(s)
          /\ \A p \in Procs : ~Asks(p, s)
          /\ \A v \in Workers : Has(v, s) => v = w
      BY <2>1, <2>3 DEF Token, Has
    <3>2. s \notin succeeded
      BY <2>2, <3>1 DEF Shut
    <3>3. wstep' = [wstep EXCEPT ![w] = "ok"]
      BY <3>2, <2>3
    <3> QED BY <3>1, <3>3 DEF Asks, Has, InQueue, Shut
  <2>4. CASE s # work[w]
    <3>1. s \in succeeded
      BY <2>4
    <3> QED BY ZenonT(60), <2>2, <2>4, <3>1 DEF Asks, Has, InQueue, Shut
  <2> QED BY <2>3, <2>4
<1>4. (again \subseteq reopened)'
  BY DEF Guarded, Token, Shut, Asks, Has
<1> QED BY <1>1, <1>2, <1>3, <1>4 DEF Guarded

LEMMA RecordSuccessGuarded ==
  ASSUME Types, Guarded, NEW w \in Workers, RecordSuccess(w)
  PROVE  Guarded'
<1> USE SlotAssumption DEF RecordSuccess, job, ticks, counters, Types, FileTypes, TickTypes,
    WorkerTypes, HistoryTypes
<1>1. Injective'
  BY DEF Guarded, Injective
<1>2. ASSUME NEW s \in Slots \ reopened' PROVE Token(s)'
  <2>1. Token(s)
    BY DEF Guarded
  <2> QED BY <2>1 DEF Token, Asks, Has, InQueue
<1>3. ASSUME NEW s \in succeeded' \ reopened' PROVE Shut(s)'
  <2>1. s \in Slots /\ Token(s)
    BY DEF Guarded
  <2>2. s \in succeeded => Shut(s)
    BY DEF Guarded
  <2> QED BY <2>1, <2>2 DEF Token, Asks, Has, InQueue, Shut
<1>4. (again \subseteq reopened)'
  BY DEF Guarded, Token, Shut, Asks, Has
<1> QED BY <1>1, <1>2, <1>3, <1>4 DEF Guarded

LEMMA UnclaimGuarded == ASSUME Types, Guarded, NEW w \in Workers, Unclaim(w) PROVE Guarded'
<1> USE SlotAssumption DEF Unclaim, ReleaseClaim, job, ticks, counters, history, Types,
    FileTypes, TickTypes, WorkerTypes, HistoryTypes
<1>1. Injective'
  BY DEF Guarded, Injective
<1>2. ASSUME NEW s \in Slots \ reopened' PROVE Token(s)'
  <2>1. Token(s)
    BY DEF Guarded
  <2> QED BY <2>1 DEF Token, Asks, Has, InQueue
<1>3. ASSUME NEW s \in succeeded' \ reopened' PROVE Shut(s)'
  <2>1. s \in Slots /\ Token(s)
    BY DEF Guarded
  <2>2. s \in succeeded => Shut(s)
    BY DEF Guarded
  <2> QED BY <2>1, <2>2 DEF Token, Asks, Has, InQueue, Shut
<1>4. (again \subseteq reopened)'
  BY DEF Guarded, Token, Shut, Asks, Has
<1> QED BY <1>1, <1>2, <1>3, <1>4 DEF Guarded

LEMMA RecordFailureGuarded ==
  ASSUME Types, Guarded, NEW w \in Workers, RecordFailure(w)
  PROVE  Guarded'
<1> USE SlotAssumption DEF RecordFailure, ReleaseClaim, job, ticks, counters, Types, FileTypes,
    TickTypes, WorkerTypes, HistoryTypes
<1>1. Injective'
  BY DEF Guarded, Injective
<1>2. ASSUME NEW s \in Slots \ reopened' PROVE Token(s)'
  <2>1. Token(s)
    BY DEF Guarded
  <2> QED BY <2>1 DEF Token, Asks, Has, InQueue
<1>3. ASSUME NEW s \in succeeded' \ reopened' PROVE Shut(s)'
  <2>1. s \in Slots /\ Token(s)
    BY DEF Guarded
  <2>2. s \in succeeded => Shut(s)
    BY DEF Guarded
  <2> QED BY <2>1, <2>2 DEF Token, Asks, Has, InQueue, Shut
<1>4. (again \subseteq reopened)'
  BY DEF Guarded, Token, Shut, Asks, Has
<1> QED BY <1>1, <1>2, <1>3, <1>4 DEF Guarded

LEMMA WorkerEndsGuarded == ASSUME Types, Guarded, NEW w \in Workers, WorkerEnds(w) PROVE Guarded'
<1> USE SlotAssumption DEF WorkerEnds, EndRun, job, ticks, counters, history, Types, FileTypes,
    TickTypes, WorkerTypes, HistoryTypes
<1>1. Injective'
  BY DEF Guarded, Injective
<1>2. ASSUME NEW s \in Slots \ reopened' PROVE Token(s)'
  <2>1. Token(s)
    BY DEF Guarded
  <2> QED BY <2>1 DEF Token, Asks, Has, InQueue
<1>3. ASSUME NEW s \in succeeded' \ reopened' PROVE Shut(s)'
  <2>1. s \in Slots /\ Token(s)
    BY DEF Guarded
  <2>2. s \in succeeded => Shut(s)
    BY DEF Guarded
  <2> QED BY <2>1, <2>2 DEF Token, Asks, Has, InQueue, Shut
<1>4. (again \subseteq reopened)'
  BY DEF Guarded, Token, Shut, Asks, Has
<1> QED BY <1>1, <1>2, <1>3, <1>4 DEF Guarded

LEMMA OtherEndsGuarded == ASSUME Types, Guarded, OtherEnds PROVE Guarded'
<1>1. UNCHANGED <<claim, lastRun, queue, step, at, succeeded, again, reopened>>
  BY DEF OtherEnds, files, ticks, history
<1>2. ASSUME NEW s \in Slots, NEW v \in Workers, Has(v, s)'
      PROVE  Has(v, s) /\ (wstep'[v] = wstep[v] \/ wstep[v] \notin {"ok", "unclaim"})
  BY <1>2 DEF OtherEnds, Has, Types, WorkerTypes
<1> QED BY <1>1, <1>2, SameGuarded

LEMMA SaveJobGuarded == ASSUME Types, Guarded, SaveJob PROVE Guarded'
<1> USE SlotAssumption DEF SaveJob, job, ticks, workers, Types, FileTypes, TickTypes,
    WorkerTypes, HistoryTypes
<1>1. Injective'
  BY DEF Guarded, Injective
<1>2. ASSUME NEW s \in Slots \ reopened' PROVE Token(s)'
  <2>1. Token(s)
    BY DEF Guarded
  <2> QED BY <2>1 DEF Token, Asks, Has, InQueue
<1>3. ASSUME NEW s \in succeeded' \ reopened' PROVE Shut(s)'
  <2>1. s \in Slots /\ Token(s)
    BY DEF Guarded
  <2>2. s \in succeeded => Shut(s)
    BY DEF Guarded
  <2> QED BY <2>1, <2>2 DEF Token, Asks, Has, InQueue, Shut
<1>4. (again \subseteq reopened)'
  BY DEF Guarded, Token, Shut, Asks, Has
<1> QED BY <1>1, <1>2, <1>3, <1>4 DEF Guarded

LEMMA ExitGuarded == ASSUME Types, Guarded, NEW p \in Procs, Exit(p) PROVE Guarded'
<1> USE SlotAssumption DEF Exit, job, Types, FileTypes, TickTypes, WorkerTypes, HistoryTypes
<1>1. Injective'
  BY DEF Guarded, Injective
<1>2. ASSUME NEW s \in Slots \ reopened' PROVE Token(s)'
  <2>1. Token(s)
    BY DEF Guarded
  <2> QED BY <2>1 DEF Token, Asks, Has, InQueue
<1>3. ASSUME NEW s \in succeeded' \ reopened' PROVE Shut(s)'
  <2>1. s \in Slots /\ Token(s)
    BY DEF Guarded
  <2>2. s \in succeeded => Shut(s)
    BY DEF Guarded
  <2> QED BY <2>1, <2>2 DEF Token, Asks, Has, InQueue, Shut
<1>4. (again \subseteq reopened)'
  BY DEF Guarded, Token, Shut, Asks, Has
<1> QED BY <1>1, <1>2, <1>3, <1>4 DEF Guarded

LEMMA TickEnqueueGuarded == ASSUME Types, Guarded, NEW p \in Procs, TickEnqueue(p) PROVE Guarded'
<1>1. /\ UNCHANGED <<lastRun, at, wstep, work, succeeded, again, reopened>>
      /\ at[p] \in Slots /\ Asks(p, at[p]) /\ step[p] = "enqueue"
      /\ step' = [step EXCEPT ![p] = "idle"]
      /\ \A s \in Slots \ {at[p]} : claim'[s] = claim[s]
  BY DEF TickEnqueue, SlotGivenUp, ReleaseClaim, Asks, workers, history, Types, TickTypes,
     FileTypes
<1>2. \/ InQueue(at[p]) /\ queue' = queue /\ claim'[at[p]] = None
      \/ ~InQueue(at[p]) /\ queue' = Append(queue, at[p]) /\ claim' = claim
  BY <1>1 DEF TickEnqueue, SlotGivenUp, ReleaseClaim, Types, FileTypes
<1>3. Injective' /\ \A s \in Slots : InQueue(s)' <=> InQueue(s) \/ s = at[p]
  <2>1. CASE InQueue(at[p]) /\ queue' = queue
    BY <2>1 DEF Guarded, Injective, InQueue
  <2>2. CASE ~InQueue(at[p]) /\ queue' = Append(queue, at[p])
    <3>1. /\ Len(queue) \in Nat /\ DOMAIN queue = 1..Len(queue)
          /\ DOMAIN queue' = 1..(Len(queue) + 1)
          /\ \A n \in 1..Len(queue) : queue'[n] = queue[n]
          /\ queue'[Len(queue) + 1] = at[p]
      BY <1>1, <2>2 DEF Types, FileTypes
    <3>2. \A s \in Slots : InQueue(s)' <=> InQueue(s) \/ s = at[p]
      BY <3>1 DEF InQueue
    <3>3. Injective'
      BY <2>2, <3>1 DEF Guarded, Injective, InQueue
    <3> QED BY <3>2, <3>3
  <2> QED BY <1>2, <2>1, <2>2
<1>4. ASSUME NEW s \in Slots, s # at[p]
      PROVE  /\ \A q \in Procs : Asks(q, s)' <=> Asks(q, s)
             /\ \A q \in Procs : Asks(q, s) => step'[q] = step[q]
             /\ \A w \in Workers : (Has(w, s)' <=> Has(w, s)) /\ wstep'[w] = wstep[w]
  BY <1>1, <1>4 DEF Asks, Has, Types, TickTypes
<1>5. ASSUME NEW s \in Slots \ reopened' PROVE Token(s)'
  <2>1. Token(s)
    BY <1>1 DEF Guarded
  <2>2. CASE s # at[p]
    BY <1>1, <1>3, <1>4, <2>1, <2>2 DEF Token
  <2>3. CASE s = at[p]
    <3>1. claim[s] = p /\ ~InQueue(s) /\ \A w \in Workers : ~Has(w, s)
      BY <1>1, <2>1, <2>3 DEF Token
    <3>2. claim'[s] = p
      BY <1>2, <2>3, <3>1
    <3>3. (\A w \in Workers : ~Has(w, s)') /\ \A q \in Procs : ~Asks(q, s)'
      BY <1>1, <2>1, <2>3, <3>1 DEF Has, Asks, Token, Types, TickTypes
    <3> QED BY <3>2, <3>3 DEF Token
  <2> QED BY <2>2, <2>3
<1>6. ASSUME NEW s \in succeeded' \ reopened' PROVE Shut(s)'
  <2>1. Shut(s) /\ s \in Slots
    BY <1>1 DEF Guarded, Types, HistoryTypes
  <2>2. s # at[p]
    BY <1>1, <2>1 DEF Shut
  <2> QED BY <1>1, <1>3, <1>4, <2>1, <2>2 DEF Shut
<1> QED BY <1>1, <1>3, <1>5, <1>6 DEF Guarded

\* What a drain does with the head, in a tick or in a worker.
LEMMA DrainFailsGuarded ==
  ASSUME Types, Guarded, NEW p \in Procs, DrainFails(p),
         UNCHANGED <<lastRun, succeeded, again>>,
         \A s \in Slots, q \in Procs :
           (Asks(q, s)' <=> Asks(q, s)) /\ (Asks(q, s) => step'[q] = step[q]),
         \A s \in Slots, v \in Workers :
           (Has(v, s)' <=> Has(v, s)) /\ (Has(v, s) => wstep'[v] = wstep[v])
  PROVE  Guarded'
<1>1. /\ Injective' /\ Head(Items) \in Slots /\ reopened \subseteq reopened'
      /\ \A s \in Slots \ reopened' :
           /\ InQueue(s)' <=> InQueue(s) /\ s # Head(Items)
           /\ s = Head(Items) => InQueue(s)
  BY TakeHeadStep DEF DrainFails, Guarded
<1>2. \A s \in Slots : s # Head(Items) => claim'[s] = claim[s]
  BY <1>1 DEF DrainFails, ReleaseClaim, Types, FileTypes
<1>3. ASSUME NEW s \in Slots \ reopened' PROVE Token(s)'
  <2>1. Token(s)
    BY <1>1 DEF Guarded
  <2>2. CASE s # Head(Items)
    BY <1>1, <1>2, <2>1, <2>2 DEF Token
  <2>3. CASE s = Head(Items)
    BY <1>1, <2>1, <2>3 DEF Token
  <2> QED BY <2>2, <2>3
<1>4. ASSUME NEW s \in succeeded' \ reopened' PROVE Shut(s)'
  <2>1. Shut(s) /\ s \in Slots /\ s \notin reopened'
    BY <1>1 DEF Guarded, Types, HistoryTypes
  <2>2. s # Head(Items)
    BY <1>1, <2>1 DEF Shut
  <2> QED BY <1>1, <1>2, <2>1, <2>2 DEF Shut
<1> QED BY <1>1, <1>3, <1>4 DEF Guarded

LEMMA DrainStartsGuarded ==
  ASSUME Types, Guarded, NEW w \in Workers, DrainStarts(w), wstep[w] \in {"free", "drain"},
         UNCHANGED <<lastRun, succeeded, again>>,
         \A s \in Slots, q \in Procs :
           (Asks(q, s)' <=> Asks(q, s)) /\ (Asks(q, s) => step'[q] = step[q])
  PROVE  Guarded'
<1>1. /\ Injective' /\ Head(Items) \in Slots /\ reopened \subseteq reopened'
      /\ \A s \in Slots \ reopened' :
           /\ InQueue(s)' <=> InQueue(s) /\ s # Head(Items)
           /\ s = Head(Items) => InQueue(s)
  BY TakeHeadStep DEF DrainStarts, Guarded
<1>2. /\ claim' = claim
      /\ wstep' = [wstep EXCEPT ![w] = "begin"]
      /\ work' = [work EXCEPT ![w] = Head(Items)]
  BY DEF DrainStarts, StartWorker
<1>3. ASSUME NEW s \in Slots, s # Head(Items), NEW v \in Workers
      PROVE  (Has(v, s)' <=> Has(v, s)) /\ (Has(v, s) => wstep'[v] = wstep[v])
  BY <1>2, <1>3 DEF Has, Types, WorkerTypes
<1>4. ASSUME NEW s \in Slots \ reopened' PROVE Token(s)'
  <2>1. Token(s)
    BY <1>1 DEF Guarded
  <2>2. CASE s # Head(Items)
    BY <1>1, <1>2, <1>3, <2>1, <2>2 DEF Token
  <2>3. CASE s = Head(Items)
    <3>1. /\ claim[s] \in Procs
          /\ ~InQueue(s)'
          /\ \A q \in Procs : ~Asks(q, s)'
          /\ \A v \in Workers : ~Has(v, s)
      BY <1>1, <2>1, <2>3 DEF Token
    <3>2. \A v \in Workers : Has(v, s)' => v = w
      BY <1>2, <3>1 DEF Has, Types, WorkerTypes
    <3> QED BY <1>2, <3>1, <3>2 DEF Token
  <2> QED BY <2>2, <2>3
<1>5. ASSUME NEW s \in succeeded' \ reopened' PROVE Shut(s)'
  <2>1. Shut(s) /\ s \in Slots /\ s \notin reopened'
    BY <1>1 DEF Guarded, Types, HistoryTypes
  <2>2. s # Head(Items)
    BY <1>1, <2>1 DEF Shut
  <2> QED BY <1>1, <1>2, <1>3, <2>1, <2>2 DEF Shut
<1> QED BY <1>1, <1>4, <1>5 DEF Guarded

LEMMA TickDrainGuarded == ASSUME Types, Guarded, NEW p \in Procs, TickDrain(p) PROVE Guarded'
<1>1. /\ UNCHANGED <<lastRun, succeeded, again, at>>
      /\ step[p] = "drain" /\ step' = [step EXCEPT ![p] = "look"]
  BY DEF TickDrain
<1>2. \A s \in Slots, q \in Procs :
        (Asks(q, s)' <=> Asks(q, s)) /\ (Asks(q, s) => step'[q] = step[q])
  BY <1>1 DEF Asks, Types, TickTypes
<1>3. CASE DrainNothing /\ UNCHANGED workers
  BY <1>1, <1>3, SameGuarded DEF DrainNothing, workers, Has, Types, TickTypes
<1>4. ASSUME NEW w \in Workers, Free(w, p), DrainStarts(w) PROVE Guarded'
  BY <1>1, <1>2, <1>4, DrainStartsGuarded DEF Free
<1>5. CASE DrainFails(p) /\ UNCHANGED workers
  <2>1. \A s \in Slots : \A w \in Workers : (Has(w, s)' <=> Has(w, s)) /\ wstep'[w] = wstep[w]
    BY <1>5 DEF Has, workers
  <2> QED BY <1>1, <1>2, <1>5, <2>1, DrainFailsGuarded
<1> QED BY <1>3, <1>4, <1>5 DEF TickDrain

LEMMA WorkerDrainsGuarded ==
  ASSUME Types, Guarded, NEW w \in Workers, WorkerDrains(w)
  PROVE  Guarded'
<1>1. UNCHANGED <<lastRun, succeeded, again, at, step>> /\ wstep[w] = "drain"
  BY DEF WorkerDrains, ticks
<1>2. \A s \in Slots, q \in Procs :
        (Asks(q, s)' <=> Asks(q, s)) /\ (Asks(q, s) => step'[q] = step[q])
  BY <1>1 DEF Asks
<1>3. ASSUME wstep' = [wstep EXCEPT ![w] = "free"], UNCHANGED work, NEW s \in Slots,
          NEW v \in Workers
      PROVE  (Has(v, s)' <=> Has(v, s)) /\ (Has(v, s) => wstep'[v] = wstep[v])
  BY <1>1, <1>3 DEF Has, Types, WorkerTypes
<1>4. CASE DrainNothing /\ WorkerGoto(w, "free") /\ UNCHANGED <<work, queued>>
  <2>1. /\ UNCHANGED <<claim, lastRun, queue, succeeded, again, reopened>>
        /\ Injective' /\ \A s \in Slots : InQueue(s)' <=> InQueue(s)
    BY <1>1, <1>4 DEF DrainNothing, Guarded, Injective, InQueue
  <2>2. ASSUME NEW s \in Slots \ reopened PROVE Token(s)'
    BY <1>2, <1>3, <1>4, <2>1 DEF Guarded, Token
  <2>3. ASSUME NEW s \in succeeded \ reopened PROVE Shut(s)'
    <3>1. s \in Slots /\ Shut(s)
      BY DEF Guarded, Types, HistoryTypes
    <3> QED BY <1>1, <1>2, <1>3, <1>4, <2>1, <3>1 DEF Shut
  <2> QED BY <2>1, <2>2, <2>3 DEF Guarded
<1>5. CASE DrainStarts(w)
  BY <1>1, <1>2, <1>5, DrainStartsGuarded
<1>6. CASE DrainFails(Owner[w]) /\ WorkerGoto(w, "free") /\ UNCHANGED <<work, queued>>
  BY <1>1, <1>2, <1>3, <1>6, SlotAssumption, DrainFailsGuarded
<1> QED BY <1>4, <1>5, <1>6 DEF WorkerDrains

LEMMA BootGuarded == ASSUME Types, Guarded, NEW p \in Procs, Boot(p) PROVE Guarded'
<1>1. UNCHANGED <<lastRun, at, step, wstep, work, succeeded, again>>
  BY DEF Boot, ticks, workers
<1>2. /\ Injective' /\ reopened \subseteq reopened'
      /\ \A s \in Slots \ reopened' : InQueue(s)' <=> InQueue(s)
  <2>1. CASE UNCHANGED <<queue, reopened>>
    BY <2>1 DEF Guarded, Injective, InQueue
  <2>2. CASE marker # None /\ queue' = Items /\ reopened' = reopened \cup {marker}
    <3>1. CASE InQueue(marker)
      BY <2>2, <3>1 DEF Items, Guarded, Injective, InQueue
    <3>2. CASE ~InQueue(marker)
      <4>1. /\ Len(queue) \in Nat /\ DOMAIN queue = 1..Len(queue)
            /\ DOMAIN queue' = 1..(Len(queue) + 1)
            /\ \A n \in 1..Len(queue) : queue'[n + 1] = queue[n]
            /\ queue'[1] = marker
        BY <2>2, <3>2 DEF Items, Types, FileTypes
      <4>2. \A n \in DOMAIN queue' : n # 1 => n - 1 \in DOMAIN queue /\ queue'[n] = queue[n - 1]
        BY <4>1
      <4>3. Injective'
        <5> SUFFICES ASSUME NEW m \in DOMAIN queue', NEW n \in DOMAIN queue',
        queue'[m] = queue'[n]
                     PROVE  m = n
          BY DEF Injective
        <5>1. CASE m # 1 /\ n # 1
          BY <4>1, <4>2, <5>1 DEF Guarded, Injective
        <5>2. CASE m = 1 \/ n = 1
          BY <4>1, <4>2, <3>2, <5>2 DEF InQueue
        <5> QED BY <5>1, <5>2
      <4>4. \A s \in Slots : InQueue(s)' <=> InQueue(s) \/ s = marker
        <5> SUFFICES ASSUME NEW s \in Slots PROVE InQueue(s)' <=> InQueue(s) \/ s = marker
          OBVIOUS
        <5>1. ASSUME NEW n \in DOMAIN queue, queue[n] = s PROVE InQueue(s)'
          <6>1. n + 1 \in DOMAIN queue' /\ queue'[n + 1] = s
            BY <4>1, <5>1
          <6> QED BY <6>1 DEF InQueue
        <5>2. s = marker => InQueue(s)'
          BY <4>1 DEF InQueue
        <5> QED BY <4>1, <4>2, <5>1, <5>2 DEF InQueue
      <4> QED BY <2>2, <4>3, <4>4
    <3> QED BY <3>1, <3>2
  <2> QED BY <2>1, <2>2 DEF Boot
<1>3. /\ \A s \in Slots : claim'[s] = claim[s] \/ (claim[s] = Gone /\ claim'[s] = None)
      /\ \A s \in Slots, q \in Procs : (Asks(q, s)' <=> Asks(q, s)) /\ step'[q] = step[q]
      /\ \A s \in Slots, w \in Workers : (Has(w, s)' <=> Has(w, s)) /\ wstep'[w] = wstep[w]
  <2>1. \A s \in Slots : claim'[s] = claim[s] \/ (claim[s] = Gone /\ claim'[s] = None)
    <3>1. claim' = [s \in Slots |-> IF claim[s] = Gone THEN None ELSE claim[s]]
      BY DEF Boot
    <3> QED BY <3>1
  <2> QED BY <1>1, <2>1 DEF Asks, Has
<1>4. ASSUME NEW s \in Slots \ reopened' PROVE Token(s)'
  <2>1. Token(s)
    BY <1>2 DEF Guarded
  <2> QED BY <1>2, <1>3, <2>1, SlotAssumption DEF Token
<1>5. ASSUME NEW s \in succeeded' \ reopened' PROVE Shut(s)'
  <2>1. Shut(s) /\ s \in Slots /\ s \notin reopened'
    BY <1>1, <1>2 DEF Guarded, Types, HistoryTypes
  <2> QED BY <1>1, <1>2, <1>3, <2>1, SlotAssumption DEF Shut
<1> QED BY <1>1, <1>2, <1>4, <1>5 DEF Guarded

LEMMA GuardedStep == ASSUME Types, Guarded, [Next]_vars PROVE Guarded'
<1>1. CASE NextSlot \/ OtherBegins \/ UNCHANGED vars
  <2>1. UNCHANGED <<claim, lastRun, queue, step, at, wstep, work, succeeded, again, reopened>>
    BY <1>1 DEF NextSlot, OtherBegins, vars, files, ticks, workers, history
  <2> QED BY <2>1, SameGuarded DEF Has
<1>2. ASSUME NEW p \in Procs, TickGoesOn(p) PROVE Guarded'
  BY <1>2, TickGuarded, TickDrainGuarded, TickLookGuarded, TickContainsGuarded, TickClaimGuarded,
     TickRecheckGuarded, TickBeginGuarded, TickSubmitGuarded, TickEnqueueGuarded, TickAbortGuarded
     DEF TickGoesOn
<1>3. ASSUME NEW w \in Workers, WorkerGoesOn(w) PROVE Guarded'
  BY <1>3, WorkerBeginGuarded, WorkerRunsGuarded, RecordSuccessGuarded, UnclaimGuarded,
     RecordFailureGuarded, WorkerEndsGuarded, WorkerDrainsGuarded DEF WorkerGoesOn
<1> QED
  BY <1>1, <1>2, <1>3, BootGuarded, ExitGuarded, OtherEndsGuarded, SaveJobGuarded DEF Next

LEMMA GuardedInvariance == Spec => []Guarded
<1>1. Init => Guarded
  BY SlotAssumption DEF Init, Guarded, Injective, Token, Asks, Has, InQueue
<1> QED BY <1>1, GuardedStep, TypeInvariance, PTL DEF Spec

\* SlotOnce: no slot is backed up twice unless it was reopened, over failures,
\* retries and both programs (schedule_claims.go, schedule_guard.go).
THEOREM SlotRunsOnce == Spec => []SlotOnce
<1>1. Guarded => SlotOnce
  BY DEF Guarded, SlotOnce
<1> QED BY <1>1, GuardedInvariance, PTL

\* OneRunPerSlot: a slot has one worker, and none while it is queued.
THEOREM OneRunAtATime == Spec => []OneRunPerSlot
<1>1. Guarded => OneRunPerSlot
  BY DEF Guarded, OneRunPerSlot, Token, Has, Running
<1> QED BY <1>1, GuardedInvariance, PTL

-----------------------------------------------------------------------------
\* Somebody is behind the claim of the slot.
Backed(s) ==
  \/ InQueue(s)
  \/ \E w \in Workers : Has(w, s)
  \/ \E p \in Procs : Asks(p, s)

\* No program has ended, and no launch failed without the configuration.
Clean == exits = 0 /\ (ConfigFails => fails = 0)

Justified == Clean => \A s \in Slots : claim[s] \in Procs => Backed(s)

LEMMA CleanStep == ASSUME Types, [Next]_vars, Clean' PROVE Clean
<1>1. /\ exits' = exits \/ exits' = exits + 1
      /\ fails' = fails \/ fails' = fails + 1
  BY ZenonT(60) DEF Next, TickGoesOn, WorkerGoesOn, NextSlot, Tick, TickDrain, TickLook, TickContains,
     TickClaim,
     TickRecheck, TickBegin, TickSubmit, TickEnqueue, TickAbort, WorkerBegin, WorkerRuns,
     RecordSuccess,
     Unclaim, RecordFailure, WorkerEnds, WorkerDrains, OtherBegins, OtherEnds, Boot, Exit,
     SaveJob,
     DrainNothing, DrainStarts, DrainFails, CountFailure, counters, vars
<1> QED BY <1>1 DEF Clean, Types, CountTypes

\* Who is behind a claim stays, hands the slot on, or releases the claim.
LEMMA TickBacks ==
  ASSUME Types, NEW p \in Procs, TickGoesOn(p), ~TickDrain(p), ~TickEnqueue(p), NEW s \in Slots,
         claim'[s] \in Procs,
         claim[s] \in Procs => Backed(s)
  PROVE  Backed(s)'
<1>a. ASSUME s # at[p], claim'[s] = claim[s], UNCHANGED <<queue, at>>,
             \A q \in Procs \ {p} : step'[q] = step[q],
             \A w \in Workers : Has(w, s) => Has(w, s)'
      PROVE  Backed(s)'
  BY <1>a DEF Backed, InQueue, Asks
<1>b. ASSUME s = at[p], UNCHANGED at, step'[p] \in {"begin", "submit", "enqueue"} PROVE Backed(s)'
  BY <1>b DEF Backed, Asks
<1>1. CASE Tick(p)
  BY <1>1, SlotAssumption DEF Tick, job, files, workers, counters, history, Types, FileTypes,
     TickTypes, WorkerTypes, Backed, Asks, Has, InQueue
<1>2. CASE TickLook(p)
  BY <1>2, SlotAssumption DEF TickLook, job, files, workers, counters, history, Types,
     FileTypes, TickTypes, WorkerTypes, Backed, Asks, Has, InQueue
<1>3. CASE TickContains(p)
  BY <1>3, SlotAssumption DEF TickContains, job, files, workers, counters, history, Types,
     FileTypes, TickTypes, WorkerTypes, Backed, Asks, Has, InQueue
<1>4. CASE TickClaim(p)
  BY <1>4, SlotAssumption, SMTT(30) DEF TickClaim, job, workers, counters, history, Types, FileTypes,
     TickTypes, WorkerTypes, Backed, Asks, Has, InQueue
<1>5. CASE TickRecheck(p)
  <2>1. UNCHANGED <<queue, at, workers>> /\ \A q \in Procs \ {p} : step'[q] = step[q]
    BY <1>5 DEF TickRecheck, Types, TickTypes
  <2>2. CASE s # at[p]
    <3>1. claim'[s] = claim[s]
      BY <1>5, <2>2 DEF TickRecheck, ReleaseClaim, Types, FileTypes
    <3> QED BY <1>a, <2>1, <2>2, <3>1 DEF Has, workers
  <2>3. CASE s = at[p]
    <3>1. step'[p] \in {"begin", "submit", "enqueue"}
      BY <1>5, <2>3, SlotAssumption DEF TickRecheck, ReleaseClaim, Types, FileTypes, TickTypes
    <3> QED BY <1>b, <2>1, <2>3, <3>1
  <2> QED BY <2>2, <2>3
<1>6. CASE TickBegin(p)
  <2>1. UNCHANGED <<queue, at, workers>> /\ \A q \in Procs \ {p} : step'[q] = step[q]
    BY <1>6 DEF TickBegin, Types, TickTypes
  <2>2. CASE s # at[p]
    <3>1. claim'[s] = claim[s]
      BY <1>6, <2>2 DEF TickBegin, ReleaseClaim, Types, FileTypes
    <3> QED BY <1>a, <2>1, <2>2, <3>1 DEF Has, workers
  <2>3. CASE s = at[p]
    <3>1. step'[p] \in {"begin", "submit", "enqueue"}
      BY <1>6, <2>3, SlotAssumption DEF TickBegin, ReleaseClaim, Types, FileTypes, TickTypes
    <3> QED BY <1>b, <2>1, <2>3, <3>1
  <2> QED BY <2>2, <2>3
<1>7. CASE TickSubmit(p)
  <2>1. UNCHANGED <<queue, at>> /\ \A q \in Procs \ {p} : step'[q] = step[q]
    BY <1>7 DEF TickSubmit, Types, TickTypes
  <2>2. CASE s # at[p]
    <3>1. claim'[s] = claim[s]
      BY <1>7, <2>2 DEF TickSubmit, SlotGivenUp, ReleaseClaim, Types, FileTypes
    <3>2. ASSUME NEW w \in Workers, Has(w, s) PROVE Has(w, s)'
      BY <1>7, <3>2 DEF TickSubmit, Has, workers, StartWorker, Free, Types, WorkerTypes
    <3> QED BY <1>a, <2>1, <2>2, <3>1, <3>2
  <2>3. CASE s = at[p]
    <3>1. CASE ~SlotGivenUp(p)
      <4>1. ASSUME NEW w \in Workers, StartWorker(w, s, FALSE) PROVE Backed(s)'
        BY <4>1 DEF StartWorker, Backed, Has, Types, WorkerTypes
      <4>2. CASE Goto(p, "enqueue")
        BY <1>b, <2>1, <2>3, <4>2 DEF Types, TickTypes
      <4> QED BY <1>7, <2>3, <3>1, <4>1, <4>2 DEF TickSubmit
    <3>2. CASE SlotGivenUp(p)
      BY <2>3, <3>2, SlotAssumption DEF SlotGivenUp, ReleaseClaim, Types, FileTypes
    <3> QED BY <3>1, <3>2
  <2> QED BY <2>2, <2>3
<1>8. CASE TickAbort(p)
  BY <1>8, SlotAssumption DEF TickAbort, SlotGivenUp, ReleaseClaim, EndRun, job, workers,
     counters, Types, FileTypes, TickTypes, WorkerTypes, Backed, Asks, Has, InQueue
<1> QED BY <1>1, <1>2, <1>3, <1>4, <1>5, <1>6, <1>7, <1>8 DEF TickGoesOn

LEMMA WorkerBacks ==
  ASSUME Types, NEW w \in Workers, WorkerGoesOn(w), ~WorkerDrains(w), NEW s \in Slots,
         claim'[s] \in Procs,
         claim[s] \in Procs => Backed(s)
  PROVE  Backed(s)'
<1>1. CASE WorkerBegin(w)
  BY <1>1, SlotAssumption DEF WorkerBegin, job, ticks, counters, history, Types, FileTypes,
     TickTypes, WorkerTypes, Backed, Asks, Has, InQueue
<1>2. CASE WorkerRuns(w)
  BY <1>2, SlotAssumption DEF WorkerRuns, job, ticks, counters, Types, FileTypes, TickTypes,
     WorkerTypes, Backed, Asks, Has, InQueue
<1>3. CASE RecordSuccess(w)
  BY <1>3, SlotAssumption DEF RecordSuccess, job, ticks, counters, Types, FileTypes, TickTypes,
     WorkerTypes, Backed, Asks, Has, InQueue
<1>4. CASE Unclaim(w)
  BY <1>4, SlotAssumption DEF Unclaim, ReleaseClaim, job, ticks, counters, history, Types,
     FileTypes, TickTypes, WorkerTypes, Backed, Asks, Has, InQueue
<1>5. CASE RecordFailure(w)
  BY <1>5, SlotAssumption DEF RecordFailure, ReleaseClaim, job, ticks, counters, Types,
     FileTypes, TickTypes, WorkerTypes, Backed, Asks, Has, InQueue
<1>6. CASE WorkerEnds(w)
  BY <1>6, SlotAssumption DEF WorkerEnds, EndRun, job, ticks, counters, history, Types,
     FileTypes, TickTypes, WorkerTypes, Backed, Asks, Has, InQueue
<1> QED BY <1>1, <1>2, <1>3, <1>4, <1>5, <1>6 DEF WorkerGoesOn

LEMMA DrainBacks ==
  ASSUME Types, Injective, Clean', NEW s \in Slots, claim'[s] \in Procs,
         claim[s] \in Procs => Backed(s),
         \A q \in Procs : Asks(q, s)' <=> Asks(q, s),
         \/ DrainNothing /\ \A v \in Workers : Has(v, s)' <=> Has(v, s)
         \/ \E w \in Workers : wstep[w] \in {"free", "drain"} /\ DrainStarts(w)
         \/ \E p \in Procs : DrainFails(p) /\ \A v \in Workers : Has(v, s)' <=> Has(v, s)
  PROVE  Backed(s)'
<1>1. CASE DrainNothing /\ \A v \in Workers : Has(v, s)' <=> Has(v, s)
  BY <1>1 DEF DrainNothing, Backed, InQueue
<1>2. ASSUME NEW w \in Workers, wstep[w] \in {"free", "drain"}, DrainStarts(w) PROVE Backed(s)'
  <2>1. Backed(s)
    BY <1>2 DEF DrainStarts
  <2>2. InQueue(s) => InQueue(s)' \/ s = Head(Items)
    BY <1>2, TakeHeadStep DEF DrainStarts
  <2>3. s = Head(Items) => Has(w, s)'
    BY <1>2 DEF DrainStarts, StartWorker, Has, Types, WorkerTypes
  <2>4. \A v \in Workers : Has(v, s) => Has(v, s)'
    BY <1>2 DEF DrainStarts, StartWorker, Has, Types, WorkerTypes
  <2> QED BY <2>1, <2>2, <2>3, <2>4 DEF Backed
<1>3. ASSUME NEW p \in Procs, DrainFails(p), \A v \in Workers : Has(v, s)' <=> Has(v, s)
      PROVE  Backed(s)'
  <2>1. InQueue(s) => InQueue(s)' \/ s = Head(Items)
    BY <1>3, TakeHeadStep DEF DrainFails
  <2>2. ~ConfigFails
    BY <1>3, SlotAssumption DEF Clean, DrainFails, CountFailure, Types, CountTypes
  <2>3. claim' = [claim EXCEPT ![Head(Items)] = None]
    BY <1>3, <2>2 DEF DrainFails, ReleaseClaim
  <2>4. s # Head(Items) /\ claim'[s] = claim[s]
    BY <2>3, SlotAssumption DEF Types, FileTypes
  <2> QED BY <1>3, <2>1, <2>4 DEF Backed
<1> QED BY <1>1, <1>2, <1>3

LEMMA QueueBacks ==
  ASSUME Types, Injective, Clean', NEW s \in Slots, claim'[s] \in Procs,
         claim[s] \in Procs => Backed(s),
         \/ \E p \in Procs : TickDrain(p) \/ TickEnqueue(p) \/ Boot(p)
         \/ \E w \in Workers : WorkerDrains(w)
  PROVE  Backed(s)'
<1>1. ASSUME NEW p \in Procs, TickDrain(p) PROVE Backed(s)'
  <2>1. \A q \in Procs : Asks(q, s)' <=> Asks(q, s)
    BY <1>1 DEF TickDrain, Asks, Types, TickTypes
  <2>2. UNCHANGED workers => \A v \in Workers : Has(v, s)' <=> Has(v, s)
    BY DEF workers, Has
  <2> QED BY <1>1, <2>1, <2>2, DrainBacks DEF TickDrain, Free
<1>2. ASSUME NEW p \in Procs, TickEnqueue(p) PROVE Backed(s)'
  <2>1. /\ UNCHANGED <<at, wstep, work>> /\ at[p] \in Slots
        /\ \A q \in Procs \ {p} : step'[q] = step[q]
    BY <1>2 DEF TickEnqueue, workers, Types, TickTypes
  <2>2. CASE InQueue(at[p]) /\ queue' = queue /\ ReleaseClaim(at[p])
    BY <2>1, <2>2, SlotAssumption DEF ReleaseClaim, Backed, Asks, Has, InQueue, Types, FileTypes
  <2>3. CASE ~InQueue(at[p]) /\ queue' = Append(queue, at[p]) /\ UNCHANGED claim
    <3>1. /\ Len(queue) \in Nat /\ DOMAIN queue = 1..Len(queue)
          /\ DOMAIN queue' = 1..(Len(queue) + 1)
          /\ \A n \in 1..Len(queue) : queue'[n] = queue[n]
          /\ queue'[Len(queue) + 1] = at[p]
      BY <2>1, <2>3 DEF Types, FileTypes
    <3>2. InQueue(s) \/ s = at[p] => InQueue(s)'
      BY <3>1 DEF InQueue
    <3>3. s # at[p] => \A q \in Procs : Asks(q, s) => Asks(q, s)'
      BY <2>1 DEF Asks
    <3> QED BY <2>1, <2>3, <3>2, <3>3 DEF Backed, Has
  <2> QED BY <1>2, <2>2, <2>3 DEF TickEnqueue, SlotGivenUp
<1>3. ASSUME NEW p \in Procs, Boot(p) PROVE Backed(s)'
  <2>1. claim' = [t \in Slots |-> IF claim[t] = Gone THEN None ELSE claim[t]]
    BY <1>3 DEF Boot
  <2>2. Backed(s)
    BY <2>1, SlotAssumption
  <2>3. UNCHANGED <<at, step, wstep, work>>
    BY <1>3 DEF Boot, ticks, workers
  <2>4. InQueue(s) => InQueue(s)'
    <3>1. CASE queue' = queue
      BY <3>1 DEF InQueue
    <3>2. CASE marker # None /\ ~InQueue(marker) /\ queue' = <<marker>> \o queue
      <4>1. \A n \in DOMAIN queue : n + 1 \in DOMAIN queue' /\ queue'[n + 1] = queue[n]
        BY <3>2 DEF Types, FileTypes
      <4> QED BY <4>1 DEF InQueue
    <3> QED BY <1>3, <3>1, <3>2 DEF Boot, Items
  <2> QED BY <2>2, <2>3, <2>4 DEF Backed, Asks, Has
<1>4. ASSUME NEW w \in Workers, WorkerDrains(w) PROVE Backed(s)'
  <2>1. \A q \in Procs : Asks(q, s)' <=> Asks(q, s)
    BY <1>4 DEF WorkerDrains, ticks, Asks
  <2>2. WorkerGoto(w, "free") /\ UNCHANGED work => \A v \in Workers : Has(v, s)' <=> Has(v, s)
    BY <1>4 DEF WorkerDrains, Has, Types, WorkerTypes
  <2> QED BY <1>4, <2>1, <2>2, DrainBacks, SlotAssumption DEF WorkerDrains
<1> QED BY <1>1, <1>2, <1>3, <1>4

LEMMA JustifiedStep == ASSUME Types, Injective, Justified, [Next]_vars PROVE Justified'
<1> SUFFICES ASSUME Clean', NEW s \in Slots, claim'[s] \in Procs PROVE Backed(s)'
  BY DEF Justified
<1>1. claim[s] \in Procs => Backed(s)
  BY CleanStep DEF Justified
<1>2. CASE NextSlot \/ OtherBegins \/ UNCHANGED vars
  <2>1. UNCHANGED <<claim, queue, at, step, wstep, work>>
    BY <1>2 DEF NextSlot, OtherBegins, vars, files, ticks, workers
  <2> QED BY <1>1, <2>1 DEF Backed, InQueue, Asks, Has
<1>3. ASSUME NEW p \in Procs, TickGoesOn(p) PROVE Backed(s)'
  BY <1>1, <1>3, TickBacks, QueueBacks
<1>4. ASSUME NEW w \in Workers, WorkerGoesOn(w) PROVE Backed(s)'
  BY <1>1, <1>4, WorkerBacks, QueueBacks
<1>5. ASSUME NEW p \in Procs, Boot(p) PROVE Backed(s)'
  BY <1>1, <1>5, QueueBacks
<1>6. ASSUME NEW p \in Procs, Exit(p) PROVE Backed(s)'
  BY <1>6, SlotAssumption DEF Exit, Clean, Types, CountTypes
<1>7. CASE OtherEnds
  <2>1. UNCHANGED <<claim, queue, at, step, work>>
    BY <1>7 DEF OtherEnds, files, ticks
  <2>2. ASSUME NEW w \in Workers, Has(w, s) PROVE Has(w, s)'
    BY <1>7, <2>1, <2>2 DEF OtherEnds, Has, Types, WorkerTypes
  <2> QED BY <1>1, <2>1, <2>2 DEF Backed, InQueue, Asks
<1>8. CASE SaveJob
  BY <1>8, SlotAssumption DEF SaveJob
<1> QED BY <1>2, <1>3, <1>4, <1>5, <1>6, <1>7, <1>8 DEF Next

\* ClaimJustified: the claim of a program that runs has a tick, an item or a
\* worker behind it (launch.go, ReleaseLaunchFailure).
THEOREM ClaimsAreJustified == Spec => []ClaimJustified
<1>1. Init => Justified
  BY SlotAssumption DEF Init, Justified
<1>2. Types /\ Guarded /\ Justified /\ [Next]_vars => Justified'
  BY JustifiedStep DEF Guarded
<1>3. Types /\ Justified => ClaimJustified
  BY DEF Types, TickTypes, Justified, Clean, Backed, Asks, Has, ClaimJustified
<1> QED BY <1>1, <1>2, <1>3, TypeInvariance, GuardedInvariance, PTL DEF Spec

-----------------------------------------------------------------------------
(* Due times: numbers.                                                       *)

LEMMA DivMod ==
  ASSUME NEW t \in Int, NEW n \in Nat \ {0}
  PROVE  /\ t \div n \in Int /\ t % n \in 0..(n - 1)
         /\ t = n * (t \div n) + (t % n)
OBVIOUS

LEMMA MulLess ==
  ASSUME NEW a \in Int, NEW b \in Int, NEW n \in Nat \ {0}, a < b
  PROVE  n * a + n <= n * b /\ n * a \in Int /\ n * b \in Int
OBVIOUS

LEMMA DivModUnique ==
  ASSUME NEW q \in Int, NEW n \in Nat \ {0}, NEW r \in 0..(n - 1)
  PROVE  (n * q + r) \div n = q /\ (n * q + r) % n = r
<1> DEFINE t == n * q + r
<1>1. t \in Int
  OBVIOUS
<1>2. /\ t \div n \in Int /\ t % n \in 0..(n - 1)
      /\ t = n * (t \div n) + (t % n)
  BY <1>1, DivMod
<1>3. ~(q < t \div n)
  <2>1. ASSUME q < t \div n PROVE FALSE
    <3>1. n * q + n <= n * (t \div n)
      BY <1>2, <2>1, MulLess
    <3> QED
      BY <3>1, <1>2
  <2> QED
    BY <2>1
<1>4. ~(t \div n < q)
  <2>1. ASSUME t \div n < q PROVE FALSE
    <3>1. n * (t \div n) + n <= n * q
      BY <1>2, <2>1, MulLess
    <3> QED
      BY <3>1, <1>2
  <2> QED
    BY <2>1
<1> QED
  BY <1>2, <1>3, <1>4

\* A nonempty set of integers that has a lower bound has a least one.
LEMMA IntLeast ==
  ASSUME NEW T, T \subseteq Int, T # {}, NEW b \in Int, \A x \in T : b <= x
  PROVE  \E x \in T : \A y \in T : x <= y
<1> DEFINE R == {ss \in Nat \X Nat : ss[1] < ss[2]}
           D == {x - b : x \in T}
<1>1. IsWellFoundedOn(R, Nat)
  BY NatLessThanWellFounded DEF OpToRel
<1>2. \A x, y \in Nat : x < y => <<x, y>> \in R
  OBVIOUS
<1>0. \A x \in T : x - b \in Nat
  OBVIOUS
<1>3. D \subseteq Nat /\ D # {}
  BY <1>0
<1>4. PICK d \in D : \A e \in D : ~(<<e, d>> \in R)
  <2> HIDE DEF R, D
  <2> QED
    BY <1>1, <1>3, WFMin
<1>5. PICK x \in T : d = x - b
  OBVIOUS
<1>6. ASSUME NEW y \in T PROVE x <= y
  <2>1. y - b \in D /\ y - b \in Nat /\ x - b \in Nat
    BY <1>3, <1>5
  <2>2. ~(y - b < x - b)
    <3> HIDE DEF R, D
    <3> QED
      BY <1>2, <1>4, <1>5, <2>1
  <2>3. x \in Int /\ y \in Int
    OBVIOUS
  <2> QED
    BY <2>2, <2>3
<1> QED
  BY <1>6

\* A nonempty set of integers that has an upper bound has a greatest one.
LEMMA IntGreatest ==
  ASSUME NEW T, T \subseteq Int, T # {}, NEW b \in Int, \A x \in T : x <= b
  PROVE  \E x \in T : \A y \in T : y <= x
<1> DEFINE D == {0 - x : x \in T}
<1>0. \A x \in T : 0 - x \in Int /\ 0 - b <= 0 - x
  OBVIOUS
<1>1. D \subseteq Int /\ D # {} /\ \A x \in D : 0 - b <= x
  BY <1>0
<1>b. 0 - b \in Int
  OBVIOUS
<1>2. PICK d \in D : \A e \in D : d <= e
  <2> HIDE DEF D
  <2> QED
    BY <1>1, <1>b, IntLeast
<1>3. PICK x \in T : d = 0 - x
  OBVIOUS
<1>4. ASSUME NEW y \in T PROVE y <= x
  <2>1. 0 - x <= 0 - y
    BY <1>2, <1>3
  <2>2. x \in Int /\ y \in Int
    OBVIOUS
  <2> QED
    BY <2>1, <2>2
<1> QED
  BY <1>4

-----------------------------------------------------------------------------
(* Schedules as they are saved, and the clock. *)

Normal(s) ==
  /\ s.type \in {"", "daily", "weekly", "startup"}
  /\ s.times \subseteq 0..(DayLen - 1) /\ s.days \subseteq 1..7
  /\ s.mode \in {"weekly", "biweekly", "monthly", "never"}
  /\ s.mode # "never" => s.fullday \in 1..7
  /\ s.anchor \in Int
  /\ s.type = "weekly" => s.days # {}

DueInv ==
  /\ Normal(sched) /\ shift \in Int
  /\ tick \in Nat /\ Day(tick) \in Int
  /\ shift = 0 => Day(tick) \in 1..LastDay

LEMMA NormalizedIsNormal ==
  ASSUME DueTimesAssumption, NEW s \in Schedules
  PROVE  Normal(NormalizeSchedule(s))
<1> DEFINE n == NormalizeSchedule(s)
<1>1. s \in [type : {"", "daily", "weekly", "startup"}, times : SUBSET (0..(DayLen - 1)),
             days : SUBSET (1..7), mode : {"", "weekly", "biweekly", "monthly", "never"},
             fullday : 0..7, anchor : Nat \cup {-1}]
  BY DEF DueTimesAssumption
<1>2. /\ n.type = IF s.type = "" /\ s.times # {} THEN "daily" ELSE s.type
      /\ n.mode = IF s.mode = "" THEN "weekly" ELSE s.mode
      /\ n.fullday = IF s.fullday = 0 /\ s.mode # "never" THEN 7 ELSE s.fullday
      /\ n.days = IF s.type = "weekly" /\ s.days = {} THEN 1..5 ELSE s.days
      /\ n.times = s.times /\ n.anchor = s.anchor
  BY <1>1 DEF NormalizeSchedule
<1> HIDE DEF n
<1>3. /\ s.times \subseteq 0..(DayLen - 1) /\ s.days \subseteq 1..7
      /\ s.fullday \in 0..7 /\ s.anchor \in Int
  <2>1. s.times \in SUBSET (0..(DayLen - 1)) /\ s.days \in SUBSET (1..7)
    BY <1>1
  <2>2. s.fullday \in 0..7 /\ s.anchor \in Nat \cup {-1}
    BY <1>1
  <2> QED
    BY <2>1, <2>2
<1>4. /\ n.type \in {"", "daily", "weekly", "startup"}
      /\ n.mode \in {"weekly", "biweekly", "monthly", "never"}
  BY <1>1, <1>2
<1>5. n.days \subseteq 1..7 /\ (n.type = "weekly" => n.days # {})
  <2>1. 1..5 \subseteq 1..7 /\ 1..5 # {}
    OBVIOUS
  <2> QED
    BY <1>2, <1>3, <2>1
<1>6. n.mode # "never" => n.fullday \in 1..7
  <2>1. n.mode # "never" => s.mode # "never"
    BY <1>2
  <2>2. s.mode # "never" => n.fullday = IF s.fullday = 0 THEN 7 ELSE s.fullday
    BY <1>2
  <2>3. s.fullday \in 0..7
    BY <1>3
  <2> QED
    BY <2>1, <2>2, <2>3
<1> QED
  BY <1>2, <1>3, <1>4, <1>5, <1>6 DEF Normal, n

\* While the clock is not changed, an instant is its day and its minute.
LEMMA PlainClock ==
  ASSUME DueTimesAssumption, shift = 0, NEW d \in Int, NEW m \in 0..(DayLen - 1)
  PROVE  /\ Date(d, m) \in Int /\ Date(d, m) = DayLen * d + m
         /\ Wall(Date(d, m)) = Date(d, m)
         /\ Day(Date(d, m)) = d /\ Minute(Date(d, m)) = m
<1> DEFINE x == DayLen * d + m
<1>1. DayLen \in Nat \ {0} /\ ChangeAt \in Nat
  BY DEF DueTimesAssumption
<1>2. DayLen * d \in Int /\ d * DayLen = DayLen * d
  BY <1>1
<1>3. x \in Int /\ x \div DayLen = d /\ x % DayLen = m
  BY <1>1, <1>2, DivModUnique
<1>4. Date(d, m) = x
  BY <1>1, <1>2 DEF Date
<1> HIDE DEF x
<1>5. Wall(x) = x
  BY <1>1, <1>3 DEF Wall
<1>6. Date(d, m) \in Int /\ Wall(Date(d, m)) = Date(d, m)
      /\ Day(Date(d, m)) = d /\ Minute(Date(d, m)) = m
  BY <1>3, <1>4, <1>5 DEF Day, Minute
<1> QED
  BY <1>4, <1>6 DEF x

LEMMA PlainDay ==
  ASSUME DueTimesAssumption, shift = 0, NEW t \in Int
  PROVE  /\ Wall(t) = t /\ Day(t) \in Int /\ Minute(t) \in 0..(DayLen - 1)
         /\ t = DayLen * Day(t) + Minute(t)
<1>1. DayLen \in Nat \ {0} /\ ChangeAt \in Nat
  BY DEF DueTimesAssumption
<1>2. Wall(t) = t
  BY <1>1 DEF Wall
<1> QED
  BY <1>1, <1>2, DivMod DEF Day, Minute

LEMMA DueInvInit == ASSUME DueTimesAssumption, DueInit PROVE DueInv
<1>1. PICK s \in Schedules : sched = NormalizeSchedule(s)
  BY DEF DueInit
<1>2. DayLen \in Nat \ {0} /\ LastDay \in Nat \ {0} /\ shift \in Int /\ tick = DayLen /\ ChangeAt \in Nat
  BY DEF DueTimesAssumption, DueInit
<1>3. Wall(tick) \in Int
  BY <1>2 DEF Wall
<1>4. Day(tick) \in Int
  BY <1>2, <1>3, DivMod DEF Day
<1>5. ASSUME shift = 0 PROVE Day(tick) \in 1..LastDay
  <2>1. 0 \in 0..(DayLen - 1) /\ DayLen * 1 + 0 = DayLen
    BY <1>2
  <2>2. (DayLen * 1 + 0) \div DayLen = 1
    BY <1>2, <2>1, DivModUnique
  <2>3. Wall(tick) = DayLen
    BY <1>2, <1>5 DEF Wall
  <2>4. Day(tick) = 1
    BY <2>1, <2>2, <2>3 DEF Day
  <2> QED
    BY <1>2, <2>4
<1> QED
  BY <1>1, <1>2, <1>4, <1>5, NormalizedIsNormal DEF DueInv

LEMMA DueInvStep == ASSUME DueTimesAssumption, DueInv, [DueTick]_due PROVE DueInv'
<1>1. CASE DueTick
  <2>1. DayLen \in Nat \ {0} /\ LastDay \in Nat \ {0} /\ ChangeAt \in Nat
    BY DEF DueTimesAssumption
  <2>2. tick' = tick + 1 /\ sched' = sched /\ shift' = shift /\ Day(tick + 1) < LastDay
    BY <1>1 DEF DueTick
  <2>3. tick + 1 \in Nat /\ Wall(tick + 1) \in Int /\ shift \in Int
    BY <2>1 DEF DueInv, Wall
  <2>4. Day(tick)' = Day(tick + 1)
    BY <2>2 DEF Day, Wall
  <2>5. Day(tick + 1) \in Int
    BY <2>1, <2>3, DivMod DEF Day
  <2>6. ASSUME shift = 0 PROVE 1 <= Day(tick + 1)
    <3>1. /\ tick = DayLen * Day(tick) + Minute(tick)
          /\ tick + 1 = DayLen * Day(tick + 1) + Minute(tick + 1)
          /\ Minute(tick) \in 0..(DayLen - 1) /\ Minute(tick + 1) \in 0..(DayLen - 1)
      BY <2>3, <2>6, PlainDay DEF DueInv
    <3>2. Day(tick) \in 1..LastDay
      BY <2>6 DEF DueInv
    <3>3. ASSUME Day(tick + 1) < Day(tick) PROVE FALSE
      <4>1. /\ DayLen * Day(tick + 1) + DayLen <= DayLen * Day(tick)
            /\ DayLen * Day(tick + 1) \in Int /\ DayLen * Day(tick) \in Int
        BY <2>1, <2>5, <3>2, <3>3, MulLess
      <4> QED
        BY <2>1, <2>3, <3>1, <4>1
    <3> QED
      BY <2>5, <3>2, <3>3
  <2>7. Normal(sched)'
    BY <2>2 DEF DueInv, Normal
  <2>8. shift' \in Int /\ tick' \in Nat /\ Day(tick)' \in Int
    BY <2>2, <2>3, <2>4, <2>5
  <2>9. shift' = 0 => Day(tick)' \in 1..LastDay
    BY <2>1, <2>2, <2>4, <2>5, <2>6
  <2> QED
    BY <2>7, <2>8, <2>9 DEF DueInv
<1>2. CASE UNCHANGED due
  BY <1>2 DEF due, DueInv, Normal, Day, Wall
<1> QED
  BY <1>1, <1>2

-----------------------------------------------------------------------------
(* Due, and the slots of a schedule. *)

LEMMA PlannedSlotsDef ==
  ASSUME NEW s, NEW x
  PROVE  x \in PlannedSlots(s) <=>
           \E d \in 0..LastDay, m \in s.times : Allowed(s, d) /\ x = Date(d, m)
BY DEF PlannedSlots

LEMMA NextOccurrencesDef ==
  ASSUME NEW s, NEW t, NEW days, NEW x
  PROVE  x \in NextOccurrences(s, t, days) <=>
           /\ x > t
           /\ \E d \in 0..(days - 1), m \in s.times :
                Allowed(s, Day(t) + d) /\ x = Date(Day(t) + d, m)
BY DEF NextOccurrences

LEMMA ActiveSlotsDef ==
  ASSUME NEW s, NEW t, NEW x
  PROVE  x \in ActiveSlots(s, t) <=>
           \E m \in s.times :
             \/ x = Date(Day(t), m) /\ (ClockMatches(t, m) \/ Within(t, x))
             \/ x = Date(Day(t), m) - DayLen /\ Within(t, x)
BY DEF ActiveSlots

\* clockDue and activeSlot look at the same instants.
LEMMA DueIsActive ==
  ASSUME NEW s, NEW t
  PROVE  Due(s, t) <=> /\ s.type # "startup" /\ Allowed(s, Day(t))
                       /\ ActiveSlots(s, t) # {}
<1>1. ASSUME NEW m \in s.times, ClockDue(t, m) PROVE ActiveSlots(s, t) # {}
  <2>1. Date(Day(t), m) \in ActiveSlots(s, t) \/ Date(Day(t), m) - DayLen \in ActiveSlots(s, t)
    BY <1>1, ActiveSlotsDef DEF ClockDue
  <2> QED
    BY <2>1
<1>2. ASSUME NEW x \in ActiveSlots(s, t) PROVE \E m \in s.times : ClockDue(t, m)
  BY <1>2, ActiveSlotsDef DEF ClockDue
<1> QED
  BY <1>1, <1>2 DEF Due

\* The slot of a clock time whose window holds an instant is of the same day or
\* of the day before.
LEMMA SlotAge ==
  ASSUME DueTimesAssumption, shift = 0, NEW t \in Int, NEW d \in Int,
         NEW m \in 0..(DayLen - 1), 0 <= t - Date(d, m), t - Date(d, m) <= CatchUpGrace
  PROVE  \/ d = Day(t) /\ (ClockMatches(t, m) \/ Within(t, Date(Day(t), m)))
         \/ /\ d = Day(t) - 1 /\ Date(d, m) = Date(Day(t), m) - DayLen
            /\ Within(t, Date(d, m)) /\ m + CatchUpGrace >= DayLen
<1>1. DayLen \in Nat \ {0} /\ CatchUpGrace \in 0..(DayLen - 1)
  BY DEF DueTimesAssumption
<1>2. Date(d, m) \in Int /\ Date(d, m) = DayLen * d + m
  BY PlainClock
<1>3. Day(t) \in Int /\ Minute(t) \in 0..(DayLen - 1) /\ t = DayLen * Day(t) + Minute(t)
  BY PlainDay
<1>4. DayLen * d \in Int /\ DayLen * Day(t) \in Int
  BY <1>1, <1>3
<1>5. ~(Day(t) < d)
  <2>1. ASSUME Day(t) < d PROVE FALSE
    <3>1. DayLen * Day(t) + DayLen <= DayLen * d
      BY <1>1, <1>3, <2>1, MulLess
    <3> QED
      BY <1>1, <1>2, <1>3, <1>4, <3>1
  <2> QED
    BY <2>1
<1>6. ~(d < Day(t) - 1)
  <2>1. ASSUME d < Day(t) - 1 PROVE FALSE
    <3>1. d + 1 \in Int /\ d + 1 < Day(t) /\ d < d + 1
      BY <1>3, <2>1
    <3>2. DayLen * d + DayLen <= DayLen * (d + 1) /\ DayLen * (d + 1) \in Int
      BY <1>1, <3>1, MulLess
    <3>3. DayLen * (d + 1) + DayLen <= DayLen * Day(t)
      BY <1>1, <1>3, <3>1, MulLess
    <3> QED
      BY <1>1, <1>2, <1>3, <1>4, <3>2, <3>3
  <2> QED
    BY <2>1
<1>7. d = Day(t) \/ d = Day(t) - 1
  BY <1>3, <1>5, <1>6
<1>8. CASE d = Day(t)
  <2>1. t = Date(d, m) \/ t > Date(d, m)
    BY <1>2
  <2>2. t = Date(d, m) => Minute(t) = m
    BY <1>2, <1>3, <1>4, <1>8
  <2> QED
    BY <1>8, <2>1, <2>2 DEF Within, ClockMatches
<1>9. CASE d = Day(t) - 1
  <2>1. DayLen * Day(t) = DayLen * d + DayLen
    BY <1>1, <1>3, <1>9
  <2>2. Date(Day(t), m) = DayLen * Day(t) + m
    BY <1>3, PlainClock
  <2>3. Date(d, m) = Date(Day(t), m) - DayLen
    BY <1>1, <1>2, <1>4, <2>1, <2>2
  <2>4. t > Date(d, m) /\ m + CatchUpGrace >= DayLen
    BY <1>1, <1>2, <1>3, <1>4, <2>1
  <2> QED
    BY <1>9, <2>3, <2>4 DEF Within
<1> QED
  BY <1>7, <1>8, <1>9

\* An active slot that is allowed lies in its window.
LEMMA ActiveIsPlanned ==
  ASSUME DueTimesAssumption, DueInv, shift = 0, NEW t \in Int, Day(t) \in 1..LastDay,
         Tame(sched), Allowed(sched, Day(t)), NEW x \in ActiveSlots(sched, t)
  PROVE  x \in OpenSlots(sched, t)
<1>1. DayLen \in Nat \ {0} /\ CatchUpGrace \in 0..(DayLen - 1) /\ LastDay \in Nat
  BY DEF DueTimesAssumption
<1>2. PICK m \in sched.times :
        \/ x = Date(Day(t), m) /\ (ClockMatches(t, m) \/ Within(t, x))
        \/ x = Date(Day(t), m) - DayLen /\ Within(t, x)
  BY ActiveSlotsDef
<1>3. m \in 0..(DayLen - 1)
  BY DEF DueInv, Normal
<1>4. Day(t) \in Int /\ Minute(t) \in 0..(DayLen - 1) /\ t = DayLen * Day(t) + Minute(t)
  BY PlainDay
<1>5. Date(Day(t), m) \in Int /\ Date(Day(t), m) = DayLen * Day(t) + m
  BY <1>3, <1>4, PlainClock
<1>6. DayLen * Day(t) \in Int
  BY <1>1, <1>4
<1>7. CASE x = Date(Day(t), m) /\ (ClockMatches(t, m) \/ Within(t, x))
  <2>1. x \in PlannedSlots(sched)
    <3>1. Day(t) \in 0..LastDay
      BY <1>1
    <3> QED
      BY <1>7, <3>1, PlannedSlotsDef
  <2>2. 0 <= t - x /\ t - x <= CatchUpGrace
    <3>1. CASE Minute(t) = m
      BY <1>1, <1>4, <1>5, <1>6, <1>7, <3>1
    <3>2. CASE Within(t, x)
      BY <1>1, <1>5, <1>7, <3>2 DEF Within
    <3> QED
      BY <1>7, <3>1, <3>2 DEF ClockMatches
  <2> QED
    BY <2>1, <2>2 DEF OpenSlots
<1>8. CASE x = Date(Day(t), m) - DayLen /\ Within(t, x)
  <2> DEFINE d == Day(t) - 1
  <2>1. d \in Int /\ d \in 0..LastDay
    BY <1>1, <1>4
  <2>2. DayLen * Day(t) = DayLen * d + DayLen /\ DayLen * d \in Int
    BY <1>1, <1>4
  <2>3. Date(d, m) = DayLen * d + m
    BY <1>3, <2>1, PlainClock
  <2>4. x = Date(d, m)
    BY <1>1, <1>3, <1>5, <1>8, <2>2, <2>3
  <2>5. t - x <= CatchUpGrace /\ t > x /\ x \in Int
    BY <1>1, <1>5, <1>8 DEF Within
  <2>6. m + CatchUpGrace >= DayLen
    BY <1>1, <1>3, <1>4, <1>5, <1>6, <1>8, <2>5
  <2>7. sched.type # "weekly"
    <3>1. sched.type = "weekly" => m + CatchUpGrace < DayLen
      BY DEF Tame
    <3> QED
      BY <1>1, <1>3, <2>6, <3>1
  <2>8. Allowed(sched, d)
    BY <2>7 DEF Allowed
  <2>9. x \in PlannedSlots(sched)
    BY <2>1, <2>4, <2>8, PlannedSlotsDef
  <2>10. 0 <= t - x
    BY <2>5
  <2> QED
    BY <2>5, <2>9, <2>10 DEF OpenSlots
<1> QED
  BY <1>2, <1>7, <1>8

\* A slot in its window is an active one, of a day that is allowed.
LEMMA PlannedIsActive ==
  ASSUME DueTimesAssumption, DueInv, shift = 0, NEW t \in Int,
         Tame(sched), NEW x \in OpenSlots(sched, t)
  PROVE  x \in ActiveSlots(sched, t) /\ Allowed(sched, Day(t)) /\ x \in Int /\ x <= t
<1>1. DayLen \in Nat \ {0} /\ CatchUpGrace \in 0..(DayLen - 1) /\ LastDay \in Nat
  BY DEF DueTimesAssumption
<1>2. x \in PlannedSlots(sched) /\ 0 <= t - x /\ t - x <= CatchUpGrace
  BY DEF OpenSlots
<1>3. PICK d \in 0..LastDay, m \in sched.times : Allowed(sched, d) /\ x = Date(d, m)
  BY <1>2, PlannedSlotsDef
<1>4. d \in Int /\ m \in 0..(DayLen - 1)
  <2>1. sched.times \subseteq 0..(DayLen - 1)
    BY DEF DueInv, Normal
  <2> QED
    BY <1>1, <2>1
<1>5. x \in Int
  BY <1>3, <1>4, PlainClock
<1>6. \/ d = Day(t) /\ (ClockMatches(t, m) \/ Within(t, Date(Day(t), m)))
      \/ /\ d = Day(t) - 1 /\ Date(d, m) = Date(Day(t), m) - DayLen
         /\ Within(t, Date(d, m)) /\ m + CatchUpGrace >= DayLen
  BY <1>2, <1>3, <1>4, SlotAge
<1>7. CASE d = Day(t) /\ (ClockMatches(t, m) \/ Within(t, Date(Day(t), m)))
  BY <1>2, <1>3, <1>5, <1>7, ActiveSlotsDef
<1>8. CASE /\ d = Day(t) - 1 /\ Date(d, m) = Date(Day(t), m) - DayLen
           /\ Within(t, Date(d, m)) /\ m + CatchUpGrace >= DayLen
  <2>1. x \in ActiveSlots(sched, t)
    BY <1>3, <1>8, ActiveSlotsDef
  <2>2. sched.type # "weekly"
    <3>1. sched.type = "weekly" => m + CatchUpGrace < DayLen
      BY DEF Tame
    <3> QED
      BY <1>1, <1>4, <1>8, <3>1
  <2> QED
    BY <1>2, <1>5, <2>1, <2>2 DEF Allowed
<1> QED
  BY <1>2, <1>5, <1>6, <1>7, <1>8

\* The run that is announced is due, and no slot lies before it.
LEMMA AnnouncedIsDue ==
  ASSUME DueTimesAssumption, DueInv, shift = 0, sched.type # "startup",
         NextOccurrences(sched, tick, 14) # {}
  PROVE  /\ Due(sched, NextScheduled(sched, tick))
         /\ \A x \in PlannedSlots(sched) : ~(tick < x /\ x < NextScheduled(sched, tick))
<1> DEFINE all == NextOccurrences(sched, tick, 14)
           next == NextScheduled(sched, tick)
<1>0. DayLen \in Nat \ {0} /\ LastDay \in Nat \ {0} /\ tick \in Int /\ Day(tick) \in 1..LastDay
  <2>1. DayLen \in Nat \ {0} /\ LastDay \in Nat \ {0}
    BY DEF DueTimesAssumption
  <2>2. tick \in Int /\ Day(tick) \in 1..LastDay
    BY DEF DueInv
  <2> QED
    BY <2>1, <2>2
<1>t. \A m \in sched.times : m \in 0..(DayLen - 1)
  BY DEF DueInv, Normal
<1>1. ASSUME NEW x \in all
      PROVE  /\ x \in Int /\ tick < x /\ Day(x) \in Int
             /\ \E d \in 0..13, m \in sched.times : /\ Allowed(sched, Day(tick) + d)
                                                    /\ x = Date(Day(tick) + d, m)
                                                    /\ Day(x) = Day(tick) + d /\ Minute(x) = m
  <2>1. PICK d \in 0..(14 - 1), m \in sched.times :
          Allowed(sched, Day(tick) + d) /\ x = Date(Day(tick) + d, m)
    BY NextOccurrencesDef
  <2>2. x > tick
    BY NextOccurrencesDef
  <2>3. Day(tick) + d \in Int /\ m \in 0..(DayLen - 1) /\ d \in 0..13
    <3>1. d \in 0..13 /\ d \in Int
      OBVIOUS
    <3> QED
      BY <1>0, <1>t, <3>1
  <2>4. x \in Int /\ Day(x) = Day(tick) + d /\ Minute(x) = m
    BY <2>1, <2>3, PlainClock
  <2> QED
    BY <1>0, <2>1, <2>2, <2>3, <2>4
<1>2. \E x \in all : \A y \in all : x <= y
  <2>1. all \subseteq Int /\ \A x \in all : tick <= x
    BY <1>0, <1>1
  <2> HIDE DEF all
  <2>2. all # {}
    BY DEF all
  <2> QED
    BY <1>0, <2>1, <2>2, IntLeast
<1>3. next \in all /\ \A y \in all : next <= y
  BY <1>2 DEF NextScheduled
<1>4. PICK d \in 0..13, m \in sched.times :
        /\ Allowed(sched, Day(tick) + d) /\ next = Date(Day(tick) + d, m)
        /\ Day(next) = Day(tick) + d /\ Minute(next) = m
  <2> HIDE DEF all, next
  <2> QED
    BY <1>1, <1>3
<1>5. Due(sched, next)
  <2> HIDE DEF next
  <2> QED
    BY <1>4 DEF Due, ClockDue, ClockMatches
<1>6. next \in Int /\ tick < next
  <2> HIDE DEF all, next
  <2> QED
    BY <1>1, <1>3
<1>7. ASSUME NEW x \in PlannedSlots(sched), tick < x, x < next PROVE FALSE
  <2> HIDE DEF next
  <2>1. PICK e \in 0..LastDay, k \in sched.times : Allowed(sched, e) /\ x = Date(e, k)
    BY PlannedSlotsDef
  <2>2. e \in Int /\ k \in 0..(DayLen - 1) /\ m \in 0..(DayLen - 1)
    <3>1. e \in Int
      BY <1>0
    <3> QED
      BY <1>t, <3>1
  <2>3. x \in Int /\ x = DayLen * e + k
    BY <2>1, <2>2, PlainClock
  <2>4. /\ tick = DayLen * Day(tick) + Minute(tick) /\ Minute(tick) \in 0..(DayLen - 1)
        /\ next = DayLen * Day(next) + Minute(next) /\ Minute(next) \in 0..(DayLen - 1)
        /\ Day(tick) \in Int /\ Day(next) \in Int
    BY <1>0, <1>6, PlainDay
  <2>5. DayLen * e \in Int /\ DayLen * Day(tick) \in Int /\ DayLen * Day(next) \in Int
    BY <1>0, <2>2, <2>4
  <2>6. ~(e < Day(tick))
    <3>1. ASSUME e < Day(tick) PROVE FALSE
      <4>1. DayLen * e + DayLen <= DayLen * Day(tick)
        BY <1>0, <2>2, <2>4, <3>1, MulLess
      <4> QED
        BY <1>0, <1>7, <2>2, <2>3, <2>4, <2>5, <4>1
    <3> QED
      BY <3>1
  <2>7. ~(Day(next) < e)
    <3>1. ASSUME Day(next) < e PROVE FALSE
      <4>1. DayLen * Day(next) + DayLen <= DayLen * e
        BY <1>0, <2>2, <2>4, <3>1, MulLess
      <4> QED
        BY <1>0, <1>6, <1>7, <2>2, <2>3, <2>4, <2>5, <4>1
    <3> QED
      BY <3>1
  <2>8. e - Day(tick) \in 0..(14 - 1) /\ Day(tick) + (e - Day(tick)) = e
    <3>1. Day(next) = Day(tick) + d /\ d <= 13 /\ d \in Int
      BY <1>4
    <3> QED
      BY <2>2, <2>4, <2>6, <2>7, <3>1
  <2>9. x > tick
    BY <1>0, <1>7, <2>3
  <2>10. x \in NextOccurrences(sched, tick, 14)
    <3> DEFINE g == e - Day(tick)
    <3>1. g \in 0..(14 - 1) /\ Allowed(sched, Day(tick) + g) /\ x = Date(Day(tick) + g, k)
      BY <2>1, <2>8
    <3> HIDE DEF g
    <3> QED
      BY <2>9, <3>1, NextOccurrencesDef
  <2>11. next <= x
    BY <1>3, <2>10
  <2> QED
    BY <1>6, <1>7, <2>3, <2>11
<1> QED
  BY <1>5, <1>7

LEMMA DueExactlyHolds == ASSUME DueTimesAssumption, DueInv PROVE DueExactly
<1> SUFFICES ASSUME sched.type # "startup", sched.times # {}
             PROVE  /\ (shift = 0 /\ Tame(sched)) =>
                         /\ Due(sched, tick) <=> OpenSlots(sched, tick) # {}
                         /\ Due(sched, tick) => SlotKey(sched, tick) = Latest(OpenSlots(sched, tick))
                         /\ NextOccurrences(sched, tick, 14) # {} =>
                              /\ Due(sched, NextScheduled(sched, tick))
                              /\ \A x \in PlannedSlots(sched) :
                                   ~(tick < x /\ x < NextScheduled(sched, tick))
                    /\ sched.type = "daily" => (Due(sched, tick) <=> ActiveSlots(sched, tick) # {})
  BY DEF DueExactly
<1>1. sched.type = "daily" => (Due(sched, tick) <=> ActiveSlots(sched, tick) # {})
  BY DueIsActive DEF Allowed
<1>2. ASSUME shift = 0, Tame(sched)
      PROVE  /\ Due(sched, tick) <=> OpenSlots(sched, tick) # {}
             /\ Due(sched, tick) => SlotKey(sched, tick) = Latest(OpenSlots(sched, tick))
  <2>1. tick \in Int /\ Day(tick) \in 1..LastDay
    BY <1>2 DEF DueInv
  <2>2. Due(sched, tick) => OpenSlots(sched, tick) = ActiveSlots(sched, tick)
    <3> SUFFICES ASSUME Allowed(sched, Day(tick))
                 PROVE  OpenSlots(sched, tick) = ActiveSlots(sched, tick)
      BY DueIsActive
    <3>1. \A x \in ActiveSlots(sched, tick) : x \in OpenSlots(sched, tick)
      BY <1>2, <2>1, ActiveIsPlanned
    <3>2. \A x \in OpenSlots(sched, tick) : x \in ActiveSlots(sched, tick)
      BY <1>2, <2>1, PlannedIsActive
    <3> QED
      BY <3>1, <3>2
  <2>3. OpenSlots(sched, tick) # {} => Due(sched, tick)
    BY <1>2, <2>1, PlannedIsActive, DueIsActive
  <2>4. Due(sched, tick) <=> OpenSlots(sched, tick) # {}
    BY <2>2, <2>3, DueIsActive
  <2>5. ASSUME Due(sched, tick) PROVE SlotKey(sched, tick) = Latest(OpenSlots(sched, tick))
    <3> DEFINE O == OpenSlots(sched, tick)
    <3>1. O # {} /\ O = ActiveSlots(sched, tick)
      BY <2>2, <2>4, <2>5
    <3>2. O \subseteq Int /\ \A x \in O : x <= tick
      BY <1>2, <2>1, PlannedIsActive
    <3> HIDE DEF O
    <3>3. \E x \in O : \A y \in O : y <= x
      BY <2>1, <3>1, <3>2, IntGreatest
    <3>4. Latest(O) \in O
      BY <3>3 DEF Latest
    <3>5. Wall(Latest(O)) = Latest(O)
      BY <1>2, <3>2, <3>4, PlainDay
    <3> QED
      BY <3>1, <3>5 DEF SlotKey, O
  <2> QED
    BY <2>4, <2>5
<1> QED
  BY <1>1, <1>2, AnnouncedIsDue

-----------------------------------------------------------------------------
(* Full runs. *)

\* Seven days have every day of the week once.
LEMMA WeekHasDay ==
  ASSUME NEW a \in Int, NEW w \in 1..7
  PROVE  \E d \in a..(a + 6) : /\ WeekdayUI(d) = w
                               /\ \A e \in a..(a + 6) : WeekdayUI(e) = w => e = d
<1> DEFINE d == a + ((w - 1 - a) % 7)
<1>1. d \in a..(a + 6) /\ d % 7 = w - 1
  OBVIOUS
<1>2. WeekdayUI(d) = w
  BY <1>1 DEF WeekdayUI
<1>3. ASSUME NEW e \in a..(a + 6), WeekdayUI(e) = w PROVE e = d
  <2>1. e % 7 = w - 1 /\ e \in Int
    BY <1>3 DEF WeekdayUI
  <2>2. d \in Int /\ d <= e + 6 /\ e <= d + 6
    BY <1>1
  <2> HIDE DEF d
  <2> QED
    BY <1>1, <2>1, <2>2
<1> QED
  BY <1>1, <1>2, <1>3

\* A week later is the same day of the week, and days in between are not.
LEMMA WeekLater ==
  ASSUME NEW d \in Int
  PROVE  /\ WeekdayUI(d + 7) = WeekdayUI(d)
         /\ \A a \in Int : (d + 7 - a) \div 7 = ((d - a) \div 7) + 1
BY DEF WeekdayUI

LEMMA FullDayMatches ==
  ASSUME DueInv, NEW day
  PROVE  MatchesFullWeekday(sched, day) <=>
           /\ WeekdayUI(day) = sched.fullday
           /\ ~(sched.type = "weekly" /\ sched.fullday \notin sched.days)
BY DEF MatchesFullWeekday, DueInv, Normal

\* One of two weeks is a full one.
LEMMA BiweeklyHasDay ==
  ASSUME NEW a \in Int, NEW b \in Int, NEW w \in 1..7
  PROVE  \E d \in a..(a + 13) :
           /\ WeekdayUI(d) = w /\ ((d - b) \div 7) % 2 = 0
           /\ \A e \in a..(a + 13) : WeekdayUI(e) = w /\ ((e - b) \div 7) % 2 = 0 => e = d
<1>1. PICK d \in a..(a + 6) : /\ WeekdayUI(d) = w
                              /\ \A e \in a..(a + 6) : WeekdayUI(e) = w => e = d
  BY WeekHasDay
<1>2. d \in Int /\ d + 7 \in Int /\ d \in a..(a + 13) /\ d + 7 \in a..(a + 13)
  OBVIOUS
<1>3. WeekdayUI(d + 7) = w /\ (d + 7 - b) \div 7 = ((d - b) \div 7) + 1
  BY <1>1, <1>2, WeekLater
<1>4. ASSUME NEW e \in a..(a + 13), WeekdayUI(e) = w PROVE e = d \/ e = d + 7
  <2>1. CASE e \in a..(a + 6)
    BY <1>1, <1>4, <2>1
  <2>2. CASE ~(e <= a + 6)
    <3>1. e - 7 \in a..(a + 6) /\ e - 7 \in Int /\ (e - 7) + 7 = e
      BY <2>2
    <3>2. WeekdayUI(e - 7) = w
      BY <1>4, <3>1, WeekLater
    <3>3. e - 7 = d
      BY <1>1, <3>1, <3>2
    <3> QED
      BY <3>1, <3>3
  <2> QED
    BY <2>1, <2>2
<1>5. (d - b) \div 7 \in Int
  BY <1>2
<1>6. CASE ((d - b) \div 7) % 2 = 0
  <2>1. ((d + 7 - b) \div 7) % 2 # 0
    BY <1>3, <1>5, <1>6
  <2> QED
    BY <1>1, <1>2, <1>4, <1>6, <2>1
<1>7. CASE ((d - b) \div 7) % 2 # 0
  <2>1. ((d + 7 - b) \div 7) % 2 = 0
    BY <1>3, <1>5, <1>7
  <2> QED
    BY <1>2, <1>3, <1>4, <1>7, <2>1
<1> QED
  BY <1>6, <1>7

\* Without a change of the clock the days since the anchor are counted right.
LEMMA DaysSinceAnchor ==
  ASSUME DueTimesAssumption, shift = 0, NEW d \in Int, NEW a \in Int
  PROVE  (Date(d, 0) - Date(a, 0)) \div DayLen = d - a
<1>0. DayLen \in Nat \ {0}
  BY DEF DueTimesAssumption
<1>1. DayLen \in Nat \ {0} /\ 0 \in 0..(DayLen - 1)
  BY <1>0
<1>2. Date(d, 0) = DayLen * d + 0 /\ Date(a, 0) = DayLen * a + 0
  BY <1>1, PlainClock
<1>3. DayLen * d \in Int /\ DayLen * a \in Int /\ d - a \in Int
      /\ DayLen * d - DayLen * a = DayLen * (d - a)
  BY <1>1
<1>4. Date(d, 0) - Date(a, 0) = DayLen * (d - a) + 0
  BY <1>2, <1>3
<1> QED
  BY <1>1, <1>3, <1>4, DivModUnique

\* The first week of a month are the days up to the seventh.
LEMMA MonthStarts ==
  ASSUME DueTimesAssumption, NEW today \in Int
  PROVE  LET first == today - DayOfMonth(today) + 1
         IN /\ first \in Int /\ MonthLen \in Nat /\ MonthLen >= 7
            /\ \A d \in first..(today - DayOfMonth(today) + MonthLen) :
                 DayOfMonth(d) <= 7 <=> d \in first..(first + 6)
            /\ first..(first + 6) \subseteq first..(today - DayOfMonth(today) + MonthLen)
<1> DEFINE first == today - DayOfMonth(today) + 1
           q == today \div MonthLen
<1>0. MonthLen \in Nat \ 0..6
  BY DEF DueTimesAssumption
<1>1. MonthLen \in Nat \ {0} /\ MonthLen >= 7
  BY <1>0
<1>2. /\ q \in Int /\ today % MonthLen \in 0..(MonthLen - 1)
      /\ today = MonthLen * q + (today % MonthLen)
  BY <1>1, DivMod
<1> HIDE DEF q
<1>3. MonthLen * q \in Int
  BY <1>1, <1>2
<1>4. first = MonthLen * q /\ today - DayOfMonth(today) + MonthLen = first + MonthLen - 1
  BY <1>1, <1>2, <1>3 DEF DayOfMonth
<1> HIDE DEF first
<1>5. ASSUME NEW d \in first..(first + MonthLen - 1)
      PROVE  DayOfMonth(d) <= 7 <=> d \in first..(first + 6)
  <2>1. d - first \in 0..(MonthLen - 1) /\ d = MonthLen * q + (d - first) /\ d \in Int
    BY <1>1, <1>3, <1>4
  <2>2. d % MonthLen = d - first
    <3> DEFINE r == d - first
    <3>1. r \in 0..(MonthLen - 1) /\ d = MonthLen * q + r
      BY <2>1
    <3> HIDE DEF r
    <3>2. d % MonthLen = r
      BY <1>1, <1>2, <3>1, DivModUnique
    <3> QED
      BY <3>2 DEF r
  <2> QED
    BY <1>3, <1>4, <2>1, <2>2 DEF DayOfMonth
<1>6. first..(first + 6) \subseteq first..(first + MonthLen - 1)
  BY <1>1, <1>3, <1>4
<1>7. first \in Int
  BY <1>3, <1>4
<1> QED
  BY <1>1, <1>4, <1>5, <1>6, <1>7 DEF first

LEMMA OneOf ==
  ASSUME NEW S, NEW d \in S, \A e \in S : e = d
  PROVE  Cardinality(S) = 1
<1>1. S = {d}
  OBVIOUS
<1> QED
  BY <1>1, FS_Singleton

LEMMA FullOnceHolds == ASSUME DueTimesAssumption, DueInv PROVE FullOnce
<1> DEFINE today == Day(tick)
           month == (today - DayOfMonth(today) + 1)..(today - DayOfMonth(today) + MonthLen)
           Fulls(period) == {d \in period : ShouldForceFull(sched, d)}
           none == sched.mode = "never" \/ (sched.type = "weekly" /\ sched.fullday \notin sched.days)
<1>0. today \in Int /\ sched.mode \in {"weekly", "biweekly", "monthly", "never"}
      /\ (sched.mode # "never" => sched.fullday \in 1..7)
  BY DEF DueInv, Normal
<1>1. ASSUME none, NEW period PROVE Cardinality(Fulls(period)) = 0
  <2>1. Fulls(period) = {}
    BY <1>1, FullDayMatches DEF ShouldForceFull
  <2> QED
    BY <2>1, FS_EmptySet
<1>2. ASSUME ~none, NEW d
      PROVE  ShouldForceFull(sched, d) <=>
               /\ WeekdayUI(d) = sched.fullday
               /\ sched.mode = "biweekly" => IsBiweeklyFullWeek(sched, d)
               /\ sched.mode = "monthly" => DayOfMonth(d) <= 7
  BY <1>2, FullDayMatches DEF ShouldForceFull
<1>3. ASSUME ~none, sched.mode = "weekly" PROVE Cardinality(Fulls(today..(today + 6))) = 1
  <2>1. PICK d \in today..(today + 6) :
          /\ WeekdayUI(d) = sched.fullday
          /\ \A e \in today..(today + 6) : WeekdayUI(e) = sched.fullday => e = d
    BY <1>0, <1>3, WeekHasDay
  <2>2. d \in Fulls(today..(today + 6)) /\ \A e \in Fulls(today..(today + 6)) : e = d
    BY <1>2, <1>3, <2>1
  <2> HIDE DEF Fulls
  <2> QED
    BY <2>2, OneOf
<1>4. ASSUME ~none, sched.mode = "biweekly", shift = 0, sched.anchor \in 0..today
      PROVE  Cardinality(Fulls(today..(today + 13))) = 1
  <2>1. PICK d \in today..(today + 13) :
          /\ WeekdayUI(d) = sched.fullday /\ ((d - sched.anchor) \div 7) % 2 = 0
          /\ \A e \in today..(today + 13) :
               WeekdayUI(e) = sched.fullday /\ ((e - sched.anchor) \div 7) % 2 = 0 => e = d
    <3>1. sched.anchor \in Int /\ sched.fullday \in 1..7
      BY <1>0, <1>4
    <3> QED
      BY <1>0, <3>1, BiweeklyHasDay
  <2>2. ASSUME NEW e \in today..(today + 13)
        PROVE  IsBiweeklyFullWeek(sched, e) <=> ((e - sched.anchor) \div 7) % 2 = 0
    <3>1. e \in Int /\ sched.anchor \in Int /\ e >= sched.anchor /\ sched.anchor # NoAnchor
      BY <1>0, <1>4 DEF NoAnchor
    <3>2. (Date(e, 0) - Date(sched.anchor, 0)) \div DayLen = e - sched.anchor
      BY <1>4, <3>1, DaysSinceAnchor
    <3> QED
      BY <3>1, <3>2 DEF IsBiweeklyFullWeek
  <2>3. d \in Fulls(today..(today + 13)) /\ \A e \in Fulls(today..(today + 13)) : e = d
    BY <1>2, <1>4, <2>1, <2>2
  <2> HIDE DEF Fulls
  <2> QED
    BY <2>3, OneOf
<1>5. ASSUME ~none, sched.mode = "monthly" PROVE Cardinality(Fulls(month)) = 1
  <2> DEFINE first == today - DayOfMonth(today) + 1
  <2>1. /\ first \in Int
        /\ \A d \in month : DayOfMonth(d) <= 7 <=> d \in first..(first + 6)
        /\ first..(first + 6) \subseteq month
    BY <1>0, MonthStarts
  <2> HIDE DEF first, month
  <2>2. PICK d \in first..(first + 6) :
          /\ WeekdayUI(d) = sched.fullday
          /\ \A e \in first..(first + 6) : WeekdayUI(e) = sched.fullday => e = d
    BY <1>0, <1>5, <2>1, WeekHasDay
  <2>3. d \in Fulls(month) /\ \A e \in Fulls(month) : e = d
    BY <1>2, <1>5, <2>1, <2>2
  <2> HIDE DEF Fulls
  <2> QED
    BY <2>3, OneOf
<1> QED
  BY <1>0, <1>1, <1>3, <1>4, <1>5 DEF FullOnce

LEMMA DueInvariant == ASSUME DueTimesAssumption PROVE DueSpec => []DueInv
<1>1. DueInit => DueInv
  BY DueInvInit
<1>2. DueInv /\ [DueTick]_due => DueInv'
  BY DueInvStep
<1> QED
  BY <1>1, <1>2, PTL DEF DueSpec

\* For every length of day, catch-up window and list of clock times: a job is
\* due exactly in the windows of its slots, all ticks of a window share the key
\* of the latest slot that is open, and the run that is announced is the next
\* slot and will be due (clockDue, activeSlot, nextOccurrences).
THEOREM DueInItsWindows ==
  ASSUME DueTimesAssumption PROVE DueSpec => []DueExactly
BY DueExactlyHolds, DueInvariant, PTL

\* A full run is forced exactly once in a week, in two weeks since the anchor,
\* or in a month of any length from seven days, or never (ShouldForceFull,
\* isBiweeklyFullWeek, matchesFullWeekday).
THEOREM OneFullRunInAPeriod ==
  ASSUME DueTimesAssumption PROVE DueSpec => []FullOnce
BY FullOnceHolds, DueInvariant, PTL
=============================================================================
