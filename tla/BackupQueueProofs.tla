------------------------- MODULE BackupQueueProofs -------------------------
(***************************************************************************)
(* Proofs about BackupQueue, for any programs, goroutines and requests,    *)
(* any queue limit and any number of retries and crashes: one run at a     *)
(* time over all programs, the types of all variables, a file for every    *)
(* queued request that was not tried, and, without crashes, the ledger of  *)
(* requests that the queue implements.                                     *)
(***************************************************************************)
EXTENDS BackupQueue, SequenceTheorems, TLAPS

\* The two variables of the run that the proof of exclusion needs typed.
Shape ==
  /\ pc \in [Threads -> Labels]
  /\ running \in [Procs -> BOOLEAN]

\* Whoever is inside Engine.Run set the running flag of its process, alone,
\* and whoever transfers has the lock.
InsideRun(t) == pc[t] \in {"lock", "run"}

Running ==
  /\ \A t \in Threads : InsideRun(t) => running[Owner[t]]
  /\ \A t \in Threads : pc[t] = "run" => lock = Owner[t]
  /\ \A t, u \in Threads : InsideRun(t) /\ InsideRun(u) /\ Owner[t] = Owner[u] => t = u

RunInv == Shape /\ Running

\* A step of a thread that leads to neither step of Engine.Run.
Elsewhere(t) ==
  /\ \E l \in Labels \ {"lock", "run"} : pc' = [pc EXCEPT ![t] = l]
  /\ running' = running
  /\ lock \in Procs => lock' = lock

-----------------------------------------------------------------------------
\* Such a step disturbs nobody's run.
LEMMA ElsewhereStep ==
  ASSUME RunInv, NEW t \in Threads, Elsewhere(t)
  PROVE  RunInv'
<1>1. PICK l \in Labels \ {"lock", "run"} : pc' = [pc EXCEPT ![t] = l]
  BY DEF Elsewhere
<1>2. Shape'
  BY <1>1 DEF RunInv, Shape, Elsewhere
<1>3. \A u \in Threads : pc'[u] \in {"lock", "run"} => pc'[u] = pc[u]
  BY <1>1 DEF RunInv, Shape
<1>4. Running'
  BY <1>3, QueueAssumption DEF RunInv, Running, InsideRun, Elsewhere
<1> QED
  BY <1>2, <1>4 DEF RunInv

\* Every step keeps the exclusion of runs; only Begin, AcquireLock, RunEnds
\* and Crash touch what it speaks of.
LEMMA RunStep ==
  ASSUME RunInv, [Next]_vars
  PROVE  RunInv'
<1> USE DEF At, Goto, files, thread, history
<1>1. ASSUME NEW t \in Threads, NEW i \in Items, Submit(t, i) PROVE Elsewhere(t)
  BY <1>1 DEF Submit, ClearStale, Held, CanStart, Elsewhere, Labels
<1>2. ASSUME NEW t \in Threads, Enqueue(t) PROVE Elsewhere(t)
  BY <1>2 DEF Enqueue, Done, Elsewhere, Labels
<1>3. ASSUME NEW t \in Threads, DrainTick(t) PROVE Elsewhere(t)
  BY <1>3 DEF DrainTick, ClearStale, Held, Elsewhere, Labels
<1>4. ASSUME NEW t \in Threads, DrainAgain(t) PROVE Elsewhere(t)
  BY <1>4 DEF DrainAgain, ClearStale, Held, Done, Elsewhere, Labels
<1>5. ASSUME NEW t \in Threads, ClaimMark(t) PROVE Elsewhere(t)
  BY <1>5 DEF ClaimMark, Done, Elsewhere, Labels
<1>6. ASSUME NEW t \in Threads, ClaimPop(t) PROVE Elsewhere(t)
  BY <1>6 DEF ClaimPop, Elsewhere, Labels
<1>7. ASSUME NEW t \in Threads, Launch(t) PROVE Elsewhere(t)
  BY <1>7 DEF Launch, Elsewhere, Labels
<1>8. ASSUME NEW t \in Threads, LaunchFails(t) PROVE Elsewhere(t)
  BY <1>8 DEF LaunchFails, Done, Elsewhere, Labels
<1>9. ASSUME NEW t \in Threads, RecordDeadLetter(t) PROVE Elsewhere(t)
  BY <1>9 DEF RecordDeadLetter, Done, Elsewhere, Labels
<1>10. ASSUME NEW t \in Threads, AfterRun(t) PROVE Elsewhere(t)
  BY <1>10 DEF AfterRun, Elsewhere, Labels
<1>11. ASSUME NEW t \in Threads, Backoff(t) PROVE Elsewhere(t)
  BY <1>11 DEF Backoff, Elsewhere, Labels
<1>12. ASSUME NEW t \in Threads, Finish(t) PROVE Elsewhere(t)
  BY <1>12 DEF Finish, Elsewhere, Labels
<1>13. ASSUME NEW t \in Threads, WorkerDefer(t) PROVE Elsewhere(t)
  BY <1>13 DEF WorkerDefer, Elsewhere, Labels
<1>14. ASSUME NEW t \in Threads, Boot(t) PROVE Elsewhere(t)
  BY <1>14 DEF Boot, ClearStale, Held, Elsewhere, Labels
<1>15. ASSUME NEW t \in Threads, Reconcile(t) PROVE Elsewhere(t)
  BY <1>15 DEF Reconcile, Elsewhere, Labels
<1>16. ASSUME NEW t \in Threads, Restore(t) PROVE Elsewhere(t)
  BY <1>16 DEF Restore, Elsewhere, Labels
<1>17. ASSUME NEW t \in Threads, Unmark(t) PROVE Elsewhere(t)
  BY <1>17 DEF Unmark, Elsewhere, Labels
<1>18. ASSUME NEW t \in Threads, Begin(t) PROVE RunInv'
  <2>1. CASE running[Owner[t]]
    BY <1>18, <2>1, ElsewhereStep DEF Begin, Elsewhere, Labels
  <2>2. CASE ~running[Owner[t]]
    <3>1. /\ pc' = [pc EXCEPT ![t] = "lock"]
          /\ running' = [running EXCEPT ![Owner[t]] = TRUE]
          /\ lock' = lock
      BY <1>18, <2>2 DEF Begin
    <3>2. \A u \in Threads : InsideRun(u) => Owner[u] # Owner[t]
      BY <2>2 DEF RunInv, Running
    <3>3. Shape'
      BY <3>1, QueueAssumption DEF RunInv, Shape, Labels
    <3>4. \A u \in Threads : /\ InsideRun(u)' <=> u = t \/ InsideRun(u)
                             /\ pc'[u] = "run" => u # t /\ pc[u] = "run"
      BY <3>1 DEF RunInv, Shape, InsideRun
    <3>5. \A p \in Procs : running'[p] <=> p = Owner[t] \/ running[p]
      BY <3>1 DEF RunInv, Shape
    <3>6. Running'
      BY <3>1, <3>2, <3>4, <3>5, QueueAssumption DEF RunInv, Running
    <3> QED
      BY <3>3, <3>6 DEF RunInv
  <2> QED
    BY <2>1, <2>2
<1>19. ASSUME NEW t \in Threads, AcquireLock(t) PROVE RunInv'
  <2>1. InsideRun(t) /\ \A u \in Threads : InsideRun(u) /\ Owner[u] = Owner[t] => u = t
    BY <1>19 DEF AcquireLock, RunInv, Running, InsideRun
  <2>2. CASE lock \in Procs \ {Owner[t]}
    <3>1. /\ pc' = [pc EXCEPT ![t] = "after"]
          /\ running' = [running EXCEPT ![Owner[t]] = FALSE]
          /\ lock' = lock
      BY <1>19, <2>2 DEF AcquireLock
    <3>2. Shape'
      BY <3>1, QueueAssumption DEF RunInv, Shape, Labels
    <3>3. Running'
      BY <3>1, <2>1, QueueAssumption DEF RunInv, Shape, Running, InsideRun
    <3> QED
      BY <3>2, <3>3 DEF RunInv
  <2>3. CASE lock \notin Procs \ {Owner[t]}
    <3>1. /\ pc' = [pc EXCEPT ![t] = "run"]
          /\ running' = running
          /\ lock' = Owner[t]
      BY <1>19, <2>3 DEF AcquireLock
    <3>2. \A u \in Threads : pc[u] # "run"
      BY <1>19, <2>1, <2>3, QueueAssumption DEF AcquireLock, RunInv, Running, InsideRun
    <3>3. Shape'
      BY <3>1, QueueAssumption DEF RunInv, Shape, Labels
    <3>4. Running'
      BY <3>1, <3>2, <2>1, QueueAssumption DEF RunInv, Shape, Running, InsideRun
    <3> QED
      BY <3>3, <3>4 DEF RunInv
  <2> QED
    BY <2>2, <2>3
<1>20. ASSUME NEW t \in Threads, RunEnds(t) PROVE RunInv'
  <2>1. /\ \E l \in {"after", "finish"} : pc' = [pc EXCEPT ![t] = l]
        /\ running' = [running EXCEPT ![Owner[t]] = FALSE]
        /\ lock' = None
    BY <1>20 DEF RunEnds
  <2>2. \A u \in Threads : (InsideRun(u) /\ Owner[u] = Owner[t]) \/ pc[u] = "run" => u = t
    BY <1>20, QueueAssumption DEF RunEnds, RunInv, Running, InsideRun
  <2>3. Shape'
    BY <2>1, QueueAssumption DEF RunInv, Shape, Labels
  <2>4. Running'
    BY <2>1, <2>2, QueueAssumption DEF RunInv, Shape, Running, InsideRun
  <2> QED
    BY <2>3, <2>4 DEF RunInv
<1>21. ASSUME NEW p \in Procs, Crash(p) PROVE RunInv'
  BY <1>21, QueueAssumption DEF Crash, RunInv, Shape, Running, InsideRun, Labels
<1>22. CASE GraceEnds
  BY <1>22 DEF GraceEnds, RunInv, Shape, Running, InsideRun
<1>23. CASE UNCHANGED vars
  BY <1>23 DEF vars, RunInv, Shape, Running, InsideRun
<1> QED
  BY <1>1, <1>2, <1>3, <1>4, <1>5, <1>6, <1>7, <1>8, <1>9, <1>10, <1>11, <1>12, <1>13, <1>14, <1>15, <1>16, <1>17, <1>18, <1>19, <1>20, <1>21, <1>22, <1>23, ElsewhereStep
     DEF Next, Proceed

\* The invariant of the runs.
LEMMA RunInvariance == Spec => []RunInv
<1>1. Init => RunInv
  BY QueueAssumption DEF Init, RunInv, Shape, Running, InsideRun, Labels
<1> QED
  BY <1>1, RunStep, PTL DEF Spec

\* One run at a time over all programs, whatever crashes (ExclusiveRun).
THEOREM OneRun == Spec => []ExclusiveRun
<1>1. RunInv => ExclusiveRun
  BY QueueAssumption DEF RunInv, Running, InsideRun, ExclusiveRun
<1> QED
  BY <1>1, RunInvariance, PTL

-----------------------------------------------------------------------------
\* Where a thread has a request: from Submit or ClaimNext to the end of its
\* work, and in ReconcileInflight once it has read the marker.
HasRequest == {"submit", "pop", "start", "dead letter", "begin", "lock", "run",
               "after", "backoff", "finish", "defer", "restore", "unmark"}

InHand == \A t \in Threads : pc[t] \in HasRequest => item[t] \in Items

\* Between the two steps of ClaimNext the queue is that of the first.
Claiming == \A t \in Threads : pc[t] = "pop" => queueLock = t /\ queue # <<>>

\* A thread waits for a retry only if it has one left.
Retrying == \A t \in Threads : pc[t] = "backoff" => left[t] >= 1

TypeInv == TypeOK /\ InHand /\ Claiming /\ Retrying

\* A step of one thread, after which it has a request if it needs one.
Alone(t) ==
  /\ \A u \in Threads \ {t} : pc'[u] = pc[u] /\ item'[u] = item[u] /\ left'[u] = left[u]
  /\ pc'[t] \in HasRequest => item'[t] \in Items
  /\ pc'[t] = "backoff" => left'[t] >= 1

-----------------------------------------------------------------------------
\* Putting an item back at the head of the queue, and taking the head off.
LEMMA QueueOps ==
  ASSUME NEW q \in Seq(Items), NEW i \in Items
  PROVE  /\ <<i>> \o q \in Seq(Items)
         /\ <<i>> \o q # <<>>
         /\ Append(q, i) \in Seq(Items)
         /\ q # <<>> => Head(q) \in Items /\ Tail(q) \in Seq(Items)
<1>1. <<i>> \in Seq(Items) /\ Len(<<i>>) = 1
  OBVIOUS
<1>2. <<i>> \o q \in Seq(Items) /\ Len(<<i>> \o q) = 1 + Len(q)
  BY <1>1, ConcatProperties
<1>3. Len(q) \in Nat
  BY LenProperties
<1>4. <<i>> \o q # <<>>
  BY <1>2, <1>3, EmptySeq
<1>5. q # <<>> => Head(q) \in Items /\ Tail(q) \in Seq(Items)
  BY HeadTailProperties
<1> QED
  BY <1>2, <1>4, <1>5, AppendProperties

\* What is left of a thread once it is done has the right types.
LEMMA DropType ==
  ASSUME TypeOK, NEW t \in Threads, Drop(t)
  PROVE  /\ item' \in [Threads -> Items \cup {None}]
         /\ claimed' \in [Threads -> BOOLEAN]
         /\ result' \in [Threads -> {"done", "retry", "refused", "panic"}]
         /\ left' \in [Threads -> 0..Retries]
<1>1. 0 \in 0..Retries
  BY QueueAssumption
<1> QED
  BY <1>1 DEF TypeOK, Drop

\* Every variable keeps its type; those of pc and running are in RunStep.
LEMMA TypeStep ==
  ASSUME TypeInv, RunInv, [Next]_vars
  PROVE  TypeOK'
<1> USE QueueAssumption DEF TypeInv, At, Goto, files, thread, history
<1>0. pc' \in [Threads -> Labels] /\ running' \in [Procs -> BOOLEAN]
  BY RunStep DEF RunInv, Shape
<1>1. ASSUME NEW t \in Threads, NEW i \in Items, Submit(t, i) PROVE TypeOK'
  BY <1>0, <1>1 DEF Submit, ClearStale, Held, TypeOK
<1>2. ASSUME NEW t \in Threads, Enqueue(t) PROVE TypeOK'
  <2>0. item[t] \in Items
    BY <1>2 DEF Enqueue, InHand, HasRequest
  <2>1. /\ queue' \in Seq(Items)
        /\ queued' \in SUBSET Items
    <3>1. \/ queue' = queue /\ queued' = queued
          \/ queue' = Append(queue, item[t]) /\ queued' = queued \cup {item[t]}
      BY <1>2 DEF Enqueue
    <3>2. Append(queue, item[t]) \in Seq(Items)
      BY <2>0, QueueOps DEF TypeOK
    <3> QED
      BY <2>0, <3>1, <3>2 DEF TypeOK
  <2>2. ended' \in [Items -> SUBSET Answers]
    <3>1. ended' = ended \/ \E a \in Answers : Answer(item[t], a)
      BY <1>2 DEF Enqueue, Answers
    <3> QED
      BY <2>0, <3>1 DEF Answer, TypeOK
  <2>3. /\ item' \in [Threads -> Items \cup {None}]
        /\ claimed' \in [Threads -> BOOLEAN]
        /\ result' \in [Threads -> {"done", "retry", "refused", "panic"}]
        /\ left' \in [Threads -> 0..Retries]
    BY <1>2, DropType DEF Enqueue, Done
  <2> QED
    BY <1>0, <1>2, <2>1, <2>2, <2>3 DEF Enqueue, TypeOK
<1>3. ASSUME NEW t \in Threads, DrainTick(t) PROVE TypeOK'
  BY <1>0, <1>3 DEF DrainTick, ClearStale, Held, TypeOK
<1>4. ASSUME NEW t \in Threads, DrainAgain(t) PROVE TypeOK'
  <2>1. lock' \in Procs \cup {None, Stale}
    BY <1>4 DEF DrainAgain, ClearStale, Held, TypeOK
  <2>2. /\ item' \in [Threads -> Items \cup {None}]
        /\ claimed' \in [Threads -> BOOLEAN]
        /\ result' \in [Threads -> {"done", "retry", "refused", "panic"}]
        /\ left' \in [Threads -> 0..Retries]
    BY <1>4, DropType DEF DrainAgain, Done, TypeOK
  <2> QED
    BY <1>0, <1>4, <2>1, <2>2 DEF DrainAgain, TypeOK
<1>5. ASSUME NEW t \in Threads, ClaimMark(t) PROVE TypeOK'
  <2>0. Restored \in Seq(Items) /\ (Restored # <<>> => Head(Restored) \in Items)
    <3>1. Restored \in Seq(Items)
      BY QueueOps DEF Restored, TypeOK
    <3> QED
      BY <3>1, HeadTailProperties
  <2>1. /\ queue' \in Seq(Items)
        /\ marker' \in Items \cup {None}
    BY <1>5, <2>0 DEF ClaimMark, TypeOK
  <2>2. queueLock' \in Threads \cup {None}
    BY <1>5 DEF ClaimMark, TypeOK
  <2>3. item' \in [Threads -> Items \cup {None}]
    <3>1. CASE Done(t)
      BY <3>1, DropType DEF Done
    <3>2. CASE ~Done(t)
      <4>1. item' = [item EXCEPT ![t] = Head(Restored)] /\ Head(Restored) \in Items
        BY <1>5, <2>0, <3>2 DEF ClaimMark
      <4> QED
        BY <4>1 DEF TypeOK
    <3> QED
      BY <3>1, <3>2
  <2>4. /\ claimed' \in [Threads -> BOOLEAN]
        /\ result' \in [Threads -> {"done", "retry", "refused", "panic"}]
        /\ left' \in [Threads -> 0..Retries]
    BY ZenonT(60), <1>5, DropType DEF ClaimMark, Done, TypeOK
  <2> QED
    BY <1>0, <1>5, <2>1, <2>2, <2>3, <2>4 DEF ClaimMark, TypeOK
<1>6. ASSUME NEW t \in Threads, ClaimPop(t) PROVE TypeOK'
  BY <1>0, <1>6, QueueOps DEF ClaimPop, TypeOK, Claiming
<1>7. ASSUME NEW t \in Threads, Launch(t) PROVE TypeOK'
  <2>0. Retries \in 0..Retries
    OBVIOUS
  <2>1. left' \in [Threads -> 0..Retries]
    BY <1>7, <2>0 DEF Launch, TypeOK
  <2> QED
    BY <1>0, <1>7, <2>1 DEF Launch, TypeOK
<1>8. ASSUME NEW t \in Threads, LaunchFails(t) PROVE TypeOK'
  <2>0. item[t] \in Items
    BY <1>8 DEF LaunchFails, InHand, HasRequest
  <2>1. /\ marker' \in Items \cup {None}
        /\ fresh' \in BOOLEAN
    BY <1>8 DEF LaunchFails, ClearInflight, TypeOK
  <2>2. wiped' \in SUBSET Items
    BY <1>8 DEF LaunchFails, ClearInflight, TypeOK
  <2>3. attempted' \in SUBSET Items
    BY <1>8, <2>0 DEF LaunchFails, TypeOK
  <2>4. ended' \in [Items -> SUBSET Answers]
    <3>1. ended' = ended \/ \E a \in Answers : Answer(item[t], a)
      BY <1>8 DEF LaunchFails, Answers
    <3> QED
      BY <2>0, <3>1 DEF Answer, TypeOK
  <2>5. /\ item' \in [Threads -> Items \cup {None}]
        /\ claimed' \in [Threads -> BOOLEAN]
        /\ result' \in [Threads -> {"done", "retry", "refused", "panic"}]
        /\ left' \in [Threads -> 0..Retries]
    BY ZenonT(60), <1>8, DropType DEF LaunchFails, Done, TypeOK
  <2> QED
    BY <1>0, <1>8, <2>1, <2>2, <2>3, <2>4, <2>5 DEF LaunchFails, ClearInflight, TypeOK
<1>9. ASSUME NEW t \in Threads, RecordDeadLetter(t) PROVE TypeOK'
  BY <1>0, <1>9, DropType DEF RecordDeadLetter, Done, Answer, TypeOK, InHand, HasRequest, Answers
<1>10. ASSUME NEW t \in Threads, Begin(t) PROVE TypeOK'
  <2>0. item[t] \in Items
    BY <1>10 DEF Begin, InHand, HasRequest
  <2>1. result' \in [Threads -> {"done", "retry", "refused", "panic"}]
    BY <1>10 DEF Begin, TypeOK
  <2>2. attempted' \in SUBSET Items
    BY <1>10, <2>0 DEF Begin, TypeOK
  <2> QED
    BY <1>0, <1>10, <2>1, <2>2 DEF Begin, TypeOK
<1>11. ASSUME NEW t \in Threads, AcquireLock(t) PROVE TypeOK'
  <2>0. item[t] \in Items
    BY <1>11 DEF AcquireLock, InHand, HasRequest
  <2>1. lock' \in Procs \cup {None, Stale}
    BY <1>11 DEF AcquireLock, TypeOK
  <2>2. result' \in [Threads -> {"done", "retry", "refused", "panic"}]
    BY <1>11 DEF AcquireLock, TypeOK
  <2>3. attempted' \in SUBSET Items
    BY <1>11, <2>0 DEF AcquireLock, TypeOK
  <2> QED
    BY <1>0, <1>11, <2>1, <2>2, <2>3 DEF AcquireLock, TypeOK
<1>12. ASSUME NEW t \in Threads, RunEnds(t) PROVE TypeOK'
  <2>0. item[t] \in Items
    BY <1>12 DEF RunEnds, InHand, HasRequest
  <2>1. lock' \in Procs \cup {None, Stale}
    BY <1>12 DEF RunEnds, TypeOK
  <2>2. result' \in [Threads -> {"done", "retry", "refused", "panic"}]
    BY ZenonT(60), <1>12 DEF RunEnds, TypeOK
  <2>3. attempted' \in SUBSET Items
    BY <1>12, <2>0 DEF RunEnds, TypeOK
  <2> QED
    BY <1>0, <1>12, <2>1, <2>2, <2>3 DEF RunEnds, TypeOK
<1>13. ASSUME NEW t \in Threads, AfterRun(t) PROVE TypeOK'
  <2>1. /\ marker' \in Items \cup {None}
        /\ fresh' \in BOOLEAN
    BY <1>13 DEF AfterRun, ClearInflight, TypeOK
  <2>2. wiped' \in SUBSET Items
    BY <1>13 DEF AfterRun, ClearInflight, TypeOK
  <2> QED
    BY <1>0, <1>13, <2>1, <2>2 DEF AfterRun, ClearInflight, TypeOK
<1>14. ASSUME NEW t \in Threads, Backoff(t) PROVE TypeOK'
  <2>0. item[t] \in Items /\ left[t] >= 1
    BY <1>14 DEF Backoff, InHand, HasRequest, Retrying
  <2>1. left' \in [Threads -> 0..Retries]
    <3>1. left[t] - 1 \in 0..Retries
      BY <2>0 DEF TypeOK, QueueAssumption
    <3>2. left' = left \/ left' = [left EXCEPT ![t] = left[t] - 1]
      BY <1>14 DEF Backoff
    <3> QED
      BY <3>1, <3>2 DEF TypeOK
  <2>2. attempted' \in SUBSET Items
    BY <1>14, <2>0 DEF Backoff, TypeOK
  <2> QED
    BY <1>0, <1>14, <2>1, <2>2 DEF Backoff, TypeOK
<1>15. ASSUME NEW t \in Threads, Finish(t) PROVE TypeOK'
  BY <1>0, <1>15 DEF Finish, Answer, TypeOK, InHand, HasRequest, Answers
<1>16. ASSUME NEW t \in Threads, WorkerDefer(t) PROVE TypeOK'
  BY <1>0, <1>16, DropType DEF WorkerDefer, ClearInflight, Drop, TypeOK
<1>17. ASSUME NEW t \in Threads, Boot(t) PROVE TypeOK'
  BY <1>0, <1>17 DEF Boot, ClearStale, Held, TypeOK
<1>18. ASSUME NEW t \in Threads, Reconcile(t) PROVE TypeOK'
  <2>1. item' \in [Threads -> Items \cup {None}]
    BY ZenonT(60), <1>18 DEF Reconcile, TypeOK
  <2>2. markLock' \in Threads \cup {None}
    BY <1>18 DEF Reconcile, TypeOK
  <2> QED
    BY <1>0, <1>18, <2>1, <2>2 DEF Reconcile, TypeOK
<1>19. ASSUME NEW t \in Threads, Restore(t) PROVE TypeOK'
  BY <1>0, <1>19, QueueOps DEF Restore, TypeOK, InHand, HasRequest
<1>20. ASSUME NEW t \in Threads, Unmark(t) PROVE TypeOK'
  BY <1>0, <1>20 DEF Unmark, TypeOK, InHand, HasRequest
<1>21. ASSUME NEW p \in Procs, Crash(p) PROVE TypeOK'
  <2>1. /\ item' \in [Threads -> Items \cup {None}]
        /\ claimed' \in [Threads -> BOOLEAN]
    BY <1>21 DEF Crash, TypeOK
  <2>2. /\ result' \in [Threads -> {"done", "retry", "refused", "panic"}]
        /\ left' \in [Threads -> 0..Retries]
    BY <1>21 DEF Crash, TypeOK
  <2>3. up' \in [Procs -> BOOLEAN] /\ crashes' \in 0..MaxCrashes
    BY <1>21 DEF Crash, TypeOK
  <2> QED
    BY <1>0, <1>21, <2>1, <2>2, <2>3 DEF Crash, TypeOK
<1>22. CASE GraceEnds
  BY <1>22 DEF GraceEnds, TypeOK
<1>23. CASE UNCHANGED vars
  BY <1>23 DEF vars, TypeOK
<1> QED
  BY <1>1, <1>2, <1>3, <1>4, <1>5, <1>6, <1>7, <1>8, <1>9, <1>10, <1>11, <1>12, <1>13, <1>14, <1>15, <1>16, <1>17, <1>18, <1>19, <1>20, <1>21, <1>22, <1>23
     DEF Next, Proceed

\* A step of a thread leaves the request in hand of all others alone.
LEMMA AloneStep ==
  ASSUME TypeInv, NEW t \in Threads, Proceed(t) \/ DrainTick(t) \/ Boot(t)
  PROVE  Alone(t)
<1> USE QueueAssumption DEF TypeInv, TypeOK, At, Goto, files, thread, history
<1>0. pc[t] \in HasRequest => item[t] \in Items
  BY DEF InHand
<1>1. CASE Enqueue(t)
  BY <1>0, <1>1 DEF Enqueue, Done, Drop, Alone, HasRequest, Retrying
<1>2. CASE DrainTick(t)
  BY <1>0, <1>2 DEF DrainTick, Alone, HasRequest, Retrying
<1>3. CASE DrainAgain(t)
  <2>1. \E l \in {"free", "claim"} : pc' = [pc EXCEPT ![t] = l]
    BY <1>3 DEF DrainAgain, Done, Drop
  <2>2. \A u \in Threads \ {t} : pc'[u] = pc[u]
    BY <2>1
  <2>3. \A u \in Threads \ {t} : item'[u] = item[u]
    BY <1>3 DEF DrainAgain, Done, Drop
  <2>4. \A u \in Threads \ {t} : left'[u] = left[u]
    BY <1>3 DEF DrainAgain, Done, Drop
  <2>5. pc'[t] \notin HasRequest
    BY <2>1 DEF HasRequest
  <2>6. pc'[t] # "backoff"
    BY <2>1
  <2> QED
    BY <2>2, <2>3, <2>4, <2>5, <2>6 DEF Alone
<1>4. CASE ClaimMark(t)
  <2>1. \E l \in {"free", "pop"} : pc' = [pc EXCEPT ![t] = l]
    BY <1>4 DEF ClaimMark, Done, Drop
  <2>2. \A u \in Threads \ {t} : pc'[u] = pc[u]
    BY <2>1
  <2>3. \A u \in Threads \ {t} : item'[u] = item[u]
    BY <1>4 DEF ClaimMark, Done, Drop
  <2>4. \A u \in Threads \ {t} : left'[u] = left[u]
    BY <1>4 DEF ClaimMark, Done, Drop
  <2>5. pc'[t] \in HasRequest => item'[t] \in Items
    <3>1. CASE pc' = [pc EXCEPT ![t] = "free"]
      BY <3>1 DEF HasRequest
    <3>2. CASE pc' # [pc EXCEPT ![t] = "free"]
      <4>1. item' = [item EXCEPT ![t] = Head(Restored)] /\ Restored # <<>>
        BY <1>4, <3>2 DEF ClaimMark, Done
      <4>2. Restored \in Seq(Items)
        BY QueueOps DEF Restored
      <4>3. Head(Restored) \in Items
        BY <4>1, <4>2, HeadTailProperties
      <4> QED
        BY <4>1, <4>3
    <3> QED
      BY <3>1, <3>2
  <2>6. pc'[t] # "backoff"
    BY <2>1
  <2> QED
    BY <2>2, <2>3, <2>4, <2>5, <2>6 DEF Alone
<1>5. CASE ClaimPop(t)
  BY <1>0, <1>5 DEF ClaimPop, Alone, HasRequest, Retrying
<1>6. CASE Launch(t)
  BY <1>0, <1>6 DEF Launch, Alone, HasRequest, Retrying
<1>7. CASE LaunchFails(t)
  <2>1. \E l \in {"free", "dead letter"} : pc' = [pc EXCEPT ![t] = l]
    BY <1>7 DEF LaunchFails, Done, Drop
  <2>2. \A u \in Threads \ {t} : pc'[u] = pc[u]
    BY <2>1
  <2>3. \A u \in Threads \ {t} : item'[u] = item[u]
    BY ZenonT(60), <1>7 DEF LaunchFails, Done, Drop
  <2>4. \A u \in Threads \ {t} : left'[u] = left[u]
    BY ZenonT(60), <1>7 DEF LaunchFails, Done, Drop
  <2>5. pc'[t] \in HasRequest => item'[t] \in Items
    <3>1. CASE pc' = [pc EXCEPT ![t] = "free"]
      BY <3>1 DEF HasRequest
    <3>2. CASE pc' # [pc EXCEPT ![t] = "free"]
      <4>1. item' = item /\ pc[t] = "start"
        BY <1>7, <3>2 DEF LaunchFails, Done
      <4> QED
        BY <1>0, <4>1 DEF HasRequest
    <3> QED
      BY <3>1, <3>2
  <2>6. pc'[t] # "backoff"
    BY <2>1
  <2> QED
    BY <2>2, <2>3, <2>4, <2>5, <2>6 DEF Alone
<1>8. CASE RecordDeadLetter(t)
  BY ZenonT(60), <1>0, <1>8 DEF RecordDeadLetter, Done, Drop, Alone, HasRequest, Retrying
<1>9. CASE Begin(t)
  <2>1. pc' = [pc EXCEPT ![t] = "after"] \/ pc' = [pc EXCEPT ![t] = "lock"]
    BY <1>9 DEF Begin
  <2>2. pc[t] \in HasRequest /\ item' = item /\ left' = left
    BY <1>9 DEF Begin, HasRequest
  <2> QED
    BY <1>0, <2>1, <2>2 DEF Alone
<1>10. CASE AcquireLock(t)
  <2>1. pc' = [pc EXCEPT ![t] = "after"] \/ pc' = [pc EXCEPT ![t] = "run"]
    BY <1>10 DEF AcquireLock
  <2>2. pc[t] \in HasRequest /\ item' = item /\ left' = left
    BY <1>10 DEF AcquireLock, HasRequest
  <2> QED
    BY <1>0, <2>1, <2>2 DEF Alone
<1>11. CASE RunEnds(t)
  BY ZenonT(60), <1>0, <1>11 DEF RunEnds, Alone, HasRequest, Retrying
<1>12. CASE AfterRun(t)
  <2>1. \E l \in {"backoff", "finish"} : pc' = [pc EXCEPT ![t] = l]
    BY <1>12 DEF AfterRun
  <2>2. \A u \in Threads \ {t} : pc'[u] = pc[u]
    BY <2>1
  <2>3. \A u \in Threads \ {t} : item'[u] = item[u]
    BY <1>12 DEF AfterRun
  <2>4. \A u \in Threads \ {t} : left'[u] = left[u]
    BY <1>12 DEF AfterRun
  <2>5. pc'[t] \in HasRequest => item'[t] \in Items
    BY <1>0, <1>12 DEF AfterRun, HasRequest
  <2>6. pc'[t] = "backoff" => left'[t] >= 1
    BY <1>12 DEF AfterRun, WillRetry
  <2> QED
    BY <2>2, <2>3, <2>4, <2>5, <2>6 DEF Alone
<1>13. CASE Backoff(t)
  BY ZenonT(60), <1>0, <1>13 DEF Backoff, Alone, HasRequest, Retrying
<1>14. CASE Finish(t)
  BY <1>0, <1>14 DEF Finish, Alone, HasRequest, Retrying
<1>15. CASE WorkerDefer(t)
  BY <1>0, <1>15 DEF WorkerDefer, Drop, Alone, HasRequest, Retrying
<1>16. CASE Boot(t)
  BY <1>0, <1>16 DEF Boot, Alone, HasRequest, Retrying
<1>17. CASE Reconcile(t)
  <2>1. \E l \in {"drain", "unmark", "restore"} : pc' = [pc EXCEPT ![t] = l]
    BY <1>17 DEF Reconcile
  <2>2. \A u \in Threads \ {t} : pc'[u] = pc[u]
    BY <2>1
  <2>3. \A u \in Threads \ {t} : item'[u] = item[u]
    BY <1>17 DEF Reconcile
  <2>4. \A u \in Threads \ {t} : left'[u] = left[u]
    BY <1>17 DEF Reconcile
  <2>5. pc'[t] \in HasRequest => item'[t] \in Items
    BY ZenonT(60), <1>0, <1>17 DEF Reconcile, HasRequest
  <2>6. pc'[t] # "backoff"
    BY <2>1
  <2> QED
    BY <2>2, <2>3, <2>4, <2>5, <2>6 DEF Alone
<1>18. CASE Restore(t)
  BY <1>0, <1>18 DEF Restore, Alone, HasRequest, Retrying
<1>19. CASE Unmark(t)
  BY <1>0, <1>19 DEF Unmark, Alone, HasRequest, Retrying
<1> QED
  BY <1>1, <1>2, <1>3, <1>4, <1>5, <1>6, <1>7, <1>8, <1>9, <1>10, <1>11, <1>12, <1>13, <1>14, <1>15, <1>16, <1>17, <1>18, <1>19
     DEF Proceed

\* Only ClaimNext works on the queue between its two steps.
LEMMA ClaimingStep ==
  ASSUME TypeInv, NEW t \in Threads, Proceed(t) \/ DrainTick(t) \/ Boot(t)
  PROVE  Claiming'
<1> USE QueueAssumption DEF TypeInv, TypeOK, At, Goto, files, thread, history, Claiming
<1>1. CASE Enqueue(t)
  BY QueueOps, <1>1 DEF Enqueue, Done, Drop
<1>2. CASE DrainTick(t)
  BY <1>2 DEF DrainTick
<1>3. CASE DrainAgain(t)
  BY <1>3 DEF DrainAgain, Done, Drop
<1>4. CASE ClaimMark(t)
  BY QueueOps, <1>4 DEF ClaimMark, Done, Drop
<1>5. CASE ClaimPop(t)
  BY <1>5 DEF ClaimPop
<1>6. CASE Launch(t)
  BY <1>6 DEF Launch
<1>7. CASE LaunchFails(t)
  <2>1. queue' = queue /\ queueLock' = queueLock
    BY <1>7 DEF LaunchFails, ClearInflight
  <2>2. \E l \in {"free", "dead letter"} : pc' = [pc EXCEPT ![t] = l]
    BY <1>7 DEF LaunchFails, Done
  <2>3. \A u \in Threads : pc'[u] = "pop" => pc[u] = "pop"
    BY <2>2
  <2> QED
    BY <2>1, <2>3
<1>8. CASE RecordDeadLetter(t)
  BY <1>8 DEF RecordDeadLetter, Done, Drop
<1>9. CASE Begin(t)
  BY <1>9 DEF Begin
<1>10. CASE AcquireLock(t)
  BY <1>10 DEF AcquireLock
<1>11. CASE RunEnds(t)
  BY <1>11 DEF RunEnds
<1>12. CASE AfterRun(t)
  BY <1>12 DEF AfterRun, ClearInflight
<1>13. CASE Backoff(t)
  BY <1>13 DEF Backoff
<1>14. CASE Finish(t)
  BY <1>14 DEF Finish
<1>15. CASE WorkerDefer(t)
  BY <1>15 DEF WorkerDefer, Drop, ClearInflight
<1>16. CASE Boot(t)
  BY <1>16 DEF Boot
<1>17. CASE Reconcile(t)
  BY <1>17 DEF Reconcile
<1>18. CASE Restore(t)
  BY QueueOps, <1>18 DEF Restore
<1>19. CASE Unmark(t)
  BY <1>19 DEF Unmark
<1> QED
  BY <1>1, <1>2, <1>3, <1>4, <1>5, <1>6, <1>7, <1>8, <1>9, <1>10, <1>11, <1>12, <1>13, <1>14, <1>15, <1>16, <1>17, <1>18, <1>19
     DEF Proceed

\* Every step keeps the invariant of the types.
LEMMA TypeInvStep ==
  ASSUME TypeInv, RunInv, [Next]_vars
  PROVE  TypeInv'
<1>0. TypeOK'
  BY TypeStep
<1>1. ASSUME NEW t \in Threads, Proceed(t) \/ DrainTick(t) \/ Boot(t) PROVE TypeInv'
  <2>1. Alone(t) /\ Claiming'
    BY <1>1, AloneStep, ClaimingStep
  <2>2. InHand' /\ Retrying'
    BY <2>1 DEF TypeInv, TypeOK, InHand, Retrying, Alone
  <2> QED
    BY <1>0, <2>1, <2>2 DEF TypeInv
<1>2. ASSUME NEW t \in Threads, NEW i \in Items, Submit(t, i) PROVE TypeInv'
  BY <1>0, <1>2 DEF Submit, Goto, files, TypeInv, TypeOK, InHand, Claiming, Retrying, HasRequest
<1>3. ASSUME NEW p \in Procs, Crash(p) PROVE TypeInv'
  <2>1. InHand'
    BY <1>3 DEF Crash, TypeInv, TypeOK, InHand, HasRequest
  <2>2. Claiming'
    BY <1>3 DEF Crash, TypeInv, TypeOK, Claiming
  <2>3. Retrying'
    BY <1>3 DEF Crash, TypeInv, TypeOK, Retrying
  <2> QED
    BY <1>0, <2>1, <2>2, <2>3 DEF TypeInv
<1>4. CASE GraceEnds
  BY <1>0, <1>4 DEF GraceEnds, thread, TypeInv, InHand, Claiming, Retrying
<1>5. CASE UNCHANGED vars
  BY <1>0, <1>5 DEF vars, files, thread, TypeInv, InHand, Claiming, Retrying
<1> QED
  BY <1>1, <1>2, <1>3, <1>4, <1>5 DEF Next

\* The invariant of the types.
LEMMA TypeInvariance == Spec => []TypeInv
<1>1. Init => TypeInv
  <2>1. Init => TypeOK
    <3>1. 0 \in 0..Retries /\ 0 \in 0..MaxCrashes
      BY QueueAssumption
    <3>2. <<>> \in Seq(Items)
      OBVIOUS
    <3>3. SUFFICES ASSUME Init PROVE TypeOK
      OBVIOUS
    <3>4. ended \in [Items -> SUBSET Answers]
      BY <3>3 DEF Init
    <3>5. pc \in [Threads -> Labels]
      BY <3>3 DEF Init, Labels
    <3> QED
      BY <3>1, <3>2, <3>3, <3>4, <3>5 DEF Init, TypeOK
  <2>2. Init => InHand /\ Claiming /\ Retrying
    BY DEF Init, InHand, Claiming, Retrying, HasRequest
  <2> QED
    BY <2>1, <2>2 DEF TypeInv
<1> QED
  BY <1>1, RunInvariance, TypeInvStep, PTL DEF Spec

\* Every variable keeps its type (TypeOK): a worker never has a request that is
\* none, ClaimNext never takes the head of an empty queue, and no retry is made
\* beyond the last.
THEOREM TypeCorrect == Spec => []TypeOK
<1>1. TypeInv => TypeOK
  BY DEF TypeInv
<1> QED
  BY <1>1, TypeInvariance, PTL

-----------------------------------------------------------------------------
\* The request is in a file, or its attempt or its loss is on record.
Kept(i) == InQueue(i) \/ marker = i \/ i \in attempted \cup wiped

\* Between the two steps of ClaimNext the marker names the head of the queue,
\* unless somebody removed it meanwhile.
Marked ==
  \A t \in Threads : pc[t] = "pop" =>
    /\ queueLock = t
    /\ item[t] = Head(queue)
    /\ \/ marker = item[t] /\ fresh
       \/ marker = None /\ item[t] \in attempted \cup wiped

\* A ReconcileInflight past its check has the datalock; as long as no marker
\* was written since, nobody claims, and it puts the item back before it
\* removes the marker.
AtMarker(t) == pc[t] \in {"restore", "unmark"}

Reconciling ==
  /\ \A t \in Threads : AtMarker(t) => markLock = t
  /\ \A t \in Threads : pc[t] = "unmark" /\ ~fresh => QueueContains(item[t])
  /\ \A t, u \in Threads : AtMarker(t) /\ ~fresh => pc[u] # "pop"

\* What the two files say, whatever happens to the programs.
FilesInv == DurableClaim /\ Marked /\ Reconciling

\* Whoever is about to remove the marker has tried its request.
Tried ==
  \A t \in Threads : (pc[t] = "after" /\ ~WillRetry(t)) \/ pc[t] \in {"finish", "defer"} =>
    item[t] \in attempted

\* What the queue contains after an item is put in front, or at the end, and
\* once its head is gone.
LEMMA QueueMembers ==
  ASSUME NEW q \in Seq(Items), NEW i \in Items
  PROVE  /\ \A x : (\E n \in DOMAIN (<<i>> \o q) : (<<i>> \o q)[n] = x)
                     <=> x = i \/ \E n \in DOMAIN q : q[n] = x
         /\ \A x : (\E n \in DOMAIN Append(q, i) : Append(q, i)[n] = x)
                     <=> x = i \/ \E n \in DOMAIN q : q[n] = x
         /\ q # <<>> =>
              \A x : (\E n \in DOMAIN q : q[n] = x) =>
                       x = Head(q) \/ \E n \in DOMAIN Tail(q) : Tail(q)[n] = x
<1>1. \A x : (\E n \in DOMAIN (<<i>> \o q) : (<<i>> \o q)[n] = x)
               <=> x = i \/ \E n \in DOMAIN q : q[n] = x
  <2>1. /\ <<i>> \in Seq(Items) /\ Len(<<i>>) = 1 /\ <<i>>[1] = i
        /\ Len(q) \in Nat /\ DOMAIN q = 1..Len(q)
    BY LenProperties
  <2>2. /\ DOMAIN (<<i>> \o q) = 1..(Len(q) + 1)
        /\ (<<i>> \o q)[1] = i
        /\ \A n \in 1..Len(q) : (<<i>> \o q)[n + 1] = q[n]
    BY <2>1, ConcatProperties
  <2>3. \A n \in 1..(Len(q) + 1) : n = 1 \/ (n - 1 \in 1..Len(q) /\ n = (n - 1) + 1)
    BY <2>1
  <2>4. \A n \in 1..Len(q) : n + 1 \in 1..(Len(q) + 1)
    BY <2>1
  <2>5. 1 \in 1..(Len(q) + 1)
    BY <2>1
  <2>6. \A x : (\E n \in DOMAIN (<<i>> \o q) : (<<i>> \o q)[n] = x)
                => x = i \/ \E n \in DOMAIN q : q[n] = x
    BY <2>1, <2>2, <2>3
  <2>7. \A n \in DOMAIN q : n + 1 \in DOMAIN (<<i>> \o q) /\ (<<i>> \o q)[n + 1] = q[n]
    BY <2>1, <2>2, <2>4
  <2>8. 1 \in DOMAIN (<<i>> \o q) /\ (<<i>> \o q)[1] = i
    BY <2>2, <2>5
  <2> QED
    BY <2>6, <2>7, <2>8
<1>2. \A x : (\E n \in DOMAIN Append(q, i) : Append(q, i)[n] = x)
               <=> x = i \/ \E n \in DOMAIN q : q[n] = x
  <2>1. /\ Len(q) \in Nat /\ DOMAIN q = 1..Len(q)
        /\ DOMAIN Append(q, i) = 1..(Len(q) + 1)
        /\ Append(q, i)[Len(q) + 1] = i
        /\ \A n \in 1..Len(q) : Append(q, i)[n] = q[n]
    BY LenProperties, AppendProperties
  <2> QED
    BY <2>1
<1>3. ASSUME q # <<>>
      PROVE  \A x : (\E n \in DOMAIN q : q[n] = x) =>
                      x = Head(q) \/ \E n \in DOMAIN Tail(q) : Tail(q)[n] = x
  <2>1. /\ Len(q) \in Nat /\ DOMAIN q = 1..Len(q) /\ Head(q) = q[1]
        /\ DOMAIN Tail(q) = 1..(Len(q) - 1)
        /\ \A n \in 1..(Len(q) - 1) : Tail(q)[n] = q[n + 1]
    <3>1. Tail(q) \in Seq(Items) /\ Len(Tail(q)) = Len(q) - 1 /\ Head(q) = q[1]
      BY <1>3, HeadTailProperties
    <3>2. \A n \in 1..(Len(q) - 1) : Tail(q)[n] = q[n + 1]
      BY <1>3, HeadTailProperties
    <3> QED
      BY <3>1, <3>2, LenProperties
  <2>2. \A n \in 1..Len(q) : n = 1 \/ (n - 1 \in 1..(Len(q) - 1) /\ n = (n - 1) + 1)
    BY <2>1
  <2>3. \A n \in DOMAIN q : n = 1 \/ (n - 1 \in DOMAIN Tail(q) /\ Tail(q)[n - 1] = q[n])
    BY <2>1, <2>2
  <2>4. q[1] = Head(q)
    BY <2>1
  <2> QED
    BY <2>3, <2>4
<1> QED
  BY <1>1, <1>2, <1>3

\* An item put back at the head of the queue is there, with all the others.
LEMMA PutInFront ==
  ASSUME queue \in Seq(Items), NEW i \in Items, queue' = <<i>> \o queue
  PROVE  \A x : InQueue(x)' <=> x = i \/ InQueue(x)
<1> DEFINE longer == <<i>> \o queue
<1>1. \A x : (\E n \in DOMAIN longer : longer[n] = x) <=> x = i \/ \E n \in DOMAIN queue : queue[n] = x
  BY QueueMembers
<1>2. queue' = longer
  OBVIOUS
<1> HIDE DEF longer
<1> QED
  BY <1>1, <1>2 DEF InQueue

\* One put at its end is there too.
LEMMA PutLast ==
  ASSUME queue \in Seq(Items), NEW i \in Items, queue' = Append(queue, i)
  PROVE  \A x : InQueue(x)' <=> x = i \/ InQueue(x)
BY QueueMembers DEF InQueue

\* The head taken off is all that it loses.
LEMMA TakeHead ==
  ASSUME queue \in Seq(Items), queue # <<>>, queue' = Tail(queue)
  PROVE  /\ \A x : InQueue(x) => x = Head(queue) \/ InQueue(x)'
         /\ \A x : InQueue(x)' => InQueue(x)
         /\ InQueue(Head(queue))
<1>1. Head(queue) \in Items
  BY QueueOps
<1>2. \A x : InQueue(x) => x = Head(queue) \/ InQueue(x)'
  BY ZenonT(60), <1>1, QueueMembers DEF InQueue
<1>3. /\ Len(queue) \in Nat /\ DOMAIN queue = 1..Len(queue) /\ Len(queue) > 0 /\ Head(queue) = queue[1]
      /\ DOMAIN queue' = 1..(Len(queue) - 1)
      /\ \A n \in 1..(Len(queue) - 1) : queue'[n] = queue[n + 1]
  <2>1. queue' \in Seq(Items) /\ Len(queue') = Len(queue) - 1 /\ Head(queue) = queue[1]
    BY HeadTailProperties
  <2>2. \A n \in 1..(Len(queue) - 1) : queue'[n] = queue[n + 1]
    BY HeadTailProperties
  <2>3. Len(queue) > 0
    BY EmptySeq, LenProperties
  <2> QED
    BY <2>1, <2>2, <2>3, LenProperties
<1>4. \A n \in 1..(Len(queue) - 1) : n + 1 \in 1..Len(queue)
  BY <1>3
<1>5. \A n \in DOMAIN queue' : n + 1 \in DOMAIN queue /\ queue'[n] = queue[n + 1]
  BY <1>3, <1>4
<1>6. 1 \in DOMAIN queue
  BY <1>3
<1> QED
  BY <1>2, <1>3, <1>5, <1>6 DEF InQueue

\* A step after which every kept request, or another one for its slot, is kept
\* and which queues only what is kept, preserves DurableClaim.
LEMMA KeptStep ==
  ASSUME DurableClaim,
         queued \subseteq Items,
         \A i \in queued' \ queued : i \in Items /\ Kept(i)',
         \A j \in Items : Kept(j) => \E k \in Items : Same(j, k) /\ Kept(k)'
  PROVE  DurableClaim'
<1>1. \A i, j, k \in Items : Same(i, j) /\ Same(j, k) => Same(i, k)
  BY DEF Same
<1>2. \A i \in Items : Same(i, i)
  BY DEF Same
<1>3. \A i \in queued : \E k \in Items : Same(i, k) /\ Kept(k)'
  BY <1>1 DEF DurableClaim, Kept
<1>4. \A i \in queued' : \E k \in Items : Same(i, k) /\ Kept(k)'
  BY <1>2, <1>3
<1> QED
  BY <1>4 DEF DurableClaim, Kept, Same, InQueue

\* What a step of one thread leaves alone.
Others(t) ==
  /\ \A u \in Threads \ {t} : /\ pc'[u] = pc[u]
                              /\ item'[u] = item[u]
                              /\ result'[u] = result[u]
                              /\ left'[u] = left[u]
  /\ attempted \subseteq attempted'
  /\ wiped \subseteq wiped'

\* A step of a thread changes nothing that another thread has in hand, and
\* forgets nothing that was tried or lost.
LEMMA OthersStep ==
  ASSUME TypeInv, NEW t \in Threads,
         Proceed(t) \/ DrainTick(t) \/ Boot(t) \/ \E i \in Items : Submit(t, i)
  PROVE  Others(t)
<1>1. \A u \in Threads \ {t} : pc'[u] = pc[u] /\ item'[u] = item[u] /\ left'[u] = left[u]
  <2>1. CASE \E i \in Items : Submit(t, i)
    BY <2>1 DEF Submit, Goto, TypeInv, TypeOK
  <2> QED
    BY <2>1, AloneStep DEF Alone
<1> USE DEF Goto, files, history, thread
<1>2. CASE Enqueue(t)
  BY <1>1, <1>2 DEF Enqueue, Done, Drop, Others, TypeInv, TypeOK
<1>3. CASE DrainTick(t)
  BY <1>1, <1>3 DEF DrainTick, Others, TypeInv, TypeOK
<1>4. CASE DrainAgain(t)
  BY <1>1, <1>4 DEF DrainAgain, Done, Drop, Others, TypeInv, TypeOK
<1>5. CASE ClaimMark(t)
  BY <1>1, <1>5 DEF ClaimMark, Done, Drop, Others, TypeInv, TypeOK
<1>6. CASE ClaimPop(t)
  BY <1>1, <1>6 DEF ClaimPop, Others, TypeInv, TypeOK
<1>7. CASE Launch(t)
  BY <1>1, <1>7 DEF Launch, Others, TypeInv, TypeOK
<1>8. CASE LaunchFails(t)
  BY <1>1, <1>8 DEF LaunchFails, Done, Drop, ClearInflight, Others, TypeInv, TypeOK
<1>9. CASE RecordDeadLetter(t)
  BY <1>1, <1>9 DEF RecordDeadLetter, Done, Drop, Others, TypeInv, TypeOK
<1>10. CASE Begin(t)
  BY <1>1, <1>10 DEF Begin, Others, TypeInv, TypeOK
<1>11. CASE AcquireLock(t)
  BY <1>1, <1>11 DEF AcquireLock, Others, TypeInv, TypeOK
<1>12. CASE RunEnds(t)
  BY <1>1, <1>12 DEF RunEnds, Others, TypeInv, TypeOK
<1>13. CASE AfterRun(t)
  BY <1>1, <1>13 DEF AfterRun, ClearInflight, Others, TypeInv, TypeOK
<1>14. CASE Backoff(t)
  BY <1>1, <1>14 DEF Backoff, Others, TypeInv, TypeOK
<1>15. CASE Finish(t)
  BY <1>1, <1>15 DEF Finish, Others, TypeInv, TypeOK
<1>16. CASE WorkerDefer(t)
  BY <1>1, <1>16 DEF WorkerDefer, Drop, ClearInflight, Others, TypeInv, TypeOK
<1>17. CASE Boot(t)
  BY <1>1, <1>17 DEF Boot, Others, TypeInv, TypeOK
<1>18. CASE Reconcile(t)
  BY <1>1, <1>18 DEF Reconcile, Others, TypeInv, TypeOK
<1>19. CASE Restore(t)
  BY <1>1, <1>19 DEF Restore, Others, TypeInv, TypeOK
<1>20. CASE Unmark(t)
  BY <1>1, <1>20 DEF Unmark, Others, TypeInv, TypeOK
<1>21. CASE \E i \in Items : Submit(t, i)
  BY <1>1, <1>21 DEF Submit, Others, TypeInv, TypeOK
<1> QED
  BY <1>2, <1>3, <1>4, <1>5, <1>6, <1>7, <1>8, <1>9, <1>10, <1>11, <1>12, <1>13, <1>14, <1>15, <1>16, <1>17, <1>18, <1>19, <1>20, <1>21 DEF Proceed

\* Nobody gets to the removal of the marker without having tried.
LEMMA TriedStep ==
  ASSUME Tried, TypeInv, NEW t \in Threads,
         Proceed(t) \/ DrainTick(t) \/ Boot(t) \/ \E i \in Items : Submit(t, i)
  PROVE  Tried'
<1> DEFINE TriedBy == (pc'[t] = "after" /\ ~(result'[t] = "retry" /\ left'[t] > 0))
                        \/ pc'[t] \in {"finish", "defer"} => item'[t] \in attempted'
<1>1. Others(t)
  BY OthersStep
<1>2. TriedBy => Tried'
  BY <1>1 DEF Others, Tried, WillRetry
<1> USE DEF Goto, At, files, history, thread
<1>3. CASE Enqueue(t)
  BY <1>3 DEF Enqueue, Done, Drop, Tried, WillRetry, TypeInv, TypeOK
<1>4. CASE DrainTick(t)
  BY <1>4 DEF DrainTick, Tried, WillRetry, TypeInv, TypeOK
<1>5. CASE DrainAgain(t)
  BY <1>5 DEF DrainAgain, Done, Drop, Tried, WillRetry, TypeInv, TypeOK
<1>6. CASE ClaimMark(t)
  <2>1. pc' = [pc EXCEPT ![t] = "free"] \/ pc' = [pc EXCEPT ![t] = "pop"]
    BY <1>6 DEF ClaimMark, Done
  <2> QED
    BY <1>2, <2>1 DEF TypeInv, TypeOK
<1>7. CASE ClaimPop(t)
  BY <1>7 DEF ClaimPop, Tried, WillRetry, TypeInv, TypeOK
<1>8. CASE Launch(t)
  BY <1>8 DEF Launch, Tried, WillRetry, TypeInv, TypeOK
<1>9. CASE LaunchFails(t)
  <2>1. pc' = [pc EXCEPT ![t] = "free"] \/ pc' = [pc EXCEPT ![t] = "dead letter"]
    BY <1>9 DEF LaunchFails, Done
  <2> QED
    BY <1>2, <2>1 DEF TypeInv, TypeOK
<1>10. CASE RecordDeadLetter(t)
  BY <1>10 DEF RecordDeadLetter, Done, Drop, Tried, WillRetry, TypeInv, TypeOK
<1>11. CASE Begin(t)
  BY <1>11 DEF Begin, Tried, WillRetry, TypeInv, TypeOK
<1>12. CASE AcquireLock(t)
  BY <1>12 DEF AcquireLock, Tried, WillRetry, TypeInv, TypeOK
<1>13. CASE RunEnds(t)
  BY <1>13 DEF RunEnds, Tried, WillRetry, TypeInv, TypeOK
<1>14. CASE AfterRun(t)
  BY <1>14 DEF AfterRun, ClearInflight, Tried, WillRetry, TypeInv, TypeOK
<1>15. CASE Backoff(t)
  BY <1>15 DEF Backoff, Tried, WillRetry, TypeInv, TypeOK
<1>16. CASE Finish(t)
  BY <1>16 DEF Finish, Tried, WillRetry, TypeInv, TypeOK
<1>17. CASE WorkerDefer(t)
  BY <1>17 DEF WorkerDefer, Drop, ClearInflight, Tried, WillRetry, TypeInv, TypeOK
<1>18. CASE Boot(t)
  BY <1>18 DEF Boot, Tried, WillRetry, TypeInv, TypeOK
<1>19. CASE Reconcile(t)
  BY <1>19 DEF Reconcile, Tried, WillRetry, TypeInv, TypeOK
<1>20. CASE Restore(t)
  BY <1>20 DEF Restore, Tried, WillRetry, TypeInv, TypeOK
<1>21. CASE Unmark(t)
  BY <1>21 DEF Unmark, Tried, WillRetry, TypeInv, TypeOK
<1>22. CASE \E i \in Items : Submit(t, i)
  BY <1>22 DEF Submit, Tried, WillRetry, TypeInv, TypeOK
<1> QED
  BY <1>2, <1>3, <1>4, <1>5, <1>6, <1>7, <1>8, <1>9, <1>10, <1>11, <1>12, <1>13, <1>14, <1>15, <1>16, <1>17, <1>18, <1>19, <1>20, <1>21, <1>22 DEF Proceed

\* A step that touches no file and is no step of a claim or of ReconcileInflight.
Steady(t) ==
  /\ UNCHANGED <<queue, marker, fresh, queueLock, markLock, queued, wiped>>
  /\ {pc[t], pc'[t]} \cap {"pop", "restore", "unmark"} = {}

\* A step that removes the marker: that of its own request, which is tried, or
\* that of another one, which counts as lost.
Removes(t) ==
  /\ ClearInflight(t)
  /\ queued' = queued
  /\ item[t] \in attempted'
  /\ {pc[t], pc'[t]} \cap {"pop", "restore", "unmark"} = {}

\* A step of the first kind keeps what is in the files.
LEMMA SteadyStep ==
  ASSUME FilesInv, TypeInv, NEW t \in Threads, Others(t), Steady(t)
  PROVE  FilesInv'
<1>1. \A j \in Items : Kept(j) => Kept(j)'
  BY DEF Steady, Others, Kept, InQueue
<1>2. DurableClaim'
  BY <1>1, KeptStep DEF FilesInv, Steady, TypeInv, TypeOK, Same
<1>3. \A u \in Threads : pc'[u] \in {"pop", "restore", "unmark"} => pc'[u] = pc[u] /\ item'[u] = item[u]
  BY DEF Steady, Others
<1>4. Marked'
  BY <1>3 DEF FilesInv, Marked, Steady, Others
<1>5. Reconciling'
  BY <1>3 DEF FilesInv, Reconciling, AtMarker, Steady, QueueContains, Same
<1> QED
  BY <1>2, <1>4, <1>5 DEF FilesInv

\* A step of the second kind does so too.
LEMMA RemovesStep ==
  ASSUME FilesInv, TypeInv, NEW t \in Threads, Others(t), Removes(t)
  PROVE  FilesInv'
<1>1. \A j \in Items : Kept(j) => Kept(j)'
  BY DEF Removes, ClearInflight, Others, Kept, InQueue
<1>2. DurableClaim'
  BY <1>1, KeptStep DEF FilesInv, Removes, TypeInv, TypeOK, Same
<1>3. \A u \in Threads : pc'[u] \in {"pop", "restore", "unmark"} => pc'[u] = pc[u] /\ item'[u] = item[u] /\ u # t
  BY DEF Removes, Others
<1>4. Marked'
  <2>1. /\ queue' = queue /\ queueLock' = queueLock /\ marker' = None
        /\ \A i \in Items : i = marker => i \in attempted' \cup wiped'
    BY DEF Removes, ClearInflight
  <2>2. \A u \in Threads : pc[u] = "pop" => item[u] \in Items
    BY DEF TypeInv, InHand, HasRequest
  <2> QED
    BY <1>3, <2>1, <2>2 DEF FilesInv, Marked, Others
<1>5. \A u \in Threads : ~AtMarker(u)'
  <2>1. \A u \in Threads : ~AtMarker(u)
    BY QueueAssumption DEF FilesInv, Reconciling, Removes, ClearInflight
  <2> QED
    BY <1>3, <2>1 DEF AtMarker, Removes
<1>6. Reconciling'
  BY <1>5 DEF Reconciling, AtMarker
<1> QED
  BY <1>2, <1>4, <1>6 DEF FilesInv

\* Enqueue appends its request, or touches no file.
LEMMA EnqueueStep ==
  ASSUME FilesInv, TypeInv, NEW t \in Threads, Enqueue(t)
  PROVE  FilesInv'
<1>0. Others(t) /\ item[t] \in Items /\ queue \in Seq(Items)
  BY OthersStep DEF Proceed, Enqueue, At, TypeInv, TypeOK, InHand, HasRequest
<1>1. /\ queueLock = None /\ pc[t] = "submit" /\ pc' = [pc EXCEPT ![t] = "free"]
      /\ UNCHANGED <<marker, fresh, queueLock, markLock, wiped>>
  BY DEF Enqueue, At, Done, Goto
<1>2. CASE UNCHANGED <<queue, queued>>
  BY <1>0, <1>1, <1>2, SteadyStep DEF Steady, TypeInv, TypeOK
<1>3. CASE queue' = Append(queue, item[t]) /\ queued' = queued \cup {item[t]}
  <2>1. \A i : InQueue(i)' <=> i = item[t] \/ InQueue(i)
    BY <1>0, <1>3, QueueMembers DEF InQueue
  <2>2. \A j \in Items : Kept(j) => Kept(j)'
    BY <1>0, <1>1, <2>1 DEF Kept, Others
  <2>3. DurableClaim'
    BY <1>0, <1>3, <2>1, <2>2, KeptStep DEF FilesInv, TypeInv, TypeOK, Same, Kept
  <2>4. \A u \in Threads : pc[u] # "pop" /\ pc'[u] # "pop"
    BY <1>1, QueueAssumption DEF FilesInv, Marked, TypeInv, TypeOK
  <2>5. Marked'
    BY <2>4 DEF Marked
  <2>6. \A u \in Threads : QueueContains(item[u]) /\ u # t => QueueContains(item[u])'
    <3>1. \A i : QueueContains(i) <=> \E k : InQueue(k) /\ Same(i, k)
      BY DEF QueueContains, InQueue
    <3>2. \A i : QueueContains(i)' <=> \E k : InQueue(k)' /\ Same(i, k)
      BY DEF QueueContains, InQueue, Same
    <3> QED
      BY <1>0, <2>1, <3>1, <3>2 DEF Others
  <2>7. Reconciling'
    BY <1>0, <1>1, <2>4, <2>6 DEF FilesInv, Reconciling, AtMarker, Others
  <2> QED
    BY <2>3, <2>5, <2>7 DEF FilesInv
<1> QED
  BY <1>2, <1>3 DEF Enqueue

\* ClaimNext marks what it is about to take, and gives nothing up for it.
LEMMA ClaimMarkStep ==
  ASSUME FilesInv, TypeInv, NEW t \in Threads, ClaimMark(t)
  PROVE  FilesInv'
<1>0. Others(t) /\ queue \in Seq(Items)
  BY OthersStep DEF Proceed, TypeInv, TypeOK
<1>1. CASE UNCHANGED files /\ Done(t)
  <2>1. Steady(t)
    BY <1>1 DEF ClaimMark, At, Done, Goto, Steady, files, history, TypeInv, TypeOK
  <2> QED
    BY <1>0, <2>1, SteadyStep
<1>2. CASE ~(UNCHANGED files /\ Done(t))
  <2>1. /\ Restored # <<>> /\ queue' = Restored /\ marker' = Head(Restored) /\ fresh' = TRUE
        /\ queueLock = None /\ queueLock' = t
        /\ item' = [item EXCEPT ![t] = Head(Restored)]
        /\ pc[t] = "claim" /\ pc' = [pc EXCEPT ![t] = "pop"]
        /\ UNCHANGED <<markLock, queued, wiped>>
    BY <1>2 DEF ClaimMark, At, Goto, history
  <2>2. /\ \A i : InQueue(i) => InQueue(i)'
        /\ \A i \in Items : i = marker => QueueContains(i) \/ InQueue(i)'
    <3>1. CASE ~(marker # None /\ ~QueueContains(marker))
      <4>1. queue' = queue /\ (marker \in Items => QueueContains(marker))
        BY <2>1, <3>1, QueueAssumption DEF Restored
      <4> QED
        BY <4>1 DEF InQueue
    <3>2. CASE marker # None /\ ~QueueContains(marker)
      <4>1. marker \in Items /\ queue' = <<marker>> \o queue
        BY <2>1, <3>2 DEF Restored, TypeInv, TypeOK
      <4>2. \A i : InQueue(i)' <=> i = marker \/ InQueue(i)
        BY <1>0, <4>1, PutInFront
      <4> QED
        BY <4>2
    <3> QED
      BY <3>1, <3>2
  <2>3. \A j \in Items : Kept(j) => \E k \in Items : Same(j, k) /\ Kept(k)'
    <3>1. \A j \in Items : Same(j, j)
      BY DEF Same
    <3>2. \A j \in Items : QueueContains(j) => \E k \in Items : Same(j, k) /\ InQueue(k)
      BY <1>0 DEF QueueContains, InQueue
    <3>3. \A j \in Items : InQueue(j)' \/ j \in attempted \cup wiped => Kept(j)'
      BY <1>0 DEF Kept, Others, InQueue
    <3>4. \A j \in Items : QueueContains(j) => \E k \in Items : Same(j, k) /\ Kept(k)'
      BY <2>2, <3>2, <3>3
    <3>5. \A j \in Items : j = marker => QueueContains(j) \/ Kept(j)'
      BY <2>2, <3>3
    <3> QED
      BY <2>2, <3>1, <3>3, <3>4, <3>5 DEF Kept
  <2>4. DurableClaim'
    BY <2>1, <2>3, KeptStep DEF FilesInv, TypeInv, TypeOK
  <2>5. \A u \in Threads : pc[u] # "pop"
    BY <2>1, QueueAssumption DEF FilesInv, Marked
  <2>6. Marked'
    BY <1>0, <2>1, <2>5 DEF Marked, Others, TypeInv, TypeOK
  <2>7. Reconciling'
    BY <1>0, <2>1 DEF FilesInv, Reconciling, AtMarker, Others, TypeInv, TypeOK
  <2> QED
    BY <2>4, <2>6, <2>7 DEF FilesInv
<1> QED
  BY <1>1, <1>2

\* ClaimNext takes off the queue what the marker has, or what was tried.
LEMMA ClaimPopStep ==
  ASSUME FilesInv, TypeInv, NEW t \in Threads, ClaimPop(t)
  PROVE  FilesInv'
<1>0. Others(t) /\ queue \in Seq(Items) /\ queue # <<>>
  BY OthersStep DEF Proceed, ClaimPop, At, TypeInv, TypeOK, Claiming
<1>1. /\ pc[t] = "pop" /\ pc' = [pc EXCEPT ![t] = "start"] /\ queue' = Tail(queue) /\ item' = item
      /\ UNCHANGED <<marker, fresh, markLock, queued, attempted, wiped>>
  BY DEF ClaimPop, At, Goto, history
<1>2. \A i : InQueue(i) => i = item[t] \/ InQueue(i)'
  <2>1. item[t] = Head(queue) /\ Head(queue) \in Items
    BY <1>0, <1>1, QueueOps DEF FilesInv, Marked
  <2> QED
    BY ZenonT(60), <1>0, <1>1, <2>1, QueueMembers DEF InQueue
<1>3. Kept(item[t])'
  BY <1>1 DEF FilesInv, Marked, Kept
<1>4. DurableClaim'
  BY <1>1, <1>2, <1>3, KeptStep DEF FilesInv, TypeInv, TypeOK, Kept, Same
<1>5. \A u \in Threads : pc'[u] # "pop"
  BY <1>0, <1>1 DEF FilesInv, Marked, Others, TypeInv, TypeOK
<1>6. Marked'
  BY <1>5 DEF Marked
<1>7. \A u \in Threads : pc'[u] \in {"restore", "unmark"} => fresh /\ pc[u] = pc'[u]
  BY <1>0, <1>1 DEF FilesInv, Reconciling, AtMarker, Others, TypeInv, TypeOK
<1>8. Reconciling'
  BY <1>1, <1>7 DEF FilesInv, Reconciling, AtMarker
<1> QED
  BY <1>4, <1>6, <1>8 DEF FilesInv

\* ReconcileInflight finds an old marker: nobody is in the middle of a claim.
LEMMA ReconcileStep ==
  ASSUME FilesInv, TypeInv, NEW t \in Threads, Reconcile(t)
  PROVE  FilesInv'
<1>0. Others(t)
  BY OthersStep DEF Proceed
<1>1. CASE UNCHANGED markLock
  <2>1. pc' = [pc EXCEPT ![t] = "drain"] /\ pc[t] = "reconcile"
    BY <1>1, QueueAssumption DEF Reconcile, At, Goto
  <2>2. Steady(t)
    BY <1>1, <2>1 DEF Reconcile, Steady, history, TypeInv, TypeOK
  <2> QED
    BY <1>0, <2>2, SteadyStep
<1>2. CASE markLock' # markLock
  <2>1. /\ marker # None /\ ~fresh /\ item' = [item EXCEPT ![t] = marker]
        /\ markLock = None /\ markLock' = t /\ pc[t] = "reconcile"
        /\ pc' = [pc EXCEPT ![t] = IF QueueContains(marker) THEN "unmark" ELSE "restore"]
        /\ UNCHANGED <<queue, marker, fresh, queueLock, queued, attempted, wiped>>
    BY <1>2 DEF Reconcile, At, Goto, history
  <2>2. DurableClaim'
    BY <2>1 DEF FilesInv, DurableClaim, InQueue, Same
  <2>3. \A u \in Threads : pc[u] # "pop" /\ pc'[u] # "pop"
    BY <2>1 DEF FilesInv, Marked, TypeInv, TypeOK
  <2>4. \A u \in Threads : ~AtMarker(u)
    BY <2>1, QueueAssumption DEF FilesInv, Reconciling
  <2>5. Reconciling'
    BY ZenonT(60), <1>0, <2>1, <2>3, <2>4 DEF Reconciling, AtMarker, QueueContains, Same, Others, TypeInv, TypeOK
  <2> QED
    BY <2>2, <2>3, <2>5 DEF FilesInv, Marked
<1> QED
  BY <1>1, <1>2

\* EnqueueFront puts the item in front, when nobody is in the middle of a claim.
LEMMA RestoreStep ==
  ASSUME FilesInv, TypeInv, NEW t \in Threads, Restore(t)
  PROVE  FilesInv'
<1>0. Others(t) /\ item[t] \in Items /\ queue \in Seq(Items)
  BY OthersStep DEF Proceed, Restore, At, TypeInv, TypeOK, InHand, HasRequest
<1>1. /\ pc[t] = "restore" /\ pc' = [pc EXCEPT ![t] = "unmark"] /\ queueLock = None
      /\ queue' = <<item[t]>> \o queue /\ item' = item
      /\ UNCHANGED <<marker, fresh, queueLock, markLock, queued, attempted, wiped>>
  BY DEF Restore, At, Goto, history
<1>2. \A i : InQueue(i)' <=> i = item[t] \/ InQueue(i)
  BY <1>0, <1>1, PutInFront
<1>3. DurableClaim'
  <2>1. \A j \in Items : Kept(j) => Kept(j)'
    BY <1>1, <1>2 DEF Kept
  <2> QED
    BY <1>1, <2>1, KeptStep DEF FilesInv, TypeInv, TypeOK, Same
<1>4. \A u \in Threads : pc[u] # "pop" /\ pc'[u] # "pop"
  BY <1>1, QueueAssumption DEF FilesInv, Marked, TypeInv, TypeOK
<1>5. \A u \in Threads : AtMarker(u) => u = t
  BY <1>1 DEF FilesInv, Reconciling, AtMarker
<1>6. QueueContains(item[t])'
  BY <1>1, <1>2 DEF QueueContains, InQueue, Same
<1>7. Reconciling'
  BY <1>0, <1>1, <1>4, <1>5, <1>6 DEF FilesInv, Reconciling, AtMarker, Others
<1> QED
  BY <1>3, <1>4, <1>7 DEF FilesInv, Marked

\* ReconcileInflight removes a marker whose item is in the queue by now; any
\* other one counts as lost.
LEMMA UnmarkStep ==
  ASSUME FilesInv, TypeInv, NEW t \in Threads, Unmark(t)
  PROVE  FilesInv'
<1>0. Others(t) /\ item[t] \in Items /\ queue \in Seq(Items) /\ marker \in Items \cup {None}
  BY OthersStep DEF Proceed, Unmark, At, TypeInv, TypeOK, InHand, HasRequest
<1>1. /\ pc[t] = "unmark" /\ pc' = [pc EXCEPT ![t] = "drain"] /\ marker' = None
      /\ wiped' = wiped \cup {i \in Items : i = marker /\ (i # item[t] \/ fresh)}
      /\ UNCHANGED <<queue, queueLock, queued, attempted>>
  BY DEF Unmark, At, Goto
<1>2. \A j \in Items : Kept(j) => \E k \in Items : Same(j, k) /\ Kept(k)'
  <2>1. \A j \in Items : Same(j, j)
    BY DEF Same
  <2>2. ~fresh => \E k \in Items : Same(item[t], k) /\ InQueue(k)
    BY <1>0, <1>1 DEF FilesInv, Reconciling, QueueContains, InQueue
  <2>3. \A j \in Items : InQueue(j) \/ j \in attempted \cup wiped => Kept(j)'
    BY <1>1 DEF Kept, InQueue
  <2>4. \A j \in Items : j = marker => (j = item[t] /\ ~fresh) \/ Kept(j)'
    BY <1>1 DEF Kept
  <2> QED
    BY <1>0, <2>1, <2>2, <2>3, <2>4 DEF Kept
<1>3. DurableClaim'
  BY <1>1, <1>2, KeptStep DEF FilesInv, TypeInv, TypeOK
<1>4. \A u \in Threads : AtMarker(u) => u = t
  BY <1>1 DEF FilesInv, Reconciling, AtMarker
<1>5. \A u \in Threads : ~AtMarker(u)'
  BY <1>0, <1>1, <1>4 DEF AtMarker, Others, TypeInv, TypeOK
<1>6. \A u \in Threads : pc'[u] = "pop" => u # t /\ pc[u] = "pop" /\ item'[u] = item[u] /\ item[u] \in Items
  BY <1>0, <1>1 DEF Others, TypeInv, TypeOK, InHand, HasRequest
<1>7. \A u \in Threads : pc[u] = "pop" => fresh
  BY <1>1 DEF FilesInv, Reconciling, AtMarker
<1>8. Marked'
  BY <1>1, <1>6, <1>7 DEF FilesInv, Marked
<1>9. Reconciling'
  BY <1>5 DEF Reconciling, AtMarker
<1> QED
  BY <1>3, <1>8, <1>9 DEF FilesInv

\* What the files say survives the crash of any program at any step.
LEMMA CrashStep ==
  ASSUME FilesInv, Tried, TypeInv, NEW p \in Procs, Crash(p)
  PROVE  FilesInv' /\ Tried'
<1>1. /\ UNCHANGED <<queue, marker, fresh, queued, attempted, wiped>>
      /\ \A u \in Threads : \/ pc'[u] = "free"
                            \/ /\ Owner[u] # p /\ pc'[u] = pc[u] /\ item'[u] = item[u]
                               /\ result'[u] = result[u] /\ left'[u] = left[u]
                               /\ queueLock = u => queueLock' = u
                               /\ markLock = u => markLock' = u
  BY DEF Crash, history, TypeInv, TypeOK
<1>2. DurableClaim'
  BY <1>1 DEF FilesInv, DurableClaim, InQueue, Same
<1>3. Marked'
  BY <1>1 DEF FilesInv, Marked
<1>4. Reconciling'
  BY <1>1 DEF FilesInv, Reconciling, AtMarker, QueueContains, Same
<1>5. Tried'
  BY <1>1 DEF Tried, WillRetry
<1> QED
  BY <1>2, <1>3, <1>4, <1>5 DEF FilesInv

\* Every step keeps the invariant of the claims.
LEMMA ClaimStep ==
  ASSUME FilesInv, Tried, TypeInv, [Next]_vars
  PROVE  FilesInv' /\ Tried'
<1> USE DEF At, Goto, files, history, thread
<1>1. ASSUME NEW t \in Threads, Others(t), Steady(t) \/ Removes(t)
      PROVE  FilesInv'
  BY <1>1, SteadyStep, RemovesStep
<1>2. ASSUME NEW t \in Threads, DrainTick(t) PROVE Steady(t)
  BY <1>2 DEF DrainTick, Steady, TypeInv, TypeOK
<1>3. ASSUME NEW t \in Threads, DrainAgain(t) PROVE Steady(t)
  BY <1>3 DEF DrainAgain, Done, Steady, TypeInv, TypeOK
<1>4. ASSUME NEW t \in Threads, Launch(t) PROVE Steady(t)
  BY <1>4 DEF Launch, Steady, TypeInv, TypeOK
<1>5. ASSUME NEW t \in Threads, LaunchFails(t) PROVE Steady(t) \/ Removes(t)
  BY <1>5 DEF LaunchFails, Done, Steady, Removes, Tried, TypeInv, TypeOK
<1>6. ASSUME NEW t \in Threads, RecordDeadLetter(t) PROVE Steady(t)
  BY <1>6 DEF RecordDeadLetter, Done, Steady, TypeInv, TypeOK
<1>7. ASSUME NEW t \in Threads, Begin(t) PROVE Steady(t)
  BY <1>7 DEF Begin, Steady, TypeInv, TypeOK
<1>8. ASSUME NEW t \in Threads, AcquireLock(t) PROVE Steady(t)
  BY <1>8 DEF AcquireLock, Steady, TypeInv, TypeOK
<1>9. ASSUME NEW t \in Threads, RunEnds(t) PROVE Steady(t)
  BY <1>9 DEF RunEnds, Steady, TypeInv, TypeOK
<1>10. ASSUME NEW t \in Threads, AfterRun(t) PROVE Steady(t) \/ Removes(t)
  BY <1>10 DEF AfterRun, Steady, Removes, Tried, TypeInv, TypeOK
<1>11. ASSUME NEW t \in Threads, Backoff(t) PROVE Steady(t)
  BY <1>11 DEF Backoff, Steady, TypeInv, TypeOK
<1>12. ASSUME NEW t \in Threads, Finish(t) PROVE Steady(t)
  BY <1>12 DEF Finish, Steady, TypeInv, TypeOK
<1>13. ASSUME NEW t \in Threads, WorkerDefer(t) PROVE Removes(t)
  BY <1>13 DEF WorkerDefer, Done, Steady, Removes, Tried, TypeInv, TypeOK
<1>14. ASSUME NEW t \in Threads, Boot(t) PROVE Steady(t)
  BY <1>14 DEF Boot, Steady, TypeInv, TypeOK
<1>15. ASSUME NEW t \in Threads, NEW i \in Items, Submit(t, i) PROVE Steady(t)
  BY <1>15 DEF Submit, Steady, TypeInv, TypeOK
<1>16. ASSUME NEW t \in Threads, Proceed(t) \/ DrainTick(t) \/ Boot(t) \/ \E i \in Items : Submit(t, i)
       PROVE  FilesInv' /\ Tried'
  <2>1. Others(t) /\ Tried'
    BY <1>16, OthersStep, TriedStep
  <2>2. FilesInv'
    BY <1>16, <2>1, <1>1, <1>2, <1>3, <1>4, <1>5, <1>6, <1>7, <1>8, <1>9, <1>10, <1>11,
       <1>12, <1>13, <1>14, <1>15, EnqueueStep, ClaimMarkStep, ClaimPopStep, ReconcileStep, RestoreStep, UnmarkStep DEF Proceed
  <2> QED
    BY <2>1, <2>2
<1>17. CASE GraceEnds
  BY <1>17, QueueAssumption
     DEF GraceEnds, FilesInv, DurableClaim, Marked, Reconciling, AtMarker, Tried, WillRetry, InQueue, Same
<1>18. CASE UNCHANGED vars
  BY <1>18 DEF vars, FilesInv, DurableClaim, Marked, Reconciling, AtMarker, Tried, WillRetry,
     InQueue, QueueContains, Same
<1> QED
  BY <1>16, <1>17, <1>18, CrashStep DEF Next

\* A queued request is in the queue or in the marker until it, or another one
\* for its slot, has been tried, at every step of every program and through
\* every crash (DurableClaim), but for the markers that are removed by who did
\* not write them.
THEOREM ClaimsAreDurable == Spec => []DurableClaim
<1>1. Init => FilesInv /\ Tried
  BY DEF Init, FilesInv, DurableClaim, Marked, Reconciling, AtMarker, Tried
<1>2. FilesInv => DurableClaim
  BY DEF FilesInv
<1> QED
  BY <1>1, <1>2, TypeInvariance, ClaimStep, PTL DEF Spec

-----------------------------------------------------------------------------
(* The ledger: BackupQueue implements RunLedger while no program crashes, for    *)
(* any programs, goroutines and requests, any queue limit and any number of      *)
(* retries.                                                                      *)


\* A thread with a request in one of these places has still to answer it.
Working == {"submit", "pop", "start", "dead letter", "begin", "lock", "run",
            "after", "backoff", "finish"}

\* Nobody handles a request that was not submitted.
Known ==
  /\ \A i : InQueue(i) => i \in submitted
  /\ marker # None => marker \in submitted
  /\ \A t \in Threads : pc[t] \in HasRequest => item[t] \in submitted
  /\ \A i \in Items : ended[i] # {} => i \in submitted

\* A request on its way into the queue is nowhere else and has no answer yet.
Entering ==
  \A t \in Threads : pc[t] = "submit" =>
    /\ ~InQueue(item[t])
    /\ marker # item[t]
    /\ ended[item[t]] = {}
    /\ \A u \in Threads \ {t} : pc[u] \in HasRequest => item[u] # item[t]

\* A request without an answer is in the queue, or a thread is working on it.
Worked(i) == \E t \in Threads : item[t] = i /\ pc[t] \in Working

Accounted == \A i \in submitted : ended[i] = {} => InQueue(i) \/ Worked(i)

\* Only a program that is up has anything under way.
Alive == \A t \in Threads : pc[t] # "free" => up[Owner[t]]

LedgerInv == Known /\ Entering /\ Accounted /\ Alive

\* What every step of a thread does to the requests it does not handle.
Keeps(t) ==
  /\ Others(t)
  /\ \A p \in Procs : up[p] => up'[p]
  /\ pc'[t] # "free" => up'[Owner[t]]
  /\ pc'[t] \in HasRequest => pc[t] \in HasRequest /\ item'[t] = item[t]

\* A step that answers nobody: a request in work stays so.
Carries(t) ==
  /\ UNCHANGED <<queue, submitted, ended>>
  /\ marker' \in {marker, None}
  /\ pc'[t] # "submit"
  /\ pc[t] \in Working => pc'[t] \in Working

\* A step that answers the request in hand.
Answering(t) ==
  /\ \E a \in Answers : Answer(item[t], a)
  /\ UNCHANGED <<queue, submitted>>
  /\ marker' \in {marker, None}
  /\ pc[t] \in Working
  /\ pc'[t] # "submit"

\* The invariant holds after a step of the first kind.
LEMMA CarriesStep ==
  ASSUME LedgerInv, TypeInv, NEW t \in Threads, Keeps(t), Carries(t)
  PROVE  LedgerInv'
<1>1. Known'
  BY DEF LedgerInv, Known, Carries, Keeps, Others, InQueue
<1>2. Entering'
  <2>1. SUFFICES ASSUME NEW u \in Threads, pc'[u] = "submit"
                 PROVE  /\ ~InQueue(item[u]) /\ marker' # item[u] /\ ended'[item[u]] = {}
                        /\ item'[u] = item[u]
                        /\ \A v \in Threads \ {u} : pc'[v] \in HasRequest => item'[v] # item[u]
    BY DEF Entering, Carries, InQueue
  <2>2. u # t /\ pc[u] = "submit" /\ item'[u] = item[u] /\ item[u] \in Items
    BY <2>1 DEF Carries, Keeps, Others, TypeInv, InHand, HasRequest
  <2>3. /\ ~InQueue(item[u]) /\ marker # item[u] /\ ended[item[u]] = {}
        /\ \A v \in Threads \ {u} : pc[v] \in HasRequest => item[v] # item[u]
    BY <2>2 DEF LedgerInv, Entering
  <2> QED
    BY <2>2, <2>3, QueueAssumption DEF Carries, Keeps, Others
<1>3. Accounted'
  <2>1. \A i : Worked(i) => Worked(i)'
    BY ZenonT(60) DEF Worked, Carries, Keeps, Others, Working, HasRequest
  <2> QED
    BY <2>1 DEF LedgerInv, Accounted, Carries, InQueue
<1>4. Alive'
  BY QueueAssumption DEF LedgerInv, Alive, Keeps, Others
<1> QED
  BY <1>1, <1>2, <1>3, <1>4 DEF LedgerInv

\* It holds after a step of the second kind.
LEMMA AnsweringStep ==
  ASSUME LedgerInv, TypeInv, NEW t \in Threads, Keeps(t), Answering(t)
  PROVE  LedgerInv'
<1>0. /\ item[t] \in Items /\ item[t] \in submitted /\ pc[t] \in HasRequest
      /\ ended'[item[t]] # {}
      /\ \A i \in Items \ {item[t]} : ended'[i] = ended[i]
  BY ZenonT(60) DEF Answering, Working, HasRequest, Answer, TypeInv, TypeOK, InHand, LedgerInv, Known
<1>1. Known'
  <2>1. \A i \in Items : ended'[i] # {} => i \in submitted'
    BY <1>0 DEF LedgerInv, Known, Answering
  <2> QED
    BY <2>1 DEF LedgerInv, Known, Answering, Keeps, Others, InQueue
<1>2. Entering'
  <2>1. SUFFICES ASSUME NEW u \in Threads, pc'[u] = "submit"
                 PROVE  /\ ~InQueue(item[u]) /\ marker' # item[u] /\ ended'[item[u]] = {}
                        /\ item'[u] = item[u]
                        /\ \A v \in Threads \ {u} : pc'[v] \in HasRequest => item'[v] # item[u]
    BY DEF Entering, Answering, InQueue
  <2>2. u # t /\ pc[u] = "submit" /\ item'[u] = item[u] /\ item[u] \in Items
    BY <2>1 DEF Answering, Keeps, Others, TypeInv, InHand, HasRequest
  <2>3. /\ ~InQueue(item[u]) /\ marker # item[u] /\ ended[item[u]] = {}
        /\ \A v \in Threads \ {u} : pc[v] \in HasRequest => item[v] # item[u]
    BY <2>2 DEF LedgerInv, Entering
  <2> QED
    BY <1>0, <2>2, <2>3, QueueAssumption DEF Answering, Keeps, Others
<1>3. Accounted'
  <2>1. \A i : Worked(i) /\ i # item[t] => Worked(i)'
    BY DEF Worked, Answering, Keeps, Others, Working, HasRequest
  <2>2. submitted \subseteq Items
    BY DEF TypeInv, TypeOK
  <2> QED
    BY <1>0, <2>1, <2>2 DEF LedgerInv, Accounted, Answering, InQueue
<1>4. Alive'
  BY QueueAssumption DEF LedgerInv, Alive, Keeps, Others
<1> QED
  BY <1>1, <1>2, <1>3, <1>4 DEF LedgerInv

\* A new request is in nobody's hands before.
LEMMA SubmitLedger ==
  ASSUME LedgerInv, TypeInv, NEW t \in Threads, NEW i \in Items, Submit(t, i)
  PROVE  LedgerInv'
<1>0. /\ Others(t) /\ i \notin submitted /\ submitted' = submitted \cup {i}
      /\ item'[t] = i /\ pc[t] = "free" /\ pc'[t] \in {"start", "submit"} /\ up[Owner[t]]
      /\ UNCHANGED <<up, queue, marker, ended>>
  <2>1. Others(t)
    BY OthersStep
  <2> QED
    BY <2>1 DEF Submit, At, Goto, files, TypeInv, TypeOK
<1>1. Known'
  BY <1>0 DEF LedgerInv, Known, Others, InQueue
<1>2. Entering'
  <2>1. SUFFICES ASSUME NEW u \in Threads, pc'[u] = "submit"
                 PROVE  /\ ~InQueue(item'[u]) /\ marker # item'[u] /\ ended[item'[u]] = {}
                        /\ \A v \in Threads \ {u} : pc'[v] \in HasRequest => item'[v] # item'[u]
    BY <1>0 DEF Entering, InQueue
  <2>2. CASE u = t
    BY <1>0, <2>2, QueueAssumption DEF LedgerInv, Known, Others
  <2>3. CASE u # t
    <3>1. pc[u] = "submit" /\ item'[u] = item[u] /\ item[u] \in submitted
      BY <1>0, <2>1, <2>3 DEF LedgerInv, Known, Others, HasRequest
    <3>2. \A v \in Threads \ {u} : pc'[v] \in HasRequest => item'[v] # item[u]
      BY <1>0, <3>1 DEF LedgerInv, Entering, Others
    <3> QED
      BY <1>0, <3>1, <3>2 DEF LedgerInv, Entering
  <2> QED
    BY <2>2, <2>3
<1>3. Accounted'
  <2>1. \A j : Worked(j) => Worked(j)'
    BY <1>0 DEF Worked, Others, Working
  <2>2. Worked(i)'
    BY <1>0 DEF Worked, Working
  <2> QED
    BY <1>0, <2>1, <2>2 DEF LedgerInv, Accounted, InQueue
<1>4. Alive'
  BY <1>0, QueueAssumption DEF LedgerInv, Alive, Others
<1> QED
  BY <1>1, <1>2, <1>3, <1>4 DEF LedgerInv

\* A step after which the queue has more, all of it submitted and nothing of it
\* on its way in, and which takes nothing out of work.
Refills(t) ==
  /\ UNCHANGED <<submitted, ended, up>>
  /\ marker' # None => marker' \in submitted
  /\ \A i : InQueue(i) => InQueue(i)'
  /\ \A i : InQueue(i)' => i \in submitted
  /\ \A u \in Threads \ {t}, i \in Items : pc[u] = "submit" /\ item[u] = i => ~InQueue(i)' /\ marker' # i
  /\ pc'[t] # "submit"
  /\ pc'[t] \in HasRequest => item'[t] \in submitted
  /\ pc'[t] \in HasRequest =>
       \A u \in Threads \ {t} : pc[u] = "submit" => item'[t] # item[u]
  /\ \A i \in Items : pc[t] \in Working /\ item[t] = i => InQueue(i)'
  /\ up[Owner[t]]

\* It holds after such a step.
LEMMA RefillsStep ==
  ASSUME LedgerInv, TypeInv, NEW t \in Threads, Others(t), Refills(t)
  PROVE  LedgerInv'
<1>1. Known'
  <2>1. \A u \in Threads : pc'[u] \in HasRequest => item'[u] \in submitted'
    BY DEF LedgerInv, Known, Refills, Others
  <2>2. \A i : InQueue(i)' => i \in submitted'
    BY DEF Refills
  <2> QED
    BY <2>1, <2>2 DEF LedgerInv, Known, Refills
<1>2. Entering'
  <2>1. SUFFICES ASSUME NEW u \in Threads, pc'[u] = "submit", NEW i \in Items, i = item[u]
                 PROVE  /\ ~InQueue(i)' /\ marker' # i /\ ended[i] = {} /\ item'[u] = i
                        /\ \A v \in Threads \ {u} : pc'[v] \in HasRequest => item'[v] # i
    <3>1. \A u \in Threads : pc'[u] = "submit" => item[u] \in Items
      BY DEF Refills, Others, TypeInv, InHand, HasRequest
    <3> QED
      BY <3>1 DEF Entering, InQueue, Refills
  <2>2. u # t /\ pc[u] = "submit" /\ item'[u] = i
    BY <2>1 DEF Refills, Others
  <2>3. ~InQueue(i)' /\ marker' # i /\ ended[i] = {}
    BY <2>1, <2>2 DEF LedgerInv, Entering, Refills
  <2>4. \A v \in Threads \ {u} : pc'[v] \in HasRequest => item'[v] # i
    BY <2>1, <2>2 DEF LedgerInv, Entering, Refills, Others
  <2> QED
    BY <2>2, <2>3, <2>4
<1>3. Accounted'
  <2>1. \A i \in Items : Worked(i) => Worked(i)' \/ InQueue(i)'
    BY DEF Worked, Refills, Others
  <2> QED
    BY <2>1 DEF LedgerInv, Accounted, Refills, TypeInv, TypeOK
<1>4. Alive'
  BY QueueAssumption DEF LedgerInv, Alive, Refills, Others
<1> QED
  BY <1>1, <1>2, <1>3, <1>4 DEF LedgerInv

\* Nothing leaves the queue but into the hands of who claimed it.
LEMMA PopLedger ==
  ASSUME LedgerInv, FilesInv, TypeInv, NEW t \in Threads, ClaimPop(t)
  PROVE  LedgerInv'
<1>0. /\ Others(t) /\ queue \in Seq(Items) /\ queue # <<>>
      /\ pc[t] = "pop" /\ pc'[t] = "start" /\ up[Owner[t]]
      /\ item[t] = Head(queue) /\ item'[t] = item[t] /\ queue' = Tail(queue)
      /\ UNCHANGED <<up, marker, submitted, ended>>
  <2>1. Others(t)
    BY OthersStep DEF Proceed
  <2> QED
    BY <2>1 DEF ClaimPop, At, Goto, history, TypeInv, TypeOK, Claiming, FilesInv, Marked
<1>1. /\ \A i : InQueue(i) => i = item[t] \/ InQueue(i)'
      /\ \A i : InQueue(i)' => InQueue(i)
  BY <1>0, TakeHead
<1>2. Known'
  BY <1>0, <1>1 DEF LedgerInv, Known, Others, HasRequest
<1>3. Entering'
  <2>1. SUFFICES ASSUME NEW u \in Threads, pc'[u] = "submit", NEW i \in Items, i = item[u]
                 PROVE  /\ ~InQueue(i)' /\ marker # i /\ ended[i] = {} /\ item'[u] = i
                        /\ \A v \in Threads \ {u} : pc'[v] \in HasRequest => item'[v] # i
    <3>1. \A u \in Threads : pc'[u] = "submit" => item[u] \in Items
      BY <1>0 DEF Others, TypeInv, InHand, HasRequest
    <3> QED
      BY SMTT(30), <1>0, <3>1 DEF Entering, InQueue
  <2>2. u # t /\ pc[u] = "submit" /\ item'[u] = i
    BY <1>0, <2>1 DEF Others
  <2>3. ~InQueue(i)' /\ marker # i /\ ended[i] = {}
    BY <1>1, <2>1, <2>2 DEF LedgerInv, Entering
  <2>4. \A v \in Threads \ {u} : pc'[v] \in HasRequest => pc[v] \in HasRequest /\ item'[v] = item[v]
    BY <1>0 DEF Others, HasRequest
  <2> QED
    BY <2>1, <2>2, <2>3, <2>4 DEF LedgerInv, Entering
<1>4. Accounted'
  <2>1. \A i : Worked(i) => Worked(i)'
    BY ZenonT(60), <1>0 DEF Worked, Others, Working
  <2>2. Worked(item[t])'
    BY <1>0 DEF Worked, Working
  <2>3. \A i : i = item[t] => Worked(i)'
    BY <1>0 DEF Worked, Working
  <2> QED
    BY <1>0, <1>1, <2>1, <2>3 DEF LedgerInv, Accounted
<1>5. Alive'
  BY <1>0, QueueAssumption DEF LedgerInv, Alive, Others
<1> QED
  BY <1>2, <1>3, <1>4, <1>5 DEF LedgerInv

\* While no program crashes, every step keeps the invariant of the ledger.
LEMMA LedgerInvStep ==
  ASSUME MaxCrashes = 0, LedgerInv, FilesInv, TypeInv, [Next]_vars
  PROVE  LedgerInv'
<1> USE DEF At, Goto, files, history, thread
<1>0. ASSUME NEW t \in Threads,
             Proceed(t) \/ DrainTick(t) \/ Boot(t) \/ \E i \in Items : Submit(t, i)
      PROVE  Others(t)
  BY <1>0, OthersStep
<1>1. ASSUME NEW t \in Threads, DrainTick(t), Others(t) PROVE Keeps(t) /\ Carries(t)
  BY <1>1, QueueAssumption DEF DrainTick, Keeps, Carries, Working, HasRequest, TypeInv, TypeOK
<1>2. ASSUME NEW t \in Threads, DrainAgain(t), Others(t) PROVE Keeps(t) /\ Carries(t)
  <2>1. /\ pc[t] = "drain" /\ pc'[t] \in {"claim", "free"} /\ up[Owner[t]]
        /\ UNCHANGED <<up, queue, marker, submitted, ended>>
    BY <1>2 DEF DrainAgain, Done, TypeInv, TypeOK
  <2> QED
    BY <1>2, <2>1 DEF Keeps, Carries, Working, HasRequest
<1>3. ASSUME NEW t \in Threads, Launch(t), Others(t) PROVE Keeps(t) /\ Carries(t)
  BY <1>3, QueueAssumption DEF Launch, Keeps, Carries, Working, HasRequest, TypeInv, TypeOK
<1>4. ASSUME NEW t \in Threads, Begin(t), Others(t) PROVE Keeps(t) /\ Carries(t)
  BY ZenonT(60), <1>4, QueueAssumption DEF Begin, Keeps, Carries, Working, HasRequest, TypeInv, TypeOK
<1>5. ASSUME NEW t \in Threads, AcquireLock(t), Others(t) PROVE Keeps(t) /\ Carries(t)
  BY ZenonT(60), <1>5, QueueAssumption DEF AcquireLock, Keeps, Carries, Working, HasRequest, TypeInv, TypeOK
<1>6. ASSUME NEW t \in Threads, RunEnds(t), Others(t) PROVE Keeps(t) /\ Carries(t)
  BY ZenonT(60), <1>6, QueueAssumption DEF RunEnds, Keeps, Carries, Working, HasRequest, TypeInv, TypeOK
<1>7. ASSUME NEW t \in Threads, AfterRun(t), Others(t) PROVE Keeps(t) /\ Carries(t)
  <2>1. \E l \in {"backoff", "finish"} : pc' = [pc EXCEPT ![t] = l]
    BY <1>7 DEF AfterRun
  <2>2. pc'[t] \in {"backoff", "finish"} /\ pc[t] = "after" /\ up[Owner[t]]
    BY <1>7, <2>1 DEF AfterRun, TypeInv, TypeOK
  <2>3. UNCHANGED <<up, item, queue, submitted, ended>> /\ marker' \in {marker, None}
    BY <1>7 DEF AfterRun, ClearInflight
  <2> QED
    BY <1>7, <2>2, <2>3 DEF Keeps, Carries, Working, HasRequest
<1>8. ASSUME NEW t \in Threads, Backoff(t), Others(t) PROVE Keeps(t) /\ Carries(t)
  BY ZenonT(60), <1>8, QueueAssumption DEF Backoff, Keeps, Carries, Working, HasRequest, TypeInv, TypeOK
<1>9. ASSUME NEW t \in Threads, WorkerDefer(t), Others(t) PROVE Keeps(t) /\ Carries(t)
  BY <1>9, QueueAssumption DEF WorkerDefer, Drop, ClearInflight, Keeps, Carries, Working, HasRequest,
     TypeInv, TypeOK
<1>10. ASSUME NEW t \in Threads, Boot(t), Others(t) PROVE Keeps(t) /\ Carries(t)
  <2>1. /\ pc[t] = "free" /\ pc'[t] = "reconcile"
        /\ up' = [up EXCEPT ![Owner[t]] = TRUE]
        /\ UNCHANGED <<item, queue, marker, submitted, ended>>
    BY <1>10 DEF Boot, TypeInv, TypeOK, LedgerInv, Alive
  <2> QED
    BY <1>10, <2>1, QueueAssumption DEF Keeps, Carries, Working, HasRequest, TypeInv, TypeOK
<1>11. ASSUME NEW t \in Threads, RecordDeadLetter(t), Others(t) PROVE Keeps(t) /\ Answering(t)
  <2>1. Keeps(t)
    BY <1>11, QueueAssumption DEF RecordDeadLetter, Done, Drop, Keeps, Working, HasRequest, TypeInv, TypeOK
  <2>2. Answering(t)
    BY <1>11 DEF RecordDeadLetter, Done, Answering, Answers, Working, TypeInv, TypeOK
  <2> QED
    BY <2>1, <2>2
<1>12. ASSUME NEW t \in Threads, Finish(t), Others(t) PROVE Keeps(t) /\ Answering(t)
  <2>1. Keeps(t)
    BY <1>12, QueueAssumption DEF Finish, Keeps, Working, HasRequest, TypeInv, TypeOK
  <2>2. Answering(t)
    BY ZenonT(60), <1>12, QueueAssumption DEF Finish, Answering, Answers, Working, HasRequest, TypeInv, TypeOK
  <2> QED
    BY <2>1, <2>2
<1>13. ASSUME NEW t \in Threads, Unmark(t), Others(t) PROVE Keeps(t) /\ Carries(t)
  BY <1>13 DEF Unmark, Keeps, Carries, Working, HasRequest, TypeInv, TypeOK
<1>14. ASSUME NEW t \in Threads, LaunchFails(t), Others(t)
       PROVE  Keeps(t) /\ (Carries(t) \/ Answering(t))
  <2>1. CASE ~claimed[t]
    <3>1. /\ Answer(item[t], "rejected") /\ pc'[t] = "free" /\ pc[t] = "start"
          /\ UNCHANGED <<up, queue, marker, submitted>>
      BY <1>14, <2>1 DEF LaunchFails, Done, TypeInv, TypeOK
    <3> QED
      BY <1>14, <3>1 DEF Keeps, Answering, Answers, Working, HasRequest
  <2>2. CASE claimed[t]
    <3>1. /\ pc'[t] = "dead letter" /\ pc[t] = "start" /\ up[Owner[t]] /\ marker' = None
          /\ UNCHANGED <<up, item, queue, submitted, ended>>
      BY ZenonT(60), <1>14, <2>2 DEF LaunchFails, ClearInflight, TypeInv, TypeOK
    <3> QED
      BY <1>14, <3>1 DEF Keeps, Carries, Working, HasRequest
  <2> QED
    BY <2>1, <2>2
<1>15. ASSUME NEW t \in Threads, Reconcile(t), Others(t) PROVE LedgerInv'
  <2>0. pc[t] = "reconcile" /\ up[Owner[t]] /\ UNCHANGED <<up, queue, marker, submitted, ended>>
    BY <1>15 DEF Reconcile
  <2>1. CASE pc'[t] = "drain"
    <3>1. Keeps(t) /\ Carries(t)
      BY <1>15, <2>0, <2>1 DEF Keeps, Carries, Working, HasRequest
    <3> QED
      BY <3>1, CarriesStep
  <2>2. CASE pc'[t] # "drain"
    <3>1. item'[t] = marker /\ marker # None /\ pc'[t] \in {"unmark", "restore"}
      BY <1>15, <2>2 DEF Reconcile, TypeInv, TypeOK
    <3>2. Refills(t)
      BY <2>0, <3>1 DEF Refills, Working, InQueue, LedgerInv, Known, Entering
    <3> QED
      BY <1>15, <3>2, RefillsStep
  <2> QED
    BY <2>1, <2>2
<1>16. ASSUME NEW t \in Threads, Restore(t), Others(t) PROVE LedgerInv'
  <2>1. /\ pc[t] = "restore" /\ up[Owner[t]] /\ pc'[t] = "unmark" /\ item'[t] = item[t]
        /\ queue' = <<item[t]>> \o queue /\ item[t] \in Items
        /\ UNCHANGED <<up, marker, submitted, ended>>
    BY <1>16 DEF Restore, TypeInv, TypeOK, InHand, HasRequest
  <2>2. \A x : InQueue(x)' <=> x = item[t] \/ InQueue(x)
    BY <2>1, PutInFront DEF TypeInv, TypeOK
  <2>3. item[t] \in submitted /\ \A u \in Threads \ {t} : pc[u] = "submit" => item[t] # item[u]
    BY <2>1 DEF LedgerInv, Known, Entering, HasRequest
  <2>4. Refills(t)
    BY <2>1, <2>2, <2>3 DEF Refills, Working, LedgerInv, Known, Entering
  <2> QED
    BY <1>16, <2>4, RefillsStep
<1>17. ASSUME NEW t \in Threads, ClaimMark(t), Others(t) PROVE LedgerInv'
  <2>0. pc[t] = "claim" /\ up[Owner[t]] /\ UNCHANGED <<up, submitted, ended>>
    BY <1>17 DEF ClaimMark
  <2>1. CASE Done(t) /\ UNCHANGED files
    <3>1. Keeps(t) /\ Carries(t)
      BY <1>17, <2>0, <2>1 DEF Keeps, Carries, Done, Working, HasRequest, TypeInv, TypeOK
    <3> QED
      BY <3>1, CarriesStep
  <2>2. CASE ~(Done(t) /\ UNCHANGED files)
    <3>1. /\ Restored # <<>> /\ queue' = Restored /\ marker' = Head(Restored)
          /\ item'[t] = Head(Restored) /\ pc'[t] = "pop"
      BY <1>17, <2>2 DEF ClaimMark, TypeInv, TypeOK
    <3>2. \A x : InQueue(x)' <=> InQueue(x) \/ (x = marker /\ x # None /\ ~QueueContains(x))
      <4>1. CASE ~(marker # None /\ ~QueueContains(marker))
        BY <3>1, <4>1 DEF Restored, InQueue
      <4>2. CASE marker # None /\ ~QueueContains(marker)
        <5>1. marker \in Items /\ queue' = <<marker>> \o queue
          BY <3>1, <4>2 DEF Restored, TypeInv, TypeOK
        <5> QED
          BY <4>2, <5>1, PutInFront DEF TypeInv, TypeOK
      <4> QED
        BY <4>1, <4>2
    <3>3. queue' \in Seq(Items) /\ queue' # <<>>
      BY <3>1, TypeStep, QueueOps DEF Restored, TypeInv, TypeOK
    <3>4. queue'[1] = marker' /\ 1 \in DOMAIN queue'
      BY <3>1, <3>3, HeadTailProperties, LenProperties, EmptySeq
    <3>5. \A x : x = marker' => InQueue(x)'
      BY <3>4 DEF InQueue
    <3>6. \A x : InQueue(x)' => x \in submitted
      BY <3>2 DEF LedgerInv, Known
    <3>7. \A u \in Threads \ {t}, i \in Items : pc[u] = "submit" /\ item[u] = i => ~InQueue(i)' /\ marker' # i
      BY <3>2, <3>5 DEF LedgerInv, Entering
    <3>8. Refills(t)
      BY <2>0, <3>1, <3>2, <3>5, <3>6, <3>7 DEF Refills, Working, TypeInv, InHand, HasRequest
    <3> QED
      BY <1>17, <3>8, RefillsStep
  <2> QED
    BY <2>1, <2>2
<1>18. ASSUME NEW t \in Threads, Enqueue(t), Others(t) PROVE LedgerInv'
  <2>0. /\ pc[t] = "submit" /\ up[Owner[t]] /\ pc'[t] = "free" /\ item[t] \in Items
        /\ UNCHANGED <<up, marker, submitted>>
    BY <1>18 DEF Enqueue, Done, TypeInv, TypeOK, InHand, HasRequest
  <2>1. CASE queue' = queue /\ \E a \in Answers : Answer(item[t], a)
    <3>1. Keeps(t) /\ Answering(t)
      BY <1>18, <2>0, <2>1 DEF Keeps, Answering, Working, HasRequest
    <3> QED
      BY <3>1, AnsweringStep
  <2>2. CASE queue' = Append(queue, item[t]) /\ ended' = ended
    <3>1. \A x : InQueue(x)' <=> x = item[t] \/ InQueue(x)
      BY <2>0, <2>2, PutLast DEF TypeInv, TypeOK
    <3>2. item[t] \in submitted /\ \A u \in Threads \ {t} : pc[u] = "submit" => item[t] # item[u]
      BY <2>0 DEF LedgerInv, Known, Entering, HasRequest
    <3>3. Refills(t)
      BY ZenonT(60), <2>0, <2>2, <3>1, <3>2 DEF Refills, LedgerInv, Known, Entering, HasRequest
    <3> QED
      BY <1>18, <3>3, RefillsStep
  <2> QED
    BY <1>18, <2>1, <2>2 DEF Enqueue, Answers
<1>19. ASSUME NEW p \in Procs, Crash(p) PROVE FALSE
  BY <1>19 DEF Crash, TypeInv, TypeOK
<1>20. CASE GraceEnds
  BY <1>20 DEF GraceEnds, LedgerInv, Known, Entering, Accounted, Alive, Worked, InQueue
<1>21. CASE UNCHANGED vars
  BY <1>21 DEF vars, LedgerInv, Known, Entering, Accounted, Alive, Worked, InQueue
<1>22. ASSUME NEW t \in Threads, Proceed(t) \/ DrainTick(t) \/ Boot(t) PROVE LedgerInv'
  <2>1. Others(t)
    BY <1>0, <1>22
  <2> QED
    BY <1>22, <2>1, <1>1, <1>2, <1>3, <1>4, <1>5, <1>6, <1>7, <1>8, <1>9, <1>10, <1>11, <1>12, <1>13,
       <1>14, <1>15, <1>16, <1>17, <1>18, CarriesStep, AnsweringStep, PopLedger DEF Proceed
<1> QED
  BY <1>19, <1>20, <1>21, <1>22, SubmitLedger DEF Next

\* What the ledger says of every request: nothing is lost.
NothingLost ==
  \A i \in Items :
    /\ "merged" \in ended[i] => Status(i) = "merged"
    /\ "merged" \notin ended[i] /\ ended[i] # {} => Status(i) = "done"
    /\ ended[i] = {} /\ i \notin submitted => Status(i) = "new"
    /\ ended[i] = {} /\ i \in submitted => Status(i) = "pending"

\* It follows from the invariant.
LEMMA StatusIs == LedgerInv => NothingLost
<1>1. ASSUME LedgerInv, NEW i \in Items, ended[i] = {}, i \in submitted PROVE Present(i)
  <2>1. InQueue(i) \/ Worked(i)
    BY <1>1 DEF LedgerInv, Accounted
  <2> QED
    BY <1>1, <2>1 DEF Present, Worked, Working, LedgerInv, Alive
<1> QED
  BY <1>1 DEF Status, NothingLost

\* How a step that answers a request shows in the ledger.
LEMMA AnswerShows ==
  ASSUME TypeInv, NothingLost, NothingLost', NEW t \in Threads, NEW a \in Answers,
         item[t] \in submitted, Answer(item[t], a), submitted' = submitted,
         a = "merged" => /\ ended[item[t]] = {}
                         /\ \E j \in submitted : Same(item[t], j) /\ j # item[t]
  PROVE  [Ledger!Next]_([i \in Items |-> Status(i)])
<1> PICK r \in Items : r = item[t]
  BY DEF TypeInv, TypeOK
<1>1. /\ r \in submitted /\ ended'[r] = ended[r] \cup {a}
      /\ \A i \in Items \ {r} : ended'[i] = ended[i]
  BY DEF Answer, TypeInv, TypeOK
<1>2. \A i \in Items :
        /\ "merged" \in ended[i] => Status(i) = "merged"
        /\ "merged" \notin ended[i] /\ ended[i] # {} => Status(i) = "done"
        /\ ended[i] = {} /\ i \notin submitted => Status(i) = "new"
        /\ ended[i] = {} /\ i \in submitted => Status(i) = "pending"
  BY DEF NothingLost
<1>3. \A i \in Items :
        /\ "merged" \in ended'[i] => Status(i)' = "merged"
        /\ "merged" \notin ended'[i] /\ ended'[i] # {} => Status(i)' = "done"
        /\ ended'[i] = {} /\ i \notin submitted => Status(i)' = "new"
        /\ ended'[i] = {} /\ i \in submitted => Status(i)' = "pending"
  BY DEF NothingLost
<1>4. ASSUME NEW i \in Items \ {r} PROVE Status(i)' = Status(i)
  <2>1. CASE "merged" \in ended[i]
    BY <1>1, <1>2, <1>3, <2>1
  <2>2. CASE "merged" \notin ended[i] /\ ended[i] # {}
    BY <1>1, <1>2, <1>3, <2>2
  <2>3. CASE ended[i] = {} /\ i \notin submitted
    BY <1>1, <1>2, <1>3, <2>3
  <2>4. CASE ended[i] = {} /\ i \in submitted
    BY <1>1, <1>2, <1>3, <2>4
  <2> QED
    BY <2>1, <2>2, <2>3, <2>4
<1>5. CASE a = "merged"
  <2>1. Status(r) = "pending" /\ Status(r)' = "merged"
    BY <1>1, <1>2, <1>3, <1>5
  <2>2. \E j \in Items : Ledger!Twins(r, j) /\ Status(j) # "new"
    <3>1. PICK j \in submitted : Same(r, j) /\ j # r
      BY <1>5
    <3>2. j \in Items /\ Status(j) # "new"
      BY <1>2, <3>1 DEF TypeInv, TypeOK
    <3> QED
      BY <3>1, <3>2 DEF Ledger!Twins, Same
  <2>3. [i \in Items |-> Status(i)]' = [[i \in Items |-> Status(i)] EXCEPT ![r] = "merged"]
    BY <1>4, <2>1
  <2>4. Ledger!Merge(r)
    BY <2>1, <2>2, <2>3 DEF Ledger!Merge
  <2> QED
    BY <2>4 DEF Ledger!Next
<1>6. CASE a # "merged" /\ ended[r] = {}
  <2>1. Status(r) = "pending" /\ Status(r)' = "done"
    BY <1>1, <1>2, <1>3, <1>6
  <2>2. [i \in Items |-> Status(i)]' = [[i \in Items |-> Status(i)] EXCEPT ![r] = "done"]
    BY <1>4, <2>1
  <2>3. Ledger!Settle(r)
    BY <2>1, <2>2 DEF Ledger!Settle
  <2> QED
    BY <2>3 DEF Ledger!Next
<1>7. CASE a # "merged" /\ ended[r] # {}
  <2>1. Status(r)' = Status(r)
    BY <1>1, <1>2, <1>3, <1>7
  <2> QED
    BY <1>4, <2>1
<1> QED
  BY <1>5, <1>6, <1>7

\* A step that answers nobody and accepts nothing does not show in it.
LEMMA NothingShows ==
  ASSUME NothingLost, NothingLost', ended' = ended, submitted' = submitted
  PROVE  [Ledger!Next]_([i \in Items |-> Status(i)])
<1>1. ASSUME NEW i \in Items PROVE Status(i)' = Status(i)
  <2>1. /\ "merged" \in ended[i] => Status(i) = "merged" /\ Status(i)' = "merged"
        /\ "merged" \notin ended[i] /\ ended[i] # {} => Status(i) = "done" /\ Status(i)' = "done"
        /\ ended[i] = {} /\ i \notin submitted => Status(i) = "new" /\ Status(i)' = "new"
        /\ ended[i] = {} /\ i \in submitted => Status(i) = "pending" /\ Status(i)' = "pending"
    <3>1. /\ "merged" \in ended'[i] => Status(i)' = "merged"
          /\ "merged" \notin ended'[i] /\ ended'[i] # {} => Status(i)' = "done"
          /\ ended'[i] = {} /\ i \notin submitted' => Status(i)' = "new"
          /\ ended'[i] = {} /\ i \in submitted' => Status(i)' = "pending"
      BY DEF NothingLost
    <3> QED
      BY <3>1 DEF NothingLost
  <2> QED
    BY <2>1
<1> QED
  BY <1>1

\* The system implements the ledger, step by step.
LEMMA LedgerStep ==
  ASSUME MaxCrashes = 0, LedgerInv, TypeInv, NothingLost, NothingLost', [Next]_vars
  PROVE  [Ledger!Next]_([i \in Items |-> Status(i)])
<1> USE DEF At, Goto, files, history, thread
<1>1. ASSUME NEW t \in Threads, NEW i \in Items, Submit(t, i)
      PROVE  [Ledger!Next]_([j \in Items |-> Status(j)])
  <2>1. i \notin submitted /\ submitted' = submitted \cup {i} /\ ended' = ended
    BY <1>1 DEF Submit
  <2>2. ended[i] = {}
    BY <2>1 DEF LedgerInv, Known
  <2>3. Status(i) = "new" /\ Status(i)' = "pending"
    <3>1. ended'[i] = {} /\ i \in submitted' => Status(i)' = "pending"
      BY DEF NothingLost
    <3> QED
      BY <2>1, <2>2, <3>1 DEF NothingLost
  <2>4. ASSUME NEW j \in Items \ {i} PROVE Status(j)' = Status(j)
    <3>1. /\ "merged" \in ended'[j] => Status(j)' = "merged"
          /\ "merged" \notin ended'[j] /\ ended'[j] # {} => Status(j)' = "done"
          /\ ended'[j] = {} /\ j \notin submitted' => Status(j)' = "new"
          /\ ended'[j] = {} /\ j \in submitted' => Status(j)' = "pending"
      BY DEF NothingLost
    <3>2. /\ "merged" \in ended[j] => Status(j) = "merged"
          /\ "merged" \notin ended[j] /\ ended[j] # {} => Status(j) = "done"
          /\ ended[j] = {} /\ j \notin submitted => Status(j) = "new"
          /\ ended[j] = {} /\ j \in submitted => Status(j) = "pending"
      BY DEF NothingLost
    <3> QED
      BY <2>1, <3>1, <3>2
  <2>5. [j \in Items |-> Status(j)]' = [[j \in Items |-> Status(j)] EXCEPT ![i] = "pending"]
    BY <2>3, <2>4
  <2>6. Ledger!Accept(i)
    BY <2>3, <2>5 DEF Ledger!Accept
  <2> QED
    BY <2>6 DEF Ledger!Next
<1>2. ASSUME NEW t \in Threads, Enqueue(t)
      PROVE  [Ledger!Next]_([j \in Items |-> Status(j)])
  <2>1. /\ item[t] \in submitted /\ ended[item[t]] = {} /\ ~InQueue(item[t]) /\ submitted' = submitted
    BY <1>2 DEF Enqueue, LedgerInv, Known, Entering, HasRequest
  <2>2. CASE Answer(item[t], "rejected")
    BY <2>1, <2>2, AnswerShows DEF Answers
  <2>3. CASE Answer(item[t], "merged") /\ QueueContains(item[t])
    <3>1. \E j \in submitted : Same(item[t], j) /\ j # item[t]
      BY <2>1, <2>3 DEF QueueContains, InQueue, LedgerInv, Known
    <3> QED
      BY <2>1, <2>3, <3>1, AnswerShows DEF Answers
  <2> QED
    BY <1>2, <2>1, <2>2, <2>3, NothingShows DEF Enqueue
<1>3. ASSUME NEW t \in Threads, LaunchFails(t) \/ RecordDeadLetter(t) \/ Finish(t)
      PROVE  [Ledger!Next]_([j \in Items |-> Status(j)])
  <2>1. item[t] \in submitted /\ submitted' = submitted
    BY <1>3 DEF LaunchFails, RecordDeadLetter, Finish, LedgerInv, Known, HasRequest
  <2>2. ended' = ended \/ \E a \in Answers \ {"merged"} : Answer(item[t], a)
    BY <1>3 DEF LaunchFails, RecordDeadLetter, Finish, Answers, TypeInv, TypeOK
  <2> QED
    BY <2>1, <2>2, AnswerShows, NothingShows
<1>4. ASSUME NEW t \in Threads, Proceed(t) \/ DrainTick(t) \/ Boot(t),
             ~Enqueue(t), ~LaunchFails(t), ~RecordDeadLetter(t), ~Finish(t)
      PROVE  submitted' = submitted /\ ended' = ended
  BY <1>4 DEF Proceed, DrainTick, DrainAgain, ClaimMark, ClaimPop, Launch, Begin, AcquireLock, RunEnds,
     AfterRun, Backoff, WorkerDefer, Boot, Reconcile, Restore, Unmark
<1>5. ASSUME NEW p \in Procs, Crash(p) PROVE FALSE
  BY <1>5 DEF Crash, TypeInv, TypeOK
<1>6. CASE GraceEnds \/ UNCHANGED vars
  BY <1>6, NothingShows DEF GraceEnds, vars
<1> QED
  BY <1>1, <1>2, <1>3, <1>4, <1>5, <1>6, NothingShows DEF Next

\* While no program crashes, the system is the ledger it promises (LedgerKept):
\* no request is lost between its submission and its answer, none is answered
\* twice in different ways that the ledger could tell, and none is dropped but
\* for another one of its slot.
THEOREM KeepsTheLedger ==
  ASSUME MaxCrashes = 0
  PROVE  Spec => LedgerKept
<1>1. Init => LedgerInv /\ FilesInv /\ Tried /\ Ledger!Init
  <2>1. SUFFICES ASSUME Init PROVE LedgerInv /\ FilesInv /\ Tried /\ Ledger!Init
    OBVIOUS
  <2>2. LedgerInv
    BY <2>1 DEF Init, LedgerInv, Known, Entering, Accounted, Alive, InQueue, HasRequest
  <2>3. FilesInv /\ Tried
    BY <2>1 DEF Init, FilesInv, DurableClaim, Marked, Reconciling, AtMarker, Tried
  <2>4. \A i \in Items : Status(i) = "new"
    BY <2>1 DEF Init, Status
  <2> QED
    BY <2>2, <2>3, <2>4 DEF Ledger!Init
<1>2. LedgerInv /\ FilesInv /\ TypeInv /\ [Next]_vars => LedgerInv'
  BY LedgerInvStep
<1>3. LedgerInv /\ TypeInv /\ NothingLost /\ NothingLost' /\ [Next]_vars
        => [Ledger!Next]_([i \in Items |-> Status(i)])
  BY LedgerStep
<1>4. FilesInv /\ Tried /\ TypeInv /\ [Next]_vars => FilesInv' /\ Tried'
  BY ClaimStep
<1> QED
  BY <1>1, <1>2, <1>3, <1>4, StatusIs, TypeInvariance, PTL DEF Spec, LedgerKept, Ledger!Spec
=============================================================================
