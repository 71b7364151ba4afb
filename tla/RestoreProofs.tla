---------------------------- MODULE RestoreProofs ---------------------------
(***************************************************************************)
(* Proofs about Restore: for every disk, every sources, every selection    *)
(* and every number of seconds.                                            *)
(*                                                                         *)
(* There are two halves.  The first is about paths: what the selection     *)
(* becomes (TargetsOfSelection, TargetPlaces), from facts about prefixes.  *)
(* The second is about the loop that writes: where it is (Loop), what it   *)
(* has moved aside (OwnKept, Untouched), what it has created and will      *)
(* remove again (OnlyRestored), and what it has written (Written).         *)
(***************************************************************************)
EXTENDS Restore, SequenceTheorems, WellFoundedInduction, FiniteSetTheorems, TLAPS

-----------------------------------------------------------------------------
(* The invariant. *)

Held == {None, Original} \cup {t.file : t \in targets}

Stages == {"start", "next", "write", "meta", "exists", "ok", "failed", "dead"}

\* The types of what is written, and how far the loop over the targets is.
TypeInv ==
  /\ req.mode \in {"overwrite", "backup", "ask"}
  /\ force \in BOOLEAN /\ fresh \in BOOLEAN /\ second \in 0..MaxSecond
  /\ had \subseteq Dests /\ restored \subseteq Dests
  /\ fs \in [Dests -> Held]
  /\ bak \in [Dests -> [0..MaxSecond -> Held]]
  /\ cur \subseteq todo /\ todo \subseteq targets
  /\ pc \in Stages

Loop ==
  /\ pc \in {"start", "next"} => cur = {}
  /\ pc \in {"write", "meta"} => \E t \in todo : cur = {t}
  /\ pc = "start" => todo = targets
  /\ pc = "ok" => todo = {}
  /\ req.op = "file" => \E t \in targets : targets = {t}

\* A single file has been looked at before the loop looks at it again.
FileReady ==
  req.op = "file" /\ req.mode # "overwrite" /\ ~force /\ pc = "next" =>
    \A t \in todo : fs[t.dest] = None

Moved(d) == \E s \in 0..MaxSecond : bak[d][s] = Original

\* A file of the user is at its place and not the one in work, or it is under
\* a backup name and no target that is left will find a file at its place.
Safe(d) ==
  \/ fs[d] = Original /\ (pc \in {"write", "meta"} => \A t \in cur : t.dest # d)
  \/ /\ Moved(d)
     /\ pc \in {"start", "next", "write", "meta"} =>
          \A t \in todo \ cur : t.dest = d => fs[d] = None

OwnKept ==
  req.mode # "overwrite" /\ ~force /\ Distinct =>
    \A d \in had : Safe(d) /\ (d \in restored => Moved(d))

Untouched ==
  req.mode = "ask" /\ ~force =>
    /\ \A d \in had : fs[d] = Original /\ d \notin restored
    /\ pc \in {"write", "meta"} => \A t \in cur : t.dest \notin had

OnlyRestored ==
  req.kind = "zip" /\ req.op # "file" /\ ~force =>
    /\ \A d \in Dests \ had :
         fs[d] = None \/ (d \in restored /\ pc \notin {"failed", "exists"})
    /\ pc = "write" /\ ~fresh => \A t \in cur : t.dest \in had \cup restored

Written ==
  Distinct /\ pc \in {"start", "next", "write", "meta", "ok"} =>
    /\ \A t \in targets \ todo : fs[t.dest] = t.file
    /\ pc = "meta" => \A t \in cur : fs[t.dest] = t.file

LoopInv ==
  /\ TypeInv /\ Loop /\ FileReady /\ OwnKept /\ Untouched /\ OnlyRestored /\ Written

-----------------------------------------------------------------------------
(* The loop over the targets. *)

\* What is fixed for a restore.
LEMMA DestsFixed == UNCHANGED Fixed => Dests' = Dests /\ Held' = Held
BY DEF Fixed, Dests, Held

\* The clean-up removes what this attempt has created, or nothing.
LEMMA CleanUpTypes ==
  ASSUME TypeInv, UNCHANGED Fixed, CleanUp
  PROVE  /\ fs' \in [Dests -> Held]
         /\ \A d \in Dests : fs'[d] = fs[d] \/ (fs'[d] = None /\ d \in restored)
         /\ req.kind = "zip" /\ req.op # "file" =>
              \A d \in Dests : d \in restored => fs'[d] = None
         /\ ~(req.kind = "zip" /\ req.op # "file") => fs' = fs
<1>1. CASE req.kind = "zip" /\ req.op # "file"
  BY <1>1 DEF CleanUp, TypeInv, Held
<1>2. CASE ~(req.kind = "zip" /\ req.op # "file")
  BY <1>2 DEF CleanUp, TypeInv
<1> QED
  BY <1>1, <1>2

\* Preparing a destination moves its file under the name of this second.
LEMMA PrepareTypes ==
  ASSUME TypeInv, NEW d \in Dests, NEW mode, Prepare(d, mode)
  PROVE  /\ fs' \in [Dests -> Held] /\ bak' \in [Dests -> [0..MaxSecond -> Held]]
         /\ \A e \in Dests : e # d => fs'[e] = fs[e] /\ bak'[e] = bak[e]
         /\ mode = "backup" /\ ~force => fs'[d] = None
         /\ ~(mode = "backup" /\ ~force) => fs'[d] = fs[d]
         /\ fs[d] = None => fs' = fs /\ bak' = bak
         /\ (fs'[d] = fs[d] /\ bak'[d] = bak[d]) \/ (fs'[d] = None /\ bak'[d][second] = fs[d])
<1>1. CASE fs[d] # None /\ mode = "backup" /\ ~force
  <2>1. /\ bak' = [bak EXCEPT ![d][second] = fs[d]]
        /\ fs' = [fs EXCEPT ![d] = None]
    BY <1>1 DEF Prepare
  <2>2. fs[d] \in Held /\ None \in Held /\ bak[d] \in [0..MaxSecond -> Held]
    BY DEF TypeInv, Held
  <2>3. second \in 0..MaxSecond
    BY DEF TypeInv
  <2>4. [bak[d] EXCEPT ![second] = fs[d]] \in [0..MaxSecond -> Held]
    BY <2>2, <2>3
  <2>5. bak' = [bak EXCEPT ![d] = [bak[d] EXCEPT ![second] = fs[d]]]
    BY <2>1, <2>3 DEF TypeInv
  <2>6. bak' \in [Dests -> [0..MaxSecond -> Held]]
    BY <2>4, <2>5 DEF TypeInv
  <2>7. bak'[d][second] = fs[d]
    BY <2>5, <2>2, <2>3 DEF TypeInv
  <2> QED
    BY <1>1, <2>1, <2>2, <2>5, <2>6, <2>7 DEF TypeInv
<1>2. CASE ~(fs[d] # None /\ mode = "backup" /\ ~force)
  BY <1>2 DEF Prepare, TypeInv
<1> QED
  BY <1>1, <1>2

\* Every step keeps the types and the place in the loop.
LEMMA TypesStep ==
  ASSUME RestoreAssumption, TypeInv, Loop, [RestoreNext]_writing
  PROVE  TypeInv' /\ Loop' /\ UNCHANGED Fixed
<1>d. \A t \in targets : t.dest \in Dests /\ t.file \in Held
  BY DEF Dests, Held
<1>1. CASE Start
  <2>1. UNCHANGED <<Fixed, force, second, todo, cur, fresh, restored>> /\ pc = "start"
    BY <1>1 DEF Start
  <2>2. Dests' = Dests /\ Held' = Held
    BY <2>1, DestsFixed
  <2>3. pc' \in {"next", "exists"}
    BY <1>1 DEF Start
  <2>4. fs' \in [Dests -> Held] /\ bak' \in [Dests -> [0..MaxSecond -> Held]]
    <3>1. CASE UNCHANGED <<fs, bak>>
      BY <3>1 DEF TypeInv
    <3>2. CASE \E t \in todo : Prepare(t.dest, req.mode)
      <4>1. PICK t \in todo : Prepare(t.dest, req.mode)
        BY <3>2
      <4>2. t.dest \in Dests
        BY <1>d DEF TypeInv
      <4> QED
        BY <4>1, <4>2, PrepareTypes
    <3> QED
      BY <1>1, <3>1, <3>2 DEF Start
  <2> QED
    BY <2>1, <2>2, <2>3, <2>4 DEF TypeInv, Loop, Fixed, Stages
<1>2. ASSUME NEW t \in todo, Open(t) PROVE TypeInv' /\ Loop' /\ UNCHANGED Fixed
  <2>1. /\ UNCHANGED <<Fixed, force, second, todo, restored>> /\ pc = "next"
        /\ cur' = {t} /\ fresh' \in BOOLEAN /\ pc' \in {"exists", "write"}
    BY <1>2 DEF Open
  <2>2. Dests' = Dests /\ Held' = Held
    BY <2>1, DestsFixed
  <2>3. t.dest \in Dests
    BY <1>d DEF TypeInv
  <2>4. fs' \in [Dests -> Held] /\ bak' \in [Dests -> [0..MaxSecond -> Held]]
    <3>1. CASE CleanUp /\ UNCHANGED bak
      BY <3>1, <2>1, CleanUpTypes DEF TypeInv
    <3>2. CASE Prepare(t.dest, Mode)
      BY <3>2, <2>3, PrepareTypes
    <3> QED
      BY <1>2, <3>1, <3>2 DEF Open
  <2> QED
    BY <2>1, <2>2, <2>4 DEF TypeInv, Loop, Fixed, Stages
<1>3. ASSUME NEW t \in cur, Write(t) PROVE TypeInv' /\ Loop' /\ UNCHANGED Fixed
  <2>1. /\ UNCHANGED <<Fixed, force, bak, second, todo, cur, fresh>> /\ pc = "write" /\ pc' = "meta"
        /\ fs' = [fs EXCEPT ![t.dest] = t.file]
        /\ restored' \subseteq restored \cup {t.dest}
    BY <1>3 DEF Write
  <2>2. Dests' = Dests /\ Held' = Held
    BY <2>1, DestsFixed
  <2>3. t.dest \in Dests /\ t.file \in Held
    BY <1>d DEF TypeInv
  <2>4. fs' \in [Dests -> Held] /\ restored' \subseteq Dests
    BY <2>1, <2>3 DEF TypeInv
  <2> QED
    BY <2>1, <2>2, <2>4 DEF TypeInv, Loop, Fixed, Stages
<1>4. ASSUME NEW t \in cur, Apply(t) PROVE TypeInv' /\ Loop' /\ UNCHANGED Fixed
  <2>2. Dests' = Dests /\ Held' = Held
    BY <1>4, DestsFixed DEF Apply
  <2> QED
    BY <1>4, <2>2 DEF Apply, TypeInv, Loop, Fixed, Stages
<1>5. CASE Done
  <2>2. Dests' = Dests /\ Held' = Held
    BY <1>5, DestsFixed DEF Done
  <2> QED
    BY <1>5, <2>2 DEF Done, TypeInv, Loop, Fixed, Stages
<1>6. CASE Break
  <2>2. UNCHANGED Fixed /\ Dests' = Dests /\ Held' = Held
    BY <1>6, DestsFixed DEF Break
  <2>3. fs' \in [Dests -> Held]
    BY <1>6, <2>2, CleanUpTypes DEF Break
  <2> QED
    BY <1>6, <2>2, <2>3 DEF Break, TypeInv, Loop, Fixed, Stages
<1>7. ASSUME NEW yes \in BOOLEAN, Answer(yes) PROVE TypeInv' /\ Loop' /\ UNCHANGED Fixed
  <2>2. UNCHANGED Fixed /\ Dests' = Dests /\ Held' = Held
    BY <1>7, DestsFixed DEF Answer
  <2>3. /\ UNCHANGED <<fs, bak, second>> /\ cur' = {} /\ restored' = {} /\ fresh' = FALSE
        /\ (pc' = "start" /\ force' = TRUE /\ todo' = targets)
              \/ (pc' = "failed" /\ force' = force /\ todo' = todo)
    BY <1>7 DEF Answer
  <2> QED
    BY <2>2, <2>3 DEF TypeInv, Loop, Fixed, Stages
<1>8. CASE SecondPasses
  <2>2. Dests' = Dests /\ Held' = Held
    BY <1>8, DestsFixed DEF SecondPasses
  <2>3. second' \in 0..MaxSecond
    BY <1>8 DEF SecondPasses, TypeInv, RestoreAssumption
  <2> QED
    BY <1>8, <2>2, <2>3 DEF SecondPasses, TypeInv, Loop, Fixed, Stages
<1>9. CASE Dies
  <2>2. Dests' = Dests /\ Held' = Held
    BY <1>9, DestsFixed DEF Dies
  <2> QED
    BY <1>9, <2>2 DEF Dies, TypeInv, Loop, Fixed, Stages
<1>10. CASE UNCHANGED writing
  <2>1. /\ UNCHANGED Fixed
        /\ UNCHANGED <<force, fs, bak, second, todo, cur, fresh, restored, pc>>
    BY <1>10 DEF writing, Fixed
  <2>2. Dests' = Dests /\ Held' = Held
    BY <2>1, DestsFixed
  <2> QED
    BY <2>1, <2>2 DEF TypeInv, Loop, Fixed, Stages
<1> QED
  BY <1>1, <1>2, <1>3, <1>4, <1>5, <1>6, <1>7, <1>8, <1>9, <1>10 DEF RestoreNext

\* What no step changes.
LEMMA FixedFacts ==
  ASSUME UNCHANGED Fixed
  PROVE  /\ Dests' = Dests /\ targets' = targets /\ had' = had /\ req' = req /\ sources' = sources
         /\ Distinct' = Distinct
BY DestsFixed DEF Fixed, Distinct

\* A destination that is opened is refused, or prepared with the file moved
\* aside or left where it is.
LEMMA OpenFacts ==
  ASSUME TypeInv, NEW t \in todo, Open(t)
  PROVE  /\ t.dest \in Dests /\ pc = "next" /\ cur' = {t}
         /\ UNCHANGED <<Fixed, force, second, todo, restored>>
         /\ fresh' = (fs[t.dest] = None)
         /\ \/ pc' = "exists" /\ CleanUp /\ bak' = bak /\ Refuses(t.dest, Mode)
            \/ pc' = "write" /\ Prepare(t.dest, Mode) /\ ~Refuses(t.dest, Mode)
BY DEF Open, Dests, TypeInv

\* A single file is refused or prepared before its archive is opened.
LEMMA StartFacts ==
  ASSUME TypeInv, Loop, Start
  PROVE  /\ pc = "start" /\ UNCHANGED <<Fixed, force, second, todo, cur, fresh, restored>>
         /\ \/ req.op # "file" /\ pc' = "next" /\ UNCHANGED <<fs, bak>>
            \/ /\ req.op = "file"
               /\ \E t \in todo :
                    /\ todo = {t} /\ t.dest \in Dests
                    /\ \/ pc' = "exists" /\ UNCHANGED <<fs, bak>>
                       \/ pc' = "next" /\ Prepare(t.dest, req.mode) /\ ~Refuses(t.dest, req.mode)
<1>1. CASE req.op # "file" /\ pc' = "next" /\ UNCHANGED <<fs, bak>>
  BY <1>1 DEF Start
<1>2. ASSUME NEW t \in todo, req.op = "file",
             IF Refuses(t.dest, req.mode)
             THEN pc' = "exists" /\ UNCHANGED <<fs, bak>>
             ELSE pc' = "next" /\ Prepare(t.dest, req.mode)
      PROVE  /\ todo = {t} /\ t.dest \in Dests
             /\ \/ pc' = "exists" /\ UNCHANGED <<fs, bak>>
                \/ pc' = "next" /\ Prepare(t.dest, req.mode) /\ ~Refuses(t.dest, req.mode)
  BY <1>2 DEF TypeInv, Loop, Dests
<1> QED
  BY <1>1, <1>2 DEF Start

\* A step that leaves the files as they are.
Passed == UNCHANGED <<Fixed, fs, bak>>

LEMMA WriteFacts ==
  ASSUME TypeInv, Loop, NEW t \in cur, Write(t)
  PROVE  /\ t.dest \in Dests /\ pc = "write" /\ pc' = "meta" /\ cur = {t} /\ t \in todo
         /\ UNCHANGED <<Fixed, force, bak, second, todo, cur, fresh>>
         /\ fs'[t.dest] = t.file
         /\ \A d \in Dests : d # t.dest => fs'[d] = fs[d]
         /\ fresh => restored' = restored \cup {t.dest}
         /\ ~fresh => restored' = restored
BY DEF Write, Dests, TypeInv, Loop

\* A single file that the loop finds has been prepared.
LEMMA FileReadyStep ==
  ASSUME TypeInv, Loop, FileReady, TypeInv', Loop', UNCHANGED Fixed, [RestoreNext]_writing
  PROVE  FileReady'
<1> SUFFICES ASSUME req.op = "file", req.mode # "overwrite", ~force', pc' = "next", NEW t \in todo'
             PROVE  fs'[t.dest] = None
  BY FixedFacts DEF FileReady
<1>1. CASE Start
  <2>1. PICK u \in todo : /\ todo = {u} /\ u.dest \in Dests
                          /\ Prepare(u.dest, req.mode) /\ ~Refuses(u.dest, req.mode)
    BY <1>1, StartFacts
  <2>2. t = u /\ ~force
    BY <2>1, <1>1, StartFacts
  <2>3. CASE fs[u.dest] = None
    BY <2>1, <2>2, <2>3, PrepareTypes
  <2>4. CASE fs[u.dest] # None
    <3>1. req.mode = "backup"
      BY <2>1, <2>2, <2>4 DEF Refuses, TypeInv
    <3> QED
      BY <2>1, <2>2, <3>1, PrepareTypes
  <2> QED
    BY <2>3, <2>4
<1>2. ASSUME NEW u \in cur, Apply(u) PROVE FALSE
  BY <1>2 DEF Apply, Loop, TypeInv
<1>3. CASE SecondPasses \/ UNCHANGED writing
  BY <1>3 DEF SecondPasses, writing, FileReady
<1> QED
  BY <1>1, <1>2, <1>3 DEF RestoreNext, Open, Write, Done, Break, Answer, Dies

\* The steps after which a target is neither opened nor written.
LEMMA OtherSteps ==
  ASSUME TypeInv, Loop, [RestoreNext]_writing
  PROVE  \/ Start \/ (\E t \in todo : Open(t)) \/ (\E t \in cur : Write(t)) \/ Break
         \/ \E t \in cur : pc = "meta" /\ Passed /\ cur = {t} /\ todo' = todo \ {t} /\ cur' = {}
                           /\ pc' = "next" /\ UNCHANGED <<force, restored>>
         \/ Passed /\ UNCHANGED <<force, restored, todo, cur, fresh>>
              /\ (pc' = pc \/ pc' = "dead" \/ (pc = "next" /\ pc' = "ok" /\ todo = {}))
         \/ pc = "exists" /\ Passed /\ restored' = {} /\ cur' = {} /\ todo' = todo
              /\ pc' = "failed" /\ force' = force
         \/ pc = "exists" /\ UNCHANGED <<Fixed, fs, bak>> /\ force' = TRUE /\ todo' = targets
              /\ cur' = {} /\ restored' = {} /\ pc' = "start"
<1>1. ASSUME NEW t \in cur, Apply(t)
      PROVE  pc = "meta" /\ Passed /\ cur = {t} /\ todo' = todo \ {t} /\ cur' = {}
             /\ pc' = "next" /\ UNCHANGED <<force, restored>>
  BY <1>1 DEF Apply, Loop, Passed
<1>2. CASE Done \/ SecondPasses \/ Dies \/ UNCHANGED writing
  BY <1>2 DEF Done, SecondPasses, Dies, writing, Passed, Fixed
<1>3. ASSUME NEW yes \in BOOLEAN, Answer(yes)
      PROVE  \/ pc = "exists" /\ Passed /\ restored' = {} /\ cur' = {} /\ todo' = todo
                  /\ pc' = "failed" /\ force' = force
             \/ pc = "exists" /\ UNCHANGED <<Fixed, fs, bak>> /\ force' = TRUE /\ todo' = targets
                  /\ cur' = {} /\ restored' = {} /\ pc' = "start"
  BY <1>3 DEF Answer, Passed
<1> QED
  BY <1>1, <1>2, <1>3 DEF RestoreNext

LEMMA MovedKept == ASSUME NEW d, Moved(d), bak'[d] = bak[d] PROVE Moved(d)'
BY DEF Moved

\* The clean-up takes a file of the user only when that has a backup name.
LEMMA SafeCleaned ==
  ASSUME TypeInv, NEW d \in Dests, Safe(d), d \in restored => Moved(d),
         UNCHANGED Fixed, CleanUp, bak' = bak, pc' \in {"exists", "failed"}, restored' = restored
  PROVE  Safe(d)' /\ (d \in restored' => Moved(d)')
<1>1. Moved(d) => Moved(d)'
  BY MovedKept
<1>2. fs'[d] = fs[d] \/ d \in restored
  BY CleanUpTypes
<1> QED
  BY <1>1, <1>2 DEF Safe

\* A destination that is not the one in work is as it was.
LEMMA SafeElsewhere ==
  ASSUME NEW d, Safe(d), d \in restored => Moved(d), NEW t,
         t.dest # d, fs'[d] = fs[d], bak'[d] = bak[d], todo' \subseteq todo, cur' \subseteq {t},
         todo' \ cur' \subseteq (todo \ cur) \cup {t}, pc \in {"start", "next", "write", "meta"},
         d \in restored' => d \in restored
  PROVE  Safe(d)' /\ (d \in restored' => Moved(d)')
<1>1. Moved(d) => Moved(d)'
  BY MovedKept
<1>2. CASE fs[d] = Original
  BY <1>1, <1>2 DEF Safe
<1>3. CASE Moved(d) /\ \A u \in todo \ cur : u.dest = d => fs[d] = None
  BY <1>1, <1>3 DEF Safe
<1> QED
  BY <1>2, <1>3 DEF Safe

\* Preparing the destination of a file of the user moves it aside, unless it
\* has been moved before.
LEMMA SafePrepared ==
  ASSUME TypeInv, NEW t \in todo \ cur, Safe(t.dest), t.dest \in Dests, NEW mode,
         req.mode # "overwrite", ~force, pc \in {"start", "next"},
         mode = req.mode \/ fs[t.dest] = None,
         Prepare(t.dest, mode), ~Refuses(t.dest, mode)
  PROVE  Moved(t.dest)' /\ fs'[t.dest] = None
<1>1. CASE Moved(t.dest) /\ fs[t.dest] = None
  BY <1>1, PrepareTypes DEF Moved
<1>2. CASE fs[t.dest] = Original
  <2>1. Original # None
    BY EmptySeq DEF Original, None
  <2>2. mode = "backup"
    BY <1>2, <2>1 DEF Refuses, TypeInv
  <2>3. fs'[t.dest] = None /\ bak'[t.dest][second] = Original
    BY <1>2, <2>1, <2>2, PrepareTypes
  <2>4. second \in 0..MaxSecond
    BY DEF TypeInv
  <2> QED
    BY <2>3, <2>4 DEF Moved
<1> QED
  BY <1>1, <1>2 DEF Safe

\* No step loses a file of the user.
LEMMA OwnKeptStep ==
  ASSUME TypeInv, Loop, FileReady, OwnKept, TypeInv', UNCHANGED Fixed, [RestoreNext]_writing
  PROVE  OwnKept'
<1> SUFFICES ASSUME req.mode # "overwrite", ~force', Distinct, NEW d \in had
             PROVE  Safe(d)' /\ (d \in restored' => Moved(d)')
  BY FixedFacts DEF OwnKept
<1>f. ~force
  BY OtherSteps DEF Start, Open, Write, Break
<1>s. Safe(d) /\ (d \in restored => Moved(d)) /\ d \in Dests
  BY <1>f DEF OwnKept, TypeInv
<1>m. bak' = bak => (Moved(d) => Moved(d)')
  BY MovedKept
<1>1. CASE Start
  <2>1. pc = "start" /\ cur = {} /\ UNCHANGED <<todo, cur, restored>>
    BY <1>1, StartFacts DEF Loop
  <2>2. CASE UNCHANGED <<fs, bak>> /\ pc' \in {"next", "exists"}
    BY <1>s, <1>m, <2>1, <2>2 DEF Safe
  <2>3. ASSUME NEW t \in todo, t.dest \in Dests, pc' = "next",
               Prepare(t.dest, req.mode), ~Refuses(t.dest, req.mode)
        PROVE  Safe(d)' /\ (d \in restored' => Moved(d)')
    <3>1. CASE t.dest = d
      <4>1. Moved(d)' /\ fs'[d] = None
        BY <1>f, <1>s, <2>1, <2>3, <3>1, SafePrepared
      <4> QED
        BY <4>1 DEF Safe
    <3>2. CASE t.dest # d
      <4>1. fs'[d] = fs[d] /\ bak'[d] = bak[d]
        BY <1>s, <2>3, <3>2, PrepareTypes
      <4> QED
        BY <1>s, <2>1, <3>2, <4>1, SafeElsewhere
    <3> QED
      BY <3>1, <3>2
  <2> QED
    BY <1>1, <2>2, <2>3, StartFacts
<1>2. ASSUME NEW t \in todo, Open(t) PROVE Safe(d)' /\ (d \in restored' => Moved(d)')
  <2>1. /\ t.dest \in Dests /\ pc = "next" /\ cur' = {t} /\ cur = {}
        /\ UNCHANGED <<todo, restored>>
    BY <1>2, OpenFacts DEF Loop
  <2>2. CASE pc' = "exists" /\ CleanUp /\ bak' = bak
    BY <1>s, <2>1, <2>2, SafeCleaned
  <2>3. CASE pc' = "write" /\ Prepare(t.dest, Mode) /\ ~Refuses(t.dest, Mode)
    <3>1. CASE t.dest = d
      <4>1. Mode = req.mode \/ fs[t.dest] = None
        BY <1>f, <2>1 DEF Mode, FileReady
      <4>2. Moved(d)' /\ fs'[d] = None
        BY <1>f, <1>s, <2>1, <2>3, <3>1, <4>1, SafePrepared
      <4> QED
        BY <4>2 DEF Safe
    <3>2. CASE t.dest # d
      <4>1. fs'[d] = fs[d] /\ bak'[d] = bak[d]
        BY <1>s, <2>1, <2>3, <3>2, PrepareTypes
      <4> QED
        BY <1>s, <2>1, <3>2, <4>1, SafeElsewhere
    <3> QED
      BY <3>1, <3>2
  <2> QED
    BY <1>2, <2>2, <2>3, OpenFacts
<1>3. ASSUME NEW t \in cur, Write(t) PROVE Safe(d)' /\ (d \in restored' => Moved(d)')
  <2>1. /\ t.dest \in Dests /\ pc = "write" /\ pc' = "meta" /\ cur = {t} /\ t \in todo
        /\ UNCHANGED <<bak, todo, cur>>
        /\ \A e \in Dests : e # t.dest => fs'[e] = fs[e]
        /\ restored' \subseteq restored \cup {t.dest}
    BY <1>3, WriteFacts
  <2>2. CASE t.dest = d
    <3>1. Moved(d)'
      BY <1>s, <1>m, <2>1, <2>2 DEF Safe
    <3>2. \A u \in todo \ cur : u.dest # d
      BY <2>1, <2>2 DEF Distinct, TypeInv
    <3> QED
      BY <2>1, <3>1, <3>2 DEF Safe
  <2>3. CASE t.dest # d
    BY <1>s, <2>1, <2>3, SafeElsewhere
  <2> QED
    BY <2>2, <2>3
<1>4. CASE Break
  BY <1>4, <1>s, SafeCleaned DEF Break
<1>5. CASE Passed /\ restored' \subseteq restored /\ todo' \ cur' \subseteq todo \ cur
             /\ (pc' \in {"start", "next", "write", "meta"} =>
                   pc \in {"start", "next", "write", "meta"})
             /\ (pc' \in {"write", "meta"} => pc \in {"write", "meta"} /\ cur' = cur)
  BY <1>5, <1>s, <1>m DEF Safe, Passed
<1>6. CASE \E t \in cur : pc = "meta" /\ Passed /\ cur = {t} /\ todo' = todo \ {t} /\ cur' = {}
                          /\ pc' = "next" /\ UNCHANGED <<force, restored>>
  BY <1>5, <1>6
<1>7. CASE Passed /\ UNCHANGED <<force, restored, todo, cur, fresh>>
             /\ (pc' = pc \/ pc' = "dead" \/ (pc = "next" /\ pc' = "ok" /\ todo = {}))
  BY <1>5, <1>7
<1>8. CASE pc = "exists" /\ Passed /\ restored' = {} /\ cur' = {} /\ todo' = todo
             /\ pc' = "failed" /\ force' = force
  <2>1. {} \subseteq restored
    OBVIOUS
  <2> QED
    BY <1>8, <1>s, <1>m DEF Safe, Passed
<1> QED
  BY <1>1, <1>2, <1>3, <1>4, <1>6, <1>7, <1>8, OtherSteps

\* In mode "ask" no step touches a file of the user.
LEMMA UntouchedStep ==
  ASSUME TypeInv, Loop, FileReady, Untouched, UNCHANGED Fixed, [RestoreNext]_writing
  PROVE  Untouched'
<1> SUFFICES ASSUME req.mode = "ask", ~force'
             PROVE  /\ \A d \in had : fs'[d] = Original /\ d \notin restored'
                    /\ pc' \in {"write", "meta"} => \A t \in cur' : t.dest \notin had
  BY FixedFacts DEF Untouched
<1>f. ~force
  BY OtherSteps DEF Start, Open, Write, Break
<1>s. /\ \A d \in had : d \in Dests /\ fs[d] = Original /\ d \notin restored
      /\ pc \in {"write", "meta"} => \A t \in cur : t.dest \notin had
  BY <1>f DEF Untouched, TypeInv
<1>1. CASE Start
  <2>1. pc' \in {"next", "exists"} /\ restored' = restored
    BY <1>1, StartFacts
  <2>2. \A d \in had : fs'[d] = fs[d]
    <3>1. ASSUME NEW t \in todo, t.dest \in Dests, Prepare(t.dest, req.mode), NEW d \in had
          PROVE  fs'[d] = fs[d]
      BY <1>s, <3>1, PrepareTypes
    <3> QED
      BY <1>1, <3>1, StartFacts
  <2> QED
    BY <1>s, <2>1, <2>2
<1>2. ASSUME NEW t \in todo, Open(t)
      PROVE  /\ \A d \in had : fs'[d] = Original /\ d \notin restored'
             /\ pc' \in {"write", "meta"} => \A u \in cur' : u.dest \notin had
  <2>1. t.dest \in Dests /\ pc = "next" /\ cur' = {t} /\ restored' = restored
    BY <1>2, OpenFacts
  <2>2. CASE pc' = "exists" /\ CleanUp
    BY <1>s, <2>1, <2>2, CleanUpTypes
  <2>3. CASE pc' = "write" /\ Prepare(t.dest, Mode) /\ ~Refuses(t.dest, Mode)
    <3>1. Mode # "backup"
      BY DEF Mode
    <3>2. \A d \in had : fs'[d] = fs[d]
      BY <1>s, <2>1, <2>3, <3>1, PrepareTypes
    <3>3. ASSUME t.dest \in had PROVE FALSE
      <4>1. fs[t.dest] # None
        BY <1>s, <3>3, EmptySeq DEF Original, None
      <4>2. Mode # "ask"
        BY <1>f, <2>3, <4>1 DEF Refuses
      <4> QED
        BY <1>f, <2>1, <4>1, <4>2 DEF Mode, FileReady
    <3> QED
      BY <1>s, <2>1, <3>2, <3>3
  <2> QED
    BY <1>2, <2>2, <2>3, OpenFacts
<1>3. ASSUME NEW t \in cur, Write(t)
      PROVE  /\ \A d \in had : fs'[d] = Original /\ d \notin restored'
             /\ pc' \in {"write", "meta"} => \A u \in cur' : u.dest \notin had
  BY <1>3, <1>s, WriteFacts
<1>4. CASE Break
  BY <1>4, <1>s, CleanUpTypes DEF Break
<1>5. CASE Passed /\ restored' \subseteq restored
             /\ (pc' \in {"write", "meta"} => pc \in {"write", "meta"} /\ cur' = cur)
  BY <1>5, <1>s DEF Passed
<1>6. CASE \E t \in cur : pc = "meta" /\ Passed /\ cur = {t} /\ todo' = todo \ {t} /\ cur' = {}
                          /\ pc' = "next" /\ UNCHANGED <<force, restored>>
  BY <1>5, <1>6
<1>7. CASE Passed /\ UNCHANGED <<force, restored, todo, cur, fresh>>
             /\ (pc' = pc \/ pc' = "dead" \/ (pc = "next" /\ pc' = "ok" /\ todo = {}))
  BY <1>5, <1>7
<1>8. CASE pc = "exists" /\ Passed /\ restored' = {} /\ cur' = {} /\ todo' = todo
             /\ pc' = "failed" /\ force' = force
  BY <1>5, <1>8
<1> QED
  BY <1>1, <1>2, <1>3, <1>4, <1>6, <1>7, <1>8, OtherSteps

\* What a restore creates it remembers until it has removed it.
LEMMA OnlyRestoredStep ==
  ASSUME TypeInv, Loop, OnlyRestored, UNCHANGED Fixed, [RestoreNext]_writing
  PROVE  OnlyRestored'
<1> DEFINE Created == \A d \in Dests \ had :
                        fs[d] = None \/ (d \in restored /\ pc \notin {"failed", "exists"})
           Known == pc = "write" /\ ~fresh => \A t \in cur : t.dest \in had \cup restored
<1> SUFFICES ASSUME req.kind = "zip", req.op # "file", ~force'
             PROVE  /\ \A d \in Dests \ had :
                         fs'[d] = None \/ (d \in restored' /\ pc' \notin {"failed", "exists"})
                    /\ pc' = "write" /\ ~fresh' => \A t \in cur' : t.dest \in had \cup restored'
  BY FixedFacts DEF OnlyRestored
<1>f. ~force
  BY OtherSteps DEF Start, Open, Write, Break
<1>s. Created /\ Known
  BY <1>f DEF OnlyRestored
<1>1. CASE Start
  BY <1>1, <1>s, StartFacts
<1>2. ASSUME NEW t \in todo, Open(t)
      PROVE  /\ \A d \in Dests \ had :
                  fs'[d] = None \/ (d \in restored' /\ pc' \notin {"failed", "exists"})
             /\ pc' = "write" /\ ~fresh' => \A u \in cur' : u.dest \in had \cup restored'
  <2>1. /\ t.dest \in Dests /\ pc = "next" /\ cur' = {t} /\ restored' = restored
        /\ fresh' = (fs[t.dest] = None)
    BY <1>2, OpenFacts
  <2>2. CASE pc' = "exists" /\ CleanUp
    BY <1>s, <2>1, <2>2, CleanUpTypes
  <2>3. CASE pc' = "write" /\ Prepare(t.dest, Mode)
    <3>1. \A d \in Dests : fs'[d] = fs[d] \/ fs'[d] = None
      BY <2>1, <2>3, PrepareTypes
    <3>2. ~fresh' => t.dest \in had \cup restored
      BY <1>s, <2>1
    <3> QED
      BY <1>s, <2>1, <2>3, <3>1, <3>2
  <2> QED
    BY <1>2, <2>2, <2>3, OpenFacts
<1>3. ASSUME NEW t \in cur, Write(t)
      PROVE  /\ \A d \in Dests \ had :
                  fs'[d] = None \/ (d \in restored' /\ pc' \notin {"failed", "exists"})
             /\ pc' = "write" /\ ~fresh' => \A u \in cur' : u.dest \in had \cup restored'
  <2>1. /\ pc = "write" /\ pc' = "meta" /\ cur = {t}
        /\ \A d \in Dests : d # t.dest => fs'[d] = fs[d]
        /\ fresh => restored' = restored \cup {t.dest}
        /\ ~fresh => restored' = restored
    BY <1>3, WriteFacts
  <2>2. fresh \in BOOLEAN
    BY DEF TypeInv
  <2> QED
    BY <1>s, <2>1, <2>2
<1>4. CASE Break
  BY <1>4, <1>s, CleanUpTypes DEF Break
<1>6. CASE \E t \in cur : pc = "meta" /\ Passed /\ cur = {t} /\ todo' = todo \ {t} /\ cur' = {}
                          /\ pc' = "next" /\ UNCHANGED <<force, restored>>
  BY <1>6, <1>s DEF Passed
<1>7. CASE Passed /\ UNCHANGED <<force, restored, todo, cur, fresh>>
             /\ (pc' = pc \/ pc' = "dead" \/ (pc = "next" /\ pc' = "ok" /\ todo = {}))
  BY <1>7, <1>s DEF Passed
<1>8. CASE pc = "exists" /\ Passed /\ restored' = {} /\ cur' = {} /\ todo' = todo
             /\ pc' = "failed" /\ force' = force
  BY <1>8, <1>s DEF Passed
<1> QED
  BY <1>1, <1>2, <1>3, <1>4, <1>6, <1>7, <1>8, OtherSteps

\* A target that is done stays written.
LEMMA WrittenStep ==
  ASSUME TypeInv, Loop, Written, UNCHANGED Fixed, [RestoreNext]_writing
  PROVE  Written'
<1> SUFFICES ASSUME Distinct, pc' \in {"start", "next", "write", "meta", "ok"}
             PROVE  /\ \A t \in targets \ todo' : fs'[t.dest] = t.file
                    /\ pc' = "meta" => \A t \in cur' : fs'[t.dest] = t.file
  BY FixedFacts DEF Written
<1>d. \A t \in targets : t.dest \in Dests
  BY DEF Dests
<1>1. CASE Start
  BY <1>1, StartFacts DEF Loop
<1>2. ASSUME NEW t \in todo, Open(t)
      PROVE  /\ \A u \in targets \ todo' : fs'[u.dest] = u.file
             /\ pc' = "meta" => \A u \in cur' : fs'[u.dest] = u.file
  <2>1. t.dest \in Dests /\ pc = "next" /\ todo' = todo /\ t \in targets
        /\ pc' = "write" /\ Prepare(t.dest, Mode)
    BY <1>2, OpenFacts DEF TypeInv
  <2>2. \A u \in targets \ todo : u.dest # t.dest /\ fs[u.dest] = u.file
    BY <2>1 DEF Distinct, Written
  <2> QED
    BY <1>d, <2>1, <2>2, PrepareTypes
<1>3. ASSUME NEW t \in cur, Write(t)
      PROVE  /\ \A u \in targets \ todo' : fs'[u.dest] = u.file
             /\ pc' = "meta" => \A u \in cur' : fs'[u.dest] = u.file
  <2>1. /\ pc = "write" /\ pc' = "meta" /\ cur = {t} /\ t \in todo /\ t \in targets
        /\ todo' = todo /\ cur' = cur /\ fs'[t.dest] = t.file
        /\ \A d \in Dests : d # t.dest => fs'[d] = fs[d]
    BY <1>3, WriteFacts DEF TypeInv
  <2>2. \A u \in targets \ todo : u.dest # t.dest /\ fs[u.dest] = u.file
    BY <2>1 DEF Distinct, Written
  <2> QED
    BY <1>d, <2>1, <2>2
<1>4. CASE Break
  BY <1>4 DEF Break
<1>6. CASE \E t \in cur : pc = "meta" /\ Passed /\ cur = {t} /\ todo' = todo \ {t} /\ cur' = {}
                          /\ pc' = "next" /\ UNCHANGED <<force, restored>>
  BY <1>6 DEF Passed, Written
<1>7. CASE Passed /\ UNCHANGED <<force, restored, todo, cur, fresh>>
             /\ (pc' = pc \/ pc' = "dead" \/ (pc = "next" /\ pc' = "ok" /\ todo = {}))
  BY <1>7 DEF Passed, Written
<1>8. CASE pc = "exists" /\ pc' = "failed"
  BY <1>8
<1>9. CASE pc = "exists" /\ todo' = targets /\ pc' = "start"
  BY <1>9
<1> QED
  BY <1>1, <1>2, <1>3, <1>4, <1>6, <1>7, <1>8, <1>9, OtherSteps

-----------------------------------------------------------------------------
(* Paths. *)

\* A path lies under another one when the rest of its names follow.
LEMMA UnderIsConcat ==
  ASSUME NEW S, NEW p \in Seq(S), NEW q \in Seq(S)
  PROVE  /\ Below(p, q) \in Seq(S)
         /\ Under(p, q) => p = q \o Below(p, q)
<1>0. Len(p) \in Nat /\ Len(q) \in Nat
  BY LenProperties
<1>1. Below(p, q) \in Seq(S)
  <2>1. \A i \in (Len(q) + 1)..Len(p) : p[i] \in S
    BY <1>0, ElementOfSeq
  <2> QED
    BY <1>0, <2>1, SubSeqProperties DEF Below
<1>2. ASSUME Under(p, q) PROVE p = q \o Below(p, q)
  <2>1. Len(q) <= Len(p) /\ SubSeq(q, 1, Len(q)) = SubSeq(p, 1, Len(q))
    BY <1>2 DEF Under, IsPrefix
  <2>2. SubSeq(p, 1, Len(q)) = q
    BY <2>1, SubSeqFull
  <2>3. /\ 1 \in 1..(Len(p) + 1) /\ Len(q) \in (1 - 1)..Len(p) /\ Len(p) \in Len(q)..Len(p)
    BY <1>0, <2>1
  <2>4. SubSeq(p, 1, Len(q)) \o SubSeq(p, Len(q) + 1, Len(p)) = SubSeq(p, 1, Len(p))
    BY <2>3, ConcatAdjacentSubSeq
  <2> QED
    BY <2>2, <2>4, SubSeqFull DEF Below
<1> QED
  BY <1>1, <1>2

LEMMA ConcatIsUnder ==
  ASSUME NEW S, NEW q \in Seq(S), NEW z \in Seq(S)
  PROVE  /\ q \o z \in Seq(S) /\ Len(q \o z) = Len(q) + Len(z)
         /\ Under(q \o z, q) /\ Below(q \o z, q) = z
<1> DEFINE p == q \o z
<1>0. Len(p) \in Nat /\ Len(q) \in Nat /\ Len(z) \in Nat
  BY LenProperties, ConcatProperties
<1>1. p \in Seq(S) /\ Len(p) = Len(q) + Len(z)
  BY ConcatProperties
<1>2. \A i \in 1..Len(p) : p[i] = IF i <= Len(q) THEN q[i] ELSE z[i - Len(q)]
  BY <1>1, ConcatProperties
<1> HIDE DEF p
<1>3. \A i \in 1..Len(p) : p[i] \in S
  BY <1>1, ElementOfSeq
<1>4. SubSeq(p, 1, Len(q)) = q
  <2>1. \A i \in 1..Len(q) : p[i] \in S
    BY <1>0, <1>1, <1>3
  <2>2. /\ SubSeq(p, 1, Len(q)) \in Seq(S) /\ Len(SubSeq(p, 1, Len(q))) = Len(q)
        /\ \A i \in 1..Len(q) : SubSeq(p, 1, Len(q))[i] = p[i]
    BY <1>0, <2>1, SubSeqProperties
  <2>3. \A i \in 1..Len(q) : SubSeq(p, 1, Len(q))[i] = q[i]
    BY <1>0, <1>1, <1>2, <2>2
  <2> QED
    BY <2>2, <2>3, SeqEqual
<1>5. SubSeq(p, Len(q) + 1, Len(p)) = z
  <2>1. \A i \in (Len(q) + 1)..Len(p) : p[i] \in S
    BY <1>0, <1>1, <1>3
  <2> DEFINE b == SubSeq(p, Len(q) + 1, Len(p))
  <2>2. /\ b \in Seq(S) /\ Len(b) = IF Len(q) + 1 <= Len(p) THEN Len(p) - (Len(q) + 1) + 1 ELSE 0
        /\ \A i \in 1..(Len(p) - (Len(q) + 1) + 1) : b[i] = p[(Len(q) + 1) + i - 1]
    BY <1>0, <2>1, SubSeqProperties
  <2> HIDE DEF b
  <2>3. Len(b) = Len(z)
    BY <1>0, <1>1, <2>2
  <2>4. ASSUME NEW i \in 1..Len(b) PROVE b[i] = z[i]
    <3>1. /\ i \in 1..(Len(p) - (Len(q) + 1) + 1) /\ (Len(q) + 1) + i - 1 \in 1..Len(p)
          /\ ~((Len(q) + 1) + i - 1 <= Len(q)) /\ (Len(q) + 1) + i - 1 - Len(q) = i
      BY <1>0, <1>1, <2>3
    <3>2. b[i] = p[(Len(q) + 1) + i - 1]
      BY <2>2, <3>1
    <3>3. p[(Len(q) + 1) + i - 1] = z[(Len(q) + 1) + i - 1 - Len(q)]
      BY <1>2, <3>1
    <3> QED
      BY <3>1, <3>2, <3>3
  <2>5. b = z
    BY <2>2, <2>3, <2>4, SeqEqual
  <2> QED
    BY <2>5 DEF b
<1>6. Under(p, q) /\ Below(p, q) = z
  BY <1>0, <1>1, <1>4, <1>5, SubSeqFull DEF Under, Below, IsPrefix
<1> QED
  BY <1>1, <1>6 DEF p

\* Every path lies under itself.
LEMMA UnderItself == ASSUME NEW S, NEW p \in Seq(S) PROVE Under(p, p)
BY LenProperties DEF Under, IsPrefix

\* What lies under a path keeps its order when both get the same names in front.
LEMMA UnderSameFront ==
  ASSUME NEW S, NEW s \in Seq(S), NEW x \in Seq(S), NEW y \in Seq(S), Under(x, y)
  PROVE  Under(s \o x, s \o y)
<1>1. PICK a \in Seq(S) : x = y \o a
  BY UnderIsConcat
<1>2. (s \o y) \o a = s \o (y \o a)
  BY ConcatAssociative
<1>3. s \o x = (s \o y) \o a
  BY <1>1, <1>2
<1>4. s \o y \in Seq(S)
  BY ConcatIsUnder
<1>5. Under((s \o y) \o a, s \o y)
  BY <1>4, ConcatIsUnder
<1> QED
  BY <1>3, <1>5

-----------------------------------------------------------------------------
(* The catalogue. *)

\* The names that occur in paths of the catalogue.
Names == STRING \cup {Labels(sources)[i] : i \in 1..Len(sources)}

LEMMA SourcesArePaths ==
  ASSUME RestoreAssumption, sources \in JobSources
  PROVE  /\ Len(sources) \in Nat /\ Len(sources) > 0
         /\ \A i \in 1..Len(sources) : sources[i] \in Seq(Names)
         /\ Disk \subseteq Seq(Names) /\ Roots \subseteq Seq(Names)
<1>1. sources \in Seq(Seq(STRING)) /\ Len(sources) > 0
  BY DEF RestoreAssumption
<1>2. STRING \subseteq Names
  BY DEF Names
<1>3. \A p \in Seq(STRING) : p \in Seq(Names)
  BY <1>2, SeqMonotonic
<1>4. \A i \in 1..Len(sources) : sources[i] \in Seq(STRING)
  BY <1>1, ElementOfSeq
<1> QED
  BY <1>1, <1>3, <1>4, LenProperties DEF RestoreAssumption

\* A file of the catalogue comes from a source that is staged.
LEMMA CatalogOrigin ==
  ASSUME RestoreAssumption, sources \in JobSources, NEW e \in Entries(sources)
  PROVE  \E i \in Staged(sources), x \in Disk :
           /\ e = [file |-> e.file, home |-> x]
           /\ i \in 1..Len(sources) /\ sources[i] \in Seq(Names) /\ x \in Seq(Names)
           /\ Under(x, sources[i])
           /\ Below(x, sources[i]) \in Seq(Names) /\ x = sources[i] \o Below(x, sources[i])
           /\ e.file = IF Len(sources) = 1 THEN Below(x, sources[i])
                       ELSE <<Labels(sources)[i]>> \o Below(x, sources[i])
<1>1. PICK y \in {z \in Staged(sources) \X Disk : Under(z[2], sources[z[1]])} :
        e = [file |-> CatalogPath(sources, y[1], y[2]), home |-> y[2]]
  BY DEF Entries
<1>2. /\ y[1] \in Staged(sources) /\ y[2] \in Disk /\ Under(y[2], sources[y[1]])
      /\ y[1] \in 1..Len(sources)
  BY DEF Staged
<1>3. sources[y[1]] \in Seq(Names) /\ y[2] \in Seq(Names)
  BY <1>2, SourcesArePaths
<1>4. /\ Below(y[2], sources[y[1]]) \in Seq(Names)
      /\ y[2] = sources[y[1]] \o Below(y[2], sources[y[1]])
  BY <1>2, <1>3, UnderIsConcat
<1>5. e.file = CatalogPath(sources, y[1], y[2]) /\ e = [file |-> e.file, home |-> y[2]]
  BY <1>1
<1> QED
  BY <1>2, <1>3, <1>4, <1>5 DEF CatalogPath

\* The first name in a path is one of the names.
LEMMA LabelIsName ==
  ASSUME NEW i \in 1..Len(sources) PROVE <<Labels(sources)[i]>> \in Seq(Names)
BY DEF Names

LEMMA CatalogPaths ==
  ASSUME RestoreAssumption, sources \in JobSources PROVE Catalog \subseteq Seq(Names)
<1> SUFFICES ASSUME NEW e \in Entries(sources) PROVE e.file \in Seq(Names)
  BY DEF Catalog
<1>1. PICK i \in Staged(sources), x \in Disk :
           /\ i \in 1..Len(sources) /\ Below(x, sources[i]) \in Seq(Names)
           /\ e.file = IF Len(sources) = 1 THEN Below(x, sources[i])
                       ELSE <<Labels(sources)[i]>> \o Below(x, sources[i])
  BY CatalogOrigin
<1>2. <<Labels(sources)[i]>> \o Below(x, sources[i]) \in Seq(Names)
  BY <1>1, LabelIsName, ConcatIsUnder
<1> QED
  BY <1>1, <1>2

\* Two names in front of paths, one of which lies under the other, are the same.
LEMMA SameFirst ==
  ASSUME NEW S, NEW l \in S, NEW m \in S, NEW a \in Seq(S), NEW b \in Seq(S),
         Under(<<l>> \o a, <<m>> \o b)
  PROVE  l = m /\ Under(a, b)
<1>0. <<l>> \in Seq(S) /\ <<m>> \in Seq(S) /\ Len(<<l>>) = 1 /\ Len(<<m>>) = 1
  OBVIOUS
<1> DEFINE p == <<l>> \o a
           q == <<m>> \o b
           z == Below(p, q)
<1>1. p \in Seq(S) /\ q \in Seq(S)
  BY <1>0, ConcatIsUnder
<1>2. p = q \o z /\ z \in Seq(S)
  <2> HIDE DEF p, q
  <2> QED
    BY <1>1, UnderIsConcat DEF p, q
<1> HIDE DEF z
<1>3. q \o z = <<m>> \o (b \o z)
  BY <1>0, <1>2, ConcatAssociative
<1>4. b \o z \in Seq(S)
  BY <1>2, ConcatIsUnder
<1>5. (<<l>> \o a)[1] = l
  <2>1. 1 \in 1..(Len(<<l>>) + Len(a)) /\ 1 <= Len(<<l>>)
    BY <1>0, LenProperties
  <2> QED
    BY <1>0, <2>1, ConcatProperties
<1>6. (<<m>> \o (b \o z))[1] = m
  <2>1. 1 \in 1..(Len(<<m>>) + Len(b \o z)) /\ 1 <= Len(<<m>>)
    BY <1>0, <1>4, LenProperties
  <2> QED
    BY <1>0, <1>4, <2>1, ConcatProperties
<1>7. <<l>> \o a = <<m>> \o (b \o z)
  BY <1>2, <1>3
<1>8. l = m
  BY <1>5, <1>6, <1>7
<1>9. a = b \o z
  <2>1. Below(<<l>> \o a, <<l>>) = a /\ Below(<<m>> \o (b \o z), <<m>>) = b \o z
    BY <1>0, <1>4, ConcatIsUnder
  <2> QED
    BY <1>7, <1>8, <2>1
<1> QED
  BY <1>2, <1>8, <1>9, ConcatIsUnder

\* No file of the catalogue is a folder.
LEMMA CatalogHasNoFolder ==
  ASSUME RestoreAssumption, sources \in JobSources, NEW f \in Catalog
  PROVE  ~IsFolder(f)
<1> SUFFICES ASSUME NEW g \in Catalog, Under(g, f) PROVE g = f
  BY DEF IsFolder
<1>1. PICK e \in Entries(sources) : e.file = f
  BY DEF Catalog
<1>2. PICK d \in Entries(sources) : d.file = g
  BY DEF Catalog
<1>3. PICK i \in Staged(sources), x \in Disk :
           /\ i \in 1..Len(sources) /\ sources[i] \in Seq(Names) /\ x \in Seq(Names)
           /\ Below(x, sources[i]) \in Seq(Names) /\ x = sources[i] \o Below(x, sources[i])
           /\ f = IF Len(sources) = 1 THEN Below(x, sources[i])
                  ELSE <<Labels(sources)[i]>> \o Below(x, sources[i])
  BY <1>1, CatalogOrigin
<1>4. PICK j \in Staged(sources), y \in Disk :
           /\ j \in 1..Len(sources) /\ sources[j] \in Seq(Names) /\ y \in Seq(Names)
           /\ Below(y, sources[j]) \in Seq(Names) /\ y = sources[j] \o Below(y, sources[j])
           /\ g = IF Len(sources) = 1 THEN Below(y, sources[j])
                  ELSE <<Labels(sources)[j]>> \o Below(y, sources[j])
  BY <1>2, CatalogOrigin
<1>5. i = j /\ Under(Below(y, sources[j]), Below(x, sources[i]))
  <2>1. CASE Len(sources) = 1
    BY <1>3, <1>4, <2>1
  <2>2. CASE Len(sources) # 1
    <3>1. Labels(sources)[i] \in Names /\ Labels(sources)[j] \in Names
      BY <1>3, <1>4 DEF Names
    <3>2. Under(<<Labels(sources)[j]>> \o Below(y, sources[j]),
                <<Labels(sources)[i]>> \o Below(x, sources[i]))
      BY <1>3, <1>4, <2>2
    <3>3. /\ Labels(sources)[j] = Labels(sources)[i]
          /\ Under(Below(y, sources[j]), Below(x, sources[i]))
      BY <1>3, <1>4, <3>1, <3>2, SameFirst
    <3>4. i = j
      <4>1. \A k \in 1..(j - 1) : Labels(sources)[k] # Labels(sources)[j]
        BY DEF Staged
      <4>2. \A k \in 1..(i - 1) : Labels(sources)[k] # Labels(sources)[i]
        BY DEF Staged
      <4>3. i \in Nat \ {0} /\ j \in Nat \ {0}
        BY <1>3, <1>4
      <4>4. ~(i < j) /\ ~(j < i)
        BY <3>3, <4>1, <4>2, <4>3
      <4> QED
        BY <4>3, <4>4
    <3> QED
      BY <3>3, <3>4
  <2> QED
    BY <2>1, <2>2
<1>6. Under(y, x)
  BY <1>3, <1>4, <1>5, UnderSameFront
<1>7. x = y
  BY <1>6 DEF RestoreAssumption, Under
<1> QED
  BY <1>3, <1>4, <1>5, <1>7

\* A folder of the catalogue has a name and holds a file.
LEMMA FoldersHoldFiles ==
  ASSUME RestoreAssumption, sources \in JobSources, NEW p \in Folders
  PROVE  p \in Seq(Names) /\ Len(p) > 0 /\ IsFolder(p)
<1>1. PICK f \in Catalog : p \in {SubSeq(f, 1, n) : n \in 1..(Len(f) - 1)}
  BY DEF Folders
<1>2. PICK n \in 1..(Len(f) - 1) : p = SubSeq(f, 1, n)
  BY <1>1
<1>3. f \in Seq(Names) /\ Len(f) \in Nat
  BY CatalogPaths, LenProperties
<1>4. \A i \in 1..n : f[i] \in Names
  BY <1>2, <1>3, ElementOfSeq
<1>5. p \in Seq(Names) /\ Len(p) = n
  BY <1>2, <1>4, SubSeqProperties
<1>6. SubSeq(p, 1, Len(p)) = p
  BY <1>5, SubSeqFull
<1>7. Under(f, p)
  BY <1>2, <1>3, <1>5, <1>6 DEF Under, IsPrefix
<1>8. f # p
  BY <1>2, <1>3, <1>5
<1> QED
  BY <1>2, <1>5, <1>7, <1>8 DEF IsFolder

-----------------------------------------------------------------------------
(* From the selection to targets. *)

\* Every nonempty set of natural numbers has a least one.
LEMMA NatLeast ==
  ASSUME NEW T, T \subseteq Nat, T # {}
  PROVE  \E x \in T : \A y \in T : x <= y
<1> DEFINE R == {ss \in Nat \X Nat : ss[1] < ss[2]}
<1>1. IsWellFoundedOn(R, Nat)
  BY NatLessThanWellFounded DEF OpToRel
<1>2. \A x, y \in Nat : x < y => <<x, y>> \in R
  OBVIOUS
<1> HIDE DEF R
<1>3. PICK x \in T : \A y \in T : ~(<<y, x>> \in R)
  BY <1>1, WFMin
<1>4. \A y \in T : y \in Nat /\ ~(y < x)
  BY <1>2, <1>3
<1>5. \A y \in T : x <= y
  BY <1>4
<1> QED
  BY <1>5

\* What the request holds.
Asked ==
  /\ req.kind \in {"zip", "pbs"} /\ req.mode \in {"overwrite", "backup", "ask"}
  /\ req.sel \subseteq Catalog \cup Folders /\ req.root \in Roots
  /\ sources \in JobSources

LEMMA SelectionPaths ==
  ASSUME RestoreAssumption, Asked, NEW s \in req.sel
  PROVE  /\ s \in Seq(Names)
         /\ ~IsFolder(s) => s \in Catalog
         /\ IsFolder(s) => Len(s) > 0
<1>1. CASE s \in Catalog
  BY <1>1, CatalogPaths, CatalogHasNoFolder DEF Asked
<1>2. CASE s \in Folders
  BY <1>2, FoldersHoldFiles DEF Asked
<1> QED
  BY <1>1, <1>2 DEF Asked

\* A file under some selected path is under a shortest one.
LEMMA ShortestSelected ==
  ASSUME RestoreAssumption, Asked, NEW f \in Catalog, NEW s0 \in req.sel, Under(f, s0)
  PROVE  \E s \in req.sel : Under(f, s) /\ ~Covered(f, s)
<1> DEFINE T == {Len(s) : s \in {x \in req.sel : Under(f, x)}}
<1>0. \A x \in req.sel : Len(x) \in Nat
  BY SelectionPaths, LenProperties
<1>1. T \subseteq Nat /\ T # {}
  BY <1>0
<1>2. PICK n \in T : \A m \in T : n <= m
  <2> HIDE DEF T
  <2> QED
    BY <1>1, NatLeast
<1>3. PICK s \in req.sel : Under(f, s) /\ n = Len(s)
  OBVIOUS
<1>4. ASSUME NEW o \in req.sel, Under(f, o) PROVE ~(Len(o) < Len(s))
  <2>1. Len(o) \in T
    BY <1>4
  <2>2. Len(s) <= Len(o) /\ Len(s) \in Nat /\ Len(o) \in Nat
    BY <1>1, <1>2, <1>3, <2>1
  <2> QED
    BY <2>2
<1> QED
  BY <1>3, <1>4 DEF Covered

\* A path is its own folder only when a file lies below it.
LEMMA FileIsItself ==
  ASSUME NEW f \in Catalog, NEW s, Under(f, s), ~IsFolder(s)
  PROVE  f = s
BY DEF IsFolder

LEMMA InFolderTargets ==
  ASSUME NEW f \in Catalog, NEW s, Under(f, s), ~Covered(f, s)
  PROVE  \E t \in FolderTargets(s) : t.file = f
<1> DEFINE t == [file |-> f, dest |-> BatchDest(f, s)]
<1>1. f \in {x \in Catalog : Under(x, s) /\ ~Covered(x, s)}
  OBVIOUS
<1>2. t \in FolderTargets(s)
  BY <1>1 DEF FolderTargets
<1> QED
  BY <1>2

LEMMA FolderTargetsFiles ==
  ASSUME NEW s, NEW t \in FolderTargets(s)
  PROVE  /\ t.file \in Catalog /\ Under(t.file, s)
         /\ t = [file |-> t.file, dest |-> BatchDest(t.file, s)]
BY DEF FolderTargets

\* A target is a file of a selected folder, or a selected file.
LEMMA TargetOrigin ==
  ASSUME RestoreAssumption, Asked, NEW t \in Targets
  PROVE  \/ \E s \in req.sel : IsFolder(s) /\ t \in FolderTargets(s)
         \/ \E s \in req.sel :
              ~IsFolder(s) /\ s \in Catalog /\ t = [file |-> s, dest |-> FileDest(s)]
<1>s. \A s \in req.sel : ~IsFolder(s) => s \in Catalog
  BY SelectionPaths
<1>1. CASE req.kind = "zip"
  <2>1. CASE t \in UNION {FolderTargets(s) : s \in {x \in req.sel : IsFolder(x)}}
    BY <2>1
  <2>2. CASE t \in {[file |-> s, dest |-> FileDest(s)] :
                      s \in {x \in req.sel : ~IsFolder(x) /\ ~Covered(x, x)}}
    BY <1>s, <2>2
  <2> QED
    BY <1>1, <2>1, <2>2 DEF Targets, ZipTargets
<1>2. CASE req.kind # "zip"
  <2>1. CASE t \in UNION {FolderTargets(s) : s \in {x \in req.sel : IsFolder(x)}}
    BY <2>1
  <2>2. CASE t \in {[file |-> s, dest |-> FileDest(s)] : s \in {x \in req.sel : ~IsFolder(x)}}
    BY <1>s, <2>2
  <2> QED
    BY <1>2, <2>1, <2>2 DEF Targets, PbsTargets
<1> QED
  BY <1>1, <1>2

\* The targets are the selected files and the files of the selected folders.
LEMMA TargetsOfSelection ==
  ASSUME RestoreAssumption, Asked
  PROVE  {t.file : t \in Targets} = Wanted
<1>1. ASSUME NEW t \in Targets PROVE t.file \in Wanted
  <2>1. CASE \E s \in req.sel : IsFolder(s) /\ t \in FolderTargets(s)
    BY <2>1, FolderTargetsFiles DEF Wanted
  <2>2. ASSUME NEW s \in req.sel, s \in Catalog, t = [file |-> s, dest |-> FileDest(s)]
        PROVE  t.file \in Wanted
    <3>1. Under(s, s)
      BY SelectionPaths, UnderItself
    <3> QED
      BY <2>2, <3>1 DEF Wanted
  <2> QED
    BY <2>1, <2>2, TargetOrigin
<1>2. ASSUME NEW f \in Wanted PROVE \E t \in Targets : t.file = f
  <2>1. f \in Catalog /\ \E s \in req.sel : Under(f, s)
    BY DEF Wanted
  <2>2. PICK s \in req.sel : Under(f, s) /\ ~Covered(f, s)
    BY <2>1, ShortestSelected
  <2>3. CASE req.kind = "zip"
    <3>1. CASE IsFolder(s)
      <4>1. PICK t \in FolderTargets(s) : t.file = f
        BY <2>1, <2>2, InFolderTargets
      <4> QED
        BY <2>3, <3>1, <4>1 DEF Targets, ZipTargets
    <3>2. CASE ~IsFolder(s)
      <4>1. f = s
        BY <2>1, <2>2, <3>2, FileIsItself
      <4>2. s \in {x \in req.sel : ~IsFolder(x) /\ ~Covered(x, x)}
        BY <2>2, <3>2, <4>1
      <4>3. [file |-> s, dest |-> FileDest(s)] \in Targets
        BY <2>3, <4>2 DEF Targets, ZipTargets
      <4> QED
        BY <4>1, <4>3
    <3> QED
      BY <3>1, <3>2
  <2>4. CASE req.kind # "zip"
    <3>1. CASE f \in req.sel
      <4>1. ~IsFolder(f)
        BY <2>1, CatalogHasNoFolder DEF Asked
      <4>2. [file |-> f, dest |-> FileDest(f)] \in Targets
        BY <2>4, <3>1, <4>1 DEF Targets, PbsTargets
      <4> QED
        BY <4>2
    <3>2. CASE f \notin req.sel
      <4>1. IsFolder(s)
        BY <2>1, <2>2, <3>2, FileIsItself
      <4>2. PICK t \in FolderTargets(s) : t.file = f
        BY <2>1, <2>2, InFolderTargets
      <4>3. t \in Targets
        BY <2>4, <3>2, <4>1, <4>2 DEF Targets, PbsTargets
      <4> QED
        BY <4>2, <4>3
    <3> QED
      BY <3>1, <3>2
  <2> QED
    BY <2>3, <2>4
<1> QED
  BY <1>1, <1>2

\* A selection of one file is one target.
LEMMA OneFile ==
  ASSUME RestoreAssumption, Asked, NEW f \in Catalog, req.sel = {f}
  PROVE  \E t : Targets = {t}
<1>1. ~IsFolder(f)
  BY CatalogHasNoFolder DEF Asked
<1>2. ~Covered(f, f)
  BY DEF Covered
<1>3. {x \in req.sel : IsFolder(x)} = {} /\ {x \in req.sel : ~IsFolder(x)} = {f}
      /\ {x \in req.sel : ~IsFolder(x) /\ ~Covered(x, x)} = {f}
  BY <1>1, <1>2
<1>4. UNION {FolderTargets(s) : s \in {x \in req.sel : IsFolder(x)}} = {}
  BY <1>3
<1>5. ZipTargets = {[file |-> f, dest |-> FileDest(f)]}
  BY <1>3, <1>4 DEF ZipTargets
<1>6. PbsTargets = {[file |-> f, dest |-> FileDest(f)]}
  BY <1>3, <1>4 DEF PbsTargets
<1> QED
  BY <1>5, <1>6 DEF Targets

\* The last name of a path with names in front of it.
LEMMA LastOfConcat ==
  ASSUME NEW S, NEW a \in Seq(S), NEW b \in Seq(S), Len(b) > 0
  PROVE  Last(a \o b) = Last(b)
<1>1. Len(a) \in Nat /\ Len(b) \in Nat /\ Len(a \o b) = Len(a) + Len(b)
  BY LenProperties, ConcatProperties
<1>2. /\ Len(a \o b) \in 1..(Len(a) + Len(b)) /\ ~(Len(a \o b) <= Len(a))
      /\ Len(a \o b) - Len(a) = Len(b)
  BY <1>1
<1>3. (a \o b)[Len(a \o b)] = b[Len(a \o b) - Len(a)]
  BY <1>2, ConcatProperties
<1> QED
  BY <1>2, <1>3 DEF Last

\* Where the targets go: below the chosen folder, or with one source to where
\* they came from.
LEMMA TargetPlaces ==
  ASSUME RestoreAssumption, Asked, NEW t \in Targets
  PROVE  /\ req.root # <<>> => Under(t.dest, req.root)
         /\ req.root = <<>> /\ Len(sources) = 1 =>
              [file |-> t.file, home |-> t.dest] \in Entries(sources)
<1>0. sources \in JobSources
  BY DEF Asked
<1>1. req.root \in Seq(Names)
  BY <1>0, SourcesArePaths DEF Asked
<1>2. Len(sources) = 1 => sources[1] \in Seq(Names) /\ \A p : PickSourceRoot(p) = sources[1]
  BY <1>0, SourcesArePaths DEF PickSourceRoot
<1>3. ASSUME NEW f \in Catalog, Len(sources) = 1
      PROVE  [file |-> f, home |-> sources[1] \o f] \in Entries(sources)
  <2>1. PICK e \in Entries(sources) : e.file = f
    BY DEF Catalog
  <2>2. PICK i \in Staged(sources), x \in Disk :
           /\ e = [file |-> e.file, home |-> x] /\ i \in 1..Len(sources)
           /\ x = sources[i] \o Below(x, sources[i])
           /\ e.file = IF Len(sources) = 1 THEN Below(x, sources[i])
                       ELSE <<Labels(sources)[i]>> \o Below(x, sources[i])
    BY <1>0, CatalogOrigin
  <2>3. i = 1
    BY <1>3, <2>2
  <2> QED
    BY <1>3, <2>1, <2>2, <2>3
<1>4. ASSUME NEW s \in req.sel, ~IsFolder(s), s \in Catalog, t = [file |-> s, dest |-> FileDest(s)]
      PROVE  /\ req.root # <<>> => Under(t.dest, req.root)
             /\ req.root = <<>> /\ Len(sources) = 1 =>
                  [file |-> t.file, home |-> t.dest] \in Entries(sources)
  <2>1. s \in Seq(Names)
    BY SelectionPaths
  <2>2. Under(req.root \o s, req.root)
    BY <1>1, <2>1, ConcatIsUnder
  <2> QED
    BY <1>2, <1>3, <1>4, <2>2 DEF FileDest, OriginalDest
<1>5. ASSUME NEW s \in req.sel, IsFolder(s), t \in FolderTargets(s)
      PROVE  /\ req.root # <<>> => Under(t.dest, req.root)
             /\ req.root = <<>> /\ Len(sources) = 1 =>
                  [file |-> t.file, home |-> t.dest] \in Entries(sources)
  <2>1. /\ t.file \in Catalog /\ Under(t.file, s) /\ t.dest = BatchDest(t.file, s)
    BY <1>5, FolderTargetsFiles
  <2>2. s \in Seq(Names) /\ t.file \in Seq(Names) /\ Len(s) > 0
    BY <1>0, <1>5, <2>1, SelectionPaths, CatalogPaths
  <2>3. Below(t.file, s) \in Seq(Names) /\ t.file = s \o Below(t.file, s)
    BY <2>1, <2>2, UnderIsConcat
  <2>4. Under(req.root \o Below(t.file, s), req.root) /\ Under(req.root \o t.file, req.root)
    BY <1>1, <2>2, <2>3, ConcatIsUnder
  <2>5. req.root # <<>> => Under(t.dest, req.root)
    BY <2>1, <2>4 DEF BatchDest, FolderDest
  <2>6. ASSUME req.root = <<>>, Len(sources) = 1
        PROVE  t.dest = sources[1] \o t.file
    <3>1. sources[1] \in Seq(Names)
      BY <1>2, <2>6
    <3>2. t.dest = FolderDest(t.file, sources[1] \o s, s)
      BY <1>2, <2>1, <2>6 DEF BatchDest, OriginalDest
    <3>3. Last(sources[1] \o s) = Last(s)
      BY <2>2, <3>1, LastOfConcat
    <3>4. t.dest = (sources[1] \o s) \o Below(t.file, s)
      BY <3>2, <3>3 DEF FolderDest
    <3>5. (sources[1] \o s) \o Below(t.file, s) = sources[1] \o (s \o Below(t.file, s))
      <4> DEFINE b == Below(t.file, s)
                 a == sources[1]
      <4>1. a \in Seq(Names) /\ s \in Seq(Names) /\ b \in Seq(Names)
        BY <2>2, <2>3, <3>1
      <4> HIDE DEF a, b
      <4>2. (a \o s) \o b = a \o (s \o b)
        BY <4>1, ConcatAssociative
      <4> QED
        BY <4>2 DEF a, b
    <3> QED
      BY <2>3, <3>4, <3>5
  <2> QED
    BY <1>3, <2>1, <2>5, <2>6
<1> QED
  BY <1>4, <1>5, TargetOrigin

-----------------------------------------------------------------------------
(* What the targets are does not change. *)

Chosen ==
  /\ {t.file : t \in targets} = Wanted
  /\ \A t \in targets :
       /\ req.root # <<>> => Under(t.dest, req.root)
       /\ req.root = <<>> /\ Len(sources) = 1 =>
            [file |-> t.file, home |-> t.dest] \in Entries(sources)

Inv == LoopInv /\ Chosen

LEMMA InvInit == ASSUME RestoreAssumption, RestoreInit PROVE Inv
<1>1. /\ sources \in JobSources
      /\ req \in Requests /\ (FileRequest(req) \/ FolderRequest(req) \/ BatchRequest(req))
      /\ force \in BOOLEAN /\ targets = Targets /\ had \subseteq Dests
      /\ fs = [d \in Dests |-> IF d \in had THEN Original ELSE None]
      /\ bak = [d \in Dests |-> [s \in 0..MaxSecond |-> None]]
      /\ second = 0 /\ todo = targets /\ cur = {} /\ fresh = FALSE /\ restored = {}
      /\ pc = "start"
  BY DEF RestoreInit
<1>2. Asked
  <2>1. /\ req.kind \in Destinations /\ req.mode \in {"overwrite", "backup", "ask"}
        /\ req.sel \in UNION {kSubset(n, Catalog \cup Folders) : n \in 1..MaxSelected}
        /\ req.root \in Roots
    BY <1>1 DEF Requests
  <2>2. req.sel \subseteq Catalog \cup Folders
    BY <2>1 DEF kSubset
  <2> QED
    BY <1>1, <2>1, <2>2 DEF Asked, RestoreAssumption
<1>3. TypeInv
  <2>1. 0 \in 0..MaxSecond
    BY DEF RestoreAssumption
  <2> QED
    BY <1>1, <1>2, <2>1 DEF TypeInv, Held, Stages, Asked
<1>4. Loop
  <2>1. ASSUME req.op = "file" PROVE \E t \in targets : targets = {t}
    <3>1. PICK f \in Catalog : req.sel = {f}
      BY <1>1, <2>1 DEF FileRequest, FolderRequest, BatchRequest
    <3> QED
      BY <1>1, <1>2, <3>1, OneFile
  <2> QED
    BY <1>1, <2>1 DEF Loop
<1>5. FileReady /\ OwnKept /\ Untouched
  <2>1. \A d \in had : fs[d] = Original
    BY <1>1
  <2> QED
    BY <1>1, <2>1 DEF FileReady, OwnKept, Untouched, Safe
<1>6. OnlyRestored /\ Written
  <2>1. \A d \in Dests \ had : fs[d] = None
    BY <1>1
  <2> QED
    BY <1>1, <2>1 DEF OnlyRestored, Written
<1>7. Chosen
  BY <1>1, <1>2, TargetsOfSelection, TargetPlaces DEF Chosen
<1> QED
  BY <1>3, <1>4, <1>5, <1>6, <1>7 DEF Inv, LoopInv

LEMMA InvStep == ASSUME RestoreAssumption, Inv, [RestoreNext]_writing PROVE Inv'
<1>1. TypeInv' /\ Loop' /\ UNCHANGED Fixed
  BY TypesStep DEF Inv, LoopInv
<1>2. FileReady' /\ OwnKept' /\ Untouched' /\ OnlyRestored' /\ Written'
  BY <1>1, FileReadyStep, OwnKeptStep, UntouchedStep, OnlyRestoredStep, WrittenStep DEF Inv, LoopInv
<1>3. Chosen'
  BY <1>1 DEF Inv, Chosen, Wanted, Catalog, Fixed
<1> QED
  BY <1>1, <1>2, <1>3 DEF Inv, LoopInv

LEMMA RestoreInvariant == ASSUME RestoreAssumption PROVE RestoreSpec => []Inv
<1>1. RestoreInit => Inv
  BY InvInit
<1>2. Inv /\ [RestoreNext]_writing => Inv'
  BY InvStep
<1> QED
  BY <1>1, <1>2, PTL DEF RestoreSpec

\* However a restore fails, is cancelled or dies: a file of the user is where
\* it was or under a backup name, unless overwriting was chosen or agreed to
\* (PrepareExistingDest, the clean-up of restoreTargetsWithPreset).
THEOREM OwnFilesStay ==
  ASSUME RestoreAssumption PROVE RestoreSpec => []NothingLost
<1>1. Inv => NothingLost
  BY DEF Inv, LoopInv, OwnKept, Safe, Moved, NothingLost
<1> QED
  BY <1>1, RestoreInvariant, PTL

\* In mode "ask" nothing of the user is touched before the user agrees, also
\* after other files of the batch were restored (PrepareExistingDest,
\* restoreBatchSync).
THEOREM NothingTouchedUnasked ==
  ASSUME RestoreAssumption PROVE RestoreSpec => []AskedFirst
<1>1. Inv => AskedFirst
  BY DEF Inv, LoopInv, Untouched, AskedFirst
<1> QED
  BY <1>1, RestoreInvariant, PTL

\* The restore of a folder or of a batch of an archive that ends without
\* success leaves no file where there was none (the deferred clean-up of
\* restoreTargetsWithPreset).
THEOREM FailureLeavesNothing ==
  ASSUME RestoreAssumption PROVE RestoreSpec => []NothingLeft
<1>1. Inv => NothingLeft
  BY DEF Inv, LoopInv, OnlyRestored, NothingLeft
<1> QED
  BY <1>1, RestoreInvariant, PTL

\* A restore that reports success has written exactly the selected files, each
\* below the chosen folder or, with one source, where it was backed up from
\* (collectBatchTargets, coveredByShorterPrefix, ResolveOriginalDest).
THEOREM SuccessIsComplete ==
  ASSUME RestoreAssumption PROVE RestoreSpec => []Complete
<1>1. Inv => Complete
  <2> SUFFICES ASSUME Inv, pc = "ok", Distinct PROVE Complete
    BY DEF Complete
  <2>1. \A t \in targets : fs[t.dest] = t.file
    BY DEF Inv, LoopInv, Loop, Written
  <2> QED
    BY <2>1 DEF Inv, Chosen, Complete
<1> QED
  BY <1>1, RestoreInvariant, PTL
=============================================================================
