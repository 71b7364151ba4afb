----------------------------- MODULE PxarStream -----------------------------
(***************************************************************************)
(* The pxar stream of a PBS backup: what the writer emits for a directory  *)
(* and a file, how the stream lies in chunks, and the incremental parser   *)
(* that restores files from it or records where they are.                  *)
(*                                                                         *)
(* A stream is a sequence of units, each one block of the format that a    *)
(* parser takes at once: a file name, an entry, the header of a payload    *)
(* with the size it announces, one unit of file data, and the table at the *)
(* end of a directory.  A chunk is a sequence of units: its contents are   *)
(* its digest.  Offsets count units, and start with 0 as in the code.      *)
(***************************************************************************)
EXTENDS Integers, Sequences, FiniteSets, SequencesExt

\* A unit is its kind, a name and a number.
Named(n) == <<"name", n, 0>>
DirEntry == <<"entry", "dir", 0>>
FileEntry == <<"entry", "file", 0>>
Payload(n) == <<"payload", "", n>>
Data(f, v) == <<"data", f, v>>
Goodbye == <<"goodbye", "", 0>>

\* What is written before the data of file f of n units.
FileHeader(f, n) == <<Named(f), FileEntry, Payload(n)>>

DirHeader(d) == IF d = "" THEN <<DirEntry>> ELSE <<Named(d), DirEntry>>

-----------------------------------------------------------------------------
(* Where a range of the stream lies in its chunks. *)

\* Where chunk i of the list ends in the stream, and where it begins.
EndOf(cs, i) == Len(FlattenSeq(SubSeq(cs, 1, i)))
BeginOf(cs, i) == EndOf(cs, i - 1)

\* Variant: a chunk that goes on after the range is left out.
ChunksInside(cs, a, b) ==
  IF b <= a THEN {} ELSE {i \in DOMAIN cs : a < EndOf(cs, i) /\ b >= EndOf(cs, i)}

\* The numbers of the chunks that hold a part of the range from a to b.
ChunksFor(cs, a, b) ==
  IF b <= a THEN {} ELSE {i \in DOMAIN cs : a < EndOf(cs, i) /\ b > BeginOf(cs, i)}

\* The parts of a range: in which chunk, how long, and whether it is all of it.
\* The chunks of a range follow each other.
Spans(cs, a, b) ==
  LET held == ChunksFor(cs, a, b)
      first == CHOOSE i \in held : \A j \in held : i <= j
      last == CHOOSE i \in held : \A j \in held : j <= i
      Part(i) ==
        LET from == IF BeginOf(cs, i) < a THEN a ELSE BeginOf(cs, i)
            to == IF EndOf(cs, i) > b THEN b ELSE EndOf(cs, i)
        IN  [chunk |-> cs[i], len |-> to - from, whole |-> to - from = Len(cs[i])]
  IN  IF held = {} THEN <<>> ELSE [n \in 1..last - first + 1 |-> Part(first + n - 1)]

\* The chunk that holds an offset.
Locate(cs, off) == CHOOSE i \in DOMAIN cs : BeginOf(cs, i) <= off /\ off < EndOf(cs, i)

\* What is returned when a read or a comparison fails: never the data of a file.
Failed == <<Goodbye>>

\* n units from offset a, when the chunks that were loaded hold them all.
ReadAt(cs, loaded, a, n) ==
  IF /\ a + n <= EndOf(cs, Len(cs))
     /\ \A k \in {a + i - 1 : i \in 1..n} : Locate(cs, k) \in loaded
  THEN SubSeq(FlattenSeq(cs), a + 1, a + n)
  ELSE Failed

-----------------------------------------------------------------------------
(* The parser.  It keeps what it was fed and could not use yet (carry), and   *)
(* takes one block after the other until it needs more or meets a wrong one. *)

NoFunction == [x \in {} |-> 0]

NewParser(targets, recorder) ==
  [state |-> "root", carry |-> <<>>, off |-> 0, stack |-> <<>>, path |-> <<>>,
   left |-> 0, out |-> <<>>, found |-> NoFunction, index |-> NoFunction,
   want |-> targets, recorder |-> recorder, go |-> TRUE, bad |-> FALSE]

Put(fn, x, y) == [z \in DOMAIN fn \cup {x} |-> IF z = x THEN y ELSE fn[z]]

Need(p, n) == Len(p.carry) >= n
Kind(p) == p.carry[1][1]
Consume(p, n) == [p EXCEPT !.carry = SubSeq(@, n + 1, Len(@)), !.off = @ + n]
Wait(p) == [p EXCEPT !.go = FALSE]
Refuse(p) == [p EXCEPT !.bad = TRUE, !.go = FALSE]

CurrentPath(p) == [i \in DOMAIN p.stack |-> p.stack[i].name]
InSkip(p) == \E i \in DOMAIN p.stack : p.stack[i].skip

\* A directory is passed over unless a file under it is still wanted.
DirRelevant(p, path) == p.recorder \/ \E t \in p.want : IsStrictPrefix(path, t)

\* The payload goes to a file, and not past it.
Reads(p) == p.path \in p.want /\ ~InSkip(p)

StepRootEntry(p) ==
  CASE ~Need(p, 1) -> Wait(p)
    [] Need(p, 1) /\ p.carry[1] = DirEntry -> [Consume(p, 1) EXCEPT !.state = "dir"]
    [] OTHER -> Refuse(p)

StepGoodbye(p) == [Consume(p, 1) EXCEPT !.stack = IF @ = <<>> THEN @ ELSE Front(@)]

\* Offset and size of the payload go into the index.
RecordIndexPayload(p) ==
  [p EXCEPT !.index = Put(@, p.path, [at |-> p.off, size |-> p.carry[1][3]])]

\* The entry is consumed by now: when its payload header is not there yet, the
\* parser goes on waiting in the state of a directory.
BeginPayload(p) ==
  CASE ~Need(p, 1) -> Wait(p)
    [] Need(p, 1) /\ Kind(p) = "payload" ->
         [Consume(RecordIndexPayload(p), 1) EXCEPT
            !.left = p.carry[1][3], !.out = <<>>, !.state = "payload"]
    [] OTHER -> Refuse(p)

StepFilename(p) ==
  LET path == Append(CurrentPath(p), p.carry[1][2])
      q == Consume(p, 2)
  IN  CASE ~Need(p, 2) -> Wait(p)
        [] Need(p, 2) /\ p.carry[2] = DirEntry ->
             [q EXCEPT !.stack = Append(@, [name |-> Last(path),
                                            skip |-> InSkip(p) \/ ~DirRelevant(p, path)])]
        [] Need(p, 2) /\ p.carry[2] = FileEntry -> BeginPayload([q EXCEPT !.path = path])
        [] OTHER -> Refuse(p)

\* Variant: a block of another kind is passed over.
StepInDirLenient(p) ==
  CASE ~Need(p, 1) -> Wait(p)
    [] Need(p, 1) /\ Kind(p) = "goodbye" -> StepGoodbye(p)
    [] Need(p, 1) /\ Kind(p) = "name" -> StepFilename(p)
    [] OTHER -> Consume(p, 1)

StepInDir(p) ==
  CASE ~Need(p, 1) -> Wait(p)
    [] Need(p, 1) /\ Kind(p) = "goodbye" -> StepGoodbye(p)
    [] Need(p, 1) /\ Kind(p) = "name" -> StepFilename(p)
    [] OTHER -> Refuse(p)

\* The file is complete: it replaces what was at its place, once.
FinishPayload(p) ==
  [p EXCEPT !.state = "dir", !.want = IF Reads(p) THEN @ \ {p.path} ELSE @,
            !.found = IF Reads(p) THEN Put(@, p.path, p.out) ELSE @]

\* Variant: a payload that continues in the next chunk starts over.
StepPayloadAfresh(p) ==
  LET n == IF p.left > Len(p.carry) THEN Len(p.carry) ELSE p.left
      q == [Consume(p, n) EXCEPT !.left = @ - n, !.out = SubSeq(p.carry, 1, n)]
  IN  CASE p.left > 0 /\ n = 0 -> Wait(p)
        [] n > 0 /\ p.left > n -> q
        [] OTHER -> FinishPayload(q)

StepPayload(p) ==
  LET n == IF p.left > Len(p.carry) THEN Len(p.carry) ELSE p.left
      q == [Consume(p, n) EXCEPT !.left = @ - n, !.out = @ \o SubSeq(p.carry, 1, n)]
  IN  CASE p.left > 0 /\ n = 0 -> Wait(p)
        [] n > 0 /\ p.left > n -> q
        [] OTHER -> FinishPayload(q)

Step(p) ==
  CASE p.state = "root" -> StepRootEntry(p)
    [] p.state = "dir" -> StepInDir(p)
    [] OTHER -> StepPayload(p)

\* All targets are there, and the rest of the stream is not looked at.
AllDone(p) == ~p.recorder /\ p.want = {}

\* One step of feed, which ends when a block is missing or wrong.
FeedStep(p) == IF p.go /\ ~AllDone(p) THEN Step(p) ELSE p

\* feed: as many steps as there are, at most two for a unit.
Feed(p, units) ==
  LET steps == 2 * (Len(p.carry) + Len(units)) + 2
      After[n \in 0..steps] ==
        IF n = 0 THEN [p EXCEPT !.carry = @ \o units, !.go = ~p.bad]
        ELSE FeedStep(After[n - 1])
  IN  After[steps]

\* A recorder is given the header of a reused file and told to pass its data.
FeedHeaderOnly(p, header) ==
  LET q == Feed(p, header)
  IN  IF q.bad \/ q.state # "payload" THEN q
      ELSE [q EXCEPT !.off = @ + q.left, !.left = 0, !.state = "dir"]

-----------------------------------------------------------------------------
(* Restores. *)

\* All chunks from the first one on are fed until the targets are there.
SequentialRestore(cs, targets) ==
  LET Fed[n \in 0..Len(cs)] ==
        IF n = 0 THEN NewParser(targets, FALSE)
        ELSE LET p == Fed[n - 1] IN IF AllDone(p) \/ p.bad THEN p ELSE Feed(p, cs[n])
  IN  Fed[Len(cs)]

\* A recorder that reads the chunks of a snapshot.
Recorded(cs) ==
  LET Fed[n \in 0..Len(cs)] ==
        IF n = 0 THEN NewParser({}, TRUE) ELSE Feed(Fed[n - 1], cs[n])
  IN  Fed[Len(cs)]

\* The index a sequential restore leaves behind, which ends where the restore
\* had all its targets.
LocalIndex(p) == IF p.bad THEN NoFunction ELSE p.index

\* partitionTargetsByIndex: the targets that an index knows, by their place in
\* the stream.
Indexed(index, targets) ==
  LET there == targets \cap DOMAIN index
  IN  CHOOSE order \in [1..Cardinality(there) -> there] :
        /\ ToSet(order) = there
        /\ \A i, j \in DOMAIN order : i < j => index[order[i]].at <= index[order[j]].at

\* downloadChunksParallel: those of the payload that the view does not hold yet.
Fetched(cs, loaded, pos) == loaded \cup ChunksFor(cs, pos.at, pos.at + 1 + pos.size)

\* pruneBefore: what ends before the next payload is dropped, and the last chunk always.
Pruned(cs, loaded, at) == {i \in loaded : i < Len(cs) /\ EndOf(cs, i) > at}

\* extractPayloadFromView: the header of the payload is compared with the index.
ExtractPayload(cs, loaded, pos) ==
  IF ReadAt(cs, loaded, pos.at, 1) = <<Payload(pos.size)>>
  THEN ReadAt(cs, loaded, pos.at + 1, pos.size)
  ELSE Failed

\* One payload more, with the chunks of it in the view.
Extract(cs, index, v, t) ==
  LET pos == index[t]
      view == Fetched(cs, Pruned(cs, v.loaded, pos.at), pos)
  IN  [loaded |-> view, found |-> Put(v.found, t, ExtractPayload(cs, view, pos))]

\* With an index only the chunks of the targets are loaded, payload after payload.
ExtractAll(cs, index, order) ==
  LET Viewed[n \in 0..Len(order)] ==
        IF n = 0 THEN [loaded |-> {}, found |-> NoFunction]
        ELSE Extract(cs, index, Viewed[n - 1], order[n])
  IN  Viewed[Len(order)].found

\* Targets it does not know are restored from the whole stream.
IndexedRestore(cs, index, targets) ==
  LET all == ExtractAll(cs, index, Indexed(index, targets))
      missing == targets \ DOMAIN index
      rest == IF missing = {} THEN NoFunction ELSE SequentialRestore(cs, missing).found
  IN  [t \in DOMAIN all \cup DOMAIN rest |-> IF t \in DOMAIN all THEN all[t] ELSE rest[t]]

\* streamRestorePXARTargets: an index that knows no target is of no use.
Restored(cs, index, targets) ==
  IF targets \cap DOMAIN index = {} THEN SequentialRestore(cs, targets).found
  ELSE IndexedRestore(cs, index, targets)

=============================================================================
