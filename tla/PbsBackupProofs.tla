--------------------------- MODULE PbsBackupProofs --------------------------
(***************************************************************************)
(* Proofs about PbsBackup.                                                 *)
(*                                                                         *)
(* What a run trusts was stored, and so is what it commits (Stored), over  *)
(* the shapes of its variables (Shapes); how a run ends and what its       *)
(* checkpoint says (Ends); and the recorder of a run, which is between two *)
(* entries or inside a file for as long as no file shrank (Watched); and   *)
(* what lies in the chunks that a record names (Faithful), over the        *)
(* concatenation of chunks and the sums of their lengths.  At the end, the *)
(* stream that a run lays (Laid, Arranged), what a parser makes of it step *)
(* by step (Parses) and the recorder of the run notes (Traced), and so     *)
(* what the restores without an index and with one write.                  *)
(***************************************************************************)
EXTENDS PbsBackup, SequenceTheorems, FiniteSetTheorems, WellFoundedInduction, TLAPS

-----------------------------------------------------------------------------
(* Numbers.  The library proves that the natural numbers are well-founded;   *)
(* minimal elements and induction over sets of numbers follow.               *)

\* Every nonempty set of natural numbers has a least one.
LEMMA NatMin ==
  ASSUME NEW T, T \subseteq Nat, T # {}
  PROVE  \E x \in T : \A y \in T : x <= y
<1> DEFINE R == {ss \in Nat \X Nat : ss[1] < ss[2]}
<1>1. IsWellFoundedOn(R, Nat)
  BY NatLessThanWellFounded DEF OpToRel
<1>2. \A x, y \in Nat : x < y => <<x, y>> \in R
  OBVIOUS
<1> HIDE DEF R
<1>3. PICK x \in T : \A y \in T : ~(<<y, x>> \in R)
  BY <1>1, WFMin
<1>4. SUFFICES ASSUME NEW y \in T PROVE x <= y
  OBVIOUS
<1>5. x \in Nat /\ y \in Nat
  OBVIOUS
<1>6. ~(y < x)
  BY <1>2, <1>3, <1>5
<1> QED
  BY <1>5, <1>6

\* A set of natural numbers that has a bound and is not empty has a greatest one.
LEMMA NatMax ==
  ASSUME NEW T, T \subseteq Nat, T # {}, NEW b \in Nat, \A x \in T : x <= b
  PROVE  \E x \in T : \A y \in T : y <= x
<1> DEFINE D == {b - x : x \in T}
<1>0. \A x \in T : b - x \in Nat
  OBVIOUS
<1>1. D \subseteq Nat /\ D # {}
  BY <1>0
<1>2. PICK d \in D : \A e \in D : d <= e
  <2> HIDE DEF D
  <2> QED
    BY <1>1, NatMin
<1>3. PICK x \in T : d = b - x
  OBVIOUS
<1>4. \A y \in T : d <= b - y
  BY <1>2
<1>5. \A y \in T : y \in Nat
  OBVIOUS
<1>6. \A y \in T : y <= x
  BY <1>3, <1>4, <1>5
<1> QED
  BY <1>6

\* Induction over a set of numbers.
LEMMA NatSteps ==
  ASSUME NEW T, NEW b \in Nat, 0 \in T, \A n \in 0..b : n \in T /\ n < b => n + 1 \in T
  PROVE  \A n \in 0..b : n \in T
<1> SUFFICES ASSUME (0..b) \ T # {} PROVE FALSE
  OBVIOUS
<1> DEFINE M == (0..b) \ T
<1>1. M \subseteq Nat
  OBVIOUS
<1>2. PICK x \in M : \A y \in M : x <= y
  <2> HIDE DEF M
  <2> QED
    BY <1>1, NatMin DEF M
<1>3. x \in Nat /\ x # 0 /\ x <= b
  OBVIOUS
<1>4. x - 1 \in 0..b /\ x - 1 \notin M
  BY <1>2, <1>3
<1> QED
  BY <1>3, <1>4

-----------------------------------------------------------------------------
(* Sequences. *)

\* A sequence, of whatever it lists.
IsList(s) == s \in Seq(ToSet(s))

LEMMA ListIntro ==
  ASSUME NEW n \in Nat, NEW s, s = [i \in 1..n |-> s[i]]
  PROVE  IsList(s)
<1>1. s \in [1..n -> ToSet(s)]
  BY DEF ToSet
<1> QED
  BY <1>1 DEF IsList

LEMMA ListAppend ==
  ASSUME NEW s, IsList(s), NEW c
  PROVE  /\ IsList(Append(s, c))
         /\ ToSet(Append(s, c)) = ToSet(s) \cup {c}
         /\ \A i \in DOMAIN s : i \in DOMAIN Append(s, c) /\ Append(s, c)[i] = s[i]
         /\ \A i \in DOMAIN Append(s, c) :
              (i \in DOMAIN s /\ Append(s, c)[i] = s[i]) \/ Append(s, c)[i] = c
<1> DEFINE S == ToSet(s) \cup {c}
           t == Append(s, c)
<1>1. s \in Seq(ToSet(s))
  BY DEF IsList
<1>2. s \in Seq(S)
  BY <1>1, SeqMonotonic
<1>3. /\ Len(t) = Len(s) + 1 /\ DOMAIN t = 1..Len(s) + 1 /\ Len(s) \in Nat
      /\ \A i \in 1..Len(s) : t[i] = s[i]
      /\ t[Len(s) + 1] = c /\ t \in Seq(S)
      /\ DOMAIN s = 1..Len(s)
  BY <1>2
<1> HIDE DEF t, S
<1>4. ToSet(t) = ToSet(s) \cup {c}
  BY <1>3 DEF ToSet
<1>5. /\ \A i \in DOMAIN s : i \in DOMAIN t /\ t[i] = s[i]
      /\ \A i \in DOMAIN t : (i \in DOMAIN s /\ t[i] = s[i]) \/ t[i] = c
  BY <1>3
<1> QED
  BY <1>3, <1>4, <1>5 DEF IsList, t, S

LEMMA ListConcat ==
  ASSUME NEW s, IsList(s), NEW t, IsList(t)
  PROVE  /\ IsList(s \o t)
         /\ ToSet(s \o t) = ToSet(s) \cup ToSet(t)
<1> DEFINE S == ToSet(s) \cup ToSet(t)
           u == s \o t
<1>1. s \in Seq(S) /\ t \in Seq(S)
  BY SeqMonotonic DEF IsList
<1>2. /\ u \in Seq(S)
      /\ DOMAIN u = 1..Len(s) + Len(t) /\ Len(s) \in Nat /\ Len(t) \in Nat
      /\ \A i \in 1..Len(s) : u[i] = s[i]
      /\ \A i \in 1..Len(t) : u[Len(s) + i] = t[i]
      /\ DOMAIN s = 1..Len(s) /\ DOMAIN t = 1..Len(t)
  BY <1>1
<1> HIDE DEF u, S
<1>3. ToSet(s) \cup ToSet(t) \subseteq ToSet(u)
  <2>1. \A i \in 1..Len(t) : Len(s) + i \in DOMAIN u
    BY <1>2
  <2>2. \A i \in 1..Len(s) : i \in DOMAIN u
    BY <1>2
  <2> QED
    BY <1>2, <2>1, <2>2 DEF ToSet
<1>4. ToSet(u) \subseteq ToSet(s) \cup ToSet(t)
  <2> SUFFICES ASSUME NEW k \in DOMAIN u PROVE u[k] \in ToSet(s) \cup ToSet(t)
    BY DEF ToSet
  <2>1. k \in Nat /\ (k \in 1..Len(s) \/ (k - Len(s) \in 1..Len(t) /\ Len(s) + (k - Len(s)) = k))
    BY <1>2
  <2> QED
    BY <1>2, <2>1 DEF ToSet
<1> QED
  BY <1>2, <1>3, <1>4 DEF IsList, u, S

\* Every span of a range lies in one of the chunks, and the spans are a sequence.
Reached(spans) == {spans[i].chunk : i \in DOMAIN spans}
SpansTyped(spans) == \E n \in Nat : spans = [i \in 1..n |-> spans[i]]

LEMMA SpansAreChunks ==
  ASSUME NEW cs, IsList(cs), NEW a, NEW b
  PROVE  /\ SpansTyped(Spans(cs, a, b))
         /\ Reached(Spans(cs, a, b)) \subseteq ToSet(cs)
<1> DEFINE held == ChunksFor(cs, a, b)
           first == CHOOSE i \in held : \A j \in held : i <= j
           last == CHOOSE i \in held : \A j \in held : j <= i
           From(i) == IF BeginOf(cs, i) < a THEN a ELSE BeginOf(cs, i)
           To(i) == IF EndOf(cs, i) > b THEN b ELSE EndOf(cs, i)
           Part(i) == [chunk |-> cs[i], len |-> To(i) - From(i),
                       whole |-> To(i) - From(i) = Len(cs[i])]
           spans == Spans(cs, a, b)
<1>1. DOMAIN cs = 1..Len(cs) /\ Len(cs) \in Nat
  BY DEF IsList
<1>2. held \subseteq 1..Len(cs)
  BY <1>1 DEF ChunksFor
<1>3. CASE held = {}
  <2>1. spans = <<>>
    BY <1>3 DEF Spans
  <2>2. spans = [i \in 1..0 |-> spans[i]] /\ DOMAIN spans = {}
    BY <2>1
  <2> QED
    BY <2>2 DEF SpansTyped, Reached
<1>4. CASE held # {}
  <2>1. first \in held /\ \A j \in held : first <= j
    <3> HIDE DEF held
    <3>1. held \subseteq Nat
      BY <1>1, <1>2
    <3>2. \E i \in held : \A j \in held : i <= j
      BY <1>4, <3>1, NatMin
    <3> QED
      BY <3>2
  <2>2. last \in held /\ \A j \in held : j <= last
    <3> HIDE DEF held
    <3>1. held \subseteq Nat /\ \A i \in held : i <= Len(cs)
      BY <1>1, <1>2
    <3>2. \E i \in held : \A j \in held : j <= i
      BY <1>1, <1>4, <3>1, NatMax
    <3> QED
      BY <3>2
  <2>3. spans = [n \in 1..last - first + 1 |-> Part(first + n - 1)]
    BY <1>4 DEF Spans
  <2> HIDE DEF held, first, last, spans
  <2>4. /\ first \in 1..Len(cs) /\ last \in 1..Len(cs) /\ last - first + 1 \in Nat
    BY <1>1, <1>2, <2>1, <2>2
  <2> DEFINE n == last - first + 1
  <2>5. \A i \in 1..n : first + i - 1 \in 1..Len(cs)
    BY <1>1, <2>4
  <2>6. DOMAIN spans = 1..n /\ \A i \in 1..n : spans[i].chunk = cs[first + i - 1]
    BY <2>3
  <2>7. spans = [i \in 1..n |-> spans[i]]
    BY <2>3
  <2>8. Reached(spans) \subseteq ToSet(cs)
    <3> HIDE DEF n
    <3> QED
      BY <1>1, <2>5, <2>6 DEF Reached, ToSet
  <2> QED
    BY <2>4, <2>7, <2>8 DEF SpansTyped, spans
<1> QED
  BY <1>3, <1>4

-----------------------------------------------------------------------------
(* What is written.  A write changes the recorder, the chunk in progress, what  *)
(* is assigned, known and under way, and the error, and nothing else of a run.  *)

RunFields ==
  {"pc", "full", "known", "reuse", "prev", "todo", "file", "stat", "read", "begin",
   "current", "assigned", "written", "flying", "failed", "err", "cancelled",
   "recorder", "live", "stats", "want", "marks", "ticking"}

Kept(r, q) ==
  /\ q.pc = r.pc /\ q.full = r.full /\ q.prev = r.prev /\ q.todo = r.todo
  /\ q.file = r.file /\ q.stat = r.stat /\ q.read = r.read /\ q.begin = r.begin
  /\ q.failed = r.failed /\ q.cancelled = r.cancelled /\ q.live = r.live
  /\ q.marks = r.marks /\ q.ticking = r.ticking /\ q.want = r.want

\* What is known besides before is under way or in extra; only what is known is assigned.
Wrote(r, q, extra) ==
  /\ DOMAIN q = RunFields
  /\ Kept(r, q)
  /\ r.known \subseteq q.known
  /\ q.known \subseteq r.known \cup q.flying \cup extra
  /\ r.flying \subseteq q.flying
  /\ IsList(q.assigned)
  /\ ToSet(r.assigned) \subseteq ToSet(q.assigned)
  /\ ToSet(q.assigned) \subseteq ToSet(r.assigned) \cup q.known
  /\ r.err => q.err

Writable(r) == DOMAIN r = RunFields /\ IsList(r.assigned)

LEMMA WroteNothing ==
  ASSUME NEW r, Writable(r)
  PROVE  Wrote(r, r, {})
BY DEF Wrote, Writable, Kept

LEMMA WroteTwice ==
  ASSUME NEW r, NEW q, NEW s, NEW e1, NEW e2, Wrote(r, q, e1), Wrote(q, s, e2)
  PROVE  Wrote(r, s, e1 \cup e2)
<1>1. Kept(r, s)
  BY DEF Wrote, Kept
<1> QED
  BY <1>1 DEF Wrote

LEMMA WroteMore ==
  ASSUME NEW r, NEW q, NEW s, Wrote(r, q, {}), Wrote(q, s, {})
  PROVE  Wrote(r, s, {})
<1>1. Wrote(r, s, {} \cup {})
  BY WroteTwice
<1>2. {} \cup {} = {}
  OBVIOUS
<1> QED
  BY <1>1, <1>2

LEMMA ErrWrites ==
  ASSUME NEW r, Writable(r)
  PROVE  Wrote(r, [r EXCEPT !.err = TRUE], {})
BY DEF Wrote, Writable, Kept, RunFields

LEMMA CommitWrites ==
  ASSUME NEW r, Writable(r), NEW c
  PROVE  Wrote(r, CommitChunk(r, c), {})
<1>1. IsList(Append(r.assigned, c)) /\ ToSet(Append(r.assigned, c)) = ToSet(r.assigned) \cup {c}
  BY ListAppend DEF Writable
<1> DEFINE as == Append(r.assigned, c)
<1>2. CASE c \in r.known
  <2> DEFINE q == [r EXCEPT !.assigned = as]
  <2>1. CommitChunk(r, c) = q
    BY <1>2 DEF CommitChunk
  <2> HIDE DEF as
  <2>2. DOMAIN q = RunFields /\ Kept(r, q) /\ q.known = r.known /\ q.flying = r.flying
        /\ q.assigned = as /\ q.err = r.err
    BY DEF Writable, Kept, RunFields
  <2> QED
    BY <1>1, <1>2, <2>1, <2>2 DEF Wrote, as
<1>3. CASE c \notin r.known /\ (r.cancelled \/ r.failed)
  <2>1. CommitChunk(r, c) = [r EXCEPT !.err = TRUE]
    BY <1>3 DEF CommitChunk
  <2> QED
    BY <2>1, ErrWrites
<1>4. CASE c \notin r.known /\ ~(r.cancelled \/ r.failed)
  <2> DEFINE q == [r EXCEPT !.assigned = as, !.known = @ \cup {c}, !.flying = @ \cup {c}]
  <2>1. CommitChunk(r, c) = q
    BY <1>4 DEF CommitChunk
  <2> HIDE DEF as
  <2>2. DOMAIN q = RunFields /\ Kept(r, q) /\ q.known = r.known \cup {c}
        /\ q.flying = r.flying \cup {c} /\ q.assigned = as /\ q.err = r.err
    BY DEF Writable, Kept, RunFields
  <2> QED
    BY <1>1, <2>1, <2>2 DEF Wrote, as
<1> QED
  BY <1>2, <1>3, <1>4

\* The chunk in progress has no part in the rest.
LEMMA CurrentWrites ==
  ASSUME NEW r, Writable(r), NEW c
  PROVE  Wrote(r, [r EXCEPT !.current = c], {})
BY DEF Wrote, Writable, Kept, RunFields

LEMMA FlushWrites ==
  ASSUME NEW r, Writable(r)
  PROVE  Wrote(r, FlushPending(r), {})
<1> DEFINE q == CommitChunk(r, r.current)
<1>1. Wrote(r, q, {})
  BY CommitWrites
<1>2. Writable(q)
  BY <1>1 DEF Wrote, Writable
<1> HIDE DEF q
<1>3. Wrote(q, [q EXCEPT !.current = <<>>], {})
  BY <1>2, CurrentWrites
<1>4. Wrote(r, [q EXCEPT !.current = <<>>], {})
  BY <1>1, <1>3, WroteMore
<1> QED
  BY <1>4, WroteNothing DEF FlushPending, q

\* One unit.
Unit(q, units, k) ==
  LET full == [q EXCEPT !.current = Append(@, units[k])]
  IN  CASE q.err \/ k > Len(units) -> q
        [] ~q.err /\ k <= Len(units) /\ units[k] \in cuts -> FlushPending(full)
        [] OTHER -> full

LEMMA UnitWrites ==
  ASSUME NEW q, Writable(q), NEW units, NEW k
  PROVE  Wrote(q, Unit(q, units, k), {})
<1> DEFINE full == [q EXCEPT !.current = Append(@, units[k])]
<1>1. Wrote(q, full, {})
  BY CurrentWrites
<1>2. Writable(full)
  BY <1>1 DEF Wrote, Writable
<1>3. Unit(q, units, k) \in {q, FlushPending(full), full}
  BY DEF Unit
<1> HIDE DEF full
<1>4. Wrote(q, FlushPending(full), {})
  BY <1>1, <1>2, FlushWrites, WroteMore
<1> QED
  BY <1>1, <1>3, <1>4, WroteNothing

LEMMA DataWrites ==
  ASSUME NEW r, Writable(r), NEW units
  PROVE  Wrote(r, HandleData(r, units), {})
<1> DEFINE one == Unit(r, units, 1)
           two == Unit(one, units, 2)
           three == Unit(two, units, 3)
<1>1. HandleData(r, units) = IF r.cancelled THEN [r EXCEPT !.err = TRUE] ELSE three
  BY DEF HandleData, Unit
<1>2. Wrote(r, one, {}) /\ Writable(one)
  BY UnitWrites DEF Wrote, Writable
<1> HIDE DEF one
<1>3. Wrote(one, two, {}) /\ Writable(two)
  BY <1>2, UnitWrites DEF Wrote, Writable
<1> HIDE DEF two
<1>4. Wrote(two, three, {})
  BY <1>3, UnitWrites
<1> HIDE DEF three
<1>5. Wrote(r, three, {})
  BY <1>2, <1>3, <1>4, WroteMore
<1> QED
  BY <1>1, <1>5, ErrWrites

LEMMA EmitWrites ==
  ASSUME NEW r, Writable(r), NEW units
  PROVE  Wrote(r, Emit(r, units), {})
<1> DEFINE q == Feed(r.recorder, units)
           s == [r EXCEPT !.recorder = q, !.written = @ + Len(units)]
<1> HIDE DEF q
<1>1. Wrote(r, s, {})
  BY DEF Wrote, Writable, Kept, RunFields
<1>2. Writable(s)
  BY <1>1 DEF Wrote, Writable
<1>3. Wrote(r, HandleData(s, units), {})
  <2> HIDE DEF s
  <2> QED
    BY <1>1, <1>2, DataWrites, WroteMore
<1>4. Wrote(r, [r EXCEPT !.err = TRUE, !.recorder = q], {})
  BY DEF Wrote, Writable, Kept, RunFields
<1>5. Emit(r, units) = CASE r.err -> r
                         [] ~r.err /\ q.bad -> [r EXCEPT !.err = TRUE, !.recorder = q]
                         [] OTHER -> HandleData(s, units)
  BY DEF Emit, q
<1>6. Emit(r, units) \in {r, [r EXCEPT !.err = TRUE, !.recorder = q], HandleData(s, units)}
  <2> HIDE DEF s
  <2> QED
    BY <1>5
<1> QED
  BY <1>3, <1>4, <1>6, WroteNothing

LEMMA ReuseWrites ==
  ASSUME NEW r, Writable(r), NEW spans, SpansTyped(spans)
  PROVE  Wrote(r, ReuseChunks(r, spans), Reached(spans))
<1> DEFINE cs == [i \in DOMAIN spans |-> spans[i].chunk]
           as == r.assigned \o cs
           q == [r EXCEPT !.assigned = as, !.known = @ \cup Reached(spans)]
<1>1. ReuseChunks(r, spans) = q
  BY DEF ReuseChunks, Reached
<1>2. IsList(cs) /\ ToSet(cs) = Reached(spans)
  <2>1. PICK n \in Nat : spans = [i \in 1..n |-> spans[i]]
    BY DEF SpansTyped
  <2>2. DOMAIN spans = 1..n
    BY <2>1
  <2>3. cs = [i \in 1..n |-> cs[i]] /\ DOMAIN cs = 1..n
    BY <2>2
  <2>4. ToSet(cs) = Reached(spans)
    BY DEF ToSet, Reached
  <2> HIDE DEF cs
  <2> QED
    BY <2>3, <2>4, ListIntro
<1> HIDE DEF cs
<1>3. IsList(as) /\ ToSet(as) = ToSet(r.assigned) \cup Reached(spans)
  BY <1>2, ListConcat DEF Writable
<1> HIDE DEF as
<1>4. /\ DOMAIN q = RunFields /\ Kept(r, q) /\ q.known = r.known \cup Reached(spans)
      /\ q.flying = r.flying /\ q.assigned = as /\ q.err = r.err
  BY DEF Writable, Kept, RunFields
<1> QED
  BY <1>1, <1>3, <1>4 DEF Wrote

LEMMA WrittenWrites ==
  ASSUME NEW r, Writable(r), NEW n
  PROVE  Wrote(r, [r EXCEPT !.written = n], {})
BY DEF Wrote, Writable, Kept, RunFields

LEMMA WroteLess ==
  ASSUME NEW r, NEW q, NEW extra, Wrote(r, q, {})
  PROVE  Wrote(r, q, extra)
BY DEF Wrote

LEMMA EmitReusedWrites ==
  ASSUME NEW r, Writable(r), NEW f, NEW n, NEW spans, SpansTyped(spans)
  PROVE  Wrote(r, EmitReused(r, f, n, spans), Reached(spans))
<1> DEFINE header == FileHeader(f, n)
           q == FeedHeaderOnly(r.recorder, header)
           s == [r EXCEPT !.recorder = q]
           h == HandleData(s, header)
           g == FlushPending(h)
           all == ReuseChunks(g, spans)
           e == Reached(spans)
           done == [all EXCEPT !.written = @ + Len(header) + SumLen(spans)]
<1> HIDE DEF header, q
<1>1. Wrote(r, s, {}) /\ Writable(s)
  BY DEF Wrote, Writable, Kept, RunFields
<1> HIDE DEF s
<1>2. Wrote(r, h, {}) /\ Writable(h)
  <2>1. Wrote(s, h, {})
    BY <1>1, DataWrites
  <2> HIDE DEF h
  <2> QED
    BY <1>1, <2>1, WroteMore DEF Wrote, Writable
<1> HIDE DEF h
<1>3. Wrote(r, g, {}) /\ Writable(g)
  <2>1. Wrote(h, g, {})
    BY <1>2, FlushWrites
  <2> HIDE DEF g
  <2> QED
    BY <1>2, <2>1, WroteMore DEF Wrote, Writable
<1> HIDE DEF g
<1>4. Wrote(g, all, e) /\ Writable(all)
  BY <1>3, ReuseWrites DEF Wrote, Writable
<1> HIDE DEF all, e
<1>5. Wrote(all, done, {})
  <2> DEFINE m == all.written + Len(header) + SumLen(spans)
  <2> HIDE DEF m
  <2>1. Wrote(all, [all EXCEPT !.written = m], {})
    BY <1>4, WrittenWrites
  <2>2. done = [all EXCEPT !.written = m]
    BY <1>4 DEF m
  <2> QED
    BY <2>1, <2>2
<1> HIDE DEF done
<1>6. Wrote(r, done, e)
  <2>1. Wrote(r, all, {} \cup e)
    BY <1>3, <1>4, WroteTwice
  <2>2. {} \cup e = e /\ e \cup {} = e
    OBVIOUS
  <2>3. Wrote(r, all, e)
    BY <2>1, <2>2
  <2>4. Wrote(r, done, e \cup {})
    BY <2>3, <1>5, WroteTwice
  <2> QED
    BY <2>2, <2>4
<1>7. Wrote(r, [h EXCEPT !.err = TRUE], {})
  BY <1>2, ErrWrites, WroteMore
<1>8. EmitReused(r, f, n, spans) \in {r, [h EXCEPT !.err = TRUE], done}
  <2>1. EmitReused(r, f, n, spans)
          = CASE r.err -> r
              [] ~r.err /\ (q.bad \/ h.err \/ g.err) -> [h EXCEPT !.err = TRUE]
              [] OTHER -> done
    BY DEF EmitReused, header, q, s, h, g, all, done
  <2> QED
    BY <2>1
<1>9. Wrote(r, r, e) /\ Wrote(r, [h EXCEPT !.err = TRUE], e)
  BY <1>7, WroteNothing, WroteLess
<1> QED
  BY <1>6, <1>8, <1>9 DEF e

-----------------------------------------------------------------------------
(* The shapes of the variables. *)

RecordsTyped(recs) == \A f \in Files : SpansTyped(recs[f].spans)

\* What is left of the walk: its end.
Rest(todo) ==
  /\ todo \in Seq(ToSet(Walk))
  /\ \E k \in Nat :
       /\ k + Len(todo) = Len(Walk)
       /\ \A i \in 1..Len(todo) : todo[i] = Walk[k + i]

RunTyped(r) ==
  /\ Writable(r)
  /\ r.pc \in Active \cup {"done", "failed"}
  /\ RecordsTyped(r.prev) /\ RecordsTyped(r.live) /\ DOMAIN r.live = Files
  /\ Rest(r.todo) /\ (r.pc = "read" => r.todo # <<>>)

SnapFields == {"index", "want", "stats", "marks", "full", "pruned", "risky"}

SnapTyped(s) == DOMAIN s = SnapFields /\ IsList(s.index)

Shapes ==
  /\ IsList(snaps) /\ \A i \in DOMAIN snaps : SnapTyped(snaps[i])
  /\ RecordsTyped(records)
  /\ run = Idle \/ RunTyped(run)

LEMMA WalkIsList == Len(Walk) \in Nat /\ DOMAIN Walk = 1..Len(Walk)
<1> DEFINE S == {"dir", "file", "end"} \X STRING
<1>1. Walk \in Seq(S)
  BY PbsBackupAssumption
<1> HIDE DEF S
<1> QED
  BY <1>1

LEMMA RestTail ==
  ASSUME NEW todo, Rest(todo), todo # <<>>
  PROVE  /\ Rest(Tail(todo))
         /\ \E i \in DOMAIN Walk : Head(todo) = Walk[i]
<1> DEFINE S == ToSet(Walk)
           rest == Tail(todo)
<1>1. PICK k \in Nat : k + Len(todo) = Len(Walk) /\ \A i \in 1..Len(todo) : todo[i] = Walk[k + i]
  BY DEF Rest
<1>2. todo \in Seq(S) /\ Len(todo) \in Nat
  BY DEF Rest
<1> HIDE DEF S
<1>3. /\ rest \in Seq(S) /\ Len(rest) = Len(todo) - 1
      /\ \A i \in 1..Len(rest) : rest[i] = todo[i + 1]
  BY <1>2, HeadTailProperties
<1>4. Len(todo) # 0 /\ Head(todo) = todo[1]
  BY <1>2
<1>5. Head(todo) = Walk[k + 1] /\ k + 1 \in DOMAIN Walk
  BY <1>1, <1>2, <1>4, WalkIsList
<1> HIDE DEF rest
<1>6. k + 1 \in Nat /\ (k + 1) + Len(rest) = Len(Walk)
  <2> DEFINE a == Len(todo)
             b == Len(rest)
             c == Len(Walk)
  <2>1. c \in Nat /\ a \in Nat /\ b = a - 1 /\ k + a = c
    BY <1>1, <1>2, <1>3, WalkIsList
  <2> HIDE DEF a, b, c
  <2>2. (k + 1) + b = c
    BY <2>1
  <2> QED
    BY <2>2 DEF b, c
<1>7. \A i \in 1..Len(rest) : rest[i] = Walk[(k + 1) + i]
  <2> SUFFICES ASSUME NEW i \in 1..Len(rest) PROVE rest[i] = Walk[(k + 1) + i]
    OBVIOUS
  <2>1. i + 1 \in 1..Len(todo) /\ k + (i + 1) = (k + 1) + i
    BY <1>2, <1>3, <1>4
  <2> QED
    BY <1>1, <1>3, <2>1
<1>8. Rest(rest)
  BY <1>3, <1>6, <1>7 DEF Rest, S
<1> QED
  BY <1>5, <1>8 DEF rest

\* The end of a directory is still to come.
LEMMA EndIsAhead ==
  ASSUME NEW todo, Rest(todo), todo # <<>>, NEW d, Head(todo)[1] = "dir", Head(todo)[2] = d
  PROVE  \E i \in 1..Len(todo) : todo[i] = <<"end", d>>
<1> DEFINE n == Len(todo)
<1>1. PICK k \in Nat : k + n = Len(Walk) /\ \A i \in 1..n : todo[i] = Walk[k + i]
  BY DEF Rest
<1>2. n \in Nat
  BY DEF Rest
<1>3. n # 0 /\ Head(todo) = todo[1]
  BY DEF Rest
<1> HIDE DEF n
<1>4. PICK j \in DOMAIN Walk : k + 1 < j /\ Walk[j] = <<"end", d>>
  <2>1. 1 \in 1..n
    BY <1>2, <1>3
  <2>2. k + 1 \in DOMAIN Walk
    BY <1>1, <1>2, <2>1, WalkIsList
  <2>3. Walk[k + 1][1] = "dir" /\ Walk[k + 1][2] = d
    BY <1>1, <1>3, <2>1
  <2>4. \A i \in DOMAIN Walk : Walk[i][1] = "dir" =>
          \E j \in DOMAIN Walk : i < j /\ Walk[j] = <<"end", Walk[i][2]>>
    BY PbsBackupAssumption
  <2> QED
    BY <2>2, <2>3, <2>4
<1>5. j - k \in 1..n /\ k + (j - k) = j
  BY <1>1, <1>2, <1>4, WalkIsList
<1> QED
  BY <1>1, <1>4, <1>5 DEF n

\* What follows an item of what is left is the end of the walk.
LEMMA RestPast ==
  ASSUME NEW todo, Rest(todo), NEW past \in 1..Len(todo)
  PROVE  Rest(SubSeq(todo, past + 1, Len(todo)))
<1> DEFINE S == ToSet(Walk)
           n == Len(todo)
           rest == SubSeq(todo, past + 1, n)
<1>1. PICK k \in Nat : k + n = Len(Walk) /\ \A i \in 1..n : todo[i] = Walk[k + i]
  BY DEF Rest
<1>2. todo \in Seq(S) /\ n \in Nat /\ DOMAIN todo = 1..n
  BY DEF Rest
<1> HIDE DEF S, n
<1>6. past \in 1..n
  BY DEF n
<1>7. /\ rest \in Seq(S)
      /\ Len(rest) = IF past + 1 <= n THEN n - (past + 1) + 1 ELSE 0
      /\ \A i \in 1..n - (past + 1) + 1 : rest[i] = todo[(past + 1) + i - 1]
  <2> DEFINE m == past + 1
  <2>1. m \in Int /\ n \in Int /\ \A i \in m..n : i \in 1..n
    BY <1>2, <1>6
  <2> HIDE DEF m
  <2>2. \A i \in m..n : todo[i] \in S
    BY <1>2, <2>1
  <2>3. /\ SubSeq(todo, m, n) \in Seq(S)
        /\ Len(SubSeq(todo, m, n)) = IF m <= n THEN n - m + 1 ELSE 0
        /\ \A i \in 1..n - m + 1 : SubSeq(todo, m, n)[i] = todo[m + i - 1]
    BY <2>1, <2>2, SubSeqProperties
  <2> QED
    BY <2>3 DEF m
<1> HIDE DEF rest
<1>8. Len(rest) = n - past /\ n - past \in Nat /\ n - (past + 1) + 1 = n - past
  BY <1>2, <1>6, <1>7
<1>9. k + past \in Nat /\ (k + past) + Len(rest) = Len(Walk)
  <2> DEFINE b == Len(rest)
             c == Len(Walk)
  <2>1. c \in Nat /\ b = n - past /\ n \in Nat /\ k + n = c /\ past \in 1..n
    BY <1>1, <1>2, <1>6, <1>8, WalkIsList
  <2> HIDE DEF b, c
  <2>2. k + past \in Nat /\ (k + past) + b = c
    BY <2>1
  <2> QED
    BY <2>2 DEF b, c
<1>10. \A i \in 1..Len(rest) : rest[i] = Walk[(k + past) + i]
  <2> SUFFICES ASSUME NEW i \in 1..Len(rest) PROVE rest[i] = Walk[(k + past) + i]
    OBVIOUS
  <2>1. i \in 1..n - past /\ (past + 1) + i - 1 = past + i /\ past + i \in 1..n
    BY <1>2, <1>6, <1>8
  <2>2. k + (past + i) = (k + past) + i
    BY <1>6, <2>1
  <2> QED
    BY <1>1, <1>7, <1>8, <2>1, <2>2
<1>11. Rest(rest)
  BY <1>7, <1>9, <1>10 DEF Rest, S
<1> QED
  BY <1>11 DEF rest, n

-----------------------------------------------------------------------------
(* What a step of the walk does to a run. *)

\* The chunks that records name.
Offered(recs) == UNION {Reached(recs[f].spans) : f \in Files}

\* A run after some part of the walk: what it knows is known before, on its way,
\* or offered by the records of the run before; what it records for the next one is
\* such a record, or lies in chunks that are assigned.
Scans(r, q) ==
  /\ DOMAIN q = RunFields
  /\ q.full = r.full /\ q.prev = r.prev /\ q.failed = r.failed
  /\ q.cancelled = r.cancelled /\ q.ticking = r.ticking
  /\ q.pc \in {"walk", "read"} /\ Rest(q.todo) /\ (q.pc = "read" => q.todo # <<>>)
  /\ r.known \subseteq q.known /\ r.flying \subseteq q.flying
  /\ q.known \subseteq r.known \cup q.flying \cup Offered(r.prev)
  /\ IsList(q.assigned)
  /\ ToSet(r.assigned) \subseteq ToSet(q.assigned)
  /\ ToSet(q.assigned) \subseteq ToSet(r.assigned) \cup q.known
  /\ RecordsTyped(q.live) /\ DOMAIN q.live = Files
  /\ Offered(q.live) \subseteq Offered(r.live) \cup Offered(r.prev) \cup ToSet(q.assigned)

LEMMA ScansNothing ==
  ASSUME NEW r, RunTyped(r), r.pc \in {"walk", "read"}
  PROVE  Scans(r, r)
BY DEF RunTyped, Writable, Scans

LEMMA ScansAndWrites ==
  ASSUME NEW r, NEW q, NEW s, NEW extra,
         Scans(r, q), Wrote(q, s, extra), extra \subseteq Offered(r.prev)
  PROVE  Scans(r, s)
BY DEF Scans, Wrote, Kept

\* What else a step changes.
Touched(q, s) ==
  /\ DOMAIN s = RunFields
  /\ s.full = q.full /\ s.prev = q.prev /\ s.failed = q.failed
  /\ s.cancelled = q.cancelled /\ s.ticking = q.ticking
  /\ s.known = q.known /\ s.flying = q.flying /\ s.assigned = q.assigned
  /\ s.pc \in {"walk", "read"} /\ Rest(s.todo) /\ (s.pc = "read" => s.todo # <<>>)
  /\ RecordsTyped(s.live) /\ DOMAIN s.live = Files
  /\ Offered(s.live) \subseteq Offered(q.live) \cup Offered(q.prev) \cup ToSet(q.assigned)

LEMMA ScansAndTouches ==
  ASSUME NEW r, NEW q, NEW s, Scans(r, q), Touched(q, s)
  PROVE  Scans(r, s)
BY DEF Scans, Touched

LEMMA FurtherTouches ==
  ASSUME NEW r, NEW q, Scans(r, q), q.todo # <<>>, q.pc = "walk"
  PROVE  Touched(q, Further(q))
<1>1. Rest(Tail(q.todo))
  BY RestTail DEF Scans
<1> DEFINE t == Tail(q.todo)
           s == [q EXCEPT !.todo = t]
<1>2. Further(q) = s
  BY DEF Further
<1> HIDE DEF t
<1>3. DOMAIN s = RunFields /\ s.todo = t /\ s.pc = q.pc /\ s.live = q.live
      /\ s.full = q.full /\ s.prev = q.prev /\ s.failed = q.failed
      /\ s.cancelled = q.cancelled /\ s.ticking = q.ticking
      /\ s.known = q.known /\ s.flying = q.flying /\ s.assigned = q.assigned
  BY DEF Scans, RunFields
<1> HIDE DEF s
<1>4. q.pc \in {"walk", "read"} /\ RecordsTyped(q.live) /\ DOMAIN q.live = Files
  BY DEF Scans
<1> QED
  BY <1>1, <1>2, <1>3, <1>4 DEF Touched, t

LEMMA RecordFileTouches ==
  ASSUME NEW r, NEW q, Scans(r, q)
  PROVE  Touched(q, RecordFile(q)) /\ RecordFile(q).todo = q.todo
         /\ RecordFile(q).err = q.err /\ RecordFile(q).marks = q.marks
<1> DEFINE spans == Spans(q.assigned, q.begin, q.written)
           rec == [ver |-> q.stat.ver, size |-> q.stat.size, spans |-> spans,
                   len |-> q.written - q.begin]
           live == [q.live EXCEPT ![q.file] = rec]
           s == [q EXCEPT !.live = live]
<1>1. IsList(q.assigned) /\ RecordsTyped(q.live) /\ DOMAIN q.live = Files
      /\ q.pc \in {"walk", "read"} /\ Rest(q.todo) /\ DOMAIN q = RunFields
      /\ (q.pc = "read" => q.todo # <<>>)
  BY DEF Scans
<1>2. SpansTyped(spans) /\ Reached(spans) \subseteq ToSet(q.assigned)
  BY <1>1, SpansAreChunks
<1>3. RecordFile(q) = q \/ RecordFile(q) = s
  <2>1. RecordFile(q) = IF spans = <<>> \/ q.live[q.file].spans # <<>> THEN q
                        ELSE [q EXCEPT !.live[q.file] = rec]
    BY DEF RecordFile
  <2>2. [q EXCEPT !.live[q.file] = rec] = s
    BY <1>1 DEF RunFields
  <2> HIDE DEF s, rec, spans
  <2> QED
    BY <2>1, <2>2
<1>4. rec.spans = spans
  OBVIOUS
<1> HIDE DEF spans, rec
<1>5. DOMAIN live = Files
      /\ \A f \in Files : live[f].spans = spans \/ live[f].spans = q.live[f].spans
  BY <1>1, <1>4
<1> HIDE DEF live
<1>6. DOMAIN s = RunFields /\ s.live = live /\ s.todo = q.todo /\ s.pc = q.pc
      /\ s.full = q.full /\ s.prev = q.prev /\ s.failed = q.failed
      /\ s.cancelled = q.cancelled /\ s.ticking = q.ticking
      /\ s.known = q.known /\ s.flying = q.flying /\ s.assigned = q.assigned
      /\ s.err = q.err /\ s.marks = q.marks
  BY <1>1 DEF RunFields
<1> HIDE DEF s
<1>7. RecordsTyped(live)
  BY <1>1, <1>2, <1>5 DEF RecordsTyped
<1>8. Offered(live) \subseteq Offered(q.live) \cup ToSet(q.assigned)
  BY <1>2, <1>5 DEF Offered
<1>9. Touched(q, s)
  BY <1>1, <1>5, <1>6, <1>7, <1>8 DEF Touched
<1>10. Touched(q, q)
  BY <1>1 DEF Touched
<1> QED
  BY <1>3, <1>6, <1>9, <1>10

\* The file a step is about is one of the walk.
LEMMA HereIsFile ==
  ASSUME Shapes, Walks("file")
  PROVE  Here \in Files
<1>1. Rest(run.todo) /\ run.todo # <<>> /\ Head(run.todo)[1] = "file"
  BY DEF Shapes, RunTyped, Walks, Idle
<1>2. PICK i \in DOMAIN Walk : Head(run.todo) = Walk[i]
  BY <1>1, RestTail
<1> QED
  BY <1>1, <1>2 DEF Here, Files

Scanning ==
  \/ EnterDir \/ LeaveDir \/ SkipFile \/ ReuseFile
  \/ OpenFile \/ ReadFile \/ EndFile \/ ReadFails

\* A run that is under way is not idle, and has all its variables.
LEMMA RunThere ==
  ASSUME Shapes, run.pc # "idle"
  PROVE  RunTyped(run) /\ run # Idle
BY DEF Shapes, Idle

LEMMA NotIdle ==
  ASSUME NEW r, DOMAIN r = RunFields
  PROVE  r # Idle
<1>1. "full" \in DOMAIN r
  BY DEF RunFields
<1>2. "full" \notin DOMAIN Idle
  BY DEF Idle
<1> QED
  BY <1>1, <1>2

LEMMA EmitsFurther ==
  ASSUME NEW units, RunTyped(run), run.pc = "walk", run.todo # <<>>,
         NEW q, q = Further(Emit(run, units))
  PROVE  Scans(run, q)
<1> DEFINE r == Emit(run, units)
<1>1. Scans(run, run)
  BY ScansNothing
<1>2. Wrote(run, r, {})
  BY EmitWrites DEF RunTyped
<1> HIDE DEF r
<1>3. Scans(run, r) /\ r.todo # <<>> /\ r.pc = "walk"
  BY <1>1, <1>2, ScansAndWrites DEF Wrote, Kept
<1> QED
  BY <1>3, FurtherTouches, ScansAndTouches DEF r

LEMMA ClosedScans ==
  ASSUME RunTyped(run), run.pc = "read"
  PROVE  Scans(run, Closed(run))
<1> DEFINE r == RecordFile(run)
           w == Put(r.want, PathOf(run.file), [i \in 1..run.read |-> Data(run.file, run.stat.ver)])
           m == r.marks \cup (IF run.read < run.stat.size THEN {"short"} ELSE {})
                        \cup (IF run.read > run.stat.size THEN {"grown"} ELSE {})
                        \cup (IF disk[run.file].ver # run.stat.ver THEN {"changed"} ELSE {})
           t == Tail(r.todo)
           s == [r EXCEPT !.todo = t, !.pc = "walk", !.file = "", !.want = w, !.marks = m]
<1>1. Scans(run, run)
  BY ScansNothing
<1>2. Scans(run, r) /\ r.todo # <<>>
  BY <1>1, RecordFileTouches, ScansAndTouches DEF RunTyped
<1> HIDE DEF r
<1>3. Closed(run) = s
  BY <1>2 DEF Closed, Further, r, Scans, RunFields
<1>4. Rest(t)
  BY <1>2, RestTail DEF Scans
<1> HIDE DEF w, m, t
<1>5. Touched(r, s)
  BY <1>2, <1>4 DEF Touched, Scans, RunFields
<1> HIDE DEF s
<1> QED
  BY <1>2, <1>3, <1>5, ScansAndTouches

LEMMA ScanSteps ==
  ASSUME Shapes, Scanning
  PROVE  RunTyped(run) /\ run # Idle /\ Scans(run, run')
<1> USE DEF Walks
<1>0. run.pc \in {"walk", "read"}
  BY DEF Scanning, EnterDir, LeaveDir, SkipFile, ReuseFile, OpenFile, ReadFile, EndFile, ReadFails
<1>1. RunTyped(run) /\ run # Idle
  BY <1>0, RunThere
<1>2. CASE EnterDir
  BY <1>1, <1>2, EmitsFurther DEF EnterDir
<1>3. CASE LeaveDir
  BY <1>1, <1>3, EmitsFurther DEF LeaveDir
<1>4. CASE SkipFile
  BY <1>0, <1>1, <1>4, ScansNothing, FurtherTouches, ScansAndTouches DEF SkipFile
<1>5. CASE ReuseFile
  <2> DEFINE rec == run.prev[Here]
             r == EmitReused(run, Here, rec.size, rec.spans)
             p == [r EXCEPT !.live[Here] = rec, !.marks = @ \cup {"reused"},
                            !.stats[Here] = disk[Here],
                            !.want = Put(@, PathOf(Here), Body(Here))]
  <2>1. Here \in Files /\ run.pc = "walk" /\ run.todo # <<>>
    BY <1>5, HereIsFile DEF ReuseFile
  <2>2. SpansTyped(rec.spans) /\ Reached(rec.spans) \subseteq Offered(run.prev)
    BY <1>1, <2>1 DEF RunTyped, RecordsTyped, Offered
  <2>3. run' = Further(p)
    BY <1>5 DEF ReuseFile
  <2>4. Wrote(run, r, Reached(rec.spans))
    BY <1>1, <2>2, EmitReusedWrites DEF RunTyped
  <2>5. Scans(run, run)
    BY <1>1, <2>1, ScansNothing
  <2>6. Scans(run, r) /\ r.todo # <<>> /\ r.prev = run.prev /\ r.pc = "walk"
    <3> HIDE DEF r, rec
    <3> QED
      BY <2>1, <2>2, <2>4, <2>5, ScansAndWrites DEF Wrote, Kept
  <2> DEFINE live == [r.live EXCEPT ![Here] = rec]
             marks == r.marks \cup {"reused"}
             stats == [r.stats EXCEPT ![Here] = disk[Here]]
             want == Put(r.want, PathOf(Here), Body(Here))
  <2> HIDE DEF r
  <2>7. p = [r EXCEPT !.live = live, !.marks = marks, !.stats = stats, !.want = want]
    BY <2>6 DEF Scans, RunFields
  <2>8. DOMAIN live = Files /\ \A f \in Files : live[f] = rec \/ live[f] = r.live[f]
    BY <2>6 DEF Scans
  <2>9. RecordsTyped(live) /\ Offered(live) \subseteq Offered(r.live) \cup Offered(r.prev)
    <3> HIDE DEF live, rec
    <3>1. RecordsTyped(r.live)
      BY <2>6 DEF Scans
    <3>2. RecordsTyped(live)
      BY <2>2, <2>8, <3>1 DEF RecordsTyped
    <3> QED
      BY <2>2, <2>6, <2>8, <3>2 DEF Offered
  <2>10. DOMAIN p = RunFields /\ p.live = live /\ p.todo = r.todo /\ p.pc = r.pc
      /\ p.full = r.full /\ p.prev = r.prev /\ p.failed = r.failed
      /\ p.cancelled = r.cancelled /\ p.ticking = r.ticking
      /\ p.known = r.known /\ p.flying = r.flying /\ p.assigned = r.assigned
    <3> HIDE DEF p, live, marks, stats, want
    <3> QED
      BY <2>6, <2>7 DEF Scans, RunFields
  <2>11. Touched(r, p) /\ p.todo # <<>> /\ p.pc = "walk"
    <3> HIDE DEF p, live, rec
    <3> QED
      BY <2>6, <2>8, <2>9, <2>10 DEF Touched, Scans
  <2> HIDE DEF p
  <2> QED
    BY <1>1, <2>3, <2>6, <2>11, FurtherTouches, ScansAndTouches
<1>6. CASE OpenFile
  <2> DEFINE r == [run EXCEPT !.begin = run.written, !.file = Here, !.stat = disk[Here],
                              !.stats[Here] = disk[Here], !.read = 0, !.pc = "read"]
             units == FileHeader(Here, disk[Here].size)
  <2>1. run' = Emit(r, units) /\ run.todo # <<>>
    BY <1>6 DEF OpenFile
  <2>2. Scans(run, run)
    BY <1>0, <1>1, ScansNothing
  <2>3. Touched(run, r)
    BY <2>1, <2>2 DEF Touched, Scans, RunFields
  <2> HIDE DEF r, units
  <2>4. Scans(run, r)
    BY <2>2, <2>3, ScansAndTouches
  <2>5. Wrote(r, Emit(r, units), {})
    BY <2>4, EmitWrites DEF Scans, Writable
  <2> QED
    BY <1>1, <2>1, <2>4, <2>5, ScansAndWrites
<1>7. CASE ReadFile
  <2> DEFINE units == <<Body(run.file)[run.read + 1]>>
             r == Emit(run, units)
             s == [r EXCEPT !.read = @ + 1]
  <2>1. run' = s
    BY <1>7 DEF ReadFile
  <2>2. Scans(run, run)
    BY <1>0, <1>1, ScansNothing
  <2>3. Wrote(run, r, {})
    BY <1>1, EmitWrites DEF RunTyped
  <2> HIDE DEF r
  <2>4. Scans(run, r)
    BY <2>2, <2>3, ScansAndWrites
  <2>5. Touched(r, s)
    BY <2>4 DEF Touched, Scans, RunFields
  <2> QED
    BY <1>1, <2>1, <2>4, <2>5, ScansAndTouches
<1>8. CASE EndFile \/ ReadFails
  BY <1>1, <1>8, ClosedScans DEF EndFile, ReadFails
<1> QED
  BY <1>2, <1>3, <1>4, <1>5, <1>6, <1>7, <1>8 DEF Scanning

-----------------------------------------------------------------------------
(* Shapes is inductive. *)

LEMMA NoRecordsTyped == RecordsTyped(NoRecords) /\ Offered(NoRecords) = {}
<1>1. SpansTyped(<<>>) /\ Reached(<<>>) = {}
  <2>1. <<>> = [i \in 1..0 |-> <<>>[i]] /\ DOMAIN <<>> = {}
    OBVIOUS
  <2> QED
    BY <2>1 DEF SpansTyped, Reached
<1>2. \A f \in Files : NoRecords[f].spans = <<>>
  BY DEF NoRecords, NoRecord
<1> QED
  BY <1>1, <1>2 DEF RecordsTyped, Offered

\* Records made of a snapshot lie in its chunks.
LEMMA BootstrapTyped ==
  ASSUME NEW s, IsList(s.index)
  PROVE  \/ Bootstrapped(s) = records
         \/ /\ RecordsTyped(Bootstrapped(s))
            /\ Offered(Bootstrapped(s)) \subseteq ToSet(s.index)
<1> DEFINE p == Recorded(s.index)
           spans(f) == LET pos == p.index[PathOf(f)]
                       IN  Spans(s.index, pos.at, pos.at + 1 + pos.size)
           rec(f) == LET pos == p.index[PathOf(f)]
                     IN  [ver |-> s.stats[f].ver, size |-> s.stats[f].size, len |-> 0,
                          spans |-> Spans(s.index, pos.at, pos.at + 1 + pos.size)]
           b == [f \in Files |-> IF PathOf(f) \notin DOMAIN p.index THEN NoRecord ELSE rec(f)]
<1>1. Bootstrapped(s) = IF p.bad \/ DOMAIN p.index = {} THEN records ELSE b
  BY DEF Bootstrapped
<1>2. \A f \in Files : SpansTyped(spans(f)) /\ Reached(spans(f)) \subseteq ToSet(s.index)
  BY SpansAreChunks
<1>3. \A f \in Files : rec(f).spans = spans(f)
  OBVIOUS
<1> HIDE DEF p, spans, rec
<1>4. SpansTyped(NoRecord.spans) /\ Reached(NoRecord.spans) = {}
  <2>1. NoRecord.spans = <<>>
    BY DEF NoRecord
  <2>2. <<>> = [i \in 1..0 |-> <<>>[i]] /\ DOMAIN <<>> = {}
    OBVIOUS
  <2> QED
    BY <2>1, <2>2 DEF SpansTyped, Reached
<1>5. \A f \in Files : b[f] = NoRecord \/ b[f] = rec(f)
  OBVIOUS
<1> HIDE DEF b
<1>6. \A f \in Files : SpansTyped(b[f].spans) /\ Reached(b[f].spans) \subseteq ToSet(s.index)
  BY <1>2, <1>3, <1>4, <1>5
<1> QED
  BY <1>1, <1>6 DEF RecordsTyped, Offered

\* The latest snapshot is there, and was not pruned.
LEMMA LatestThere ==
  ASSUME IsList(snaps), Latest # 0
  PROVE  Latest \in DOMAIN snaps /\ ~snaps[Latest].pruned
<1> DEFINE kept == {i \in DOMAIN snaps : ~snaps[i].pruned}
<1>1. DOMAIN snaps = 1..Len(snaps) /\ Len(snaps) \in Nat
  BY DEF IsList
<1>2. kept # {} /\ Latest = CHOOSE i \in kept : \A j \in kept : j <= i
  BY DEF Latest
<1>3. kept \subseteq Nat /\ \A i \in kept : i <= Len(snaps)
  BY <1>1
<1>4. \E i \in kept : \A j \in kept : j <= i
  <2> HIDE DEF kept
  <2> QED
    BY <1>1, <1>2, <1>3, NatMax
<1>5. Latest \in kept
  <2> HIDE DEF kept
  <2> QED
    BY <1>2, <1>4
<1> QED
  BY <1>5

LEMMA RecordsOfRun ==
  ASSUME Shapes, NEW full
  PROVE  /\ RecordsTyped(Records(full))
         /\ \/ Records(full) = NoRecords
            \/ ~full /\ Records(full) = records
            \/ /\ ~full /\ Latest # 0
               /\ Offered(Records(full)) \subseteq ToSet(snaps[Latest].index)
<1>1. CASE full
  BY <1>1, NoRecordsTyped DEF Records
<1>2. CASE ~full /\ Latest > 0 /\ ~HasSpans(records)
  <2> DEFINE b == Bootstrapped(snaps[Latest])
  <2>1. Latest # 0
    BY <1>2
  <2>2. IsList(snaps[Latest].index)
    BY <2>1, LatestThere DEF Shapes, SnapTyped
  <2>3. Records(full) = b
    BY <1>2 DEF Records
  <2>4. b = records \/ (RecordsTyped(b) /\ Offered(b) \subseteq ToSet(snaps[Latest].index))
    BY <2>2, BootstrapTyped
  <2> HIDE DEF b
  <2> QED
    BY <1>2, <2>1, <2>3, <2>4 DEF Shapes
<1>3. CASE ~full /\ ~(Latest > 0 /\ ~HasSpans(records))
  BY <1>3 DEF Records, Shapes
<1> QED
  BY <1>1, <1>2, <1>3

LEMMA ListEmpty == IsList(<<>>) /\ ToSet(<<>>) = {}
<1>1. DOMAIN <<>> = {}
  OBVIOUS
<1>2. ToSet(<<>>) = {}
  BY <1>1 DEF ToSet
<1> QED
  BY <1>2 DEF IsList

LEMMA NewRunTyped ==
  ASSUME Shapes, NEW full
  PROVE  RunTyped(NewRun(full))
<1> DEFINE r == NewRun(full)
<1>1. RecordsTyped(Records(full))
  BY RecordsOfRun
<1>2. /\ DOMAIN r = RunFields /\ r.assigned = <<>> /\ r.prev = Records(full)
      /\ r.live = NoRecords /\ r.todo = Walk /\ r.pc = "walk"
  BY DEF NewRun, RunFields
<1>3. DOMAIN NoRecords = Files
  BY DEF NoRecords
<1>4. Rest(Walk)
  <2>1. Walk \in Seq(ToSet(Walk))
    <3> DEFINE S == {"dir", "file", "end"} \X STRING
    <3>1. Walk \in Seq(S)
      BY PbsBackupAssumption
    <3> HIDE DEF S
    <3>2. Len(Walk) \in Nat /\ Walk = [i \in 1..Len(Walk) |-> Walk[i]]
      BY <3>1
    <3> QED
      BY <3>2, ListIntro DEF IsList
  <2>2. 0 + Len(Walk) = Len(Walk) /\ \A i \in 1..Len(Walk) : 0 + i = i
    BY WalkIsList
  <2> QED
    BY <2>1, <2>2 DEF Rest
<1> HIDE DEF r
<1> QED
  BY <1>1, <1>2, <1>3, <1>4, ListEmpty, NoRecordsTyped DEF RunTyped, Writable, Active, r

\* A run that changes nothing of what it records and has still to do.
Relabelled(r, q) ==
  /\ DOMAIN q = RunFields
  /\ q.pc \in Active \cup {"done", "failed"} /\ (q.pc = "read" => r.pc = "read")
  /\ q.assigned = r.assigned /\ q.prev = r.prev /\ q.live = r.live /\ q.todo = r.todo
  /\ q.known = r.known /\ q.full = r.full
  /\ (r.failed => q.failed)

LEMMA RelabelledTyped ==
  ASSUME NEW r, NEW q, RunTyped(r), Relabelled(r, q)
  PROVE  RunTyped(q)
BY DEF RunTyped, Relabelled, Writable

LEMMA ScansTyped ==
  ASSUME NEW r, NEW q, RunTyped(r), Scans(r, q)
  PROVE  RunTyped(q)
BY DEF RunTyped, Scans, Writable, Active

LEMMA WroteTyped ==
  ASSUME NEW r, NEW q, NEW extra, RunTyped(r), Wrote(r, q, extra)
  PROVE  RunTyped(q)
BY DEF RunTyped, Wrote, Kept, Writable

LEMMA FailsRelabels ==
  ASSUME RunTyped(run), Fails(run)
  PROVE  /\ Relabelled(run, run') /\ run'.pc = "failed" /\ run # Idle
         /\ run'.failed = run.failed /\ run'.flying = run.flying
BY NotIdle DEF Fails, Relabelled, RunTyped, Writable, RunFields

\* The run skips a directory, or fails.
LEMMA UnreadableSteps ==
  ASSUME Shapes, UnreadableDir
  PROVE  /\ RunTyped(run)
         /\ Scans(run, run') \/ Fails(run)
<1>1. run.pc = "walk" /\ run.todo # <<>> /\ Head(run.todo)[1] = "dir"
  BY DEF UnreadableDir, Walks
<1>2. RunTyped(run)
  BY <1>1, RunThere
<1>3. CASE SkipAccess /\ Here # ""
  <2> DEFINE past == CHOOSE i \in DOMAIN run.todo : run.todo[i] = <<"end", Here>>
             t == SubSeq(run.todo, past + 1, Len(run.todo))
             s == [run EXCEPT !.todo = t]
  <2>1. run' = s
    BY <1>3 DEF UnreadableDir
  <2>2. past \in 1..Len(run.todo)
    <3>1. \E i \in 1..Len(run.todo) : run.todo[i] = <<"end", Here>>
      BY <1>1, <1>2, EndIsAhead DEF RunTyped, Here
    <3>2. DOMAIN run.todo = 1..Len(run.todo)
      BY <1>2 DEF RunTyped, Rest
    <3> QED
      BY <3>1, <3>2
  <2> HIDE DEF past
  <2>3. Rest(t)
    BY <1>2, <2>2, RestPast DEF RunTyped
  <2> HIDE DEF t
  <2>4. Scans(run, run)
    BY <1>1, <1>2, ScansNothing
  <2>5. Touched(run, s)
    BY <1>1, <2>3, <2>4 DEF Touched, Scans, RunFields
  <2> HIDE DEF s
  <2> QED
    BY <1>2, <2>1, <2>4, <2>5, ScansAndTouches
<1>4. CASE ~(SkipAccess /\ Here # "")
  BY <1>2, <1>4 DEF UnreadableDir
<1> QED
  BY <1>3, <1>4

\* The steps that only change where a run is, and what of it is under way.
Relabelling ==
  \/ UploadEnds \/ AbortScan \/ Assign \/ Finish \/ Save \/ Verify \/ Done \/ Cancel
  \/ (UnreadableDir /\ Fails(run))

LEMMA RelabelSteps ==
  ASSUME Shapes, Relabelling
  PROVE  /\ RunTyped(run) /\ run # Idle /\ Relabelled(run, run')
         /\ ~UploadEnds => run'.flying = run.flying /\ run'.failed = run.failed
         /\ run'.pc # "failed" => run'.err = run.err
<1>1. RunTyped(run) /\ run # Idle
  <2>1. run # Idle => RunTyped(run)
    BY DEF Shapes
  <2>2. UploadEnds => run # Idle
    BY DEF UploadEnds
  <2>3. ~UploadEnds => run.pc # "idle"
    BY DEF Relabelling, AbortScan, Assign, Finish, Save, Verify, Done, Cancel, UnreadableDir,
           Walks, Active
  <2> QED
    BY <2>1, <2>2, <2>3 DEF Idle
<1>2. DOMAIN run = RunFields /\ run.pc \in Active \cup {"done", "failed"}
  BY <1>1 DEF RunTyped, Writable
<1>3. CASE Fails(run)
  BY <1>1, <1>3, FailsRelabels
<1>4. CASE UploadEnds
  <2>1. PICK c \in run.flying :
          \/ run' = [run EXCEPT !.flying = @ \ {c}]
          \/ run' = [run EXCEPT !.flying = @ \ {c}, !.failed = TRUE]
    BY <1>4 DEF UploadEnds
  <2> QED
    BY ZenonT(60), <1>1, <1>2, <1>4, <2>1 DEF Relabelled, RunFields
<1>5. CASE ~Fails(run) /\ ~UploadEnds
  <2>1. \/ \E p \in {"finish", "save", "known", "done"} : run' = [run EXCEPT !.pc = p]
        \/ run' = [run EXCEPT !.pc = "verify", !.ticking = FALSE]
        \/ run' = [run EXCEPT !.cancelled = TRUE]
    BY <1>5 DEF Relabelling, AbortScan, Assign, Finish, Save, Verify, Done, Cancel
  <2>2. CASE \E p \in {"finish", "save", "known", "done"} : run' = [run EXCEPT !.pc = p]
    <3>1. PICK p \in {"finish", "save", "known", "done"} : run' = [run EXCEPT !.pc = p]
      BY <2>2
    <3> QED
      BY <1>1, <1>2, <3>1 DEF Relabelled, RunFields, Active
  <2>3. CASE run' = [run EXCEPT !.pc = "verify", !.ticking = FALSE]
    BY <1>1, <1>2, <2>3 DEF Relabelled, RunFields, Active
  <2>4. CASE run' = [run EXCEPT !.cancelled = TRUE]
    <3>1. run'.pc = run.pc
      BY <1>2, <2>4 DEF RunFields
    <3> QED
      BY <1>1, <1>2, <2>4, <3>1 DEF Relabelled, RunFields
  <2> QED
    BY <2>1, <2>2, <2>3, <2>4
<1> QED
  BY <1>3, <1>4, <1>5

\* The last chunk.
LEMMA FlushSteps ==
  ASSUME Shapes, Flush
  PROVE  /\ RunTyped(run) /\ run # Idle
         /\ \E r : /\ Wrote(run, r, {}) /\ Relabelled(r, run')
                   /\ run'.flying = r.flying /\ run'.failed = r.failed
                   /\ run'.pc = "drain"
<1> DEFINE r == FlushPending(run)
<1>1. RunTyped(run) /\ run # Idle
  BY RunThere DEF Flush
<1>2. Wrote(run, r, {})
  BY <1>1, FlushWrites DEF RunTyped
<1>3. run' = [r EXCEPT !.pc = "drain"]
  BY DEF Flush
<1> HIDE DEF r
<1>4. Relabelled(r, run') /\ run'.flying = r.flying /\ run'.failed = r.failed /\ run'.pc = "drain"
  BY <1>2, <1>3 DEF Wrote, Relabelled, RunFields, Active
<1> QED
  BY <1>1, <1>2, <1>4

LEMMA RunShape ==
  ASSUME Shapes, [Next]_vars
  PROVE  run' = Idle \/ RunTyped(run')
<1>1. CASE Scanning
  BY <1>1, ScanSteps, ScansTyped
<1>2. CASE Relabelling
  BY <1>2, RelabelSteps, RelabelledTyped
<1>3. CASE UnreadableDir
  BY <1>2, <1>3, UnreadableSteps, ScansTyped DEF Relabelling
<1>4. CASE Flush
  BY <1>4, FlushSteps, RelabelledTyped, WroteTyped
<1>5. CASE Begin
  <2>1. PICK full \in BOOLEAN : run' = NewRun(full)
    BY <1>5 DEF Begin
  <2> QED
    BY <2>1, NewRunTyped
<1>6. CASE Return \/ Crash
  BY <1>6 DEF Return, Crash
<1>7. CASE UNCHANGED run
  BY <1>7 DEF Shapes
<1>8. CASE Tick \/ ChangeFile \/ RemoveFile \/ Prune \/ UNCHANGED vars
  BY <1>7, <1>8 DEF Tick, ChangeFile, RemoveFile, Prune, vars
<1> QED
  BY <1>1, <1>2, <1>3, <1>4, <1>5, <1>6, <1>8 DEF Next, Scanning, Relabelling

LEMMA SnapshotShape ==
  ASSUME RunTyped(run)
  PROVE  /\ SnapTyped(Snapshot) /\ Snapshot.index = run.assigned /\ Snapshot.full = run.full
         /\ Snapshot.marks = run.marks /\ Snapshot.pruned = FALSE
         /\ Snapshot.risky = (\E i \in DOMAIN snaps : snaps[i].pruned)
BY DEF Snapshot, SnapTyped, SnapFields, RunTyped, Writable

\* What a pruned list of snapshots is.
LEMMA PruneShape ==
  ASSUME Shapes, NEW i \in DOMAIN snaps,
         NEW s, s = [snaps EXCEPT ![i].pruned = TRUE]
  PROVE  /\ IsList(s) /\ DOMAIN s = DOMAIN snaps
         /\ \A j \in DOMAIN s :
              /\ SnapTyped(s[j]) /\ s[j].index = snaps[j].index /\ s[j].full = snaps[j].full
              /\ s[j].risky = snaps[j].risky /\ s[j].marks = snaps[j].marks
              /\ s[j].pruned = IF j = i THEN TRUE ELSE snaps[j].pruned
<1>1. /\ DOMAIN snaps = 1..Len(snaps) /\ Len(snaps) \in Nat
      /\ \A j \in DOMAIN snaps : SnapTyped(snaps[j])
  BY DEF Shapes, IsList
<1> DEFINE n == Len(snaps)
           p == [snaps[i] EXCEPT !.pruned = TRUE]
<1>2. /\ DOMAIN s = 1..n /\ s[i] = p
      /\ \A j \in 1..n : j # i => s[j] = snaps[j]
      /\ s = [j \in 1..n |-> s[j]]
  BY <1>1
<1>3. /\ SnapTyped(p) /\ p.index = snaps[i].index /\ p.full = snaps[i].full
      /\ p.risky = snaps[i].risky /\ p.marks = snaps[i].marks /\ p.pruned = TRUE
  BY <1>1 DEF SnapTyped, SnapFields
<1> HIDE DEF n, p
<1>4. IsList(s)
  BY <1>1, <1>2, ListIntro DEF n
<1> QED
  BY <1>1, <1>2, <1>3, <1>4 DEF n

LEMMA SnapShape ==
  ASSUME Shapes, [Next]_vars
  PROVE  IsList(snaps') /\ \A i \in DOMAIN snaps' : SnapTyped(snaps'[i])
<1>1. CASE snaps' = snaps
  BY <1>1 DEF Shapes
<1>2. CASE Finish
  <2>1. RunTyped(run)
    BY <1>2, RunThere DEF Finish
  <2>2. CASE snaps' = Append(snaps, Snapshot)
    <3> DEFINE c == Snapshot
    <3>1. SnapTyped(c)
      BY <2>1, SnapshotShape
    <3> HIDE DEF c
    <3>2. snaps' = Append(snaps, c)
      BY <2>2 DEF c
    <3> QED
      BY <3>1, <3>2, ListAppend DEF Shapes
  <2> QED
    BY <1>1, <1>2, <2>2 DEF Finish
<1>3. CASE Prune
  BY <1>3, PruneShape DEF Prune
<1>4. snaps' = snaps \/ Finish \/ Prune
  BY DEF Next, vars, Begin, EnterDir, LeaveDir, UnreadableDir, SkipFile, ReuseFile, OpenFile,
         ReadFile, EndFile, ReadFails, UploadEnds, AbortScan, Flush, Assign, Save, Verify, Done,
         Return, Tick, Cancel, ChangeFile, RemoveFile, Crash, Unchanged
<1> QED
  BY <1>1, <1>2, <1>3, <1>4

LEMMA RecordsShape ==
  ASSUME Shapes, [Next]_vars
  PROVE  RecordsTyped(records')
<1>1. CASE records' = records
  BY <1>1 DEF Shapes
<1>2. CASE Begin
  BY <1>2, RecordsOfRun DEF Begin
<1>3. CASE Save
  <2>1. RunTyped(run)
    BY <1>3, RunThere DEF Save
  <2> QED
    BY <1>1, <1>3, <2>1 DEF Save, RunTyped
<1>4. records' = records \/ Begin \/ Save
  BY DEF Next, vars, EnterDir, LeaveDir, UnreadableDir, SkipFile, ReuseFile, OpenFile, Prune,
         ReadFile, EndFile, ReadFails, UploadEnds, AbortScan, Flush, Assign, Finish, Verify, Done,
         Return, Tick, Cancel, ChangeFile, RemoveFile, Crash, Unchanged
<1> QED
  BY <1>1, <1>2, <1>3, <1>4

LEMMA ShapesInit == Init => Shapes
BY ListEmpty, NoRecordsTyped DEF Init, Shapes

LEMMA ShapesNext == Shapes /\ [Next]_vars => Shapes'
<1> SUFFICES ASSUME Shapes, [Next]_vars PROVE Shapes'
  OBVIOUS
<1> QED
  BY RunShape, SnapShape, RecordsShape DEF Shapes

\* The variables of a run are there while it is under way, what is left to do is the
\* end of the walk, and indexes, spans and records have the form the rest relies on.
THEOREM WellFormed == Spec => []Shapes
BY ShapesInit, ShapesNext, PTL DEF Spec

-----------------------------------------------------------------------------
(* What was stored.                                                          *)

AllKept == \A i \in DOMAIN snaps : ~snaps[i].pruned

\* What a run may commit: C are the chunks of the server.
Trusty(r, C) ==
  /\ ToSet(r.assigned) \subseteq r.known
  /\ Offered(r.prev) \subseteq C
  /\ Offered(r.live) \subseteq C \cup ToSet(r.assigned)
  /\ ~r.failed => r.known \subseteq C \cup r.flying
  /\ r.pc \in {"finish", "save", "verify", "known"} => r.known \subseteq C

\* As long as no snapshot was pruned, everything a run relies on is at the server; a
\* full run relies on nothing.
Stored ==
  /\ ChunksThere
  /\ AllKept => /\ known \subseteq chunks /\ Offered(records) \subseteq chunks
                /\ \A i \in DOMAIN snaps : ~snaps[i].risky
  /\ run # Idle /\ (AllKept \/ run.full) => Trusty(run, chunks)

LEMMA TrustyScans ==
  ASSUME NEW r, NEW q, NEW C, Trusty(r, C), Scans(r, q)
  PROVE  Trusty(q, C)
<1>1. q.pc \notin {"finish", "save", "verify", "known"}
  BY DEF Scans
<1> QED
  BY <1>1 DEF Trusty, Scans

LEMMA TrustyFlush ==
  ASSUME NEW r, NEW q, NEW s, NEW C, Trusty(r, C), Wrote(r, q, {}),
         Relabelled(q, s), s.flying = q.flying, s.failed = q.failed, s.pc = "drain"
  PROVE  Trusty(s, C)
BY DEF Trusty, Wrote, Kept, Relabelled

\* The steps of Relabelling, except the end of an upload.
LEMMA TrustySame ==
  ASSUME NEW r, NEW q, NEW C, Trusty(r, C), Relabelled(r, q),
         q.flying = r.flying, q.failed = r.failed,
         q.pc \in {"finish", "save", "verify", "known"} => q.known \subseteq C
  PROVE  Trusty(q, C)
BY DEF Trusty, Relabelled

\* An upload ends: its chunk is stored, or the run has failed.
LEMMA TrustyUpload ==
  ASSUME NEW r, NEW q, NEW C, NEW D, Trusty(r, C), Relabelled(r, q), C \subseteq D,
         q.pc = r.pc, q.failed \/ r.flying \subseteq q.flying \cup D,
         q.failed \/ q.failed = r.failed
  PROVE  Trusty(q, D)
BY DEF Trusty, Relabelled

LEMMA StoredInit == Init => Stored
<1> SUFFICES ASSUME Init PROVE Stored
  OBVIOUS
<1>1. DOMAIN snaps = {} /\ known = {} /\ chunks = {} /\ records = NoRecords /\ run = Idle
  BY DEF Init
<1> QED
  BY <1>1, NoRecordsTyped DEF Stored, ChunksThere

\* A run that starts trusts what the last snapshot and the caches name.
LEMMA NewRunTrusty ==
  ASSUME Shapes, Stored, NEW full \in BOOLEAN, AllKept \/ full
  PROVE  /\ Trusty(NewRun(full), chunks)
         /\ AllKept => Offered(Records(full)) \subseteq chunks
<1> DEFINE r == NewRun(full)
<1>1. /\ r.assigned = <<>> /\ r.known = Trusted(full) /\ r.prev = Records(full)
      /\ r.live = NoRecords /\ r.failed = FALSE /\ r.flying = {} /\ r.pc = "walk"
      /\ r.full = full
  BY DEF NewRun
<1>2. AllKept /\ Latest # 0 => ToSet(snaps[Latest].index) \subseteq chunks
  <2> SUFFICES ASSUME AllKept, Latest # 0 PROVE ToSet(snaps[Latest].index) \subseteq chunks
    OBVIOUS
  <2>1. Latest \in DOMAIN snaps /\ ~snaps[Latest].pruned
    BY LatestThere DEF Shapes
  <2>2. ~snaps[Latest].risky
    BY <2>1 DEF Stored
  <2> QED
    BY <2>1, <2>2 DEF Stored, ChunksThere
<1>3. Offered(Records(full)) \subseteq chunks
  <2>1. Records(full) = NoRecords \/ AllKept
    BY DEF Records
  <2>2. CASE Records(full) = NoRecords
    BY <2>2, NoRecordsTyped
  <2>3. CASE ~full /\ Records(full) = records
    BY <2>3 DEF Stored
  <2>4. CASE ~full /\ Latest # 0 /\ Offered(Records(full)) \subseteq ToSet(snaps[Latest].index)
    BY <1>2, <2>4
  <2> QED
    BY <2>2, <2>3, <2>4, RecordsOfRun
<1>4. Trusted(full) \subseteq chunks
  <2>1. CASE full
    BY <2>1 DEF Trusted
  <2>2. CASE ~full /\ Latest > 0
    <3>1. Latest # 0
      BY <2>2
    <3> QED
      BY <1>2, <2>2, <3>1 DEF Trusted
  <2>3. CASE ~full /\ ~(Latest > 0)
    BY <2>3 DEF Trusted, Stored
  <2> QED
    BY <2>1, <2>2, <2>3
<1> HIDE DEF r
<1>5. Trusty(r, chunks)
  BY <1>1, <1>3, <1>4, ListEmpty, NoRecordsTyped DEF Trusty
<1> QED
  BY <1>3, <1>5 DEF r

\* What is assigned when the uploads have ended well is stored.
LEMMA TrustyRelabels ==
  ASSUME Shapes, Stored, Relabelling, AllKept \/ run.full
  PROVE  Trusty(run', chunks')
<1>1. RunTyped(run) /\ run # Idle /\ Relabelled(run, run')
  BY RelabelSteps
<1>2. Trusty(run, chunks)
  BY <1>1 DEF Stored
<1>3. CASE UploadEnds
  <2>1. DOMAIN run = RunFields
    BY <1>1 DEF RunTyped, Writable
  <2>2. PICK c \in run.flying :
          \/ chunks' = chunks \cup {c} /\ run' = [run EXCEPT !.flying = @ \ {c}]
          \/ chunks' = chunks /\ run' = [run EXCEPT !.flying = @ \ {c}, !.failed = TRUE]
    BY <1>3 DEF UploadEnds
  <2>3. run'.pc = run.pc /\ run'.flying = run.flying \ {c}
    BY <2>1, <2>2 DEF RunFields
  <2>4. \/ chunks' = chunks \cup {c} /\ run'.failed = run.failed
        \/ chunks' = chunks /\ run'.failed
    BY <2>1, <2>2 DEF RunFields
  <2>5. chunks \subseteq chunks' /\ (run'.failed \/ run.flying \subseteq run'.flying \cup chunks')
        /\ (run'.failed \/ run'.failed = run.failed)
    BY <2>3, <2>4
  <2> DEFINE q == run'
             D == chunks'
  <2> HIDE DEF q, D
  <2>6. Trusty(q, D)
    BY <1>1, <1>2, <2>3, <2>5, TrustyUpload DEF q, D
  <2> QED
    BY <2>6 DEF q, D
<1>4. CASE ~UploadEnds
  <2>1. chunks' = chunks /\ run'.flying = run.flying /\ run'.failed = run.failed
    BY <1>4, RelabelSteps DEF Relabelling, AbortScan, Assign, Finish, Save, Verify, Done, Cancel,
       UnreadableDir, Unchanged
  <2>2. run'.pc \in {"finish", "save", "verify", "known"} => run.known \subseteq chunks
    <3>1. DOMAIN run = RunFields
      BY <1>1 DEF RunTyped, Writable
    <3>2. CASE Fails(run)
      BY <1>1, <3>2, FailsRelabels
    <3>3. CASE Assign /\ ~Fails(run)
      <4>1. run.flying = {} /\ ~run.failed
        BY <3>3 DEF Assign, Drained
      <4> QED
        BY <1>2, <4>1 DEF Trusty
    <3>4. CASE (Finish \/ Save \/ Verify) /\ ~Fails(run)
      BY <1>2, <3>4 DEF Finish, Save, Verify, Trusty
    <3>5. CASE Done
      BY <3>1, <3>5 DEF Done, RunFields
    <3>6. CASE Cancel
      <4>1. run'.pc = run.pc
        BY <3>1, <3>6 DEF Cancel, RunFields
      <4> QED
        BY <1>2, <4>1 DEF Trusty
    <3> QED
      BY <1>4, <3>2, <3>3, <3>4, <3>5, <3>6 DEF Relabelling, AbortScan
  <2>3. run'.known = run.known
    BY <1>1 DEF Relabelled
  <2> DEFINE q == run'
  <2> HIDE DEF q
  <2>4. Trusty(q, chunks)
    BY <1>1, <1>2, <2>1, <2>2, <2>3, TrustySame DEF q
  <2> QED
    BY <2>1, <2>4 DEF q
<1> QED
  BY <1>3, <1>4

\* A run that commits has what it assigned at the server.
LEMMA CommitStored ==
  ASSUME Shapes, Stored, run.pc \in {"finish", "save"}, AllKept \/ run.full
  PROVE  ToSet(run.assigned) \subseteq chunks /\ Offered(run.live) \subseteq chunks
<1>1. RunTyped(run) /\ run # Idle
  BY RunThere
<1>2. Trusty(run, chunks)
  BY <1>1 DEF Stored
<1> QED
  BY <1>2 DEF Trusty

LEMMA StoredRun ==
  ASSUME Shapes, Stored, [Next]_vars, run' # Idle, AllKept' \/ run'.full
  PROVE  Trusty(run', chunks')
<1>1. CASE Begin
  <2>1. PICK full \in BOOLEAN : run' = NewRun(full)
    BY <1>1 DEF Begin
  <2>2. NewRun(full).full = full
    BY DEF NewRun
  <2>3. chunks' = chunks /\ snaps' = snaps
    BY <1>1 DEF Begin
  <2>4. AllKept \/ full
    BY <2>1, <2>2, <2>3 DEF AllKept
  <2> QED
    BY <2>1, <2>3, <2>4, NewRunTrusty
<1>2. CASE Return \/ Crash
  BY <1>2 DEF Return, Crash
<1>3. CASE Prune
  BY <1>3 DEF Prune
<1>4. CASE Finish
  <2>1. RunTyped(run)
    BY <1>4, RunThere DEF Finish
  <2>2. AllKept' => AllKept
    <3>1. CASE snaps' = snaps
      BY <3>1 DEF AllKept
    <3>2. CASE snaps' = Append(snaps, Snapshot)
      <4> DEFINE c == Snapshot
      <4> HIDE DEF c
      <4>1. \A i \in DOMAIN snaps : i \in DOMAIN snaps' /\ snaps'[i] = snaps[i]
        BY <3>2, ListAppend DEF Shapes, c
      <4> QED
        BY <4>1 DEF AllKept
    <3> QED
      BY <1>4, <3>1, <3>2 DEF Finish
  <2>3. run'.full = run.full
    BY <1>4, RelabelSteps DEF Relabelling, Relabelled
  <2> QED
    BY <1>4, <2>2, <2>3, TrustyRelabels DEF Relabelling
<1>5. CASE ~Begin /\ ~Finish /\ ~Prune
  <2>1. snaps' = snaps
    BY <1>5 DEF Next, vars, EnterDir, LeaveDir, UnreadableDir, SkipFile, ReuseFile, OpenFile,
         ReadFile, EndFile, ReadFails, UploadEnds, AbortScan, Flush, Assign, Save, Verify, Done,
         Return, Tick, Cancel, ChangeFile, RemoveFile, Crash, Unchanged
  <2>2. AllKept' => AllKept
    BY <2>1 DEF AllKept
  <2>3. CASE Relabelling
    <3>1. run'.full = run.full
      BY <2>3, RelabelSteps DEF Relabelled
    <3> QED
      BY <2>2, <2>3, <3>1, TrustyRelabels
  <2>4. CASE Scanning \/ (UnreadableDir /\ ~Fails(run))
    <3>1. RunTyped(run) /\ run # Idle /\ Scans(run, run')
      <4>1. CASE Scanning
        BY <4>1, ScanSteps
      <4>2. CASE UnreadableDir /\ ~Fails(run)
        <5>1. RunTyped(run) /\ Scans(run, run')
          BY <4>2, UnreadableSteps
        <5> QED
          BY <5>1, NotIdle DEF RunTyped, Writable
      <4> QED
        BY <2>4, <4>1, <4>2
    <3>2. run.full = run'.full
      BY <3>1 DEF Scans
    <3>3. Trusty(run, chunks)
      BY <2>2, <3>1, <3>2 DEF Stored
    <3>4. chunks' = chunks
      BY <2>4 DEF Scanning, UnreadableDir, EnterDir, LeaveDir, SkipFile, ReuseFile, OpenFile,
         ReadFile, EndFile, ReadFails, Unchanged
    <3> QED
      BY <3>1, <3>3, <3>4, TrustyScans
  <2>5. CASE Flush
    <3>1. PICK r : /\ Wrote(run, r, {}) /\ Relabelled(r, run')
                   /\ run'.flying = r.flying /\ run'.failed = r.failed /\ run'.pc = "drain"
      BY <2>5, FlushSteps
    <3>2. run # Idle /\ run.full = run'.full
      BY <2>5, <3>1, FlushSteps DEF Wrote, Kept, Relabelled
    <3>3. Trusty(run, chunks) /\ chunks' = chunks
      BY <2>2, <2>5, <3>2 DEF Stored, Flush, Unchanged
    <3> QED
      BY <3>1, <3>3, TrustyFlush
  <2>6. CASE Tick \/ ChangeFile \/ RemoveFile \/ UNCHANGED vars
    <3>1. run' = run /\ chunks' = chunks
      BY <2>6 DEF Tick, ChangeFile, RemoveFile, vars
    <3> QED
      BY <2>2, <3>1 DEF Stored
  <2> QED
    BY <1>2, <1>5, <2>3, <2>4, <2>5, <2>6 DEF Next, Scanning, Relabelling
<1> QED
  BY <1>1, <1>3, <1>4, <1>5

LEMMA StoredSnaps ==
  ASSUME Shapes, Stored, [Next]_vars
  PROVE  /\ ChunksThere'
         /\ AllKept' => \A i \in DOMAIN snaps' : ~snaps'[i].risky
<1>1. CASE UNCHANGED <<snaps, chunks>>
  BY <1>1 DEF Stored, ChunksThere, AllKept
<1>2. CASE UploadEnds
  <2>1. snaps' = snaps /\ chunks \subseteq chunks'
    BY <1>2 DEF UploadEnds
  <2> QED
    BY <2>1 DEF Stored, ChunksThere, AllKept
<1>3. CASE Prune
  <2>1. PICK i \in DOMAIN snaps :
          /\ ~snaps[i].pruned
          /\ snaps' = [snaps EXCEPT ![i].pruned = TRUE]
          /\ chunks' = UNION {ToSet(snaps[j].index) :
                                j \in {k \in DOMAIN snaps : ~snaps[k].pruned} \ {i}}
    BY <1>3 DEF Prune
  <2>2. /\ DOMAIN snaps' = DOMAIN snaps
        /\ \A j \in DOMAIN snaps' :
             /\ snaps'[j].index = snaps[j].index
             /\ snaps'[j].pruned = IF j = i THEN TRUE ELSE snaps[j].pruned
    BY <2>1, PruneShape
  <2>3. \A j \in DOMAIN snaps' : ~snaps'[j].pruned => ToSet(snaps'[j].index) \subseteq chunks'
    BY <2>1, <2>2
  <2>4. ~AllKept'
    BY <2>2 DEF AllKept
  <2> QED
    BY <2>3, <2>4 DEF ChunksThere
<1>4. CASE Finish
  <2>1. RunTyped(run) /\ chunks' = chunks /\ run.pc = "finish"
    BY <1>4, RunThere DEF Finish
  <2>2. CASE snaps' = snaps
    BY <1>1, <2>1, <2>2
  <2>3. CASE snaps' = Append(snaps, Snapshot)
    <3> DEFINE c == Snapshot
    <3>1. c.index = run.assigned /\ c.full = run.full /\ c.pruned = FALSE /\ (c.risky <=> ~AllKept)
      <4>1. Snapshot.risky = (\E i \in DOMAIN snaps : snaps[i].pruned)
        BY <2>1, SnapshotShape
      <4> QED
        BY <2>1, <4>1, SnapshotShape DEF AllKept
    <3> HIDE DEF c
    <3>2. /\ \A i \in DOMAIN snaps : i \in DOMAIN snaps' /\ snaps'[i] = snaps[i]
          /\ \A i \in DOMAIN snaps' : (i \in DOMAIN snaps /\ snaps'[i] = snaps[i]) \/ snaps'[i] = c
      BY <2>3, ListAppend DEF Shapes, c
    <3>3. AllKept' => AllKept
      BY <3>2 DEF AllKept
    <3>4. c.full \/ ~c.risky => ToSet(c.index) \subseteq chunks
      BY <2>1, <3>1, CommitStored
    <3>5. \A i \in DOMAIN snaps' :
            ~snaps'[i].pruned /\ (snaps'[i].full \/ ~snaps'[i].risky)
              => ToSet(snaps'[i].index) \subseteq chunks'
      BY <2>1, <3>2, <3>4 DEF Stored, ChunksThere
    <3>6. AllKept' => \A i \in DOMAIN snaps' : ~snaps'[i].risky
      BY <3>1, <3>2, <3>3 DEF Stored
    <3> QED
      BY <3>5, <3>6 DEF ChunksThere
  <2> QED
    BY <1>4, <2>2, <2>3 DEF Finish
<1>5. UNCHANGED <<snaps, chunks>> \/ UploadEnds \/ Prune \/ Finish
  BY DEF Next, vars, Begin, EnterDir, LeaveDir, UnreadableDir, SkipFile, ReuseFile, OpenFile,
         ReadFile, EndFile, ReadFails, AbortScan, Flush, Assign, Save, Verify, Done,
         Return, Tick, Cancel, ChangeFile, RemoveFile, Crash, Unchanged
<1> QED
  BY <1>1, <1>2, <1>3, <1>4, <1>5

LEMMA StoredCaches ==
  ASSUME Shapes, Stored, [Next]_vars, AllKept'
  PROVE  known' \subseteq chunks' /\ Offered(records') \subseteq chunks'
<1>1. CASE Prune
  <2>1. PICK i \in DOMAIN snaps : snaps' = [snaps EXCEPT ![i].pruned = TRUE]
    BY <1>1 DEF Prune
  <2>2. i \in DOMAIN snaps' /\ snaps'[i].pruned = (IF i = i THEN TRUE ELSE snaps[i].pruned)
    BY ZenonT(60), <2>1, PruneShape
  <2> QED
    BY <2>2 DEF AllKept
<1>2. CASE ~Prune
  <2>1. chunks \subseteq chunks'
    BY <1>2 DEF Next, vars, Begin, EnterDir, LeaveDir, UnreadableDir, SkipFile, ReuseFile,
         OpenFile, ReadFile, EndFile, ReadFails, AbortScan, Flush, Assign, Save, Verify, Done,
         Return, Tick, Cancel, ChangeFile, RemoveFile, Crash, Unchanged, UploadEnds, Finish
  <2>2. AllKept
    <3>1. CASE snaps' = snaps
      BY <3>1 DEF AllKept
    <3>2. CASE snaps' = Append(snaps, Snapshot)
      <4> DEFINE c == Snapshot
      <4> HIDE DEF c
      <4>1. \A i \in DOMAIN snaps : i \in DOMAIN snaps' /\ snaps'[i] = snaps[i]
        BY <3>2, ListAppend DEF Shapes, c
      <4> QED
        BY <4>1 DEF AllKept
    <3> QED
      BY <1>2, <3>1, <3>2 DEF Next, vars, Begin, EnterDir, LeaveDir, UnreadableDir, SkipFile,
         ReuseFile, OpenFile, ReadFile, EndFile, ReadFails, AbortScan, Flush, Assign, Save,
         Verify, Done, Return, Tick, Cancel, ChangeFile, RemoveFile, Crash, Unchanged, UploadEnds,
         Finish
  <2>3. known \subseteq chunks /\ Offered(records) \subseteq chunks
    BY <2>2 DEF Stored
  <2>4. known' \subseteq chunks'
    <3>1. CASE Done
      <4>1. run.pc = "known" /\ known' = run.known /\ run # Idle
        BY <3>1, RunThere DEF Done
      <4>2. Trusty(run, chunks)
        BY <2>2, <4>1 DEF Stored
      <4> QED
        BY <2>1, <4>1, <4>2 DEF Trusty
    <3>2. known' = known \/ known' = {} \/ Done
      BY DEF Next, vars, Begin, EnterDir, LeaveDir, UnreadableDir, SkipFile, ReuseFile, Prune,
         OpenFile, ReadFile, EndFile, ReadFails, AbortScan, Flush, Assign, Save, Verify,
         Return, Tick, Cancel, ChangeFile, RemoveFile, Crash, Unchanged, UploadEnds, Finish
    <3> QED
      BY <2>1, <2>3, <3>1, <3>2
  <2>5. Offered(records') \subseteq chunks'
    <3>1. CASE Begin
      <4>1. PICK full \in BOOLEAN : records' = Records(full)
        BY <3>1 DEF Begin
      <4>2. Offered(Records(full)) \subseteq chunks
        BY <2>2, NewRunTrusty
      <4> QED
        BY <2>1, <4>1, <4>2
    <3>2. CASE Save
      <4>1. Offered(run.live) \subseteq chunks
        BY <2>2, <3>2, CommitStored DEF Save
      <4>2. records' = run.live \/ records' = records
        BY <3>2 DEF Save
      <4> QED
        BY <2>1, <2>3, <4>1, <4>2
    <3>3. records' = records \/ Begin \/ Save
      BY DEF Next, vars, EnterDir, LeaveDir, UnreadableDir, SkipFile, ReuseFile, OpenFile, Prune,
         ReadFile, EndFile, ReadFails, UploadEnds, AbortScan, Flush, Assign, Finish, Verify, Done,
         Return, Tick, Cancel, ChangeFile, RemoveFile, Crash, Unchanged
    <3> QED
      BY <2>1, <2>3, <3>1, <3>2, <3>3
  <2> QED
    BY <2>4, <2>5
<1> QED
  BY <1>1, <1>2

LEMMA StoredNext == Shapes /\ Stored /\ [Next]_vars => Stored'
<1> SUFFICES ASSUME Shapes, Stored, [Next]_vars PROVE Stored'
  OBVIOUS
<1> QED
  BY StoredRun, StoredSnaps, StoredCaches DEF Stored

LEMMA StoredAlways == Spec => [](Shapes /\ Stored)
<1>1. Init => Shapes /\ Stored
  BY ShapesInit, StoredInit
<1>2. (Shapes /\ Stored) /\ [Next]_vars => (Shapes /\ Stored)'
  BY ShapesNext, StoredNext
<1> QED
  BY <1>1, <1>2, PTL DEF Spec

\* A committed snapshot has all its chunks at the server, although most digests are
\* trusted without a look: a full one always, another one unless the server pruned
\* before it (upload_pipeline.go, backup.go loadKnownChunks).
THEOREM SnapshotsAreComplete == Spec => []ChunksThere
<1>1. Shapes /\ Stored => ChunksThere
  BY DEF Stored
<1> QED
  BY <1>1, StoredAlways, PTL

\* chunks.json lists no chunk the server did not get, whatever failed, was cancelled
\* or died (runner.go, chunkindex.Save).
THEOREM CacheIsSound == Spec => []KnownWasStored
<1>1. Shapes /\ Stored => KnownWasStored
  BY DEF Stored, AllKept, KnownWasStored
<1> QED
  BY <1>1, StoredAlways, PTL

-----------------------------------------------------------------------------
(* How a run ends. *)

\* No success is recorded while the progress goroutine runs; a run that is over has
\* its last phase in the checkpoint, but for a goroutine that still overwrites it.
EndsWell(r, phase) ==
  /\ r.pc \in {"verify", "known", "done"} => r.ticking = FALSE
  /\ r.pc = "done" => phase = "done"
  /\ r.pc = "failed" => phase \notin {"none", "done"}

Ends ==
  /\ DOMAIN result = {"runs", "last"}
  /\ run # Idle => EndsWell(run, checkpoint)
  /\ InterruptedIsListed

LEMMA EndsInit == Init => Ends
BY DEF Init, Ends, InterruptedIsListed

\* The steps that take a run from one end of it to the other.
LEMMA EndsRun ==
  ASSUME Shapes, Ends, [Next]_vars, run' # Idle
  PROVE  EndsWell(run', checkpoint')
<1>1. CASE Scanning \/ Flush
  BY <1>1, ScanSteps, FlushSteps DEF Scans, EndsWell
<1>2. CASE Begin
  <2>1. PICK full \in BOOLEAN : run' = NewRun(full)
    BY <1>2 DEF Begin
  <2>2. run'.pc = "walk"
    BY <2>1 DEF NewRun
  <2> QED
    BY <2>2 DEF EndsWell
<1>3. CASE Relabelling
  <2>1. RunTyped(run) /\ run # Idle
    BY <1>3, RelabelSteps
  <2>2. DOMAIN run = RunFields /\ EndsWell(run, checkpoint)
    BY <2>1 DEF RunTyped, Writable, Ends
  <2>3. CASE Fails(run)
    BY <2>2, <2>3 DEF Fails, SaveCP, EndsWell, RunFields
  <2>4. CASE UploadEnds
    <3>1. checkpoint' = checkpoint /\ run'.pc = run.pc /\ run'.ticking = run.ticking
      BY <2>2, <2>4 DEF UploadEnds, RunFields
    <3> QED
      BY <2>2, <3>1 DEF EndsWell
  <2>5. CASE ~Fails(run) /\ (Assign \/ Finish)
    <3>1. run'.pc \in {"finish", "save"}
      BY <2>2, <2>5 DEF Assign, Finish, RunFields
    <3> QED
      BY <3>1 DEF EndsWell
  <2>6. CASE Save
    <3>1. run'.pc = "verify" /\ run'.ticking = FALSE
      BY <2>2, <2>6 DEF Save, RunFields
    <3> QED
      BY <3>1 DEF EndsWell
  <2>7. CASE ~Fails(run) /\ Verify
    <3>1. run.pc = "verify" /\ run'.pc = "known" /\ run'.ticking = run.ticking
      BY <2>2, <2>7 DEF Verify, RunFields
    <3> QED
      BY <2>2, <3>1 DEF EndsWell
  <2>8. CASE Done
    <3>1. run.pc = "known" /\ run'.pc = "done" /\ run'.ticking = run.ticking /\ checkpoint' = "done"
      BY <2>2, <2>8 DEF Done, SaveCP, RunFields
    <3> QED
      BY <2>2, <3>1 DEF EndsWell
  <2>9. CASE Cancel
    <3>1. run'.pc = run.pc /\ run'.ticking = run.ticking /\ checkpoint' = checkpoint
      BY <2>2, <2>9 DEF Cancel, Unchanged, RunFields
    <3> QED
      BY <2>2, <3>1 DEF EndsWell
  <2> QED
    BY <1>3, <2>3, <2>4, <2>5, <2>6, <2>7, <2>8, <2>9 DEF Relabelling, AbortScan
<1>4. CASE UnreadableDir
  BY <1>3, <1>4, UnreadableSteps DEF Relabelling, Scans, EndsWell
<1>5. CASE Tick
  <2>1. run # Idle /\ run.ticking /\ run' = run /\ checkpoint' = "running"
    BY <1>5 DEF Tick, Ticks, SaveCP
  <2> QED
    BY <2>1 DEF Ends, EndsWell
<1>6. CASE ChangeFile \/ RemoveFile \/ Prune \/ UNCHANGED vars
  <2>1. UNCHANGED <<run, checkpoint>>
    BY <1>6 DEF ChangeFile, RemoveFile, Prune, vars
  <2> QED
    BY <2>1 DEF Ends
<1>7. CASE Return \/ Crash
  BY <1>7 DEF Return, Crash
<1> QED
  BY <1>1, <1>2, <1>3, <1>4, <1>5, <1>6, <1>7 DEF Next, Scanning, Relabelling

LEMMA EndsResult ==
  ASSUME Shapes, Ends, [Next]_vars
  PROVE  DOMAIN result' = {"runs", "last"} /\ InterruptedIsListed'
<1>1. CASE Begin
  BY <1>1, NewRunTyped, NotIdle DEF Begin, Ends, InterruptedIsListed, RunTyped, Writable
<1>2. CASE Return
  <2>1. run # Idle /\ run.pc \in {"done", "failed"}
    BY <1>2 DEF Return, Idle
  <2>2. result'.last = run.pc /\ DOMAIN result' = {"runs", "last"} /\ checkpoint' = checkpoint
    BY <1>2 DEF Return, Ends
  <2> QED
    BY <2>1, <2>2 DEF Ends, EndsWell, InterruptedIsListed, Listed
<1>3. CASE Crash
  <2>1. result'.last = "dead" /\ DOMAIN result' = {"runs", "last"}
    BY <1>3 DEF Crash, Ends
  <2> QED
    BY <2>1 DEF InterruptedIsListed
<1>4. CASE Scanning \/ Relabelling \/ Flush \/ UnreadableDir
  <2>1. RunTyped(run')
    BY <1>4, ScanSteps, ScansTyped, RelabelSteps, RelabelledTyped, FlushSteps, WroteTyped,
       UnreadableSteps DEF Relabelling
  <2>2. run' # Idle
    BY <2>1, NotIdle DEF RunTyped, Writable
  <2>3. result' = result
    BY <1>4 DEF Scanning, Relabelling, EnterDir, LeaveDir, UnreadableDir, SkipFile, ReuseFile,
       OpenFile, ReadFile, EndFile, ReadFails, UploadEnds, AbortScan, Flush, Assign, Finish,
       Save, Verify, Done, Cancel, Unchanged
  <2> QED
    BY <2>2, <2>3 DEF Ends, InterruptedIsListed
<1>5. CASE Tick
  BY <1>5 DEF Tick, Ticks, Ends, InterruptedIsListed
<1>6. CASE ChangeFile \/ RemoveFile \/ Prune \/ UNCHANGED vars
  <2>1. UNCHANGED <<run, checkpoint, result>>
    BY <1>6 DEF ChangeFile, RemoveFile, Prune, vars
  <2> QED
    BY <2>1 DEF Ends, InterruptedIsListed, Listed
<1> QED
  BY <1>1, <1>2, <1>3, <1>4, <1>5, <1>6 DEF Next, Scanning, Relabelling

\* A job whose last run failed has a checkpoint that lists it as interrupted, and one
\* whose last run succeeded has none, whenever the progress goroutine writes, the user
\* cancels or the process dies (checkpoint.go, ListInterruptedCheckpoints; runner.go).
THEOREM EndsAreListed == Spec => []InterruptedIsListed
<1>1. Init => Shapes /\ Ends
  BY ShapesInit, EndsInit
<1>2. (Shapes /\ Ends) /\ [Next]_vars => (Shapes /\ Ends)'
  <2> SUFFICES ASSUME Shapes, Ends, [Next]_vars PROVE Shapes' /\ Ends'
    OBVIOUS
  <2> QED
    BY ShapesNext, EndsRun, EndsResult DEF Ends
<1>3. Shapes /\ Ends => InterruptedIsListed
  BY DEF Ends
<1> QED
  BY <1>1, <1>2, <1>3, PTL DEF Spec

-----------------------------------------------------------------------------
(* The recorder.  A recorder that has used up what it was fed stands between   *)
(* two entries or inside the data of a file.                                   *)

ParserFields ==
  {"state", "carry", "off", "stack", "path", "left", "out", "found", "index", "want",
   "recorder", "go", "bad"}

\* A recorder that goes on, its state and what it has not used yet.
Holds(p, s, c) ==
  /\ DOMAIN p = ParserFields /\ p.recorder = TRUE /\ p.bad = FALSE /\ p.go = TRUE
  /\ p.state = s /\ p.carry = c /\ p.off \in Nat

\* A recorder that has nothing left to use.
Between(p) ==
  /\ DOMAIN p = ParserFields /\ p.recorder = TRUE /\ p.bad = FALSE
  /\ p.state \in {"root", "dir"} /\ p.carry = <<>> /\ p.off \in Nat

Inside(p, n) ==
  /\ DOMAIN p = ParserFields /\ p.recorder = TRUE /\ p.bad = FALSE
  /\ p.state = "payload" /\ p.carry = <<>> /\ p.left = n /\ p.off \in Nat

Refused(p) == p.bad = TRUE /\ p.go = FALSE

Up(s) == IF s = <<>> THEN <<>> ELSE Front(s)

\* How it moves: k units on; out of a directory; into the directory d; to the data of
\* the file f, which it enters into its index.
Along(p, q, k) == q.off = p.off + k /\ q.stack = p.stack /\ q.index = p.index

GoesUp(p, q) == q.off = p.off + 1 /\ q.index = p.index /\ q.stack = Up(p.stack)

GoesDown(p, q, d) ==
  /\ q.off = p.off + 2 /\ q.index = p.index
  /\ \E x : q.stack = Append(p.stack, x) /\ x.name = Last(Append(CurrentPath(p), d))

Opens(p, q, f, n) ==
  /\ q.off = p.off + 3 /\ q.stack = p.stack
  /\ q.index = Put(p.index, Append(CurrentPath(p), f), [at |-> p.off + 2, size |-> n])

LEMMA RestStays ==
  ASSUME NEW p, p.go = FALSE
  PROVE  FeedStep(p) = p
BY DEF FeedStep

LEMMA GoesOn ==
  ASSUME NEW p, NEW s, NEW c, Holds(p, s, c)
  PROVE  FeedStep(p) = Step(p)
BY DEF FeedStep, AllDone, Holds

LEMMA RootSteps ==
  ASSUME NEW p, NEW c, Holds(p, "root", c)
  PROVE  FeedStep(p) = StepRootEntry(p)
<1>1. FeedStep(p) = Step(p)
  BY GoesOn
<1> QED
  BY <1>1 DEF Step, Holds

LEMMA DirSteps ==
  ASSUME NEW p, NEW c, Holds(p, "dir", c)
  PROVE  FeedStep(p) = StepInDir(p)
<1>1. FeedStep(p) = Step(p)
  BY GoesOn
<1> QED
  BY <1>1 DEF Step, Holds

LEMMA PayloadSteps ==
  ASSUME NEW p, NEW c, Holds(p, "payload", c)
  PROVE  FeedStep(p) = StepPayload(p)
<1>1. FeedStep(p) = Step(p)
  BY GoesOn
<1> QED
  BY <1>1 DEF Step, Holds

\* With nothing to use it waits.
LEMMA EntryWaits ==
  ASSUME NEW p, NEW s \in {"root", "dir"}, Holds(p, s, <<>>)
  PROVE  Between(FeedStep(p)) /\ FeedStep(p).go = FALSE /\ Along(p, FeedStep(p), 0)
<1>0. ~Need(p, 1)
  BY DEF Holds, Need
<1>1. FeedStep(p) = Wait(p)
  <2>1. CASE s = "root"
    BY <1>0, <2>1, RootSteps DEF StepRootEntry
  <2>2. CASE s = "dir"
    BY <1>0, <2>2, DirSteps DEF StepInDir
  <2> QED
    BY <2>1, <2>2
<1> QED
  BY <1>1 DEF Wait, Holds, Between, Along, ParserFields

LEMMA PayloadWaits ==
  ASSUME NEW p, NEW n \in Nat \ {0}, Holds(p, "payload", <<>>), p.left = n
  PROVE  Inside(FeedStep(p), n) /\ FeedStep(p).go = FALSE /\ Along(p, FeedStep(p), 0)
<1>0. FeedStep(p) = StepPayload(p)
  BY PayloadSteps
<1>1. FeedStep(p) = Wait(p)
  BY <1>0 DEF Holds, StepPayload
<1> QED
  BY <1>1 DEF Wait, Holds, Inside, Along, ParserFields

\* What it uses of an entry.
LEMMA RootTakes ==
  ASSUME NEW p, Holds(p, "root", <<DirEntry>>)
  PROVE  Holds(FeedStep(p), "dir", <<>>) /\ Along(p, FeedStep(p), 1)
<1> DEFINE c == SubSeq(p.carry, 2, Len(p.carry))
<1>0. Need(p, 1) /\ p.carry[1] = DirEntry
  BY DEF Holds, Need
<1>1. FeedStep(p) = [Consume(p, 1) EXCEPT !.state = "dir"]
  BY <1>0, RootSteps DEF StepRootEntry
<1>2. c = <<>>
  BY DEF Holds
<1>3. FeedStep(p) = [p EXCEPT !.carry = c, !.off = @ + 1, !.state = "dir"]
  BY <1>1 DEF Consume, Holds, ParserFields
<1> HIDE DEF c
<1> QED
  BY <1>2, <1>3 DEF Holds, Along, ParserFields

LEMMA RootRefuses ==
  ASSUME NEW p, NEW c, Holds(p, "root", c), Len(c) >= 1, c[1] # DirEntry
  PROVE  Refused(FeedStep(p))
<1>0. Need(p, 1) /\ p.carry[1] # DirEntry
  BY DEF Holds, Need
<1>1. FeedStep(p) = Refuse(p)
  BY <1>0, RootSteps DEF StepRootEntry
<1> QED
  BY <1>1 DEF Refuse, Holds, Refused, ParserFields

LEMMA DirRefuses ==
  ASSUME NEW p, NEW c, Holds(p, "dir", c), Len(c) >= 1, c[1][1] \notin {"goodbye", "name"}
  PROVE  Refused(FeedStep(p))
<1>0. Need(p, 1) /\ Kind(p) # "goodbye" /\ Kind(p) # "name"
  BY DEF Holds, Need, Kind
<1>1. FeedStep(p) = Refuse(p)
  BY <1>0, DirSteps DEF StepInDir
<1> QED
  BY <1>1 DEF Refuse, Holds, Refused, ParserFields

LEMMA DirLeaves ==
  ASSUME NEW p, Holds(p, "dir", <<Goodbye>>)
  PROVE  Holds(FeedStep(p), "dir", <<>>) /\ GoesUp(p, FeedStep(p))
<1> DEFINE c == SubSeq(p.carry, 2, Len(p.carry))
           s == IF p.stack = <<>> THEN p.stack ELSE Front(p.stack)
<1>0. Need(p, 1) /\ Kind(p) = "goodbye"
  <2>1. Goodbye[1] = "goodbye"
    BY DEF Goodbye
  <2>2. Len(p.carry) = 1 /\ p.carry[1] = Goodbye
    BY DEF Holds
  <2> QED
    BY <2>1, <2>2 DEF Need, Kind
<1>1. FeedStep(p) = StepGoodbye(p)
  BY <1>0, DirSteps DEF StepInDir
<1>2. c = <<>>
  BY DEF Holds
<1>3. FeedStep(p) = [p EXCEPT !.carry = c, !.off = @ + 1, !.stack = s]
  BY <1>1 DEF StepGoodbye, Consume, Holds, ParserFields
<1>4. s = Up(p.stack)
  BY DEF Up
<1> HIDE DEF c, s
<1> QED
  BY <1>2, <1>3, <1>4 DEF Holds, GoesUp, ParserFields

LEMMA DirEnters ==
  ASSUME NEW p, NEW d, Holds(p, "dir", <<Named(d), DirEntry>>)
  PROVE  Holds(FeedStep(p), "dir", <<>>) /\ GoesDown(p, FeedStep(p), d)
<1> DEFINE c == SubSeq(p.carry, 3, Len(p.carry))
           path == Append(CurrentPath(p), p.carry[1][2])
           s == Append(p.stack, [name |-> Last(path), skip |-> InSkip(p) \/ ~DirRelevant(p, path)])
<1>0. Need(p, 1) /\ Kind(p) = "name"
  BY DEF Holds, Need, Kind, Named
<1>1. FeedStep(p) = StepFilename(p)
  BY <1>0, DirSteps DEF StepInDir
<1>2. c = <<>>
  BY DEF Holds
<1>3. Need(p, 2) /\ p.carry[2] = DirEntry /\ DirEntry # FileEntry
  BY DEF Need, Holds, DirEntry, FileEntry
<1>4. StepFilename(p) = [Consume(p, 2) EXCEPT !.stack = Append(@, [name |-> Last(path), skip |-> InSkip(p) \/ ~DirRelevant(p, path)])]
  BY <1>3 DEF StepFilename
<1>5. Consume(p, 2) = [p EXCEPT !.carry = c, !.off = @ + 2]
  BY DEF Consume
<1> HIDE DEF c
<1>6. FeedStep(p) = [p EXCEPT !.carry = c, !.off = @ + 2, !.stack = s]
  BY <1>1, <1>4, <1>5 DEF Holds, ParserFields
<1>7. \E x : s = Append(p.stack, x) /\ x.name = Last(Append(CurrentPath(p), d))
  <2> DEFINE x == [name |-> Last(path), skip |-> InSkip(p) \/ ~DirRelevant(p, path)]
  <2>1. path = Append(CurrentPath(p), d)
    BY DEF Holds, Named
  <2> HIDE DEF path
  <2>2. s = Append(p.stack, x) /\ x.name = Last(path)
    OBVIOUS
  <2> QED
    BY <2>1, <2>2
<1> HIDE DEF s
<1> QED
  BY <1>2, <1>6, <1>7 DEF Holds, GoesDown, ParserFields

LEMMA LastOfThree ==
  ASSUME NEW a, NEW b, NEW c
  PROVE  SubSeq(<<a, b, c>>, 2 + 1, 3) = <<c>>
<1> DEFINE s == <<a, b, c>>
           t == SubSeq(s, 3, 3)
<1>1. s \in Seq({a, b, c}) /\ Len(s) = 3 /\ s[3] = c
  OBVIOUS
<1> HIDE DEF s
<1>2. t \in Seq({a, b, c}) /\ Len(t) = 1 /\ t[1] = c
  BY <1>1, SubSeqProperties
<1> HIDE DEF t
<1>3. t = <<c>>
  BY <1>2
<1> QED
  BY <1>3 DEF s, t

LEMMA DirOpens ==
  ASSUME NEW p, NEW f, NEW n, Holds(p, "dir", FileHeader(f, n))
  PROVE  Holds(FeedStep(p), "payload", <<>>) /\ FeedStep(p).left = n /\ Opens(p, FeedStep(p), f, n)
<1> DEFINE c == <<Payload(n)>>
           path == Append(CurrentPath(p), p.carry[1][2])
           q == [p EXCEPT !.carry = c, !.off = @ + 2, !.path = path]
           x == Put(p.index, path, [at |-> q.off, size |-> n])
           e == SubSeq(c, 2, Len(c))
<1>0. Need(p, 1) /\ Kind(p) = "name"
  BY DEF Holds, Need, Kind, Named, FileHeader
<1>1. FeedStep(p) = StepFilename(p)
  BY <1>0, DirSteps DEF StepInDir
<1>2. SubSeq(p.carry, 2 + 1, Len(p.carry)) = c
  <2>1. p.carry = <<Named(f), FileEntry, Payload(n)>> /\ Len(p.carry) = 3
    BY DEF Holds, FileHeader
  <2> QED
    BY <2>1, LastOfThree
<1>3. Need(p, 2) /\ p.carry[2] = FileEntry /\ FileEntry # DirEntry
  BY DEF Need, Holds, FileHeader, FileEntry, DirEntry
<1>4. StepFilename(p) = BeginPayload([Consume(p, 2) EXCEPT !.path = path])
  BY <1>3 DEF StepFilename
<1>5. [Consume(p, 2) EXCEPT !.path = path] = q
  <2>1. Consume(p, 2) = [p EXCEPT !.carry = c, !.off = @ + 2]
    BY <1>2 DEF Consume
  <2> HIDE DEF c, path
  <2> QED
    BY <2>1 DEF Holds, ParserFields
<1>6. FeedStep(p) = BeginPayload(q)
  BY <1>1, <1>4, <1>5
<1>7. c[1] = Payload(n) /\ Len(c) = 1 /\ e = <<>>
  OBVIOUS
<1>14. Payload(n)[1] = "payload" /\ Payload(n)[3] = n
  BY DEF Payload
<1>15. path = Append(CurrentPath(p), f)
  BY DEF Holds, FileHeader, Named
<1> HIDE DEF c, path, e
<1>8. /\ DOMAIN q = ParserFields /\ q.carry = c /\ q.path = path /\ q.index = p.index
      /\ q.recorder = TRUE /\ q.bad = FALSE /\ q.go = TRUE
      /\ q.off = p.off + 2 /\ q.stack = p.stack /\ p.off \in Nat
  BY DEF Holds, ParserFields
<1> HIDE DEF q
<1>9. Need(q, 1) /\ Kind(q) = "payload"
  <2>1. q.carry[1] = Payload(n) /\ Len(q.carry) = 1
    BY <1>7, <1>8
  <2>2. q.carry[1][1] = "payload"
    BY <2>1, <1>14
  <2> QED
    BY <2>1, <2>2 DEF Need, Kind
<1>10. BeginPayload(q) = [Consume(RecordIndexPayload(q), 1) EXCEPT
                            !.left = n, !.out = <<>>, !.state = "payload"]
  BY <1>7, <1>8, <1>9, <1>14 DEF BeginPayload
<1>11. RecordIndexPayload(q) = [q EXCEPT !.index = x]
  BY <1>7, <1>8, <1>14 DEF RecordIndexPayload, x
<1> HIDE DEF x
<1>12. Consume(RecordIndexPayload(q), 1) = [q EXCEPT !.index = x, !.carry = e, !.off = @ + 1]
  <2> DEFINE y == [q EXCEPT !.index = x]
  <2>1. y.carry = c /\ y.off = q.off
    BY <1>8 DEF ParserFields
  <2> HIDE DEF y
  <2>2. Consume(y, 1) = [y EXCEPT !.carry = e, !.off = @ + 1]
    BY <2>1 DEF Consume, e
  <2> QED
    BY <1>8, <1>11, <2>2 DEF y, ParserFields
<1>13. FeedStep(p) = [q EXCEPT !.index = x, !.carry = e, !.off = @ + 1,
                               !.left = n, !.out = <<>>, !.state = "payload"]
  BY <1>6, <1>8, <1>10, <1>12 DEF ParserFields
<1>16. /\ FeedStep(p).off = p.off + 3 /\ FeedStep(p).stack = p.stack
       /\ FeedStep(p).index = x /\ p.off + 3 \in Nat
  <2>1. (p.off + 2) + 1 = p.off + 3 /\ p.off + 3 \in Nat
    BY <1>8
  <2> QED
    BY <1>8, <1>13, <2>1 DEF ParserFields
<1>17. x = Put(p.index, Append(CurrentPath(p), f), [at |-> p.off + 2, size |-> n])
  BY <1>8, <1>15 DEF x
<1> QED
  BY <1>7, <1>8, <1>13, <1>16, <1>17 DEF Holds, Opens, ParserFields

\* What it uses of the data of a file.
LEMMA PayloadTakes ==
  ASSUME NEW p, NEW u, NEW n \in Nat, n > 1, Holds(p, "payload", <<u>>), p.left = n
  PROVE  Holds(FeedStep(p), "payload", <<>>) /\ FeedStep(p).left = n - 1 /\ Along(p, FeedStep(p), 1)
<1> DEFINE c == SubSeq(p.carry, 2, Len(p.carry))
           o == p.out \o SubSeq(p.carry, 1, 1)
<1>1. Len(p.carry) = 1 /\ c = <<>> /\ FeedStep(p) = StepPayload(p)
  <2>1. FeedStep(p) = StepPayload(p)
    BY PayloadSteps
  <2> QED
    BY <2>1 DEF Holds
<1>2. StepPayload(p) = [Consume(p, 1) EXCEPT !.left = @ - 1, !.out = @ \o SubSeq(p.carry, 1, 1)]
  BY <1>1 DEF StepPayload, Holds
<1>3. Consume(p, 1) = [p EXCEPT !.carry = c, !.off = @ + 1]
  BY DEF Consume
<1> HIDE DEF c
<1>4. FeedStep(p) = [p EXCEPT !.carry = c, !.off = @ + 1, !.left = @ - 1, !.out = o]
  BY ZenonT(60), <1>1, <1>2, <1>3 DEF Holds, ParserFields
<1> HIDE DEF o
<1> QED
  BY <1>1, <1>4 DEF Holds, Along, ParserFields

LEMMA FinishTakes ==
  ASSUME NEW p, NEW s, Holds(p, s, <<>>)
  PROVE  Holds(FinishPayload(p), "dir", <<>>) /\ Along(p, FinishPayload(p), 0)
<1> DEFINE w == IF Reads(p) THEN p.want \ {p.path} ELSE p.want
           x == IF Reads(p) THEN Put(p.found, p.path, p.out) ELSE p.found
<1>1. FinishPayload(p) = [p EXCEPT !.state = "dir", !.want = w, !.found = x]
  BY DEF FinishPayload
<1> HIDE DEF w, x
<1> QED
  BY <1>1 DEF Holds, Along, ParserFields

LEMMA PayloadEnds ==
  ASSUME NEW p, NEW u, Holds(p, "payload", <<u>>), p.left = 1
  PROVE  Holds(FeedStep(p), "dir", <<>>) /\ Along(p, FeedStep(p), 1)
<1> DEFINE c == SubSeq(p.carry, 2, Len(p.carry))
           o == p.out \o SubSeq(p.carry, 1, 1)
           q == [p EXCEPT !.carry = c, !.off = @ + 1, !.left = @ - 1, !.out = o]
<1>1. Len(p.carry) = 1 /\ c = <<>> /\ FeedStep(p) = StepPayload(p)
  <2>1. FeedStep(p) = StepPayload(p)
    BY PayloadSteps
  <2> QED
    BY <2>1 DEF Holds
<1>2. StepPayload(p)
        = FinishPayload([Consume(p, 1) EXCEPT !.left = @ - 1, !.out = @ \o SubSeq(p.carry, 1, 1)])
  BY <1>1 DEF StepPayload, Holds
<1>3. Consume(p, 1) = [p EXCEPT !.carry = c, !.off = @ + 1]
  BY DEF Consume
<1> HIDE DEF c
<1>4. FeedStep(p) = FinishPayload(q)
  BY <1>1, <1>2, <1>3 DEF Holds, ParserFields
<1> HIDE DEF o
<1>5. Holds(q, "payload", <<>>) /\ Along(p, q, 1)
  BY <1>1 DEF Holds, Along, ParserFields
<1> HIDE DEF q
<1>6. Holds(FinishPayload(q), "dir", <<>>) /\ Along(q, FinishPayload(q), 0)
  BY <1>5, FinishTakes
<1> QED
  BY <1>4, <1>5, <1>6 DEF Along, Holds

LEMMA PayloadEmpty ==
  ASSUME NEW p, Holds(p, "payload", <<>>), p.left = 0
  PROVE  Holds(FeedStep(p), "dir", <<>>) /\ Along(p, FeedStep(p), 0)
<1> DEFINE c == SubSeq(p.carry, 1, Len(p.carry))
           o == p.out \o SubSeq(p.carry, 1, 0)
           q == [p EXCEPT !.carry = c, !.off = @ + 0, !.left = @ - 0, !.out = o]
<1>1. Len(p.carry) = 0 /\ c = <<>> /\ FeedStep(p) = StepPayload(p)
  <2>1. FeedStep(p) = StepPayload(p)
    BY PayloadSteps
  <2> QED
    BY <2>1 DEF Holds
<1>2. StepPayload(p)
        = FinishPayload([Consume(p, 0) EXCEPT !.left = @ - 0, !.out = @ \o SubSeq(p.carry, 1, 0)])
  BY <1>1 DEF StepPayload, Holds
<1>3. Consume(p, 0) = [p EXCEPT !.carry = c, !.off = @ + 0]
  BY DEF Consume
<1> HIDE DEF c
<1>4. FeedStep(p) = FinishPayload(q)
  BY <1>1, <1>2, <1>3 DEF Holds, ParserFields
<1> HIDE DEF o
<1>5. Holds(q, "payload", <<>>) /\ Along(p, q, 0)
  BY <1>1 DEF Holds, Along, ParserFields
<1> HIDE DEF q
<1>6. Holds(FinishPayload(q), "dir", <<>>) /\ Along(q, FinishPayload(q), 0)
  BY <1>5, FinishTakes
<1> QED
  BY <1>4, <1>5, <1>6 DEF Along, Holds

\* The recorder as feed starts with it.
Given(p, units) == [p EXCEPT !.carry = @ \o units, !.go = ~p.bad]

\* Feed makes step after step; three are enough for what is written at once.
LEMMA FeedIs ==
  ASSUME NEW p, NEW units, Len(p.carry) \in Nat, Len(units) \in Nat \ {0},
         NEW x, x = Given(p, units),
         FeedStep(FeedStep(FeedStep(FeedStep(x)))) = FeedStep(FeedStep(FeedStep(x)))
  PROVE  Feed(p, units) = FeedStep(FeedStep(FeedStep(x)))
<1> DEFINE steps == 2 * (Len(p.carry) + Len(units)) + 2
           a == FeedStep(x)
           b == FeedStep(a)
           c == FeedStep(b)
           After == CHOOSE g : g = [n \in 0..steps |-> IF n = 0 THEN x ELSE FeedStep(g[n - 1])]
           h == [n \in 0..steps |-> IF n = 0 THEN x ELSE IF n = 1 THEN a ELSE IF n = 2 THEN b ELSE c]
<1>1. Feed(p, units) = After[steps]
  BY DEF Feed, Given
<1>2. steps \in Nat /\ steps >= 3
  OBVIOUS
<1>3. FeedStep(c) = c
  OBVIOUS
<1> HIDE DEF steps
<1> DEFINE G(g) == [n \in 0..steps |-> IF n = 0 THEN x ELSE FeedStep(g[n - 1])]
<1>4. h = G(h)
  <2>1. ASSUME NEW n \in 0..steps
        PROVE  h[n] = IF n = 0 THEN x ELSE FeedStep(h[n - 1])
    <3>1. CASE n \in {0, 1, 2, 3}
      <4> HIDE DEF c, b, a
      <4> QED
        BY <1>2, <3>1 DEF a, b, c
    <3>2. CASE n > 3
      <4>1. h[n - 1] = c /\ h[n] = c
        BY <1>2, <3>2
      <4> QED
        BY <1>3, <3>2, <4>1
    <3> QED
      BY <1>2, <3>1, <3>2
  <2> HIDE DEF h
  <2>2. h = [n \in 0..steps |-> h[n]]
    BY DEF h
  <2> QED
    BY <2>1, <2>2
<1>5. After = G(After)
  <2> HIDE DEF h
  <2> QED
    BY <1>4
<1> HIDE DEF After
<1>6. \A n \in 0..steps : After[n] = IF n = 0 THEN x ELSE FeedStep(After[n - 1])
  BY <1>5
<1> HIDE DEF G, h
<1>7. After[0] = x
  BY <1>2, <1>6
<1>8. After[1] = a
  BY <1>2, <1>6, <1>7
<1>9. After[2] = b
  BY <1>2, <1>6, <1>8
<1>10. After[3] = c
  BY <1>2, <1>6, <1>9
<1> HIDE DEF a, b, c
<1> DEFINE T == {n \in Nat : n >= 3 => After[n] = c}
<1>11. ASSUME NEW n \in 0..steps, n \in T, n < steps
       PROVE  n + 1 \in T
  <2> DEFINE m == n + 1
  <2>1. m \in 0..steps /\ m \in Nat /\ n \in Nat /\ m # 0 /\ m - 1 = n
    BY <1>2, <1>11
  <2>2. n >= 3 => After[n] = c
    BY <1>11
  <2>3. m >= 3 => n = 2 \/ n >= 3
    BY <2>1
  <2> HIDE DEF m
  <2>4. After[m] = FeedStep(After[n])
    BY <1>6, <2>1
  <2>5. m >= 3 => After[m] = c
    <3>1. n = 2 => After[m] = c
      <4>1. n = 2 => m = 3
        BY DEF m
      <4> QED
        BY <1>10, <4>1
    <3> QED
      BY <1>3, <2>2, <2>3, <2>4, <3>1
  <2>6. m \in T
    BY <2>1, <2>5
  <2> QED
    BY <2>6 DEF m
<1>12. 0 \in T
  OBVIOUS
<1> HIDE DEF T
<1>13. \A n \in 0..steps : n \in T
  BY <1>2, <1>11, <1>12, NatSteps
<1>14. After[steps] = c
  BY <1>2, <1>13 DEF T
<1> QED
  BY <1>1, <1>14 DEF a, b, c

LEMMA FeedThrice ==
  ASSUME NEW p, NEW units, p.carry = <<>>, Len(units) \in 1..3,
         NEW z, z = FeedStep(FeedStep(FeedStep(Given(p, units)))), z.go = FALSE
  PROVE  Feed(p, units) = z
<1> DEFINE x == Given(p, units)
<1>1. x = Given(p, units)
  OBVIOUS
<1>2. Len(p.carry) = 0 /\ 0 \in Nat /\ Len(units) \in Nat \ {0}
  BY SMTT(30)
<1> HIDE DEF x
<1>3. z = FeedStep(FeedStep(FeedStep(x))) /\ FeedStep(z) = z
  BY RestStays DEF x
<1>4. FeedStep(FeedStep(FeedStep(FeedStep(x)))) = FeedStep(FeedStep(FeedStep(x)))
  BY <1>3
<1>5. Len(p.carry) \in Nat
  BY <1>2
<1>6. Feed(p, units) = FeedStep(FeedStep(FeedStep(x)))
  BY <1>1, <1>2, <1>4, <1>5, FeedIs
<1> QED
  BY <1>3, <1>6

LEMMA FeedTwice ==
  ASSUME NEW p, NEW units, p.carry = <<>>, Len(units) \in 1..3,
         NEW y, y = FeedStep(Given(p, units)), NEW z, z = FeedStep(y), z.go = FALSE
  PROVE  Feed(p, units) = z
<1>1. z = FeedStep(z)
  BY RestStays
<1> QED
  BY <1>1, FeedThrice

LEMMA FeedOnce ==
  ASSUME NEW p, NEW units, p.carry = <<>>, Len(units) \in 1..3,
         NEW y, y = FeedStep(Given(p, units)), y.go = FALSE
  PROVE  Feed(p, units) = y
<1>1. y = FeedStep(y)
  BY RestStays
<1> QED
  BY <1>1, FeedTwice

LEMMA GivenBetween ==
  ASSUME NEW p, Between(p), NEW units, units \in Seq(ToSet(units))
  PROVE  Holds(Given(p, units), p.state, units) /\ p.carry = <<>> /\ Along(p, Given(p, units), 0)
<1>1. <<>> \o units = units
  OBVIOUS
<1> DEFINE g == Given(p, units)
<1>2. g = [p EXCEPT !.carry = units, !.go = ~p.bad]
  BY <1>1 DEF Between, Given, ParserFields
<1>3. /\ DOMAIN g = ParserFields /\ g.recorder = p.recorder /\ g.bad = p.bad /\ g.go = ~p.bad
      /\ g.state = p.state /\ g.carry = units /\ g.off = p.off /\ g.stack = p.stack
      /\ g.index = p.index
  BY <1>2 DEF Between, ParserFields
<1> HIDE DEF g
<1>5. p.off = p.off + 0 /\ p.off \in Nat
  BY DEF Between
<1>6. ~p.bad /\ p.carry = <<>> /\ g.go = TRUE
  BY <1>3 DEF Between
<1>4. Holds(g, p.state, units) /\ Along(p, g, 0)
  BY <1>3, <1>5, <1>6 DEF Between, Holds, Along
<1> QED
  BY <1>4, <1>6 DEF g

LEMMA GivenInside ==
  ASSUME NEW p, NEW n, Inside(p, n), NEW units, units \in Seq(ToSet(units))
  PROVE  /\ Holds(Given(p, units), "payload", units) /\ p.carry = <<>> /\ Given(p, units).left = n
         /\ Along(p, Given(p, units), 0)
<1>1. <<>> \o units = units
  OBVIOUS
<1> DEFINE g == Given(p, units)
<1>2. g = [p EXCEPT !.carry = units, !.go = ~p.bad]
  BY <1>1 DEF Inside, Given, ParserFields
<1>3. /\ DOMAIN g = ParserFields /\ g.recorder = p.recorder /\ g.bad = p.bad /\ g.go = ~p.bad
      /\ g.state = p.state /\ g.carry = units /\ g.off = p.off /\ g.stack = p.stack
      /\ g.index = p.index /\ g.left = p.left
  BY <1>2 DEF Inside, ParserFields
<1> HIDE DEF g
<1>5. p.off = p.off + 0 /\ p.off \in Nat
  BY DEF Inside
<1>6. ~p.bad /\ p.carry = <<>> /\ g.go = TRUE
  BY <1>3 DEF Inside
<1>4. Holds(g, "payload", units) /\ Along(p, g, 0) /\ g.left = n
  BY <1>3, <1>5, <1>6 DEF Inside, Holds, Along
<1> QED
  BY <1>4, <1>6 DEF g

\* A list of one, two or three units.
LEMMA FewUnits ==
  ASSUME NEW a, NEW b, NEW c
  PROVE  /\ <<a>> \in Seq(ToSet(<<a>>)) /\ <<a, b>> \in Seq(ToSet(<<a, b>>))
         /\ <<a, b, c>> \in Seq(ToSet(<<a, b, c>>))
BY DEF ToSet

LEMMA KindsDiffer ==
  ASSUME NEW f, NEW n, NEW d, NEW v
  PROVE  /\ Named(d) # DirEntry /\ Goodbye # DirEntry /\ Data(f, v) # DirEntry
         /\ DirEntry[1] \notin {"goodbye", "name"} /\ Data(f, v)[1] \notin {"goodbye", "name"}
<1>1. /\ Named(d)[1] = "name" /\ Goodbye[1] = "goodbye" /\ Data(f, v)[1] = "data"
      /\ DirEntry[1] = "entry"
  BY DEF Named, Goodbye, Data, DirEntry
<1> QED
  BY <1>1

\* One unit, and then nothing.
LEMMA FedOneUnit ==
  ASSUME NEW p, Between(p), NEW u, u \in {DirEntry, Goodbye}
  PROVE  LET q == Feed(p, <<u>>)
         IN  q.bad = TRUE \/ (Between(q) /\ IF u = DirEntry THEN Along(p, q, 1) ELSE GoesUp(p, q))
<1> DEFINE x == Given(p, <<u>>)
           y == FeedStep(x)
           q == Feed(p, <<u>>)
<1>1. /\ p.carry = <<>> /\ Holds(x, p.state, <<u>>) /\ p.state \in {"root", "dir"}
      /\ Along(p, x, 0) /\ p.off \in Nat
  BY GivenBetween, FewUnits DEF Between
<1> HIDE DEF x
<1>2. Len(<<u>>) = 1 /\ <<u>>[1] = u
  OBVIOUS
<1>6. DirEntry # Goodbye
  BY KindsDiffer
<1>3. Refused(y) \/ (Holds(y, "dir", <<>>) /\ IF u = DirEntry THEN Along(x, y, 1) ELSE GoesUp(x, y))
  <2>1. CASE p.state = "root" /\ u = DirEntry
    BY <1>1, <2>1, RootTakes
  <2>2. CASE p.state = "root" /\ u = Goodbye
    BY <1>1, <1>2, <2>2, RootRefuses, KindsDiffer
  <2>3. CASE p.state = "dir" /\ u = DirEntry
    BY SMTT(30), <1>1, <1>2, <2>3, DirRefuses, KindsDiffer
  <2>4. CASE p.state = "dir" /\ u = Goodbye
    BY <1>1, <1>6, <2>4, DirLeaves
  <2> QED
    BY <1>1, <2>1, <2>2, <2>3, <2>4
<1> HIDE DEF y
<1>4. CASE Refused(y)
  <2>1. q = y
    <3>1. y = FeedStep(x) /\ y.go = FALSE /\ Len(<<u>>) \in 1..3
      BY <1>2, <1>4 DEF Refused, y
    <3> QED
      BY <1>1, <3>1, FeedOnce DEF x
  <2> QED
    BY <1>4, <2>1 DEF Refused
<1>5. CASE Holds(y, "dir", <<>>) /\ IF u = DirEntry THEN Along(x, y, 1) ELSE GoesUp(x, y)
  <2>1. Between(FeedStep(y)) /\ FeedStep(y).go = FALSE /\ Along(y, FeedStep(y), 0)
    BY <1>5, EntryWaits
  <2>2. q = FeedStep(y)
    <3>1. y = FeedStep(x) /\ Len(<<u>>) \in 1..3
      BY <1>2 DEF y
    <3> QED
      BY <1>1, <2>1, <3>1, FeedTwice DEF x
  <2> QED
    BY <1>1, <1>5, <2>1, <2>2 DEF Along, GoesUp
<1> QED
  BY <1>3, <1>4, <1>5

LEMMA FedDirHeader ==
  ASSUME NEW p, Between(p), NEW d
  PROVE  LET q == Feed(p, <<Named(d), DirEntry>>) IN q.bad = TRUE \/ (Between(q) /\ GoesDown(p, q, d))
<1> DEFINE units == <<Named(d), DirEntry>>
           x == Given(p, units)
           y == FeedStep(x)
           q == Feed(p, units)
<1>1. /\ p.carry = <<>> /\ Holds(x, p.state, units) /\ p.state \in {"root", "dir"}
      /\ Along(p, x, 0) /\ p.off \in Nat
  BY GivenBetween, FewUnits DEF Between
<1> HIDE DEF x
<1>2. Len(units) = 2 /\ units[1] = Named(d)
  OBVIOUS
<1>3. Refused(y) \/ (Holds(y, "dir", <<>>) /\ GoesDown(x, y, d))
  <2>1. CASE p.state = "root"
    <3>1. units[1] # DirEntry /\ Len(units) >= 1
      BY <1>2, KindsDiffer
    <3> HIDE DEF units
    <3> QED
      BY <1>1, <2>1, <3>1, RootRefuses
  <2>2. CASE p.state = "dir"
    BY <1>1, <2>2, DirEnters
  <2> QED
    BY <1>1, <2>1, <2>2
<1> HIDE DEF y, units
<1>4. CASE Refused(y)
  <2>1. q = y
    <3>1. y = FeedStep(x) /\ y.go = FALSE /\ Len(units) \in 1..3
      BY <1>2, <1>4 DEF Refused, y
    <3> QED
      BY <1>1, <3>1, FeedOnce DEF x
  <2> QED
    BY <1>4, <2>1 DEF Refused, units
<1>5. CASE Holds(y, "dir", <<>>) /\ GoesDown(x, y, d)
  <2>1. Between(FeedStep(y)) /\ FeedStep(y).go = FALSE /\ Along(y, FeedStep(y), 0)
    BY <1>5, EntryWaits
  <2>2. q = FeedStep(y)
    <3>1. y = FeedStep(x) /\ Len(units) \in 1..3
      BY <1>2 DEF y
    <3> QED
      BY <1>1, <2>1, <3>1, FeedTwice DEF x
  <2>3. CurrentPath(x) = CurrentPath(p)
    BY <1>1 DEF CurrentPath, Along
  <2>4. GoesDown(p, q, d)
    <3> HIDE DEF q
    <3> QED
      BY <1>1, <1>5, <2>1, <2>2, <2>3 DEF Along, GoesDown
  <2> QED
    BY <2>1, <2>2, <2>4 DEF units
<1> QED
  BY <1>3, <1>4, <1>5

\* Where a recorder stands that has n units of a file before it.
Standing(p, n) == IF n = 0 THEN Between(p) ELSE Inside(p, n)

LEMMA FedFileHeader ==
  ASSUME NEW p, Between(p), NEW f, NEW n \in Nat
  PROVE  LET q == Feed(p, FileHeader(f, n)) IN q.bad = TRUE \/ (Standing(q, n) /\ Opens(p, q, f, n))
<1> DEFINE units == FileHeader(f, n)
           x == Given(p, units)
           y == FeedStep(x)
           q == Feed(p, units)
<1>2. Len(units) = 3 /\ units[1] = Named(f) /\ units \in Seq(ToSet(units))
  BY FewUnits DEF FileHeader
<1> HIDE DEF units
<1>1. /\ p.carry = <<>> /\ Holds(x, p.state, units) /\ p.state \in {"root", "dir"}
      /\ Along(p, x, 0) /\ p.off \in Nat
  BY <1>2, GivenBetween DEF Between
<1> HIDE DEF x
<1>3. Refused(y) \/ (Holds(y, "payload", <<>>) /\ y.left = n /\ Opens(x, y, f, n))
  <2>1. CASE p.state = "root"
    BY <1>1, <1>2, <2>1, RootRefuses, KindsDiffer
  <2>2. CASE p.state = "dir"
    BY <1>1, <2>2, DirOpens DEF units
  <2> QED
    BY <1>1, <2>1, <2>2
<1> HIDE DEF y
<1>7. ASSUME NEW z, Opens(x, y, f, n), Along(y, z, 0)
      PROVE  Opens(p, z, f, n)
  <2>1. CurrentPath(x) = CurrentPath(p)
    BY <1>1 DEF CurrentPath, Along
  <2>2. x.off = p.off /\ x.off + 3 = (x.off + 3) + 0
    BY <1>1 DEF Along
  <2> QED
    BY <1>1, <1>7, <2>1, <2>2 DEF Along, Opens
<1>4. CASE Refused(y)
  <2>1. q = y
    <3>1. y = FeedStep(x) /\ y.go = FALSE /\ Len(units) \in 1..3
      BY <1>2, <1>4 DEF Refused, y
    <3> QED
      BY <1>1, <3>1, FeedOnce DEF x
  <2> QED
    BY <1>4, <2>1 DEF Refused, units
<1>5. CASE Holds(y, "payload", <<>>) /\ y.left = n /\ Opens(x, y, f, n) /\ n # 0
  <2>3. n \in Nat \ {0} /\ y.left = n /\ Holds(y, "payload", <<>>)
    BY <1>5
  <2>1. Inside(FeedStep(y), n) /\ FeedStep(y).go = FALSE /\ Along(y, FeedStep(y), 0)
    BY <2>3, PayloadWaits
  <2>2. q = FeedStep(y)
    <3>1. y = FeedStep(x) /\ Len(units) \in 1..3
      BY <1>2 DEF y
    <3> QED
      BY <1>1, <2>1, <3>1, FeedTwice DEF x
  <2> QED
    BY <1>5, <1>7, <2>1, <2>2 DEF units, Standing
<1>6. CASE Holds(y, "payload", <<>>) /\ y.left = n /\ Opens(x, y, f, n) /\ n = 0
  <2> DEFINE z == FeedStep(y)
  <2>1. Holds(z, "dir", <<>>) /\ Along(y, z, 0)
    BY <1>6, PayloadEmpty
  <2>2. /\ Between(FeedStep(z)) /\ FeedStep(z).go = FALSE /\ Along(z, FeedStep(z), 0)
        /\ Along(y, FeedStep(z), 0)
    <3>1. Between(FeedStep(z)) /\ FeedStep(z).go = FALSE /\ Along(z, FeedStep(z), 0)
      BY <2>1, EntryWaits
    <3> QED
      BY <1>6, <2>1, <3>1 DEF Along, Holds
  <2>3. q = FeedStep(z)
    <3>1. FeedStep(z) = FeedStep(FeedStep(FeedStep(x))) /\ Len(units) \in 1..3
      BY <1>2 DEF y
    <3> QED
      BY <1>1, <2>2, <3>1, FeedThrice DEF x
  <2> QED
    BY <1>6, <1>7, <2>2, <2>3 DEF units, Standing
<1> QED
  BY <1>3, <1>4, <1>5, <1>6

\* A unit of data is taken inside a file, and refused between two entries.
LEMMA FedData ==
  ASSUME NEW p, NEW n \in Nat, Standing(p, n), NEW f, NEW v
  PROVE  LET q == Feed(p, <<Data(f, v)>>)
         IN  IF n = 0 THEN q.bad = TRUE ELSE Standing(q, n - 1) /\ Along(p, q, 1)
<1> DEFINE u == Data(f, v)
           x == Given(p, <<u>>)
           y == FeedStep(x)
           q == Feed(p, <<u>>)
<1>2. Len(<<u>>) = 1 /\ <<u>>[1] = u
  OBVIOUS
<1>3. CASE n = 0
  <2>1. p.carry = <<>> /\ Holds(x, p.state, <<u>>) /\ p.state \in {"root", "dir"}
    BY <1>3, GivenBetween, FewUnits DEF Between, Standing
  <2> HIDE DEF x
  <2>2. Refused(y)
    <3>1. CASE p.state = "root"
      <4>1. u # DirEntry
        BY KindsDiffer
      <4> HIDE DEF u
      <4> QED
        BY <1>2, <2>1, <3>1, <4>1, RootRefuses
    <3>2. CASE p.state = "dir"
      <4>1. u[1] \notin {"goodbye", "name"}
        BY KindsDiffer
      <4> HIDE DEF u
      <4> QED
        BY <1>2, <2>1, <3>2, <4>1, DirRefuses
    <3> QED
      BY <2>1, <3>1, <3>2
  <2> HIDE DEF y, u
  <2>3. q = y
    <3>1. y = FeedStep(x) /\ y.go = FALSE /\ Len(<<u>>) \in 1..3
      BY <1>2, <2>2 DEF Refused, y
    <3> QED
      BY <2>1, <3>1, FeedOnce DEF x
  <2> QED
    BY <1>3, <2>2, <2>3 DEF Refused, u
<1>4. CASE n # 0
  <2> HIDE DEF u
  <2>1. /\ p.carry = <<>> /\ Holds(x, "payload", <<u>>) /\ x.left = n
        /\ Along(p, x, 0) /\ p.off \in Nat
    BY <1>4, GivenInside, FewUnits DEF Inside, Standing
  <2> HIDE DEF x
  <2>2. CASE n = 1
    <3>1. Holds(y, "dir", <<>>) /\ Along(x, y, 1)
      BY <2>1, <2>2, PayloadEnds
    <3>2. Between(FeedStep(y)) /\ FeedStep(y).go = FALSE /\ Along(y, FeedStep(y), 0)
      BY <3>1, EntryWaits
    <3>3. q = FeedStep(y)
      <4>1. y = FeedStep(x) /\ Len(<<u>>) \in 1..3
        BY <1>2 DEF y
      <4> QED
        BY <2>1, <3>2, <4>1, FeedTwice DEF x
    <3> QED
      BY <2>1, <2>2, <3>1, <3>2, <3>3 DEF u, Standing, Along, Between
  <2>3. CASE n > 1
    <3>1. /\ Holds(y, "payload", <<>>) /\ y.left = n - 1 /\ n - 1 \in Nat \ {0}
          /\ Along(x, y, 1)
      BY <2>1, <2>3, PayloadTakes
    <3>2. Inside(FeedStep(y), n - 1) /\ FeedStep(y).go = FALSE /\ Along(y, FeedStep(y), 0)
      BY <3>1, PayloadWaits
    <3>3. q = FeedStep(y)
      <4>1. y = FeedStep(x) /\ Len(<<u>>) \in 1..3
        BY <1>2 DEF y
      <4> QED
        BY <2>1, <3>2, <4>1, FeedTwice DEF x
    <3> QED
      BY <1>4, <2>1, <3>1, <3>2, <3>3 DEF u, Standing, Along, Inside
  <2> QED
    BY <1>4, <2>2, <2>3
<1> QED
  BY <1>3, <1>4

\* The header of a reused file, whose data is passed over.
LEMMA FedReused ==
  ASSUME NEW p, Between(p), NEW f, NEW n \in Nat
  PROVE  LET q == FeedHeaderOnly(p, FileHeader(f, n)) IN q.bad = TRUE \/ Between(q)
<1> DEFINE q == Feed(p, FileHeader(f, n))
           s == [q EXCEPT !.off = @ + q.left, !.left = 0, !.state = "dir"]
<1>1. q.bad = TRUE \/ Standing(q, n)
  BY FedFileHeader
<1>2. FeedHeaderOnly(p, FileHeader(f, n)) = IF q.bad \/ q.state # "payload" THEN q ELSE s
  BY DEF FeedHeaderOnly
<1> HIDE DEF q
<1>3. Between(q) => q.state # "payload"
  BY DEF Between
<1>4. Inside(q, n) => Between(s) /\ q.bad = FALSE /\ q.state = "payload"
  BY DEF Inside, Between, ParserFields
<1> QED
  BY <1>1, <1>2, <1>3, <1>4 DEF Standing

-----------------------------------------------------------------------------
(* Nothing but the walk feeds the recorder. *)

LEMMA FlushKeepsRecorder ==
  ASSUME NEW r, Writable(r)
  PROVE  FlushPending(r).recorder = r.recorder
<1> DEFINE q == CommitChunk(r, r.current)
           as == Append(r.assigned, r.current)
           kn == r.known \cup {r.current}
           fl == r.flying \cup {r.current}
<1>1. q \in {[r EXCEPT !.assigned = as], [r EXCEPT !.err = TRUE],
             [r EXCEPT !.assigned = as, !.known = kn, !.flying = fl]}
  BY DEF CommitChunk
<1> HIDE DEF as, kn, fl
<1>2. q.recorder = r.recorder /\ DOMAIN q = RunFields
  <2> HIDE DEF q
  <2> QED
    BY <1>1 DEF Writable, RunFields
<1> HIDE DEF q
<1>3. [q EXCEPT !.current = <<>>].recorder = r.recorder
  BY <1>2 DEF RunFields
<1> QED
  BY <1>3 DEF FlushPending, q

LEMMA UnitKeepsRecorder ==
  ASSUME NEW q, Writable(q), NEW units, NEW k
  PROVE  Unit(q, units, k).recorder = q.recorder
<1> DEFINE full == [q EXCEPT !.current = Append(@, units[k])]
<1>1. Unit(q, units, k) \in {q, FlushPending(full), full}
  BY DEF Unit
<1>2. Writable(full) /\ full.recorder = q.recorder
  BY DEF Writable, RunFields
<1> HIDE DEF full
<1> QED
  BY <1>1, <1>2, FlushKeepsRecorder

LEMMA DataKeepsRecorder ==
  ASSUME NEW r, Writable(r), NEW units
  PROVE  HandleData(r, units).recorder = r.recorder
<1> DEFINE one == Unit(r, units, 1)
           two == Unit(one, units, 2)
           three == Unit(two, units, 3)
<1>1. HandleData(r, units) = IF r.cancelled THEN [r EXCEPT !.err = TRUE] ELSE three
  BY DEF HandleData, Unit
<1>2. Writable(one) /\ one.recorder = r.recorder
  BY UnitWrites, UnitKeepsRecorder DEF Wrote, Writable
<1> HIDE DEF one
<1>3. Writable(two) /\ two.recorder = r.recorder
  BY <1>2, UnitWrites, UnitKeepsRecorder DEF Wrote, Writable
<1> HIDE DEF two
<1>4. three.recorder = r.recorder
  BY <1>3, UnitKeepsRecorder
<1> HIDE DEF three
<1>5. [r EXCEPT !.err = TRUE].recorder = r.recorder
  BY DEF Writable, RunFields
<1> QED
  BY <1>1, <1>4, <1>5

\* What is written without an error went through the recorder, which took it.
LEMMA EmitFeeds ==
  ASSUME NEW r, Writable(r), NEW units
  PROVE  LET e == Emit(r, units)
             q == Feed(r.recorder, units)
         IN  e.err \/ (~r.err /\ ~q.bad /\ e.recorder = q)
<1> DEFINE q == Feed(r.recorder, units)
           w == r.written + Len(units)
           s == [r EXCEPT !.recorder = q, !.written = w]
           b == [r EXCEPT !.err = TRUE, !.recorder = q]
           e == Emit(r, units)
<1> HIDE DEF q
<1>1. e = CASE r.err -> r
            [] ~r.err /\ q.bad -> b
            [] OTHER -> HandleData(s, units)
  <2>1. [r EXCEPT !.recorder = q, !.written = @ + Len(units)] = s
    BY DEF Writable, RunFields
  <2> QED
    BY <2>1 DEF Emit, q
<1> HIDE DEF w
<1>2. Writable(s) /\ s.recorder = q /\ b.err = TRUE
  BY DEF Writable, RunFields
<1> HIDE DEF s, b
<1>3. HandleData(s, units).recorder = q
  BY <1>2, DataKeepsRecorder
<1>4. CASE r.err
  <2>1. e = r
    BY <1>1, <1>4
  <2> HIDE DEF e
  <2> QED
    BY <1>4, <2>1 DEF e
<1>5. CASE ~r.err /\ q.bad
  <2>1. e = b
    BY <1>1, <1>5
  <2> HIDE DEF e
  <2>2. e.err
    BY <1>2, <2>1
  <2> QED
    BY <2>2 DEF e
<1>6. CASE ~r.err /\ ~q.bad
  <2>1. e = HandleData(s, units)
    BY <1>1, <1>6
  <2> HIDE DEF e
  <2>2. e.recorder = q
    BY <1>3, <2>1
  <2> QED
    BY <1>6, <2>2 DEF e, q
<1> QED
  BY <1>4, <1>5, <1>6

LEMMA ReuseFeeds ==
  ASSUME NEW r, Writable(r), NEW f, NEW n, NEW spans, SpansTyped(spans)
  PROVE  LET e == EmitReused(r, f, n, spans)
             q == FeedHeaderOnly(r.recorder, FileHeader(f, n))
         IN  e.err \/ (~r.err /\ ~q.bad /\ e.recorder = q)
<1> DEFINE header == FileHeader(f, n)
           q == FeedHeaderOnly(r.recorder, header)
           s == [r EXCEPT !.recorder = q]
           h == HandleData(s, header)
           g == FlushPending(h)
           all == ReuseChunks(g, spans)
           w == all.written + Len(header) + SumLen(spans)
           done == [all EXCEPT !.written = w]
           b == [h EXCEPT !.err = TRUE]
           e == EmitReused(r, f, n, spans)
<1>0. e = CASE r.err -> r
            [] ~r.err /\ (q.bad \/ h.err \/ g.err) -> b
            [] OTHER -> [all EXCEPT !.written = @ + Len(header) + SumLen(spans)]
  BY DEF EmitReused
<1> HIDE DEF header, q
<1>1. Writable(s) /\ s.recorder = q
  BY DEF Writable, RunFields
<1> HIDE DEF s
<1>2. Writable(h) /\ h.recorder = q
  BY <1>1, DataKeepsRecorder, DataWrites DEF Wrote, Writable
<1> HIDE DEF h
<1>3. Writable(g) /\ g.recorder = q
  BY <1>2, FlushKeepsRecorder, FlushWrites DEF Wrote, Writable
<1> HIDE DEF g
<1>4. all.recorder = q /\ Writable(all)
  <2> DEFINE as == g.assigned \o [i \in DOMAIN spans |-> spans[i].chunk]
             kn == g.known \cup {spans[i].chunk : i \in DOMAIN spans}
  <2>1. all = [g EXCEPT !.assigned = as, !.known = kn]
    BY <1>3 DEF ReuseChunks, Writable, RunFields
  <2>2. Writable(all)
    BY <1>3, ReuseWrites DEF Wrote, Writable
  <2> HIDE DEF all, as, kn
  <2> QED
    BY <1>3, <2>1, <2>2 DEF Writable, RunFields
<1> HIDE DEF all
<1>5. [all EXCEPT !.written = @ + Len(header) + SumLen(spans)] = done
  BY <1>4 DEF Writable, RunFields
<1> HIDE DEF w
<1>6. done.recorder = q /\ b.err = TRUE
  BY <1>2, <1>4 DEF Writable, RunFields
<1> HIDE DEF done, b
<1>7. CASE r.err
  <2>1. e = r
    BY <1>0, <1>7
  <2> HIDE DEF e
  <2> QED
    BY <1>7, <2>1 DEF e
<1>8. CASE ~r.err /\ (q.bad \/ h.err \/ g.err)
  <2>1. e = b
    BY <1>0, <1>8
  <2> HIDE DEF e
  <2>2. e.err
    BY <1>6, <2>1
  <2> QED
    BY <2>2 DEF e
<1>9. CASE ~r.err /\ ~(q.bad \/ h.err \/ g.err)
  <2>1. e = done
    BY <1>0, <1>5, <1>9
  <2> HIDE DEF e
  <2>2. e.recorder = q
    BY <1>6, <2>1
  <2> QED
    BY <1>9, <2>2 DEF e, q, header
<1> QED
  BY <1>7, <1>8, <1>9

-----------------------------------------------------------------------------
(* A file that grew does not get into a snapshot. *)

\* What GrownIsRefused says of one snapshot.
Refusal(marks) == "grown" \in marks => "short" \in marks

\* As long as no file shrank and nothing went wrong the recorder stands between two
\* entries, or has as many units of the file before it as are left of its size.
Sees(r) ==
  ~r.err /\ "short" \notin r.marks =>
    /\ r.pc = "walk" => Between(r.recorder)
    /\ r.pc = "read" =>
         /\ r.file \in Files /\ r.read \in Nat /\ r.stat.size \in Nat /\ r.read <= r.stat.size
         /\ Standing(r.recorder, r.stat.size - r.read)

Looks(r) ==
  /\ Refusal(r.marks) \/ r.pc = "failed" \/ (r.pc \in {"walk", "read"} /\ r.err)
  /\ Sees(r)

Watched ==
  /\ \A f \in Files : disk[f].size \in Nat
  /\ run # Idle => Looks(run)
  /\ GrownIsRefused

\* A run that differs in nothing the recorder is about.
Alike(r, q) ==
  /\ q.pc = r.pc /\ q.err = r.err /\ q.marks = r.marks /\ q.recorder = r.recorder
  /\ q.file = r.file /\ q.read = r.read /\ q.stat = r.stat

LEMMA LooksAlike ==
  ASSUME NEW r, NEW q, Looks(r), Alike(r, q)
  PROVE  Looks(q)
BY DEF Looks, Sees, Alike

LEMMA FurtherAlike ==
  ASSUME NEW r, Writable(r)
  PROVE  Alike(r, Further(r))
BY DEF Further, Alike, Writable, RunFields

\* Something is written between two entries.
LEMMA LooksOn ==
  ASSUME NEW r, NEW e, NEW extra, Looks(r), r.pc = "walk", Wrote(r, e, extra),
         e.err \/ (~r.err /\ (Between(r.recorder) => Between(e.recorder)))
  PROVE  Looks(e)
<1>1. e.pc = r.pc /\ e.marks = r.marks /\ (r.err => e.err)
  BY DEF Wrote, Kept
<1> QED
  BY <1>1 DEF Looks, Sees

LEMMA EmitsAndLooks ==
  ASSUME NEW units, RunTyped(run), Looks(run), run.pc = "walk",
         Between(run.recorder) =>
           LET q == Feed(run.recorder, units) IN q.bad = TRUE \/ Between(q)
  PROVE  Looks(Further(Emit(run, units)))
<1> DEFINE e == Emit(run, units)
           q == Feed(run.recorder, units)
<1>1. Wrote(run, e, {}) /\ Writable(e)
  BY EmitWrites DEF RunTyped, Wrote, Writable
<1>2. e.err \/ (~run.err /\ ~q.bad /\ e.recorder = q)
  BY EmitFeeds DEF RunTyped
<1> HIDE DEF e, q
<1>3. Between(run.recorder) => q.bad = TRUE \/ Between(q)
  BY DEF q
<1>4. Looks(e)
  BY <1>1, <1>2, <1>3, LooksOn
<1>5. Looks(Further(e))
  BY <1>1, <1>4, FurtherAlike, LooksAlike
<1> QED
  BY <1>5 DEF e

LEMMA LooksOpen ==
  ASSUME Shapes, Watched, OpenFile
  PROVE  Looks(run')
<1> DEFINE n == disk[Here].size
           st == [run.stats EXCEPT ![Here] = disk[Here]]
           r == [run EXCEPT !.begin = run.written, !.file = Here, !.stat = disk[Here],
                            !.stats = st, !.read = 0, !.pc = "read"]
           units == FileHeader(Here, n)
           q == Feed(r.recorder, units)
<1>1. RunTyped(run) /\ run # Idle /\ run.pc = "walk" /\ Here \in Files /\ n \in Nat
  BY RunThere, HereIsFile DEF OpenFile, Walks, Watched
<1>2. run' = Emit(r, units)
  BY <1>1 DEF OpenFile, RunTyped, Writable, RunFields
<1>3. Looks(run)
  BY <1>1 DEF Watched
<1> HIDE DEF st, units
<1>4. /\ Writable(r) /\ r.pc = "read" /\ r.marks = run.marks /\ r.recorder = run.recorder
      /\ r.err = run.err /\ r.file = Here /\ r.stat = disk[Here] /\ r.read = 0
  BY <1>1 DEF RunTyped, Writable, RunFields
<1> HIDE DEF r
<1>5. Wrote(r, run', {})
  BY <1>2, <1>4, EmitWrites
<1>6. run'.err \/ (~r.err /\ ~q.bad /\ run'.recorder = q)
  BY <1>2, <1>4, EmitFeeds
<1>7. Between(run.recorder) => q.bad = TRUE \/ Standing(q, n)
  BY <1>1, <1>4, FedFileHeader DEF units
<1> HIDE DEF q
<1>8. /\ run'.pc = "read" /\ run'.marks = run.marks /\ run'.file = Here /\ run'.read = 0
      /\ run'.stat.size = n /\ (run.err => run'.err)
  BY <1>4, <1>5 DEF Wrote, Kept
<1> HIDE DEF n
<1>9. n - 0 = n /\ 0 <= n
  BY <1>1
<1>10. Sees(run')
  BY <1>1, <1>3, <1>4, <1>6, <1>7, <1>8, <1>9 DEF Looks, Sees
<1> QED
  BY <1>1, <1>3, <1>8, <1>10 DEF Looks

LEMMA LooksRead ==
  ASSUME Shapes, Watched, ReadFile
  PROVE  Looks(run')
<1> DEFINE k == run.read + 1
           u == Body(run.file)[k]
           e == Emit(run, <<u>>)
           q == Feed(run.recorder, <<u>>)
           n == run.stat.size - run.read
<1>1. RunTyped(run) /\ run # Idle /\ run.pc = "read" /\ run.read < disk[run.file].size
  BY RunThere DEF ReadFile
<1>2. run' = [e EXCEPT !.read = @ + 1]
  BY DEF ReadFile
<1>3. Looks(run)
  BY <1>1 DEF Watched
<1>4. Wrote(run, e, {}) /\ (e.err \/ (~run.err /\ ~q.bad /\ e.recorder = q))
  BY <1>1, EmitWrites, EmitFeeds DEF RunTyped
<1>5. ASSUME ~run.err, "short" \notin run.marks
      PROVE  /\ run.file \in Files /\ run.read \in Nat /\ run.stat.size \in Nat
             /\ run.read <= run.stat.size
             /\ (q.bad = TRUE \/ (n # 0 /\ Standing(q, n - 1)))
  <2>1. /\ run.file \in Files /\ run.read \in Nat /\ run.stat.size \in Nat
        /\ run.read <= run.stat.size /\ Standing(run.recorder, n) /\ n \in Nat
    BY <1>1, <1>3, <1>5 DEF Looks, Sees
  <2>2. disk[run.file].size \in Nat
    BY <2>1 DEF Watched
  <2>3. u = Data(run.file, disk[run.file].ver)
    BY <1>1, <2>1, <2>2 DEF Body
  <2> HIDE DEF n, u
  <2>4. q.bad = TRUE \/ (n # 0 /\ Standing(q, n - 1))
    BY <2>1, <2>3, FedData
  <2> QED
    BY <2>1, <2>4
<1> HIDE DEF e, q, u
<1>6. /\ run'.pc = "read" /\ run'.marks = run.marks /\ run'.file = run.file /\ run'.err = e.err
      /\ run'.stat = run.stat /\ run'.recorder = e.recorder /\ run'.read = run.read + 1
      /\ (run.err => e.err)
  BY <1>1, <1>2, <1>4 DEF Wrote, Kept, RunFields
<1>7. Sees(run')
  <2> SUFFICES ASSUME ~run'.err, "short" \notin run'.marks
               PROVE  /\ run.file \in Files /\ run.read + 1 \in Nat /\ run.stat.size \in Nat
                      /\ run.read + 1 <= run.stat.size
                      /\ Standing(e.recorder, run.stat.size - (run.read + 1))
    BY <1>6 DEF Sees
  <2>1. ~run.err /\ "short" \notin run.marks /\ ~q.bad /\ e.recorder = q
    BY <1>4, <1>6
  <2>2. /\ run.file \in Files /\ run.read \in Nat /\ run.stat.size \in Nat
        /\ run.read <= run.stat.size /\ n # 0 /\ Standing(q, n - 1)
    BY <1>5, <2>1
  <2>3. run.read + 1 \in Nat /\ run.read + 1 <= run.stat.size
        /\ n - 1 = run.stat.size - (run.read + 1)
    BY <2>2
  <2> QED
    BY <2>1, <2>2, <2>3
<1> QED
  BY <1>3, <1>6, <1>7, <1>1 DEF Looks

LEMMA LooksClosed ==
  ASSUME RunTyped(run), Looks(run), run.pc = "read"
  PROVE  Looks(Closed(run))
<1> DEFINE r == RecordFile(run)
           w == Put(r.want, PathOf(run.file), [i \in 1..run.read |-> Data(run.file, run.stat.ver)])
           m == r.marks \cup (IF run.read < run.stat.size THEN {"short"} ELSE {})
                        \cup (IF run.read > run.stat.size THEN {"grown"} ELSE {})
                        \cup (IF disk[run.file].ver # run.stat.ver THEN {"changed"} ELSE {})
           t == Tail(r.todo)
           s == [r EXCEPT !.todo = t, !.pc = "walk", !.file = "", !.want = w, !.marks = m]
<1>1. DOMAIN r = RunFields /\ Alike(run, r)
  <2> DEFINE p == [ver |-> run.stat.ver, size |-> run.stat.size,
                   spans |-> Spans(run.assigned, run.begin, run.written),
                   len |-> run.written - run.begin]
             l == [run.live EXCEPT ![run.file] = p]
  <2>1. r = run \/ r = [run EXCEPT !.live = l]
    BY DEF RecordFile, RunTyped, Writable, RunFields
  <2> HIDE DEF r, l
  <2> QED
    BY <2>1 DEF Alike, RunTyped, Writable, RunFields
<1> HIDE DEF r
<1>2. Closed(run) = s
  BY <1>1 DEF Closed, Further, r, RunFields
<1>3. /\ "short" \in m <=> ("short" \in run.marks \/ run.read < run.stat.size)
      /\ "grown" \in m <=> ("grown" \in run.marks \/ run.read > run.stat.size)
  BY <1>1 DEF Alike
<1> HIDE DEF w, m, t
<1>4. s.pc = "walk" /\ s.marks = m /\ s.err = run.err /\ s.recorder = run.recorder
  BY <1>1 DEF Alike, RunFields
<1> HIDE DEF s
<1>5. ASSUME ~run.err, "short" \notin m
      PROVE  "grown" \notin m /\ Between(run.recorder)
  <2>1. /\ run.read \in Nat /\ run.stat.size \in Nat /\ run.read <= run.stat.size
        /\ Standing(run.recorder, run.stat.size - run.read) /\ "short" \notin run.marks
        /\ ~(run.read < run.stat.size)
    BY <1>3, <1>5 DEF Looks, Sees
  <2>2. run.stat.size - run.read = 0 /\ ~(run.read > run.stat.size)
    BY <2>1
  <2>3. "grown" \notin run.marks
    BY <1>5, <2>1 DEF Looks, Refusal
  <2> QED
    BY <1>3, <2>1, <2>2, <2>3 DEF Standing
<1> QED
  BY <1>2, <1>4, <1>5 DEF Looks, Sees, Refusal

LEMMA LooksReuse ==
  ASSUME Shapes, Watched, ReuseFile
  PROVE  Looks(run')
<1> DEFINE rec == run.prev[Here]
           n == rec.size
           r == EmitReused(run, Here, rec.size, rec.spans)
           live == [r.live EXCEPT ![Here] = rec]
           marks == r.marks \cup {"reused"}
           stats == [r.stats EXCEPT ![Here] = disk[Here]]
           want == Put(r.want, PathOf(Here), Body(Here))
           p == [r EXCEPT !.live = live, !.marks = marks, !.stats = stats, !.want = want]
           q == FeedHeaderOnly(run.recorder, FileHeader(Here, n))
<1>1. RunTyped(run) /\ run # Idle /\ run.pc = "walk" /\ Here \in Files
  BY RunThere, HereIsFile DEF ReuseFile, Walks
<1>2. n \in Nat /\ SpansTyped(rec.spans)
  <2>1. n = disk[Here].size
    BY DEF ReuseFile, CanReuse
  <2>2. disk[Here].size \in Nat
    BY <1>1 DEF Watched
  <2> QED
    BY <1>1, <2>1, <2>2 DEF RunTyped, RecordsTyped
<1>3. Wrote(run, r, Reached(rec.spans))
  BY <1>1, <1>2, EmitReusedWrites DEF RunTyped
<1>4. r.err \/ (~run.err /\ ~q.bad /\ r.recorder = q)
  BY <1>1, <1>2, ReuseFeeds DEF RunTyped
<1>5. run' = Further(p)
  BY <1>3 DEF ReuseFile, Wrote, RunFields
<1> HIDE DEF r, n, rec
<1>6. Between(run.recorder) => q.bad = TRUE \/ Between(q)
  BY <1>2, FedReused
<1> HIDE DEF q
<1>7. Looks(r)
  BY <1>1, <1>3, <1>4, <1>6, LooksOn DEF Watched
<1>8. "short" \in marks <=> "short" \in r.marks
  OBVIOUS
<1>9. "grown" \in marks <=> "grown" \in r.marks
  OBVIOUS
<1> HIDE DEF live, marks, stats, want
<1>10. /\ DOMAIN p = RunFields /\ p.pc = r.pc /\ p.err = r.err /\ p.marks = marks
       /\ p.recorder = r.recorder /\ p.file = r.file /\ p.read = r.read /\ p.stat = r.stat
       /\ p.assigned = r.assigned
  BY <1>3 DEF Wrote, RunFields
<1> HIDE DEF p
<1>11. Looks(p) /\ Writable(p)
  <2>1. Writable(p)
    BY <1>3, <1>10 DEF Wrote, Writable
  <2> QED
    BY <1>7, <1>8, <1>9, <1>10, <2>1 DEF Looks, Sees, Refusal
<1> QED
  BY <1>5, <1>11, FurtherAlike, LooksAlike

\* A run that is past the walk and goes on, or that fails.
LEMMA LooksLater ==
  ASSUME NEW r, NEW q, Looks(r), r.pc \notin {"walk", "read", "failed"},
         q.marks = r.marks, q.pc \notin {"walk", "read"}
  PROVE  Looks(q)
BY DEF Looks, Sees

LEMMA LooksFailed ==
  ASSUME Fails(run), RunTyped(run)
  PROVE  Looks(run')
<1>1. run'.pc = "failed"
  BY DEF Fails, RunTyped, Writable, RunFields
<1> QED
  BY <1>1 DEF Looks, Sees

LEMMA LooksRelabelled ==
  ASSUME Shapes, Watched, Relabelling
  PROVE  Looks(run')
<1>1. RunTyped(run) /\ Looks(run)
  BY RelabelSteps DEF Watched
<1>2. DOMAIN run = RunFields
  BY <1>1 DEF RunTyped, Writable
<1>3. CASE Fails(run)
  BY <1>1, <1>3, LooksFailed
<1>4. CASE UploadEnds
  <2>1. PICK c \in run.flying :
          \/ run' = [run EXCEPT !.flying = @ \ {c}]
          \/ run' = [run EXCEPT !.flying = @ \ {c}, !.failed = TRUE]
    BY <1>4 DEF UploadEnds
  <2>2. Alike(run, run')
    BY <1>2, <2>1 DEF Alike, RunFields
  <2> QED
    BY <1>1, <2>2, LooksAlike
<1>5. CASE Cancel
  <2>1. Alike(run, run')
    BY <1>2, <1>5 DEF Cancel, Alike, RunFields
  <2> QED
    BY <1>1, <2>1, LooksAlike
<1>6. CASE ~Fails(run) /\ (Assign \/ Finish \/ Save \/ Verify \/ Done)
  <2>1. run.pc \in {"drain", "finish", "save", "verify", "known"}
    BY <1>6 DEF Assign, Finish, Save, Verify, Done
  <2>2. \/ \E p \in {"finish", "save", "known", "done"} : run' = [run EXCEPT !.pc = p]
        \/ run' = [run EXCEPT !.pc = "verify", !.ticking = FALSE]
    BY <1>6 DEF Assign, Finish, Save, Verify, Done
  <2>3. run'.marks = run.marks /\ run'.pc \in {"finish", "save", "known", "done", "verify"}
    <3>1. CASE run' = [run EXCEPT !.pc = "verify", !.ticking = FALSE]
      BY <1>2, <3>1 DEF RunFields
    <3>2. ASSUME NEW p \in {"finish", "save", "known", "done"}, run' = [run EXCEPT !.pc = p]
          PROVE  run'.marks = run.marks /\ run'.pc = p
      BY <1>2, <3>2 DEF RunFields
    <3> QED
      BY <2>2, <3>1, <3>2
  <2> QED
    BY <1>1, <2>1, <2>3, LooksLater
<1> QED
  BY <1>3, <1>4, <1>5, <1>6 DEF Relabelling, AbortScan

LEMMA LooksScanning ==
  ASSUME Shapes, Watched, Scanning
  PROVE  Looks(run')
<1>1. RunTyped(run) /\ Looks(run)
  BY ScanSteps DEF Watched
<1>2. CASE EnterDir
  <2>1. Between(run.recorder) =>
          LET q == Feed(run.recorder, DirHeader(Here)) IN q.bad = TRUE \/ Between(q)
    <3>1. CASE Here = ""
      BY <3>1, FedOneUnit DEF DirHeader
    <3>2. CASE Here # ""
      BY <3>2, FedDirHeader DEF DirHeader
    <3> QED
      BY <3>1, <3>2
  <2> QED
    BY <1>1, <1>2, <2>1, EmitsAndLooks DEF EnterDir, Walks
<1>3. CASE LeaveDir
  <2>1. Between(run.recorder) =>
          LET q == Feed(run.recorder, <<Goodbye>>) IN q.bad = TRUE \/ Between(q)
    BY FedOneUnit
  <2> QED
    BY <1>1, <1>3, <2>1, EmitsAndLooks DEF LeaveDir, Walks
<1>4. CASE SkipFile
  BY <1>1, <1>4, FurtherAlike, LooksAlike DEF SkipFile, RunTyped
<1>5. CASE EndFile \/ ReadFails
  BY <1>1, <1>5, LooksClosed DEF EndFile, ReadFails
<1> QED
  BY <1>2, <1>3, <1>4, <1>5, LooksReuse, LooksOpen, LooksRead DEF Scanning

LEMMA WatchedRun ==
  ASSUME Shapes, Watched, [Next]_vars, run' # Idle
  PROVE  Looks(run')
<1>1. CASE UnreadableDir
  <2>1. RunTyped(run) /\ run # Idle
    BY <1>1, UnreadableSteps, RunThere, NotIdle DEF RunTyped, Writable
  <2>2. CASE Fails(run)
    BY <2>1, <2>2, LooksFailed
  <2>3. CASE ~Fails(run)
    <3> DEFINE past == CHOOSE i \in DOMAIN run.todo : run.todo[i] = <<"end", Here>>
               t == SubSeq(run.todo, past + 1, Len(run.todo))
    <3>1. run' = [run EXCEPT !.todo = t]
      BY <1>1, <2>3 DEF UnreadableDir
    <3> HIDE DEF t
    <3>2. Alike(run, run')
      BY <2>1, <3>1 DEF Alike, RunTyped, Writable, RunFields
    <3> QED
      BY <2>1, <3>2, LooksAlike DEF Watched
  <2> QED
    BY <2>2, <2>3
<1>2. CASE Flush
  <2> DEFINE r == FlushPending(run)
  <2>1. RunTyped(run) /\ run # Idle /\ run.pc = "walk" /\ ~run.err
    BY <1>2, RunThere DEF Flush
  <2>2. run' = [r EXCEPT !.pc = "drain"]
    BY <1>2 DEF Flush
  <2>3. Wrote(run, r, {})
    BY <2>1, FlushWrites DEF RunTyped
  <2> HIDE DEF r
  <2>4. run'.pc = "drain" /\ run'.marks = run.marks
    BY <2>2, <2>3 DEF Wrote, Kept, RunFields
  <2> QED
    BY <2>1, <2>4 DEF Watched, Looks, Sees
<1>3. CASE Begin
  <2>1. PICK full \in BOOLEAN : run' = NewRun(full)
    BY <1>3 DEF Begin
  <2>2. run'.pc = "walk" /\ run'.marks = {} /\ run'.recorder = NewParser({}, TRUE)
    BY <2>1 DEF NewRun
  <2>3. Between(NewParser({}, TRUE))
    BY DEF Between, NewParser, ParserFields
  <2> QED
    BY <2>2, <2>3 DEF Looks, Sees, Refusal
<1>4. CASE Tick \/ ChangeFile \/ RemoveFile \/ Prune \/ UNCHANGED vars
  <2>1. run' = run
    BY <1>4 DEF Tick, ChangeFile, RemoveFile, Prune, vars
  <2> QED
    BY <2>1 DEF Watched
<1>5. CASE Return \/ Crash
  BY <1>5 DEF Return, Crash
<1> QED
  BY <1>1, <1>2, <1>3, <1>4, <1>5, LooksScanning, LooksRelabelled DEF Next, Scanning, Relabelling

LEMMA WatchedSnaps ==
  ASSUME Shapes, Watched, [Next]_vars
  PROVE  GrownIsRefused'
<1>1. CASE snaps' = snaps
  BY <1>1 DEF Watched, GrownIsRefused
<1>2. CASE Finish
  <2>1. RunTyped(run) /\ run # Idle /\ run.pc = "finish"
    BY <1>2, RunThere DEF Finish
  <2>2. CASE snaps' = Append(snaps, Snapshot)
    <3> DEFINE c == Snapshot
    <3>1. Refusal(c.marks)
      BY <2>1, SnapshotShape DEF Watched, Looks
    <3> HIDE DEF c
    <3>2. \A i \in DOMAIN snaps' : (i \in DOMAIN snaps /\ snaps'[i] = snaps[i]) \/ snaps'[i] = c
      BY <2>2, ListAppend DEF Shapes, c
    <3> QED
      BY <3>1, <3>2 DEF Watched, GrownIsRefused, Refusal
  <2> QED
    BY <1>1, <1>2, <2>2 DEF Finish
<1>3. CASE Prune
  <2>1. PICK i \in DOMAIN snaps : snaps' = [snaps EXCEPT ![i].pruned = TRUE]
    BY <1>3 DEF Prune
  <2>2. DOMAIN snaps' = DOMAIN snaps /\ \A j \in DOMAIN snaps' : snaps'[j].marks = snaps[j].marks
    BY <2>1, PruneShape
  <2> QED
    BY <2>2 DEF Watched, GrownIsRefused
<1>4. snaps' = snaps \/ Finish \/ Prune
  BY DEF Next, vars, Begin, EnterDir, LeaveDir, UnreadableDir, SkipFile, ReuseFile, OpenFile,
         ReadFile, EndFile, ReadFails, UploadEnds, AbortScan, Flush, Assign, Save, Verify, Done,
         Return, Tick, Cancel, ChangeFile, RemoveFile, Crash, Unchanged
<1> QED
  BY <1>1, <1>2, <1>3, <1>4

LEMMA WatchedDisk ==
  ASSUME Watched, [Next]_vars
  PROVE  \A f \in Files : disk'[f].size \in Nat
<1>1. CASE disk' = disk
  BY <1>1 DEF Watched
<1>2. CASE ChangeFile
  <2>1. PICK g \in Files, n \in Sizes : disk' = [disk EXCEPT ![g] = [ver |-> events + 2, size |-> n]]
    BY <1>2 DEF ChangeFile
  <2>2. n \in Nat
    BY PbsBackupAssumption
  <2> DEFINE v == [ver |-> events + 2, size |-> n]
  <2>3. v.size \in Nat
    BY <2>2
  <2> HIDE DEF v
  <2>4. disk' = [disk EXCEPT ![g] = v]
    BY <2>1 DEF v
  <2> QED
    BY <2>3, <2>4 DEF Watched
<1>3. CASE RemoveFile
  <2>1. PICK g \in Files : disk' = [disk EXCEPT ![g] = NoFile]
    BY <1>3 DEF RemoveFile
  <2>2. NoFile.size \in Nat
    BY DEF NoFile
  <2> QED
    BY <2>1, <2>2 DEF Watched
<1>4. disk' = disk \/ ChangeFile \/ RemoveFile
  BY DEF Next, vars, Begin, EnterDir, LeaveDir, UnreadableDir, SkipFile, ReuseFile, OpenFile,
         ReadFile, EndFile, ReadFails, UploadEnds, AbortScan, Flush, Assign, Save, Verify, Done,
         Finish, Prune, Return, Tick, Cancel, Crash, Unchanged
<1> QED
  BY <1>1, <1>2, <1>3, <1>4

LEMMA WatchedInit == Init => Watched
<1> SUFFICES ASSUME Init PROVE Watched
  OBVIOUS
<1>1. PICK n \in Sizes : disk = [f \in Files |-> [ver |-> 1, size |-> n]]
  BY DEF Init
<1>2. \A f \in Files : disk[f].size \in Nat
  BY <1>1, PbsBackupAssumption
<1>3. run = Idle /\ DOMAIN snaps = {}
  BY DEF Init
<1> QED
  BY <1>2, <1>3 DEF Watched, GrownIsRefused

\* A file that grows while it is read does not get into a snapshot, whatever else happens
\* to the files, as long as none of them shrinks while it is read: the recorder meets the
\* data where the next entry should be (backup.go, WriteCB; pxar_stream_restore.go).
THEOREM GrownNeverCommitted == Spec => []GrownIsRefused
<1>1. Init => Shapes /\ Watched
  BY ShapesInit, WatchedInit
<1>2. (Shapes /\ Watched) /\ [Next]_vars => (Shapes /\ Watched)'
  <2> SUFFICES ASSUME Shapes, Watched, [Next]_vars PROVE Shapes' /\ Watched'
    OBVIOUS
  <2> QED
    BY ShapesNext, WatchedRun, WatchedSnaps, WatchedDisk DEF Watched
<1>3. Shapes /\ Watched => GrownIsRefused
  BY DEF Watched
<1> QED
  BY <1>1, <1>2, <1>3, PTL DEF Spec

-----------------------------------------------------------------------------
(* A list of sequences and its concatenation.  FlattenSeq is a function that  *)
(* recurs over the list; such functions exist for every length, by the least  *)
(* length without one, and what they give is determined part by part.         *)

\* g[i] is the concatenation of the first i sequences of the list.
Joined(cs, g) ==
  /\ DOMAIN g = 0..Len(cs) /\ g[0] = <<>>
  /\ \A i \in 1..Len(cs) : g[i] = g[i - 1] \o cs[i]

\* The recursion of FlattenSeq for the first n sequences.
Recurs(cs, n, h) == h = [i \in 1..n |-> IF i = 1 THEN cs[i] ELSE h[i - 1] \o cs[i]]

LEMMA RecursionExists ==
  ASSUME NEW cs, NEW n \in Nat
  PROVE  \E h : Recurs(cs, n, h)
<1> DEFINE T == {k \in 0..n : \E h : Recurs(cs, k, h)}
<1>1. 0 \in T
  <2>1. Recurs(cs, 0, <<>>)
    BY DEF Recurs
  <2> QED
    BY <2>1
<1>2. ASSUME NEW k \in 0..n, k \in T, k < n
      PROVE  k + 1 \in T
  <2>1. PICK h : Recurs(cs, k, h)
    BY <1>2
  <2> DEFINE m == [i \in 1..(k + 1) |-> IF i = 1 THEN cs[i]
                                        ELSE IF i = k + 1 THEN h[k] \o cs[i] ELSE h[i]]
  <2>2. \A i \in 1..k : m[i] = h[i]
    <3> SUFFICES ASSUME NEW i \in 1..k PROVE m[i] = h[i]
      OBVIOUS
    <3>1. h[i] = IF i = 1 THEN cs[i] ELSE h[i - 1] \o cs[i]
      BY <2>1 DEF Recurs
    <3> QED
      BY <3>1
  <2>3. \A i \in 1..(k + 1) : m[i] = IF i = 1 THEN cs[i] ELSE m[i - 1] \o cs[i]
    <3> SUFFICES ASSUME NEW i \in 1..(k + 1), i # 1
                 PROVE  m[i] = m[i - 1] \o cs[i]
      OBVIOUS
    <3>1. i - 1 \in 1..k
      OBVIOUS
    <3>2. m[i - 1] = h[i - 1]
      BY <2>2, <3>1
    <3>3. CASE i = k + 1
      <4>1. m[i] = IF i = 1 THEN cs[i] ELSE IF i = k + 1 THEN h[k] \o cs[i] ELSE h[i]
        OBVIOUS
      <4>3. i - 1 = k
        BY <3>3
      <4>2. m[i] = h[i - 1] \o cs[i]
        BY <3>3, <4>1, <4>3
      <4> QED
        BY <3>2, <4>2
    <3>4. CASE i # k + 1
      <4>1. i \in 1..k /\ m[i] = h[i]
        BY <3>4, <2>2
      <4>2. h[i] = h[i - 1] \o cs[i]
        BY <2>1, <4>1 DEF Recurs
      <4> QED
        BY <3>2, <4>1, <4>2
    <3> QED
      BY <3>3, <3>4
  <2>4. Recurs(cs, k + 1, m)
    <3>1. m = [i \in 1..(k + 1) |-> m[i]]
      OBVIOUS
    <3> HIDE DEF m
    <3>2. [i \in 1..(k + 1) |-> m[i]]
            = [i \in 1..(k + 1) |-> IF i = 1 THEN cs[i] ELSE m[i - 1] \o cs[i]]
      BY <2>3
    <3> QED
      BY <3>1, <3>2 DEF Recurs
  <2>5. k + 1 \in 0..n
    BY <1>2
  <2> QED
    BY <2>4, <2>5
<1>3. \A k \in 0..n : k \in T
  <2> HIDE DEF T
  <2> QED
    BY <1>1, <1>2, NatSteps
<1> QED
  BY <1>3

\* What FlattenSeq gives is what any such recursion gives.
LEMMA FlattenRecurs ==
  ASSUME NEW cs, Len(cs) \in Nat \ {0}
  PROVE  \E h : Recurs(cs, Len(cs), h) /\ FlattenSeq(cs) = h[Len(cs)]
<1>1. PICK x : x = [i \in 1..Len(cs) |-> IF i = 1 THEN cs[i] ELSE x[i - 1] \o cs[i]]
  BY RecursionExists DEF Recurs
<1>2. \E h : /\ FlattenSeq(cs) = h[Len(cs)]
             /\ h = [i \in 1..Len(cs) |-> IF i = 1 THEN cs[i] ELSE h[i - 1] \o cs[i]]
  BY <1>1, Zenon DEF FlattenSeq
<1> QED
  BY <1>2 DEF Recurs

\* A list of sequences has its partial concatenations, which FlattenSeq gives.
LEMMA FlattenJoins ==
  ASSUME NEW U, NEW cs \in Seq(Seq(U))
  PROVE  \E g : /\ Joined(cs, g) /\ FlattenSeq(cs) = g[Len(cs)]
                /\ \A i \in 0..Len(cs) : g[i] \in Seq(U)
<1> DEFINE n == Len(cs)
<1>0. n \in Nat /\ \A i \in 1..n : cs[i] \in Seq(U)
  OBVIOUS
<1>1. CASE n = 0
  <2> DEFINE g == [i \in 0..0 |-> <<>>]
  <2>1. FlattenSeq(cs) = <<>>
    BY <1>1 DEF FlattenSeq
  <2>2. Joined(cs, g) /\ g[0] = <<>>
    BY <1>1 DEF Joined
  <2>3. \A i \in 0..n : g[i] \in Seq(U)
    BY <1>1
  <2> HIDE DEF g
  <2> QED
    BY <1>1, <2>1, <2>2, <2>3
<1>2. CASE n # 0
  <2>1. PICK h : Recurs(cs, n, h) /\ FlattenSeq(cs) = h[n]
    BY <1>0, <1>2, FlattenRecurs
  <2> HIDE DEF n
  <2>2. \A i \in 1..n : h[i] = IF i = 1 THEN cs[i] ELSE h[i - 1] \o cs[i]
    BY <2>1 DEF Recurs
  <2> DEFINE g == [i \in 0..n |-> IF i = 0 THEN <<>> ELSE h[i]]
  <2>3. g[0] = <<>> /\ \A i \in 1..n : g[i] = h[i]
    BY <1>0
  <2>4. DOMAIN g = 0..n
    OBVIOUS
  <2> HIDE DEF g
  <2>5. \A i \in 1..n : g[i] = g[i - 1] \o cs[i]
    <3> SUFFICES ASSUME NEW i \in 1..n PROVE g[i] = g[i - 1] \o cs[i]
      OBVIOUS
    <3>1. CASE i = 1
      <4>1. g[i] = cs[i] /\ g[i - 1] = <<>>
        BY <2>2, <2>3, <3>1
      <4>2. <<>> \o cs[i] = cs[i]
        BY <1>0
      <4> QED
        BY <4>1, <4>2
    <3>2. CASE i # 1
      <4>1. i - 1 \in 1..n
        BY <1>0, <3>2
      <4> QED
        BY <2>2, <2>3, <3>2, <4>1
    <3> QED
      BY <3>1, <3>2
  <2>6. \A i \in 0..n : g[i] \in Seq(U)
    <3> DEFINE T == {i \in 0..n : g[i] \in Seq(U)}
    <3>1. 0 \in T
      <4>1. g[0] \in Seq(U) /\ 0 \in 0..n
        BY <1>0, <2>3
      <4> QED
        BY <4>1
    <3>2. ASSUME NEW i \in 0..n, i \in T, i < n
          PROVE  i + 1 \in T
      <4>1. i + 1 \in 1..n /\ (i + 1) - 1 = i
        BY <1>0, <3>2
      <4>2. g[i + 1] = g[i] \o cs[i + 1]
        BY <2>5, <4>1
      <4>3. g[i] \in Seq(U) /\ cs[i + 1] \in Seq(U)
        BY <1>0, <3>2, <4>1
      <4>4. g[i + 1] \in Seq(U)
        BY <4>2, <4>3
      <4> QED
        BY <4>1, <4>4
    <3>3. \A i \in 0..n : i \in T
      <4> HIDE DEF T
      <4> QED
        BY <1>0, <3>1, <3>2, NatSteps
    <3> QED
      BY <3>3
  <2>7. FlattenSeq(cs) = g[n]
    <3>1. n \in 1..n
      BY <1>0, <1>2
    <3> QED
      BY <2>1, <2>3, <3>1
  <2> QED
    BY <2>3, <2>4, <2>5, <2>6, <2>7 DEF Joined, n
<1> QED
  BY <1>1, <1>2

\* Partial concatenations are unique.
LEMMA JoinedIs ==
  ASSUME NEW U, NEW cs \in Seq(Seq(U)), NEW g, Joined(cs, g)
  PROVE  FlattenSeq(cs) = g[Len(cs)]
<1>1. PICK h : Joined(cs, h) /\ FlattenSeq(cs) = h[Len(cs)]
  BY FlattenJoins
<1>2. Len(cs) \in Nat
  OBVIOUS
<1> DEFINE T == {i \in 0..Len(cs) : g[i] = h[i]}
<1>3. 0 \in T
  BY <1>1, <1>2 DEF Joined
<1>4. ASSUME NEW i \in 0..Len(cs), i \in T, i < Len(cs)
      PROVE  i + 1 \in T
  <2>1. i + 1 \in 1..Len(cs) /\ (i + 1) - 1 = i
    BY <1>2, <1>4
  <2>2. g[i + 1] = g[i] \o cs[i + 1] /\ h[i + 1] = h[i] \o cs[i + 1]
    BY <1>1, <2>1 DEF Joined
  <2>3. g[i] = h[i] /\ i + 1 \in 0..Len(cs)
    BY <1>4, <2>1
  <2>4. g[i + 1] = h[i + 1]
    BY <2>2, <2>3
  <2> QED
    BY <2>3, <2>4
<1>5. \A i \in 0..Len(cs) : i \in T
  <2> HIDE DEF T
  <2> QED
    BY <1>2, <1>3, <1>4, NatSteps
<1> QED
  BY <1>1, <1>2, <1>5

\* The partial concatenations of a list are those of its beginnings.
LEMMA JoinedFront ==
  ASSUME NEW U, NEW cs \in Seq(Seq(U)), NEW g, Joined(cs, g), NEW i \in 0..Len(cs)
  PROVE  FlattenSeq(SubSeq(cs, 1, i)) = g[i]
<1> DEFINE front == SubSeq(cs, 1, i)
           h == [k \in 0..i |-> g[k]]
<1>1. /\ front \in Seq(Seq(U)) /\ Len(front) = i /\ i \in Nat /\ Len(cs) \in Nat
      /\ \A k \in 1..i : front[k] = cs[k] /\ k \in 1..Len(cs) /\ k - 1 \in 0..i
  OBVIOUS
<1> HIDE DEF front
<1>2. DOMAIN h = 0..i /\ \A k \in 0..i : h[k] = g[k]
  OBVIOUS
<1> HIDE DEF h
<1>3. Joined(front, h)
  <2>1. h[0] = <<>>
    BY <1>1, <1>2 DEF Joined
  <2>2. ASSUME NEW k \in 1..i PROVE h[k] = h[k - 1] \o front[k]
    <3>1. k \in 0..i /\ k - 1 \in 0..i
      BY <1>1
    <3> QED
      BY <1>1, <1>2, <3>1 DEF Joined
  <2> QED
    BY <1>1, <1>2, <2>1, <2>2 DEF Joined
<1>4. FlattenSeq(front) = h[i]
  BY <1>1, <1>3, JoinedIs
<1>5. i \in 0..i
  BY <1>1
<1> QED
  BY <1>2, <1>4, <1>5 DEF front

\* One more sequence.
LEMMA FlattenAppend ==
  ASSUME NEW U, NEW cs \in Seq(Seq(U)), NEW c \in Seq(U)
  PROVE  /\ FlattenSeq(Append(cs, c)) = FlattenSeq(cs) \o c
         /\ FlattenSeq(cs) \in Seq(U)
<1> DEFINE all == Append(cs, c)
<1>1. /\ all \in Seq(Seq(U)) /\ Len(all) = Len(cs) + 1 /\ Len(cs) \in Nat
      /\ all[Len(cs) + 1] = c /\ SubSeq(all, 1, Len(cs)) = cs
  OBVIOUS
<1> HIDE DEF all
<1>2. PICK g : Joined(all, g) /\ FlattenSeq(all) = g[Len(all)]
               /\ \A i \in 0..Len(all) : g[i] \in Seq(U)
  BY <1>1, FlattenJoins
<1>3. Len(cs) \in 0..Len(all) /\ Len(all) \in 1..Len(all) /\ Len(all) - 1 = Len(cs)
  BY <1>1
<1>4. FlattenSeq(cs) = g[Len(cs)]
  BY <1>1, <1>2, <1>3, JoinedFront
<1>5. g[Len(all)] = g[Len(cs)] \o c
  BY <1>1, <1>2, <1>3 DEF Joined
<1> QED
  BY <1>2, <1>3, <1>4, <1>5 DEF all

-----------------------------------------------------------------------------
(* The sum of lengths folds over the set of positions, from the greatest on. *)

Sums(spans, S, g) ==
  g = [s \in SUBSET S |-> IF s = {} THEN 0 ELSE g[s \ {Max(s)}] + spans[Max(s)].len]

LEMMA SumFolds ==
  ASSUME NEW spans, NEW x, Sums(spans, DOMAIN spans, x)
  PROVE  \E g : Sums(spans, DOMAIN spans, g) /\ SumLen(spans) = g[DOMAIN spans]
<1>1. x = [s \in SUBSET DOMAIN spans |->
             IF s = {} THEN 0 ELSE x[s \ {Max(s)}] + spans[Max(s)].len]
  BY DEF Sums
<1>2. \E g : /\ SumLen(spans) = g[DOMAIN spans]
             /\ g = [s \in SUBSET DOMAIN spans |->
                      IF s = {} THEN 0 ELSE g[s \ {Max(s)}] + spans[Max(s)].len]
  BY <1>1, Zenon DEF SumLen, FoldLeft, MapThenFoldSet
<1> QED
  BY <1>2 DEF Sums

LEMMA MaxIs ==
  ASSUME NEW s \in SUBSET Nat, NEW m \in s, \A y \in s : y <= m
  PROVE  Max(s) = m
<1>1. \E x \in s : \A y \in s : x >= y
  OBVIOUS
<1>2. Max(s) \in s /\ \A y \in s : Max(s) >= y
  BY <1>1 DEF Max
<1>3. Max(s) \in Nat /\ m \in Nat
  BY <1>2
<1>4. Max(s) >= m /\ Max(s) <= m
  BY <1>2
<1> QED
  BY <1>3, <1>4

LEMMA SumsExist ==
  ASSUME NEW spans, NEW n \in Nat
  PROVE  \E g : Sums(spans, 1..n, g)
<1> DEFINE T == {k \in 0..n : \E g : Sums(spans, 1..k, g)}
<1>1. 0 \in T
  <2> DEFINE z == [s \in SUBSET (1..0) |-> 0]
  <2>1. \A s \in SUBSET (1..0) : s = {}
    OBVIOUS
  <2>2. z = [s \in SUBSET (1..0) |-> IF s = {} THEN 0 ELSE z[s \ {Max(s)}] + spans[Max(s)].len]
    BY <2>1
  <2>3. Sums(spans, 1..0, z)
    BY <2>2 DEF Sums
  <2> QED
    BY <2>3
<1>2. ASSUME NEW k \in 0..n, k \in T, k < n
      PROVE  k + 1 \in T
  <2>1. PICK g : Sums(spans, 1..k, g)
    BY <1>2
  <2>2. \A s \in SUBSET (1..k) : g[s] = IF s = {} THEN 0 ELSE g[s \ {Max(s)}] + spans[Max(s)].len
    BY <2>1 DEF Sums
  <2> DEFINE U == SUBSET (1..(k + 1))
             m == [s \in U |-> IF k + 1 \in s THEN g[s \ {k + 1}] + spans[k + 1].len ELSE g[s]]
  <2>3. \A s \in U : k + 1 \notin s => s \in SUBSET (1..k)
    OBVIOUS
  <2>4. \A s \in U : m[s] = IF k + 1 \in s THEN g[s \ {k + 1}] + spans[k + 1].len ELSE g[s]
    OBVIOUS
  <2>5. DOMAIN m = U /\ m = [s \in U |-> m[s]]
    OBVIOUS
  <2> HIDE DEF m
  <2>6. ASSUME NEW s \in U
        PROVE  m[s] = IF s = {} THEN 0 ELSE m[s \ {Max(s)}] + spans[Max(s)].len
    <3>1. CASE k + 1 \in s
      <4>1. s \in SUBSET Nat /\ \A y \in s : y <= k + 1
        OBVIOUS
      <4>2. Max(s) = k + 1
        BY <3>1, <4>1, MaxIs
      <4>3. s \ {k + 1} \in U /\ k + 1 \notin s \ {k + 1}
        OBVIOUS
      <4>4. m[s \ {k + 1}] = g[s \ {k + 1}]
        BY <2>4, <4>3
      <4>5. m[s] = g[s \ {k + 1}] + spans[k + 1].len
        BY <2>4, <3>1
      <4> QED
        BY <3>1, <4>2, <4>4, <4>5
    <3>2. CASE k + 1 \notin s
      <4>1. s \in SUBSET (1..k) /\ m[s] = g[s]
        BY <2>3, <2>4, <3>2
      <4>2. s \ {Max(s)} \in U /\ k + 1 \notin s \ {Max(s)}
        BY <3>2
      <4>3. m[s \ {Max(s)}] = g[s \ {Max(s)}]
        BY <2>4, <4>2
      <4> QED
        BY <2>2, <4>1, <4>3
    <3> QED
      BY <3>1, <3>2
  <2>7. [s \in U |-> m[s]]
          = [s \in U |-> IF s = {} THEN 0 ELSE m[s \ {Max(s)}] + spans[Max(s)].len]
    BY <2>6
  <2>8. Sums(spans, 1..(k + 1), m)
    BY <2>5, <2>7 DEF Sums
  <2>9. k + 1 \in 0..n
    BY <1>2
  <2> QED
    BY <2>8, <2>9
<1>3. \A k \in 0..n : k \in T
  <2> HIDE DEF T
  <2> QED
    BY <1>1, <1>2, NatSteps
<1> QED
  BY <1>3

\* Lengths that are differences add up to the difference of the ends.
LEMMA SumTelescopes ==
  ASSUME NEW spans, NEW n \in Nat, DOMAIN spans = 1..n,
         NEW e \in [0..n -> Int], \A i \in 1..n : spans[i].len = e[i] - e[i - 1]
  PROVE  SumLen(spans) = e[n] - e[0]
<1>0. PICK x : Sums(spans, DOMAIN spans, x)
  BY SumsExist
<1>1. PICK g : Sums(spans, 1..n, g) /\ SumLen(spans) = g[1..n]
  BY <1>0, SumFolds
<1>2. \A s \in SUBSET (1..n) : g[s] = IF s = {} THEN 0 ELSE g[s \ {Max(s)}] + spans[Max(s)].len
  BY <1>1 DEF Sums
<1> DEFINE T == {k \in 0..n : g[1..k] = e[k] - e[0]}
<1>3. 0 \in T
  <2>1. 1..0 = {} /\ {} \in SUBSET (1..n) /\ 0 \in 0..n /\ e[0] \in Int
    OBVIOUS
  <2>2. g[1..0] = 0
    BY <1>2, <2>1
  <2> QED
    BY <2>1, <2>2
<1>4. ASSUME NEW k \in 0..n, k \in T, k < n
      PROVE  k + 1 \in T
  <2>1. k + 1 \in 1..n /\ k + 1 \in 0..n /\ (k + 1) - 1 = k
    BY <1>4
  <2> DEFINE s == 1..(k + 1)
  <2>2. s \in SUBSET Nat /\ k + 1 \in s /\ (\A y \in s : y <= k + 1)
    BY <2>1
  <2>3. s \in SUBSET (1..n) /\ s # {} /\ s \ {k + 1} = 1..k
    <3>1. \A y : y \in 1..(k + 1) => y \in 1..n
      BY <2>1
    <3>2. k + 1 \in 1..(k + 1)
      BY <2>1
    <3>3. k \in Int
      BY <2>1
    <3>4. \A y \in 1..k : y \in 1..(k + 1) /\ y # k + 1
      BY <3>3
    <3>5. \A y \in 1..(k + 1) : y # k + 1 => y \in 1..k
      BY <3>3
    <3> QED
      BY <3>1, <3>2, <3>4, <3>5
  <2> HIDE DEF s
  <2>4. Max(s) = k + 1
    BY <2>2, MaxIs
  <2>5. g[s] = g[1..k] + spans[k + 1].len
    BY <1>2, <2>3, <2>4
  <2>6. spans[k + 1].len = e[k + 1] - e[k]
    BY <2>1
  <2>7. g[1..k] = e[k] - e[0]
    BY <1>4
  <2>8. e[k] \in Int /\ e[k + 1] \in Int /\ e[0] \in Int
    BY <2>1
  <2>9. g[s] = e[k + 1] - e[0]
    BY <2>5, <2>6, <2>7, <2>8
  <2> QED
    BY <2>1, <2>9 DEF s
<1>5. \A k \in 0..n : k \in T
  <2> HIDE DEF T
  <2> QED
    BY <1>3, <1>4, NatSteps
<1> QED
  BY <1>1, <1>5

-----------------------------------------------------------------------------
(* Spans that are whole chunks and make up a range hold the range.            *)

LEMMA ConcatIs ==
  ASSUME NEW U, NEW p \in Seq(U), NEW c \in Seq(U)
  PROVE  /\ p \o c \in Seq(U) /\ Len(p \o c) = Len(p) + Len(c)
         /\ Len(p) \in Nat /\ Len(c) \in Nat /\ Len(p) <= Len(p \o c)
         /\ \A x \in 1..Len(p) : (p \o c)[x] = p[x]
         /\ \A x \in 1..Len(c) : (p \o c)[Len(p) + x] = c[x]
  OBVIOUS

\* Each part lies in the next one, and in the whole.
LEMMA JoinedGrows ==
  ASSUME NEW U, NEW cs \in Seq(Seq(U)), NEW g, Joined(cs, g),
         \A i \in 0..Len(cs) : g[i] \in Seq(U)
  PROVE  \A j \in 0..Len(cs) : \A i \in 0..j :
           Len(g[i]) <= Len(g[j]) /\ \A x \in 1..Len(g[i]) : g[j][x] = g[i][x]
<1>0. Len(cs) \in Nat
  OBVIOUS
<1> DEFINE Lies(i, j) == Len(g[i]) <= Len(g[j]) /\ \A x \in 1..Len(g[i]) : g[j][x] = g[i][x]
           T == {j \in 0..Len(cs) : \A i \in 0..j : Lies(i, j)}
<1>1. 0 \in T
  <2>1. 0 \in 0..Len(cs) /\ \A i \in 0..0 : i = 0
    BY <1>0
  <2>2. Lies(0, 0)
    <3>1. Len(g[0]) \in Nat
      BY <2>1
    <3> QED
      BY <3>1
  <2> HIDE DEF Lies
  <2> QED
    BY <2>1, <2>2
<1>2. ASSUME NEW j \in 0..Len(cs), j \in T, j < Len(cs)
      PROVE  j + 1 \in T
  <2>1. j + 1 \in 1..Len(cs) /\ j + 1 \in 0..Len(cs) /\ (j + 1) - 1 = j /\ j \in Nat
    BY <1>0, <1>2
  <2>2. g[j + 1] = g[j] \o cs[j + 1]
    BY <2>1 DEF Joined
  <2>3. g[j] \in Seq(U) /\ cs[j + 1] \in Seq(U)
    BY <2>1
  <2>4. Len(g[j]) <= Len(g[j + 1]) /\ \A x \in 1..Len(g[j]) : g[j + 1][x] = g[j][x]
    <3>1. /\ Len(g[j]) <= Len(g[j] \o cs[j + 1])
          /\ \A x \in 1..Len(g[j]) : (g[j] \o cs[j + 1])[x] = g[j][x]
      BY <2>3, ConcatIs, Zenon
    <3> QED
      BY <2>2, <3>1, Zenon
  <2>5. Lies(j + 1, j + 1)
    <3>1. g[j + 1] \in Seq(U)
      BY <2>1
    <3> QED
      BY <3>1
  <2>6. ASSUME NEW i \in 0..j PROVE Lies(i, j + 1)
    <3>1. Lies(i, j)
      BY <1>2
    <3>2. g[i] \in Seq(U) /\ g[j + 1] \in Seq(U)
      BY <2>1
    <3>3. Len(g[i]) \in Nat /\ Len(g[j]) \in Nat /\ Len(g[j + 1]) \in Nat
      BY <2>3, <3>2
    <3>4. \A x \in 1..Len(g[i]) : x \in 1..Len(g[j])
      BY <3>1, <3>3
    <3> QED
      BY <2>4, <3>1, <3>3, <3>4
  <2> HIDE DEF Lies
  <2>7. \A i \in 0..(j + 1) : i \in 0..j \/ i = j + 1
    BY <2>1
  <2>8. \A i \in 0..(j + 1) : Lies(i, j + 1)
    BY <2>5, <2>6, <2>7
  <2> QED
    BY <2>1, <2>8
<1>3. \A j \in 0..Len(cs) : j \in T
  <2> HIDE DEF T
  <2> QED
    BY <1>0, <1>1, <1>2, NatSteps
<1> QED
  BY <1>3

ChunksOf(spans) == [i \in DOMAIN spans |-> spans[i].chunk]

\* The n units of s from offset a.
UnitsFrom(s, a, n) == [i \in 1..n |-> s[a + i]]

\* What the spans of a range hold, when they are whole chunks of its length.
LEMMA SpansHoldRange ==
  ASSUME NEW U, NEW cs \in Seq(Seq(U)), NEW a \in Nat, NEW b \in Nat, a < b,
         NEW spans, spans = Spans(cs, a, b), spans # <<>>,
         \A i \in DOMAIN spans : spans[i].whole,
         SumLen(spans) = b - a
  PROVE  /\ b <= Len(FlattenSeq(cs))
         /\ FlattenSeq(ChunksOf(spans)) = UnitsFrom(FlattenSeq(cs), a, b - a)
<1>30. \A p, c \in Seq(U) :
         /\ p \o c \in Seq(U) /\ Len(p \o c) = Len(p) + Len(c)
         /\ \A x \in 1..Len(p) : (p \o c)[x] = p[x]
         /\ \A x \in 1..Len(c) : (p \o c)[Len(p) + x] = c[x]
  <2> SUFFICES ASSUME NEW p \in Seq(U), NEW c \in Seq(U)
               PROVE  /\ p \o c \in Seq(U) /\ Len(p \o c) = Len(p) + Len(c)
                      /\ \A x \in 1..Len(p) : (p \o c)[x] = p[x]
                      /\ \A x \in 1..Len(c) : (p \o c)[Len(p) + x] = c[x]
    OBVIOUS
  <2> QED
    BY ConcatIs
<1>1. PICK g : /\ Joined(cs, g) /\ FlattenSeq(cs) = g[Len(cs)]
               /\ \A i \in 0..Len(cs) : g[i] \in Seq(U)
  BY FlattenJoins
<1>31. \A j \in 0..Len(cs) : \A i \in 0..j :
         Len(g[i]) <= Len(g[j]) /\ \A x \in 1..Len(g[i]) : g[j][x] = g[i][x]
  <2>1. Joined(cs, g) /\ \A i \in 0..Len(cs) : g[i] \in Seq(U)
    BY <1>1
  <2> QED
    BY <2>1, JoinedGrows
<1> DEFINE N == Len(cs)
           E == [i \in 0..N |-> Len(g[i])]
           held == ChunksFor(cs, a, b)
           first == CHOOSE i \in held : \A j \in held : i <= j
           last == CHOOSE i \in held : \A j \in held : j <= i
           From(i) == IF BeginOf(cs, i) < a THEN a ELSE BeginOf(cs, i)
           To(i) == IF EndOf(cs, i) > b THEN b ELSE EndOf(cs, i)
           Part(i) == [chunk |-> cs[i], len |-> To(i) - From(i),
                       whole |-> To(i) - From(i) = Len(cs[i])]
<1>2. N \in Nat /\ DOMAIN cs = 1..N /\ \A i \in 1..N : cs[i] \in Seq(U)
  OBVIOUS
<1>3. \A i \in 0..N : E[i] = Len(g[i]) /\ E[i] \in Nat
  BY <1>1
<1>4. \A i \in 0..N : EndOf(cs, i) = E[i]
  BY <1>1, JoinedFront DEF EndOf
<1>5. \A i \in 1..N : BeginOf(cs, i) = E[i - 1] /\ i - 1 \in 0..N /\ i \in 0..N
  <2>1. \A i \in 1..N : i - 1 \in 0..N /\ i \in 0..N
    BY <1>2
  <2> QED
    BY <1>4, <2>1 DEF BeginOf
<1>6. E[0] = 0 /\ \A i \in 1..N : E[i] = E[i - 1] + Len(cs[i]) /\ Len(cs[i]) \in Nat
  <2>1. E[0] = 0
    BY <1>1, <1>2, <1>3 DEF Joined
  <2>2. ASSUME NEW i \in 1..N PROVE E[i] = E[i - 1] + Len(cs[i]) /\ Len(cs[i]) \in Nat
    <3>1. i - 1 \in 0..N /\ i \in 0..N
      BY <1>5
    <3>2. g[i] = g[i - 1] \o cs[i] /\ g[i - 1] \in Seq(U) /\ cs[i] \in Seq(U)
      BY <1>1, <1>2, <3>1 DEF Joined
    <3>3. Len(g[i]) = Len(g[i - 1]) + Len(cs[i]) /\ Len(cs[i]) \in Nat
      BY <3>2, ConcatIs
    <3> QED
      BY <1>3, <3>1, <3>3
  <2> QED
    BY <2>1, <2>2
<1>7. \A j \in 0..N : \A i \in 0..j : E[i] <= E[j] /\ \A x \in 1..E[i] : g[j][x] = g[i][x]
  <2>1. \A j \in 0..N : \A i \in 0..j : i \in 0..N
    BY <1>2
  <2>2. \A j \in 0..N : \A i \in 0..j :
          Len(g[i]) <= Len(g[j]) /\ \A x \in 1..Len(g[i]) : g[j][x] = g[i][x]
      BY <1>31
  <2> QED
    BY <1>3, <2>1, <2>2
<1>8. held = {i \in 1..N : a < E[i] /\ b > E[i - 1]}
  <2>1. ~(b <= a)
    OBVIOUS
  <2> QED
    BY <1>2, <1>4, <1>5, <2>1 DEF ChunksFor
<1>9. held # {}
  BY DEF Spans
<1>10. first \in held /\ \A j \in held : first <= j
  <2> HIDE DEF held
  <2>1. held \subseteq Nat
    BY <1>8
  <2>2. \E i \in held : \A j \in held : i <= j
    BY <1>9, <2>1, NatMin
  <2> QED
    BY <2>2
<1>11. last \in held /\ \A j \in held : j <= last
  <2> HIDE DEF held
  <2>1. held \subseteq Nat /\ \A i \in held : i <= N
    BY <1>2, <1>8
  <2>2. \E i \in held : \A j \in held : j <= i
    BY <1>2, <1>9, <2>1, NatMax
  <2> QED
    BY <2>2
<1>12. spans = [n \in 1..last - first + 1 |-> Part(first + n - 1)]
  BY <1>9 DEF Spans
<1> HIDE DEF N, E, held, first, last
<1>13. /\ first \in 1..N /\ last \in 1..N /\ first <= last
       /\ a < E[first] /\ b > E[first - 1] /\ a < E[last] /\ b > E[last - 1]
  BY <1>8, <1>10, <1>11
<1> DEFINE n == last - first + 1
<1>14. n \in Nat /\ n # 0 /\ DOMAIN spans = 1..n
  BY <1>2, <1>12, <1>13
<1>15. \A i \in 1..n : /\ first + i - 1 \in 1..N /\ spans[i] = Part(first + i - 1)
                       /\ spans[i].chunk = cs[first + i - 1]
  BY <1>2, <1>12, <1>13
<1> HIDE DEF n
<1>16. ASSUME NEW i \in 1..n, NEW k, k = first + i - 1
       PROVE  E[k - 1] >= a /\ E[k] <= b /\ spans[i].len = E[k] - E[k - 1]
  <2>1. /\ k \in 1..N /\ k - 1 \in 0..N /\ k \in 0..N
        /\ spans[i] = Part(k) /\ spans[i].whole
    BY <1>5, <1>14, <1>15, <1>16
  <2>2. /\ From(k) = IF E[k - 1] < a THEN a ELSE E[k - 1]
        /\ To(k) = IF E[k] > b THEN b ELSE E[k]
    BY <1>4, <1>5, <2>1
  <2> DEFINE from == From(k)
             to == To(k)
  <2>3. spans[i].len = to - from /\ to - from = Len(cs[k])
    <3>1. Part(k).len = to - from /\ Part(k).whole = (to - from = Len(cs[k]))
      OBVIOUS
    <3> QED
      BY <2>1, <3>1
  <2> HIDE DEF from, to
  <2>4. /\ from = IF E[k - 1] < a THEN a ELSE E[k - 1]
        /\ to = IF E[k] > b THEN b ELSE E[k]
    BY <2>2 DEF from, to
  <2>5. E[k] = E[k - 1] + Len(cs[k]) /\ E[k] \in Nat /\ E[k - 1] \in Nat
    BY <1>3, <1>6, <2>1
  <2> QED
    BY <2>3, <2>4, <2>5
<1>17. E[first - 1] = a
  <2>1. /\ first - 1 \in 0..N /\ first \in Nat /\ 1 \in 1..n /\ first = first + 1 - 1
    BY <1>2, <1>13, <1>14
  <2>2. E[first - 1] >= a
    BY <1>16, <2>1
  <2>3. CASE first = 1
    BY <1>6, <2>2, <2>3
  <2>4. CASE first # 1
    <3>1. /\ first - 1 \in 1..N /\ first - 2 \in 0..(first - 1) /\ first - 1 \in 0..N
          /\ (first - 1) - 1 = first - 2
      BY <1>2, <1>13, <2>4
    <3>2. E[first - 2] <= E[first - 1]
      BY <1>7, <3>1
    <3>3. first - 1 \notin held
      <4>1. ~(first <= first - 1)
        BY <2>1
      <4> QED
        BY <1>10, <4>1
    <3>4. ~(a < E[first - 1] /\ b > E[first - 2])
      BY <1>8, <3>1, <3>3
    <3>5. E[first - 1] \in Nat /\ E[first - 2] \in Nat
      <4>1. first - 2 \in 0..N
        BY <1>2, <3>1
      <4> QED
        BY <1>3, <3>1, <4>1
    <3> QED
      BY <1>13, <2>2, <3>2, <3>4, <3>5
  <2> QED
    BY <2>3, <2>4
<1>18. SumLen(spans) = E[last] - E[first - 1]
  <2> DEFINE e == [i \in 0..n |-> E[first + i - 1]]
  <2>1. \A i \in 0..n : first + i - 1 \in 0..N /\ e[i] = E[first + i - 1] /\ e[i] \in Int
    <3>1. \A i \in 0..n : first + i - 1 \in 0..N
      BY <1>2, <1>13 DEF n
    <3> QED
      BY <1>3, <3>1
  <2>2. e \in [0..n -> Int]
    BY <2>1
  <2>3. \A i \in 1..n : spans[i].len = e[i] - e[i - 1]
    <3> SUFFICES ASSUME NEW i \in 1..n PROVE spans[i].len = e[i] - e[i - 1]
      OBVIOUS
    <3>1. i \in 0..n /\ i - 1 \in 0..n /\ first + (i - 1) - 1 = (first + i - 1) - 1
      BY <1>13, <1>14
    <3>2. spans[i].len = E[first + i - 1] - E[(first + i - 1) - 1]
      BY <1>16
    <3> QED
      BY <2>1, <3>1, <3>2
  <2> HIDE DEF e
  <2>4. SumLen(spans) = e[n] - e[0]
    BY <1>14, <2>2, <2>3, SumTelescopes
  <2>5. 0 \in 0..n /\ n \in 0..n /\ first + n - 1 = last /\ first + 0 - 1 = first - 1
    BY <1>2, <1>13, <1>14 DEF n
  <2> QED
    BY <2>1, <2>4, <2>5
<1>19. E[last] = b /\ last \in 0..N
  <2>1. last \in 0..N /\ E[last] \in Nat
    BY <1>3, <1>5, <1>13
  <2> QED
    BY <1>17, <1>18, <2>1
<1> DEFINE F == FlattenSeq(cs)
           t == [i \in DOMAIN spans |-> spans[i].chunk]
           h == [i \in 0..n |-> [x \in 1..(E[first + i - 1] - a) |-> F[a + x]]]
<1>20. F = g[N] /\ F \in Seq(U) /\ Len(F) = E[N] /\ b <= E[N]
  <2>1. N \in 0..N
    BY <1>2
  <2> QED
    BY <1>1, <1>3, <1>7, <1>19, <2>1 DEF N
<1>21. \A i \in 1..n : t[i] = cs[first + i - 1] /\ t[i] \in Seq(U)
  BY <1>2, <1>14, <1>15
<1>22. t \in Seq(Seq(U)) /\ Len(t) = n
  <2>1. t = [i \in 1..n |-> t[i]]
    BY <1>14
  <2> HIDE DEF t
  <2>2. t \in [1..n -> Seq(U)]
    BY <1>21, <2>1
  <2> QED
    BY <1>14, <2>2
<1>23. \A i \in 0..n : h[i] = [x \in 1..(E[first + i - 1] - a) |-> F[a + x]]
  OBVIOUS
<1>24. DOMAIN h = 0..n
  OBVIOUS
<1> HIDE DEF F, t, h
<1>25. h[0] = <<>>
  <2>1. 0 \in 0..n /\ first + 0 - 1 = first - 1 /\ E[first + 0 - 1] - a = 0
    BY <1>13, <1>14, <1>17
  <2>2. h[0] = [x \in 1..0 |-> F[a + x]]
    BY <1>23, <2>1
  <2> QED
    BY <2>2
<1>26. ASSUME NEW i \in 1..n PROVE h[i] = h[i - 1] \o t[i]
  <2> DEFINE k == first + i - 1
             p == h[i - 1]
             l == E[k - 1] - a
             m == E[k] - a
  <2>1. /\ i \in 0..n /\ i - 1 \in 0..n /\ first + (i - 1) - 1 = k - 1 /\ k \in 1..N
        /\ k - 1 \in 0..N /\ k \in 0..N /\ k - 1 \in 0..k
    <3>0. first \in Int /\ i \in Int
      BY <1>2, <1>13, <1>14
    <3>2. k \in 1..N
      BY <1>15
    <3>3. i \in 0..n /\ i - 1 \in 0..n
      BY <1>14
    <3>4. first + (i - 1) - 1 = k - 1
      BY <3>0
    <3>1. i \in 0..n /\ i - 1 \in 0..n /\ first + (i - 1) - 1 = k - 1 /\ k \in 1..N
      BY <3>2, <3>3, <3>4
    <3> QED
      BY <1>2, <3>1
  <2>2. E[k - 1] >= a /\ E[k] = E[k - 1] + Len(cs[k]) /\ E[k - 1] \in Nat /\ Len(cs[k]) \in Nat
        /\ E[k] \in Nat
    BY <1>3, <1>6, <1>16, <2>1
  <2>3. h[i] = [x \in 1..m |-> F[a + x]] /\ p = [x \in 1..l |-> F[a + x]]
    BY <1>23, <2>1
  <2>4. t[i] = cs[k] /\ cs[k] \in Seq(U)
    BY <1>2, <1>21, <2>1
  <2>5. g[k] = g[k - 1] \o cs[k]
    BY <1>1, <2>1 DEF Joined, N
  <2>6. \A y \in 1..Len(cs[k]) : cs[k][y] = F[E[k - 1] + y]
    <3> SUFFICES ASSUME NEW y \in 1..Len(cs[k]) PROVE cs[k][y] = F[E[k - 1] + y]
      OBVIOUS
    <3>1. g[k - 1] \in Seq(U) /\ Len(g[k - 1]) = E[k - 1]
      BY <1>1, <1>3, <2>1 DEF N
    <3>5. (g[k - 1] \o cs[k])[Len(g[k - 1]) + y] = cs[k][y]
      BY <1>30, <2>4, <3>1, Zenon
    <3>2. cs[k][y] = g[k][E[k - 1] + y]
      BY <2>5, <3>1, <3>5
    <3>6. y \in Nat /\ y <= Len(cs[k])
      BY <2>2
    <3>7. N \in 0..N /\ k \in 0..N
      BY <1>2, <2>1
    <3>8. \A t1, t2, t3 \in Nat : t2 = t1 + t3 /\ y <= t3 => t1 + y \in 1..t2
      BY <3>6
    <3>9. E[k - 1] + y \in 1..E[k]
      BY <2>2, <3>6, <3>8
    <3>3. N \in 0..N /\ k \in 0..N /\ E[k - 1] + y \in 1..E[k]
      BY <3>7, <3>9
    <3>4. g[N][E[k - 1] + y] = g[k][E[k - 1] + y]
      BY <1>7, <3>3
    <3> QED
      BY <1>20, <3>2, <3>4
  <2>7. l \in Nat /\ m \in Nat /\ m = l + Len(cs[k]) /\ E[k - 1] = a + l /\ E[k] = a + m
    <3> DEFINE x == E[k - 1]
               y == E[k]
               z == Len(cs[k])
    <3>1. x \in Nat /\ y \in Nat /\ z \in Nat /\ x >= a /\ y = x + z
      BY <2>2
    <3>2. l = x - a /\ m = y - a
      OBVIOUS
    <3> HIDE DEF x, y, z, l, m
    <3>3. l \in Nat /\ m \in Nat /\ m = l + z /\ x = a + l /\ y = a + m
      BY <3>1, <3>2
    <3> QED
      BY <3>3 DEF x, y, z
  <2> HIDE DEF k, l, m
  <2>8. p = [x \in 1..l |-> F[a + x]] /\ h[i] = [x \in 1..m |-> F[a + x]]
    BY <2>3
  <2> HIDE DEF p
  <2>9. \A x \in 1..m : F[a + x] \in U
    <3>1. E[N] \in Nat /\ a + m = E[k] /\ E[k] <= E[N]
      <4>1. N \in 0..N /\ k \in 0..N
        BY <1>2, <2>1
      <4>2. E[N] \in Nat /\ E[k] <= E[N]
        BY <1>3, <1>7, <4>1
      <4> QED
        BY <2>7, <4>2
    <3>2. \A x \in 1..m : a + x \in 1..E[N]
      BY <2>7, <3>1
    <3>3. \A y \in 1..E[N] : F[y] \in U
      BY <1>20
    <3> QED
      BY <3>2, <3>3
  <2>10. p \in Seq(U) /\ Len(p) = l
    <3>1. \A x \in 1..l : x \in 1..m
      BY <2>7
    <3>2. p \in [1..l -> U]
      BY <2>8, <2>9, <3>1
    <3> QED
      BY <2>7, <3>2
  <2>11. /\ p \o cs[k] \in Seq(U) /\ Len(p \o cs[k]) = m
         /\ \A x \in 1..l : (p \o cs[k])[x] = p[x]
         /\ \A y \in 1..Len(cs[k]) : (p \o cs[k])[l + y] = cs[k][y]
    <3>1. /\ p \o cs[k] \in Seq(U) /\ Len(p \o cs[k]) = Len(p) + Len(cs[k])
          /\ \A x \in 1..Len(p) : (p \o cs[k])[x] = p[x]
          /\ \A y \in 1..Len(cs[k]) : (p \o cs[k])[Len(p) + y] = cs[k][y]
      BY <1>30, <2>4, <2>10, Zenon
    <3> QED
      BY <2>7, <2>10, <3>1
  <2>12. \A x \in 1..m : (p \o cs[k])[x] = F[a + x]
    <3> SUFFICES ASSUME NEW x \in 1..m PROVE (p \o cs[k])[x] = F[a + x]
      OBVIOUS
    <3>1. CASE x \in 1..l
      BY <2>8, <2>11, <3>1
    <3>2. CASE x \notin 1..l
      <4>1. x - l \in 1..Len(cs[k]) /\ l + (x - l) = x /\ (a + l) + (x - l) = a + x
        BY <2>7, <2>4, <3>2
      <4>2. (p \o cs[k])[x] = cs[k][x - l]
        BY <2>11, <4>1
      <4>3. cs[k][x - l] = F[a + x]
        BY <2>6, <2>7, <4>1
      <4> QED
        BY <4>2, <4>3
    <3> QED
      BY <3>1, <3>2
  <2>13. p \o cs[k] = [x \in 1..m |-> F[a + x]]
    <3>2. \A s \in Seq(U) : s = [x \in 1..Len(s) |-> s[x]]
      OBVIOUS
    <3>1. p \o cs[k] = [x \in 1..m |-> (p \o cs[k])[x]]
      BY <2>11, <3>2, Zenon
    <3> QED
      BY <2>12, <3>1
  <2> QED
    BY <2>4, <2>8, <2>13 DEF p
<1>27. Joined(t, h)
  BY <1>22, <1>24, <1>25, <1>26 DEF Joined
<1>28. FlattenSeq(t) = h[n]
  BY <1>22, <1>27, JoinedIs
<1>29. h[n] = [x \in 1..(b - a) |-> F[a + x]]
  <2>1. n \in 0..n /\ first + n - 1 = last
    BY <1>2, <1>13, <1>14 DEF n
  <2> QED
    BY <1>19, <1>23, <2>1
<1> QED
  BY <1>20, <1>28, <1>29 DEF F, t, ChunksOf, UnitsFrom

-----------------------------------------------------------------------------
(* What goes to the chunks is the stream, unit by unit.                       *)

Kinds == {"name", "entry", "payload", "data", "goodbye"}
Names == {Walk[i][2] : i \in DOMAIN Walk} \cup {"", "dir", "file"}
Units == Kinds \X Names \X Int

\* The stream so far: what is in chunks, and what is held back.
Stream(r) == FlattenSeq(r.assigned) \o r.current

Clear(r) == Writable(r) /\ r.assigned \in Seq(Seq(Units)) /\ r.current \in Seq(Units)

LEMMA StreamIs ==
  ASSUME NEW r, Clear(r)
  PROVE  FlattenSeq(r.assigned) \in Seq(Units) /\ Stream(r) \in Seq(Units)
         /\ Len(Stream(r)) = Len(FlattenSeq(r.assigned)) + Len(r.current)
         /\ Len(FlattenSeq(r.assigned)) \in Nat /\ Len(r.current) \in Nat
         /\ \A i \in 1..Len(FlattenSeq(r.assigned)) : Stream(r)[i] = FlattenSeq(r.assigned)[i]
<1> DEFINE F == FlattenSeq(r.assigned)
           c == r.current
<1>1. F \in Seq(Units) /\ c \in Seq(Units)
  <2>1. r.assigned \in Seq(Seq(Units)) /\ <<>> \in Seq(Units)
    BY DEF Clear
  <2> QED
    BY <2>1, FlattenAppend DEF Clear
<1>2. Stream(r) = F \o c
  BY DEF Stream
<1> HIDE DEF F, c
<1> QED
  BY <1>1, <1>2, ConcatIs DEF F, c

\* A chunk is assigned, or there is an error.
LEMMA CommitAppends ==
  ASSUME NEW r, Writable(r), NEW c, NEW q, q = CommitChunk(r, c), ~q.err
  PROVE  /\ q.assigned = Append(r.assigned, c) /\ q.current = r.current
         /\ q.written = r.written /\ DOMAIN q = RunFields
<1> DEFINE as == Append(r.assigned, c)
           kn == r.known \cup {c}
           fl == r.flying \cup {c}
<1>1. q \in {[r EXCEPT !.assigned = as], [r EXCEPT !.err = TRUE],
             [r EXCEPT !.assigned = as, !.known = kn, !.flying = fl]}
  BY DEF CommitChunk
<1> HIDE DEF as, kn, fl
<1>2. q # [r EXCEPT !.err = TRUE]
  BY DEF Writable, RunFields
<1>3. CASE q = [r EXCEPT !.assigned = as]
  BY <1>3 DEF Writable, RunFields, as
<1>4. CASE q = [r EXCEPT !.assigned = as, !.known = kn, !.flying = fl]
  BY <1>4 DEF Writable, RunFields, as
<1> QED
  BY <1>1, <1>2, <1>3, <1>4

\* The end of a chunk does not change the stream.
LEMMA FlushSpells ==
  ASSUME NEW r, Clear(r), NEW q, q = FlushPending(r), ~q.err
  PROVE  Clear(q) /\ Stream(q) = Stream(r) /\ q.written = r.written
<1> DEFINE s == CommitChunk(r, r.current)
<1>1. Writable(r) /\ r.assigned \in Seq(Seq(Units)) /\ r.current \in Seq(Units)
  BY DEF Clear
<1>2. CASE r.current = <<>>
  <2>1. q = r
    BY <1>2 DEF FlushPending
  <2> QED
    BY <2>1
<1>3. CASE r.current # <<>>
  <2>1. q = [s EXCEPT !.current = <<>>]
    BY <1>3 DEF FlushPending
  <2>2. DOMAIN s = RunFields
    BY <1>1, CommitWrites DEF Wrote
  <2> HIDE DEF s
  <2>3. ~s.err
    BY <2>1, <2>2 DEF RunFields
  <2>4. s.assigned = Append(r.assigned, r.current) /\ s.written = r.written
    BY <1>1, <2>3, CommitAppends DEF s
  <2>5. q.assigned = Append(r.assigned, r.current) /\ q.written = r.written /\ q.current = <<>>
    BY <2>1, <2>2, <2>4 DEF RunFields
  <2>6. Writable(q)
    BY <1>1, FlushWrites DEF Wrote, Writable
  <2>7. /\ FlattenSeq(q.assigned) = FlattenSeq(r.assigned) \o r.current
        /\ FlattenSeq(r.assigned) \in Seq(Units)
    BY <1>1, <2>5, FlattenAppend
  <2>8. q.assigned \in Seq(Seq(Units)) /\ q.current \in Seq(Units)
    BY <1>1, <2>5
  <2>9. \A F, c \in Seq(Units) : (F \o c) \o <<>> = F \o c
    OBVIOUS
  <2>10. Stream(q) = Stream(r)
    BY <1>1, <2>5, <2>7, <2>9 DEF Stream
  <2> QED
    BY <2>5, <2>6, <2>8, <2>10 DEF Clear
<1> QED
  BY <1>2, <1>3

LEMMA UnitSpells ==
  ASSUME NEW r, Clear(r), NEW units \in Seq(Units), NEW k \in Nat \ {0},
         NEW q, q = Unit(r, units, k), ~q.err
  PROVE  /\ Clear(q) /\ q.written = r.written
         /\ k > Len(units) => Stream(q) = Stream(r)
         /\ k <= Len(units) => Stream(q) = Append(Stream(r), units[k])
<1> DEFINE u == units[k]
           full == [r EXCEPT !.current = Append(@, u)]
           cur == Append(r.current, u)
<1>0. Writable(r) /\ DOMAIN r = RunFields /\ r.assigned \in Seq(Seq(Units))
      /\ r.current \in Seq(Units) /\ Len(units) \in Nat
  BY DEF Clear, Writable
<1>1. q = CASE r.err \/ k > Len(units) -> r
            [] ~r.err /\ k <= Len(units) /\ u \in cuts -> FlushPending(full)
            [] OTHER -> full
  BY DEF Unit
<1>2. CASE k > Len(units)
  <2>1. q = r
    BY <1>1, <1>2
  <2> QED
    BY <1>0, <1>2, <2>1
<1>3. CASE ~(k > Len(units))
  <2>1. k <= Len(units) /\ u \in Units
    BY <1>0, <1>3
  <2>2. q = r \/ q = FlushPending(full) \/ q = full
    BY <1>1
  <2>3. r.err => q = r
    BY <1>1
  <2>4. ~r.err
    BY <2>3
  <2>5. q = FlushPending(full) \/ q = full
    BY <1>0, <1>1, <1>3, <2>1, <2>4
  <2>6. full = [r EXCEPT !.current = cur]
    BY <1>0 DEF RunFields
  <2> HIDE DEF u
  <2>7. cur \in Seq(Units) /\ \A F \in Seq(Units) : F \o cur = Append(F \o r.current, u)
    <3>1. \A c, F \in Seq(Units), v \in Units :
            Append(c, v) \in Seq(Units) /\ F \o Append(c, v) = Append(F \o c, v)
      OBVIOUS
    <3> QED
      BY <1>0, <2>1, <3>1, Zenon
  <2> HIDE DEF cur, full
  <2>8. Writable(full) /\ full.current = cur /\ full.assigned = r.assigned
        /\ full.written = r.written
    BY <1>0, <2>6 DEF Writable, RunFields
  <2>9. Clear(full)
    BY <1>0, <2>7, <2>8 DEF Clear
  <2>10. Stream(full) = Append(Stream(r), u)
    <3>1. FlattenSeq(r.assigned) \in Seq(Units)
      BY StreamIs
    <3> QED
      BY <2>7, <2>8, <3>1 DEF Stream
  <2>11. CASE q = full
    BY <1>3, <2>8, <2>9, <2>10, <2>11 DEF u
  <2>12. CASE q = FlushPending(full)
    BY <1>3, <2>8, <2>9, <2>10, <2>12, FlushSpells DEF u
  <2> QED
    BY <2>5, <2>11, <2>12
<1> QED
  BY <1>2, <1>3

LEMMA FewAppended ==
  ASSUME NEW U, NEW s \in Seq(U), NEW t \in Seq(U), Len(t) <= 3
  PROVE  /\ Len(t) = 1 => Append(s, t[1]) = s \o t
         /\ Len(t) = 2 => Append(Append(s, t[1]), t[2]) = s \o t
         /\ Len(t) = 3 => Append(Append(Append(s, t[1]), t[2]), t[3]) = s \o t
<1>0. \A p, q \in Seq(U), x \in U : p \o Append(q, x) = Append(p \o q, x) /\ p \o <<>> = p
  OBVIOUS
<1>1. \A i \in 1..Len(t) : t[i] \in U
  OBVIOUS
<1>2. ASSUME Len(t) = 1 PROVE Append(s, t[1]) = s \o t
  <2> DEFINE a == Append(<<>>, t[1])
  <2>1. t = a
    BY <1>2
  <2>2. t[1] \in U /\ <<>> \in Seq(U)
    BY <1>1, <1>2
  <2>3. s \o a = Append(s, t[1])
    BY <1>0, <2>2
  <2> HIDE DEF a
  <2> QED
    BY <2>1, <2>3
<1>3. ASSUME Len(t) = 2 PROVE Append(Append(s, t[1]), t[2]) = s \o t
  <2> DEFINE a == Append(<<>>, t[1])
  <2>1. t = Append(a, t[2])
    BY <1>3
  <2>2. t[1] \in U /\ t[2] \in U /\ <<>> \in Seq(U) /\ a \in Seq(U)
    BY <1>1, <1>3
  <2>3. s \o a = Append(s, t[1])
    BY <1>0, <2>2
  <2> HIDE DEF a
  <2> QED
    BY <1>0, <2>1, <2>2, <2>3
<1>4. ASSUME Len(t) = 3 PROVE Append(Append(Append(s, t[1]), t[2]), t[3]) = s \o t
  <2> DEFINE a == Append(<<>>, t[1])
             b == Append(a, t[2])
  <2>1. t = Append(b, t[3])
    BY <1>4
  <2>2. /\ t[1] \in U /\ t[2] \in U /\ t[3] \in U /\ <<>> \in Seq(U)
        /\ a \in Seq(U) /\ b \in Seq(U)
    BY <1>1, <1>4
  <2>3. s \o a = Append(s, t[1])
    BY <1>0, <2>2
  <2> HIDE DEF a
  <2>4. s \o b = Append(s \o a, t[2])
    BY <1>0, <2>2
  <2> HIDE DEF b
  <2> QED
    BY <1>0, <2>1, <2>2, <2>3, <2>4
<1> QED
  BY <1>2, <1>3, <1>4

\* One, two or three units are written.
LEMMA DataSpells ==
  ASSUME NEW r, Clear(r), NEW units \in Seq(Units), Len(units) \in 1..3,
         NEW q, q = HandleData(r, units), ~q.err
  PROVE  Clear(q) /\ Stream(q) = Stream(r) \o units /\ q.written = r.written
<1> DEFINE one == Unit(r, units, 1)
           two == Unit(one, units, 2)
           three == Unit(two, units, 3)
           n == Len(units)
<1>0. Writable(r) /\ n \in 1..3 /\ Stream(r) \in Seq(Units)
  BY StreamIs DEF Clear
<1>1. HandleData(r, units) = IF r.cancelled THEN [r EXCEPT !.err = TRUE] ELSE three
  BY DEF HandleData, Unit
<1>2. [r EXCEPT !.err = TRUE].err
  BY <1>0 DEF Writable, RunFields
<1>3. q = three
  BY <1>1, <1>2
<1>4. Writable(one)
  BY <1>0, UnitWrites DEF Wrote, Writable
<1> HIDE DEF one
<1>5. Writable(two) /\ (one.err => two.err)
  BY <1>4, UnitWrites DEF Wrote, Writable
<1> HIDE DEF two
<1>6. two.err => three.err
  BY <1>5, UnitWrites DEF Wrote
<1> HIDE DEF three
<1>7. ~three.err /\ ~two.err /\ ~one.err
  BY <1>3, <1>5, <1>6
<1>8. /\ Clear(one) /\ one.written = r.written
      /\ 1 > n => Stream(one) = Stream(r)
      /\ 1 <= n => Stream(one) = Append(Stream(r), units[1])
  BY <1>7, UnitSpells DEF one
<1>9. /\ Clear(two) /\ two.written = one.written
      /\ 2 > n => Stream(two) = Stream(one)
      /\ 2 <= n => Stream(two) = Append(Stream(one), units[2])
  BY <1>7, <1>8, UnitSpells DEF two
<1>10. /\ Clear(three) /\ three.written = two.written
       /\ 3 > n => Stream(three) = Stream(two)
       /\ 3 <= n => Stream(three) = Append(Stream(two), units[3])
  BY <1>7, <1>9, UnitSpells DEF three
<1>11. Stream(three) = Stream(r) \o units
  <2>1. /\ n = 1 => Append(Stream(r), units[1]) = Stream(r) \o units
        /\ n = 2 => Append(Append(Stream(r), units[1]), units[2]) = Stream(r) \o units
        /\ n = 3 => Append(Append(Append(Stream(r), units[1]), units[2]), units[3])
                      = Stream(r) \o units
    <3>1. Stream(r) \in Seq(Units) /\ units \in Seq(Units) /\ Len(units) <= 3
      <4>1. \A k \in 1..3 : k <= 3
        OBVIOUS
      <4> QED
        BY <1>0, <4>1
    <3> HIDE DEF n
    <3> QED
      BY <3>1, FewAppended, Zenon DEF n
  <2>2. n = 1 \/ n = 2 \/ n = 3
    BY <1>0
  <2> QED
    <3>1. ASSUME n = 1 PROVE Stream(three) = Stream(r) \o units
      <4>1. 1 <= n /\ 2 > n /\ 3 > n
        BY <3>1
      <4> QED
        BY <1>8, <1>9, <1>10, <2>1, <3>1, <4>1, Zenon
    <3>2. ASSUME n = 2 PROVE Stream(three) = Stream(r) \o units
      <4>1. 1 <= n /\ 2 <= n /\ 3 > n
        BY <3>2
      <4> QED
        BY <1>8, <1>9, <1>10, <2>1, <3>2, <4>1, Zenon
    <3>3. ASSUME n = 3 PROVE Stream(three) = Stream(r) \o units
      <4>1. 1 <= n /\ 2 <= n /\ 3 <= n
        BY <3>3
      <4> QED
        BY <1>8, <1>9, <1>10, <2>1, <3>3, <4>1, Zenon
    <3> QED
      BY <2>2, <3>1, <3>2, <3>3
<1> QED
  BY <1>3, <1>8, <1>9, <1>10, <1>11

\* A write without an error appends its units, and counts them.
LEMMA EmitSpells ==
  ASSUME NEW r, Clear(r), NEW units \in Seq(Units), Len(units) \in 1..3,
         NEW e, e = Emit(r, units), ~e.err
  PROVE  /\ ~r.err /\ Clear(e) /\ Stream(e) = Stream(r) \o units
         /\ e.written = r.written + Len(units)
<1> DEFINE q == Feed(r.recorder, units)
           w == r.written + Len(units)
           s == [r EXCEPT !.recorder = q, !.written = w]
           b == [r EXCEPT !.err = TRUE, !.recorder = q]
<1> HIDE DEF q
<1>0. Writable(r) /\ DOMAIN r = RunFields
  BY DEF Clear, Writable
<1>1. e = CASE r.err -> r
            [] ~r.err /\ q.bad -> b
            [] OTHER -> HandleData(s, units)
  <2>1. [r EXCEPT !.recorder = q, !.written = @ + Len(units)] = s
    BY <1>0 DEF RunFields
  <2> QED
    BY <2>1 DEF Emit, q
<1> HIDE DEF w
<1>2. Writable(s) /\ s.assigned = r.assigned /\ s.current = r.current /\ s.written = w /\ b.err
  BY <1>0 DEF Writable, RunFields
<1> HIDE DEF s, b
<1>3. Clear(s) /\ Stream(s) = Stream(r)
  BY <1>2 DEF Clear, Stream
<1>4. ~r.err
  BY <1>1
<1>5. e = HandleData(s, units)
  BY <1>1, <1>2, <1>4
<1> QED
  BY <1>2, <1>3, <1>4, <1>5, DataSpells DEF w

-----------------------------------------------------------------------------
(* What a run records of a file is its entry, as long as its walk is clean.   *)

\* The file that is read: its entry so far is the end of the stream.  D is the
\* disk and n the number of events: a version that is on the disk is not on it
\* again once it was replaced.
Entry(r, D, n) ==
  LET s == Stream(r)
  IN  /\ r.file \in Files /\ r.read \in Nat /\ r.begin \in Nat
      /\ r.stat.size \in Nat /\ r.stat.ver \in 1..(n + 1)
      /\ Len(s) = r.begin + 3 + r.read
      /\ s[r.begin + 1] = Named(r.file) /\ s[r.begin + 2] = FileEntry
      /\ s[r.begin + 3] = Payload(r.stat.size)
      /\ D[r.file].ver = r.stat.ver =>
           \A i \in 1..r.read : s[r.begin + 3 + i] = Data(r.file, r.stat.ver)

WholeEntry(rec) ==
  (\A i \in DOMAIN rec.spans : rec.spans[i].whole) /\ SumLen(rec.spans) = rec.len

\* A record holds the entry of one version of the file, when it has all of it.
Spelled(rec, f) ==
  rec.spans # <<>> =>
    /\ rec.len # 0
    /\ WholeEntry(rec) =>
         FlattenSeq([i \in DOMAIN rec.spans |-> rec.spans[i].chunk])
           = FileHeader(f, rec.size) \o [i \in 1..rec.size |-> Data(f, rec.ver)]

Spells(r, D, n) ==
  ~r.err /\ r.marks = {} =>
    /\ r.pc \in {"walk", "read"} => Clear(r) /\ r.written = Len(Stream(r))
    /\ r.pc = "read" => Entry(r, D, n)
    /\ r.pc # "failed" => \A f \in Files : Spelled(r.live[f], f)

\* The snapshot that a run has just committed is the last one.
Commits(r, ss) ==
  /\ r.pc \in {"finish", "save", "verify"} => ~r.err
  /\ r.pc \in {"save", "verify"} => ss[Len(ss)].marks = r.marks

Dated(D, n) == \A f \in Files : D[f] = NoFile \/ D[f].ver \in 1..(n + 1)

Faithful ==
  /\ events \in Nat /\ Dated(disk, events)
  /\ run # Idle => Spells(run, disk, events) /\ Commits(run, snaps)

\* A run that differs in nothing the stream is about.
Twin(r, q) ==
  /\ DOMAIN q = RunFields /\ q.pc = r.pc /\ q.err = r.err /\ q.marks = r.marks
  /\ q.live = r.live /\ q.assigned = r.assigned /\ q.current = r.current
  /\ q.written = r.written /\ q.file = r.file /\ q.read = r.read /\ q.begin = r.begin
  /\ q.stat = r.stat

LEMMA SpellsAlike ==
  ASSUME NEW r, NEW q, NEW D, NEW n, Spells(r, D, n), Twin(r, q)
  PROVE  Spells(q, D, n)
<1>1. Stream(q) = Stream(r)
  BY DEF Stream, Twin
<1>2. Clear(r) => Clear(q)
  BY DEF Clear, Writable, Twin
<1>3. Entry(r, D, n) => Entry(q, D, n)
  BY <1>1 DEF Entry, Twin
<1> QED
  BY <1>1, <1>2, <1>3 DEF Spells, Twin

LEMMA FurtherTwin ==
  ASSUME NEW r, Writable(r)
  PROVE  Twin(r, Further(r))
BY DEF Further, Twin, Writable, RunFields

\* A run that is over, or past the walk.
LEMMA SpellsFailed ==
  ASSUME NEW r, NEW D, NEW n, r.pc = "failed"
  PROVE  Spells(r, D, n)
BY DEF Spells

LEMMA SpellsPast ==
  ASSUME NEW r, NEW q, NEW D, NEW n, Spells(r, D, n), r.pc # "failed",
         q.pc \notin {"walk", "read"}, r.err => q.err, q.marks = r.marks, q.live = r.live
  PROVE  Spells(q, D, n)
BY DEF Spells

\* Later the disk has other versions: old ones do not come back.
LEMMA SpellsLater ==
  ASSUME NEW r, NEW D, NEW n \in Nat, Spells(r, D, n), NEW E, NEW m \in {n, n + 1},
         \A f \in Files : E[f].ver = D[f].ver \/ E[f].ver = 0 \/ E[f].ver = n + 2
  PROVE  Spells(r, E, m)
<1>1. ASSUME Entry(r, D, n) PROVE Entry(r, E, m)
  <2>1. r.file \in Files /\ r.stat.ver \in 1..(n + 1)
    BY <1>1 DEF Entry
  <2>2. r.stat.ver \in 1..(m + 1)
    BY <2>1
  <2>3. E[r.file].ver = r.stat.ver => D[r.file].ver = r.stat.ver
    BY <2>1
  <2> QED
    BY <1>1, <2>2, <2>3 DEF Entry
<1> QED
  BY <1>1 DEF Spells

\* What is written goes to the end of the stream.
LEMMA EmitExtends ==
  ASSUME NEW r, Clear(r), r.written = Len(Stream(r)),
         NEW units \in Seq(Units), Len(units) \in 1..3,
         NEW e, e = Emit(r, units), ~e.err
  PROVE  /\ ~r.err /\ Clear(e) /\ e.written = Len(Stream(e))
         /\ Len(Stream(r)) \in Nat /\ Len(Stream(e)) = Len(Stream(r)) + Len(units)
         /\ \A i \in 1..Len(Stream(r)) : Stream(e)[i] = Stream(r)[i]
         /\ \A i \in 1..Len(units) : Stream(e)[Len(Stream(r)) + i] = units[i]
<1>1. /\ ~r.err /\ Clear(e) /\ Stream(e) = Stream(r) \o units
      /\ e.written = r.written + Len(units)
  BY EmitSpells
<1>2. Stream(r) \in Seq(Units)
  BY StreamIs
<1> DEFINE s == Stream(r)
           t == Stream(e)
<1>3. s \in Seq(Units) /\ t = s \o units /\ r.written = Len(s)
  BY <1>1, <1>2
<1> HIDE DEF s, t
<1>4. /\ Len(t) = Len(s) + Len(units) /\ Len(s) \in Nat
      /\ \A i \in 1..Len(s) : t[i] = s[i]
      /\ \A i \in 1..Len(units) : t[Len(s) + i] = units[i]
  BY <1>3, ConcatIs
<1> QED
  BY <1>1, <1>3, <1>4 DEF s, t

LEMMA EmitsAndSpells ==
  ASSUME NEW units \in Seq(Units), Len(units) \in 1..3, NEW D, NEW n,
         RunTyped(run), run.pc = "walk", Spells(run, D, n)
  PROVE  Spells(Further(Emit(run, units)), D, n)
<1> DEFINE e == Emit(run, units)
<1>1. Wrote(run, e, {}) /\ Writable(e)
  BY EmitWrites DEF RunTyped, Wrote, Writable
<1>2. ASSUME ~e.err, e.marks = {}
      PROVE  Clear(e) /\ e.written = Len(Stream(e))
             /\ \A f \in Files : Spelled(e.live[f], f)
  <2>1. ~run.err /\ run.marks = {} /\ e.live = run.live
    BY <1>1, <1>2 DEF Wrote, Kept
  <2>2. Clear(run) /\ run.written = Len(Stream(run)) /\ \A f \in Files : Spelled(run.live[f], f)
    BY <2>1 DEF Spells
  <2> HIDE DEF e
  <2>3. Clear(e) /\ e.written = Len(Stream(e))
    BY <1>2, <2>2, EmitExtends DEF e
  <2> QED
    BY <2>1, <2>2, <2>3
<1>3. e.pc = "walk"
  BY <1>1 DEF Wrote, Kept
<1> HIDE DEF e
<1>4. Spells(e, D, n)
  BY <1>2, <1>3 DEF Spells
<1> QED
  BY <1>1, <1>4, FurtherTwin, SpellsAlike DEF e

LEMMA Triples ==
  ASSUME NEW S, NEW T, NEW V, NEW x \in S, NEW y \in T, NEW z \in V
  PROVE  <<x, y, z>> \in S \X T \X V
OBVIOUS

\* The units of the stream of this source.
LEMMA UnitsAre ==
  ASSUME NEW f \in Names, NEW k \in Int
  PROVE  /\ Named(f) \in Units /\ DirEntry \in Units /\ FileEntry \in Units
         /\ Payload(k) \in Units /\ Data(f, k) \in Units /\ Goodbye \in Units
<1>1. /\ "name" \in Kinds /\ "entry" \in Kinds /\ "payload" \in Kinds /\ "data" \in Kinds
      /\ "goodbye" \in Kinds
  BY DEF Kinds
<1>2. "" \in Names /\ "dir" \in Names /\ "file" \in Names
  BY DEF Names
<1>3. 0 \in Int
  OBVIOUS
<1> QED
  BY <1>1, <1>2, <1>3, Triples DEF Named, DirEntry, FileEntry, Payload, Data, Goodbye, Units

LEMMA FewInSeq ==
  ASSUME NEW U, NEW x \in U, NEW y \in U, NEW z \in U
  PROVE  /\ <<x>> \in Seq(U) /\ Len(<<x>>) = 1 /\ <<x>>[1] = x
         /\ <<x, y>> \in Seq(U) /\ Len(<<x, y>>) = 2
         /\ <<x, y, z>> \in Seq(U) /\ Len(<<x, y, z>>) = 3
         /\ <<x, y, z>>[1] = x /\ <<x, y, z>>[2] = y /\ <<x, y, z>>[3] = z
OBVIOUS

LEMMA HeaderUnits ==
  ASSUME NEW f \in Names, NEW k \in Nat
  PROVE  /\ FileHeader(f, k) \in Seq(Units) /\ Len(FileHeader(f, k)) = 3
         /\ FileHeader(f, k)[1] = Named(f) /\ FileHeader(f, k)[2] = FileEntry
         /\ FileHeader(f, k)[3] = Payload(k)
<1>1. Named(f) \in Units /\ FileEntry \in Units /\ Payload(k) \in Units
  BY UnitsAre
<1> QED
  BY <1>1, FewInSeq DEF FileHeader

LEMMA FilesAreNames == Files \subseteq Names
BY DEF Files, Names

LEMMA SpellsOpen ==
  ASSUME Shapes, Watched, Dated(disk, events), Spells(run, disk, events), OpenFile
  PROVE  Spells(run', disk, events)
<1> DEFINE n == disk[Here].size
           st == [run.stats EXCEPT ![Here] = disk[Here]]
           r == [run EXCEPT !.begin = run.written, !.file = Here, !.stat = disk[Here],
                            !.stats = st, !.read = 0, !.pc = "read"]
           units == FileHeader(Here, n)
<1>1. /\ RunTyped(run) /\ run.pc = "walk" /\ Here \in Files /\ n \in Nat
      /\ disk[Here].ver \in 1..(events + 1)
  BY RunThere, HereIsFile DEF OpenFile, Walks, Watched, Dated
<1>2. run' = Emit(r, units)
  BY <1>1 DEF OpenFile, RunTyped, Writable, RunFields
<1>3. /\ units \in Seq(Units) /\ Len(units) = 3
      /\ units[1] = Named(Here) /\ units[2] = FileEntry /\ units[3] = Payload(n)
  BY <1>1, FilesAreNames, HeaderUnits
<1> HIDE DEF st, units
<1>4. /\ Writable(r) /\ r.pc = "read" /\ r.marks = run.marks /\ r.err = run.err
      /\ r.assigned = run.assigned /\ r.current = run.current /\ r.written = run.written
      /\ r.begin = run.written /\ r.file = Here /\ r.stat = disk[Here] /\ r.read = 0
      /\ r.live = run.live
  BY <1>1 DEF RunTyped, Writable, RunFields
<1> HIDE DEF r
<1>5. Wrote(r, run', {})
  BY <1>2, <1>4, EmitWrites
<1>6. /\ run'.pc = "read" /\ run'.marks = run.marks /\ run'.file = Here /\ run'.read = 0
      /\ run'.stat = disk[Here] /\ run'.begin = run.written /\ run'.live = run.live
      /\ (run.err => run'.err)
  BY <1>4, <1>5 DEF Wrote, Kept
<1>7. ASSUME ~run'.err, run'.marks = {}
      PROVE  /\ Clear(run') /\ run'.written = Len(Stream(run')) /\ Entry(run', disk, events)
             /\ \A f \in Files : Spelled(run'.live[f], f)
  <2>1. /\ Clear(run) /\ run.written = Len(Stream(run))
        /\ \A f \in Files : Spelled(run.live[f], f)
    BY <1>1, <1>6, <1>7 DEF Spells
  <2>2. Clear(r) /\ Stream(r) = Stream(run) /\ r.written = Len(Stream(r))
    BY <1>4, <2>1 DEF Clear, Stream
  <2> DEFINE a == Len(Stream(r))
             t == Stream(run')
  <2>3. /\ Clear(run') /\ run'.written = Len(t)
        /\ a \in Nat /\ Len(t) = a + 3
        /\ \A i \in 1..3 : t[a + i] = units[i]
    <3>1. Len(units) \in 1..3
      BY <1>3
    <3>3. /\ Clear(r) /\ r.written = Len(Stream(r)) /\ units \in Seq(Units)
          /\ run' = Emit(r, units) /\ ~run'.err
      BY <1>2, <1>3, <1>7, <2>2
    <3>2. /\ Clear(run') /\ run'.written = Len(Stream(run'))
          /\ Len(Stream(r)) \in Nat /\ Len(Stream(run')) = Len(Stream(r)) + Len(units)
          /\ \A i \in 1..Len(units) : Stream(run')[Len(Stream(r)) + i] = units[i]
      BY <3>1, <3>3, EmitExtends
    <3> QED
      BY <1>3, <3>2
  <2>4. run.written = a
    BY <2>1, <2>2
  <2> HIDE DEF a, t, n
  <2>5. 1 \in 1..3 /\ 2 \in 1..3 /\ 3 \in 1..3 /\ a + 3 = a + 3 + 0 /\ 0 \in Nat
    BY <2>3
  <2>6. t[a + 1] = Named(Here) /\ t[a + 2] = FileEntry /\ t[a + 3] = Payload(n)
    BY <1>3, <2>3, <2>5
  <2>7. \A i \in 1..0 : t[a + 3 + i] = Data(Here, disk[Here].ver)
    OBVIOUS
  <2>8. Entry(run', disk, events)
    BY <1>1, <1>6, <2>3, <2>4, <2>5, <2>6, <2>7 DEF Entry, t, n
  <2> QED
    BY <1>6, <2>1, <2>3, <2>8 DEF t
<1> QED
  BY <1>6, <1>7 DEF Spells

LEMMA EmitsOne ==
  ASSUME NEW r, Clear(r), r.written = Len(Stream(r)), NEW us \in Seq(Units), Len(us) = 1,
         NEW e, e = Emit(r, us), ~e.err
  PROVE  /\ Clear(e) /\ e.written = Len(Stream(e)) /\ Len(Stream(e)) = Len(Stream(r)) + 1
         /\ \A i \in 1..Len(Stream(r)) : Stream(e)[i] = Stream(r)[i]
         /\ Stream(e)[Len(Stream(r)) + 1] = us[1]
<1>1. Len(us) \in 1..3 /\ 1 \in 1..Len(us)
  OBVIOUS
<1>2. \A t \in Seq(Units) : Len(t) \in 1..3 /\ e = Emit(r, t) =>
        /\ Clear(e) /\ e.written = Len(Stream(e)) /\ Len(Stream(e)) = Len(Stream(r)) + Len(t)
        /\ \A i \in 1..Len(Stream(r)) : Stream(e)[i] = Stream(r)[i]
        /\ \A i \in 1..Len(t) : Stream(e)[Len(Stream(r)) + i] = t[i]
  BY EmitExtends
<1> QED
  BY <1>1, <1>2

LEMMA SpellsRead ==
  ASSUME Shapes, Watched, Dated(disk, events), events \in Nat, Spells(run, disk, events), ReadFile
  PROVE  Spells(run', disk, events)
<1> DEFINE k == run.read + 1
           u == Body(run.file)[k]
           e == Emit(run, <<u>>)
<1>1. RunTyped(run) /\ run.pc = "read" /\ run.read < disk[run.file].size
  BY RunThere DEF ReadFile
<1>2. run' = [e EXCEPT !.read = @ + 1]
  BY DEF ReadFile
<1>3. Wrote(run, e, {}) /\ Writable(e)
  BY <1>1, EmitWrites DEF RunTyped, Wrote, Writable
<1> HIDE DEF e
<1>4. /\ run'.pc = "read" /\ run'.marks = run.marks /\ run'.file = run.file /\ run'.err = e.err
      /\ run'.stat = run.stat /\ run'.begin = run.begin /\ run'.live = run.live
      /\ run'.read = run.read + 1 /\ run'.assigned = e.assigned /\ run'.current = e.current
      /\ run'.written = e.written /\ Writable(run') /\ (run.err => e.err)
  BY <1>1, <1>2, <1>3 DEF Wrote, Kept, Writable, RunFields
<1>5. ASSUME ~e.err, run.marks = {}
      PROVE  /\ Clear(run') /\ run'.written = Len(Stream(run')) /\ Entry(run', disk, events)
             /\ \A f \in Files : Spelled(run'.live[f], f)
  <2>1. /\ Clear(run) /\ run.written = Len(Stream(run)) /\ Entry(run, disk, events)
        /\ \A f \in Files : Spelled(run.live[f], f)
    BY <1>1, <1>4, <1>5 DEF Spells
  <2> DEFINE s == Stream(run)
             t == Stream(run')
             v == disk[run.file].ver
             a == run.begin
             m == run.read
  <2>2. /\ run.file \in Files /\ m \in Nat /\ a \in Nat /\ Len(s) = a + 3 + m
        /\ s[a + 1] = Named(run.file) /\ s[a + 2] = FileEntry
        /\ s[a + 3] = Payload(run.stat.size)
        /\ v = run.stat.ver => \A i \in 1..m : s[a + 3 + i] = Data(run.file, run.stat.ver)
        /\ run.stat.size \in Nat /\ run.stat.ver \in 1..(events + 1)
    BY <2>1 DEF Entry
  <2>3. run.file \in Files /\ run.read \in Nat /\ disk[run.file].size \in Nat
    BY <2>2 DEF Watched
  <2>4. u = Data(run.file, v)
    BY <1>1, <2>3 DEF Body
  <2> HIDE DEF u
  <2>5. ASSUME v = run.stat.ver
        PROVE  u = Data(run.file, run.stat.ver)
    BY <2>4, <2>5
  <2>6. u \in Units
    <3>1. v \in Int
      <4>1. disk[run.file].ver \in Int
        BY <2>3 DEF Dated, NoFile
      <4> QED
        BY <4>1
    <3> QED
      BY <2>2, <2>4, <3>1, FilesAreNames, UnitsAre
  <2>8. /\ Clear(e) /\ e.written = Len(Stream(e)) /\ Len(Stream(e)) = Len(s) + 1
        /\ \A i \in 1..Len(s) : Stream(e)[i] = s[i]
        /\ Stream(e)[Len(s) + 1] = u
    <3> DEFINE us == <<u>>
    <3>1. us \in Seq(Units) /\ Len(us) = 1 /\ us[1] = u
      BY <2>6, FewInSeq
    <3>2. Clear(run) /\ run.written = Len(Stream(run)) /\ ~e.err /\ e = Emit(run, us)
      BY <1>5, <2>1 DEF e
    <3> HIDE DEF us
    <3> QED
      BY <3>1, <3>2, EmitsOne
  <2>9. t = Stream(e) /\ Clear(run')
    BY <1>4, <2>8 DEF Stream, Clear
  <2> HIDE DEF s, t, v, a, m
  <2>10. Len(t) = a + 3 + (m + 1) /\ m + 1 \in Nat
    BY <2>2, <2>8, <2>9
  <2>11. \A i \in 1..Len(s) : t[i] = s[i]
    BY <2>8, <2>9
  <2>12. a + 1 \in 1..Len(s) /\ a + 2 \in 1..Len(s) /\ a + 3 \in 1..Len(s)
    BY <2>2
  <2>13. ASSUME v = run.stat.ver, NEW i \in 1..(m + 1)
         PROVE  t[a + 3 + i] = Data(run.file, run.stat.ver)
    <3>1. CASE i = m + 1
      <4>1. a + 3 + i = Len(s) + 1
        BY <2>2, <3>1
      <4> QED
        BY <2>5, <2>8, <2>9, <2>13, <4>1
    <3>2. CASE i # m + 1
      <4>1. i \in 1..m /\ a + 3 + i \in 1..Len(s)
        BY <2>2, <3>2
      <4> QED
        BY <2>2, <2>11, <2>13, <4>1
    <3> QED
      BY <3>1, <3>2
  <2>14. Entry(run', disk, events)
    <3>1. /\ t[a + 1] = Named(run.file) /\ t[a + 2] = FileEntry
          /\ t[a + 3] = Payload(run.stat.size)
      BY <2>2, <2>11, <2>12
    <3>2. v = run.stat.ver => \A i \in 1..(m + 1) : t[a + 3 + i] = Data(run.file, run.stat.ver)
      BY <2>13
    <3> QED
      BY <1>4, <2>2, <2>10, <3>1, <3>2, Zenon DEF Entry, t, v, a, m
  <2> QED
    BY <1>4, <2>1, <2>8, <2>9, <2>14 DEF t
<1> QED
  BY <1>4, <1>5 DEF Spells

\* What is recorded at the end of a file that was read as its header says.
LEMMA RecordSpells ==
  ASSUME Clear(run), run.written = Len(Stream(run)), Entry(run, disk, events),
         disk[run.file].ver = run.stat.ver, run.read = run.stat.size,
         NEW p, p = [ver |-> run.stat.ver, size |-> run.stat.size,
                     spans |-> Spans(run.assigned, run.begin, run.written),
                     len |-> run.written - run.begin]
  PROVE  Spelled(p, run.file)
<1> DEFINE S == Stream(run)
           F == FlattenSeq(run.assigned)
           a == run.begin
           b == run.written
           k == run.read
           f == run.file
           v == run.stat.ver
           d == [i \in 1..k |-> Data(f, v)]
           h == FileHeader(f, k)
           t == [i \in DOMAIN p.spans |-> p.spans[i].chunk]
<1>1. /\ f \in Files /\ k \in Nat /\ a \in Nat /\ b = a + 3 + k /\ Len(S) = b
      /\ S[a + 1] = Named(f) /\ S[a + 2] = FileEntry /\ S[a + 3] = Payload(k)
      /\ \A i \in 1..k : S[a + 3 + i] = Data(f, v)
      /\ v \in Int
  BY DEF Entry
<1>2. /\ p.ver = v /\ p.size = k /\ p.spans = Spans(run.assigned, a, b) /\ p.len = b - a
  OBVIOUS
<1>3. /\ h \in Seq(Units) /\ Len(h) = 3 /\ h[1] = Named(f) /\ h[2] = FileEntry /\ h[3] = Payload(k)
  BY <1>1, FilesAreNames, HeaderUnits
<1>4. d \in Seq(Units) /\ Len(d) = k /\ \A i \in 1..k : d[i] = Data(f, v)
  <2>1. Data(f, v) \in Units
    BY <1>1, FilesAreNames, UnitsAre
  <2> DEFINE u == Data(f, v)
  <2> HIDE DEF u, k
  <2> QED
    BY <1>1, <2>1 DEF u
<1>5. \A i \in 1..Len(F) : S[i] = F[i]
  BY StreamIs
<1>6. run.assigned \in Seq(Seq(Units))
  BY DEF Clear
<1> HIDE DEF S, F, a, b, k, v, f, d, h
<1>7. b - a = 3 + k /\ b - a # 0 /\ b \in Nat /\ a < b
  BY <1>1
<1>8. ASSUME p.spans # <<>>, WholeEntry(p)
      PROVE  FlattenSeq(t) = h \o d
  <2> DEFINE spans == p.spans
  <2>1. /\ spans = Spans(run.assigned, a, b) /\ spans # <<>>
        /\ \A i \in DOMAIN spans : spans[i].whole
        /\ SumLen(spans) = b - a
    BY <1>2, <1>8 DEF WholeEntry
  <2> DEFINE x == [i \in 1..(b - a) |-> F[a + i]]
             y == h \o d
  <2>2. b <= Len(F) /\ FlattenSeq(t) = x
    <3> DEFINE cs == run.assigned
    <3>1. cs \in Seq(Seq(Units)) /\ a \in Nat /\ b \in Nat /\ a < b
      BY <1>1, <1>6, <1>7
    <3>2. spans = Spans(cs, a, b) /\ F = FlattenSeq(cs)
      BY <2>1 DEF F
    <3> HIDE DEF spans, cs
    <3>3. /\ b <= Len(FlattenSeq(cs))
          /\ FlattenSeq(ChunksOf(spans)) = UnitsFrom(FlattenSeq(cs), a, b - a)
      BY <2>1, <3>1, <3>2, SpansHoldRange
    <3> QED
      BY <3>2, <3>3 DEF spans, UnitsFrom, ChunksOf
  <2>3. /\ y \in Seq(Units) /\ Len(y) = 3 + k
        /\ \A i \in 1..3 : y[i] = h[i]
        /\ \A i \in 1..k : y[3 + i] = d[i]
    <3>1. /\ h \o d \in Seq(Units) /\ Len(h \o d) = Len(h) + Len(d)
          /\ \A i \in 1..Len(h) : (h \o d)[i] = h[i]
          /\ \A i \in 1..Len(d) : (h \o d)[Len(h) + i] = d[i]
      <4>1. h \in Seq(Units) /\ d \in Seq(Units)
        BY <1>3, <1>4
      <4> QED
        BY <4>1, ConcatIs
    <3> QED
      BY <1>3, <1>4, <3>1
  <2>4. Len(F) \in Nat
    BY StreamIs DEF F
  <2>5. \A i \in 1..(3 + k) : F[a + i] = S[a + i]
    <3>2. a \in Nat /\ k \in Nat /\ a + 3 + k <= Len(F)
      BY <1>1, <2>2
    <3>3. \A n \in Nat : a + 3 + k <= n => \A i \in 1..(3 + k) : a + i \in 1..n
      BY <3>2
    <3>1. \A i \in 1..(3 + k) : a + i \in 1..Len(F)
      BY <2>4, <3>2, <3>3
    <3> QED
      BY <1>5, <3>1
  <2>6. \A i \in 1..(3 + k) : F[a + i] = y[i]
    <3> SUFFICES ASSUME NEW i \in 1..(3 + k) PROVE S[a + i] = y[i]
      BY <2>5
    <3> HIDE DEF y
    <3>1. CASE i \in 1..3
      <4>1. i = 1 \/ i = 2 \/ i = 3
        BY <3>1
      <4> QED
        BY <1>1, <1>3, <2>3, <3>1, <4>1
    <3>2. CASE i \notin 1..3
      <4>1. i - 3 \in 1..k /\ 3 + (i - 3) = i /\ a + 3 + (i - 3) = a + i
        BY <1>1, <3>2
      <4>2. S[a + 3 + (i - 3)] = Data(f, v) /\ y[3 + (i - 3)] = d[i - 3] /\ d[i - 3] = Data(f, v)
        BY <1>1, <1>4, <2>3, <4>1
      <4> QED
        BY <4>1, <4>2
    <3> QED
      BY <3>1, <3>2
  <2>7. y = [i \in 1..(3 + k) |-> y[i]]
    <3> HIDE DEF y
    <3>1. y = [i \in 1..Len(y) |-> y[i]]
      BY <2>3
    <3> QED
      BY <2>3, <3>1
  <2>8. x = y
    <3> HIDE DEF y
    <3> QED
      BY <1>7, <2>6, <2>7
  <2> QED
    BY <2>2, <2>8
<1> QED
  BY <1>1, <1>2, <1>7, <1>8 DEF Spelled, h, d, k, v, f

LEMMA SpellsClosed ==
  ASSUME RunTyped(run), Spells(run, disk, events), run.pc = "read"
  PROVE  Spells(Closed(run), disk, events)
<1> DEFINE p == [ver |-> run.stat.ver, size |-> run.stat.size,
                 spans |-> Spans(run.assigned, run.begin, run.written),
                 len |-> run.written - run.begin]
           l == [run.live EXCEPT ![run.file] = p]
           r == RecordFile(run)
           w == Put(r.want, PathOf(run.file), [i \in 1..run.read |-> Data(run.file, run.stat.ver)])
           m == r.marks \cup (IF run.read < run.stat.size THEN {"short"} ELSE {})
                        \cup (IF run.read > run.stat.size THEN {"grown"} ELSE {})
                        \cup (IF disk[run.file].ver # run.stat.ver THEN {"changed"} ELSE {})
           t == Tail(r.todo)
           s == [r EXCEPT !.todo = t, !.pc = "walk", !.file = "", !.want = w, !.marks = m]
<1>1. r = run \/ r = [run EXCEPT !.live = l]
  BY DEF RecordFile, RunTyped, Writable, RunFields
<1> HIDE DEF r, p
<1>2. /\ DOMAIN r = RunFields /\ (r.live = run.live \/ r.live = l)
      /\ r.marks = run.marks /\ r.err = run.err /\ r.assigned = run.assigned
      /\ r.current = run.current /\ r.written = run.written
      /\ r.file = run.file /\ r.read = run.read /\ r.stat = run.stat
  <2> HIDE DEF l
  <2> QED
    BY <1>1 DEF RunTyped, Writable, RunFields
<1>3. Closed(run) = s
  BY <1>2 DEF Closed, Further, r, RunFields
<1>4. m = {} => /\ run.marks = {} /\ ~(run.read < run.stat.size) /\ ~(run.read > run.stat.size)
                /\ disk[run.file].ver = run.stat.ver
  BY <1>2
<1> HIDE DEF w, m, t, l
<1>5. /\ s.pc = "walk" /\ s.marks = m /\ s.err = run.err /\ s.assigned = run.assigned
      /\ s.current = run.current /\ s.written = run.written /\ s.live = r.live
      /\ DOMAIN s = RunFields
  BY <1>2 DEF RunFields
<1> HIDE DEF s
<1>6. ASSUME ~run.err, m = {}
      PROVE  /\ Clear(s) /\ s.written = Len(Stream(s))
             /\ \A f \in Files : Spelled(s.live[f], f)
  <2>1. /\ Clear(run) /\ run.written = Len(Stream(run)) /\ Entry(run, disk, events)
        /\ \A f \in Files : Spelled(run.live[f], f)
    BY <1>4, <1>6 DEF Spells
  <2>2. run.read = run.stat.size
    BY <1>4, <1>6, <2>1 DEF Entry
  <2>3. Spelled(p, run.file)
    BY <1>4, <1>6, <2>1, <2>2, RecordSpells DEF p
  <2>4. ASSUME NEW f \in Files
        PROVE  Spelled(s.live[f], f)
    <3>1. s.live[f] = run.live[f] \/ (f = run.file /\ s.live[f] = p)
      BY <1>2, <1>5 DEF l, RunTyped
    <3> QED
      BY <2>1, <2>3, <3>1
  <2> QED
    BY <1>5, <2>1, <2>4 DEF Clear, Writable, Stream
<1> QED
  BY <1>3, <1>5, <1>6 DEF Spells

\* After a reuse the walk is not one that read everything.
LEMMA ReuseMarks ==
  ASSUME Shapes, ReuseFile
  PROVE  run'.marks # {}
<1> DEFINE rec == run.prev[Here]
           r == EmitReused(run, Here, rec.size, rec.spans)
           live == [r.live EXCEPT ![Here] = rec]
           marks == r.marks \cup {"reused"}
           stats == [r.stats EXCEPT ![Here] = disk[Here]]
           want == Put(r.want, PathOf(Here), Body(Here))
           p == [r EXCEPT !.live = live, !.marks = marks, !.stats = stats, !.want = want]
<1>1. RunTyped(run) /\ Here \in Files
  BY RunThere, HereIsFile DEF ReuseFile, Walks
<1>2. SpansTyped(rec.spans)
  BY <1>1 DEF RunTyped, RecordsTyped
<1>3. Wrote(run, r, Reached(rec.spans))
  BY <1>1, <1>2, EmitReusedWrites DEF RunTyped
<1>4. run' = Further(p)
  BY <1>3 DEF ReuseFile, Wrote, RunFields
<1>5. "reused" \in marks
  OBVIOUS
<1> HIDE DEF live, marks, stats, want, r
<1>6. run'.marks = marks
  BY <1>3, <1>4 DEF Further, Wrote, RunFields
<1> QED
  BY <1>5, <1>6

LEMMA SpellsReuse ==
  ASSUME Shapes, ReuseFile
  PROVE  Spells(run', disk, events)
BY ReuseMarks DEF Spells

LEMMA SpellsScanning ==
  ASSUME Shapes, Watched, Dated(disk, events), events \in Nat, Spells(run, disk, events), Scanning
  PROVE  Spells(run', disk, events)
<1>1. RunTyped(run)
  BY ScanSteps
<1>2. CASE EnterDir
  <2>1. Here \in Names
    <3>1. Rest(run.todo) /\ run.todo # <<>>
      BY <1>1, <1>2 DEF EnterDir, Walks, RunTyped
    <3>2. PICK i \in DOMAIN Walk : Head(run.todo) = Walk[i]
      BY <3>1, RestTail
    <3>3. Here = Walk[i][2]
      BY <3>2 DEF Here
    <3> QED
      BY <3>3 DEF Names
  <2>2. DirHeader(Here) \in Seq(Units) /\ Len(DirHeader(Here)) \in 1..3
    <3> DEFINE d == Here
    <3>1. Named(d) \in Units /\ DirEntry \in Units
      BY <2>1, UnitsAre
    <3> HIDE DEF d
    <3>3. /\ <<DirEntry>> \in Seq(Units) /\ Len(<<DirEntry>>) = 1
          /\ <<Named(d), DirEntry>> \in Seq(Units) /\ Len(<<Named(d), DirEntry>>) = 2
      BY <3>1, FewInSeq
    <3>4. 1 \in 1..3 /\ 2 \in 1..3
      OBVIOUS
    <3>2. DirHeader(d) \in Seq(Units) /\ Len(DirHeader(d)) \in 1..3
      BY <3>3, <3>4, Zenon DEF DirHeader
    <3> QED
      BY <3>2 DEF d
  <2> QED
    BY <1>1, <1>2, <2>2, EmitsAndSpells DEF EnterDir, Walks
<1>3. CASE LeaveDir
  <2>1. Goodbye \in Units
    <3>1. "" \in Names /\ 0 \in Int
      BY DEF Names
    <3> QED
      BY <3>1, UnitsAre
  <2>2. <<Goodbye>> \in Seq(Units) /\ Len(<<Goodbye>>) \in 1..3
    BY <2>1, FewInSeq
  <2> QED
    BY <1>1, <1>3, <2>2, EmitsAndSpells DEF LeaveDir, Walks
<1>4. CASE SkipFile
  BY <1>1, <1>4, FurtherTwin, SpellsAlike DEF SkipFile, RunTyped
<1>5. CASE EndFile \/ ReadFails
  BY <1>1, <1>5, SpellsClosed DEF EndFile, ReadFails
<1> QED
  BY <1>2, <1>3, <1>4, <1>5, SpellsReuse, SpellsOpen, SpellsRead DEF Scanning

\* A run that goes on without writing, or fails.
LEMMA SpellsRelabelled ==
  ASSUME Shapes, Spells(run, disk, events), Relabelling
  PROVE  Spells(run', disk, events)
<1>1. RunTyped(run) /\ DOMAIN run = RunFields /\ Relabelled(run, run')
      /\ (run'.pc # "failed" => run'.err = run.err)
  BY RelabelSteps DEF RunTyped, Writable
<1>3. CASE Fails(run)
  BY <1>1, <1>3, FailsRelabels, SpellsFailed
<1>4. CASE UploadEnds
  <2>1. PICK c \in run.flying :
          \/ run' = [run EXCEPT !.flying = @ \ {c}]
          \/ run' = [run EXCEPT !.flying = @ \ {c}, !.failed = TRUE]
    BY <1>4 DEF UploadEnds
  <2>2. Twin(run, run')
    BY <1>1, <2>1 DEF Twin, RunFields
  <2> QED
    BY <2>2, SpellsAlike
<1>5. CASE Cancel
  <2>1. Twin(run, run')
    BY <1>1, <1>5 DEF Cancel, Twin, RunFields
  <2> QED
    BY <2>1, SpellsAlike
<1>6. CASE ~Fails(run) /\ (Assign \/ Finish \/ Save \/ Verify \/ Done)
  <2>1. run.pc \in {"drain", "finish", "save", "verify", "known"}
    BY <1>6 DEF Assign, Finish, Save, Verify, Done
  <2>2. \/ \E p \in {"finish", "save", "known", "done"} : run' = [run EXCEPT !.pc = p]
        \/ run' = [run EXCEPT !.pc = "verify", !.ticking = FALSE]
    BY <1>6 DEF Assign, Finish, Save, Verify, Done
  <2>3. run'.marks = run.marks /\ run'.pc \in {"finish", "save", "known", "done", "verify"}
    <3>1. CASE run' = [run EXCEPT !.pc = "verify", !.ticking = FALSE]
      BY <1>1, <3>1 DEF RunFields
    <3>2. ASSUME NEW p \in {"finish", "save", "known", "done"}, run' = [run EXCEPT !.pc = p]
          PROVE  run'.marks = run.marks /\ run'.pc = p
      BY <1>1, <3>2 DEF RunFields
    <3> QED
      BY <2>2, <3>1, <3>2
  <2>4. /\ run.pc # "failed" /\ run'.pc \notin {"walk", "read"} /\ (run.err => run'.err)
        /\ run'.live = run.live
    BY <1>1, <2>1, <2>3 DEF Relabelled
  <2> QED
    BY <2>3, <2>4, SpellsPast
<1> QED
  BY <1>3, <1>4, <1>5, <1>6 DEF Relabelling, AbortScan

\* Every step of a run, with the disk as it was.
LEMMA SpellsRun ==
  ASSUME Shapes, Watched, Faithful, [Next]_vars, run' # Idle
  PROVE  Spells(run', disk, events)
<1>1. CASE UnreadableDir
  <2>1. RunTyped(run) /\ run # Idle
    BY <1>1, UnreadableSteps, RunThere, NotIdle DEF RunTyped, Writable
  <2>2. CASE Fails(run)
    BY <2>1, <2>2, FailsRelabels, SpellsFailed
  <2>3. CASE ~Fails(run)
    <3> DEFINE past == CHOOSE i \in DOMAIN run.todo : run.todo[i] = <<"end", Here>>
               t == SubSeq(run.todo, past + 1, Len(run.todo))
    <3>1. run' = [run EXCEPT !.todo = t]
      BY <1>1, <2>3 DEF UnreadableDir
    <3> HIDE DEF t
    <3>2. Twin(run, run')
      BY <2>1, <3>1 DEF Twin, RunTyped, Writable, RunFields
    <3> QED
      BY <2>1, <3>2, SpellsAlike DEF Faithful
  <2> QED
    BY <2>2, <2>3
<1>2. CASE Flush
  <2> DEFINE r == FlushPending(run)
  <2>1. RunTyped(run) /\ run # Idle /\ run.pc = "walk"
    BY <1>2, RunThere DEF Flush
  <2>2. run' = [r EXCEPT !.pc = "drain"]
    BY <1>2 DEF Flush
  <2>3. Wrote(run, r, {})
    BY <2>1, FlushWrites DEF RunTyped
  <2> HIDE DEF r
  <2>4. /\ run'.pc = "drain" /\ run'.marks = run.marks /\ run'.live = run.live
        /\ (run.err => run'.err)
    BY <2>2, <2>3 DEF Wrote, Kept, RunFields
  <2>5. Spells(run, disk, events) /\ run.pc # "failed" /\ run'.pc \notin {"walk", "read"}
    BY <2>1, <2>4 DEF Faithful
  <2> QED
    BY <2>4, <2>5, SpellsPast
<1>3. CASE Begin
  <2>1. PICK full \in BOOLEAN : run' = NewRun(full)
    BY <1>3 DEF Begin
  <2>2. /\ run'.pc = "walk" /\ run'.live = NoRecords /\ run'.assigned = <<>>
        /\ run'.current = <<>> /\ run'.written = 0
    BY <2>1 DEF NewRun
  <2>3. Writable(run')
    BY <2>1, NewRunTyped DEF RunTyped
  <2>4. <<>> \in Seq(Seq(Units)) /\ <<>> \in Seq(Units)
    OBVIOUS
  <2>5. Clear(run') /\ run'.written = Len(Stream(run'))
    <3>1. FlattenSeq(<<>>) = <<>>
      BY DEF FlattenSeq
    <3>2. <<>> \o <<>> = <<>> /\ Len(<<>>) = 0
      OBVIOUS
    <3> QED
      BY <2>2, <2>3, <2>4, <3>1, <3>2 DEF Clear, Stream
  <2>6. \A f \in Files : Spelled(run'.live[f], f)
    BY <2>2 DEF NoRecords, NoRecord, Spelled
  <2> QED
    BY <2>2, <2>5, <2>6 DEF Spells
<1>4. CASE Tick \/ ChangeFile \/ RemoveFile \/ Prune \/ UNCHANGED vars
  <2>1. run' = run
    BY <1>4 DEF Tick, ChangeFile, RemoveFile, Prune, vars
  <2> QED
    BY <2>1 DEF Faithful
<1>5. CASE Return \/ Crash
  BY <1>5 DEF Return, Crash
<1>6. CASE Scanning
  <2>1. run # Idle
    BY <1>6, ScanSteps
  <2> QED
    BY <1>6, <2>1, SpellsScanning DEF Faithful
<1>7. CASE Relabelling
  <2>1. run # Idle
    BY <1>7, RelabelSteps
  <2> QED
    BY <1>7, <2>1, SpellsRelabelled DEF Faithful
<1> QED
  BY <1>1, <1>2, <1>3, <1>4, <1>5, <1>6, <1>7 DEF Next, Scanning, Relabelling

\* The number of events grows by one at a time, and dates what changes.
LEMMA EventsGrow ==
  ASSUME Faithful, [Next]_vars
  PROVE  /\ events' \in {events, events + 1}
         /\ \/ disk' = disk
            \/ /\ events' = events + 1
               /\ \E f \in Files : \E d :
                    disk' = [disk EXCEPT ![f] = d] /\ (d = NoFile \/ d.ver = events + 2)
<1>1. CASE ChangeFile
  <2>1. PICK f \in Files, n \in Sizes :
          disk' = [disk EXCEPT ![f] = [ver |-> events + 2, size |-> n]]
    BY <1>1 DEF ChangeFile
  <2> DEFINE d == [ver |-> events + 2, size |-> n]
  <2>2. d.ver = events + 2
    OBVIOUS
  <2>3. disk' = [disk EXCEPT ![f] = d]
    BY <2>1
  <2> HIDE DEF d
  <2> QED
    BY <1>1, <2>2, <2>3 DEF ChangeFile
<1>2. CASE RemoveFile
  <2>1. PICK f \in Files : disk' = [disk EXCEPT ![f] = NoFile]
    BY <1>2 DEF RemoveFile
  <2> QED
    BY <1>2, <2>1 DEF RemoveFile
<1>3. CASE ~ChangeFile /\ ~RemoveFile
  <2>1. disk' = disk
    BY <1>3 DEF Next, vars, Begin, EnterDir, LeaveDir, UnreadableDir, SkipFile, ReuseFile,
           OpenFile, ReadFile, EndFile, ReadFails, UploadEnds, AbortScan, Flush, Assign, Save,
           Verify, Done, Finish, Prune, Return, Tick, Cancel, Crash, Unchanged
  <2>2. events' = events \/ events' = events + 1
    BY <1>3 DEF Next, vars, Begin, EnterDir, LeaveDir, UnreadableDir, SkipFile, ReuseFile,
           OpenFile, ReadFile, EndFile, ReadFails, UploadEnds, AbortScan, Flush, Assign, Save,
           Verify, Done, Finish, Prune, Return, Tick, Cancel, Crash, Unchanged
  <2> QED
    BY <2>1, <2>2
<1> QED
  BY <1>1, <1>2, <1>3

LEMMA DatedNext ==
  ASSUME Faithful, [Next]_vars
  PROVE  /\ events' \in Nat /\ Dated(disk', events')
         /\ \A f \in Files : disk'[f].ver = disk[f].ver \/ disk'[f].ver = 0
                             \/ disk'[f].ver = events + 2
<1>1. events \in Nat /\ Dated(disk, events) /\ events' \in {events, events + 1}
  BY EventsGrow DEF Faithful
<1>2. CASE disk' = disk
  BY <1>1, <1>2 DEF Dated
<1>3. CASE disk' # disk
  <2>1. events' = events + 1
    BY <1>3, EventsGrow
  <2>8. PICK g \in Files : \E d :
          disk' = [disk EXCEPT ![g] = d] /\ (d = NoFile \/ d.ver = events + 2)
    BY <1>3, EventsGrow
  <2>2. PICK d : disk' = [disk EXCEPT ![g] = d] /\ (d = NoFile \/ d.ver = events + 2)
    BY <2>8
  <2>3. d = NoFile \/ d.ver \in 1..(events' + 1)
    BY <1>1, <2>1, <2>2
  <2>4. \A f \in Files : disk'[f] = disk[f] \/ disk'[f] = d
    BY <2>2
  <2>5. \A f \in Files : disk[f] = NoFile \/ disk[f].ver \in 1..(events' + 1)
    BY <1>1, <2>1 DEF Dated
  <2>6. Dated(disk', events')
    BY <2>3, <2>4, <2>5 DEF Dated
  <2>7. d.ver = 0 \/ d.ver = events + 2
    BY <2>2 DEF NoFile
  <2> QED
    BY <1>1, <2>4, <2>6, <2>7
<1> QED
  BY <1>2, <1>3

LEMMA CommitsNext ==
  ASSUME Shapes, Faithful, [Next]_vars, run' # Idle
  PROVE  Commits(run', snaps')
<1>1. CASE Relabelling
  <2>1. RunTyped(run) /\ run # Idle /\ DOMAIN run = RunFields
        /\ (run'.pc # "failed" => run'.err = run.err)
    BY <1>1, RelabelSteps DEF RunTyped, Writable
  <2>2. Commits(run, snaps)
    BY <2>1 DEF Faithful
  <2>3. CASE Fails(run)
    BY <2>1, <2>3, FailsRelabels DEF Commits
  <2>4. CASE UploadEnds
    <3>1. PICK c \in run.flying :
            \/ run' = [run EXCEPT !.flying = @ \ {c}]
            \/ run' = [run EXCEPT !.flying = @ \ {c}, !.failed = TRUE]
      BY <2>4 DEF UploadEnds
    <3>2. Twin(run, run') /\ snaps' = snaps
      BY <2>1, <2>4, <3>1 DEF Twin, RunFields, UploadEnds
    <3> QED
      BY <2>2, <3>2 DEF Commits, Twin
  <2>5. CASE Cancel
    <3>1. Twin(run, run') /\ snaps' = snaps
      BY <2>1, <2>5 DEF Cancel, Twin, RunFields, Unchanged
    <3> QED
      BY <2>2, <3>1 DEF Commits, Twin
  <2>6. CASE ~Fails(run) /\ Assign
    <3>1. run' = [run EXCEPT !.pc = "finish"] /\ ~run.err
      BY <2>6 DEF Assign, Drained
    <3>2. run'.pc = "finish" /\ ~run'.err
      BY <2>1, <3>1 DEF RunFields
    <3> QED
      BY <3>2 DEF Commits
  <2>7. CASE ~Fails(run) /\ Finish
    <3>1. run.pc = "finish" /\ run' = [run EXCEPT !.pc = "save"] /\ snaps' = Append(snaps, Snapshot)
      BY <2>7 DEF Finish
    <3> DEFINE c == Snapshot
    <3>2. c.marks = run.marks
      BY <2>1, SnapshotShape
    <3> HIDE DEF c
    <3>3. snaps' = Append(snaps, c) /\ snaps \in Seq(ToSet(snaps))
      BY <3>1 DEF c, Shapes, IsList
    <3>4. snaps'[Len(snaps')] = c
      <4> DEFINE T == ToSet(snaps) \cup {c}
      <4>1. snaps \in Seq(T) /\ c \in T
        BY <3>3
      <4> HIDE DEF T
      <4> QED
        BY <3>3, <4>1
    <3>5. run'.pc = "save" /\ run'.marks = run.marks /\ ~run'.err
      BY <2>1, <2>2, <3>1 DEF Commits, RunFields
    <3> QED
      BY <3>2, <3>4, <3>5 DEF Commits
  <2>8. CASE Save
    <3>1. /\ run.pc = "save" /\ run' = [run EXCEPT !.pc = "verify", !.ticking = FALSE]
          /\ snaps' = snaps
      BY <2>8 DEF Save
    <3>2. run'.pc = "verify" /\ run'.marks = run.marks /\ run'.err = run.err
      BY <2>1, <3>1 DEF RunFields
    <3> QED
      BY <2>2, <3>1, <3>2 DEF Commits
  <2>9. CASE ~Fails(run) /\ (Verify \/ Done)
    <3>1. run'.pc \in {"known", "done"}
      BY <2>1, <2>9 DEF Verify, Done, RunFields
    <3> QED
      BY <3>1 DEF Commits
  <2> QED
    BY <1>1, <2>3, <2>4, <2>5, <2>6, <2>7, <2>8, <2>9 DEF Relabelling, AbortScan
<1>2. CASE Scanning
  <2>1. run'.pc \in {"walk", "read"}
    BY <1>2, ScanSteps DEF Scans
  <2> QED
    BY <2>1 DEF Commits
<1>3. CASE UnreadableDir /\ ~Fails(run)
  <2>1. Scans(run, run')
    BY <1>3, UnreadableSteps
  <2>2. run'.pc \in {"walk", "read"}
    BY <2>1 DEF Scans
  <2> QED
    BY <2>2 DEF Commits
<1>4. CASE Flush
  <2>1. run'.pc = "drain"
    BY <1>4, FlushSteps
  <2> QED
    BY <2>1 DEF Commits
<1>5. CASE Begin
  <2>1. PICK full \in BOOLEAN : run' = NewRun(full)
    BY <1>5 DEF Begin
  <2>2. run'.pc = "walk"
    BY <2>1 DEF NewRun
  <2> QED
    BY <2>2 DEF Commits
<1>6. CASE Tick \/ ChangeFile \/ RemoveFile \/ UNCHANGED vars
  <2>1. run' = run /\ snaps' = snaps
    BY <1>6 DEF Tick, ChangeFile, RemoveFile, vars
  <2> QED
    BY <2>1 DEF Faithful
<1>7. CASE Return \/ Crash \/ Prune
  BY <1>7 DEF Return, Crash, Prune
<1> QED
  BY <1>1, <1>2, <1>3, <1>4, <1>5, <1>6, <1>7 DEF Next, Scanning, Relabelling

LEMMA FaithfulInit == Init => Faithful
<1> SUFFICES ASSUME Init PROVE Faithful
  OBVIOUS
<1>1. PICK n \in Sizes : disk = [f \in Files |-> [ver |-> 1, size |-> n]]
  BY DEF Init
<1>2. events = 0 /\ run = Idle
  BY DEF Init
<1>3. \A f \in Files : disk[f].ver = 1
  BY <1>1
<1>4. 1 \in 1..(0 + 1) /\ 0 \in Nat
  OBVIOUS
<1> QED
  BY <1>2, <1>3, <1>4 DEF Faithful, Dated

LEMMA FaithfulNext == Shapes /\ Watched /\ Faithful /\ [Next]_vars => Faithful'
<1> SUFFICES ASSUME Shapes, Watched, Faithful, [Next]_vars PROVE Faithful'
  OBVIOUS
<1>1. events' \in Nat /\ Dated(disk', events')
  BY DatedNext
<1>2. ASSUME run' # Idle
      PROVE  Spells(run', disk', events') /\ Commits(run', snaps')
  <2>1. Spells(run', disk, events) /\ Commits(run', snaps')
    BY <1>2, SpellsRun, CommitsNext
  <2>2. events \in Nat /\ events' \in {events, events + 1}
    BY EventsGrow DEF Faithful
  <2>3. \A f \in Files : disk'[f].ver = disk[f].ver \/ disk'[f].ver = 0
                         \/ disk'[f].ver = events + 2
    BY DatedNext
  <2>4. Spells(run', disk', events')
    BY <2>1, <2>2, <2>3, SpellsLater
  <2> QED
    BY <2>1, <2>4
<1> QED
  BY <1>1, <1>2 DEF Faithful

\* What the records offer for reuse after a clean run is the entry of the file, header and
\* data, as it is on the disk at that moment, wherever the stream was cut and whatever
\* happened to the files during the run (pbs_fileindex.go, canReuse; backup.go, recordFile).
THEOREM ReusedIsCurrent == Spec => []ReuseIsCurrent
<1>1. Init => Shapes /\ Watched /\ Faithful
  BY ShapesInit, WatchedInit, FaithfulInit
<1>2. (Shapes /\ Watched /\ Faithful) /\ [Next]_vars => (Shapes /\ Watched /\ Faithful)'
  <2> SUFFICES ASSUME Shapes, Watched, Faithful, [Next]_vars
               PROVE  Shapes' /\ Watched' /\ Faithful'
    OBVIOUS
  <2> QED
    BY ShapesNext, WatchedRun, WatchedSnaps, WatchedDisk, FaithfulNext DEF Watched
<1>3. Shapes /\ Watched /\ Faithful => ReuseIsCurrent
  <2> SUFFICES ASSUME Shapes, Watched, Faithful, run.pc = "verify", Clean(This), NEW f \in Files,
                      CanReuse(records[f], f), run.live[f] = records[f]
               PROVE  FlattenSeq([i \in DOMAIN records[f].spans |-> records[f].spans[i].chunk])
                        = FileHeader(f, disk[f].size) \o Body(f)
    BY DEF ReuseIsCurrent
  <2> DEFINE rec == records[f]
  <2>1. run # Idle
    BY RunThere
  <2>2. ~run.err /\ run.marks = {}
    BY <2>1 DEF Faithful, Commits, Clean, This
  <2>3. Spelled(rec, f)
    BY <2>1, <2>2 DEF Faithful, Spells
  <2>4. /\ rec.spans # <<>> /\ rec.size = disk[f].size /\ rec.ver = disk[f].ver
        /\ \A i \in DOMAIN rec.spans : rec.spans[i].whole
        /\ SumLen(rec.spans) = (IF rec.len = 0 THEN rec.size ELSE rec.len)
    BY DEF CanReuse
  <2> HIDE DEF rec
  <2>5. WholeEntry(rec)
    BY <2>3, <2>4 DEF Spelled, WholeEntry
  <2>6. FlattenSeq([i \in DOMAIN rec.spans |-> rec.spans[i].chunk])
          = FileHeader(f, rec.size) \o [i \in 1..rec.size |-> Data(f, rec.ver)]
    BY <2>3, <2>4, <2>5 DEF Spelled
  <2>7. [i \in 1..rec.size |-> Data(f, rec.ver)] = Body(f)
    BY <2>4 DEF Body
  <2> QED
    BY <2>4, <2>6, <2>7 DEF rec
<1> QED
  BY <1>1, <1>2, <1>3, PTL DEF Spec

-----------------------------------------------------------------------------
(* How a stream lies before a parser: entry after entry, and the data of a    *)
(* file is what is wanted of it.                                              *)

\* w is what stands in S after offset a.
Lays(S, a, w) == w \in Seq(Units) /\ \A i \in 1..Len(w) : S[a + i] = w[i]

\* w begins with o.
Begins(o, w) == o \in Seq(Units) /\ \A i \in 1..Len(o) : o[i] = w[i]

\* The entry of the file f at path, from offset o to e.
FileAt(S, W, o, path, f, e) ==
  /\ path \in DOMAIN W /\ Lays(S, o + 3, W[path]) /\ e = o + 3 + Len(W[path])
  /\ S[o + 1] = Named(f) /\ S[o + 2] = FileEntry /\ S[o + 3] = Payload(Len(W[path]))

\* One entry from offset o, with the directories s open, to e, with t.
Piece(S, W, o, s, e, t) ==
  \/ o = 0 /\ e = 1 /\ S[1] = DirEntry /\ t = <<>>
  \/ o # 0 /\ e = o + 1 /\ S[o + 1] = Goodbye /\ t = Up(s)
  \/ /\ o # 0 /\ e = o + 2
     /\ \E d \in Names : S[o + 1] = Named(d) /\ S[o + 2] = DirEntry /\ t = Append(s, d)
  \/ /\ o # 0 /\ t = s
     /\ \E f \in Names : FileAt(S, W, o, Append(s, f), f, e)

\* The stream S up to m: B gives the directories that are open where an entry begins.
Laid(S, B, W, m) ==
  /\ m \in Nat /\ DOMAIN B \subseteq 0..m /\ 0 \in DOMAIN B /\ m \in DOMAIN B
  /\ B[0] = <<>> /\ \A o \in DOMAIN B : B[o] \in Seq(Names)
  /\ \A o \in DOMAIN B : o < m => \E e \in DOMAIN B : Piece(S, W, o, B[o], e, B[e])

-----------------------------------------------------------------------------
(* A parser of such a stream.                                                 *)

\* c is what stands in S between offset o and m.
Rests(c, o, S, m) ==
  c \in Seq(Units) /\ o \in Nat /\ m \in Nat /\ o + Len(c) = m /\ \A i \in 1..Len(c) : c[i] = S[o + i]

\* Of the file at path, with w as its data from offset a on, out is read by offset o.
Reading(S, B, W, path, out, left, o, now) ==
  \E a \in Nat \ {0} :
    /\ path \in DOMAIN W /\ Lays(S, a, W[path])
    /\ Begins(out, W[path]) /\ left \in Nat /\ Len(out) + left = Len(W[path])
    /\ o = a + Len(out)
    /\ a + Len(W[path]) \in DOMAIN B /\ B[a + Len(W[path])] = now

\* Where the parser is: at the root, before an entry, after an entry without its
\* payload, or in the data of a file.
Fits(p, S, B, W) ==
  \/ p.state = "root" /\ p.off = 0 /\ p.stack = <<>>
  \/ p.state = "dir" /\ p.off \in DOMAIN B /\ p.off # 0 /\ CurrentPath(p) = B[p.off]
  \/ p.state = "dir" /\ \E n \in Nat : S[p.off + 1] = Payload(n)
  \/ p.state = "payload" /\ Reading(S, B, W, p.path, p.out, p.left, p.off, CurrentPath(p))

\* What it has found so far.
Sound(p, W) == \A path \in DOMAIN p.found : path \in DOMAIN W /\ p.found[path] = W[path]

\* What it notes in its index: of files that are wanted, where the payload is, and that
\* it ends where another entry begins.
Notes(index, S, W, E) ==
  /\ DOMAIN index \subseteq DOMAIN W /\ IsFiniteSet(DOMAIN index)
  /\ \A path \in DOMAIN index : \E a \in Nat :
       /\ index[path] = [at |-> a, size |-> Len(W[path])]
       /\ S[a + 1] = Payload(Len(W[path])) /\ Lays(S, a + 1, W[path])
       /\ a + 1 + Len(W[path]) \in E

Parses(p, S, B, W, m) ==
  /\ DOMAIN p = ParserFields /\ IsList(p.stack) /\ Sound(p, W)
  /\ Notes(p.index, S, W, DOMAIN B)
  /\ p.bad => p.go = FALSE
  /\ ~p.bad => Rests(p.carry, p.off, S, m) /\ Fits(p, S, B, W)

\* One file more in the index.
LEMMA NotesPut ==
  ASSUME NEW index, NEW S, NEW W, NEW E, Notes(index, S, W, E), NEW path \in DOMAIN W,
         NEW a \in Nat, S[a + 1] = Payload(Len(W[path])), Lays(S, a + 1, W[path]),
         a + 1 + Len(W[path]) \in E, NEW x, x = [at |-> a, size |-> Len(W[path])]
  PROVE  Notes(Put(index, path, x), S, W, E)
<1> DEFINE y == Put(index, path, x)
<1>1. DOMAIN y = DOMAIN index \cup {path}
      /\ \A z \in DOMAIN y : y[z] = IF z = path THEN x ELSE index[z]
  BY DEF Put
<1> HIDE DEF y
<1>2. DOMAIN y \subseteq DOMAIN W /\ IsFiniteSet(DOMAIN y)
  <2>1. IsFiniteSet(DOMAIN index)
    BY DEF Notes
  <2>2. IsFiniteSet(DOMAIN index \cup {path})
    BY <2>1, FS_AddElement
  <2> QED
    BY <1>1, <2>2 DEF Notes
<1>3. ASSUME NEW z \in DOMAIN y
      PROVE  \E b \in Nat :
               /\ y[z] = [at |-> b, size |-> Len(W[z])]
               /\ S[b + 1] = Payload(Len(W[z])) /\ Lays(S, b + 1, W[z])
               /\ b + 1 + Len(W[z]) \in E
  <2>1. CASE z = path
    BY <1>1, <2>1
  <2>2. CASE z # path
    <3>1. z \in DOMAIN index /\ y[z] = index[z]
      BY <1>1, <2>2
    <3> QED
      BY <3>1 DEF Notes
  <2> QED
    BY <2>1, <2>2
<1>4. Notes(y, S, W, E)
  BY <1>2, <1>3 DEF Notes
<1> QED
  BY <1>4 DEF y

LEMMA RestsOn ==
  ASSUME NEW c, NEW o, NEW S, NEW m, Rests(c, o, S, m), NEW k \in 0..Len(c)
  PROVE  Rests(SubSeq(c, k + 1, Len(c)), o + k, S, m)
<1> DEFINE n == Len(c)
           d == SubSeq(c, k + 1, n)
<1>1. c \in Seq(Units) /\ n \in Nat /\ o \in Nat /\ m \in Nat /\ o + n = m /\ k \in 0..n
      /\ \A i \in 1..n : c[i] \in Units /\ c[i] = S[o + i]
  BY DEF Rests
<1>2. /\ d \in Seq(Units) /\ Len(d) = IF k + 1 <= n THEN n - (k + 1) + 1 ELSE 0
      /\ \A i \in 1..n - (k + 1) + 1 : d[i] = c[(k + 1) + i - 1]
  <2> DEFINE j == k + 1
  <2>1. j \in Int /\ n \in Int /\ \A i \in j..n : c[i] \in Units
    BY <1>1
  <2> HIDE DEF j, n
  <2>2. /\ SubSeq(c, j, n) \in Seq(Units)
        /\ Len(SubSeq(c, j, n)) = IF j <= n THEN n - j + 1 ELSE 0
        /\ \A i \in 1..n - j + 1 : SubSeq(c, j, n)[i] = c[j + i - 1]
    BY <2>1, SubSeqProperties
  <2> QED
    BY <2>2 DEF j
<1> HIDE DEF n, d
<1>3. Len(d) = n - k
  BY <1>1, <1>2
<1>4. ASSUME NEW i \in 1..Len(d) PROVE d[i] = S[(o + k) + i]
  <2>1. i \in 1..n - (k + 1) + 1 /\ (k + 1) + i - 1 = k + i /\ k + i \in 1..n /\ o + (k + i) = (o + k) + i
    BY <1>1, <1>3
  <2> QED
    BY <1>1, <1>2, <2>1
<1>5. o + k \in Nat /\ (o + k) + Len(d) = m
  BY <1>1, <1>3
<1> QED
  BY <1>1, <1>2, <1>4, <1>5 DEF Rests, d, n

\* The names of the open directories.
LEMMA PathUp ==
  ASSUME NEW p, IsList(p.stack), p.stack # <<>>, NEW q, q.stack = Front(p.stack)
  PROVE  IsList(q.stack) /\ CurrentPath(q) = Front(CurrentPath(p)) /\ CurrentPath(p) # <<>>
<1> DEFINE T == ToSet(p.stack)
           s == p.stack
           n == Len(s)
           t == SubSeq(s, 1, n - 1)
           names == {x.name : x \in T}
           c == CurrentPath(p)
           d == CurrentPath(q)
<1>1. s \in Seq(T) /\ n \in Nat /\ n # 0 /\ DOMAIN s = 1..n /\ \A i \in 1..n : s[i] \in T
  BY DEF IsList
<1>2. q.stack = t
  BY DEF Front
<1>3. t \in Seq(T) /\ Len(t) = n - 1 /\ DOMAIN t = 1..(n - 1) /\ \A i \in 1..(n - 1) : t[i] = s[i]
  <2> HIDE DEF T, s
  <2>1. \A i \in 1..(n - 1) : s[i] \in T
    BY <1>1
  <2> HIDE DEF n
  <2>2. t \in Seq(T) /\ Len(t) = n - 1 /\ \A i \in 1..(n - 1) : t[i] = s[i]
    <3>1. 1 \in Int /\ n - 1 \in Int
      BY <1>1
    <3>2. /\ t \in Seq(T) /\ Len(t) = IF 1 <= n - 1 THEN (n - 1) - 1 + 1 ELSE 0
          /\ \A i \in 1..(n - 1) - 1 + 1 : t[i] = s[1 + i - 1]
      BY <2>1, <3>1, SubSeqProperties
    <3>3. (n - 1) - 1 + 1 = n - 1 /\ \A i \in 1..(n - 1) : 1 + i - 1 = i
      BY <1>1
    <3> QED
      BY <1>1, <3>2, <3>3
  <2> HIDE DEF t
  <2> QED
    BY <2>2
<1>4. c = [i \in 1..n |-> s[i].name] /\ d = [i \in 1..(n - 1) |-> s[i].name]
  BY <1>1, <1>2, <1>3 DEF CurrentPath
<1>5. IsList(q.stack)
  <2>1. t = [i \in 1..(n - 1) |-> t[i]] /\ n - 1 \in Nat
    BY <1>1, <1>3
  <2> QED
    BY <1>2, <2>1, ListIntro
<1> HIDE DEF c, d, s, n, t, T
<1>6. c \in Seq(names) /\ Len(c) = n /\ \A i \in 1..n : c[i] = s[i].name
  BY <1>1, <1>4
<1>7. d \in Seq(names) /\ Len(d) = n - 1 /\ \A i \in 1..(n - 1) : d[i] = s[i].name
  BY <1>1, <1>4
<1> HIDE DEF names
<1>8. Front(c) \in Seq(names) /\ Len(Front(c)) = n - 1 /\ \A i \in 1..(n - 1) : Front(c)[i] = c[i]
  <2>1. \A i \in 1..(n - 1) : c[i] \in names
    BY <1>1, <1>6
  <2>2. 1 \in Int /\ n - 1 \in Int
    BY <1>1
  <2>3. /\ SubSeq(c, 1, n - 1) \in Seq(names)
        /\ Len(SubSeq(c, 1, n - 1)) = IF 1 <= n - 1 THEN (n - 1) - 1 + 1 ELSE 0
        /\ \A i \in 1..(n - 1) - 1 + 1 : SubSeq(c, 1, n - 1)[i] = c[1 + i - 1]
    BY <2>1, <2>2, SubSeqProperties
  <2>4. (n - 1) - 1 + 1 = n - 1 /\ \A i \in 1..(n - 1) : 1 + i - 1 = i
    BY <1>1
  <2>5. Front(c) = SubSeq(c, 1, n - 1)
    BY <1>6 DEF Front
  <2> QED
    BY <1>1, <2>3, <2>4, <2>5
<1>9. d = Front(c)
  <2> DEFINE e == Front(c)
  <2>1. e \in Seq(names) /\ Len(e) = Len(d) /\ \A i \in 1..Len(d) : e[i] = d[i]
    <3>1. \A i \in 1..(n - 1) : i \in 1..n
      BY <1>1
    <3> QED
      BY <1>6, <1>7, <1>8, <3>1
  <2> HIDE DEF e
  <2>2. d = e
    BY <1>7, <2>1
  <2> QED
    BY <2>2 DEF e
<1>10. c # <<>>
  BY <1>1, <1>6
<1> QED
  BY <1>5, <1>9, <1>10 DEF c, d

LEMMA PathDown ==
  ASSUME NEW p, IsList(p.stack), NEW x, NEW q, q.stack = Append(p.stack, x)
  PROVE  IsList(q.stack) /\ CurrentPath(q) = Append(CurrentPath(p), x.name)
<1> DEFINE s == p.stack
           n == Len(s)
           T == ToSet(s) \cup {x}
           t == Append(s, x)
           c == CurrentPath(p)
           d == CurrentPath(q)
           e == Append(c, x.name)
           names == {y.name : y \in T}
<1>1. IsList(t)
  BY ListAppend
<1>2. s \in Seq(T) /\ n \in Nat /\ DOMAIN s = 1..n /\ x \in T
  <2>1. s \in Seq(ToSet(s))
    BY DEF IsList
  <2>2. s \in Seq(T)
    BY <2>1, SeqMonotonic
  <2> QED
    BY <2>2
<1> HIDE DEF s, T
<1>3. Len(t) = n + 1 /\ DOMAIN t = 1..(n + 1) /\ t[n + 1] = x /\ \A i \in 1..n : t[i] = s[i] /\ s[i] \in T
  BY <1>2
<1>4. q.stack = t
  BY DEF s
<1> HIDE DEF t
<1>5. c = [i \in 1..n |-> s[i].name] /\ d = [i \in 1..(n + 1) |-> t[i].name]
  BY <1>2, <1>3, <1>4 DEF CurrentPath, s
<1> HIDE DEF c, d, n
<1>6. c \in Seq(names) /\ Len(c) = n /\ \A i \in 1..n : c[i] = s[i].name
  BY <1>2, <1>3, <1>5
<1>7. d \in Seq(names) /\ Len(d) = n + 1 /\ d[n + 1] = x.name /\ \A i \in 1..n : d[i] = s[i].name
  <2>1. \A i \in 1..(n + 1) : t[i] \in T
    BY <1>2, <1>3
  <2>2. \A i \in 1..n : i \in 1..(n + 1)
    BY <1>2
  <2>3. n + 1 \in Nat /\ n + 1 \in 1..(n + 1)
    BY <1>2
  <2> QED
    BY <1>3, <1>5, <2>1, <2>2, <2>3
<1>8. x.name \in names
  BY <1>2
<1> HIDE DEF names
<1>9. e \in Seq(names) /\ Len(e) = n + 1 /\ e[n + 1] = x.name /\ \A i \in 1..n : e[i] = c[i]
  BY <1>6, <1>8
<1> HIDE DEF e
<1>10. \A i \in 1..(n + 1) : d[i] = e[i]
  <2>1. \A i \in 1..(n + 1) : i \in 1..n \/ i = n + 1
    BY <1>2
  <2> QED
    BY <1>6, <1>7, <1>9, <2>1
<1>11. d = e
  BY <1>7, <1>9, <1>10
<1> QED
  BY <1>1, <1>4, <1>11 DEF c, d, e

\* A parser that stands where it stood.
Stands(p, q) ==
  /\ DOMAIN q = ParserFields /\ q.state = p.state /\ q.carry = p.carry /\ q.off = p.off
  /\ q.stack = p.stack /\ q.path = p.path /\ q.left = p.left /\ q.out = p.out
  /\ q.found = p.found /\ q.index = p.index

LEMMA SamePath ==
  ASSUME NEW p, NEW q, q.stack = p.stack
  PROVE  CurrentPath(q) = CurrentPath(p)
BY DEF CurrentPath

LEMMA WaitParses ==
  ASSUME NEW S, NEW B, NEW W, NEW m, NEW p, Parses(p, S, B, W, m),
         NEW q, q \in {Wait(p), Refuse(p)}
  PROVE  Parses(q, S, B, W, m)
<1>1. DOMAIN p = ParserFields
  BY DEF Parses
<1>2. CASE q = Wait(p)
  <2>1. Stands(p, q) /\ q.bad = p.bad /\ q.go = FALSE
    BY <1>1, <1>2 DEF Wait, Stands, ParserFields
  <2>2. CurrentPath(q) = CurrentPath(p)
    BY <2>1, SamePath DEF Stands
  <2> QED
    BY <2>1, <2>2 DEF Parses, Stands, Fits, Sound
<1>3. CASE q = Refuse(p)
  <2>1. Stands(p, q) /\ q.bad = TRUE /\ q.go = FALSE
    BY <1>1, <1>3 DEF Refuse, Stands, ParserFields
  <2> QED
    BY <2>1 DEF Parses, Stands, Sound
<1> QED
  BY <1>2, <1>3

\* A unit that the parser holds is one of the stream, and more follow.
LEMMA HeldUnit ==
  ASSUME NEW S, NEW m, NEW c, NEW o, Rests(c, o, S, m), Len(c) >= 1
  PROVE  c[1] = S[o + 1] /\ o < m /\ o \in Nat /\ m \in Nat /\ (Len(c) >= 2 => c[2] = S[o + 2])
         /\ (Len(c) >= 3 => c[3] = S[o + 3])
         /\ Len(c) \in Nat
<1>1. Len(c) \in Nat /\ o \in Nat /\ m \in Nat /\ o + Len(c) = m
  BY DEF Rests
<1> QED
  BY <1>1 DEF Rests

\* The entry at a boundary is there.
LEMMA PieceThere ==
  ASSUME NEW S, NEW B, NEW W, NEW n, Laid(S, B, W, n), NEW o \in DOMAIN B, o < n
  PROVE  \E e \in DOMAIN B : Piece(S, W, o, B[o], e, B[e])
BY DEF Laid

LEMMA RootParses ==
  ASSUME NEW S, NEW B, NEW W, NEW m, NEW n, Laid(S, B, W, n), m <= n,
         NEW p, Parses(p, S, B, W, m), ~p.bad, p.state = "root"
  PROVE  Parses(StepRootEntry(p), S, B, W, m)
<1>1. /\ DOMAIN p = ParserFields /\ Rests(p.carry, p.off, S, m)
      /\ IsList(p.stack) /\ Sound(p, W) /\ p.off = 0 /\ p.stack = <<>> /\ n \in Nat
      /\ Notes(p.index, S, W, DOMAIN B)
  BY DEF Parses, Fits, Laid
<1>2. CASE ~Need(p, 1)
  <2>1. StepRootEntry(p) = Wait(p)
    BY <1>2 DEF StepRootEntry
  <2> QED
    BY <2>1, WaitParses
<1>3. CASE Need(p, 1)
  <2>1. Len(p.carry) >= 1
    BY <1>3 DEF Need
  <2>2. 0 < m /\ m \in Nat /\ p.carry[1] = S[0 + 1] /\ Len(p.carry) \in Nat
    BY <1>1, <2>1, HeldUnit
  <2>3. 0 \in DOMAIN B /\ 0 < n
    BY <1>1, <2>2 DEF Laid
  <2>4. PICK e \in DOMAIN B : Piece(S, W, 0, B[0], e, B[e])
    BY <2>3, PieceThere
  <2>5. e = 1 /\ S[1] = DirEntry /\ B[1] = <<>>
    BY <2>4 DEF Piece
  <2> DEFINE c == SubSeq(p.carry, 2, Len(p.carry))
             q == [p EXCEPT !.carry = c, !.off = @ + 1, !.state = "dir"]
  <2>6. StepRootEntry(p) = q
    <3>1. p.carry[1] = DirEntry
      BY <2>2, <2>5
    <3>2. StepRootEntry(p) = [Consume(p, 1) EXCEPT !.state = "dir"]
      BY <1>3, <3>1 DEF StepRootEntry
    <3>3. Consume(p, 1) = [p EXCEPT !.carry = c, !.off = @ + 1]
      BY DEF Consume
    <3> HIDE DEF c
    <3> QED
      BY <1>1, <3>2, <3>3 DEF ParserFields
  <2>7. Rests(c, 0 + 1, S, m)
    <3>1. 1 \in 0..Len(p.carry)
      BY <2>1, <2>2
    <3> QED
      BY <1>1, <3>1, RestsOn
  <2> HIDE DEF c
  <2>8. /\ DOMAIN q = ParserFields /\ q.carry = c /\ q.off = 1 /\ q.state = "dir"
        /\ q.stack = p.stack /\ q.found = p.found /\ q.bad = p.bad /\ q.index = p.index
    BY <1>1 DEF ParserFields
  <2> HIDE DEF q
  <2>9. CurrentPath(q) = <<>>
    <3>1. DOMAIN q.stack = {} /\ <<>> = [i \in {} |-> q.stack[i].name]
      BY <1>1, <2>8
    <3> QED
      BY <3>1 DEF CurrentPath
  <2>10. Fits(q, S, B, W)
    BY <2>5, <2>8, <2>9 DEF Fits
  <2>11. Rests(q.carry, q.off, S, m)
    BY <2>7, <2>8
  <2> QED
    BY <1>1, <2>6, <2>8, <2>10, <2>11 DEF Parses, Sound
<1> QED
  BY <1>2, <1>3

\* A parser that went on by k units, and stands before an entry.
LEMMA NowInDir ==
  ASSUME NEW S, NEW B, NEW W, NEW m, NEW p, Parses(p, S, B, W, m), ~p.bad,
         NEW k \in 0..Len(p.carry), NEW q, DOMAIN q = ParserFields,
         q.carry = SubSeq(p.carry, k + 1, Len(p.carry)), q.off = p.off + k, q.state = "dir",
         q.found = p.found, q.index = p.index, q.bad = p.bad, IsList(q.stack),
         q.off \in DOMAIN B, q.off # 0, CurrentPath(q) = B[q.off]
  PROVE  Parses(q, S, B, W, m)
<1>1. Rests(p.carry, p.off, S, m)
  BY DEF Parses
<1> DEFINE c == SubSeq(p.carry, k + 1, Len(p.carry))
<1>2. Rests(c, p.off + k, S, m)
  BY <1>1, RestsOn
<1> HIDE DEF c
<1>3. Rests(q.carry, q.off, S, m)
  BY <1>2 DEF c
<1>4. Fits(q, S, B, W)
  BY DEF Fits
<1> QED
  BY <1>3, <1>4 DEF Parses, Sound

LEMMA GoodbyeParses ==
  ASSUME NEW S, NEW B, NEW W, NEW m, NEW p, Parses(p, S, B, W, m), ~p.bad,
         p.state = "dir", p.off \in DOMAIN B, CurrentPath(p) = B[p.off], Need(p, 1),
         p.off + 1 \in DOMAIN B, B[p.off + 1] = Up(B[p.off])
  PROVE  Parses(StepGoodbye(p), S, B, W, m)
<1> DEFINE c == SubSeq(p.carry, 2, Len(p.carry))
           s == IF p.stack = <<>> THEN p.stack ELSE Front(p.stack)
           q == [p EXCEPT !.carry = c, !.off = @ + 1, !.stack = s]
<1>1. DOMAIN p = ParserFields /\ IsList(p.stack) /\ Rests(p.carry, p.off, S, m)
  BY DEF Parses
<1>2. Len(p.carry) \in Nat /\ Len(p.carry) >= 1 /\ p.off \in Nat
  BY <1>1, HeldUnit DEF Need
<1>3. StepGoodbye(p) = q
  <2>1. Consume(p, 1) = [p EXCEPT !.carry = c, !.off = @ + 1]
    BY DEF Consume
  <2> HIDE DEF c
  <2>2. StepGoodbye(p) = [Consume(p, 1) EXCEPT !.stack = IF @ = <<>> THEN @ ELSE Front(@)]
    BY DEF StepGoodbye
  <2> QED
    BY <1>1, <2>1, <2>2 DEF ParserFields
<1> HIDE DEF c, s
<1>4. /\ DOMAIN q = ParserFields /\ q.carry = c /\ q.off = p.off + 1 /\ q.state = p.state
      /\ q.stack = s /\ q.found = p.found /\ q.index = p.index /\ q.bad = p.bad
  BY <1>1 DEF ParserFields
<1>9. q.state = "dir"
  BY <1>4
<1> HIDE DEF q
<1>5. IsList(q.stack) /\ CurrentPath(q) = Up(CurrentPath(p))
  <2>1. CASE p.stack = <<>>
    <3>1. q.stack = p.stack
      BY <1>4, <2>1 DEF s
    <3>2. CurrentPath(q) = CurrentPath(p) /\ CurrentPath(p) = <<>>
      <4>1. DOMAIN p.stack = {} /\ <<>> = [i \in {} |-> p.stack[i].name]
        BY <2>1
      <4> QED
        BY <3>1, <4>1, SamePath DEF CurrentPath
    <3> QED
      BY <1>1, <3>1, <3>2 DEF Up
  <2>2. CASE p.stack # <<>>
    <3>1. q.stack = Front(p.stack)
      BY <1>4, <2>2 DEF s
    <3> QED
      BY <1>1, <2>2, <3>1, PathUp DEF Up
  <2> QED
    BY <2>1, <2>2
<1>6. 1 \in 0..Len(p.carry) /\ p.off + 1 # 0
  BY <1>2
<1>7. q.carry = SubSeq(p.carry, 1 + 1, Len(p.carry))
  BY <1>4 DEF c
<1>8. CurrentPath(q) = B[q.off] /\ q.off \in DOMAIN B
  BY <1>4, <1>5
<1> QED
  BY <1>3, <1>4, <1>5, <1>6, <1>7, <1>8, <1>9, NowInDir

LEMMA EntryParses ==
  ASSUME NEW S, NEW B, NEW W, NEW m, NEW p, Parses(p, S, B, W, m), ~p.bad,
         p.state = "dir", p.off \in DOMAIN B, CurrentPath(p) = B[p.off], Need(p, 1),
         NEW d \in Names, S[p.off + 1] = Named(d), S[p.off + 2] = DirEntry,
         p.off + 2 \in DOMAIN B, B[p.off + 2] = Append(B[p.off], d)
  PROVE  Parses(StepFilename(p), S, B, W, m)
<1>1. DOMAIN p = ParserFields /\ IsList(p.stack) /\ Rests(p.carry, p.off, S, m)
  BY DEF Parses
<1>2. /\ Len(p.carry) \in Nat /\ Len(p.carry) >= 1 /\ p.off \in Nat
      /\ p.carry[1] = Named(d) /\ (Len(p.carry) >= 2 => p.carry[2] = DirEntry)
  BY <1>1, HeldUnit DEF Need
<1>3. CASE ~Need(p, 2)
  <2>1. StepFilename(p) = Wait(p)
    BY <1>3 DEF StepFilename
  <2> QED
    BY <2>1, WaitParses
<1>4. CASE Need(p, 2)
  <2> DEFINE path == Append(CurrentPath(p), p.carry[1][2])
             x == [name |-> Last(path), skip |-> InSkip(p) \/ ~DirRelevant(p, path)]
             c == SubSeq(p.carry, 3, Len(p.carry))
             s == Append(p.stack, x)
             q == [p EXCEPT !.carry = c, !.off = @ + 2, !.stack = s]
  <2>1. p.carry[2] = DirEntry /\ Len(p.carry) >= 2 /\ DirEntry # FileEntry
    BY <1>2, <1>4 DEF Need, DirEntry, FileEntry
  <2>2. StepFilename(p) = [Consume(p, 2) EXCEPT !.stack = Append(@, x)]
    BY <1>4, <2>1 DEF StepFilename
  <2>3. StepFilename(p) = q
    <3>1. Consume(p, 2) = [p EXCEPT !.carry = c, !.off = @ + 2]
      BY DEF Consume
    <3> HIDE DEF c, x
    <3> QED
      BY <1>1, <2>2, <3>1 DEF ParserFields
  <2>4. x.name = d
    <3>1. p.carry[1][2] = d
      BY <1>2 DEF Named
    <3>2. B[p.off] = CurrentPath(p) /\ path = Append(CurrentPath(p), d)
      BY <3>1
    <3>3. CurrentPath(p) \in Seq({p.stack[i].name : i \in DOMAIN p.stack})
      <4>1. p.stack \in Seq(ToSet(p.stack))
        BY <1>1 DEF IsList
      <4>2. DOMAIN p.stack = 1..Len(p.stack) /\ Len(p.stack) \in Nat
        BY <4>1
      <4> DEFINE names == {p.stack[i].name : i \in DOMAIN p.stack}
      <4>3. \A i \in DOMAIN p.stack : p.stack[i].name \in names
        OBVIOUS
      <4> HIDE DEF names
      <4>4. CurrentPath(p) \in Seq(names)
        BY <4>2, <4>3 DEF CurrentPath
      <4> QED
        BY <4>4 DEF names
    <3>4. \A T : \A t \in Seq(T) : Last(Append(t, d)) = d
      <4> SUFFICES ASSUME NEW T, NEW t \in Seq(T) PROVE Last(Append(t, d)) = d
        OBVIOUS
      <4> DEFINE V == T \cup {d}
                 u == Append(t, d)
      <4>1. t \in Seq(V) /\ d \in V
        BY SeqMonotonic
      <4> HIDE DEF V
      <4>2. Len(u) = Len(t) + 1 /\ u[Len(t) + 1] = d
        BY <4>1
      <4> QED
        BY <4>2 DEF Last
    <3>5. Last(path) = d
      <4> DEFINE cp == CurrentPath(p)
                 names == {p.stack[i].name : i \in DOMAIN p.stack}
      <4>1. cp \in Seq(names)
        BY <3>3
      <4> HIDE DEF cp, names
      <4>2. Last(Append(cp, d)) = d
        BY <3>4, <4>1
      <4> QED
        BY <3>2, <4>2 DEF cp
    <3> HIDE DEF path
    <3> QED
      BY <3>5
  <2> HIDE DEF c, s, x
  <2>5. /\ DOMAIN q = ParserFields /\ q.carry = c /\ q.off = p.off + 2 /\ q.state = "dir"
        /\ q.stack = s /\ q.found = p.found /\ q.index = p.index /\ q.bad = p.bad
    BY <1>1 DEF ParserFields
  <2> HIDE DEF q
  <2>6. IsList(q.stack) /\ CurrentPath(q) = Append(CurrentPath(p), x.name)
    BY <1>1, <2>5, PathDown DEF s
  <2>7. 2 \in 0..Len(p.carry) /\ p.off + 2 # 0 /\ p.off + 2 = q.off
    BY <1>2, <2>1, <2>5
  <2>8. q.carry = SubSeq(p.carry, 2 + 1, Len(p.carry))
    BY <2>5 DEF c
  <2>9. CurrentPath(q) = B[q.off] /\ q.off \in DOMAIN B
    BY <2>4, <2>5, <2>6
  <2>10. DOMAIN q = ParserFields /\ q.off = p.off + 2 /\ q.state = "dir" /\ q.found = p.found
         /\ q.index = p.index /\ q.bad = p.bad /\ q.off # 0
    BY <2>5, <2>7
  <2> QED
    BY <2>3, <2>6, <2>7, <2>8, <2>9, <2>10, NowInDir
<1> QED
  BY <1>3, <1>4

LEMMA FileParses ==
  ASSUME NEW S, NEW B, NEW W, NEW m, NEW p, Parses(p, S, B, W, m), ~p.bad,
         p.state = "dir", CurrentPath(p) \in Seq(Names), Need(p, 1),
         NEW f \in Names, NEW e \in DOMAIN B, B[e] = CurrentPath(p),
         FileAt(S, W, p.off, Append(CurrentPath(p), f), f, e)
  PROVE  Parses(StepFilename(p), S, B, W, m)
<1> DEFINE path == Append(CurrentPath(p), f)
           w == W[path]
<1>1. /\ DOMAIN p = ParserFields /\ IsList(p.stack) /\ Rests(p.carry, p.off, S, m)
      /\ Sound(p, W) /\ Notes(p.index, S, W, DOMAIN B)
  BY DEF Parses
<1>2. /\ path \in DOMAIN W /\ Lays(S, p.off + 3, w) /\ e = p.off + 3 + Len(w)
      /\ S[p.off + 1] = Named(f) /\ S[p.off + 2] = FileEntry /\ S[p.off + 3] = Payload(Len(w))
  BY DEF FileAt
<1>3. w \in Seq(Units) /\ Len(w) \in Nat
  BY <1>2 DEF Lays
<1>4. /\ Len(p.carry) \in Nat /\ Len(p.carry) >= 1 /\ p.off \in Nat
      /\ p.carry[1] = Named(f) /\ (Len(p.carry) >= 2 => p.carry[2] = FileEntry)
      /\ (Len(p.carry) >= 3 => p.carry[3] = Payload(Len(w)))
  <2> HIDE DEF w
  <2>1. Len(p.carry) >= 1
    BY DEF Need
  <2>2. /\ p.carry[1] = S[p.off + 1] /\ p.off \in Nat /\ Len(p.carry) \in Nat
        /\ (Len(p.carry) >= 2 => p.carry[2] = S[p.off + 2])
        /\ (Len(p.carry) >= 3 => p.carry[3] = S[p.off + 3])
    BY <1>1, <2>1, HeldUnit
  <2> QED
    BY <1>2, <2>1, <2>2
<1> HIDE DEF w
<1>5. CASE ~Need(p, 2)
  <2>1. StepFilename(p) = Wait(p)
    BY <1>5 DEF StepFilename
  <2> QED
    BY <2>1, WaitParses
<1>6. CASE Need(p, 2)
  <2> DEFINE c == SubSeq(p.carry, 3, Len(p.carry))
             q == [p EXCEPT !.carry = c, !.off = @ + 2, !.path = path]
  <2>1. p.carry[2] = FileEntry /\ Len(p.carry) >= 2 /\ DirEntry # FileEntry
    BY <1>4, <1>6 DEF Need, DirEntry, FileEntry
  <2>2. Append(CurrentPath(p), p.carry[1][2]) = path
    BY <1>4 DEF Named
  <2>3. StepFilename(p) = BeginPayload(q)
    <3>1. Consume(p, 2) = [p EXCEPT !.carry = c, !.off = @ + 2]
      BY DEF Consume
    <3> DEFINE long == Append(CurrentPath(p), p.carry[1][2])
    <3>2. StepFilename(p) = BeginPayload([Consume(p, 2) EXCEPT !.path = long])
      BY <1>6, <2>1 DEF StepFilename
    <3>3. long = path
      BY <2>2
    <3> HIDE DEF c, path, long
    <3>4. [Consume(p, 2) EXCEPT !.path = long] = q
      BY <1>1, <3>1, <3>3 DEF ParserFields
    <3> QED
      BY <3>2, <3>4
  <2>4. Rests(c, p.off + 2, S, m)
    <3>1. 2 \in 0..Len(p.carry)
      BY <1>4, <2>1
    <3> QED
      BY <1>1, <3>1, RestsOn
  <2> HIDE DEF c, path
  <2>5. /\ DOMAIN q = ParserFields /\ q.carry = c /\ q.off = p.off + 2 /\ q.state = "dir"
        /\ q.stack = p.stack /\ q.found = p.found /\ q.bad = p.bad /\ q.path = path
        /\ q.go = p.go /\ q.index = p.index
    BY <1>1 DEF ParserFields
  <2> HIDE DEF q
  <2>6. q.off + 1 = p.off + 3
    BY <1>4, <2>5
  <2>7. Parses(q, S, B, W, m)
    <3>1. S[q.off + 1] = Payload(Len(w))
      BY <1>2, <2>6
    <3>2. Fits(q, S, B, W)
      BY <1>3, <2>5, <3>1 DEF Fits
    <3> QED
      BY <1>1, <2>4, <2>5, <3>2 DEF Parses, Sound
  <2>8. CASE ~Need(q, 1)
    <3>1. BeginPayload(q) = Wait(q)
      BY <2>8 DEF BeginPayload
    <3> QED
      BY <2>3, <2>7, <3>1, WaitParses
  <2>9. CASE Need(q, 1)
    <3>1. Len(q.carry) >= 1 /\ Rests(q.carry, q.off, S, m)
      BY <2>4, <2>5, <2>9 DEF Need
    <3>2. q.carry[1] = Payload(Len(w)) /\ Len(q.carry) \in Nat /\ q.off \in Nat
      BY <1>2, <2>6, <3>1, HeldUnit
    <3>3. Kind(q) = "payload" /\ q.carry[1][3] = Len(w)
      <4>1. Payload(Len(w))[1] = "payload" /\ Payload(Len(w))[3] = Len(w)
        BY DEF Payload
      <4> QED
        BY <3>2, <4>1 DEF Kind
    <3> DEFINE x == Put(q.index, q.path, [at |-> q.off, size |-> q.carry[1][3]])
               y == [q EXCEPT !.index = x]
               d == SubSeq(q.carry, 2, Len(q.carry))
               k == Len(w)
               r == [q EXCEPT !.index = x, !.carry = d, !.off = @ + 1, !.left = k, !.out = <<>>,
                              !.state = "payload"]
    <3>4. BeginPayload(q) = [Consume(RecordIndexPayload(q), 1) EXCEPT
                               !.left = q.carry[1][3], !.out = <<>>, !.state = "payload"]
      BY <2>9, <3>3 DEF BeginPayload
    <3>5. RecordIndexPayload(q) = y
      BY DEF RecordIndexPayload
    <3>6. q.carry[1][3] = k
      BY <3>3
    <3> HIDE DEF x, k
    <3>7. y.carry = q.carry /\ y.off = q.off /\ DOMAIN y = ParserFields
      BY <2>5 DEF ParserFields
    <3>8. Consume(y, 1) = [q EXCEPT !.index = x, !.carry = d, !.off = @ + 1]
      <4>1. Consume(y, 1) = [y EXCEPT !.carry = SubSeq(@, 2, Len(@)), !.off = @ + 1]
        BY DEF Consume
      <4>2. [y EXCEPT !.carry = SubSeq(@, 2, Len(@)), !.off = @ + 1] = [y EXCEPT !.carry = d, !.off = @ + 1]
        BY <3>7
      <4> HIDE DEF d
      <4>3. [y EXCEPT !.carry = d, !.off = @ + 1] = [q EXCEPT !.index = x, !.carry = d, !.off = @ + 1]
        BY <2>5 DEF ParserFields
      <4> QED
        BY <4>1, <4>2, <4>3
    <3> HIDE DEF y
    <3>9. BeginPayload(q) = r
      <4> HIDE DEF d
      <4> QED
        BY <2>5, <3>4, <3>5, <3>6, <3>8 DEF ParserFields
    <3>10. Rests(d, q.off + 1, S, m)
      <4>1. 1 \in 0..Len(q.carry)
        BY <3>1, <3>2
      <4> QED
        BY <3>1, <4>1, RestsOn
    <3> HIDE DEF d
    <3>11. /\ DOMAIN r = ParserFields /\ r.carry = d /\ r.off = q.off + 1 /\ r.state = "payload"
           /\ r.stack = q.stack /\ r.found = q.found /\ r.bad = q.bad /\ r.path = q.path
           /\ r.left = k /\ r.out = <<>> /\ r.go = q.go /\ r.index = x
      BY <2>5 DEF ParserFields
    <3> HIDE DEF r
    <3>12. CurrentPath(r) = CurrentPath(p)
      BY <2>5, <3>11, SamePath
    <3>13. Reading(S, B, W, r.path, r.out, r.left, r.off, CurrentPath(r))
      <4>1. p.off + 3 \in Nat \ {0} /\ r.off = (p.off + 3) + 0 /\ Len(<<>>) = 0 /\ <<>> \in Seq(Units)
            /\ 0 + Len(w) = Len(w)
        BY <1>3, <1>4, <2>5, <3>11
      <4>2. e = (p.off + 3) + Len(w)
        BY <1>2
      <4>3. /\ path \in DOMAIN W /\ Lays(S, p.off + 3, W[path])
            /\ Begins(r.out, W[path]) /\ r.left \in Nat /\ Len(r.out) + r.left = Len(W[path])
            /\ r.off = p.off + 3 + Len(r.out)
            /\ p.off + 3 + Len(W[path]) \in DOMAIN B /\ B[p.off + 3 + Len(W[path])] = CurrentPath(r)
        BY <1>2, <1>3, <3>11, <3>12, <4>1, <4>2 DEF k, w, Begins
      <4> QED
        BY <2>5, <3>11, <4>1, <4>3 DEF Reading
    <3>14. Fits(r, S, B, W)
      BY <3>11, <3>13 DEF Fits
    <3>15. Rests(r.carry, r.off, S, m)
      BY <3>10, <3>11
    <3>16. Notes(r.index, S, W, DOMAIN B)
      <4> DEFINE a == p.off + 2
                 z == [at |-> a, size |-> Len(W[path])]
      <4>1. path \in DOMAIN W /\ a \in Nat /\ a + 1 = p.off + 3 /\ w = W[path]
            /\ a + 1 + Len(w) = e
        BY <1>2, <1>4 DEF w
      <4>2. x = Put(p.index, path, z)
        BY <2>5, <3>3, <4>1 DEF x
      <4>3. /\ S[a + 1] = Payload(Len(W[path])) /\ Lays(S, a + 1, W[path])
            /\ a + 1 + Len(W[path]) \in DOMAIN B
        BY <1>2, <4>1
      <4>4. z = [at |-> a, size |-> Len(W[path])]
        OBVIOUS
      <4> HIDE DEF a, z
      <4>5. Notes(Put(p.index, path, z), S, W, DOMAIN B)
        BY <1>1, <4>1, <4>3, <4>4, NotesPut
      <4> QED
        BY <3>11, <4>2, <4>5
    <3> QED
      BY <1>1, <2>3, <2>5, <3>9, <3>11, <3>14, <3>15, <3>16 DEF Parses, Sound
  <2> QED
    BY <2>3, <2>8, <2>9
<1> QED
  BY <1>5, <1>6

\* The first k of a sequence.
LEMMA SubSeqIs ==
  ASSUME NEW U, NEW c \in Seq(U), NEW k \in 0..Len(c)
  PROVE  /\ SubSeq(c, 1, k) \in Seq(U) /\ Len(SubSeq(c, 1, k)) = k
         /\ \A i \in 1..k : SubSeq(c, 1, k)[i] = c[i]
OBVIOUS

LEMMA ReadsOn ==
  ASSUME NEW S, NEW w, NEW a \in Nat \ {0}, Lays(S, a, w), NEW out, Begins(out, w),
         NEW left \in Nat, Len(out) + left = Len(w),
         NEW m, NEW c, Rests(c, a + Len(out), S, m), NEW k \in 0..Len(c), k <= left,
         NEW more, more = out \o SubSeq(c, 1, k)
  PROVE  /\ Begins(more, w) /\ Len(more) = Len(out) + k /\ left - k \in Nat
         /\ Len(more) + (left - k) = Len(w)
<1> DEFINE d == SubSeq(c, 1, k)
           n == Len(out)
<1>1. n \in Nat /\ Len(c) \in Nat /\ k \in Nat /\ w \in Seq(Units) /\ out \in Seq(Units)
      /\ (\A i \in 1..Len(w) : S[a + i] = w[i]) /\ \A i \in 1..n : out[i] = w[i]
  BY DEF Rests, Lays, Begins
<1>2. c \in Seq(Units) /\ \A i \in 1..Len(c) : c[i] = S[(a + n) + i]
  BY DEF Rests
<1>3. d \in Seq(Units) /\ Len(d) = k /\ \A i \in 1..k : d[i] = c[i]
  BY <1>1, <1>2, SubSeqIs
<1> HIDE DEF d
<1>4. /\ out \o d \in Seq(Units) /\ Len(out \o d) = n + k
      /\ \A i \in 1..n : (out \o d)[i] = out[i]
      /\ \A i \in 1..k : (out \o d)[n + i] = d[i]
  <2>1. /\ out \o d \in Seq(Units) /\ Len(out \o d) = Len(out) + Len(d)
        /\ \A i \in 1..Len(out) : (out \o d)[i] = out[i]
        /\ \A i \in 1..Len(d) : (out \o d)[Len(out) + i] = d[i]
    <3>1. out \in Seq(Units) /\ d \in Seq(Units)
      BY <1>1, <1>3
    <3> HIDE DEF n
    <3> QED
      BY <3>1, ConcatIs
  <2> QED
    BY <1>3, <2>1, Zenon
<1>5. more = out \o d
  BY DEF d
<1>6. n + left = Len(w) /\ Len(w) \in Nat
  BY <1>1
<1> HIDE DEF n
<1>7. ASSUME NEW i \in 1..(n + k) PROVE more[i] = w[i]
  <2>1. CASE i \in 1..n
    BY <1>1, <1>4, <1>5, <2>1 DEF n
  <2>2. CASE i \notin 1..n
    <3>1. i - n \in 1..k /\ n + (i - n) = i /\ (a + n) + (i - n) = a + i /\ i \in 1..Len(w)
          /\ i - n \in 1..Len(c)
      BY <1>1, <1>6, <2>2
    <3>2. more[n + (i - n)] = d[i - n] /\ d[i - n] = c[i - n] /\ c[i - n] = S[(a + n) + (i - n)]
      BY <1>2, <1>3, <1>4, <1>5, <3>1
    <3> QED
      BY <1>1, <3>1, <3>2
  <2> QED
    BY <2>1, <2>2
<1>8. left - k \in Nat /\ (n + k) + (left - k) = Len(w)
  <2> DEFINE z == Len(w)
  <2>1. n + left = z /\ z \in Nat
    BY <1>6
  <2> HIDE DEF z
  <2>2. left - k \in Nat /\ (n + k) + (left - k) = z
    BY <1>1, <2>1
  <2> QED
    BY <2>2 DEF z
<1> QED
  BY <1>4, <1>5, <1>7, <1>8 DEF n, Begins

LEMMA PayloadParses ==
  ASSUME NEW S, NEW B, NEW W, NEW m, NEW p, Parses(p, S, B, W, m), ~p.bad,
         p.state = "payload"
  PROVE  Parses(StepPayload(p), S, B, W, m)
<1> DEFINE body == W[p.path]
<1>1. /\ DOMAIN p = ParserFields /\ IsList(p.stack) /\ Rests(p.carry, p.off, S, m)
      /\ Sound(p, W) /\ Notes(p.index, S, W, DOMAIN B)
  BY DEF Parses
<1>2. Reading(S, B, W, p.path, p.out, p.left, p.off, CurrentPath(p))
  BY DEF Parses, Fits
<1>3. PICK a \in Nat \ {0} :
        /\ p.path \in DOMAIN W /\ Lays(S, a, body)
        /\ Begins(p.out, body) /\ p.left \in Nat /\ Len(p.out) + p.left = Len(body)
        /\ p.off = a + Len(p.out)
        /\ a + Len(body) \in DOMAIN B /\ B[a + Len(body)] = CurrentPath(p)
  BY <1>2 DEF Reading
<1> DEFINE n == IF p.left > Len(p.carry) THEN Len(p.carry) ELSE p.left
           c == SubSeq(p.carry, n + 1, Len(p.carry))
           o == p.out \o SubSeq(p.carry, 1, n)
           l == p.left - n
           q == [p EXCEPT !.carry = c, !.off = @ + n, !.left = l, !.out = o]
<1>4. Len(p.carry) \in Nat /\ p.left \in Nat /\ n \in 0..Len(p.carry) /\ n <= p.left
  BY <1>1, <1>3 DEF Rests
<1>5. [Consume(p, n) EXCEPT !.left = @ - n, !.out = @ \o SubSeq(p.carry, 1, n)] = q
  <2>1. Consume(p, n) = [p EXCEPT !.carry = c, !.off = @ + n]
    BY DEF Consume
  <2> DEFINE d == SubSeq(p.carry, 1, n)
  <2> HIDE DEF n, c, d
  <2>2. [Consume(p, n) EXCEPT !.left = @ - n, !.out = @ \o d] = q
    BY ZenonT(60), <1>1, <2>1 DEF ParserFields, d
  <2> QED
    BY <2>2 DEF d
<1>6. StepPayload(p) \in {Wait(p), q, FinishPayload(q)}
  <2> DEFINE r == [Consume(p, n) EXCEPT !.left = @ - n, !.out = @ \o SubSeq(p.carry, 1, n)]
  <2>1. StepPayload(p) = CASE p.left > 0 /\ n = 0 -> Wait(p)
                           [] n > 0 /\ p.left > n -> r
                           [] OTHER -> FinishPayload(r)
    BY DEF StepPayload
  <2> HIDE DEF r, q
  <2>2. r = q
    BY <1>5 DEF r
  <2> HIDE DEF n
  <2> QED
    BY <2>1, <2>2
<1>7. StepPayload(p) = FinishPayload(q) => StepPayload(p) \in {Wait(p), q} \/ l = 0
  <2> DEFINE r == [Consume(p, n) EXCEPT !.left = @ - n, !.out = @ \o SubSeq(p.carry, 1, n)]
  <2>1. StepPayload(p) = CASE p.left > 0 /\ n = 0 -> Wait(p)
                           [] n > 0 /\ p.left > n -> r
                           [] OTHER -> FinishPayload(r)
    BY DEF StepPayload
  <2> HIDE DEF r, q
  <2>2. r = q
    BY <1>5 DEF r
  <2> HIDE DEF n
  <2>3. CASE p.left > 0 /\ n = 0
    BY <2>1, <2>3
  <2>4. CASE n > 0 /\ p.left > n
    <3>1. ~(p.left > 0 /\ n = 0)
      BY <1>4, <2>4
    <3> QED
      BY <2>1, <2>2, <2>4, <3>1
  <2>5. CASE ~(p.left > 0 /\ n = 0) /\ ~(n > 0 /\ p.left > n)
    <3>1. l = 0
      BY <1>4, <2>5
    <3> QED
      BY <3>1
  <2> QED
    BY <2>3, <2>4, <2>5
<1>8. Rests(c, p.off + n, S, m)
  BY <1>1, <1>4, RestsOn
<1>9. /\ Begins(o, body) /\ Len(o) = Len(p.out) + n /\ l \in Nat /\ Len(o) + l = Len(body)
  <2> HIDE DEF body, n
  <2>1. Rests(p.carry, a + Len(p.out), S, m)
    BY <1>1, <1>3
  <2> DEFINE u == p.out
             e == p.left
             d == p.carry
  <2>2. /\ a \in Nat \ {0} /\ Lays(S, a, body) /\ Begins(u, body) /\ e \in Nat /\ Len(u) + e = Len(body)
        /\ Rests(d, a + Len(u), S, m) /\ n \in 0..Len(d) /\ n <= e
    BY <1>3, <1>4, <2>1
  <2>3. o = u \o SubSeq(d, 1, n) /\ l = e - n
    OBVIOUS
  <2> HIDE DEF o, l, u, e, d
  <2>4. /\ Begins(o, body) /\ Len(o) = Len(u) + n /\ e - n \in Nat /\ Len(o) + (e - n) = Len(body)
    <3>1. Begins(o, body)
      BY <2>2, <2>3, ReadsOn
    <3>2. Len(o) = Len(u) + n
      BY <2>2, <2>3, ReadsOn
    <3>3. Len(u) \in Nat /\ n \in Nat /\ Len(body) \in Nat
      BY <2>2 DEF Begins, Lays
    <3>4. e - n \in Nat /\ Len(o) + (e - n) = Len(body)
      BY <2>2, <3>2, <3>3
    <3> QED
      BY <3>1, <3>2, <3>4
  <2> QED
    BY <2>3, <2>4 DEF u
<1>10. Len(p.out) \in Nat /\ n \in Nat
  BY <1>3, <1>4 DEF Begins
<1> HIDE DEF c, o, l, n, body
<1>11. /\ DOMAIN q = ParserFields /\ q.carry = c /\ q.off = p.off + n /\ q.state = "payload"
       /\ q.stack = p.stack /\ q.found = p.found /\ q.bad = p.bad /\ q.path = p.path
       /\ q.left = l /\ q.out = o /\ q.go = p.go /\ q.index = p.index
  BY <1>1 DEF ParserFields
<1> HIDE DEF q
<1>12. CurrentPath(q) = CurrentPath(p)
  BY <1>11, SamePath
<1>13. Rests(q.carry, q.off, S, m)
  BY <1>8, <1>11
<1>14. q.off = a + Len(o)
  BY <1>3, <1>9, <1>10, <1>11
<1>15. Parses(q, S, B, W, m)
  <2>1. Reading(S, B, W, q.path, q.out, q.left, q.off, CurrentPath(q))
    BY <1>3, <1>9, <1>11, <1>12, <1>14 DEF Reading, body
  <2>2. Fits(q, S, B, W)
    BY <1>11, <2>1 DEF Fits
  <2> QED
    BY <1>1, <1>11, <1>13, <2>2 DEF Parses, Sound
<1>16. CASE l = 0
  <2>1. Len(o) = Len(body) /\ body \in Seq(Units)
    BY <1>3, <1>9, <1>10, <1>16 DEF Lays, Begins
  <2>2. o = body
    BY <1>9, <2>1 DEF Begins
  <2> DEFINE v == IF Reads(q) THEN q.want \ {q.path} ELSE q.want
             x == IF Reads(q) THEN Put(q.found, q.path, q.out) ELSE q.found
             r == [q EXCEPT !.state = "dir", !.want = v, !.found = x]
  <2>3. FinishPayload(q) = r
    BY DEF FinishPayload
  <2>4. ASSUME NEW path \in DOMAIN x PROVE path \in DOMAIN W /\ x[path] = W[path]
    <3>1. CASE Reads(q)
      <4>1. x = Put(q.found, q.path, q.out)
        BY <3>1
      <4> HIDE DEF x
      <4>2. DOMAIN x = DOMAIN q.found \cup {q.path}
            /\ x[path] = IF path = q.path THEN q.out ELSE q.found[path]
        BY <2>4, <4>1 DEF Put
      <4>3. q.out = W[q.path] /\ q.path \in DOMAIN W
        BY <1>3, <1>11, <2>2 DEF body
      <4> QED
        BY <1>1, <1>11, <2>4, <4>2, <4>3 DEF Sound
    <3>2. CASE ~Reads(q)
      <4>1. x = p.found
        BY <1>11, <3>2
      <4> HIDE DEF x
      <4> QED
        BY <1>1, <2>4, <4>1 DEF Sound
    <3> QED
      BY <3>1, <3>2
  <2> HIDE DEF v, x
  <2>5. /\ DOMAIN r = ParserFields /\ r.carry = q.carry /\ r.off = q.off /\ r.state = "dir"
        /\ r.stack = q.stack /\ r.found = x /\ r.bad = q.bad /\ r.go = q.go /\ r.index = q.index
    BY <1>11 DEF ParserFields
  <2> HIDE DEF r
  <2>6. CurrentPath(r) = CurrentPath(p)
    BY <1>11, <2>5, SamePath
  <2>7. r.off = a + Len(body) /\ r.off # 0
    <3>1. r.off = a + Len(body)
      BY <1>14, <2>1, <2>5
    <3>2. Len(body) \in Nat
      BY <2>1
    <3> DEFINE z == Len(body)
    <3> HIDE DEF z
    <3>3. z \in Nat => a + z # 0
      OBVIOUS
    <3> QED
      BY <3>1, <3>2, <3>3 DEF z
  <2>8. Fits(r, S, B, W)
    BY <1>3, <2>5, <2>6, <2>7 DEF Fits
  <2>9. Sound(r, W)
    BY <2>4, <2>5 DEF Sound
  <2>10. Parses(r, S, B, W, m)
    BY <1>1, <1>11, <1>13, <2>5, <2>8, <2>9 DEF Parses
  <2> QED
    BY <1>6, <1>15, <2>3, <2>10, WaitParses
<1>17. CASE l # 0
  BY <1>6, <1>7, <1>15, <1>17, WaitParses
<1> QED
  BY <1>16, <1>17

LEMMA StepParses ==
  ASSUME NEW S, NEW B, NEW W, NEW n, Laid(S, B, W, n), NEW m, m <= n,
         NEW p, Parses(p, S, B, W, m)
  PROVE  Parses(FeedStep(p), S, B, W, m)
<1>1. CASE ~(p.go /\ ~AllDone(p))
  BY <1>1 DEF FeedStep
<1>2. CASE p.go /\ ~AllDone(p)
  <2>1. FeedStep(p) = Step(p) /\ ~p.bad
    BY <1>2 DEF FeedStep, Parses
  <2>2. Fits(p, S, B, W) /\ Rests(p.carry, p.off, S, m) /\ n \in Nat
    BY <2>1 DEF Parses, Laid
  <2>3. CASE p.state = "root"
    BY <2>1, <2>3, RootParses DEF Step
  <2>4. CASE p.state = "payload"
    BY <2>1, <2>4, PayloadParses DEF Step
  <2>5. CASE p.state = "dir"
    <3>1. FeedStep(p) = StepInDir(p)
      BY <2>1, <2>5 DEF Step
    <3>2. CASE ~Need(p, 1)
      <4>1. StepInDir(p) = Wait(p)
        BY <3>2 DEF StepInDir
      <4> QED
        BY <3>1, <4>1, WaitParses
    <3>3. CASE Need(p, 1)
      <4>1. Len(p.carry) >= 1
        BY <3>3 DEF Need
      <4>2. p.carry[1] = S[p.off + 1] /\ p.off < m /\ p.off \in Nat /\ m \in Nat
        BY <2>2, <4>1, HeldUnit
      <4>3. CASE \E k \in Nat : S[p.off + 1] = Payload(k)
        <5>1. PICK k \in Nat : p.carry[1] = Payload(k)
          BY <4>2, <4>3
        <5>2. Payload(k)[1] = "payload"
          BY DEF Payload
        <5>3. Kind(p) = "payload"
          BY <5>1, <5>2 DEF Kind
        <5>4. StepInDir(p) = Refuse(p)
          BY <3>3, <5>3 DEF StepInDir
        <5> QED
          BY <3>1, <5>4, WaitParses
      <4>4. CASE ~\E k \in Nat : S[p.off + 1] = Payload(k)
        <5> DEFINE o == p.off
        <5>1. o \in DOMAIN B /\ o # 0 /\ CurrentPath(p) = B[o]
          BY <2>2, <2>5, <4>4 DEF Fits
        <5>2. o < n /\ B[o] \in Seq(Names)
          BY <2>2, <4>2, <5>1 DEF Laid
        <5>3. PICK e \in DOMAIN B : Piece(S, W, o, B[o], e, B[e])
          BY <5>1, <5>2, PieceThere
        <5>4. CASE e = o + 1 /\ S[o + 1] = Goodbye /\ B[e] = Up(B[o])
          <6>1. Goodbye[1] = "goodbye"
            BY DEF Goodbye
          <6>2. Kind(p) = "goodbye"
            BY <4>2, <5>4, <6>1 DEF Kind
          <6>3. StepInDir(p) = StepGoodbye(p)
            BY <3>3, <6>2 DEF StepInDir
          <6> QED
            BY <2>1, <2>5, <3>1, <3>3, <5>1, <5>4, <6>3, GoodbyeParses
        <5>5. ASSUME NEW d \in Names, S[o + 1] = Named(d)
              PROVE  StepInDir(p) = StepFilename(p)
          <6>1. Named(d)[1] = "name"
            BY DEF Named
          <6>2. Kind(p) = "name"
            BY <4>2, <5>5, <6>1 DEF Kind
          <6> QED
            BY <3>3, <6>2 DEF StepInDir
        <5>6. ASSUME NEW d \in Names, e = o + 2, S[o + 1] = Named(d), S[o + 2] = DirEntry,
                     B[e] = Append(B[o], d)
              PROVE  Parses(StepFilename(p), S, B, W, m)
          BY <2>1, <2>5, <3>3, <5>1, <5>6, EntryParses
        <5>7. ASSUME NEW f \in Names, B[e] = B[o], FileAt(S, W, o, Append(B[o], f), f, e)
              PROVE  Parses(StepFilename(p), S, B, W, m) /\ S[o + 1] = Named(f)
          <6>1. S[o + 1] = Named(f)
            BY <5>7 DEF FileAt
          <6>2. FileAt(S, W, p.off, Append(CurrentPath(p), f), f, e) /\ B[e] = CurrentPath(p)
                /\ CurrentPath(p) \in Seq(Names)
            BY <5>1, <5>2, <5>7
          <6> QED
            BY <2>1, <2>5, <3>3, <6>1, <6>2, FileParses
        <5> HIDE DEF o
        <5>8. CASE e = o + 2 /\ \E d \in Names : S[o + 1] = Named(d) /\ S[o + 2] = DirEntry
                                                 /\ B[e] = Append(B[o], d)
          BY <3>1, <5>5, <5>6, <5>8
        <5>9. CASE B[e] = B[o] /\ \E f \in Names : FileAt(S, W, o, Append(B[o], f), f, e)
          BY <3>1, <5>5, <5>7, <5>9
        <5> QED
          BY <5>1, <5>3, <5>4, <5>8, <5>9 DEF Piece
      <4> QED
        BY <4>3, <4>4
    <3> QED
      BY <3>2, <3>3
  <2> QED
    BY <2>2, <2>3, <2>4, <2>5 DEF Fits
<1> QED
  BY <1>1, <1>2

-----------------------------------------------------------------------------
(* Recursions over numbers: the steps of feed, the chunks of a restore, the   *)
(* payloads of an index, and the items of the walk.                           *)

Advance(how, cs, i, v) ==
  CASE how = "feed" -> FeedStep(v)
    [] how = "restore" -> (IF AllDone(v) \/ v.bad THEN v ELSE Feed(v, cs[i]))
    [] how = "extract" -> Extract(cs[1], cs[2], v, cs[3][i])
    [] OTHER -> (CASE Walk[i][1] = "dir" /\ Walk[i][2] # "" -> Append(v, Walk[i][2])
                   [] Walk[i][1] = "end" /\ v # <<>> -> Front(v)
                   [] OTHER -> v)

Advances(how, cs, x, n, h) ==
  h = [i \in 0..n |-> IF i = 0 THEN x ELSE Advance(how, cs, i, h[i - 1])]

LEMMA AdvanceExists ==
  ASSUME NEW how, NEW cs, NEW x, NEW n \in Nat
  PROVE  \E h : Advances(how, cs, x, n, h)
<1> DEFINE T == {k \in 0..n : \E h : Advances(how, cs, x, k, h)}
<1>1. 0 \in T
  <2> DEFINE z == [i \in 0..0 |-> x]
  <2>1. z = [i \in 0..0 |-> IF i = 0 THEN x ELSE Advance(how, cs, i, z[i - 1])]
    OBVIOUS
  <2>2. Advances(how, cs, x, 0, z)
    <3> HIDE DEF z
    <3> QED
      BY <2>1 DEF Advances
  <2> QED
    BY <2>2
<1>2. ASSUME NEW k \in 0..n, k \in T, k < n
      PROVE  k + 1 \in T
  <2>1. PICK h : Advances(how, cs, x, k, h)
    BY <1>2
  <2> DEFINE z == [i \in 0..(k + 1) |-> IF i = k + 1 THEN Advance(how, cs, i, h[k]) ELSE h[i]]
  <2>2. \A i \in 0..k : z[i] = h[i]
    OBVIOUS
  <2>3. ASSUME NEW i \in 0..(k + 1)
        PROVE  z[i] = IF i = 0 THEN x ELSE Advance(how, cs, i, z[i - 1])
    <3>1. CASE i = k + 1
      <4>1. i - 1 = k /\ i # 0 /\ k \in 0..k
        BY <3>1
      <4>2. z[i] = Advance(how, cs, i, h[k])
        BY <3>1
      <4>3. z[i - 1] = h[k]
        BY <2>2, <4>1
      <4> HIDE DEF z
      <4> QED
        BY <4>1, <4>2, <4>3
    <3>2. CASE i # k + 1
      <4>1. i \in 0..k /\ (i # 0 => i - 1 \in 0..k)
        BY <3>2
      <4>2. h[i] = IF i = 0 THEN x ELSE Advance(how, cs, i, h[i - 1])
        BY <2>1, <4>1 DEF Advances
      <4>3. z[i] = h[i] /\ (i # 0 => z[i - 1] = h[i - 1])
        BY <2>2, <4>1
      <4> HIDE DEF z
      <4> QED
        BY <4>2, <4>3
    <3> QED
      BY <3>1, <3>2
  <2>4. Advances(how, cs, x, k + 1, z)
    <3>1. z = [i \in 0..(k + 1) |-> z[i]]
      OBVIOUS
    <3> HIDE DEF z
    <3>2. [i \in 0..(k + 1) |-> z[i]]
            = [i \in 0..(k + 1) |-> IF i = 0 THEN x ELSE Advance(how, cs, i, z[i - 1])]
      BY <2>3
    <3> QED
      BY <3>1, <3>2 DEF Advances
  <2>5. k + 1 \in 0..n
    BY <1>2
  <2> QED
    BY <2>4, <2>5
<1>3. \A k \in 0..n : k \in T
  <2> HIDE DEF T
  <2> QED
    BY <1>1, <1>2, NatSteps
<1> QED
  BY <1>3

\* h has the steps of feed.
Fed(p, units, k, h) ==
  /\ Feed(p, units) = h[k] /\ h[0] = Given(p, units)
  /\ \A i \in 1..k : h[i] = FeedStep(h[i - 1])

\* Feed is the last of its steps.
LEMMA FeedAdvances ==
  ASSUME NEW p, NEW units, NEW k \in Nat, k = 2 * (Len(p.carry) + Len(units)) + 2
  PROVE  \E h : Fed(p, units, k, h)
<1>1. PICK x : Advances("feed", <<>>, Given(p, units), k, x)
  BY AdvanceExists
<1>2. \A i, v : Advance("feed", <<>>, i, v) = FeedStep(v)
  BY DEF Advance
<1>3. x = [i \in 0..k |-> IF i = 0 THEN [p EXCEPT !.carry = @ \o units, !.go = ~p.bad]
                         ELSE FeedStep(x[i - 1])]
  BY <1>1, <1>2, Zenon DEF Advances, Given
<1>4. \E h : /\ Feed(p, units) = h[k]
             /\ h = [i \in 0..k |-> IF i = 0 THEN [p EXCEPT !.carry = @ \o units, !.go = ~p.bad]
                                   ELSE FeedStep(h[i - 1])]
  BY <1>3, Zenon DEF Feed
<1>5. PICK h : /\ Feed(p, units) = h[k]
               /\ h = [i \in 0..k |-> IF i = 0 THEN [p EXCEPT !.carry = @ \o units, !.go = ~p.bad]
                                     ELSE FeedStep(h[i - 1])]
  BY <1>4
<1> DEFINE g == Given(p, units)
<1>6. h = [i \in 0..k |-> IF i = 0 THEN g ELSE FeedStep(h[i - 1])]
  BY <1>5, Zenon DEF Given
<1> HIDE DEF g
<1>7. h[0] = g /\ \A i \in 1..k : h[i] = FeedStep(h[i - 1])
  <2>1. \A i \in 0..k : h[i] = IF i = 0 THEN g ELSE FeedStep(h[i - 1])
    BY <1>6, Zenon
  <2>2. 0 \in 0..k /\ \A i \in 1..k : i \in 0..k /\ i # 0
    OBVIOUS
  <2> QED
    BY <2>1, <2>2
<1> QED
  BY <1>5, <1>7 DEF g, Fed

LEMMA FeedParses ==
  ASSUME NEW S, NEW B, NEW W, NEW n, Laid(S, B, W, n), NEW m,
         NEW p, Parses(p, S, B, W, m), ~p.bad,
         NEW units, Lays(S, m, units), m + Len(units) <= n
  PROVE  Parses(Feed(p, units), S, B, W, m + Len(units))
<1> DEFINE x == Given(p, units)
           b == m + Len(units)
           c == p.carry \o units
           k == 2 * (Len(p.carry) + Len(units)) + 2
<1>1. /\ DOMAIN p = ParserFields /\ IsList(p.stack) /\ Sound(p, W)
      /\ Rests(p.carry, p.off, S, m) /\ Fits(p, S, B, W) /\ Notes(p.index, S, W, DOMAIN B)
  BY DEF Parses
<1>12. units \in Seq(Units) /\ \A i \in 1..Len(units) : units[i] = S[m + i]
  BY DEF Lays
<1>2. /\ Len(p.carry) \in Nat /\ Len(units) \in Nat /\ m \in Nat /\ n \in Nat
      /\ p.carry \in Seq(Units) /\ p.off \in Nat /\ p.off + Len(p.carry) = m
      /\ \A i \in 1..Len(p.carry) : p.carry[i] = S[p.off + i]
  BY <1>1, <1>12 DEF Rests, Laid
<1>3. Rests(c, p.off, S, b)
  <2> DEFINE a == Len(p.carry)
             z == Len(units)
  <2>1. /\ c \in Seq(Units) /\ Len(c) = Len(p.carry) + Len(units)
        /\ \A i \in 1..Len(p.carry) : c[i] = p.carry[i]
        /\ \A i \in 1..Len(units) : c[Len(p.carry) + i] = units[i]
    <3> DEFINE d == p.carry
    <3>1. d \in Seq(Units)
      BY <1>2
    <3> HIDE DEF d
    <3>2. /\ d \o units \in Seq(Units) /\ Len(d \o units) = Len(d) + Len(units)
          /\ \A i \in 1..Len(d) : (d \o units)[i] = d[i]
          /\ \A i \in 1..Len(units) : (d \o units)[Len(d) + i] = units[i]
      BY <1>12, <3>1, ConcatIs
    <3> QED
      BY <3>2 DEF d
  <2>2. Len(c) = a + z /\ a \in Nat /\ z \in Nat /\ p.off + a = m /\ b = m + z
    BY <1>2, <2>1
  <2> HIDE DEF c
  <2>3. ASSUME NEW i \in 1..Len(c) PROVE c[i] = S[p.off + i]
    <3>1. CASE i \in 1..a
      BY <1>2, <2>1, <3>1
    <3>2. CASE i \notin 1..a
      <4> DEFINE o == p.off
      <4>1. o \in Nat /\ o + a = m
        BY <1>2, <2>2
      <4>2. i \in 1..(a + z)
        BY <2>2
      <4> HIDE DEF a, z, o
      <4>3. i - a \in 1..z /\ a + (i - a) = i /\ m + (i - a) = o + i
        BY <2>2, <3>2, <4>1, <4>2
      <4>4. c[a + (i - a)] = units[i - a] /\ units[i - a] = S[m + (i - a)]
        BY <1>12, <2>1, <4>3 DEF a, z
      <4> QED
        BY <4>3, <4>4 DEF o
    <3> QED
      BY <3>1, <3>2
  <2>4. b \in Nat /\ p.off + Len(c) = b
    <3> DEFINE o == p.off
    <3>1. o \in Nat /\ o + a = m
      BY <1>2, <2>2
    <3> HIDE DEF a, z, o
    <3>2. m + z \in Nat /\ o + (a + z) = m + z
      BY <2>2, <3>1
    <3> QED
      BY <2>2, <3>2 DEF o
  <2> QED
    BY <1>2, <2>1, <2>3, <2>4 DEF Rests
<1>4. Parses(x, S, B, W, b)
  <2> HIDE DEF c
  <2>1. x = [p EXCEPT !.carry = c, !.go = ~p.bad]
    BY <1>1 DEF Given, c, ParserFields
  <2> HIDE DEF x
  <2>2. /\ DOMAIN x = ParserFields /\ x.carry = c /\ x.off = p.off /\ x.state = p.state
        /\ x.stack = p.stack /\ x.found = p.found /\ x.bad = p.bad /\ x.path = p.path
        /\ x.left = p.left /\ x.out = p.out /\ x.index = p.index
    BY <1>1, <2>1 DEF ParserFields
  <2>3. CurrentPath(x) = CurrentPath(p)
    BY <2>2, SamePath
  <2>4. Fits(x, S, B, W)
    BY <1>1, <2>2, <2>3 DEF Fits
  <2>5. Rests(x.carry, x.off, S, b)
    BY <1>3, <2>2
  <2> QED
    BY <1>1, <2>2, <2>4, <2>5 DEF Parses, Sound
<1>5. k \in Nat
  BY <1>2
<1>6. b <= n
  OBVIOUS
<1> HIDE DEF x, b, c
<1>13. k = 2 * (Len(p.carry) + Len(units)) + 2
  OBVIOUS
<1> HIDE DEF k
<1>14. \E h : Fed(p, units, k, h)
  BY <1>5, <1>13, FeedAdvances
<1>15. PICK h : Fed(p, units, k, h)
  BY <1>14
<1>7. /\ Feed(p, units) = h[k] /\ h[0] = x
      /\ \A i \in 1..k : h[i] = FeedStep(h[i - 1])
  BY <1>15 DEF Fed, x
<1> DEFINE T == {i \in 0..k : Parses(h[i], S, B, W, b)}
<1>8. 0 \in T
  BY <1>4, <1>5, <1>7
<1>9. ASSUME NEW i \in 0..k, i \in T, i < k PROVE i + 1 \in T
  <2>1. i + 1 \in 1..k /\ (i + 1) - 1 = i /\ i + 1 \in 0..k
    BY <1>5, <1>9
  <2>2. h[i + 1] = FeedStep(h[i]) /\ Parses(h[i], S, B, W, b)
    BY <1>7, <1>9, <2>1
  <2>3. Parses(h[i + 1], S, B, W, b)
    BY <1>6, <2>2, StepParses
  <2> QED
    BY <2>1, <2>3
<1>10. \A i \in 0..k : i \in T
  <2> HIDE DEF T
  <2> QED
    BY <1>5, <1>8, <1>9, NatSteps
<1>11. k \in 0..k
  BY <1>5
<1> QED
  BY <1>7, <1>10, <1>11 DEF b

\* h has the chunks of a restore.
FedAll(cs, targets, k, h) ==
  /\ SequentialRestore(cs, targets) = h[k] /\ h[0] = NewParser(targets, FALSE)
  /\ \A i \in 1..k :
       h[i] = IF AllDone(h[i - 1]) \/ h[i - 1].bad THEN h[i - 1] ELSE Feed(h[i - 1], cs[i])

\* A restore is the last of its chunks.
LEMMA RestoreAdvances ==
  ASSUME NEW cs, NEW targets, Len(cs) \in Nat
  PROVE  \E h : FedAll(cs, targets, Len(cs), h)
<1> DEFINE k == Len(cs)
           z == NewParser(targets, FALSE)
<1>1. PICK x : Advances("restore", cs, z, k, x)
  BY AdvanceExists
<1>2. \A i, v : Advance("restore", cs, i, v) = IF AllDone(v) \/ v.bad THEN v ELSE Feed(v, cs[i])
  BY DEF Advance
<1>3. x = [i \in 0..k |-> IF i = 0 THEN z
                         ELSE IF AllDone(x[i - 1]) \/ x[i - 1].bad THEN x[i - 1]
                         ELSE Feed(x[i - 1], cs[i])]
  BY <1>1, <1>2, Zenon DEF Advances
<1>4. \E h : /\ SequentialRestore(cs, targets) = h[k]
             /\ h = [i \in 0..k |-> IF i = 0 THEN z
                                   ELSE IF AllDone(h[i - 1]) \/ h[i - 1].bad THEN h[i - 1]
                                   ELSE Feed(h[i - 1], cs[i])]
  BY <1>3, Zenon DEF SequentialRestore
<1>5. PICK h : /\ SequentialRestore(cs, targets) = h[k]
               /\ h = [i \in 0..k |-> IF i = 0 THEN z
                                     ELSE IF AllDone(h[i - 1]) \/ h[i - 1].bad THEN h[i - 1]
                                     ELSE Feed(h[i - 1], cs[i])]
  BY <1>4
<1>6. k \in Nat
  OBVIOUS
<1> HIDE DEF k, z
<1>7. \A i \in 0..k : h[i] = IF i = 0 THEN z
                             ELSE IF AllDone(h[i - 1]) \/ h[i - 1].bad THEN h[i - 1]
                             ELSE Feed(h[i - 1], cs[i])
  BY <1>5, Zenon
<1>8. 0 \in 0..k /\ \A i \in 1..k : i \in 0..k /\ i # 0
  BY <1>6
<1> QED
  BY <1>5, <1>7, <1>8, Zenon DEF k, z, FedAll

\* A restore finds what is wanted of a file, wherever the chunks begin, and notes where
\* that is.
LEMMA RestoreFinds ==
  ASSUME NEW cs \in Seq(Seq(Units)), NEW S, S = FlattenSeq(cs), NEW B, NEW W, Laid(S, B, W, Len(S)),
         NEW targets, NEW p, p = SequentialRestore(cs, targets)
  PROVE  Sound(p, W) /\ Notes(p.index, S, W, DOMAIN B)
<1>13. \E h : FedAll(cs, targets, Len(cs), h)
  <2>1. Len(cs) \in Nat
    OBVIOUS
  <2> QED
    BY <2>1, RestoreAdvances
<1> DEFINE k == Len(cs)
           n == Len(S)
<1>1. k \in Nat /\ \A i \in 1..k : cs[i] \in Seq(Units)
  OBVIOUS
<1>2. PICK g : /\ Joined(cs, g) /\ S = g[k] /\ \A i \in 0..k : g[i] \in Seq(Units)
  BY FlattenJoins
<1>14. PICK h : FedAll(cs, targets, k, h)
  BY <1>13
<1>3. /\ SequentialRestore(cs, targets) = h[k] /\ h[0] = NewParser(targets, FALSE)
      /\ \A i \in 1..k : h[i] = IF AllDone(h[i - 1]) \/ h[i - 1].bad THEN h[i - 1]
                                ELSE Feed(h[i - 1], cs[i])
  BY <1>14 DEF FedAll
<1>4. \A i \in 0..k : Len(g[i]) \in Nat /\ Len(g[i]) <= n
                      /\ \A x \in 1..Len(g[i]) : S[x] = g[i][x]
  <2>1. \A j \in 0..Len(cs) : \A i \in 0..j :
           Len(g[i]) <= Len(g[j]) /\ \A x \in 1..Len(g[i]) : g[j][x] = g[i][x]
    BY <1>2, JoinedGrows
  <2>2. k \in 0..Len(cs)
    BY <1>1
  <2>3. \A i \in 0..k : Len(g[i]) \in Nat
    BY <1>2
  <2> QED
    BY <1>2, <2>1, <2>2, <2>3
<1>5. \A i \in 1..k : g[i] = g[i - 1] \o cs[i]
  BY <1>2 DEF Joined
<1>11. g[0] = <<>> /\ n \in Nat
  <2>1. k \in 0..k
    BY <1>1
  <2> QED
    BY <1>2, <1>4, <2>1 DEF Joined
<1> HIDE DEF k, n
\* By chunk i it is at the end of the first i chunks, or has stopped before.
<1> DEFINE Good(i) == \E m : Parses(h[i], S, B, W, m)
                            /\ (AllDone(h[i]) \/ h[i].bad \/ m = Len(g[i]))
           T == {i \in 0..k : Good(i)}
<1>6. 0 \in T
  <2> DEFINE q == NewParser(targets, FALSE)
  <2>1. /\ DOMAIN q = ParserFields /\ q.state = "root" /\ q.carry = <<>> /\ q.off = 0
        /\ q.stack = <<>> /\ DOMAIN q.found = {} /\ DOMAIN q.index = {} /\ q.bad = FALSE
    BY DEF NewParser, ParserFields, NoFunction
  <2> HIDE DEF q
  <2>2. IsList(q.stack)
    BY <2>1, ListEmpty
  <2>3. Rests(q.carry, q.off, S, 0)
    <3>1. <<>> \in Seq(Units) /\ Len(<<>>) = 0
      OBVIOUS
    <3> QED
      BY <2>1, <3>1 DEF Rests
  <2>4. Parses(q, S, B, W, 0)
    BY <2>1, <2>2, <2>3, FS_EmptySet DEF Parses, Fits, Sound, Notes
  <2>5. Len(g[0]) = 0 /\ 0 \in 0..k
    BY <1>1, <1>11 DEF k
  <2> QED
    BY <1>3, <2>4, <2>5 DEF q
<1>7. ASSUME NEW i \in 0..k, i \in T, i < k PROVE i + 1 \in T
  <2>1. i + 1 \in 1..k /\ (i + 1) - 1 = i /\ i + 1 \in 0..k
    BY <1>1, <1>7 DEF k
  <2>2. PICK m : Parses(h[i], S, B, W, m) /\ (AllDone(h[i]) \/ h[i].bad \/ m = Len(g[i]))
    BY <1>7
  <2>3. h[i + 1] = IF AllDone(h[i]) \/ h[i].bad THEN h[i] ELSE Feed(h[i], cs[i + 1])
    BY <1>3, <2>1
  <2>4. CASE AllDone(h[i]) \/ h[i].bad
    BY <2>1, <2>2, <2>3, <2>4
  <2>5. CASE ~(AllDone(h[i]) \/ h[i].bad)
    <3> DEFINE c == cs[i + 1]
               a == g[i]
    <3>1. c \in Seq(Units) /\ a \in Seq(Units) /\ g[i + 1] = a \o c
      BY <1>1, <1>2, <1>5, <2>1 DEF k
    <3>2. h[i + 1] = Feed(h[i], c) /\ m = Len(a)
      BY <2>2, <2>3, <2>5
    <3> HIDE DEF c, a
    <3>3. /\ Len(a \o c) = Len(a) + Len(c)
          /\ \A x \in 1..Len(c) : (a \o c)[Len(a) + x] = c[x]
          /\ Len(a) \in Nat /\ Len(c) \in Nat
      BY <3>1, ConcatIs
    <3>4. Len(g[i + 1]) <= n /\ \A x \in 1..Len(g[i + 1]) : S[x] = g[i + 1][x]
      BY <1>4, <2>1
    <3>5. m + Len(c) <= n /\ Len(g[i + 1]) = m + Len(c)
      BY <3>1, <3>2, <3>3, <3>4
    <3>6. Lays(S, m, c)
      <4> SUFFICES ASSUME NEW x \in 1..Len(c) PROVE S[m + x] = c[x]
        BY <3>1 DEF Lays
      <4> DEFINE z == Len(c)
                 y == Len(a)
      <4>1. y \in Nat /\ z \in Nat /\ x \in 1..z /\ m = y
        BY <3>2, <3>3
      <4> HIDE DEF z, y
      <4>2. m + x \in 1..(m + z)
        BY <4>1
      <4> QED
        BY <3>1, <3>2, <3>3, <3>4, <3>5, <4>2 DEF z
    <3>7. Parses(h[i + 1], S, B, W, m + Len(c))
      BY <1>11, <2>2, <2>5, <3>1, <3>2, <3>5, <3>6, FeedParses DEF n
    <3> QED
      BY <2>1, <3>5, <3>7
  <2> QED
    BY <2>4, <2>5
<1>8. \A i \in 0..k : i \in T
  <2> HIDE DEF T
  <2> QED
    BY <1>1, <1>6, <1>7, NatSteps DEF k
<1>9. k \in 0..k
  BY <1>1 DEF k
<1>10. PICK m : Parses(p, S, B, W, m)
  BY <1>3, <1>8, <1>9
<1> QED
  BY <1>10 DEF Parses

-----------------------------------------------------------------------------
(* Reading with an index: a range that the loaded chunks hold, a payload      *)
(* after the other, and the order of the payloads.                            *)

\* All chunks of a range are loaded.
Loads(cs, loaded, a, b) == ChunksFor(cs, a, b) \subseteq loaded

\* A range is read when the chunks of a range around it are loaded.
LEMMA ReadsRange ==
  ASSUME NEW U, NEW cs \in Seq(Seq(U)), NEW S, S = FlattenSeq(cs), NEW a \in Nat, NEW b \in Nat,
         b <= Len(S), NEW loaded, Loads(cs, loaded, a, b),
         NEW x \in Nat, NEW n \in Nat, a <= x, x + n <= b
  PROVE  ReadAt(cs, loaded, x, n) = SubSeq(S, x + 1, x + n)
<1>1. PICK g : /\ Joined(cs, g) /\ S = g[Len(cs)] /\ \A i \in 0..Len(cs) : g[i] \in Seq(U)
  BY FlattenJoins
<1> DEFINE N == Len(cs)
           E == [i \in 0..N |-> Len(g[i])]
<1>2. N \in Nat /\ DOMAIN cs = 1..N
  OBVIOUS
<1>3. \A i \in 0..N : E[i] = Len(g[i]) /\ E[i] \in Nat
  BY <1>1
<1>4. \A i \in 0..N : EndOf(cs, i) = E[i]
  BY <1>1, JoinedFront DEF EndOf
<1>5. \A i \in 1..N : BeginOf(cs, i) = E[i - 1] /\ i - 1 \in 0..N /\ i \in 0..N
  <2>1. \A i \in 1..N : i - 1 \in 0..N /\ i \in 0..N
    BY <1>2
  <2> QED
    BY <1>4, <2>1 DEF BeginOf
<1>6. E[0] = 0 /\ E[N] = Len(S) /\ N \in 0..N
  <2>1. 0 \in 0..N /\ N \in 0..N
    BY <1>2
  <2> QED
    BY <1>1, <1>3, <2>1 DEF Joined
<1> HIDE DEF N, E
<1>7. ASSUME NEW k \in Nat, a <= k, k < b PROVE Locate(cs, k) \in loaded
  <2> DEFINE T == {i \in 0..N : k < E[i]}
  <2>1. T \subseteq Nat /\ N \in T
    BY <1>3, <1>6, <1>7, <1>2
  <2>2. PICK i \in T : \A j \in T : i <= j
    <3> HIDE DEF T
    <3> QED
      BY <2>1, NatMin
  <2>3. i \in 0..N /\ k < E[i] /\ i # 0
    BY <1>6, <2>2
  <2>4. i \in 1..N /\ i - 1 \in 0..N /\ i - 1 < i
    BY <1>2, <2>3
  <2>5. i - 1 \notin T
    BY <1>2, <2>2, <2>4
  <2>6. E[i - 1] <= k
    BY <1>3, <2>4, <2>5
  <2> HIDE DEF T
  <2>7. BeginOf(cs, i) <= k /\ k < EndOf(cs, i)
    BY <1>4, <1>5, <2>3, <2>4, <2>6
  <2> DEFINE l == Locate(cs, k)
  <2>8. l \in DOMAIN cs /\ BeginOf(cs, l) <= k /\ k < EndOf(cs, l)
    BY <1>2, <2>4, <2>7 DEF Locate
  <2> HIDE DEF l
  <2>9. l \in 1..N /\ l - 1 \in 0..N /\ l \in 0..N
    BY <1>2, <1>5, <2>8
  <2>10. a < EndOf(cs, l) /\ b > BeginOf(cs, l)
    <3>1. EndOf(cs, l) \in Nat /\ BeginOf(cs, l) \in Nat
      BY <1>3, <1>4, <1>5, <2>9
    <3> QED
      BY <1>7, <2>8, <3>1
  <2>11. l \in ChunksFor(cs, a, b)
    <3>1. ~(b <= a)
      BY <1>7
    <3> QED
      BY <2>8, <2>10, <3>1 DEF ChunksFor
  <2> QED
    BY <2>11 DEF l, Loads
<1>8. x + n <= EndOf(cs, Len(cs))
  <2>1. Len(S) \in Nat
    BY <1>3, <1>6
  <2> QED
    BY <1>4, <1>6, <2>1 DEF N
<1>9. \A k \in {x + i - 1 : i \in 1..n} : Locate(cs, k) \in loaded
  <2> SUFFICES ASSUME NEW i \in 1..n PROVE Locate(cs, x + i - 1) \in loaded
    OBVIOUS
  <2> DEFINE k == x + i - 1
  <2>1. k \in Nat /\ a <= k /\ k < b
    OBVIOUS
  <2> HIDE DEF k
  <2>2. Locate(cs, k) \in loaded
    BY <1>7, <2>1
  <2> QED
    BY <2>2 DEF k
<1> QED
  BY <1>8, <1>9 DEF ReadAt

\* What is taken for a file that the index knows is its data.
LEMMA ExtractsFile ==
  ASSUME NEW cs \in Seq(Seq(Units)), NEW S, S = FlattenSeq(cs), NEW W, NEW index,
         Notes(index, S, W, 0..Len(S)), NEW t \in DOMAIN index, NEW v
  PROVE  Extract(cs, index, v, t).found = Put(v.found, t, W[t])
<1> DEFINE L == Len(W[t])
           pos == index[t]
           view == Fetched(cs, Pruned(cs, v.loaded, pos.at), pos)
<1>1. PICK a \in Nat :
        /\ pos = [at |-> a, size |-> L] /\ S[a + 1] = Payload(L) /\ Lays(S, a + 1, W[t])
        /\ a + 1 + L \in 0..Len(S)
  BY DEF Notes
<1>2. W[t] \in Seq(Units) /\ L \in Nat /\ \A i \in 1..L : S[(a + 1) + i] = W[t][i]
  BY <1>1 DEF Lays
<1>3. S \in Seq(Units) /\ Len(S) \in Nat
  <2>1. PICK g : S = g[Len(cs)] /\ \A i \in 0..Len(cs) : g[i] \in Seq(Units)
    BY FlattenJoins
  <2>2. Len(cs) \in 0..Len(cs)
    OBVIOUS
  <2> QED
    BY <2>1, <2>2
<1>4. pos.at = a /\ pos.size = L
  BY <1>1
<1> DEFINE b == a + 1 + L
           w == W[t]
<1>5. Loads(cs, view, a, b)
  BY <1>4 DEF Fetched, Loads
<1>6. b \in Nat /\ b <= Len(S) /\ a + 1 <= b /\ (a + 1) + L <= b
  <2> DEFINE n == Len(S)
  <2>1. b \in 0..n /\ n \in Nat /\ L \in Nat
    BY <1>1, <1>2, <1>3
  <2> HIDE DEF n, L
  <2>2. b \in Nat /\ b <= n /\ a + 1 <= b /\ (a + 1) + L <= b
    BY <2>1
  <2> QED
    BY <2>2 DEF n
<1>7. Extract(cs, index, v, t).found = Put(v.found, t, ExtractPayload(cs, view, pos))
  BY DEF Extract
<1>16. L = Len(w)
  OBVIOUS
<1> HIDE DEF view, pos, b, L, w
<1>17. ASSUME NEW x \in Nat, NEW n \in Nat, a <= x, x + n <= b
       PROVE  ReadAt(cs, view, x, n) = SubSeq(S, x + 1, x + n)
  <2>1. b \in Nat /\ b <= Len(S)
    BY <1>6
  <2> QED
    BY <1>5, <1>17, <2>1, ReadsRange
<1>8. ReadAt(cs, view, a, 1) = SubSeq(S, a + 1, a + 1)
  <2>1. a <= a /\ a + 1 <= b /\ 1 \in Nat
    BY <1>6
  <2> QED
    BY <1>17, <2>1
<1>9. ReadAt(cs, view, a + 1, L) = SubSeq(S, (a + 1) + 1, (a + 1) + L)
  <2>1. a <= a + 1 /\ (a + 1) + L <= b /\ a + 1 \in Nat
    BY <1>6
  <2> QED
    BY <1>2, <1>17, <2>1
<1>10. SubSeq(S, a + 1, a + 1) = <<Payload(L)>>
  <2> DEFINE y == Payload(L)
             z == SubSeq(S, a + 1, a + 1)
  <2>1. S[a + 1] = y /\ a + 1 \in 1..Len(S)
    BY <1>1, <1>2, <1>3
  <2> HIDE DEF y
  <2>2. z \in Seq(Units) /\ Len(z) = 1 /\ z[1] = y
    BY <1>3, <2>1
  <2>3. z = <<y>>
    <3> HIDE DEF z
    <3> QED
      BY <2>2
  <2> QED
    BY <2>3 DEF y
<1>11. SubSeq(S, (a + 1) + 1, (a + 1) + L) = w
  <2> DEFINE c == a + 1
             z == SubSeq(S, c + 1, c + L)
  <2>1. c \in Nat /\ L \in Nat /\ c + L <= Len(S) /\ Len(S) \in Nat
    BY <1>1, <1>2, <1>3
  <2>2. w \in Seq(Units) /\ Len(w) = L /\ \A i \in 1..L : S[c + i] = w[i]
    BY <1>2, <1>16 DEF w
  <2> HIDE DEF c
  <2>3. z \in Seq(Units) /\ Len(z) = L /\ \A i \in 1..L : z[i] = S[c + i]
    BY <1>3, <2>1
  <2> HIDE DEF z
  <2>4. \A i \in 1..L : z[i] = w[i]
    BY <2>2, <2>3
  <2> HIDE DEF L
  <2>5. z = w
    BY <2>1, <2>2, <2>3, <2>4
  <2> QED
    BY <2>5 DEF z, c
<1>12. ExtractPayload(cs, view, pos) = w
  BY <1>4, <1>8, <1>9, <1>10, <1>11 DEF ExtractPayload
<1> QED
  BY <1>7, <1>12 DEF w

\* h has the payloads of an extraction.
ExtractedAll(cs, index, order, k, h) ==
  /\ ExtractAll(cs, index, order) = h[k].found
  /\ h[0].found = NoFunction /\ \A i \in 1..k : h[i] = Extract(cs, index, h[i - 1], order[i])

\* An extraction is the last of its payloads.
LEMMA ExtractAdvances ==
  ASSUME NEW cs, NEW index, NEW order, Len(order) \in Nat
  PROVE  \E h : ExtractedAll(cs, index, order, Len(order), h)
<1> DEFINE k == Len(order)
           z == [loaded |-> {}, found |-> NoFunction]
<1>1. PICK x : Advances("extract", <<cs, index, order>>, z, k, x)
  BY AdvanceExists
<1>2. \A i, v : Advance("extract", <<cs, index, order>>, i, v) = Extract(cs, index, v, order[i])
  BY DEF Advance
<1>3. x = [i \in 0..k |-> IF i = 0 THEN z ELSE Extract(cs, index, x[i - 1], order[i])]
  BY <1>1, <1>2, Zenon DEF Advances
<1>4. \E h : /\ ExtractAll(cs, index, order) = h[k].found
             /\ h = [i \in 0..k |-> IF i = 0 THEN z ELSE Extract(cs, index, h[i - 1], order[i])]
  BY <1>3, Zenon DEF ExtractAll
<1>5. PICK h : /\ ExtractAll(cs, index, order) = h[k].found
               /\ h = [i \in 0..k |-> IF i = 0 THEN z ELSE Extract(cs, index, h[i - 1], order[i])]
  BY <1>4
<1>6. k \in Nat /\ z.found = NoFunction
  OBVIOUS
<1> HIDE DEF k, z
<1>7. \A i \in 0..k : h[i] = IF i = 0 THEN z ELSE Extract(cs, index, h[i - 1], order[i])
  BY <1>5, Zenon
<1>8. 0 \in 0..k /\ \A i \in 1..k : i \in 0..k /\ i # 0
  BY <1>6
<1>9. h[0].found = NoFunction /\ \A i \in 1..k : h[i] = Extract(cs, index, h[i - 1], order[i])
  BY <1>6, <1>7, <1>8, Zenon
<1> QED
  BY <1>5, <1>9, Zenon DEF k, ExtractedAll

\* All that are asked for are taken, each with its data.
LEMMA ExtractsAll ==
  ASSUME NEW cs \in Seq(Seq(Units)), NEW S, S = FlattenSeq(cs), NEW W, NEW index,
         Notes(index, S, W, 0..Len(S)), NEW k \in Nat, NEW order \in [1..k -> DOMAIN index],
         NEW all, all = ExtractAll(cs, index, order)
  PROVE  DOMAIN all = ToSet(order) /\ \A t \in DOMAIN all : all[t] = W[t]
<1>1. Len(order) = k /\ DOMAIN order = 1..k
  <2>1. order \in Seq(DOMAIN index)
    OBVIOUS
  <2> QED
    BY <2>1
<1>2. Len(order) \in Nat
  BY <1>1
<1>3. PICK h : ExtractedAll(cs, index, order, Len(order), h)
  BY <1>2, ExtractAdvances
<1>4. /\ all = h[k].found /\ h[0].found = NoFunction
      /\ \A i \in 1..k : h[i] = Extract(cs, index, h[i - 1], order[i])
  BY <1>1, <1>3 DEF ExtractedAll
<1> DEFINE Good(i) == /\ DOMAIN h[i].found = {order[j] : j \in 1..i}
                      /\ \A t \in DOMAIN h[i].found : h[i].found[t] = W[t]
           T == {i \in 0..k : Good(i)}
<1>5. 0 \in T
  <2>1. DOMAIN NoFunction = {} /\ 1..0 = {}
    BY DEF NoFunction
  <2> QED
    BY <1>4, <2>1
<1>6. ASSUME NEW i \in 0..k, i \in T, i < k PROVE i + 1 \in T
  <2>1. i + 1 \in 1..k /\ (i + 1) - 1 = i /\ i + 1 \in 0..k
    BY <1>6
  <2> DEFINE t == order[i + 1]
             f == h[i].found
             e == h[i + 1].found
  <2>2. t \in DOMAIN index /\ h[i + 1] = Extract(cs, index, h[i], t)
    BY <1>4, <2>1
  <2>3. e = Put(f, t, W[t])
    BY <2>2, ExtractsFile
  <2>4. DOMAIN f = {order[j] : j \in 1..i} /\ \A z \in DOMAIN f : f[z] = W[z]
    BY <1>6
  <2>5. {order[j] : j \in 1..(i + 1)} = {order[j] : j \in 1..i} \cup {t}
    <3>1. 1..(i + 1) = 1..i \cup {i + 1}
      OBVIOUS
    <3> QED
      BY <3>1
  <2> HIDE DEF e, f, t
  <2>6. DOMAIN e = DOMAIN f \cup {t} /\ \A z \in DOMAIN e : e[z] = W[z]
    BY <2>3, <2>4 DEF Put
  <2>7. DOMAIN e = {order[j] : j \in 1..(i + 1)}
    BY <2>4, <2>5, <2>6
  <2> QED
    BY <2>1, <2>6, <2>7 DEF e
<1>7. \A i \in 0..k : i \in T
  <2> HIDE DEF T
  <2> QED
    BY <1>5, <1>6, NatSteps
<1>8. k \in 0..k
  OBVIOUS
<1>9. Good(k)
  BY <1>7, <1>8
<1> QED
  BY <1>1, <1>4, <1>9 DEF ToSet

\* An order of the members of T by their place.
Ordered(index, T, order) ==
  /\ ToSet(order) = T
  /\ \A i, j \in DOMAIN order : i < j => index[order[i]].at <= index[order[j]].at

\* A finite set has such an order: first the one with the least place, then the others.
LEMMA OrderExists ==
  ASSUME NEW T, IsFiniteSet(T), NEW index, \A t \in T : index[t].at \in Nat
  PROVE  \E order \in [1..Cardinality(T) -> T] : Ordered(index, T, order)
<1> DEFINE b == Cardinality(T)
           P(n) == \A X \in SUBSET T : Cardinality(X) = n =>
                      \E order \in [1..n -> X] : Ordered(index, X, order)
           G == {n \in 0..b : P(n)}
<1>1. b \in Nat
  BY FS_CardinalityType
<1>2. 0 \in G
  <2> SUFFICES ASSUME NEW X \in SUBSET T, Cardinality(X) = 0
               PROVE  \E order \in [1..0 -> X] : Ordered(index, X, order)
    BY <1>1
  <2>1. X = {}
    BY FS_Subset, FS_EmptySet
  <2> DEFINE o == [i \in 1..0 |-> 0]
  <2>2. o \in [1..0 -> X] /\ DOMAIN o = {}
    OBVIOUS
  <2>3. ToSet(o) = {}
    BY <2>2 DEF ToSet
  <2> HIDE DEF o
  <2> QED
    BY <2>1, <2>2, <2>3 DEF Ordered
<1>3. ASSUME NEW n \in 0..b, n \in G, n < b PROVE n + 1 \in G
  <2> SUFFICES ASSUME NEW X \in SUBSET T, Cardinality(X) = n + 1
               PROVE  \E order \in [1..(n + 1) -> X] : Ordered(index, X, order)
    BY <1>1, <1>3
  <2>1. IsFiniteSet(X) /\ X # {}
    BY <1>1, FS_Subset, FS_EmptySet
  <2> DEFINE A == {index[t].at : t \in X}
  <2>2. A \subseteq Nat /\ A # {}
    BY <2>1
  <2>3. PICK x \in A : \A y \in A : x <= y
    <3> HIDE DEF A
    <3> QED
      BY <2>2, NatMin
  <2>4. PICK m \in X : index[m].at = x
    BY <2>3
  <2>5. \A t \in X : index[m].at <= index[t].at
    BY <2>3, <2>4
  <2> DEFINE Y == X \ {m}
  <2>6. Y \in SUBSET T /\ Cardinality(Y) = n
    <3>1. Cardinality(Y) = Cardinality(X) - 1
      BY <2>1, FS_RemoveElement
    <3>2. (n + 1) - 1 = n
      BY <1>1
    <3> QED
      BY <3>1, <3>2
  <2>7. PICK p \in [1..n -> Y] : Ordered(index, Y, p)
    BY <1>3, <2>6
  <2> DEFINE o == [i \in 1..(n + 1) |-> IF i = 1 THEN m ELSE p[i - 1]]
  <2>8. n \in Nat /\ (\A i \in 1..(n + 1) : i = 1 \/ i - 1 \in 1..n)
        /\ \A i \in 1..n : i + 1 \in 1..(n + 1) /\ i + 1 # 1 /\ (i + 1) - 1 = i
    BY <1>1
  <2>9. DOMAIN p = 1..n /\ (\A i \in 1..n : p[i] \in Y) /\ {p[i] : i \in 1..n} = Y
    BY <2>7 DEF Ordered, ToSet
  <2>10. 1 \in 1..(n + 1) /\ o[1] = m
    BY <2>8
  <2>11. \A i \in 1..(n + 1) : i # 1 => o[i] = p[i - 1] /\ o[i] \in Y
    BY <2>8, <2>9
  <2>12. o \in [1..(n + 1) -> X] /\ DOMAIN o = 1..(n + 1)
    <3>1. \A i \in 1..(n + 1) : o[i] \in X
      BY <2>10, <2>11
    <3> QED
      BY <3>1
  <2> HIDE DEF o
  <2>13. ToSet(o) = X
    <3>1. ToSet(o) = {o[i] : i \in 1..(n + 1)}
      BY <2>12 DEF ToSet
    <3>2. \A t \in X : \E i \in 1..(n + 1) : o[i] = t
      <4> SUFFICES ASSUME NEW t \in X PROVE \E i \in 1..(n + 1) : o[i] = t
        OBVIOUS
      <4>1. CASE t = m
        BY <2>10, <4>1
      <4>2. CASE t # m
        <5>1. t \in Y
          BY <4>2
        <5>2. PICK i \in 1..n : p[i] = t
          BY <2>9, <5>1
        <5>3. o[i + 1] = p[(i + 1) - 1]
          BY <2>8, <2>11
        <5> QED
          BY <2>8, <5>2, <5>3
      <4> QED
        BY <4>1, <4>2
    <3> QED
      BY <2>12, <3>1, <3>2
  <2>14. ASSUME NEW i \in 1..(n + 1), NEW j \in 1..(n + 1), i < j
         PROVE  index[o[i]].at <= index[o[j]].at
    <3>1. j # 1 /\ o[j] = p[j - 1] /\ o[j] \in X
      BY <2>8, <2>11, <2>12, <2>14
    <3>2. CASE i = 1
      BY <2>5, <2>10, <3>1, <3>2
    <3>3. CASE i # 1
      <4>1. o[i] = p[i - 1] /\ i - 1 \in 1..n /\ j - 1 \in 1..n /\ i - 1 < j - 1
        BY <2>8, <2>11, <2>14, <3>1, <3>3
      <4> QED
        BY <2>7, <2>9, <3>1, <4>1 DEF Ordered
    <3> QED
      BY <3>2, <3>3
  <2> QED
    BY <2>12, <2>13, <2>14 DEF Ordered
<1>4. \A n \in 0..b : n \in G
  <2> HIDE DEF G
  <2> QED
    BY <1>1, <1>2, <1>3, NatSteps
<1>5. b \in 0..b
  BY <1>1
<1>6. P(b)
  BY <1>4, <1>5
<1> QED
  BY <1>6

\* With an index that notes what lies in the stream every file that is found has its data,
\* and if it knows all that are wanted, these are found.
LEMMA IndexFinds ==
  ASSUME NEW cs \in Seq(Seq(Units)), NEW S, S = FlattenSeq(cs), NEW B, NEW W, Laid(S, B, W, Len(S)),
         NEW index, Notes(index, S, W, 0..Len(S)), NEW wanted, NEW f, f = Restored(cs, index, wanted)
  PROVE  /\ \A path \in DOMAIN f : f[path] = W[path]
         /\ wanted # {} /\ wanted \subseteq DOMAIN index => f = [path \in wanted |-> W[path]]
<1>1. \A targets : LET x == SequentialRestore(cs, targets).found
                   IN  \A path \in DOMAIN x : x[path] = W[path]
  BY RestoreFinds DEF Sound
<1>2. CASE wanted \cap DOMAIN index = {}
  <2>1. f = SequentialRestore(cs, wanted).found
    BY <1>2 DEF Restored
  <2> QED
    BY <1>1, <1>2, <2>1
<1>3. CASE wanted \cap DOMAIN index # {}
  <2> DEFINE T == wanted \cap DOMAIN index
             order == Indexed(index, wanted)
             k == Cardinality(T)
             all == ExtractAll(cs, index, order)
             missing == wanted \ DOMAIN index
             rest == IF missing = {} THEN NoFunction ELSE SequentialRestore(cs, missing).found
  <2>1. IsFiniteSet(T) /\ k \in Nat
    <3>1. IsFiniteSet(DOMAIN index)
      BY DEF Notes
    <3>2. IsFiniteSet(T)
      BY <3>1, FS_Subset
    <3> QED
      BY <3>2, FS_CardinalityType
  <2>2. ASSUME NEW t \in T PROVE index[t].at \in Nat
    <3>1. PICK a \in Nat : index[t] = [at |-> a, size |-> Len(W[t])]
      BY DEF Notes
    <3> QED
      BY <3>1
  <2>3. order \in [1..k -> T] /\ ToSet(order) = T
    <3>1. \E o \in [1..k -> T] : Ordered(index, T, o)
      <4> HIDE DEF T
      <4> QED
        BY <2>1, <2>2, OrderExists
    <3>2. order = CHOOSE o \in [1..k -> T] :
                    /\ ToSet(o) = T
                    /\ \A i, j \in DOMAIN o : i < j => index[o[i]].at <= index[o[j]].at
      BY DEF Indexed
    <3> HIDE DEF T, k, order
    <3> QED
      BY <3>1, <3>2 DEF Ordered
  <2>4. order \in [1..k -> DOMAIN index]
    <3> HIDE DEF order, k
    <3> QED
      BY <2>3
  <2>5. f = [t \in DOMAIN all \cup DOMAIN rest |-> IF t \in DOMAIN all THEN all[t] ELSE rest[t]]
    BY <1>3 DEF Restored, IndexedRestore
  <2>10. all = ExtractAll(cs, index, order)
    OBVIOUS
  <2> HIDE DEF all, order, k
  <2>6. DOMAIN all = T /\ \A t \in DOMAIN all : all[t] = W[t]
    <3>1. DOMAIN all = ToSet(order) /\ \A t \in DOMAIN all : all[t] = W[t]
      BY <2>1, <2>4, <2>10, ExtractsAll
    <3> QED
      BY <2>3, <3>1
  <2>7. \A t \in DOMAIN rest : rest[t] = W[t]
    <3>1. DOMAIN NoFunction = {}
      BY DEF NoFunction
    <3> QED
      BY <1>1, <3>1
  <2>8. missing = {} => DOMAIN rest = {}
    BY DEF NoFunction
  <2> HIDE DEF rest
  <2> DEFINE F == DOMAIN all \cup DOMAIN rest
  <2>9. \A t \in F : (IF t \in DOMAIN all THEN all[t] ELSE rest[t]) = W[t]
    BY <2>6, <2>7
  <2>11. wanted \subseteq DOMAIN index => F = wanted
    BY <2>6, <2>8
  <2>12. f = [t \in F |-> IF t \in DOMAIN all THEN all[t] ELSE rest[t]]
    BY <2>5
  <2> HIDE DEF F, T, missing
  <2>13. f = [t \in F |-> W[t]]
    BY <2>9, <2>12, Zenon
  <2>14. DOMAIN f = F /\ \A t \in F : f[t] = W[t]
    BY <2>13
  <2> QED
    BY <2>11, <2>13, <2>14
<1> QED
  BY <1>2, <1>3

-----------------------------------------------------------------------------
(* The walk: which directories are open, and where a file belongs.            *)

\* What the assumption says of the items of the walk.
LEMMA WalkItems ==
  /\ Len(Walk) \in Nat /\ DOMAIN Walk = 1..Len(Walk)
  /\ Len(Walk) # 0 => Walk[1] = <<"dir", "">>
  /\ \A i \in 1..Len(Walk) : Walk[i] = <<Walk[i][1], Walk[i][2]>> /\ Walk[i][2] \in Names
  /\ \A i, j \in 1..Len(Walk) : Walk[i] = Walk[j] /\ Walk[i][1] # "end" => i = j
<1> DEFINE S == {"dir", "file", "end"} \X STRING
<1>1. Walk \in Seq(S)
  BY PbsBackupAssumption
<1>2. \A x \in S : x = <<x[1], x[2]>>
  OBVIOUS
<1> HIDE DEF S
<1>3. DOMAIN Walk = 1..Len(Walk) /\ Len(Walk) \in Nat /\ \A i \in 1..Len(Walk) : Walk[i] \in S
  BY <1>1
<1>4. Head(Walk) = <<"dir", "">>
  BY PbsBackupAssumption
<1>5. Len(Walk) # 0 => Walk[1] = Head(Walk)
  BY <1>1
<1>7. \A i \in 1..Len(Walk) : Walk[i][2] \in Names
  BY <1>3 DEF Names
<1>8. \A i, j \in DOMAIN Walk : Walk[i] = Walk[j] /\ Walk[i][1] # "end" => i = j
  BY PbsBackupAssumption
<1> QED
  BY <1>2, <1>3, <1>4, <1>5, <1>7, <1>8

\* The directories that are open after an item.
Below(i, v) ==
  CASE Walk[i][1] = "dir" /\ Walk[i][2] # "" -> Append(v, Walk[i][2])
    [] Walk[i][1] = "end" /\ v # <<>> -> Front(v)
    [] OTHER -> v

LEMMA WithinSteps ==
  Within[0] = <<>> /\ \A i \in 1..Len(Walk) : Within[i] = Below(i, Within[i - 1])
<1> DEFINE n == Len(Walk)
<1>1. n \in Nat
  BY WalkItems
<1>2. PICK x : Advances("walk", <<>>, <<>>, n, x)
  BY <1>1, AdvanceExists
<1>3. \A i, v : Advance("walk", <<>>, i, v) = Below(i, v)
  BY DEF Advance, Below
<1>4. x = [i \in 0..n |-> IF i = 0 THEN <<>> ELSE Below(i, x[i - 1])]
  BY <1>2, <1>3, Zenon DEF Advances
<1>5. x = [i \in 0..n |->
             IF i = 0 THEN <<>>
             ELSE CASE Walk[i][1] = "dir" /\ Walk[i][2] # "" -> Append(x[i - 1], Walk[i][2])
                    [] Walk[i][1] = "end" /\ x[i - 1] # <<>> -> Front(x[i - 1])
                    [] OTHER -> x[i - 1]]
  BY <1>4, Zenon DEF Below
<1>6. Within = [i \in 0..n |->
             IF i = 0 THEN <<>>
             ELSE CASE Walk[i][1] = "dir" /\ Walk[i][2] # "" -> Append(Within[i - 1], Walk[i][2])
                    [] Walk[i][1] = "end" /\ Within[i - 1] # <<>> -> Front(Within[i - 1])
                    [] OTHER -> Within[i - 1]]
  BY <1>5, Zenon DEF Within
<1>7. Within = [i \in 0..n |-> IF i = 0 THEN <<>> ELSE Below(i, Within[i - 1])]
  BY <1>6, Zenon DEF Below
<1> HIDE DEF n
<1>8. \A i \in 0..n : Within[i] = IF i = 0 THEN <<>> ELSE Below(i, Within[i - 1])
  BY <1>7, Zenon
<1>9. 0 \in 0..n /\ \A i \in 1..n : i \in 0..n /\ i # 0
  BY <1>1
<1> QED
  BY <1>8, <1>9 DEF n

LEMMA BelowNames ==
  ASSUME NEW i \in 1..Len(Walk), NEW v \in Seq(Names)
  PROVE  Below(i, v) \in Seq(Names)
<1>1. Walk[i][2] \in Names
  BY WalkItems
<1>2. v # <<>> => Front(v) \in Seq(Names)
  <2> SUFFICES ASSUME v # <<>> PROVE Front(v) \in Seq(Names)
    OBVIOUS
  <2> DEFINE n == Len(v)
  <2>1. n \in Nat /\ \A j \in 1..n : v[j] \in Names
    OBVIOUS
  <2>2. 1 \in Int /\ n - 1 \in Int /\ \A j \in 1..(n - 1) : v[j] \in Names
    BY <2>1
  <2> HIDE DEF n
  <2>3. SubSeq(v, 1, n - 1) \in Seq(Names)
    BY <2>2, SubSeqProperties
  <2> QED
    BY <2>3 DEF Front, n
<1>3. \A x \in Names : Append(v, x) \in Seq(Names)
  OBVIOUS
<1>4. /\ Walk[i][1] = "dir" /\ Walk[i][2] # "" => Below(i, v) = Append(v, Walk[i][2])
      /\ ~(Walk[i][1] = "dir" /\ Walk[i][2] # "") => Below(i, v) = v \/ (v # <<>> /\ Below(i, v) = Front(v))
  BY DEF Below
<1> QED
  BY <1>1, <1>2, <1>3, <1>4

LEMMA WithinNames == \A i \in 0..Len(Walk) : Within[i] \in Seq(Names)
<1> DEFINE n == Len(Walk)
           T == {i \in 0..n : Within[i] \in Seq(Names)}
<1>1. n \in Nat
  BY WalkItems
<1>2. 0 \in T
  <2>1. 0 \in 0..n /\ <<>> \in Seq(Names)
    BY <1>1
  <2> QED
    BY <2>1, WithinSteps
<1>3. ASSUME NEW i \in 0..n, i \in T, i < n PROVE i + 1 \in T
  <2>1. i + 1 \in 1..n /\ (i + 1) - 1 = i /\ i + 1 \in 0..n
    BY <1>1, <1>3
  <2>2. Within[i + 1] = Below(i + 1, Within[i]) /\ Within[i] \in Seq(Names)
    BY <1>3, <2>1, WithinSteps
  <2>3. Within[i + 1] \in Seq(Names)
    BY <2>1, <2>2, BelowNames
  <2> QED
    BY <2>1, <2>3
<1>4. \A i \in 0..n : i \in T
  <2> HIDE DEF T, n
  <2> QED
    BY <1>1, <1>2, <1>3, NatSteps
<1> QED
  BY <1>4

\* The path of a file is below the directories that are open when the walk meets it.
LEMMA PathOfFile ==
  ASSUME NEW k \in Nat, k + 1 \in 1..Len(Walk), NEW f, Walk[k + 1] = <<"file", f>>
  PROVE  /\ PathOf(f) = Append(Within[k], f) /\ Within[k + 1] = Within[k]
         /\ Last(PathOf(f)) = f /\ PathOf(f) \in Seq(Names) /\ f \in Names
<1> DEFINE at == CHOOSE i \in DOMAIN Walk : Walk[i] = <<"file", f>>
<1>1. at \in DOMAIN Walk /\ Walk[at] = <<"file", f>>
  <2>1. k + 1 \in DOMAIN Walk
    BY WalkItems
  <2> QED
    BY <2>1
<1>2. at = k + 1
  <2>1. DOMAIN Walk = 1..Len(Walk)
    BY WalkItems
  <2>2. \A i, j \in 1..Len(Walk) : Walk[i] = Walk[j] /\ Walk[i][1] # "end" => i = j
    BY WalkItems
  <2>3. Walk[at][1] # "end"
    BY <1>1
  <2> HIDE DEF at
  <2> QED
    BY <1>1, <2>1, <2>2, <2>3
<1>3. Within[k + 1] = Within[k]
  <2>1. (k + 1) - 1 = k
    OBVIOUS
  <2>2. Below(k + 1, Within[k]) = Within[k]
    BY DEF Below
  <2> QED
    BY <2>1, <2>2, WithinSteps
<1>4. PathOf(f) = Append(Within[k], f)
  BY <1>2, <1>3 DEF PathOf
<1>5. f \in Names
  <2>1. \A i \in 1..Len(Walk) : Walk[i][2] \in Names
    BY WalkItems
  <2>2. Walk[k + 1][2] = f
    OBVIOUS
  <2> QED
    BY <2>1, <2>2
<1>6. Within[k] \in Seq(Names)
  <2>2. Len(Walk) \in Nat
    BY WalkItems
  <2>1. k \in 0..Len(Walk)
    BY <2>2
  <2> QED
    BY <2>1, WithinNames
<1>7. \A s \in Seq(Names) : Append(s, f) \in Seq(Names) /\ Last(Append(s, f)) = f
  BY <1>5 DEF Last
<1> QED
  BY <1>3, <1>4, <1>5, <1>6, <1>7

-----------------------------------------------------------------------------
(* A stream that grows.                                                       *)

\* W and what is new in V.
More(W, V) == DOMAIN W \subseteq DOMAIN V /\ \A path \in DOMAIN W : V[path] = W[path]

LEMMA PieceStays ==
  ASSUME NEW S, NEW T, NEW m \in Nat, \A i \in 1..m : T[i] = S[i], NEW W, NEW V, More(W, V),
         NEW o \in Nat, NEW s, NEW e \in Nat, e <= m, NEW t, Piece(S, W, o, s, e, t)
  PROVE  Piece(T, V, o, s, e, t)
<1>1. CASE o = 0 /\ e = 1 /\ S[1] = DirEntry /\ t = <<>>
  BY <1>1 DEF Piece
<1>2. CASE o # 0 /\ e = o + 1 /\ S[o + 1] = Goodbye /\ t = Up(s)
  BY <1>2 DEF Piece
<1>3. CASE /\ o # 0 /\ e = o + 2
           /\ \E d \in Names : S[o + 1] = Named(d) /\ S[o + 2] = DirEntry /\ t = Append(s, d)
  <2>1. o + 1 \in 1..m /\ o + 2 \in 1..m
    BY <1>3
  <2> QED
    BY <1>3, <2>1 DEF Piece
<1>4. CASE o # 0 /\ t = s /\ \E f \in Names : FileAt(S, W, o, Append(s, f), f, e)
  <2>1. PICK f \in Names : FileAt(S, W, o, Append(s, f), f, e)
    BY <1>4
  <2> DEFINE path == Append(s, f)
             w == W[path]
  <2>2. /\ path \in DOMAIN W /\ w \in Seq(Units) /\ e = o + 3 + Len(w)
        /\ \A i \in 1..Len(w) : S[o + 3 + i] = w[i]
        /\ S[o + 1] = Named(f) /\ S[o + 2] = FileEntry /\ S[o + 3] = Payload(Len(w))
    BY <2>1 DEF FileAt, Lays
  <2>3. path \in DOMAIN V /\ V[path] = w
    BY <2>2 DEF More
  <2>4. Len(w) \in Nat
    BY <2>2
  <2> HIDE DEF w, path
  <2>5. o + 1 \in 1..m /\ o + 2 \in 1..m /\ o + 3 \in 1..m
    BY <2>2, <2>4
  <2>6. \A i \in 1..Len(w) : o + 3 + i \in 1..m
    BY <2>2, <2>4
  <2>7. \A i \in 1..Len(w) : T[o + 3 + i] = w[i]
    BY <2>2, <2>6
  <2>8. FileAt(T, V, o, path, f, e)
    BY <2>2, <2>3, <2>5, <2>7 DEF FileAt, Lays
  <2> QED
    BY <1>4, <2>8 DEF Piece, path
<1> QED
  BY <1>1, <1>2, <1>3, <1>4 DEF Piece

LEMMA LaidStays ==
  ASSUME NEW S, NEW T, NEW B, NEW W, NEW V, NEW m, Laid(S, B, W, m),
         \A i \in 1..m : T[i] = S[i], More(W, V)
  PROVE  Laid(T, B, V, m)
<1>1. /\ m \in Nat /\ DOMAIN B \subseteq 0..m /\ 0 \in DOMAIN B /\ m \in DOMAIN B
      /\ B[0] = <<>> /\ \A o \in DOMAIN B : B[o] \in Seq(Names)
      /\ \A o \in DOMAIN B : o < m => \E e \in DOMAIN B : Piece(S, W, o, B[o], e, B[e])
  BY DEF Laid
<1>2. ASSUME NEW o \in DOMAIN B, o < m
      PROVE  \E e \in DOMAIN B : Piece(T, V, o, B[o], e, B[e])
  <2>1. PICK e \in DOMAIN B : Piece(S, W, o, B[o], e, B[e])
    BY <1>1, <1>2
  <2>2. o \in Nat /\ e \in Nat /\ e <= m
    BY <1>1
  <2>3. Piece(T, V, o, B[o], e, B[e])
    BY <1>1, <2>1, <2>2, PieceStays
  <2> QED
    BY <2>3
<1> QED
  BY <1>1, <1>2 DEF Laid

\* One more entry.
LEMMA LaidGrows ==
  ASSUME NEW S, NEW B, NEW W, NEW m, Laid(S, B, W, m), NEW e \in Nat, m < e,
         NEW t \in Seq(Names), Piece(S, W, m, B[m], e, t)
  PROVE  \E C : Laid(S, C, W, e) /\ C[e] = t
<1> DEFINE C == [o \in DOMAIN B \cup {e} |-> IF o = e THEN t ELSE B[o]]
<1>1. /\ m \in Nat /\ DOMAIN B \subseteq 0..m /\ 0 \in DOMAIN B /\ m \in DOMAIN B
      /\ B[0] = <<>> /\ \A o \in DOMAIN B : B[o] \in Seq(Names)
      /\ \A o \in DOMAIN B : o < m => \E x \in DOMAIN B : Piece(S, W, o, B[o], x, B[x])
  BY DEF Laid
<1>2. /\ DOMAIN C = DOMAIN B \cup {e} /\ C[e] = t
      /\ \A o \in DOMAIN B : o \in 0..m /\ o # e /\ C[o] = B[o]
  BY <1>1
<1> HIDE DEF C
<1>3. DOMAIN C \subseteq 0..e /\ 0 \in DOMAIN C /\ e \in DOMAIN C /\ C[0] = <<>>
  BY <1>1, <1>2
<1>4. \A o \in DOMAIN C : C[o] \in Seq(Names)
  BY <1>1, <1>2
<1>5. ASSUME NEW o \in DOMAIN C, o < e
      PROVE  \E x \in DOMAIN C : Piece(S, W, o, C[o], x, C[x])
  <2>1. o \in DOMAIN B /\ o \in 0..m /\ C[o] = B[o]
    BY <1>2, <1>5
  <2>2. CASE o = m
    BY <1>2, <2>1, <2>2
  <2>3. CASE o # m
    <3>1. PICK x \in DOMAIN B : Piece(S, W, o, B[o], x, B[x])
      BY <1>1, <2>1, <2>3
    <3> QED
      BY <1>2, <2>1, <3>1
  <2> QED
    BY <2>2, <2>3
<1>6. Laid(S, C, W, e)
  BY <1>3, <1>4, <1>5 DEF Laid
<1> QED
  BY <1>2, <1>6

-----------------------------------------------------------------------------
(* A run lays its stream as the parser takes it, as long as its walk is clean. *)

\* What is left of the walk after k items.
Left(todo, k) ==
  /\ k \in Nat /\ todo \in Seq(ToSet(Walk)) /\ k + Len(todo) = Len(Walk)
  /\ \A i \in 1..Len(todo) : todo[i] = Walk[k + i]

\* After k items of the walk the stream is laid up to m, and what is wanted so far
\* are files among those items.
At(S, todo, W, k, B, m) ==
  /\ Left(todo, k)
  /\ \A path \in DOMAIN W : \E i \in 1..k : Walk[i] = <<"file", Last(path)>>
  /\ Laid(S, B, W, m) /\ B[m] = Within[k] /\ (m = 0 <=> k = 0)

Placed(r) ==
  ~r.err /\ r.marks = {} =>
    /\ r.pc = "walk" => \E k, B : At(Stream(r), r.todo, r.want, k, B, Len(Stream(r)))
    /\ r.pc = "read" => /\ r.todo # <<>> /\ Head(r.todo) = <<"file", r.file>>
                        /\ \E k, B : At(Stream(r), r.todo, r.want, k, B, r.begin)
    /\ r.pc \in {"drain", "finish", "save"} =>
         /\ r.assigned \in Seq(Seq(Units))
         /\ \E B : Laid(FlattenSeq(r.assigned), B, r.want, Len(FlattenSeq(r.assigned)))

\* The snapshot that was just committed is the stream of the run, and what it wants.
Matches(r, ss) ==
  r.pc = "save" => ss[Len(ss)].index = r.assigned /\ ss[Len(ss)].want = r.want

Arranged == run # Idle => Placed(run) /\ Matches(run, snaps)

\* The next item of the walk.
LEMMA LeftItem ==
  ASSUME NEW todo, NEW k, Left(todo, k), todo # <<>>
  PROVE  /\ k \in Nat /\ k + 1 \in 1..Len(Walk) /\ Head(todo) = Walk[k + 1]
         /\ Tail(todo) \in Seq(ToSet(Walk)) /\ (k + 1) + Len(Tail(todo)) = Len(Walk)
         /\ \A i \in 1..Len(Tail(todo)) : Tail(todo)[i] = Walk[(k + 1) + i]
         /\ Within[k] \in Seq(Names) /\ Within[k + 1] \in Seq(Names)
         /\ Within[k + 1] = Below(k + 1, Within[k])
<1> DEFINE X == ToSet(Walk)
           t == Tail(todo)
           n == Len(todo)
           c == Len(Walk)
<1>1. /\ k \in Nat /\ todo \in Seq(X) /\ k + n = c
      /\ \A i \in 1..n : todo[i] = Walk[k + i]
  BY DEF Left
<1>2. c \in Nat
  BY WalkItems
<1> HIDE DEF X
<1>3. t \in Seq(X) /\ Len(t) = n - 1 /\ \A i \in 1..(n - 1) : t[i] = todo[i + 1]
  BY <1>1, HeadTailProperties
<1>4. n \in Nat /\ n # 0 /\ Head(todo) = todo[1]
  BY <1>1
<1> HIDE DEF t, n, c
<1>5. k + 1 \in 1..c /\ (k + 1) + (n - 1) = c /\ 1 \in 1..n /\ k \in 0..c /\ k + 1 \in 0..c
      /\ (k + 1) - 1 = k
  BY <1>1, <1>2, <1>4
<1>6. \A i \in 1..(n - 1) : i + 1 \in 1..n /\ k + (i + 1) = (k + 1) + i
  BY <1>1, <1>4
<1>7. \A i \in 1..(n - 1) : t[i] = Walk[(k + 1) + i]
  BY <1>1, <1>3, <1>6
<1>8. Within[k] \in Seq(Names) /\ Within[k + 1] \in Seq(Names)
  BY <1>5, WithinNames DEF c
<1>9. Within[k + 1] = Below(k + 1, Within[k])
  <2>1. \A i \in 1..c : Within[i] = Below(i, Within[i - 1])
    BY WithinSteps DEF c
  <2> QED
    BY <1>5, <2>1
<1>10. Head(todo) = Walk[k + 1]
  BY <1>1, <1>4, <1>5
<1> QED
  BY <1>1, <1>3, <1>5, <1>7, <1>8, <1>9, <1>10 DEF X, t, n, c

LEMMA AtItem ==
  ASSUME NEW S, NEW todo, NEW W, NEW k, NEW B, NEW m, At(S, todo, W, k, B, m), todo # <<>>
  PROVE  /\ k \in Nat /\ k + 1 \in 1..Len(Walk) /\ Head(todo) = Walk[k + 1]
         /\ Tail(todo) \in Seq(ToSet(Walk)) /\ (k + 1) + Len(Tail(todo)) = Len(Walk)
         /\ \A i \in 1..Len(Tail(todo)) : Tail(todo)[i] = Walk[(k + 1) + i]
         /\ Within[k] \in Seq(Names) /\ Within[k + 1] \in Seq(Names)
         /\ Within[k + 1] = Below(k + 1, Within[k])
BY LeftItem DEF At

LEMMA AtHead ==
  ASSUME NEW S, NEW todo, NEW W, NEW k, NEW B, NEW m, At(S, todo, W, k, B, m), todo # <<>>
  PROVE  k \in Nat /\ k + 1 \in 1..Len(Walk) /\ Head(todo) = Walk[k + 1]
BY AtItem

\* More is written after what is laid.
LEMMA AtStays ==
  ASSUME NEW S, NEW T, NEW todo, NEW W, NEW k, NEW B, NEW m, At(S, todo, W, k, B, m),
         \A i \in 1..m : T[i] = S[i]
  PROVE  At(T, todo, W, k, B, m)
<1>1. More(W, W)
  BY DEF More
<1>2. Laid(S, B, W, m)
  BY DEF At, Left
<1>3. Laid(T, B, W, m)
  BY <1>1, <1>2, LaidStays
<1> QED
  BY <1>3 DEF At, Left

\* The next item is written, as one entry.
LEMMA AtNext ==
  ASSUME NEW S, NEW T, NEW todo, NEW W, NEW V, NEW k, NEW B, NEW m,
         At(S, todo, W, k, B, m), todo # <<>>,
         \A i \in 1..m : T[i] = S[i], More(W, V),
         \A path \in DOMAIN V : path \in DOMAIN W \/ Walk[k + 1] = <<"file", Last(path)>>,
         NEW e \in Nat, m < e, Piece(T, V, m, Within[k], e, Within[k + 1])
  PROVE  \E h, C : At(T, Tail(todo), V, h, C, e)
<1>1. Laid(S, B, W, m) /\ B[m] = Within[k] /\ k \in Nat /\ m \in Nat
  BY DEF At, Left, Laid
<1>2. Laid(T, B, V, m)
  BY <1>1, LaidStays
<1>3. Within[k + 1] \in Seq(Names)
  BY AtItem
<1>4. PICK C : Laid(T, C, V, e) /\ C[e] = Within[k + 1]
  BY <1>1, <1>2, <1>3, LaidGrows
<1>5. /\ k + 1 \in Nat /\ Tail(todo) \in Seq(ToSet(Walk)) /\ (k + 1) + Len(Tail(todo)) = Len(Walk)
      /\ \A i \in 1..Len(Tail(todo)) : Tail(todo)[i] = Walk[(k + 1) + i]
  <2> DEFINE n == Len(Tail(todo))
  <2>1. Tail(todo) \in Seq(ToSet(Walk)) /\ (k + 1) + n = Len(Walk)
    BY AtItem
  <2>2. \A i \in 1..n : Tail(todo)[i] = Walk[(k + 1) + i]
    BY AtItem
  <2> HIDE DEF n
  <2>3. k + 1 \in Nat
    BY <1>1
  <2> QED
    BY <2>1, <2>2, <2>3 DEF n
<1>6. e # 0 /\ k + 1 # 0
  BY <1>1
<1>7. \A path \in DOMAIN V : \E i \in 1..(k + 1) : Walk[i] = <<"file", Last(path)>>
  <2> SUFFICES ASSUME NEW path \in DOMAIN V
               PROVE  \E i \in 1..(k + 1) : Walk[i] = <<"file", Last(path)>>
    OBVIOUS
  <2>1. CASE path \in DOMAIN W
    <3>1. PICK i \in 1..k : Walk[i] = <<"file", Last(path)>>
      BY <2>1 DEF At, Left
    <3>2. i \in 1..(k + 1)
      BY <1>1
    <3> QED
      BY <3>1, <3>2
  <2>2. CASE Walk[k + 1] = <<"file", Last(path)>>
    <3>1. k + 1 \in 1..(k + 1)
      BY <1>1
    <3> QED
      BY <2>2, <3>1
  <2> QED
    BY <2>1, <2>2
<1>8. At(T, Tail(todo), V, k + 1, C, e)
  BY <1>4, <1>5, <1>6, <1>7 DEF At, Left
<1> QED
  BY <1>8

\* Items are passed over that leave the same directories open.
LEMMA AtSkips ==
  ASSUME NEW S, NEW todo, NEW W, NEW k, NEW B, NEW m, At(S, todo, W, k, B, m), k # 0,
         NEW h \in Nat, k <= h, Within[h] = Within[k], NEW t, Left(t, h)
  PROVE  At(S, t, W, h, B, m)
<1>1. k \in Nat /\ h # 0 /\ m # 0 /\ \A i \in 1..k : i \in 1..h
  <2>1. k \in Nat /\ (m = 0 <=> k = 0)
    BY DEF At, Left
  <2> QED
    BY <2>1
<1>2. \A path \in DOMAIN W : \E i \in 1..h : Walk[i] = <<"file", Last(path)>>
  BY <1>1 DEF At, Left
<1> QED
  BY <1>1, <1>2 DEF At, Left

\* Before the source is entered nothing is laid, and only then.
LEMMA AtSource ==
  ASSUME NEW S, NEW todo, NEW W, NEW k, NEW B, NEW m, At(S, todo, W, k, B, m), todo # <<>>
  PROVE  IF Head(todo) = <<"dir", "">> THEN k = 0 /\ m = 0 ELSE k # 0 /\ m # 0
<1>1. k \in Nat /\ k + 1 \in 1..Len(Walk) /\ Head(todo) = Walk[k + 1]
  BY AtItem
<1>2. m = 0 <=> k = 0
  BY DEF At, Left
<1>3. Len(Walk) \in Nat /\ Len(Walk) # 0 /\ 1 \in 1..Len(Walk) /\ Walk[1] = <<"dir", "">>
  <2>1. Len(Walk) \in Nat
    BY WalkItems
  <2>2. Len(Walk) # 0 /\ 1 \in 1..Len(Walk)
    BY <1>1, <2>1
  <2> QED
    BY <2>1, <2>2, WalkItems
<1>4. ASSUME Walk[k + 1] = <<"dir", "">> PROVE k = 0
  <2>1. \A i, j \in 1..Len(Walk) : Walk[i] = Walk[j] /\ Walk[i][1] # "end" => i = j
    BY WalkItems
  <2>2. Walk[1] = Walk[k + 1] /\ Walk[1][1] # "end"
    <3> DEFINE x == Walk[1]
    <3>1. x = <<"dir", "">>
      BY <1>3
    <3>2. x = Walk[k + 1]
      BY <1>4, <3>1
    <3> HIDE DEF x
    <3>3. x[1] # "end"
      BY <3>1
    <3> QED
      BY <3>2, <3>3 DEF x
  <2>3. 1 = k + 1
    BY <1>1, <1>3, <2>1, <2>2
  <2> QED
    BY <1>1, <2>3
<1>5. ASSUME k = 0 PROVE Walk[k + 1] = <<"dir", "">>
  <2>1. k + 1 = 1
    BY <1>5
  <2>2. Walk[1] = <<"dir", "">>
    BY <1>3
  <2> QED
    BY <2>1, <2>2
<1> QED
  BY <1>1, <1>2, <1>4, <1>5

-----------------------------------------------------------------------------
(* What the steps of a walk do to what is laid.                               *)

\* A write of the walk, without an error so far.
LEMMA EmitsAlong ==
  ASSUME NEW units \in Seq(Units), Len(units) \in 1..3, NEW D, NEW n,
         RunTyped(run), run.pc = "walk", Spells(run, D, n), run.todo # <<>>,
         NEW q, q = Further(Emit(run, units)), ~q.err, q.marks = {}, Placed(run)
  PROVE  /\ \E k, B : At(Stream(run), run.todo, run.want, k, B, Len(Stream(run)))
         /\ q.todo = Tail(run.todo) /\ q.want = run.want /\ q.pc = "walk"
         /\ Len(Stream(run)) \in Nat /\ Len(Stream(q)) = Len(Stream(run)) + Len(units)
         /\ \A i \in 1..Len(Stream(run)) : Stream(q)[i] = Stream(run)[i]
         /\ \A i \in 1..Len(units) : Stream(q)[Len(Stream(run)) + i] = units[i]
<1> DEFINE e == Emit(run, units)
           t == Tail(run.todo)
<1>1. Wrote(run, e, {}) /\ Writable(e)
  BY EmitWrites DEF RunTyped, Wrote, Writable
<1>2. /\ q.err = e.err /\ q.marks = e.marks /\ q.pc = e.pc /\ q.want = e.want
      /\ q.todo = t /\ q.assigned = e.assigned /\ q.current = e.current
  <2> HIDE DEF t
  <2>1. q = [e EXCEPT !.todo = t]
    BY <1>1 DEF Further, Wrote, Kept, t
  <2> HIDE DEF e
  <2> QED
    BY <1>1, <2>1 DEF Writable, RunFields
<1>3. /\ ~e.err /\ ~run.err /\ run.marks = {} /\ q.pc = "walk" /\ q.want = run.want
  BY <1>1, <1>2 DEF Wrote, Kept
<1>4. Clear(run) /\ run.written = Len(Stream(run))
  BY <1>3 DEF Spells
<1>5. Stream(q) = Stream(e)
  BY <1>2 DEF Stream
<1> DEFINE a == Len(Stream(run))
           b == Len(units)
<1>6. /\ a \in Nat /\ Len(Stream(e)) = a + b
      /\ \A i \in 1..a : Stream(e)[i] = Stream(run)[i]
      /\ \A i \in 1..b : Stream(e)[a + i] = units[i]
  <2>1. ~e.err
    BY <1>3
  <2> HIDE DEF e
  <2>2. e = Emit(run, units)
    BY DEF e
  <2> QED
    BY <1>4, <2>1, <2>2, EmitExtends
<1>7. \E k, B : At(Stream(run), run.todo, run.want, k, B, a)
  BY <1>3 DEF Placed
<1> HIDE DEF e, a, b, t
<1> QED
  BY <1>2, <1>3, <1>5, <1>6, <1>7 DEF a, b, t

LEMMA SameMore == \A W : More(W, W)
BY DEF More

LEMMA PlacedEnter ==
  ASSUME Shapes, NEW D, NEW n, Spells(run, D, n), Placed(run), EnterDir
  PROVE  Placed(run')
<1> SUFFICES ASSUME ~run'.err, run'.marks = {} PROVE
      /\ run'.pc = "walk"
      /\ \E k, B : At(Stream(run'), run'.todo, run'.want, k, B, Len(Stream(run')))
  BY DEF Placed
<1> DEFINE d == Here
           units == DirHeader(d)
           S == Stream(run)
           T == Stream(run')
           m == Len(S)
<1>1. /\ RunTyped(run) /\ run.pc = "walk" /\ run.todo # <<>>
      /\ Head(run.todo)[1] = "dir" /\ Head(run.todo)[2] = d /\ run' = Further(Emit(run, units))
  BY RunThere DEF EnterDir, Walks, Here
<1> HIDE DEF d
<1>2. d \in Names /\ Head(run.todo) = <<"dir", d>>
  <2>1. Rest(run.todo)
    BY <1>1 DEF RunTyped
  <2>2. PICK i \in DOMAIN Walk : Head(run.todo) = Walk[i]
    BY <1>1, <2>1, RestTail
  <2>3. i \in 1..Len(Walk)
    BY <2>2, WalkIsList
  <2>4. Walk[i] = <<Walk[i][1], Walk[i][2]>> /\ Walk[i][2] \in Names
    BY <2>3, WalkItems
  <2> QED
    BY <1>1, <2>2, <2>4
<1>3. /\ d = "" => units \in Seq(Units) /\ Len(units) = 1 /\ units[1] = DirEntry
      /\ d # "" => /\ units \in Seq(Units) /\ Len(units) = 2
                   /\ units[1] = Named(d) /\ units[2] = DirEntry
  <2>1. Named(d) \in Units /\ DirEntry \in Units
    BY <1>2, UnitsAre
  <2> DEFINE x == Named(d)
             y == DirEntry
  <2>2. /\ d = "" => units = <<y>>
        /\ d # "" => units = <<x, y>>
    BY DEF DirHeader
  <2>3. x \in Units /\ y \in Units
    BY <2>1
  <2> HIDE DEF units, x, y
  <2>4. ASSUME d = "" PROVE units \in Seq(Units) /\ Len(units) = 1 /\ units[1] = y
    <3>1. units = <<y>>
      BY <2>2, <2>4
    <3> QED
      BY <2>3, <3>1
  <2>5. ASSUME d # "" PROVE units \in Seq(Units) /\ Len(units) = 2 /\ units[1] = x /\ units[2] = y
    <3>1. units = <<x, y>>
      BY <2>2, <2>5
    <3> QED
      BY <2>3, <3>1
  <2> QED
    BY <2>4, <2>5 DEF x, y
<1> HIDE DEF units
<1>4. units \in Seq(Units) /\ Len(units) \in 1..3
  <2>1. 1 \in 1..3 /\ 2 \in 1..3
    OBVIOUS
  <2> QED
    BY <1>3, <2>1
<1>5. /\ \E k, B : At(S, run.todo, run.want, k, B, m)
      /\ run'.todo = Tail(run.todo) /\ run'.want = run.want /\ run'.pc = "walk"
      /\ m \in Nat /\ Len(T) = m + Len(units)
      /\ \A i \in 1..m : T[i] = S[i]
      /\ \A i \in 1..Len(units) : T[m + i] = units[i]
  BY <1>1, <1>4, EmitsAlong
<1> HIDE DEF S, T, m
<1>6. PICK k, B : At(S, run.todo, run.want, k, B, m)
  BY <1>5
<1>7. k \in Nat /\ Walk[k + 1] = <<"dir", d>> /\ Within[k + 1] = Below(k + 1, Within[k])
  <2>1. k \in Nat /\ Head(run.todo) = Walk[k + 1] /\ Within[k + 1] = Below(k + 1, Within[k])
    <3>1. run.todo # <<>>
      BY <1>1
    <3>2. k \in Nat /\ Head(run.todo) = Walk[k + 1]
      BY <1>6, <3>1, AtHead
    <3>3. Within[k + 1] = Below(k + 1, Within[k])
      BY <1>6, <3>1, AtItem
    <3> QED
      BY <3>2, <3>3
  <2> QED
    BY <1>2, <2>1
<1>8. IF d = "" THEN k = 0 /\ m = 0 ELSE k # 0 /\ m # 0
  <2>1. IF Head(run.todo) = <<"dir", "">> THEN k = 0 /\ m = 0 ELSE k # 0 /\ m # 0
    BY <1>1, <1>6, AtSource
  <2>2. <<"dir", d>> = <<"dir", "">> <=> d = ""
    OBVIOUS
  <2> QED
    BY <1>2, <2>1, <2>2
<1> DEFINE e == Len(T)
<1>12. m \in Nat /\ e = m + Len(units)
  BY <1>5
<1>9. e \in Nat /\ m < e
  <2> DEFINE z == Len(units)
  <2>1. z \in 1..3 /\ e = m + z
    BY <1>4, <1>12
  <2> HIDE DEF e, z
  <2> QED
    BY <1>12, <2>1
<1>10. Piece(T, run.want, m, Within[k], e, Within[k + 1])
  <2>1. CASE d = ""
    <3>4. Len(units) = 1 /\ units[1] = DirEntry /\ m = 0 /\ k = 0
      BY <1>3, <1>8, <2>1
    <3>1. 1 \in 1..Len(units) /\ m + 1 = 1 /\ m + Len(units) = 1 /\ m = 0 /\ k = 0
      BY <3>4
    <3>2. T[1] = DirEntry /\ e = 1
      <4>1. T[m + 1] = units[1]
        BY <1>5, <3>1
      <4> QED
        BY <1>12, <3>1, <3>4, <4>1
    <3>3. Within[k + 1] = <<>>
      <4>1. Within[k] = <<>>
        BY <3>1, WithinSteps
      <4> DEFINE w == Walk[k + 1]
      <4>4. w = <<"dir", "">>
        BY <1>7, <2>1
      <4> HIDE DEF w
      <4>5. w[1] = "dir" /\ w[2] = ""
        BY <4>4
      <4>2. Walk[k + 1][1] = "dir" /\ Walk[k + 1][2] = ""
        BY <4>5 DEF w
      <4>3. Below(k + 1, Within[k]) = Within[k]
        BY <4>2 DEF Below
      <4> QED
        BY <1>7, <4>1, <4>3
    <3> HIDE DEF e
    <3> QED
      BY <3>1, <3>2, <3>3 DEF Piece
  <2>2. CASE d # ""
    <3>4. Len(units) = 2 /\ units[1] = Named(d) /\ units[2] = DirEntry /\ m # 0
      BY <1>3, <1>8, <2>2
    <3>1. 1 \in 1..Len(units) /\ 2 \in 1..Len(units) /\ m # 0
      BY <3>4
    <3>2. T[m + 1] = Named(d) /\ T[m + 2] = DirEntry /\ e = m + 2
      <4>1. T[m + 1] = units[1] /\ T[m + 2] = units[2]
        BY <1>5, <3>1
      <4> QED
        BY <1>12, <3>4, <4>1
    <3>3. Within[k + 1] = Append(Within[k], d)
      <4>2. Walk[k + 1][1] = "dir" /\ Walk[k + 1][2] = d
        BY <1>7
      <4>3. Below(k + 1, Within[k]) = Append(Within[k], d)
        BY <2>2, <4>2 DEF Below
      <4> QED
        BY <1>7, <4>3
    <3> HIDE DEF e
    <3> QED
      BY <1>2, <3>1, <3>2, <3>3 DEF Piece
  <2> QED
    BY <2>1, <2>2
<1> HIDE DEF e
<1>11. \E h, C : At(T, Tail(run.todo), run.want, h, C, e)
  <2>1. More(run.want, run.want) /\ \A path \in DOMAIN run.want : path \in DOMAIN run.want \/ Walk[k + 1] = <<"file", Last(path)>>
    BY SameMore
  <2>2. \A i \in 1..m : T[i] = S[i]
    BY <1>5
  <2> QED
    BY <1>1, <1>6, <1>9, <1>10, <2>1, <2>2, AtNext
<1> QED
  BY <1>5, <1>11 DEF e, T

LEMMA PlacedLeave ==
  ASSUME Shapes, NEW D, NEW n, Spells(run, D, n), Placed(run), LeaveDir
  PROVE  Placed(run')
<1> SUFFICES ASSUME ~run'.err, run'.marks = {} PROVE
      /\ run'.pc = "walk"
      /\ \E k, B : At(Stream(run'), run'.todo, run'.want, k, B, Len(Stream(run')))
  BY DEF Placed
<1> DEFINE units == <<Goodbye>>
           S == Stream(run)
           T == Stream(run')
           m == Len(S)
<1>1. /\ RunTyped(run) /\ run.pc = "walk" /\ run.todo # <<>>
      /\ Head(run.todo)[1] = "end" /\ run' = Further(Emit(run, units))
  BY RunThere DEF LeaveDir, Walks
<1>2. units \in Seq(Units) /\ Len(units) = 1 /\ units[1] = Goodbye
  <2>1. Goodbye \in Units
    <3>1. "" \in Names /\ 0 \in Int
      BY DEF Names
    <3> QED
      BY <3>1, UnitsAre
  <2> QED
    BY <2>1, FewInSeq
<1> HIDE DEF units
<1>3. Len(units) \in 1..3 /\ 1 \in 1..Len(units)
  BY <1>2
<1>5. /\ \E k, B : At(S, run.todo, run.want, k, B, m)
      /\ run'.todo = Tail(run.todo) /\ run'.want = run.want /\ run'.pc = "walk"
      /\ m \in Nat /\ Len(T) = m + Len(units)
      /\ \A i \in 1..m : T[i] = S[i]
      /\ \A i \in 1..Len(units) : T[m + i] = units[i]
  <2>1. units \in Seq(Units) /\ Len(units) \in 1..3
    BY <1>2, <1>3
  <2> QED
    BY <1>1, <2>1, EmitsAlong
<1> HIDE DEF S, T, m
<1>6. PICK k, B : At(S, run.todo, run.want, k, B, m)
  BY <1>5
<1>7. Head(run.todo) = Walk[k + 1] /\ Within[k + 1] = Below(k + 1, Within[k])
  <2>1. run.todo # <<>>
    BY <1>1
  <2>2. Head(run.todo) = Walk[k + 1]
    BY <1>6, <2>1, AtHead
  <2>3. Within[k + 1] = Below(k + 1, Within[k])
    BY <1>6, <2>1, AtItem
  <2> QED
    BY <2>2, <2>3
<1>8. m # 0
  <2>1. IF Head(run.todo) = <<"dir", "">> THEN k = 0 /\ m = 0 ELSE k # 0 /\ m # 0
    BY <1>1, <1>6, AtSource
  <2>2. Head(run.todo) # <<"dir", "">>
    <3> DEFINE w == Head(run.todo)
    <3>1. w[1] = "end"
      BY <1>1
    <3> HIDE DEF w
    <3>2. ASSUME w = <<"dir", "">> PROVE FALSE
      <4>1. w[1] = "dir"
        BY <3>2
      <4> QED
        BY <3>1, <4>1
    <3> QED
      BY <3>2 DEF w
  <2> QED
    BY <2>1, <2>2
<1> DEFINE e == Len(T)
<1>9. e \in Nat /\ m < e /\ e = m + 1 /\ T[m + 1] = Goodbye
  BY <1>2, <1>3, <1>5
<1>10. Piece(T, run.want, m, Within[k], e, Within[k + 1])
  <2>1. Walk[k + 1][1] = "end"
    BY <1>1, <1>7
  <2>2. Below(k + 1, Within[k]) = Up(Within[k])
    BY <2>1 DEF Below, Up
  <2> HIDE DEF e
  <2> QED
    BY <1>7, <1>8, <1>9, <2>2 DEF Piece
<1> HIDE DEF e
<1>11. \E h, C : At(T, Tail(run.todo), run.want, h, C, e)
  <2>1. More(run.want, run.want) /\ \A path \in DOMAIN run.want : path \in DOMAIN run.want \/ Walk[k + 1] = <<"file", Last(path)>>
    BY SameMore
  <2>2. \A i \in 1..m : T[i] = S[i]
    BY <1>5
  <2> QED
    BY <1>1, <1>6, <1>9, <1>10, <2>1, <2>2, AtNext
<1> QED
  BY <1>5, <1>11 DEF e, T

\* What follows an item.
LEMMA PastItem ==
  ASSUME NEW X, NEW todo \in Seq(X), NEW past \in 1..Len(todo),
         NEW t, t = SubSeq(todo, past + 1, Len(todo))
  PROVE  /\ t \in Seq(X) /\ Len(t) = Len(todo) - past
         /\ \A i \in 1..(Len(todo) - past) : t[i] = todo[past + i]
<1> DEFINE n == Len(todo)
           m == past + 1
<1>1. n \in Nat /\ past \in 1..n /\ \A i \in 1..n : todo[i] \in X
  OBVIOUS
<1>2. t = SubSeq(todo, m, n)
  OBVIOUS
<1> HIDE DEF n, m
<1>3. m \in Int /\ n \in Int /\ \A i \in m..n : i \in 1..n
  BY <1>1 DEF m
<1>4. \A i \in m..n : todo[i] \in X
  BY <1>1, <1>3
<1>5. /\ t \in Seq(X) /\ Len(t) = IF m <= n THEN n - m + 1 ELSE 0
      /\ \A i \in 1..n - m + 1 : t[i] = todo[m + i - 1]
  <2>1. /\ SubSeq(todo, m, n) \in Seq(X)
        /\ Len(SubSeq(todo, m, n)) = IF m <= n THEN n - m + 1 ELSE 0
        /\ \A i \in 1..n - m + 1 : SubSeq(todo, m, n)[i] = todo[m + i - 1]
    BY <1>3, <1>4, SubSeqProperties
  <2> QED
    BY <1>2, <2>1
<1>6. n - m + 1 = n - past /\ (~(m <= n) => n - past = 0)
  BY <1>1 DEF m
<1>7. Len(t) = n - past
  BY <1>5, <1>6
<1>8. \A i \in 1..(n - past) : m + i - 1 = past + i
  BY <1>1 DEF m
<1> QED
  BY <1>5, <1>6, <1>7, <1>8 DEF n

\* There is more to do, and the source was entered.
InSource(todo) == todo # <<>> /\ Head(todo) # <<"dir", "">>

\* Items of the walk are passed over that leave the same directories open.
LEMMA AtOver ==
  ASSUME NEW S, NEW todo, NEW W, NEW k, NEW B, NEW m, At(S, todo, W, k, B, m),
         InSource(todo), NEW past \in 1..Len(todo),
         NEW t, t = SubSeq(todo, past + 1, Len(todo)), Within[k + past] = Within[k]
  PROVE  \E h, C : At(S, t, W, h, C, m)
<1> DEFINE n == Len(todo)
           c == Len(Walk)
           X == ToSet(Walk)
<1>1. k # 0
  BY AtSource DEF InSource
<1>2. /\ k \in Nat /\ todo \in Seq(X) /\ k + n = c
      /\ \A i \in 1..n : todo[i] = Walk[k + i]
  BY DEF At, Left
<1> HIDE DEF X
<1>9. todo \in Seq(X) /\ k \in Nat /\ k + n = c
  BY <1>2
<1>3. past \in 1..n /\ n \in Nat /\ c \in Nat
  <2>1. c \in Nat
    BY WalkItems
  <2>2. n \in Nat
    BY <1>9
  <2> QED
    BY <2>1, <2>2
<1>4. /\ t \in Seq(X) /\ Len(t) = n - past
      /\ \A i \in 1..(n - past) : t[i] = todo[past + i]
  <2>1. t \in Seq(X) /\ Len(t) = n - past
    BY <1>9, PastItem
  <2>2. \A i \in 1..(n - past) : t[i] = todo[past + i]
    BY <1>9, PastItem
  <2> QED
    BY <2>1, <2>2
<1> DEFINE z == Len(t)
<1>5. z = n - past
  BY <1>4
<1> HIDE DEF n, c, z
<1>6. k + past \in Nat /\ k <= k + past /\ (k + past) + z = c
  BY <1>3, <1>5, <1>9
<1>7. \A i \in 1..z : t[i] = Walk[(k + past) + i]
  <2> SUFFICES ASSUME NEW i \in 1..(n - past) PROVE t[i] = Walk[(k + past) + i]
    BY <1>5
  <2>1. past + i \in 1..n /\ k + (past + i) = (k + past) + i
    BY <1>3, <1>9
  <2>2. t[i] = todo[past + i] /\ todo[past + i] = Walk[k + (past + i)]
    BY <1>2, <1>4, <2>1
  <2> QED
    BY <2>1, <2>2
<1>8. At(S, t, W, k + past, B, m)
  <2> DEFINE h == k + past
  <2>1. h \in Nat /\ k <= h /\ h + z = c /\ Within[h] = Within[k] /\ \A i \in 1..z : t[i] = Walk[h + i]
    BY <1>6, <1>7
  <2> HIDE DEF h
  <2>2. t \in Seq(ToSet(Walk))
    BY <1>4 DEF X
  <2>3. h + Len(t) = Len(Walk) /\ \A i \in 1..Len(t) : t[i] = Walk[h + i]
    BY <2>1 DEF c, z
  <2>5. Left(t, h)
    BY <2>1, <2>2, <2>3 DEF Left
  <2>6. h \in Nat /\ k <= h /\ Within[h] = Within[k]
    BY <2>1
  <2>4. At(S, t, W, h, B, m)
    BY <1>1, <2>5, <2>6, AtSkips
  <2> QED
    BY <2>4 DEF h
<1> QED
  BY <1>8

\* past items of the walk leave the same directories open.
Passes(todo, past) ==
  \A k \in Nat : Left(todo, k) => Within[k + past] = Within[k]

\* A step of a walk that passes over items and writes nothing.
Over(r, q) ==
  /\ r.pc = "walk" /\ q.pc = "walk" /\ InSource(r.todo)
  /\ q.err = r.err /\ q.marks = r.marks /\ q.assigned = r.assigned /\ q.current = r.current
  /\ q.want = r.want /\ q.recorder = r.recorder
  /\ \E past \in 1..Len(r.todo) :
       q.todo = SubSeq(r.todo, past + 1, Len(r.todo)) /\ Passes(r.todo, past)

LEMMA PlacedOver ==
  ASSUME NEW r, NEW q, Placed(r), Over(r, q)
  PROVE  Placed(q)
<1> SUFFICES ASSUME ~q.err, q.marks = {} PROVE
      \E k, B : At(Stream(q), q.todo, q.want, k, B, Len(Stream(q)))
  BY DEF Placed, Over
<1>0. PICK past \in 1..Len(r.todo) :
        q.todo = SubSeq(r.todo, past + 1, Len(r.todo)) /\ Passes(r.todo, past)
  BY DEF Over
<1> DEFINE S == Stream(r)
           todo == r.todo
           W == r.want
           t == q.todo
           m == Len(S)
<1>1. Stream(q) = S
  BY DEF Stream, Over
<1>2. PICK k, B : At(S, todo, W, k, B, m)
  BY DEF Placed, Over
<1>3. InSource(todo) /\ past \in 1..Len(todo)
      /\ t = SubSeq(todo, past + 1, Len(todo)) /\ Passes(todo, past) /\ q.want = W
  BY <1>0 DEF Over
<1> HIDE DEF S, todo, W, t, m
<1>4. Within[k + past] = Within[k]
  BY <1>2, <1>3 DEF At, Left, Passes
<1>5. \E h, C : At(S, t, W, h, C, m)
  BY <1>2, <1>3, <1>4, AtOver
<1> QED
  BY <1>1, <1>3, <1>5 DEF S, t, m

\* A file that is not backed up.
LEMMA SkipOver ==
  ASSUME Shapes, SkipFile
  PROVE  Over(run, run')
<1> DEFINE t == Tail(run.todo)
<1>1. /\ RunTyped(run) /\ run.pc = "walk" /\ run.todo # <<>> /\ Head(run.todo)[1] = "file"
      /\ run' = Further(run)
  BY RunThere DEF SkipFile, Walks
<1>2. /\ run'.pc = "walk" /\ run'.err = run.err /\ run'.marks = run.marks
      /\ run'.assigned = run.assigned /\ run'.current = run.current /\ run'.want = run.want
      /\ run'.todo = t /\ run'.recorder = run.recorder
  <2>1. run' = [run EXCEPT !.todo = t]
    BY <1>1 DEF Further
  <2> HIDE DEF t
  <2> QED
    BY <1>1, <2>1 DEF RunTyped, Writable, RunFields
<1>3. run.todo \in Seq(ToSet(Walk)) /\ 1 \in 1..Len(run.todo) /\ Len(run.todo) \in Nat
      /\ Head(run.todo) = run.todo[1]
  <2>1. run.todo \in Seq(ToSet(Walk))
    BY <1>1 DEF RunTyped, Rest
  <2> QED
    BY <1>1, <2>1
<1>4. t = SubSeq(run.todo, 1 + 1, Len(run.todo))
  <2>1. t = SubSeq(run.todo, 2, Len(run.todo))
    BY DEF Tail
  <2>2. 1 + 1 = 2
    OBVIOUS
  <2> QED
    BY <2>1, <2>2
<1>5. InSource(run.todo)
  <2> DEFINE w == Head(run.todo)
  <2>1. ASSUME w = <<"dir", "">> PROVE FALSE
    <3>2. w[1] = "file"
      BY <1>1
    <3> HIDE DEF w
    <3>1. w[1] = "dir"
      BY <2>1
    <3> QED
      BY <3>1, <3>2
  <2> QED
    BY <1>1, <2>1 DEF InSource
<1>6. ASSUME NEW k \in Nat, k + Len(run.todo) = Len(Walk),
             \A i \in 1..Len(run.todo) : run.todo[i] = Walk[k + i]
      PROVE  Within[k + 1] = Within[k]
  <2>1. k + 1 \in 1..Len(Walk) /\ (k + 1) - 1 = k
    <3> DEFINE n == Len(run.todo)
               c == Len(Walk)
    <3>1. n \in Nat /\ 1 \in 1..n /\ k + n = c
      BY <1>3, <1>6
    <3> HIDE DEF n, c
    <3>2. k + 1 \in 1..c /\ (k + 1) - 1 = k
      BY <3>1
    <3> QED
      BY <3>2 DEF c
  <2>2. Walk[k + 1][1] = "file"
    <3>1. Walk[k + 1] = Head(run.todo)
      BY <1>3, <1>6
    <3> QED
      BY <1>1, <3>1
  <2>3. Within[k + 1] = Below(k + 1, Within[(k + 1) - 1])
    BY <2>1, WithinSteps
  <2>4. Below(k + 1, Within[k]) = Within[k]
    BY <2>2 DEF Below
  <2> QED
    BY <2>1, <2>3, <2>4
<1> HIDE DEF t
<1>7. Passes(run.todo, 1)
  BY <1>6 DEF Passes, Left
<1>8. 1 \in 1..Len(run.todo)
  BY <1>3
<1> QED
  BY <1>1, <1>2, <1>4, <1>5, <1>7, <1>8 DEF Over

\* A directory that cannot be read is passed over with all that is in it.
LEMMA UnreadableOver ==
  ASSUME Shapes, UnreadableDir, ~Fails(run)
  PROVE  Over(run, run')
<1> DEFINE n == Len(run.todo)
           past == CHOOSE i \in DOMAIN run.todo : run.todo[i] = <<"end", Here>>
           t == SubSeq(run.todo, past + 1, n)
<1>1. /\ RunTyped(run) /\ run.pc = "walk" /\ run.todo # <<>> /\ Head(run.todo)[1] = "dir"
      /\ Here # "" /\ Head(run.todo)[2] = Here /\ run' = [run EXCEPT !.todo = t]
  BY UnreadableSteps DEF UnreadableDir, Walks, Here
<1>2. n \in Nat /\ run.todo \in Seq(ToSet(Walk)) /\ DOMAIN run.todo = 1..n /\ n # 0
      /\ Head(run.todo) = run.todo[1]
  <2>1. run.todo \in Seq(ToSet(Walk)) /\ run.todo # <<>>
    BY <1>1 DEF RunTyped, Rest
  <2> DEFINE s == run.todo
             X == ToSet(Walk)
  <2>2. s \in Seq(X) /\ s # <<>>
    BY <2>1
  <2> HIDE DEF X, s
  <2>3. Len(s) \in Nat /\ DOMAIN s = 1..Len(s) /\ Len(s) # 0 /\ Head(s) = s[1]
    BY <2>2
  <2> QED
    BY <2>1, <2>3 DEF s
<1>3. past \in 1..n /\ run.todo[past] = <<"end", Here>>
  <2>1. \E i \in 1..n : run.todo[i] = <<"end", Here>>
    BY <1>1, EndIsAhead DEF RunTyped
  <2> QED
    BY <1>2, <2>1
<1> HIDE DEF past
<1>4. /\ run'.pc = "walk" /\ run'.err = run.err /\ run'.marks = run.marks
      /\ run'.assigned = run.assigned /\ run'.current = run.current /\ run'.want = run.want
      /\ run'.todo = t /\ run'.recorder = run.recorder
  <2> HIDE DEF t
  <2> QED
    BY <1>1 DEF RunTyped, Writable, RunFields
<1>5. InSource(run.todo)
  <2> DEFINE w == Head(run.todo)
  <2>1. ASSUME w = <<"dir", "">> PROVE FALSE
    <3>2. w[2] # ""
      BY <1>1
    <3> HIDE DEF w
    <3>1. w[2] = ""
      BY <2>1
    <3> QED
      BY <3>1, <3>2
  <2> QED
    BY <1>1, <2>1 DEF InSource
<1>6. past # 1
  <2>1. ASSUME past = 1 PROVE FALSE
    <3>1. Head(run.todo) = <<"end", Here>>
      BY <1>2, <1>3, <2>1
    <3>2. Head(run.todo)[1] = "end"
      BY <3>1
    <3> QED
      BY <1>1, <3>2
  <2> QED
    BY <2>1
<1>7. ASSUME NEW k \in Nat, k + n = Len(Walk), \A i \in 1..n : run.todo[i] = Walk[k + i]
      PROVE  Within[k + past] = Within[k]
  <2> DEFINE i == k + 1
             j == k + past
  <2>1. i \in DOMAIN Walk /\ j \in DOMAIN Walk /\ i < j /\ i - 1 = k
    <3> DEFINE c == Len(Walk)
    <3>1. DOMAIN Walk = 1..c /\ c \in Nat /\ k + n = c
      BY <1>7, WalkItems
    <3> HIDE DEF n, c
    <3>2. i \in 1..c /\ j \in 1..c /\ i < j /\ i - 1 = k
      BY <1>2, <1>3, <1>6, <3>1
    <3> QED
      BY <3>1, <3>2
  <2>2. Walk[i] = Head(run.todo) /\ Walk[j] = <<"end", Here>>
    <3>1. 1 \in 1..n
      BY <1>2
    <3> QED
      BY <1>2, <1>3, <1>7, <3>1
  <2>3. Walk[i][1] = "dir" /\ Walk[j] = <<"end", Walk[i][2]>>
    BY <1>1, <2>2
  <2>4. \A x, y \in DOMAIN Walk :
          x < y /\ Walk[x][1] = "dir" /\ Walk[y] = <<"end", Walk[x][2]>> => Within[y] = Within[x - 1]
    BY PbsBackupAssumption
  <2> HIDE DEF i, j
  <2>5. Within[j] = Within[k]
    BY <2>1, <2>3, <2>4
  <2> QED
    BY <2>5 DEF j
<1> HIDE DEF t
<1>8. run'.todo = SubSeq(run.todo, past + 1, Len(run.todo))
  BY <1>4 DEF t
<1>9. past \in 1..Len(run.todo)
  BY <1>3
<1>10. Passes(run.todo, past)
  BY <1>7 DEF Passes, Left
<1> HIDE DEF n
<1> QED
  BY <1>1, <1>4, <1>5, <1>8, <1>9, <1>10 DEF Over

LEMMA WalkHead ==
  ASSUME RunTyped(run), run.todo # <<>>
  PROVE  Head(run.todo) = <<Head(run.todo)[1], Head(run.todo)[2]>>
<1>1. Rest(run.todo)
  BY DEF RunTyped
<1>2. PICK i \in DOMAIN Walk : Head(run.todo) = Walk[i]
  BY <1>1, RestTail
<1>3. i \in 1..Len(Walk)
  BY WalkIsList
<1>4. Walk[i] = <<Walk[i][1], Walk[i][2]>>
  BY <1>3, WalkItems
<1> QED
  BY <1>2, <1>4

LEMMA PlacedOpen ==
  ASSUME Shapes, Watched, Dated(disk, events), Spells(run, disk, events), Placed(run), OpenFile
  PROVE  Placed(run')
<1> DEFINE n == disk[Here].size
           st == [run.stats EXCEPT ![Here] = disk[Here]]
           r == [run EXCEPT !.begin = run.written, !.file = Here, !.stat = disk[Here],
                            !.stats = st, !.read = 0, !.pc = "read"]
           units == FileHeader(Here, n)
<1>1. /\ RunTyped(run) /\ run.pc = "walk" /\ Here \in Files /\ n \in Nat
      /\ run.todo # <<>> /\ Head(run.todo)[1] = "file" /\ Head(run.todo)[2] = Here
  BY RunThere, HereIsFile DEF OpenFile, Walks, Watched, Here
<1>2. run' = Emit(r, units)
  BY <1>1 DEF OpenFile, RunTyped, Writable, RunFields
<1>3. units \in Seq(Units) /\ Len(units) = 3
  BY <1>1, FilesAreNames, HeaderUnits
<1> HIDE DEF st, units, n
<1>4. /\ Writable(r) /\ r.pc = "read" /\ r.marks = run.marks /\ r.err = run.err
      /\ r.assigned = run.assigned /\ r.current = run.current /\ r.written = run.written
      /\ r.begin = run.written /\ r.file = Here /\ r.todo = run.todo /\ r.want = run.want
  BY <1>1 DEF RunTyped, Writable, RunFields
<1> HIDE DEF r
<1>5. Wrote(r, run', {})
  BY <1>2, <1>4, EmitWrites
<1>6. /\ run'.pc = "read" /\ run'.marks = run.marks /\ run'.file = Here
      /\ run'.begin = run.written /\ run'.todo = run.todo /\ run'.want = run.want
      /\ (run.err => run'.err)
  BY <1>4, <1>5 DEF Wrote, Kept
<1>7. ASSUME ~run'.err, run'.marks = {}
      PROVE  \E k, B : At(Stream(run'), run.todo, run.want, k, B, run.written)
  <2>1. /\ Clear(run) /\ run.written = Len(Stream(run))
        /\ \E k, B : At(Stream(run), run.todo, run.want, k, B, run.written)
    BY <1>1, <1>6, <1>7 DEF Spells, Placed
  <2>2. Clear(r) /\ Stream(r) = Stream(run) /\ r.written = Len(Stream(r))
    BY <1>4, <2>1 DEF Clear, Stream
  <2>3. \A i \in 1..Len(Stream(r)) : Stream(run')[i] = Stream(r)[i]
    <3>1. Len(units) \in 1..3
      BY <1>3
    <3> QED
      BY <1>2, <1>3, <1>7, <2>2, <3>1, EmitExtends
  <2>4. PICK k, B : At(Stream(run), run.todo, run.want, k, B, run.written)
    BY <2>1
  <2> DEFINE T == Stream(run')
             S == Stream(run)
             m == run.written
  <2>5. \A i \in 1..m : T[i] = S[i]
    BY <1>4, <2>2, <2>3
  <2> HIDE DEF T, S, m
  <2>6. At(S, run.todo, run.want, k, B, m)
    BY <2>4 DEF S, m
  <2>7. At(T, run.todo, run.want, k, B, m)
    BY <2>5, <2>6, AtStays
  <2> QED
    BY <2>7 DEF T, m
<1>8. Head(run.todo) = <<"file", Here>>
  BY <1>1, WalkHead
<1> QED
  BY <1>1, <1>6, <1>7, <1>8 DEF Placed

\* A unit of a file.
LEMMA ReadsUnit ==
  ASSUME Watched, Dated(disk, events), NEW n, Entry(run, disk, n), ReadFile
  PROVE  Body(run.file)[run.read + 1] \in Units
<1> DEFINE v == disk[run.file].ver
<1>1. run.file \in Files /\ run.read \in Nat /\ disk[run.file].size \in Nat
      /\ run.read < disk[run.file].size
  BY DEF Entry, Watched, ReadFile
<1>2. Body(run.file)[run.read + 1] = Data(run.file, v)
  BY <1>1 DEF Body
<1>3. disk[run.file] = NoFile \/ disk[run.file].ver \in 1..(events + 1)
  BY <1>1 DEF Dated
<1>4. v \in Int
  BY <1>3 DEF NoFile
<1> QED
  BY <1>1, <1>2, <1>4, FilesAreNames, UnitsAre

LEMMA PlacedRead ==
  ASSUME Shapes, Watched, Dated(disk, events), Spells(run, disk, events), Placed(run), ReadFile
  PROVE  Placed(run')
<1> DEFINE u == Body(run.file)[run.read + 1]
           us == <<u>>
           e == Emit(run, us)
<1>1. RunTyped(run) /\ run.pc = "read"
  BY RunThere DEF ReadFile
<1>2. run' = [e EXCEPT !.read = @ + 1]
  BY DEF ReadFile
<1>3. Wrote(run, e, {}) /\ Writable(e)
  BY <1>1, EmitWrites DEF RunTyped, Wrote, Writable
<1> HIDE DEF e
<1>4. /\ run'.pc = "read" /\ run'.marks = run.marks /\ run'.file = run.file /\ run'.err = e.err
      /\ run'.begin = run.begin /\ run'.todo = run.todo /\ run'.want = run.want
      /\ run'.assigned = e.assigned /\ run'.current = e.current /\ (run.err => e.err)
  BY <1>1, <1>2, <1>3 DEF Wrote, Kept, Writable, RunFields
<1>5. ASSUME ~e.err, run.marks = {}
      PROVE  /\ run.todo # <<>> /\ Head(run.todo) = <<"file", run.file>>
             /\ \E k, B : At(Stream(run'), run.todo, run.want, k, B, run.begin)
  <2>1. /\ Clear(run) /\ run.written = Len(Stream(run)) /\ Entry(run, disk, events)
        /\ run.todo # <<>> /\ Head(run.todo) = <<"file", run.file>>
        /\ \E k, B : At(Stream(run), run.todo, run.want, k, B, run.begin)
    BY <1>1, <1>4, <1>5 DEF Spells, Placed
  <2>2. us \in Seq(Units) /\ Len(us) = 1
    <3>1. u \in Units
      BY <2>1, ReadsUnit
    <3> QED
      BY <3>1, FewInSeq
  <2>3. \A i \in 1..Len(Stream(run)) : Stream(e)[i] = Stream(run)[i]
    <3> HIDE DEF us
    <3> QED
      BY <1>5, <2>1, <2>2, EmitsOne DEF e
  <2>4. Stream(run') = Stream(e)
    BY <1>4 DEF Stream
  <2>5. PICK k, B : At(Stream(run), run.todo, run.want, k, B, run.begin)
    BY <2>1
  <2> DEFINE T == Stream(run')
             S == Stream(run)
             m == run.begin
  <2>6. m \in Nat /\ Len(S) \in Nat /\ m <= Len(S)
    <3>1. run.read \in Nat /\ m \in Nat /\ Len(S) = m + 3 + run.read
      BY <2>1 DEF Entry
    <3> DEFINE z == Len(S)
               y == run.read
    <3> HIDE DEF z, y, m
    <3>2. z \in Nat /\ m <= z
      BY <3>1 DEF z, y
    <3> QED
      BY <3>1, <3>2 DEF z
  <2>7. \A i \in 1..Len(S) : T[i] = S[i]
    BY <2>3, <2>4
  <2> HIDE DEF T, S, m
  <2>8. \A i \in 1..m : T[i] = S[i]
    BY <2>6, <2>7
  <2>9. At(S, run.todo, run.want, k, B, m)
    BY <2>5 DEF S, m
  <2>10. At(T, run.todo, run.want, k, B, m)
    BY <2>8, <2>9, AtStays
  <2> QED
    BY <2>1, <2>10 DEF T, m
<1> QED
  BY <1>4, <1>5 DEF Placed

\* A path that the walk has not met is not wanted yet.
LEMMA NewPath ==
  ASSUME NEW S, NEW todo, NEW W, NEW k, NEW B, NEW m, At(S, todo, W, k, B, m),
         k + 1 \in 1..Len(Walk), NEW f, Walk[k + 1] = <<"file", f>>,
         NEW path, Last(path) = f
  PROVE  path \notin DOMAIN W
<1> SUFFICES ASSUME path \in DOMAIN W PROVE FALSE
  OBVIOUS
<1>1. k \in Nat /\ Len(Walk) \in Nat
  BY WalkItems DEF At, Left
<1>2. PICK i \in 1..k : Walk[i] = <<"file", f>>
  BY DEF At
<1>3. i \in 1..Len(Walk) /\ i # k + 1
  <2> DEFINE c == Len(Walk)
  <2>1. c \in Nat /\ k + 1 \in 1..c
    BY <1>1
  <2> HIDE DEF c
  <2>2. i \in 1..c /\ i # k + 1
    BY <1>1, <2>1
  <2> QED
    BY <2>2 DEF c
<1>4. \A x, y \in 1..Len(Walk) : Walk[x] = Walk[y] /\ Walk[x][1] # "end" => x = y
  BY WalkItems
<1>5. Walk[i][1] # "end" /\ Walk[i] = Walk[k + 1]
  BY <1>2
<1> QED
  BY <1>3, <1>4, <1>5

\* The next item is the file f.
NextFile(todo, f) == todo # <<>> /\ Head(todo) = <<"file", f>>

\* The entry of f with the data d.
HoldsFile(S, a, f, d) ==
  /\ S[a + 1] = Named(f) /\ S[a + 2] = FileEntry /\ S[a + 3] = Payload(Len(d))
  /\ Lays(S, a + 3, d)

\* The file that was read is the next entry.
LEMMA FileLaid ==
  ASSUME NEW S, NEW todo, NEW W, NEW k, NEW B, NEW a, At(S, todo, W, k, B, a), NEW f, NextFile(todo, f),
         NEW d, HoldsFile(S, a, f, d),
         NEW V, V = Put(W, PathOf(f), d), NEW e, e = a + 3 + Len(d)
  PROVE  \E h, C : At(S, Tail(todo), V, h, C, e)
<1> DEFINE path == PathOf(f)
           n == Len(d)
<1>1. k \in Nat /\ k + 1 \in 1..Len(Walk) /\ Walk[k + 1] = <<"file", f>>
  <2>1. k \in Nat /\ k + 1 \in 1..Len(Walk) /\ Head(todo) = Walk[k + 1]
    BY AtHead DEF NextFile
  <2> QED
    BY <2>1 DEF NextFile
<1>2. /\ path = Append(Within[k], f) /\ Within[k + 1] = Within[k]
      /\ Last(path) = f /\ f \in Names
  BY <1>1, PathOfFile
<1>3. path \notin DOMAIN W
  BY <1>1, <1>2, NewPath
<1>4. a \in Nat /\ n \in Nat
  BY DEF At, Laid, HoldsFile, Lays
<1>5. a # 0
  <2>1. IF Head(todo) = <<"dir", "">> THEN k = 0 /\ a = 0 ELSE k # 0 /\ a # 0
    BY AtSource DEF NextFile
  <2>2. <<"file", f>> # <<"dir", "">>
    OBVIOUS
  <2> QED
    BY <2>1, <2>2 DEF NextFile
<1> HIDE DEF path
<1>6. /\ DOMAIN V = DOMAIN W \cup {path} /\ V[path] = d
      /\ \A x \in DOMAIN W : V[x] = W[x]
  <2>1. V = [z \in DOMAIN W \cup {path} |-> IF z = path THEN d ELSE W[z]]
    BY DEF Put, path
  <2> QED
    BY <1>3, <2>1
<1>7. More(W, V)
  BY <1>6 DEF More
<1>8. \A x \in DOMAIN V : x \in DOMAIN W \/ Walk[k + 1] = <<"file", Last(x)>>
  BY <1>1, <1>2, <1>6
<1>9. FileAt(S, V, a, path, f, e)
  BY <1>6 DEF FileAt, HoldsFile
<1>10. Piece(S, V, a, Within[k], e, Within[k + 1])
  BY <1>2, <1>5, <1>9 DEF Piece
<1>11. e \in Nat /\ a < e
  <2> HIDE DEF n
  <2>1. e = a + 3 + n
    BY DEF n
  <2> QED
    BY <1>4, <2>1
<1>12. \A i \in 1..a : S[i] = S[i]
  OBVIOUS
<1> QED
  BY <1>7, <1>8, <1>10, <1>11, <1>12, AtNext DEF NextFile

\* What was read of a file, when it is closed and nothing was amiss.
ReadWhole(r, q, k, B, d) ==
  /\ At(Stream(r), r.todo, r.want, k, B, r.begin) /\ NextFile(r.todo, r.file)
  /\ HoldsFile(Stream(r), r.begin, r.file, d) /\ Len(d) = r.stat.size
  /\ Len(Stream(r)) = r.begin + 3 + Len(d) /\ Stream(q) = Stream(r)
  /\ q.todo = Tail(r.todo) /\ q.want = Put(r.want, PathOf(r.file), d)

LEMMA ClosedWhole ==
  ASSUME RunTyped(run), NEW n, Spells(run, disk, n), Placed(run), run.pc = "read",
         NEW q, q = Closed(run)
  PROVE  /\ q.pc = "walk" /\ q.err = run.err /\ q.recorder = run.recorder
         /\ ~q.err /\ q.marks = {} =>
              run.marks = {} /\ \E k, B, d : ReadWhole(run, q, k, B, d)
<1> DEFINE r == RecordFile(run)
           p == [ver |-> run.stat.ver, size |-> run.stat.size,
                 spans |-> Spans(run.assigned, run.begin, run.written),
                 len |-> run.written - run.begin]
           l == [run.live EXCEPT ![run.file] = p]
           d == [i \in 1..run.read |-> Data(run.file, run.stat.ver)]
           w == Put(r.want, PathOf(run.file), d)
           m == r.marks \cup (IF run.read < run.stat.size THEN {"short"} ELSE {})
                        \cup (IF run.read > run.stat.size THEN {"grown"} ELSE {})
                        \cup (IF disk[run.file].ver # run.stat.ver THEN {"changed"} ELSE {})
           t == Tail(r.todo)
           s == [r EXCEPT !.todo = t, !.pc = "walk", !.file = "", !.want = w, !.marks = m]
<1>1. r = run \/ r = [run EXCEPT !.live = l]
  BY DEF RecordFile, RunTyped, Writable, RunFields
<1> HIDE DEF r, p
<1>2. /\ DOMAIN r = RunFields /\ r.marks = run.marks /\ r.err = run.err
      /\ r.assigned = run.assigned /\ r.current = run.current /\ r.todo = run.todo
      /\ r.file = run.file /\ r.read = run.read /\ r.stat = run.stat /\ r.want = run.want
      /\ r.recorder = run.recorder
  <2> HIDE DEF l
  <2> QED
    BY <1>1 DEF RunTyped, Writable, RunFields
<1>3. Closed(run) = s
  BY <1>2 DEF Closed, Further, r, RunFields
<1>4. m = {} => /\ run.marks = {} /\ ~(run.read < run.stat.size) /\ ~(run.read > run.stat.size)
                /\ disk[run.file].ver = run.stat.ver
  BY <1>2
<1> HIDE DEF w, m, t, l, d
<1>5. /\ s.pc = "walk" /\ s.marks = m /\ s.err = run.err /\ s.assigned = run.assigned
      /\ s.current = run.current /\ s.todo = t /\ s.want = w /\ s.recorder = run.recorder
  BY <1>2 DEF RunFields
<1> HIDE DEF s
<1>6. ASSUME ~run.err, m = {}
      PROVE  \E k, B, c : ReadWhole(run, s, k, B, c)
  <2> DEFINE S == Stream(run)
             a == run.begin
             f == run.file
             v == run.stat.ver
             todo == run.todo
             W == run.want
             z == run.read
  <2>1. /\ Entry(run, disk, n) /\ todo # <<>> /\ Head(todo) = <<"file", f>>
        /\ \E k, B : At(S, todo, W, k, B, a)
    BY <1>4, <1>6 DEF Spells, Placed
  <2>2. /\ f \in Files /\ z \in Nat /\ a \in Nat /\ run.stat.size \in Nat /\ v \in Int
        /\ Len(S) = a + 3 + z
        /\ S[a + 1] = Named(f) /\ S[a + 2] = FileEntry /\ S[a + 3] = Payload(run.stat.size)
        /\ \A i \in 1..z : S[a + 3 + i] = Data(f, v)
    BY <1>4, <1>6, <2>1 DEF Entry
  <2>3. z = run.stat.size
    BY <1>4, <1>6, <2>2
  <2>4. Stream(s) = S /\ s.todo = Tail(todo) /\ s.want = Put(W, PathOf(f), d)
    BY <1>2, <1>5 DEF Stream, t, w
  <2>5. d = [i \in 1..z |-> Data(f, v)]
    BY DEF d
  <2>6. Data(f, v) \in Units
    BY <2>2, FilesAreNames, UnitsAre
  <2> HIDE DEF S, a, f, v, todo, W, z
  <2> DEFINE u == Data(f, v)
  <2>7. d \in Seq(Units) /\ Len(d) = z /\ \A i \in 1..Len(d) : d[i] = u
    <3>1. u \in Units /\ d = [i \in 1..z |-> u] /\ z \in Nat
      BY <2>2, <2>5, <2>6
    <3> HIDE DEF u
    <3> QED
      BY <3>1
  <2>8. PICK k, B : At(S, todo, W, k, B, a)
    BY <2>1
  <2> DEFINE V == Put(W, PathOf(f), d)
             e == a + 3 + Len(d)
  <2>9. /\ S[a + 3] = Payload(Len(d)) /\ e = Len(S)
        /\ \A i \in 1..Len(d) : S[a + 3 + i] = d[i]
    BY <2>2, <2>3, <2>7
  <2>11. NextFile(todo, f) /\ HoldsFile(S, a, f, d)
    BY <2>1, <2>2, <2>6, <2>7, <2>9 DEF NextFile, HoldsFile, Lays
  <2> HIDE DEF u
  <2>10. ReadWhole(run, s, k, B, d)
    BY <2>3, <2>4, <2>7, <2>8, <2>9, <2>11 DEF ReadWhole, S, a, f, todo, W, z
  <2> QED
    BY <2>10
<1> QED
  BY <1>3, <1>4, <1>5, <1>6

LEMMA PlacedClosed ==
  ASSUME RunTyped(run), NEW n, Spells(run, disk, n), Placed(run), run.pc = "read"
  PROVE  Placed(Closed(run))
<1> DEFINE q == Closed(run)
<1>1. q.pc = "walk"
  BY ClosedWhole
<1>2. ASSUME ~q.err, q.marks = {}
      PROVE  \E k, B : At(Stream(q), q.todo, q.want, k, B, Len(Stream(q)))
  <2>1. PICK k, B, d : ReadWhole(run, q, k, B, d)
    BY <1>2, ClosedWhole
  <2> HIDE DEF q
  <2>2. \E h, C : At(Stream(run), Tail(run.todo), q.want, h, C, Len(Stream(run)))
    BY <2>1, FileLaid DEF ReadWhole
  <2> QED
    BY <2>1, <2>2 DEF ReadWhole
<1> QED
  BY <1>1, <1>2 DEF Placed

LEMMA PlacedAlike ==
  ASSUME NEW r, NEW q, Placed(r), Twin(r, q), q.todo = r.todo, q.want = r.want
  PROVE  Placed(q)
<1>1. Stream(q) = Stream(r)
  BY DEF Stream, Twin
<1>2. /\ q.pc = r.pc /\ q.err = r.err /\ q.marks = r.marks /\ q.assigned = r.assigned
      /\ q.begin = r.begin /\ q.file = r.file
  BY DEF Twin
<1> QED
  BY <1>1, <1>2 DEF Placed

\* After the last chunk all of the stream is in chunks.
LEMMA Flushed ==
  ASSUME RunTyped(run), Clear(run), NEW r, r = FlushPending(run), ~r.err
  PROVE  Stream(run) = FlattenSeq(r.assigned) /\ r.assigned \in Seq(Seq(Units))
<1>1. Clear(r) /\ Stream(r) = Stream(run)
  BY FlushSpells
<1>2. r.current = <<>>
  <2>1. CASE run.current = <<>>
    BY <2>1 DEF FlushPending
  <2>2. CASE run.current # <<>>
    <3> DEFINE c == CommitChunk(run, run.current)
    <3>1. r = [c EXCEPT !.current = <<>>]
      BY <2>2 DEF FlushPending
    <3>2. DOMAIN c = RunFields
      BY CommitWrites DEF RunTyped, Wrote
    <3> HIDE DEF c
    <3> QED
      BY <3>1, <3>2 DEF RunFields
  <2> QED
    BY <2>1, <2>2
<1> DEFINE F == FlattenSeq(r.assigned)
<1>3. F \in Seq(Units) /\ r.assigned \in Seq(Seq(Units))
  BY <1>1, StreamIs DEF Clear
<1>4. Stream(r) = F \o <<>>
  BY <1>2 DEF Stream
<1> HIDE DEF F
<1>5. F \o <<>> = F
  BY <1>3
<1> QED
  BY <1>1, <1>3, <1>4, <1>5 DEF F

LEMMA PlacedFlush ==
  ASSUME Shapes, NEW D, NEW n, Spells(run, D, n), Placed(run), Flush
  PROVE  Placed(run')
<1> DEFINE r == FlushPending(run)
<1>1. RunTyped(run) /\ run.pc = "walk" /\ ~run.err
  BY RunThere DEF Flush
<1>2. run' = [r EXCEPT !.pc = "drain"]
  BY DEF Flush
<1>3. Wrote(run, r, {})
  BY <1>1, FlushWrites DEF RunTyped
<1> HIDE DEF r
<1>4. /\ run'.pc = "drain" /\ run'.err = r.err /\ run'.marks = run.marks
      /\ run'.assigned = r.assigned /\ run'.want = run.want
  BY <1>2, <1>3 DEF Wrote, Kept, RunFields
<1>5. ASSUME ~r.err, run.marks = {}
      PROVE  /\ r.assigned \in Seq(Seq(Units))
             /\ \E B : Laid(FlattenSeq(r.assigned), B, run.want, Len(FlattenSeq(r.assigned)))
  <2>1. Clear(run) /\ \E k, B : At(Stream(run), run.todo, run.want, k, B, Len(Stream(run)))
    BY <1>1, <1>5 DEF Spells, Placed
  <2>2. Stream(run) = FlattenSeq(r.assigned) /\ r.assigned \in Seq(Seq(Units))
    BY <1>1, <1>5, <2>1, Flushed DEF r
  <2>5. PICK k, B : At(Stream(run), run.todo, run.want, k, B, Len(Stream(run)))
    BY <2>1
  <2>6. Laid(Stream(run), B, run.want, Len(Stream(run)))
    BY <2>5 DEF At
  <2> QED
    BY <2>2, <2>6
<1> QED
  BY <1>4, <1>5 DEF Placed

\* A run that begins has all of the walk to do.
LEMMA LeftBegins == Left(Walk, 0)
<1>1. Walk \in Seq(ToSet(Walk))
  <2> DEFINE U == {"dir", "file", "end"} \X STRING
  <2>1. Walk \in Seq(U)
    BY PbsBackupAssumption
  <2> HIDE DEF U
  <2>2. Len(Walk) \in Nat /\ Walk = [i \in 1..Len(Walk) |-> Walk[i]]
    BY <2>1
  <2> QED
    BY <2>2, ListIntro DEF IsList
<1>2. 0 \in Nat /\ 0 + Len(Walk) = Len(Walk) /\ \A i \in 1..Len(Walk) : 0 + i = i
  BY WalkIsList
<1> QED
  BY <1>1, <1>2 DEF Left

LEMMA PlacedBegin ==
  ASSUME NEW full, run' = NewRun(full)
  PROVE  Placed(run')
<1>1. /\ run'.pc = "walk" /\ run'.todo = Walk /\ run'.assigned = <<>> /\ run'.current = <<>>
      /\ run'.want = NoFunction
  BY DEF NewRun
<1>2. Stream(run') = <<>>
  <2>1. FlattenSeq(<<>>) = <<>>
    BY DEF FlattenSeq
  <2>2. <<>> \o <<>> = <<>>
    OBVIOUS
  <2> QED
    BY <1>1, <2>1, <2>2 DEF Stream
<1> DEFINE B == [o \in {0} |-> <<>>]
           S == Stream(run')
           W == NoFunction
<1>3. Laid(S, B, W, 0)
  <2>1. DOMAIN B = {0} /\ B[0] = <<>> /\ <<>> \in Seq(Names)
    OBVIOUS
  <2> HIDE DEF B, S, W
  <2> QED
    BY <2>1 DEF Laid
<1>4. Left(Walk, 0)
  BY LeftBegins
<1>5. DOMAIN W = {} /\ B[0] = <<>>
  BY DEF NoFunction
<1> HIDE DEF B, W
<1>6. Within[0] = <<>>
  BY WithinSteps
<1>7. At(S, Walk, W, 0, B, 0)
  BY <1>3, <1>4, <1>5, <1>6 DEF At
<1>8. Len(S) = 0
  BY <1>2
<1> QED
  BY <1>1, <1>7, <1>8 DEF Placed, W

\* A run that goes on without writing, or fails.
LEMMA PlacedRelabelled ==
  ASSUME Shapes, Placed(run), Relabelling
  PROVE  Placed(run')
<1>1. RunTyped(run) /\ DOMAIN run = RunFields /\ Relabelled(run, run')
      /\ (run'.pc # "failed" => run'.err = run.err)
  BY RelabelSteps DEF RunTyped, Writable
<1>3. CASE Fails(run)
  BY <1>1, <1>3, FailsRelabels DEF Placed
<1>4. CASE UploadEnds
  <2>1. PICK c \in run.flying :
          \/ run' = [run EXCEPT !.flying = @ \ {c}]
          \/ run' = [run EXCEPT !.flying = @ \ {c}, !.failed = TRUE]
    BY <1>4 DEF UploadEnds
  <2>2. Twin(run, run') /\ run'.todo = run.todo /\ run'.want = run.want
    BY <1>1, <2>1 DEF Twin, RunFields
  <2> QED
    BY <2>2, PlacedAlike
<1>5. CASE Cancel
  <2>1. Twin(run, run') /\ run'.todo = run.todo /\ run'.want = run.want
    BY <1>1, <1>5 DEF Cancel, Twin, RunFields
  <2> QED
    BY <2>1, PlacedAlike
<1>6. CASE ~Fails(run) /\ (Assign \/ Finish \/ Save \/ Verify \/ Done)
  <2>1. \/ run.pc = "drain" /\ run' = [run EXCEPT !.pc = "finish"]
        \/ run.pc = "finish" /\ run' = [run EXCEPT !.pc = "save"]
        \/ run' = [run EXCEPT !.pc = "verify", !.ticking = FALSE]
        \/ run' = [run EXCEPT !.pc = "known"]
        \/ run' = [run EXCEPT !.pc = "done"]
    BY <1>6 DEF Assign, Finish, Save, Verify, Done
  <2>2. \/ run.pc \in {"drain", "finish"} /\ run'.pc \in {"finish", "save"}
           /\ run'.want = run.want /\ run'.assigned = run.assigned /\ run'.marks = run.marks
           /\ run'.err = run.err
        \/ run'.pc \in {"verify", "known", "done"}
    BY <1>1, <2>1 DEF RunFields
  <2> QED
    BY <2>2 DEF Placed
<1> QED
  BY <1>3, <1>4, <1>5, <1>6 DEF Relabelling, AbortScan

LEMMA PlacedRun ==
  ASSUME Shapes, Watched, Faithful, Arranged, [Next]_vars, run' # Idle
  PROVE  Placed(run')
<1>1. run # Idle => Spells(run, disk, events) /\ Placed(run) /\ Dated(disk, events)
  BY DEF Faithful, Arranged
<1>2. CASE UnreadableDir
  <2>1. run # Idle
    BY <1>2, UnreadableSteps, NotIdle DEF RunTyped, Writable
  <2>2. CASE Fails(run)
    BY <1>1, <1>2, <2>1, <2>2, PlacedRelabelled DEF Relabelling
  <2> QED
    BY <1>1, <1>2, <2>1, <2>2, UnreadableOver, PlacedOver
<1>3. CASE Flush
  <2>1. run # Idle
    BY <1>3, RunThere DEF Flush
  <2> QED
    BY <1>1, <1>3, <2>1, PlacedFlush
<1>4. CASE Begin
  <2>1. PICK full \in BOOLEAN : run' = NewRun(full)
    BY <1>4 DEF Begin
  <2> QED
    BY <2>1, PlacedBegin
<1>5. CASE Tick \/ ChangeFile \/ RemoveFile \/ Prune \/ UNCHANGED vars
  <2>1. run' = run
    BY <1>5 DEF Tick, ChangeFile, RemoveFile, Prune, vars
  <2> QED
    BY <1>1, <2>1
<1>6. CASE Return \/ Crash
  BY <1>6 DEF Return, Crash
<1>7. CASE Scanning
  <2>1. RunTyped(run) /\ run # Idle
    BY <1>7, ScanSteps
  <2>2. Spells(run, disk, events) /\ Placed(run) /\ Dated(disk, events)
    BY <1>1, <2>1
  <2>3. CASE EnterDir
    BY <2>2, <2>3, PlacedEnter
  <2>4. CASE LeaveDir
    BY <2>2, <2>4, PlacedLeave
  <2>5. CASE SkipFile
    BY <2>2, <2>5, SkipOver, PlacedOver
  <2>6. CASE ReuseFile
    BY <2>6, ReuseMarks DEF Placed
  <2>7. CASE OpenFile
    BY <2>2, <2>7, PlacedOpen
  <2>8. CASE ReadFile
    BY <2>2, <2>8, PlacedRead
  <2>9. CASE EndFile \/ ReadFails
    <3>1. run' = Closed(run) /\ run.pc = "read"
      BY <2>9 DEF EndFile, ReadFails
    <3> QED
      BY <2>1, <2>2, <3>1, PlacedClosed
  <2> QED
    BY <1>7, <2>3, <2>4, <2>5, <2>6, <2>7, <2>8, <2>9 DEF Scanning
<1>8. CASE Relabelling
  <2>1. run # Idle
    BY <1>8, RelabelSteps
  <2> QED
    BY <1>1, <1>8, <2>1, PlacedRelabelled
<1> QED
  BY <1>2, <1>3, <1>4, <1>5, <1>6, <1>7, <1>8 DEF Next, Scanning, Relabelling

-----------------------------------------------------------------------------
(* The recorder of a run, and what it enters into its index.                  *)

\* The recorder p has passed n units, and the same directories are open in it as in the walk.
Tracks(p, todo, n) ==
  /\ p.off = n /\ IsList(p.stack)
  /\ \A k : Left(todo, k) => CurrentPath(p) = Within[k]

\* The index has all that is wanted, where it lies in the stream.
Places(index, S, W) == Notes(index, S, W, 0..Len(S)) /\ DOMAIN index = DOMAIN W

\* While a file is read its place is in the index already.
Traced(r) ==
  ~r.err /\ r.marks = {} =>
    /\ r.pc = "walk" => /\ Tracks(r.recorder, r.todo, Len(Stream(r)))
                        /\ Places(r.recorder.index, Stream(r), r.want)
    /\ r.pc = "read" =>
         /\ Tracks(r.recorder, r.todo, Len(Stream(r)))
         /\ \E index : /\ Places(index, Stream(r), r.want)
                       /\ r.recorder.index
                            = Put(index, PathOf(r.file), [at |-> r.begin + 2, size |-> r.stat.size])
    /\ r.pc \in {"drain", "finish", "save"} =>
         Places(r.recorder.index, FlattenSeq(r.assigned), r.want)

\* More of the stream, and more that is wanted.
LEMMA NotesStay ==
  ASSUME NEW index, NEW S, NEW T, NEW W, NEW V, NEW m \in Nat, NEW e \in Nat, m <= e,
         Notes(index, S, W, 0..m), \A i \in 1..m : T[i] = S[i], More(W, V)
  PROVE  Notes(index, T, V, 0..e)
<1>1. DOMAIN index \subseteq DOMAIN V /\ IsFiniteSet(DOMAIN index)
  BY DEF Notes, More
<1>2. ASSUME NEW path \in DOMAIN index
      PROVE  \E a \in Nat :
               /\ index[path] = [at |-> a, size |-> Len(V[path])]
               /\ T[a + 1] = Payload(Len(V[path])) /\ Lays(T, a + 1, V[path])
               /\ a + 1 + Len(V[path]) \in 0..e
  <2> DEFINE w == W[path]
             n == Len(w)
  <2>1. PICK a \in Nat :
          /\ index[path] = [at |-> a, size |-> n] /\ S[a + 1] = Payload(n) /\ Lays(S, a + 1, w)
          /\ a + 1 + n \in 0..m
    BY DEF Notes
  <2>2. V[path] = w
    BY DEF Notes, More
  <2>3. w \in Seq(Units) /\ n \in Nat /\ \A i \in 1..n : S[(a + 1) + i] = w[i]
    BY <2>1 DEF Lays
  <2>9. n = Len(w)
    OBVIOUS
  <2> HIDE DEF n, w
  <2>4. a + 1 \in 1..m /\ a + 1 + n \in 0..e /\ \A i \in 1..n : (a + 1) + i \in 1..m
    BY <2>1, <2>3
  <2>5. T[a + 1] = Payload(n) /\ \A i \in 1..n : T[(a + 1) + i] = w[i]
    BY <2>1, <2>3, <2>4
  <2>6. Lays(T, a + 1, w)
    BY <2>3, <2>5, <2>9 DEF Lays
  <2> QED
    BY <2>1, <2>2, <2>4, <2>5, <2>6, <2>9
<1> QED
  BY <1>1, <1>2 DEF Notes

LEMMA PlacesStay ==
  ASSUME NEW index, NEW S, NEW T, NEW W, Places(index, S, W), Len(S) \in Nat, Len(T) \in Nat,
         Len(S) <= Len(T), \A i \in 1..Len(S) : T[i] = S[i]
  PROVE  Places(index, T, W)
<1>1. More(W, W)
  BY SameMore
<1>2. Notes(index, T, W, 0..Len(T))
  BY <1>1, NotesStay DEF Places
<1> QED
  BY <1>2 DEF Places

\* What is left of a walk says how many of its items are done.
LEMMA LeftTail ==
  ASSUME NEW todo, NEW k, Left(todo, k), todo # <<>>, NEW h, Left(Tail(todo), h)
  PROVE  h = k + 1
<1> DEFINE n == Len(Tail(todo))
           c == Len(Walk)
<1>1. k \in Nat /\ (k + 1) + n = c
  BY LeftItem
<1>2. h \in Nat /\ h + n = c /\ n \in Nat
  <2>1. Tail(todo) \in Seq(ToSet(Walk))
    BY DEF Left
  <2>2. n \in Nat
    BY <2>1
  <2> QED
    BY <2>2 DEF Left
<1> HIDE DEF n, c
<1> QED
  BY <1>1, <1>2

LEMMA LeftOver ==
  ASSUME NEW todo, NEW k, Left(todo, k), NEW past \in 1..Len(todo),
         NEW t, t = SubSeq(todo, past + 1, Len(todo)), NEW h, Left(t, h)
  PROVE  h = k + past
<1> DEFINE n == Len(todo)
           c == Len(Walk)
           X == ToSet(Walk)
           z == Len(t)
<1>1. k \in Nat /\ todo \in Seq(X) /\ k + n = c /\ h \in Nat /\ h + z = c
  BY DEF Left
<1> HIDE DEF X
<1>2. n \in Nat /\ past \in 1..n
  BY <1>1
<1>3. z = n - past
  BY <1>1, PastItem
<1> HIDE DEF n, c, z
<1> QED
  BY <1>1, <1>2, <1>3

-----------------------------------------------------------------------------
(* What the steps of a walk do to the recorder.                               *)

\* From what is done of the walk to the next item, when the units are written.
Moves(p, q, todo, n) ==
  \A k : Left(todo, k) /\ CurrentPath(p) = Within[k] =>
    /\ q.off = p.off + n /\ q.index = p.index
    /\ IsList(q.stack) /\ CurrentPath(q) = Within[k + 1]

LEMMA TracedMoves ==
  ASSUME NEW units \in Seq(Units), Len(units) \in 1..3, NEW D, NEW n,
         RunTyped(run), Looks(run), run.pc = "walk", Spells(run, D, n), run.todo # <<>>,
         Placed(run), Traced(run), NEW r, r = Further(Emit(run, units)),
         NEW q, q = Feed(run.recorder, units),
         Between(run.recorder) /\ IsList(run.recorder.stack) =>
           q.bad = TRUE \/ Moves(run.recorder, q, run.todo, Len(units))
  PROVE  Traced(r)
<1> SUFFICES ASSUME ~r.err, r.marks = {}
             PROVE  /\ r.pc = "walk" /\ Tracks(r.recorder, r.todo, Len(Stream(r)))
                    /\ Places(r.recorder.index, Stream(r), r.want)
  BY DEF Traced
<1> DEFINE e == Emit(run, units)
           t == Tail(run.todo)
           S == Stream(run)
           T == Stream(r)
           m == Len(S)
           z == Len(units)
           p == run.recorder
<1>1. Wrote(run, e, {}) /\ Writable(e)
  BY EmitWrites DEF RunTyped, Wrote, Writable
<1>2. e.err \/ (~run.err /\ ~q.bad /\ e.recorder = q)
  BY EmitFeeds DEF RunTyped
<1>3. r.err = e.err /\ r.marks = e.marks /\ r.recorder = e.recorder
  <2> HIDE DEF t
  <2>1. r = [e EXCEPT !.todo = t]
    BY <1>1 DEF Further, Wrote, Kept, t
  <2> HIDE DEF e
  <2> QED
    BY <1>1, <2>1 DEF Writable, RunFields
<1>4. ~run.err /\ run.marks = {} /\ ~q.bad /\ r.recorder = q
  BY <1>1, <1>2, <1>3 DEF Wrote, Kept
<1>5. /\ r.todo = t /\ r.want = run.want /\ r.pc = "walk"
      /\ m \in Nat /\ Len(T) = m + z
      /\ \A i \in 1..m : T[i] = S[i]
      /\ \E k, B : At(S, run.todo, run.want, k, B, m)
  BY EmitsAlong
<1>6. Between(p) /\ Tracks(p, run.todo, m) /\ Places(p.index, S, run.want)
  BY <1>4 DEF Looks, Sees, Traced
<1>7. Moves(p, q, run.todo, z)
  BY <1>4, <1>6 DEF Tracks
<1>8. PICK k, B : At(S, run.todo, run.want, k, B, m)
  BY <1>5
<1>9. Left(run.todo, k) /\ CurrentPath(p) = Within[k] /\ p.off = m
  BY <1>6, <1>8 DEF At, Tracks
<1>10. q.off = m + z /\ q.index = p.index /\ IsList(q.stack) /\ CurrentPath(q) = Within[k + 1]
  BY <1>7, <1>9 DEF Moves
<1>11. \A h : Left(t, h) => h = k + 1
  BY <1>9, LeftTail
<1>12. m \in Nat /\ Len(T) \in Nat /\ m <= Len(T)
  <2> HIDE DEF m, z
  <2> DEFINE y == Len(T)
  <2>1. y = m + z /\ m \in Nat /\ z \in 1..3
    BY <1>5 DEF m, z
  <2> HIDE DEF y
  <2>2. m \in Nat /\ y \in Nat /\ m <= y
    BY <2>1
  <2> QED
    BY <2>2 DEF y
<1>13. Places(q.index, T, run.want)
  <2>1. Places(p.index, S, run.want) /\ \A i \in 1..m : T[i] = S[i]
    BY <1>5, <1>6
  <2> HIDE DEF S, T, p
  <2>2. Places(p.index, T, run.want)
    BY <1>12, <2>1, PlacesStay
  <2> QED
    BY <1>10, <2>2
<1>14. Tracks(q, t, Len(T))
  <2> HIDE DEF m, z, t, T
  <2> QED
    BY <1>5, <1>10, <1>11 DEF Tracks
<1> QED
  BY <1>4, <1>5, <1>13, <1>14

LEMMA TracedEnter ==
  ASSUME Shapes, NEW D, NEW n, Looks(run), Spells(run, D, n), Placed(run), Traced(run), EnterDir
  PROVE  Traced(run')
<1> DEFINE d == Here
           units == DirHeader(d)
           p == run.recorder
           q == Feed(p, units)
<1>1. /\ RunTyped(run) /\ run.pc = "walk" /\ run.todo # <<>>
      /\ Head(run.todo)[1] = "dir" /\ Head(run.todo)[2] = d /\ run' = Further(Emit(run, units))
  BY RunThere DEF EnterDir, Walks, Here
<1>11. Head(run.todo) = <<"dir", d>>
  BY <1>1, WalkHead
<1> HIDE DEF d
<1>2. d \in Names
  <2>1. Rest(run.todo)
    BY <1>1 DEF RunTyped
  <2>2. PICK i \in DOMAIN Walk : Head(run.todo) = Walk[i]
    BY <1>1, <2>1, RestTail
  <2>3. i \in 1..Len(Walk)
    BY <2>2, WalkIsList
  <2>4. Walk[i][2] \in Names
    BY <2>3, WalkItems
  <2> QED
    BY <1>1, <2>2, <2>4
<1> DEFINE x == Named(d)
           y == DirEntry
<1>3. /\ d = "" => units = <<y>>
      /\ d # "" => units = <<x, y>>
      /\ x \in Units /\ y \in Units
  <2>1. x \in Units /\ y \in Units
    <3>1. 0 \in Int
      OBVIOUS
    <3> QED
      BY <1>2, <3>1, UnitsAre
  <2>2. /\ d = "" => units = <<y>>
        /\ d # "" => units = <<x, y>>
    BY DEF DirHeader
  <2> QED
    BY <2>1, <2>2
<1>4. /\ units \in Seq(Units) /\ Len(units) \in 1..3
      /\ Len(units) = IF d = "" THEN 1 ELSE 2
  <2> HIDE DEF x, y, units
  <2>1. CASE d = ""
    <3>1. units = <<y>>
      BY <1>3, <2>1
    <3>2. x \in Units /\ y \in Units
      BY <1>3
    <3>3. Len(<<y>>) = 1 /\ <<y>> \in Seq(Units)
      BY <3>2, FewInSeq
    <3>4. 1 \in 1..3
      OBVIOUS
    <3> QED
      BY <2>1, <3>1, <3>3, <3>4
  <2>2. CASE d # ""
    <3>1. units = <<x, y>>
      BY <1>3, <2>2
    <3>2. x \in Units /\ y \in Units
      BY <1>3
    <3>3. Len(<<x, y>>) = 2 /\ <<x, y>> \in Seq(Units)
      BY <3>2, FewInSeq
    <3>4. 2 \in 1..3
      OBVIOUS
    <3> QED
      BY <2>2, <3>1, <3>3, <3>4
  <2> QED
    BY <2>1, <2>2
<1>5. ASSUME Between(p), IsList(p.stack)
      PROVE  q.bad = TRUE \/ Moves(p, q, run.todo, Len(units))
  <2> SUFFICES ASSUME q.bad # TRUE, NEW k, Left(run.todo, k), CurrentPath(p) = Within[k]
               PROVE  /\ q.off = p.off + Len(units) /\ q.index = p.index
                      /\ IsList(q.stack) /\ CurrentPath(q) = Within[k + 1]
    BY DEF Moves
  <2>1. /\ Head(run.todo) = Walk[k + 1] /\ Within[k + 1] = Below(k + 1, Within[k])
        /\ Within[k] \in Seq(Names)
    BY <1>1, LeftItem
  <2>2. Walk[k + 1][1] = "dir" /\ Walk[k + 1][2] = d
    BY <1>1, <2>1
  <2>3. CASE d = ""
    <3>1. units = <<DirEntry>> /\ Len(units) = 1
      BY <1>3, <1>4, <2>3
    <3>2. Along(p, q, 1)
      BY <1>5, <3>1, FedOneUnit
    <3>3. Within[k + 1] = Within[k]
      BY <2>1, <2>2, <2>3 DEF Below
    <3>4. CurrentPath(q) = CurrentPath(p)
      BY <3>2, SamePath DEF Along
    <3> HIDE DEF q, units, p
    <3> QED
      BY <1>5, <3>1, <3>2, <3>3, <3>4 DEF Along
  <2>4. CASE d # ""
    <3>1. units = <<Named(d), DirEntry>> /\ Len(units) = 2
      BY <1>3, <1>4, <2>4
    <3>2. GoesDown(p, q, d)
      BY <1>5, <3>1, FedDirHeader
    <3> HIDE DEF q, units, p
    <3>3. PICK v : q.stack = Append(p.stack, v) /\ v.name = Last(Append(CurrentPath(p), d))
      BY <3>2 DEF GoesDown
    <3>4. IsList(q.stack) /\ CurrentPath(q) = Append(CurrentPath(p), v.name)
      BY <1>5, <3>3, PathDown
    <3>5. v.name = d
      <4> DEFINE w == Within[k]
      <4>1. w \in Seq(Names) /\ d \in Names
        BY <1>2, <2>1
      <4> HIDE DEF w
      <4>2. Last(Append(w, d)) = d
        BY <4>1 DEF Last
      <4> QED
        BY <3>3, <4>2 DEF w
    <3>6. Within[k + 1] = Append(Within[k], d)
      BY <2>1, <2>2, <2>4 DEF Below
    <3> QED
      BY <3>1, <3>2, <3>4, <3>5, <3>6 DEF GoesDown
  <2> QED
    BY <2>3, <2>4
<1> HIDE DEF units, x, y
<1> QED
  BY <1>1, <1>4, <1>5, TracedMoves

LEMMA TracedLeave ==
  ASSUME Shapes, NEW D, NEW n, Looks(run), Spells(run, D, n), Placed(run), Traced(run), LeaveDir
  PROVE  Traced(run')
<1> DEFINE units == <<Goodbye>>
           p == run.recorder
           q == Feed(p, units)
<1>1. /\ RunTyped(run) /\ run.pc = "walk" /\ run.todo # <<>>
      /\ Head(run.todo)[1] = "end" /\ run' = Further(Emit(run, units))
  BY RunThere DEF LeaveDir, Walks
<1>2. units \in Seq(Units) /\ Len(units) = 1 /\ Len(units) \in 1..3
  <2>1. Goodbye \in Units
    <3>1. "" \in Names /\ 0 \in Int
      BY DEF Names
    <3> QED
      BY <3>1, UnitsAre
  <2>2. units \in Seq(Units) /\ Len(units) = 1
    BY <2>1, FewInSeq
  <2> QED
    BY <2>2
<1>3. ASSUME Between(p), IsList(p.stack)
      PROVE  q.bad = TRUE \/ Moves(p, q, run.todo, Len(units))
  <2> SUFFICES ASSUME q.bad # TRUE, NEW k, Left(run.todo, k), CurrentPath(p) = Within[k]
               PROVE  /\ q.off = p.off + Len(units) /\ q.index = p.index
                      /\ IsList(q.stack) /\ CurrentPath(q) = Within[k + 1]
    BY DEF Moves
  <2>1. Head(run.todo) = Walk[k + 1] /\ Within[k + 1] = Below(k + 1, Within[k])
    BY <1>1, LeftItem
  <2>2. Within[k + 1] = Up(Within[k])
    <3>1. Walk[k + 1][1] = "end"
      BY <1>1, <2>1
    <3> QED
      BY <2>1, <3>1 DEF Below, Up
  <2>3. GoesUp(p, q)
    <3>1. Goodbye # DirEntry
      BY DEF Goodbye, DirEntry
    <3> QED
      BY <1>3, <3>1, FedOneUnit
  <2> HIDE DEF q, units, p
  <2>4. CASE p.stack = <<>>
    <3>1. q.stack = p.stack
      BY <2>3, <2>4 DEF GoesUp, Up
    <3>2. CurrentPath(q) = CurrentPath(p) /\ CurrentPath(p) = <<>>
      <4>1. DOMAIN p.stack = {} /\ <<>> = [i \in {} |-> p.stack[i].name]
        BY <2>4
      <4> QED
        BY <3>1, <4>1, SamePath DEF CurrentPath
    <3> QED
      BY <1>2, <1>3, <2>2, <2>3, <3>1, <3>2 DEF Up, GoesUp
  <2>5. CASE p.stack # <<>>
    <3>1. q.stack = Front(p.stack)
      BY <2>3, <2>5 DEF GoesUp, Up
    <3>2. IsList(q.stack) /\ CurrentPath(q) = Front(CurrentPath(p)) /\ CurrentPath(p) # <<>>
      BY <1>3, <2>5, <3>1, PathUp
    <3> QED
      BY <1>2, <2>2, <2>3, <3>2 DEF Up, GoesUp
  <2> QED
    BY <2>4, <2>5
<1> HIDE DEF units
<1> QED
  BY <1>1, <1>2, <1>3, TracedMoves

LEMMA TracedOver ==
  ASSUME NEW r, NEW q, Placed(r), Traced(r), Over(r, q)
  PROVE  Traced(q)
<1> SUFFICES ASSUME ~q.err, q.marks = {}
             PROVE  /\ Tracks(q.recorder, q.todo, Len(Stream(q)))
                    /\ Places(q.recorder.index, Stream(q), q.want)
  BY DEF Traced, Over
<1>1. Stream(q) = Stream(r) /\ q.recorder = r.recorder /\ q.want = r.want
  BY DEF Stream, Over
<1>2. /\ Tracks(r.recorder, r.todo, Len(Stream(r))) /\ Places(r.recorder.index, Stream(r), r.want)
      /\ \E k : Left(r.todo, k)
  BY DEF Traced, Placed, Over, At
<1>3. PICK k : Left(r.todo, k)
  BY <1>2
<1>4. PICK past \in 1..Len(r.todo) :
        q.todo = SubSeq(r.todo, past + 1, Len(r.todo)) /\ Passes(r.todo, past)
  BY DEF Over
<1>5. ASSUME NEW h, Left(q.todo, h) PROVE CurrentPath(q.recorder) = Within[h]
  <2>1. h = k + past
    BY <1>3, <1>4, <1>5, LeftOver
  <2>2. k \in Nat
    BY <1>3 DEF Left
  <2>3. Within[k + past] = Within[k]
    BY <1>3, <1>4, <2>2 DEF Passes
  <2>4. CurrentPath(r.recorder) = Within[k]
    BY <1>2, <1>3 DEF Tracks
  <2> QED
    BY <1>1, <2>1, <2>3, <2>4
<1> QED
  BY <1>1, <1>2, <1>5 DEF Tracks

\* A file begins: its place goes into the index before its data are read.
LEMMA TracedOpen ==
  ASSUME Shapes, Watched, Dated(disk, events), Spells(run, disk, events), Placed(run), Traced(run),
         OpenFile
  PROVE  Traced(run')
<1> DEFINE f == Here
           n == disk[f].size
           st == [run.stats EXCEPT ![f] = disk[f]]
           r == [run EXCEPT !.begin = run.written, !.file = f, !.stat = disk[f],
                            !.stats = st, !.read = 0, !.pc = "read"]
           units == FileHeader(f, n)
           p == run.recorder
           q == Feed(p, units)
           S == Stream(run)
           T == Stream(run')
           m == Len(S)
<1>1. /\ RunTyped(run) /\ run # Idle /\ run.pc = "walk" /\ f \in Files /\ n \in Nat
      /\ run.todo # <<>> /\ Head(run.todo)[1] = "file" /\ Head(run.todo)[2] = f
  BY RunThere, HereIsFile DEF OpenFile, Walks, Watched, Here
<1>2. run' = Emit(r, units)
  BY <1>1 DEF OpenFile, RunTyped, Writable, RunFields
<1>3. units \in Seq(Units) /\ Len(units) = 3
  BY <1>1, FilesAreNames, HeaderUnits
<1>4. Head(run.todo) = <<"file", f>>
  BY <1>1, WalkHead
<1> HIDE DEF st, f
<1>5. /\ Writable(r) /\ r.pc = "read" /\ r.marks = run.marks /\ r.err = run.err
      /\ r.assigned = run.assigned /\ r.current = run.current /\ r.written = run.written
      /\ r.begin = run.written /\ r.file = f /\ r.todo = run.todo /\ r.want = run.want
      /\ r.recorder = p /\ r.stat.size = n
  BY <1>1 DEF RunTyped, Writable, RunFields
<1> HIDE DEF r, units
<1>6. Wrote(r, run', {})
  BY <1>2, <1>5, EmitWrites
<1>7. /\ run'.pc = "read" /\ run'.marks = run.marks /\ run'.file = f /\ run'.stat.size = n
      /\ run'.begin = run.written /\ run'.todo = run.todo /\ run'.want = run.want
      /\ (run.err => run'.err)
  BY <1>5, <1>6 DEF Wrote, Kept
<1>8. run'.err \/ (~run.err /\ ~q.bad /\ run'.recorder = q)
  BY <1>2, <1>5, EmitFeeds
<1> SUFFICES ASSUME ~run'.err, run'.marks = {}
             PROVE  /\ Tracks(q, run.todo, Len(T))
                    /\ \E index : /\ Places(index, T, run.want)
                                  /\ q.index = Put(index, PathOf(f),
                                                   [at |-> run.written + 2, size |-> n])
  BY <1>7, <1>8 DEF Traced
<1>9. /\ ~run.err /\ run.marks = {} /\ ~q.bad
      /\ Tracks(p, run.todo, m) /\ Places(p.index, S, run.want)
      /\ Clear(run) /\ run.written = m /\ \E k, B : At(S, run.todo, run.want, k, B, m)
  BY <1>1, <1>7, <1>8 DEF Traced, Spells, Placed
<1>10. Between(p)
  BY <1>1, <1>9 DEF Watched, Looks, Sees
<1>11. Opens(p, q, f, n)
  BY <1>1, <1>9, <1>10, FedFileHeader DEF units
<1>12. m \in Nat /\ Len(T) = m + 3 /\ \A i \in 1..m : T[i] = S[i]
  <2>1. Clear(r) /\ Stream(r) = S /\ r.written = Len(Stream(r)) /\ Len(units) \in 1..3
    BY <1>3, <1>5, <1>9 DEF Clear, Stream
  <2> DEFINE e == run'
  <2>3. e = Emit(r, units) /\ ~e.err
    BY <1>2
  <2> HIDE DEF e, S, q, p, n
  <2>5. Clear(r) /\ r.written = Len(Stream(r))
    BY <2>1
  <2>6. units \in Seq(Units) /\ Len(units) \in 1..3
    BY <1>3, <2>1
  <2>7. Len(Stream(r)) \in Nat
    BY <2>5, StreamIs
  <2>8. Len(Stream(e)) = Len(Stream(r)) + Len(units)
    BY <2>3, <2>5, <2>6, EmitExtends
  <2>9. \A i \in 1..Len(Stream(r)) : Stream(e)[i] = Stream(r)[i]
    BY <2>3, <2>5, <2>6, EmitExtends
  <2>4. /\ Len(Stream(r)) \in Nat /\ Len(Stream(e)) = Len(Stream(r)) + Len(units)
        /\ \A i \in 1..Len(Stream(r)) : Stream(e)[i] = Stream(r)[i]
    BY <2>7, <2>8, <2>9
  <2>2. /\ Len(Stream(r)) \in Nat /\ Len(T) = Len(Stream(r)) + Len(units)
        /\ \A i \in 1..Len(Stream(r)) : T[i] = Stream(r)[i]
    BY <2>4 DEF e
  <2> QED
    BY <1>3, <2>1, <2>2
<1>13. PICK k, B : At(S, run.todo, run.want, k, B, m)
  BY <1>9
<1>14. /\ CurrentPath(p) = Within[k] /\ p.off = m /\ IsList(p.stack)
       /\ PathOf(f) = Append(Within[k], f)
  <2>1. Left(run.todo, k)
    BY <1>13 DEF At
  <2>2. k \in Nat /\ k + 1 \in 1..Len(Walk) /\ Head(run.todo) = Walk[k + 1]
    BY <1>1, <2>1, LeftItem
  <2>3. Walk[k + 1] = <<"file", f>>
    BY <1>4, <2>2
  <2>4. PathOf(f) = Append(Within[k], f)
    BY <2>2, <2>3, PathOfFile
  <2> QED
    BY <1>9, <2>1, <2>4 DEF Tracks
<1> HIDE DEF q, n
<1>15. /\ q.off = m + 3 /\ q.stack = p.stack
       /\ q.index = Put(p.index, PathOf(f), [at |-> m + 2, size |-> n])
  BY <1>11, <1>14 DEF Opens
<1>16. Tracks(q, run.todo, Len(T))
  <2>1. CurrentPath(q) = CurrentPath(p)
    BY <1>15, SamePath
  <2> QED
    BY <1>9, <1>12, <1>14, <1>15, <2>1 DEF Tracks
<1>17. Places(p.index, T, run.want)
  <2>1. Len(S) \in Nat /\ Len(T) \in Nat /\ Len(S) <= Len(T) /\ \A i \in 1..Len(S) : T[i] = S[i]
    <3> DEFINE y == Len(T)
    <3>1. m \in Nat /\ y = m + 3
      BY <1>12
    <3> HIDE DEF m, y
    <3>2. m \in Nat /\ y \in Nat /\ m <= y
      BY <3>1
    <3> QED
      BY <1>12, <3>2 DEF m, y
  <2>2. Places(p.index, S, run.want)
    BY <1>9
  <2> HIDE DEF S, T, p
  <2> QED
    BY <2>1, <2>2, PlacesStay
<1> QED
  BY <1>9, <1>15, <1>16, <1>17

\* One unit more of a file.
LEMMA TracedRead ==
  ASSUME Shapes, Watched, Dated(disk, events), Spells(run, disk, events), Placed(run), Traced(run),
         ReadFile
  PROVE  Traced(run')
<1> DEFINE u == Body(run.file)[run.read + 1]
           us == <<u>>
           e == Emit(run, us)
           p == run.recorder
           q == Feed(p, us)
           S == Stream(run)
           T == Stream(run')
           n == run.stat.size - run.read
<1>1. RunTyped(run) /\ run # Idle /\ run.pc = "read"
  BY RunThere DEF ReadFile
<1>2. run' = [e EXCEPT !.read = @ + 1]
  BY DEF ReadFile
<1>3. Wrote(run, e, {}) /\ Writable(e)
  BY <1>1, EmitWrites DEF RunTyped, Wrote, Writable
<1>4. e.err \/ (~run.err /\ ~q.bad /\ e.recorder = q)
  BY <1>1, EmitFeeds DEF RunTyped
<1> HIDE DEF e
<1>5. /\ run'.pc = "read" /\ run'.marks = run.marks /\ run'.file = run.file /\ run'.err = e.err
      /\ run'.begin = run.begin /\ run'.todo = run.todo /\ run'.want = run.want
      /\ run'.assigned = e.assigned /\ run'.current = e.current /\ (run.err => e.err)
      /\ run'.stat = run.stat /\ run'.recorder = e.recorder
  BY <1>1, <1>2, <1>3 DEF Wrote, Kept, Writable, RunFields
<1> SUFFICES ASSUME ~e.err, run.marks = {}
             PROVE  /\ Tracks(q, run.todo, Len(T))
                    /\ \E index : /\ Places(index, T, run.want)
                                  /\ q.index = Put(index, PathOf(run.file),
                                                   [at |-> run.begin + 2, size |-> run.stat.size])
  BY <1>4, <1>5 DEF Traced
<1>6. /\ ~run.err /\ ~q.bad /\ Tracks(p, run.todo, Len(S))
      /\ Clear(run) /\ run.written = Len(S) /\ Entry(run, disk, events)
      /\ \E index : /\ Places(index, S, run.want)
                    /\ p.index = Put(index, PathOf(run.file),
                                     [at |-> run.begin + 2, size |-> run.stat.size])
  BY <1>1, <1>4, <1>5 DEF Spells, Traced
<1>7. us \in Seq(Units) /\ Len(us) = 1
  <2>1. u \in Units
    BY <1>6, ReadsUnit
  <2> HIDE DEF u
  <2> QED
    BY <2>1, FewInSeq
<1>8. Along(p, q, 1)
  <2>1. n \in Nat /\ Standing(p, n)
    <3>1. /\ run.read \in Nat /\ run.stat.size \in Nat /\ run.read <= run.stat.size
          /\ Standing(p, n)
      BY <1>1, <1>6 DEF Watched, Looks, Sees
    <3>2. n \in Nat
      BY <3>1
    <3> QED
      BY <3>1, <3>2
  <2>2. u = Data(run.file, disk[run.file].ver)
    <3>1. run.file \in Files /\ run.read \in Nat /\ disk[run.file].size \in Nat
          /\ run.read < disk[run.file].size
      BY <1>6 DEF Entry, Watched, ReadFile
    <3> QED
      BY <3>1 DEF Body
  <2> HIDE DEF n, u
  <2> QED
    BY <1>6, <2>1, <2>2, FedData
<1> HIDE DEF us, q
<1>9. T = Stream(e)
  BY <1>5 DEF Stream
<1>10. Len(T) = Len(S) + 1 /\ \A i \in 1..Len(S) : T[i] = S[i]
  <2>1. /\ Len(Stream(e)) = Len(S) + 1
        /\ \A i \in 1..Len(S) : Stream(e)[i] = S[i]
    BY <1>6, <1>7, EmitsOne DEF e
  <2> QED
    BY <1>9, <2>1
<1>11. Len(S) \in Nat
  BY <1>6, StreamIs
<1>12. Tracks(q, run.todo, Len(T))
  <2>1. CurrentPath(q) = CurrentPath(p) /\ q.off = p.off + 1 /\ q.stack = p.stack
    BY <1>8, SamePath DEF Along
  <2> HIDE DEF p, S, T
  <2> QED
    BY <1>6, <1>10, <2>1 DEF Tracks
<1>13. PICK index : /\ Places(index, S, run.want)
                    /\ p.index = Put(index, PathOf(run.file),
                                     [at |-> run.begin + 2, size |-> run.stat.size])
  BY <1>6
<1>14. Places(index, T, run.want)
  <2>1. Len(S) \in Nat /\ Len(T) \in Nat /\ Len(S) <= Len(T)
    <3> DEFINE x == Len(S)
               y == Len(T)
    <3>1. x \in Nat /\ y = x + 1
      BY <1>10, <1>11
    <3> HIDE DEF x, y
    <3>2. x \in Nat /\ y \in Nat /\ x <= y
      BY <3>1
    <3> QED
      BY <3>2 DEF x, y
  <2> HIDE DEF S, T
  <2> QED
    BY <1>10, <1>13, <2>1, PlacesStay
<1>15. q.index = p.index
  BY <1>8 DEF Along
<1> QED
  BY <1>12, <1>13, <1>14, <1>15

\* The file that was read has its place in the index.
LEMMA FilePlaced ==
  ASSUME NEW S, NEW todo, NEW W, NEW k, NEW B, NEW a, At(S, todo, W, k, B, a), NEW f, NextFile(todo, f),
         NEW d, HoldsFile(S, a, f, d), Len(S) = a + 3 + Len(d),
         NEW V, V = Put(W, PathOf(f), d),
         NEW p, Tracks(p, todo, Len(S)), NEW index, Places(index, S, W),
         p.index = Put(index, PathOf(f), [at |-> a + 2, size |-> Len(d)])
  PROVE  Tracks(p, Tail(todo), Len(S)) /\ Places(p.index, S, V)
<1> DEFINE path == PathOf(f)
           n == Len(d)
           m == Len(S)
           b == a + 2
           x == [at |-> b, size |-> n]
<1>1. k \in Nat /\ k + 1 \in 1..Len(Walk) /\ Walk[k + 1] = <<"file", f>>
  <2>1. k \in Nat /\ k + 1 \in 1..Len(Walk) /\ Head(todo) = Walk[k + 1]
    BY AtHead DEF NextFile
  <2> QED
    BY <2>1 DEF NextFile
<1>2. Within[k + 1] = Within[k] /\ Last(path) = f
  BY <1>1, PathOfFile
<1> HIDE DEF path
<1>3. path \notin DOMAIN W
  BY <1>1, <1>2, NewPath
<1>4. /\ DOMAIN V = DOMAIN W \cup {path} /\ V[path] = d
      /\ \A z \in DOMAIN W : V[z] = W[z]
  <2>1. V = [z \in DOMAIN W \cup {path} |-> IF z = path THEN d ELSE W[z]]
    BY DEF Put, path
  <2> QED
    BY <1>3, <2>1
<1>5. More(W, V)
  BY <1>4 DEF More
<1>6. a \in Nat /\ n \in Nat
  BY DEF At, Laid, HoldsFile, Lays
<1>7. /\ S[b + 1] = Payload(n) /\ Lays(S, b + 1, d) /\ m \in Nat /\ b \in Nat /\ b + 1 + n \in 0..m
  <2> DEFINE c == a + 3
  <2>1. S[c] = Payload(n) /\ Lays(S, c, d)
    BY DEF HoldsFile
  <2>2. m = a + 3 + n
    OBVIOUS
  <2> HIDE DEF n, m
  <2>3. b + 1 = c /\ m \in Nat /\ b \in Nat /\ b + 1 + n \in 0..m
    BY <1>6, <2>2
  <2> HIDE DEF b, c
  <2> QED
    BY <2>1, <2>3
<1>8. Notes(index, S, V, 0..m)
  <2>1. m <= m /\ m \in Nat /\ \A i \in 1..m : S[i] = S[i]
    BY <1>7
  <2>2. Notes(index, S, W, 0..m)
    BY DEF Places
  <2> HIDE DEF m
  <2> QED
    BY <1>5, <2>1, <2>2, NotesStay
<1>9. p.index = Put(index, path, x)
  BY DEF path
<1> HIDE DEF b, m
<1>10. Notes(Put(index, path, x), S, V, 0..m)
  <2>1. path \in DOMAIN V /\ x = [at |-> b, size |-> Len(V[path])]
    BY <1>4
  <2>2. S[b + 1] = Payload(Len(V[path])) /\ Lays(S, b + 1, V[path]) /\ b + 1 + Len(V[path]) \in 0..m
    BY <1>4, <1>7
  <2> HIDE DEF x
  <2> QED
    BY <1>7, <1>8, <2>1, <2>2, NotesPut
<1>11. DOMAIN p.index = DOMAIN V
  <2>1. DOMAIN Put(index, path, x) = DOMAIN index \cup {path}
    BY DEF Put
  <2>2. DOMAIN index = DOMAIN W
    BY DEF Places
  <2> QED
    BY <1>4, <1>9, <2>1, <2>2
<1>12. Places(p.index, S, V)
  BY <1>9, <1>10, <1>11 DEF Places, m
<1>13. Tracks(p, Tail(todo), Len(S))
  <2>1. Left(todo, k) /\ todo # <<>>
    BY DEF At, NextFile
  <2>2. CurrentPath(p) = Within[k]
    BY <2>1 DEF Tracks
  <2>3. ASSUME NEW h, Left(Tail(todo), h) PROVE CurrentPath(p) = Within[h]
    <3>1. h = k + 1
      BY <2>1, <2>3, LeftTail
    <3> QED
      BY <1>2, <2>2, <3>1
  <2> QED
    BY <2>3 DEF Tracks
<1> QED
  BY <1>12, <1>13

LEMMA TracedClosed ==
  ASSUME RunTyped(run), NEW n, Spells(run, disk, n), Placed(run), Traced(run), run.pc = "read"
  PROVE  Traced(Closed(run))
<1> DEFINE q == Closed(run)
<1>1. q.pc = "walk" /\ q.err = run.err /\ q.recorder = run.recorder
  BY ClosedWhole
<1>2. ASSUME ~q.err, q.marks = {}
      PROVE  /\ Tracks(q.recorder, q.todo, Len(Stream(q)))
             /\ Places(q.recorder.index, Stream(q), q.want)
  <2>1. PICK k, B, d : ReadWhole(run, q, k, B, d)
    BY <1>2, ClosedWhole
  <2>2. ~run.err /\ run.marks = {}
    BY <1>1, <1>2, ClosedWhole
  <2> HIDE DEF q
  <2> DEFINE S == Stream(run)
             p == run.recorder
  <2>3. PICK index : /\ Places(index, S, run.want)
                     /\ p.index = Put(index, PathOf(run.file),
                                      [at |-> run.begin + 2, size |-> Len(d)])
    BY <2>1, <2>2 DEF Traced, ReadWhole
  <2>4. Tracks(p, run.todo, Len(S))
    BY <2>2 DEF Traced
  <2>5. Tracks(p, Tail(run.todo), Len(S)) /\ Places(p.index, S, q.want)
    <3> HIDE DEF S, p
    <3>1. /\ At(S, run.todo, run.want, k, B, run.begin) /\ NextFile(run.todo, run.file)
          /\ HoldsFile(S, run.begin, run.file, d) /\ Len(S) = run.begin + 3 + Len(d)
          /\ q.want = Put(run.want, PathOf(run.file), d)
      BY <2>1 DEF ReadWhole, S
    <3> QED
      BY <2>3, <2>4, <3>1, FilePlaced
  <2> QED
    BY <1>1, <2>1, <2>5 DEF ReadWhole
<1> QED
  BY <1>1, <1>2 DEF Traced

LEMMA TracedAlike ==
  ASSUME NEW r, NEW q, Traced(r), Twin(r, q), q.todo = r.todo, q.want = r.want,
         q.recorder = r.recorder
  PROVE  Traced(q)
<1>1. Stream(q) = Stream(r)
  BY DEF Stream, Twin
<1>2. /\ q.pc = r.pc /\ q.err = r.err /\ q.marks = r.marks /\ q.assigned = r.assigned
      /\ q.begin = r.begin /\ q.file = r.file /\ q.stat = r.stat
  BY DEF Twin
<1> QED
  BY <1>1, <1>2 DEF Traced

\* The index of a run is whole when all of the stream is in chunks.
LEMMA TracedFlush ==
  ASSUME Shapes, NEW D, NEW n, Spells(run, D, n), Placed(run), Traced(run), Flush
  PROVE  Traced(run')
<1> DEFINE r == FlushPending(run)
<1>1. RunTyped(run) /\ run.pc = "walk" /\ ~run.err
  BY RunThere DEF Flush
<1>2. run' = [r EXCEPT !.pc = "drain"]
  BY DEF Flush
<1>3. Wrote(run, r, {}) /\ r.recorder = run.recorder
  BY <1>1, FlushWrites, FlushKeepsRecorder DEF RunTyped
<1> HIDE DEF r
<1>4. /\ run'.pc = "drain" /\ run'.err = r.err /\ run'.marks = run.marks
      /\ run'.assigned = r.assigned /\ run'.want = run.want /\ run'.recorder = run.recorder
  BY <1>2, <1>3 DEF Wrote, Kept, RunFields
<1>5. ASSUME ~r.err, run.marks = {}
      PROVE  Places(run.recorder.index, FlattenSeq(r.assigned), run.want)
  <2>1. Clear(run) /\ Places(run.recorder.index, Stream(run), run.want)
    BY <1>1, <1>5 DEF Spells, Traced
  <2>2. Stream(run) = FlattenSeq(r.assigned)
    BY <1>1, <1>5, <2>1, Flushed DEF r
  <2> QED
    BY <2>1, <2>2
<1> QED
  BY <1>4, <1>5 DEF Traced

LEMMA TracedBegin ==
  ASSUME NEW full, run' = NewRun(full)
  PROVE  Traced(run')
<1> DEFINE p == run'.recorder
<1>1. /\ run'.pc = "walk" /\ run'.todo = Walk /\ run'.assigned = <<>> /\ run'.current = <<>>
      /\ run'.want = NoFunction /\ p = NewParser({}, TRUE)
  BY DEF NewRun
<1>2. Stream(run') = <<>>
  <2>1. FlattenSeq(<<>>) = <<>>
    BY DEF FlattenSeq
  <2>2. <<>> \o <<>> = <<>>
    OBVIOUS
  <2> QED
    BY <1>1, <2>1, <2>2 DEF Stream
<1>3. p.off = 0 /\ p.stack = <<>> /\ p.index = NoFunction
  BY <1>1 DEF NewParser
<1> HIDE DEF p
<1>4. IsList(p.stack) /\ CurrentPath(p) = <<>>
  <2>1. DOMAIN p.stack = {} /\ <<>> = [i \in {} |-> p.stack[i].name]
    BY <1>3
  <2> QED
    BY <1>3, <2>1, ListEmpty DEF CurrentPath
<1>5. ASSUME NEW h, Left(Walk, h) PROVE Within[h] = <<>>
  <2> DEFINE c == Len(Walk)
  <2>1. c \in Nat /\ h \in Nat /\ h + c = c
    BY <1>5, WalkIsList DEF Left
  <2> HIDE DEF c
  <2>2. h = 0
    BY <2>1
  <2> QED
    BY <2>2, WithinSteps
<1>6. Len(Stream(run')) = 0
  BY <1>2
<1>7. Tracks(p, run'.todo, Len(Stream(run')))
  BY <1>1, <1>3, <1>4, <1>5, <1>6 DEF Tracks
<1>8. Places(p.index, Stream(run'), run'.want)
  <2>1. DOMAIN NoFunction = {}
    BY DEF NoFunction
  <2> QED
    BY <1>1, <1>3, <2>1, FS_EmptySet DEF Places, Notes
<1> QED
  BY <1>1, <1>7, <1>8 DEF Traced, p

LEMMA TracedRelabelled ==
  ASSUME Shapes, Traced(run), Relabelling
  PROVE  Traced(run')
<1>1. RunTyped(run) /\ DOMAIN run = RunFields /\ Relabelled(run, run')
      /\ (run'.pc # "failed" => run'.err = run.err)
  BY RelabelSteps DEF RunTyped, Writable
<1>3. CASE Fails(run)
  BY <1>1, <1>3, FailsRelabels DEF Traced
<1>4. CASE UploadEnds
  <2>1. PICK c \in run.flying :
          \/ run' = [run EXCEPT !.flying = @ \ {c}]
          \/ run' = [run EXCEPT !.flying = @ \ {c}, !.failed = TRUE]
    BY <1>4 DEF UploadEnds
  <2>2. /\ Twin(run, run') /\ run'.todo = run.todo /\ run'.want = run.want
        /\ run'.recorder = run.recorder
    BY <1>1, <2>1 DEF Twin, RunFields
  <2> QED
    BY <2>2, TracedAlike
<1>5. CASE Cancel
  <2>1. /\ Twin(run, run') /\ run'.todo = run.todo /\ run'.want = run.want
        /\ run'.recorder = run.recorder
    BY <1>1, <1>5 DEF Cancel, Twin, RunFields
  <2> QED
    BY <2>1, TracedAlike
<1>6. CASE ~Fails(run) /\ (Assign \/ Finish \/ Save \/ Verify \/ Done)
  <2>1. \/ run.pc = "drain" /\ run' = [run EXCEPT !.pc = "finish"]
        \/ run.pc = "finish" /\ run' = [run EXCEPT !.pc = "save"]
        \/ run' = [run EXCEPT !.pc = "verify", !.ticking = FALSE]
        \/ run' = [run EXCEPT !.pc = "known"]
        \/ run' = [run EXCEPT !.pc = "done"]
    BY <1>6 DEF Assign, Finish, Save, Verify, Done
  <2>2. \/ run.pc \in {"drain", "finish"} /\ run'.pc \in {"finish", "save"}
           /\ run'.want = run.want /\ run'.assigned = run.assigned /\ run'.marks = run.marks
           /\ run'.err = run.err /\ run'.recorder = run.recorder
        \/ run'.pc \in {"verify", "known", "done"}
    BY <1>1, <2>1 DEF RunFields
  <2> QED
    BY <2>2 DEF Traced
<1> QED
  BY <1>3, <1>4, <1>5, <1>6 DEF Relabelling, AbortScan

LEMMA TracedRun ==
  ASSUME Shapes, Watched, Faithful, Arranged, run # Idle => Traced(run), [Next]_vars, run' # Idle
  PROVE  Traced(run')
<1>1. run # Idle => /\ Spells(run, disk, events) /\ Placed(run) /\ Dated(disk, events)
                    /\ Traced(run) /\ Looks(run)
  BY DEF Faithful, Arranged, Watched
<1>2. CASE UnreadableDir
  <2>1. run # Idle
    BY <1>2, UnreadableSteps, NotIdle DEF RunTyped, Writable
  <2>2. CASE Fails(run)
    BY <1>1, <1>2, <2>1, <2>2, TracedRelabelled DEF Relabelling
  <2> QED
    BY <1>1, <1>2, <2>1, <2>2, UnreadableOver, TracedOver
<1>3. CASE Flush
  <2>1. run # Idle
    BY <1>3, RunThere DEF Flush
  <2> QED
    BY <1>1, <1>3, <2>1, TracedFlush
<1>4. CASE Begin
  <2>1. PICK full \in BOOLEAN : run' = NewRun(full)
    BY <1>4 DEF Begin
  <2> QED
    BY <2>1, TracedBegin
<1>5. CASE Tick \/ ChangeFile \/ RemoveFile \/ Prune \/ UNCHANGED vars
  <2>1. run' = run
    BY <1>5 DEF Tick, ChangeFile, RemoveFile, Prune, vars
  <2> QED
    BY <1>1, <2>1
<1>6. CASE Return \/ Crash
  BY <1>6 DEF Return, Crash
<1>7. CASE Scanning
  <2>1. RunTyped(run) /\ run # Idle
    BY <1>7, ScanSteps
  <2>2. /\ Spells(run, disk, events) /\ Placed(run) /\ Dated(disk, events)
        /\ Traced(run) /\ Looks(run)
    BY <1>1, <2>1
  <2>3. CASE EnterDir
    BY <2>2, <2>3, TracedEnter
  <2>4. CASE LeaveDir
    BY <2>2, <2>4, TracedLeave
  <2>5. CASE SkipFile
    BY <2>2, <2>5, SkipOver, TracedOver
  <2>6. CASE ReuseFile
    BY <2>6, ReuseMarks DEF Traced
  <2>7. CASE OpenFile
    BY <2>2, <2>7, TracedOpen
  <2>8. CASE ReadFile
    BY <2>2, <2>8, TracedRead
  <2>9. CASE EndFile \/ ReadFails
    <3>1. run' = Closed(run) /\ run.pc = "read"
      BY <2>9 DEF EndFile, ReadFails
    <3> QED
      BY <2>1, <2>2, <3>1, TracedClosed
  <2> QED
    BY <1>7, <2>3, <2>4, <2>5, <2>6, <2>7, <2>8, <2>9 DEF Scanning
<1>8. CASE Relabelling
  <2>1. run # Idle
    BY <1>8, RelabelSteps
  <2> QED
    BY <1>1, <1>8, <2>1, TracedRelabelled
<1> QED
  BY <1>2, <1>3, <1>4, <1>5, <1>6, <1>7, <1>8 DEF Next, Scanning, Relabelling

-----------------------------------------------------------------------------
(* What is committed, and the restores of it.                                 *)

\* What Finish adds stays the last snapshot while its run saves its caches.
LEMMA MatchesNext ==
  ASSUME Shapes, Arranged, [Next]_vars, run' # Idle
  PROVE  Matches(run', snaps')
<1> SUFFICES ASSUME run'.pc = "save"
             PROVE  snaps'[Len(snaps')].index = run'.assigned /\ snaps'[Len(snaps')].want = run'.want
  BY DEF Matches
<1>1. CASE Finish /\ ~Fails(run)
  <2>1. RunTyped(run) /\ run' = [run EXCEPT !.pc = "save"] /\ snaps' = Append(snaps, Snapshot)
    BY <1>1, RunThere DEF Finish
  <2> DEFINE c == Snapshot
  <2>2. c.index = run.assigned /\ c.want = run.want
    BY DEF Snapshot
  <2> HIDE DEF c
  <2>3. snaps' = Append(snaps, c) /\ snaps \in Seq(ToSet(snaps))
    BY <2>1 DEF c, Shapes, IsList
  <2>4. snaps'[Len(snaps')] = c
    <3> DEFINE T == ToSet(snaps) \cup {c}
    <3>1. snaps \in Seq(T) /\ c \in T
      BY <2>3
    <3> HIDE DEF T
    <3> QED
      BY <2>3, <3>1
  <2>5. run'.assigned = run.assigned /\ run'.want = run.want
    BY <2>1 DEF RunTyped, Writable, RunFields
  <2> QED
    BY <2>2, <2>4, <2>5
<1>2. CASE UploadEnds \/ Cancel
  <2>1. run # Idle /\ DOMAIN run = RunFields /\ snaps' = snaps
    BY <1>2, RelabelSteps DEF Relabelling, RunTyped, Writable, UploadEnds, Cancel, Unchanged
  <2>2. \/ run' = [run EXCEPT !.cancelled = TRUE]
        \/ \E c \in run.flying : \/ run' = [run EXCEPT !.flying = @ \ {c}]
                                 \/ run' = [run EXCEPT !.flying = @ \ {c}, !.failed = TRUE]
    BY <1>2 DEF UploadEnds, Cancel
  <2>3. run'.pc = run.pc /\ run'.assigned = run.assigned /\ run'.want = run.want
    BY <2>1, <2>2 DEF RunFields
  <2> QED
    BY <2>1, <2>3 DEF Arranged, Matches
<1>3. CASE Tick \/ ChangeFile \/ RemoveFile \/ UNCHANGED vars
  <2>1. run' = run /\ snaps' = snaps
    BY <1>3 DEF Tick, ChangeFile, RemoveFile, vars
  <2> QED
    BY <2>1 DEF Arranged, Matches
<1>4. CASE Fails(run) /\ Relabelling
  <2>1. run'.pc = "failed"
    BY <1>4, RelabelSteps, FailsRelabels
  <2> QED
    BY <2>1
<1>5. CASE ~Fails(run) /\ (Assign \/ Save \/ Verify \/ Done)
  <2>1. DOMAIN run = RunFields
    BY <1>5, RelabelSteps DEF Relabelling, RunTyped, Writable
  <2>2. \/ run' = [run EXCEPT !.pc = "finish"] \/ run' = [run EXCEPT !.pc = "known"]
        \/ run' = [run EXCEPT !.pc = "verify", !.ticking = FALSE] \/ run' = [run EXCEPT !.pc = "done"]
    BY <1>5 DEF Assign, Save, Verify, Done
  <2>3. run'.pc \in {"finish", "known", "verify", "done"}
    BY <2>1, <2>2 DEF RunFields
  <2> QED
    BY <2>3
<1>6. CASE Scanning
  <2>1. run'.pc \in {"walk", "read"}
    BY <1>6, ScanSteps DEF Scans
  <2> QED
    BY <2>1
<1>7. CASE UnreadableDir /\ ~Fails(run)
  <2>1. Scans(run, run')
    BY <1>7, UnreadableSteps
  <2>2. run'.pc \in {"walk", "read"}
    BY <2>1 DEF Scans
  <2> QED
    BY <2>2
<1>8. CASE Flush
  <2>1. run'.pc = "drain"
    BY <1>8, FlushSteps
  <2> QED
    BY <2>1
<1>9. CASE Begin
  <2>1. PICK full \in BOOLEAN : run' = NewRun(full)
    BY <1>9 DEF Begin
  <2>2. run'.pc = "walk"
    BY <2>1 DEF NewRun
  <2> QED
    BY <2>2
<1>10. CASE Return \/ Crash \/ Prune
  BY <1>10 DEF Return, Crash, Prune
<1> QED
  BY <1>1, <1>2, <1>3, <1>4, <1>5, <1>6, <1>7, <1>8, <1>9, <1>10
     DEF Next, Scanning, Relabelling, AbortScan

LEMMA ArrangedNext == Shapes /\ Watched /\ Faithful /\ Arranged /\ [Next]_vars => Arranged'
BY PlacedRun, MatchesNext DEF Arranged

\* What a restore without an index writes of a file is what the run read of it, whichever
\* files are wanted and wherever the chunks of the stream begin: after a walk in which
\* nothing changed while it was read (pxar_stream_restore.go:154, feed).
THEOREM SequentialRestored == Spec => []SequentialIsExact
<1>1. Init => Shapes /\ Watched /\ Faithful /\ Arranged
  <2>1. Init => Arranged
    BY DEF Init, Arranged
  <2> QED
    BY <2>1, ShapesInit, WatchedInit, FaithfulInit
<1>2. (Shapes /\ Watched /\ Faithful /\ Arranged) /\ [Next]_vars
        => (Shapes /\ Watched /\ Faithful /\ Arranged)'
  <2> SUFFICES ASSUME Shapes, Watched, Faithful, Arranged, [Next]_vars
               PROVE  Shapes' /\ Watched' /\ Faithful' /\ Arranged'
    OBVIOUS
  <2> QED
    BY ShapesNext, WatchedRun, WatchedSnaps, WatchedDisk, FaithfulNext, ArrangedNext DEF Watched
<1>3. Shapes /\ Watched /\ Faithful /\ Arranged => SequentialIsExact
  <2> SUFFICES ASSUME Shapes, Watched, Faithful, Arranged, JustCommitted, Clean(This),
                      NEW wanted,
                      NEW path \in DOMAIN SequentialRestore(This.index, wanted).found
               PROVE  SequentialRestore(This.index, wanted).found[path] = This.want[path]
    BY DEF SequentialIsExact
  <2> DEFINE cs == run.assigned
             S == FlattenSeq(cs)
             p == SequentialRestore(cs, wanted)
  <2>1. run # Idle /\ run.pc = "save"
    BY RunThere DEF JustCommitted
  <2>2. /\ ~run.err /\ run.marks = {}
        /\ This.index = cs /\ This.want = run.want
    BY <2>1 DEF Faithful, Commits, Clean, This, Arranged, Matches
  <2>3. cs \in Seq(Seq(Units)) /\ \E B : Laid(S, B, run.want, Len(S))
    BY <2>1, <2>2 DEF Arranged, Placed
  <2>4. PICK B : Laid(S, B, run.want, Len(S))
    BY <2>3
  <2>5. S = FlattenSeq(cs) /\ p = SequentialRestore(cs, wanted)
    OBVIOUS
  <2>6. path \in DOMAIN p.found
    BY <2>2
  <2> HIDE DEF S, p, cs
  <2>7. p.found[path] = run.want[path]
    BY <2>3, <2>4, <2>5, <2>6, RestoreFinds DEF Sound
  <2> QED
    BY <2>2, <2>5, <2>7
<1> QED
  BY <1>1, <1>2, <1>3, PTL DEF Spec

\* Where payloads may end.
LEMMA NotesWithin ==
  ASSUME NEW index, NEW S, NEW W, NEW E, NEW F, Notes(index, S, W, E), \A o \in E : o \in F
  PROVE  Notes(index, S, W, F)
<1>1. DOMAIN index \subseteq DOMAIN W /\ IsFiniteSet(DOMAIN index)
  BY DEF Notes
<1>2. ASSUME NEW path \in DOMAIN index
      PROVE  \E a \in Nat :
               /\ index[path] = [at |-> a, size |-> Len(W[path])]
               /\ S[a + 1] = Payload(Len(W[path])) /\ Lays(S, a + 1, W[path])
               /\ a + 1 + Len(W[path]) \in F
  BY DEF Notes
<1> QED
  BY <1>1, <1>2 DEF Notes

\* The index that a sequential restore leaves, of all files or of some.
LEMMA LeftNotes ==
  ASSUME NEW cs \in Seq(Seq(Units)), NEW S, S = FlattenSeq(cs), NEW B, NEW W, Laid(S, B, W, Len(S)),
         NEW first, NEW index, index = LocalIndex(SequentialRestore(cs, first))
  PROVE  Notes(index, S, W, 0..Len(S))
<1> DEFINE p == SequentialRestore(cs, first)
<1>1. Notes(p.index, S, W, DOMAIN B)
  BY RestoreFinds
<1>2. \A o \in DOMAIN B : o \in 0..Len(S)
  BY DEF Laid
<1> HIDE DEF p
<1>3. Notes(p.index, S, W, 0..Len(S))
  BY <1>1, <1>2, NotesWithin
<1>4. DOMAIN NoFunction = {}
  BY DEF NoFunction
<1>5. Notes(NoFunction, S, W, 0..Len(S))
  BY <1>4, FS_EmptySet DEF Notes
<1>6. index = IF p.bad THEN NoFunction ELSE p.index
  BY DEF LocalIndex, p
<1> QED
  BY <1>3, <1>5, <1>6

\* What a restore with an index writes of a file is what the run read of it: with the index
\* that the run recorded every file that is wanted, and with the index that an earlier
\* restore has left every file that is found (pxar_index.go:305; pxar_stream_restore.go:661).
THEOREM IndexedRestored == Spec => []IndexedIsExact
<1> DEFINE Followed == run # Idle => Traced(run)
           I == Shapes /\ Watched /\ Faithful /\ Arranged /\ Followed
<1>1. Init => I
  <2>1. Init => Arranged /\ Followed
    BY DEF Init, Arranged
  <2> QED
    BY <2>1, ShapesInit, WatchedInit, FaithfulInit
<1>2. I /\ [Next]_vars => I'
  <2> SUFFICES ASSUME I, [Next]_vars PROVE I'
    OBVIOUS
  <2>1. Shapes' /\ Watched' /\ Faithful' /\ Arranged'
    BY ShapesNext, WatchedRun, WatchedSnaps, WatchedDisk, FaithfulNext, ArrangedNext DEF Watched
  <2>2. Followed'
    BY TracedRun
  <2> QED
    BY <2>1, <2>2
<1>3. I => IndexedIsExact
  <2> DEFINE cs == run.assigned
             S == FlattenSeq(cs)
             W == run.want
             index == run.recorder.index
             Leaves(first) == LocalIndex(SequentialRestore(cs, first))
  <2> SUFFICES ASSUME I, JustCommitted, Clean(This)
               PROVE  IndexedIsExact
    BY DEF IndexedIsExact
  <2>1. run # Idle /\ run.pc = "save"
    BY RunThere DEF JustCommitted
  <2>2. ~run.err /\ run.marks = {} /\ This.index = cs /\ This.want = W
    BY <2>1 DEF Faithful, Commits, Clean, This, Arranged, Matches
  <2>3. cs \in Seq(Seq(Units)) /\ \E B : Laid(S, B, W, Len(S))
    BY <2>1, <2>2 DEF Arranged, Placed
  <2>4. PICK B : Laid(S, B, W, Len(S))
    BY <2>3
  <2>5. Places(index, S, W)
    BY <2>1, <2>2 DEF Traced
  <2>6. S = FlattenSeq(cs)
    OBVIOUS
  <2> HIDE DEF S, cs, W, index
  <2>7. ASSUME NEW wanted \in (SUBSET DOMAIN W) \ {{}}
        PROVE  Restored(cs, index, wanted) = [path \in wanted |-> W[path]]
    <3>1. Notes(index, S, W, 0..Len(S)) /\ wanted # {} /\ wanted \subseteq DOMAIN index
      BY <2>5, <2>7 DEF Places
    <3> DEFINE f == Restored(cs, index, wanted)
    <3>2. f = Restored(cs, index, wanted)
      OBVIOUS
    <3> HIDE DEF f
    <3>3. wanted # {} /\ wanted \subseteq DOMAIN index => f = [path \in wanted |-> W[path]]
      BY <2>3, <2>4, <2>6, <3>1, <3>2, IndexFinds
    <3> QED
      BY <3>1, <3>2, <3>3
  <2>8. ASSUME NEW wanted, NEW first, NEW path \in DOMAIN Restored(cs, Leaves(first), wanted)
        PROVE  Restored(cs, Leaves(first), wanted)[path] = W[path]
    <3> DEFINE left == Leaves(first)
               f == Restored(cs, left, wanted)
    <3>1. Notes(left, S, W, 0..Len(S))
      BY <2>3, <2>4, <2>6, LeftNotes
    <3> HIDE DEF left
    <3>2. f = Restored(cs, left, wanted) /\ path \in DOMAIN f
      BY DEF left
    <3> HIDE DEF f
    <3>3. f[path] = W[path]
      BY <2>3, <2>4, <2>6, <3>1, <3>2, IndexFinds
    <3> QED
      BY <3>3 DEF f, left
  <2> QED
    BY <2>2, <2>7, <2>8 DEF IndexedIsExact, index
<1> QED
  BY <1>1, <1>2, <1>3, PTL DEF Spec

=============================================================================
