------------------------------ MODULE PbsBackup -----------------------------
(***************************************************************************)
(* Backups of one job to a Proxmox Backup Server: pbsbackup.Run and        *)
(* backupReal, from the chunks it takes for known to the snapshot it       *)
(* commits and the caches it leaves for the next run.                      *)
(*                                                                         *)
(* A run walks the source and writes its stream (PxarStream) unit by unit. *)
(* The stream is cut into chunks by its contents; a chunk that is not      *)
(* known is uploaded by a goroutine of its own while the walk goes on.     *)
(* A parser records where every file is.  After the last unit the run      *)
(* waits for the uploads, assigns the chunks to the index, finishes the    *)
(* session, and saves its caches.  The files change meanwhile, uploads and *)
(* calls fail, the user cancels, the process dies, and between runs the    *)
(* server prunes snapshots and collects chunks nobody refers to.           *)
(*                                                                         *)
(* The catalogue is a second stream that goes the same way and is left     *)
(* out, with the number of uploads at a time (any order of their ends is   *)
(* possible).  A file changes its size or its second of modification with  *)
(* every change.                                                           *)
(***************************************************************************)
EXTENDS PxarStream

CONSTANTS
  Walk,       \* the source in the order of os.ReadDir: <<"dir", d>>, <<"file", f>>, <<"end", d>>
  Cuts,       \* the sets of units after which the chunker may cut
  Sizes,      \* sizes of a file in units of data
  SkipAccess, \* Job.SkipAccessErrors
  MaxRuns,    \* bound: backups
  MaxEvents   \* bound: changes of files, faults, cancellations, prunings and deaths

Files == {Walk[i][2] : i \in {j \in DOMAIN Walk : Walk[j][1] = "file"}}

\* The directories that are open after i items of the walk.
Within[i \in 0..Len(Walk)] ==
  IF i = 0 THEN <<>>
  ELSE CASE Walk[i][1] = "dir" /\ Walk[i][2] # "" -> Append(Within[i - 1], Walk[i][2])
         [] Walk[i][1] = "end" /\ Within[i - 1] # <<>> -> Front(Within[i - 1])
         [] OTHER -> Within[i - 1]

\* A walk is a tree: it begins with the source, and leaves what it enters, to be
\* where it was before.  It meets each file and directory once.
ASSUME PbsBackupAssumption ==
  /\ Walk \in Seq({"dir", "file", "end"} \X STRING)
  /\ Head(Walk) = <<"dir", "">> /\ Last(Walk) = <<"end", "">>
  /\ \A i \in DOMAIN Walk : Walk[i][1] = "dir" =>
       \E j \in DOMAIN Walk : i < j /\ Walk[j] = <<"end", Walk[i][2]>>
  /\ \A i, j \in DOMAIN Walk :
       /\ i < j /\ Walk[i][1] = "dir" /\ Walk[j] = <<"end", Walk[i][2]>> =>
            Within[j] = Within[i - 1]
       /\ Walk[i] = Walk[j] /\ Walk[i][1] # "end" => i = j
  /\ Sizes \subseteq Nat /\ SkipAccess \in BOOLEAN
  /\ MaxRuns \in Nat /\ MaxEvents \in Nat

VARIABLES
  cuts,       \* where this data is cut: a set of units, the same for all runs
  disk,       \* version and size of every file
  chunks,     \* the chunks the server stores
  snaps,      \* the snapshots committed so far, also the pruned ones
  known,      \* chunks.json: digests for a run that finds no previous index
  records,    \* pbs_files.json: what the last run recorded of every file
  run,        \* the variables of the run that is under way
  checkpoint, \* phase of the job's checkpoint
  result,     \* how the last run ended
  events      \* changes and faults so far

vars == <<cuts, disk, chunks, snaps, known, records, run, checkpoint, result, events>>

NoFile == [ver |-> 0, size |-> 0]
Idle == [pc |-> "idle"]
Active == {"walk", "read", "drain", "finish", "save", "verify", "known"}

PathOf(f) ==
  LET at == CHOOSE i \in DOMAIN Walk : Walk[i] = <<"file", f>>
  IN  Append(Within[at], f)

\* The data of file f as it is on the disk.
Body(f) == [i \in 1..disk[f].size |-> Data(f, disk[f].ver)]

\* The newest snapshot the server has, 0 when it has none.
Latest ==
  LET kept == {i \in DOMAIN snaps : ~snaps[i].pruned}
  IN  IF kept = {} THEN 0 ELSE CHOOSE i \in kept : \A j \in kept : j <= i

-----------------------------------------------------------------------------
(* The chunks of the stream. *)

\* Variant: a chunk that was looked at is known, also when it was not uploaded.
CommitChunkOnce(r, c) == [r EXCEPT !.assigned = Append(@, c), !.known = @ \cup {c}]

\* commitChunk: a known digest is trusted, any other chunk is uploaded, unless
\* an upload failed before.
CommitChunk(r, c) ==
  CASE c \in r.known -> [r EXCEPT !.assigned = Append(@, c)]
    [] c \notin r.known /\ (r.cancelled \/ r.failed) -> [r EXCEPT !.err = TRUE]
    [] OTHER -> [r EXCEPT !.assigned = Append(@, c), !.known = @ \cup {c},
                          !.flying = @ \cup {c}]

FlushPending(r) ==
  IF r.current = <<>> THEN r ELSE [CommitChunk(r, r.current) EXCEPT !.current = <<>>]

\* handleData: the chunker cuts wherever the contents say so.  A directory, the
\* header of a file or a piece of its data is written at once: three units at most.
HandleData(r, units) ==
  LET Take(q, k) ==
        LET full == [q EXCEPT !.current = Append(@, units[k])]
        IN  CASE q.err \/ k > Len(units) -> q
              [] ~q.err /\ k <= Len(units) /\ units[k] \in cuts -> FlushPending(full)
              [] OTHER -> full
  IN  IF r.cancelled THEN [r EXCEPT !.err = TRUE] ELSE Take(Take(Take(r, 1), 2), 3)

\* WriteCB: nothing is written after an error; the recorder sees every unit first.
Emit(r, units) ==
  LET q == Feed(r.recorder, units)
  IN  CASE r.err -> r
        [] ~r.err /\ q.bad -> [r EXCEPT !.err = TRUE, !.recorder = q]
        [] OTHER -> HandleData([r EXCEPT !.recorder = q, !.written = @ + Len(units)], units)

\* reuseChunks: the chunks of the old entry are assigned without being looked at.
ReuseChunks(r, spans) ==
  [r EXCEPT !.assigned = @ \o [i \in DOMAIN spans |-> spans[i].chunk],
            !.known = @ \cup {spans[i].chunk : i \in DOMAIN spans}]

SumLen(spans) == FoldLeft(LAMBDA k, span : k + span.len, 0, spans)

\* OnPxarChunksReuse: the header is written, then the chunks of the old entry.
EmitReused(r, f, n, spans) ==
  LET header == FileHeader(f, n)
      q == FeedHeaderOnly(r.recorder, header)
      h == HandleData([r EXCEPT !.recorder = q], header)
  IN  CASE r.err -> r
        [] ~r.err /\ (q.bad \/ h.err \/ FlushPending(h).err) -> [h EXCEPT !.err = TRUE]
        [] OTHER -> [ReuseChunks(FlushPending(h), spans) EXCEPT
                       !.written = @ + Len(header) + SumLen(spans)]

-----------------------------------------------------------------------------
(* The records of files. *)

NoRecord == [ver |-> 0, size |-> 0, spans |-> <<>>, len |-> 0]
NoRecords == [f \in Files |-> NoRecord]

\* Variant: the size of the spans is not compared.
CanReuseAnySpan(rec, f) ==
  /\ rec.spans # <<>> /\ rec.size = disk[f].size /\ rec.ver = disk[f].ver

\* canReuse and spansReusableForFastReuse: same size and time, and spans that
\* are whole chunks and make up the entry.
CanReuse(rec, f) ==
  /\ rec.spans # <<>> /\ rec.size = disk[f].size /\ rec.ver = disk[f].ver
  /\ \A i \in DOMAIN rec.spans : rec.spans[i].whole
  /\ SumLen(rec.spans) = (IF rec.len = 0 THEN rec.size ELSE rec.len)

\* recordFile at the end of a file: only the chunks assigned by now are known.
RecordFile(r) ==
  LET spans == Spans(r.assigned, r.begin, r.written)
  IN  IF spans = <<>> \/ r.live[r.file].spans # <<>> THEN r
      ELSE [r EXCEPT !.live[r.file] =
              [ver |-> r.stat.ver, size |-> r.stat.size, spans |-> spans,
               len |-> r.written - r.begin]]

\* bootstrapFastCacheFromPBS: the records of a snapshot, read from its chunks.
\* The range begins at the payload header, and no length of it is kept.
Bootstrapped(s) ==
  LET p == Recorded(s.index)
  IN  IF p.bad \/ DOMAIN p.index = {} THEN records
      ELSE [f \in Files |->
             IF PathOf(f) \notin DOMAIN p.index THEN NoRecord
             ELSE LET pos == p.index[PathOf(f)]
                  IN  [ver |-> s.stats[f].ver, size |-> s.stats[f].size, len |-> 0,
                       spans |-> Spans(s.index, pos.at, pos.at + 1 + pos.size)]]

HasSpans(recs) == \E f \in Files : recs[f].spans # <<>>

-----------------------------------------------------------------------------
(* A run. *)

\* loadKnownChunks: the previous index, or chunks.json when there is none.
Trusted(full) ==
  CASE full -> {}
    [] ~full /\ Latest > 0 -> ToSet(snaps[Latest].index)
    [] OTHER -> known

\* ensureFastCache, newFastIncremental: a full run clears the records, another
\* one makes them from the previous snapshot when they hold no spans.
Records(full) ==
  CASE full -> NoRecords
    [] ~full /\ Latest > 0 /\ ~HasSpans(records) -> Bootstrapped(snaps[Latest])
    [] OTHER -> records

\* backupReal up to the walk.
NewRun(full) ==
  [pc |-> "walk", full |-> full, known |-> Trusted(full),
   reuse |-> HasSpans(Records(full)), prev |-> Records(full),
   todo |-> Walk, file |-> "", stat |-> NoFile, read |-> 0, begin |-> 0,
   current |-> <<>>, assigned |-> <<>>, written |-> 0,
   flying |-> {}, failed |-> FALSE, err |-> FALSE, cancelled |-> FALSE,
   recorder |-> NewParser({}, TRUE), live |-> NoRecords,
   stats |-> [f \in Files |-> NoFile],
   want |-> NoFunction, marks |-> {}, ticking |-> TRUE]

SaveCP(phase) == checkpoint' = phase

\* Run: the first checkpoint, the progress goroutine, then backupReal.
Begin ==
  /\ run = Idle /\ Len(snaps) < MaxRuns /\ result.runs < MaxRuns
  /\ \E full \in BOOLEAN :
       /\ known' = IF full THEN {} ELSE known
       /\ records' = Records(full)
       /\ run' = NewRun(full)
  /\ SaveCP("running")
  /\ result' = [result EXCEPT !.runs = @ + 1, !.last = "none"]
  /\ UNCHANGED <<cuts, disk, chunks, snaps, events>>

\* The run ends with an error: its checkpoint says so, the session is aborted
\* when all uploads have ended.
Fails(r) ==
  /\ r.flying = {}
  /\ run' = [r EXCEPT !.pc = "failed"]
  /\ SaveCP(IF r.cancelled THEN "cancelled" ELSE "error")

Walks(kind) ==
  run.pc = "walk" /\ run.todo # <<>> /\ ~run.cancelled /\ Head(run.todo)[1] = kind

Here == Head(run.todo)[2]
Further(r) == [r EXCEPT !.todo = Tail(@)]
Unchanged == UNCHANGED <<cuts, disk, chunks, snaps, known, records, checkpoint, result>>

EnterDir ==
  /\ Walks("dir")
  /\ run' = Further(Emit(run, DirHeader(Here)))
  /\ Unchanged /\ UNCHANGED events

LeaveDir ==
  /\ Walks("end")
  /\ run' = Further(Emit(run, <<Goodbye>>))
  /\ Unchanged /\ UNCHANGED events

\* os.ReadDir fails: without the option, and for the source itself, so does the run.
UnreadableDir ==
  /\ Walks("dir") /\ events < MaxEvents /\ events' = events + 1
  /\ IF SkipAccess /\ Here # ""
     THEN LET past == CHOOSE i \in DOMAIN run.todo : run.todo[i] = <<"end", Here>>
          IN  /\ run' = [run EXCEPT !.todo = SubSeq(@, past + 1, Len(@))]
              /\ Unchanged
     ELSE Fails(run) /\ UNCHANGED <<cuts, disk, chunks, snaps, known, records, result>>

\* A file that is gone since the directory was listed is skipped.
SkipFile ==
  /\ Walks("file") /\ disk[Here] = NoFile
  /\ run' = Further(run)
  /\ Unchanged /\ UNCHANGED events

\* lookupReuse, tryReuseFileChunks: the file is as the record says and is not read.
ReuseFile ==
  /\ Walks("file") /\ disk[Here] # NoFile
  /\ run.reuse /\ CanReuse(run.prev[Here], Here)
  /\ LET rec == run.prev[Here]
         r == EmitReused(run, Here, rec.size, rec.spans)
     IN  run' = Further([r EXCEPT !.live[Here] = rec, !.marks = @ \cup {"reused"},
                                  !.stats[Here] = disk[Here],
                                  !.want = Put(@, PathOf(Here), Body(Here))])
  /\ Unchanged /\ UNCHANGED events

\* Stat, then the header with the size of that moment.
OpenFile ==
  /\ Walks("file") /\ disk[Here] # NoFile
  /\ ~(run.reuse /\ CanReuse(run.prev[Here], Here))
  /\ LET r == [run EXCEPT !.begin = run.written, !.file = Here, !.stat = disk[Here],
                          !.stats[Here] = disk[Here], !.read = 0, !.pc = "read"]
     IN  run' = Emit(r, FileHeader(Here, disk[Here].size))
  /\ Unchanged /\ UNCHANGED events

\* One unit of the file, as long as there is one.
ReadFile ==
  /\ run.pc = "read" /\ ~run.cancelled /\ run.read < disk[run.file].size
  /\ run' = [Emit(run, <<Body(run.file)[run.read + 1]>>) EXCEPT !.read = @ + 1]
  /\ Unchanged /\ UNCHANGED events

\* What a file should be restored to, and what was wrong with it.
Closed(r) ==
  [Further(RecordFile(r)) EXCEPT
     !.pc = "walk", !.file = "",
     !.want = Put(@, PathOf(r.file), [i \in 1..r.read |-> Data(r.file, r.stat.ver)]),
     !.marks = @ \cup (IF r.read < r.stat.size THEN {"short"} ELSE {})
                 \cup (IF r.read > r.stat.size THEN {"grown"} ELSE {})
                 \cup (IF disk[r.file].ver # r.stat.ver THEN {"changed"} ELSE {})]

EndFile ==
  /\ run.pc = "read" /\ ~run.cancelled /\ run.read >= disk[run.file].size
  /\ run' = Closed(run)
  /\ Unchanged /\ UNCHANGED events

\* A read fails: the file counts as skipped, and what is written stays.
ReadFails ==
  /\ run.pc = "read" /\ ~run.cancelled /\ run.read < disk[run.file].size
  /\ events < MaxEvents /\ events' = events + 1
  /\ run' = Closed(run)
  /\ Unchanged

\* An upload ends: the chunk is stored, or the pipeline has its first error.
UploadEnds ==
  /\ run # Idle
  /\ \E c \in run.flying :
       \/ /\ chunks' = chunks \cup {c}
          /\ run' = [run EXCEPT !.flying = @ \ {c}]
          /\ UNCHANGED events
       \/ /\ events < MaxEvents /\ events' = events + 1
          /\ run' = [run EXCEPT !.flying = @ \ {c}, !.failed = TRUE]
          /\ UNCHANGED chunks
  /\ UNCHANGED <<cuts, disk, snaps, known, records, checkpoint, result>>

\* The walk is over, or was cancelled.
AbortScan ==
  /\ run.pc \in {"walk", "read"} /\ (run.cancelled \/ (run.todo = <<>> /\ run.err))
  /\ Fails(run)
  /\ UNCHANGED <<cuts, disk, chunks, snaps, known, records, result, events>>

\* eof: the last chunk.
Flush ==
  /\ run.pc = "walk" /\ run.todo = <<>> /\ ~run.err /\ ~run.cancelled
  /\ run' = [FlushPending(run) EXCEPT !.pc = "drain"]
  /\ Unchanged /\ UNCHANGED events

\* Variant: the end of the uploads is waited for, their error is not asked.
DrainedBlindly == run.flying = {}

\* wait: all uploads have ended and none of them failed.
Drained == run.flying = {} /\ ~run.err /\ ~run.failed /\ ~run.cancelled

\* The chunks are assigned to the index, and the index is closed.  A server
\* may look whether it has them.
Assign ==
  /\ run.pc = "drain"
  /\ \/ /\ Drained
        /\ run' = [run EXCEPT !.pc = "finish"]
        /\ UNCHANGED checkpoint
     \/ /\ ~Drained \/ ~(ToSet(run.assigned) \subseteq chunks)
        /\ Fails(run)
  /\ UNCHANGED <<cuts, disk, chunks, snaps, known, records, result, events>>

Snapshot ==
  [index |-> run.assigned, want |-> run.want, stats |-> run.stats, marks |-> run.marks,
   full |-> run.full, pruned |-> FALSE, risky |-> \E i \in DOMAIN snaps : snaps[i].pruned]

\* Manifest and Finish.  An answer that gets lost is an error to the client.
Finish ==
  /\ run.pc = "finish"
  /\ \/ /\ snaps' = Append(snaps, Snapshot)
        /\ run' = [run EXCEPT !.pc = "save"]
        /\ UNCHANGED <<checkpoint, events>>
     \/ /\ events < MaxEvents /\ events' = events + 1
        /\ snaps' \in {snaps, Append(snaps, Snapshot)}
        /\ Fails(run)
  /\ UNCHANGED <<cuts, disk, chunks, known, records, result>>

\* fi.save and saveLocalPxarIndex.
Save ==
  /\ run.pc = "save"
  /\ records' = IF HasSpans(run.live) THEN run.live ELSE records
  /\ run' = [run EXCEPT !.pc = "verify", !.ticking = FALSE]
  /\ UNCHANGED <<cuts, disk, chunks, snaps, known, checkpoint, result, events>>

\* VerifyAfterBackup: a time-out is a warning, anything else an error.
Verify ==
  /\ run.pc = "verify"
  /\ \/ /\ run' = [run EXCEPT !.pc = "known"]
        /\ UNCHANGED <<checkpoint, events>>
     \/ /\ events < MaxEvents /\ events' = events + 1
        /\ Fails(run)
  /\ UNCHANGED <<cuts, disk, chunks, snaps, known, records, result>>

\* chunkindex.Save and the last checkpoint.
Done ==
  /\ run.pc = "known"
  /\ known' = run.known
  /\ SaveCP("done")
  /\ run' = [run EXCEPT !.pc = "done"]
  /\ UNCHANGED <<cuts, disk, chunks, snaps, records, result, events>>

Return ==
  /\ run.pc \in {"done", "failed"}
  /\ run' = Idle
  /\ result' = [result EXCEPT !.last = run.pc]
  /\ UNCHANGED <<cuts, disk, chunks, snaps, known, records, checkpoint, events>>

\* Variant: the progress goroutine goes on until the run returns.
TicksOn == run # Idle

\* The progress goroutine: stopProgress ends it before a success is recorded,
\* but only the return of Run ends it after an error.
Ticks == run # Idle /\ run.ticking

Tick ==
  /\ Ticks
  /\ checkpoint # "running" /\ SaveCP("running")
  /\ UNCHANGED <<cuts, disk, chunks, snaps, known, records, run, result, events>>

\* ListInterruptedCheckpoints: any phase but the last one.
Listed == checkpoint \notin {"none", "done"}

-----------------------------------------------------------------------------
(* What happens around a run. *)

Cancel ==
  /\ run.pc \in Active /\ ~run.cancelled
  /\ events < MaxEvents /\ events' = events + 1
  /\ run' = [run EXCEPT !.cancelled = TRUE]
  /\ Unchanged

\* A file changes its size, or comes or goes.
ChangeFile ==
  /\ events < MaxEvents /\ events' = events + 1
  /\ \E f \in Files, n \in Sizes :
       disk' = [disk EXCEPT ![f] = [ver |-> events + 2, size |-> n]]
  /\ UNCHANGED <<cuts, chunks, snaps, known, records, run, checkpoint, result>>

RemoveFile ==
  /\ events < MaxEvents /\ events' = events + 1
  /\ \E f \in Files : disk[f] # NoFile /\ disk' = [disk EXCEPT ![f] = NoFile]
  /\ UNCHANGED <<cuts, chunks, snaps, known, records, run, checkpoint, result>>

\* The server forgets a snapshot and collects the chunks no other one needs.
Prune ==
  /\ run = Idle /\ events < MaxEvents /\ events' = events + 1
  /\ \E i \in DOMAIN snaps :
       /\ ~snaps[i].pruned
       /\ snaps' = [snaps EXCEPT ![i].pruned = TRUE]
       /\ chunks' = UNION {ToSet(snaps[j].index) :
                            j \in {k \in DOMAIN snaps : ~snaps[k].pruned} \ {i}}
  /\ UNCHANGED <<cuts, disk, known, records, run, checkpoint, result>>

\* The process dies: the server ends its session.
Crash ==
  /\ run # Idle /\ events < MaxEvents /\ events' = events + 1
  /\ run' = Idle /\ result' = [result EXCEPT !.last = "dead"]
  /\ UNCHANGED <<cuts, disk, chunks, snaps, known, records, checkpoint>>

Init ==
  /\ cuts \in Cuts
  /\ \E n \in Sizes : disk = [f \in Files |-> [ver |-> 1, size |-> n]]
  /\ chunks = {} /\ snaps = <<>> /\ known = {} /\ records = NoRecords
  /\ run = Idle /\ checkpoint = "none" /\ result = [runs |-> 0, last |-> "none"]
  /\ events = 0

Next ==
  \/ Begin \/ EnterDir \/ LeaveDir \/ UnreadableDir
  \/ SkipFile \/ ReuseFile \/ OpenFile \/ ReadFile \/ EndFile \/ ReadFails
  \/ UploadEnds \/ AbortScan \/ Flush \/ Assign \/ Finish \/ Save \/ Verify \/ Done \/ Return
  \/ Tick \/ Cancel \/ ChangeFile \/ RemoveFile \/ Prune \/ Crash

Spec == Init /\ [][Next]_vars

-----------------------------------------------------------------------------
(* Properties *)

\* Types; and the bytes counted for the records of files (pxarStreamBytes) are
\* those that went to the chunks, with and without reuse (backup.go:411).
TypeOK ==
  /\ cuts \in Cuts /\ events \in 0..MaxEvents
  /\ \A f \in Files : disk[f].size \in Sizes \cup {0} /\ DOMAIN records[f] = DOMAIN NoRecord
  /\ run.pc \in Active \cup {"idle", "done", "failed"}
  /\ run = Idle \/ run.err \/ run.written = Len(FlattenSeq(run.assigned)) + Len(run.current)
  /\ checkpoint \in {"none", "running", "error", "cancelled", "done"}
  /\ result.last \in {"none", "done", "failed", "dead"}

\* A snapshot refers to chunks that the server stores, although most digests are
\* trusted and uploads run on their own (upload_pipeline.go:104): for a full run,
\* and as long as the server has not pruned what earlier runs relied on.
ChunksThere ==
  \A i \in DOMAIN snaps :
    ~snaps[i].pruned /\ (snaps[i].full \/ ~snaps[i].risky) => ToSet(snaps[i].index) \subseteq chunks

\* chunks.json never lists a chunk the server did not get (runner.go:409), so that
\* the next run may trust it: whatever failed, was cancelled, or died in between.
KnownWasStored ==
  (\A i \in DOMAIN snaps : ~snaps[i].pruned) => known \subseteq chunks

\* The clean end of a walk: nothing changed while it was read, nothing was reused.
Clean(s) == s.marks = {}
JustCommitted == run.pc = "save"
This == snaps[Len(snaps)]

\* What a restore without an index writes is what was read (pxar_stream_restore.go:154),
\* wherever the chunks of the stream begin and whichever files are wanted.
SequentialIsExact ==
  JustCommitted /\ Clean(This) =>
    \A wanted \in SUBSET DOMAIN This.want :
      LET p == SequentialRestore(This.index, wanted)
      IN  \A path \in DOMAIN p.found : p.found[path] = This.want[path]

\* With the index that the run recorded every file is restored as it was read,
\* whichever files are wanted together (pxar_index.go:305); and with the part of
\* an index that an earlier restore has left, every file that is found
\* (pxar_stream_restore.go:661, resolvePxarIndex).
IndexedIsExact ==
  JustCommitted /\ Clean(This) =>
    \A wanted \in (SUBSET DOMAIN This.want) \ {{}} :
      /\ Restored(This.index, run.recorder.index, wanted) = [path \in wanted |-> This.want[path]]
      /\ \A first \in SUBSET DOMAIN This.want :
           LET left == LocalIndex(SequentialRestore(This.index, first))
               found == Restored(This.index, left, wanted)
           IN  \A path \in DOMAIN found : found[path] = This.want[path]

\* A file that grows while it is read never gets into a snapshot: the recorder
\* meets data where an entry should be, and the run fails (backup.go:473).  Only
\* after a file that shrank may the parser swallow it all.
GrownIsRefused ==
  \A i \in DOMAIN snaps : "grown" \in snaps[i].marks => "short" \in snaps[i].marks

\* What the next run may take from the records without reading (pbs_fileindex.go:116)
\* is the entry of the file as it is on the disk.
ReuseIsCurrent ==
  run.pc = "verify" /\ Clean(This) =>
    \A f \in Files :
      CanReuse(records[f], f) /\ run.live[f] = records[f] =>
        FlattenSeq([i \in DOMAIN records[f].spans |-> records[f].spans[i].chunk])
          = FileHeader(f, disk[f].size) \o Body(f)

\* A job whose last run did not succeed has a checkpoint that lists it as
\* interrupted (checkpoint.go:92), and a job whose run succeeded has none: the
\* progress goroutine, a cancellation and a death come at any moment.
InterruptedIsListed ==
  run = Idle =>
    /\ result.last = "done" => ~Listed
    /\ result.last = "failed" => Listed

\* Every file of a committed snapshot can be restored without a local index.
Restorable ==
  JustCommitted /\ Clean(This) =>
    LET p == SequentialRestore(This.index, DOMAIN This.want) IN DOMAIN p.found = DOMAIN This.want

=============================================================================
