------------------------------- MODULE Restore ------------------------------
(***************************************************************************)
(* Restoring files of a snapshot: restore.Service and the loop of the      *)
(* window application around it, for the archives of FTP and SMB folders   *)
(* (filerestore, "zip") and for those of a Proxmox server (pbsbackup,      *)
(* "pbs").                                                                 *)
(*                                                                         *)
(* A path is the sequence of its names.  The sources of the job decide the *)
(* paths of the catalogue (backuproot.Resolve); the user selects files and *)
(* folders of the catalogue and a folder to put them in, or their original *)
(* place.  The selection becomes a set of targets, each a file and its     *)
(* destination, that are written one after the other; a destination that   *)
(* exists is overwritten, renamed to a backup name stamped with the        *)
(* second, or asked about.  Every step can fail, be cancelled, or be the   *)
(* last one of the process.                                                *)
(*                                                                         *)
(* Left out: letter case, the order in which targets are written (the      *)
(* sorted one for zip, that of the archive for pbs: any order here), the   *)
(* archive the bytes come from (FileChain, PxarStream), and selections    *)
(* that the catalogue does not have.                                       *)
(***************************************************************************)
EXTENDS Naturals, Sequences, SequencesExt, FiniteSets

CONSTANTS
  JobSources,  \* the lists of sources: each a sequence of paths
  Disk,        \* the files that lie under the sources, as full paths
  Roots,       \* destination folders; <<>> asks for the original place
  Destinations, \* archives: a subset of {"zip", "pbs"}
  MaxSelected, \* bound: paths in one selection
  MaxSecond    \* bound: seconds that pass during a restore

\* What the constants must satisfy: a job that was run has a source, and
\* a file is no folder of another file.
RestoreAssumption ==
  /\ Destinations \subseteq {"zip", "pbs"}
  /\ MaxSelected \in Nat \ {0} /\ MaxSecond \in Nat
  /\ \A job \in JobSources : job \in Seq(Seq(STRING)) /\ Len(job) > 0
  /\ Disk \subseteq Seq(STRING) /\ Roots \subseteq Seq(STRING)
  /\ \A f, g \in Disk : IsPrefix(g, f) => f = g

VARIABLES
  sources,  \* Job.Sources
  req,      \* the request: kind of archive, operation, selection, root, overwrite mode
  force,    \* RestoreRequest.Overwrite: the user agreed to overwrite
  had,      \* destinations that held a file of the user before the restore
  fs,       \* what every destination holds
  bak,      \* what every backup name of a destination holds, by second
  second,   \* the clock
  targets,  \* what is restored, each file with its destination
  todo,     \* targets still to be written
  cur,      \* the target in work
  fresh,    \* the destination of cur did not exist when it was looked at
  restored, \* destinations this attempt has created
  pc        \* where the restore is

writing ==
  <<sources, req, force, had, fs, bak, second, targets, todo, cur, fresh, restored, pc>>

None == <<>>           \* no file
Original == <<"own">>  \* the file of the user

-----------------------------------------------------------------------------
(* From sources to the catalogue. *)

Numbered == <<"", "_2", "_3", "_4">>

\* backuproot.Resolve: the name under which every source is staged.  A label
\* taken before gets a number; the count is that of the label as it came out.
Labels(job) ==
  LET label[i \in 1..Len(job)] ==
        LET base == Last(job[i])
            used == Cardinality({j \in 1..(i - 1) : label[j] = base})
        IN base \o Numbered[used + 1]
  IN label

\* createJunction: a link that exists already is left as it is.
Staged(job) ==
  {i \in 1..Len(job) : \A j \in 1..(i - 1) : Labels(job)[j] # Labels(job)[i]}

Under(path, folder) == IsPrefix(folder, path)

Below(path, folder) == SubSeq(path, Len(folder) + 1, Len(path))

\* The catalogue path of a file that source i holds: relative to the source
\* when there is one, to the staging folder when there are several.
CatalogPath(job, i, path) ==
  IF Len(job) = 1 THEN Below(path, job[i])
  ELSE <<Labels(job)[i]>> \o Below(path, job[i])

\* Every file of the catalogue with the place it was read from.
Entries(job) ==
  {[file |-> CatalogPath(job, e[1], e[2]), home |-> e[2]] :
     e \in {x \in Staged(job) \X Disk : Under(x[2], job[x[1]])}}

Catalog == {e.file : e \in Entries(sources)}

Folders == UNION {{SubSeq(f, 1, n) : n \in 1..(Len(f) - 1)} : f \in Catalog}

-----------------------------------------------------------------------------
(* From the selection to targets. *)

\* filerestore.isFolderSelection: some file lies below the path.
IsFolder(path) == \E f \in Catalog : Under(f, path) /\ f # path

\* pickSourceRoot: with several sources, the longest of those whose last name
\* is the first name of a path below it; else the first source.
PickSourceRoot(path) ==
  LET named == {i \in 1..Len(sources) : Len(path) > 1 /\ Last(sources[i]) = Head(path)}
      longest == {i \in named : \A j \in named : Len(sources[j]) <= Len(sources[i])}
  IN IF Len(sources) = 1 \/ named = {} THEN sources[1]
     ELSE sources[CHOOSE i \in longest : \A j \in longest : i <= j]

\* ResolveOriginalDest: the path is joined to the source as it stands.
OriginalDest(path) == PickSourceRoot(path) \o path

\* resolveFolderDest: a root named like the selected folder is that folder.
FolderDest(file, root, folder) ==
  IF Last(root) = Last(folder) THEN root \o Below(file, folder) ELSE root \o file

\* resolveFileDest, resolveBatchDest without a folder.
FileDest(file) == IF req.root = <<>> THEN OriginalDest(file) ELSE req.root \o file

\* resolveBatchDest for a file of a selected folder.
BatchDest(file, folder) ==
  FolderDest(file, IF req.root = <<>> THEN OriginalDest(folder) ELSE req.root, folder)

\* Variant: any shorter selection covers the file.
CoveredByAny(file, sel) == \E other \in req.sel \ {sel} : Len(other) < Len(sel)

\* coveredByShorterPrefix.
Covered(file, sel) ==
  \E other \in req.sel \ {sel} : Len(other) < Len(sel) /\ Under(file, other)

\* RestoreFolder, and collectBatchTargets for a selected folder: the files of
\* the catalogue that lie under it.
FolderTargets(folder) ==
  {[file |-> f, dest |-> BatchDest(f, folder)] :
     f \in {x \in Catalog : Under(x, folder) /\ ~Covered(x, folder)}}

\* filerestore.collectBatchTargets: shorter selections first, a file once.
ZipTargets ==
  {[file |-> s, dest |-> FileDest(s)] :
     s \in {x \in req.sel : ~IsFolder(x) /\ ~Covered(x, x)}}
    \cup UNION {FolderTargets(s) : s \in {x \in req.sel : IsFolder(x)}}

\* collectBatchTargetsStreaming: a file that is selected itself comes first,
\* even when a selected folder holds it.
PbsTargets ==
  {[file |-> s, dest |-> FileDest(s)] : s \in {x \in req.sel : ~IsFolder(x)}}
    \cup {t \in UNION {FolderTargets(s) : s \in {x \in req.sel : IsFolder(x)}} :
            t.file \notin req.sel}

Targets == IF req.kind = "zip" THEN ZipTargets ELSE PbsTargets

Dests == {t.dest : t \in targets}

-----------------------------------------------------------------------------
(* Writing the targets. *)

Requests ==
  [kind : Destinations, op : {"file", "folder", "batch"},
   sel : UNION {kSubset(n, Catalog \cup Folders) : n \in 1..MaxSelected},
   root : Roots, mode : {"overwrite", "backup", "ask"}]

\* Service.Restore, filerestore.RestoreFile: one file.
FileRequest(r) == r.op = "file" /\ \E f \in Catalog : r.sel = {f}

\* Service.RestoreFolder: what lies below one folder.
FolderRequest(r) == r.op = "folder" /\ \E f \in Folders : r.sel = {f}

\* Service.RestoreBatch: files and folders.
BatchRequest(r) == r.op = "batch"

RestoreInit ==
  /\ sources \in JobSources
  /\ req \in {r \in Requests : FileRequest(r) \/ FolderRequest(r) \/ BatchRequest(r)}
  /\ force \in BOOLEAN
  /\ targets = Targets
  /\ had \in SUBSET Dests
  /\ fs = [d \in Dests |-> IF d \in had THEN Original ELSE None]
  /\ bak = [d \in Dests |-> [s \in 0..MaxSecond |-> None]]
  /\ second = 0
  /\ todo = targets
  /\ cur = {}
  /\ fresh = FALSE
  /\ restored = {}
  /\ pc = "start"

Fixed == <<sources, req, targets, had>>

\* Variant: asked once, the answer counts for the modes of later files too.
RefusesFirst(d, mode) == fs[d] # None /\ mode = "ask" /\ ~force /\ restored = {}

\* PrepareExistingDest, mode "ask": error file_exists.
Refuses(d, mode) == fs[d] # None /\ mode = "ask" /\ ~force

\* PrepareExistingDest on a destination it does not refuse: in mode "backup"
\* the file gets a name with the second in it.
Prepare(d, mode) ==
  IF fs[d] # None /\ mode = "backup" /\ ~force
  THEN /\ bak' = [bak EXCEPT ![d][second] = fs[d]]
       /\ fs' = [fs EXCEPT ![d] = None]
  ELSE UNCHANGED <<bak, fs>>

\* The deferred clean-up of restoreTargetsWithPreset: what this attempt has
\* created is removed.  RestoreFile and the pbs restores have none.
CleanUp ==
  IF req.kind = "zip" /\ req.op # "file"
  THEN fs' = [d \in Dests |-> IF d \in restored THEN None ELSE fs[d]]
  ELSE UNCHANGED fs

\* Service.Restore looks at the destination of its file before anything else.
Start ==
  /\ pc = "start"
  /\ \/ /\ req.op # "file"
        /\ pc' = "next"
        /\ UNCHANGED <<fs, bak>>
     \/ \E t \in {x \in todo : req.op = "file"} :
          IF Refuses(t.dest, req.mode)
          THEN pc' = "exists" /\ UNCHANGED <<fs, bak>>
          ELSE pc' = "next" /\ Prepare(t.dest, req.mode)
  /\ UNCHANGED <<Fixed, force, second, todo, cur, fresh, restored>>

\* Variant: every restore from a Proxmox server overwrites.
ModeOfFile == IF req.kind = "pbs" THEN "overwrite" ELSE req.mode

\* RestoreFileWithProgress overwrites: its destination was looked at before.
Mode == IF req.kind = "pbs" /\ req.op = "file" THEN "overwrite" ELSE req.mode

\* restoreTargetsWithPreset, beginReadPayload: the destination is looked at
\* and prepared.
Open(t) ==
  /\ pc = "next" /\ t \in todo
  /\ cur' = {t}
  /\ fresh' = (fs[t.dest] = None)
  /\ IF Refuses(t.dest, Mode)
     THEN pc' = "exists" /\ CleanUp /\ UNCHANGED bak
     ELSE pc' = "write" /\ Prepare(t.dest, Mode)
  /\ UNCHANGED <<Fixed, force, second, todo, restored>>

\* WriteRestoredFileFromReader: the bytes go to a file of their own name that
\* replaces the destination when they are complete.
Write(t) ==
  /\ pc = "write" /\ t \in cur
  /\ fs' = [fs EXCEPT ![t.dest] = t.file]
  /\ restored' = IF fresh THEN restored \cup {t.dest} ELSE restored
  /\ pc' = "meta"
  /\ UNCHANGED <<Fixed, force, bak, second, todo, cur, fresh>>

\* filemeta.ApplyFile; the target is done.
Apply(t) ==
  /\ pc = "meta" /\ t \in cur
  /\ todo' = todo \ cur
  /\ cur' = {}
  /\ pc' = "next"
  /\ UNCHANGED <<Fixed, force, fs, bak, second, fresh, restored>>

\* RestoreFolder and RestoreBatch return the number of files when all of their
\* targets are written.
Done ==
  /\ pc = "next" /\ todo = {}
  /\ pc' = "ok"
  /\ UNCHANGED <<Fixed, force, fs, bak, second, todo, cur, fresh, restored>>

\* Variant: a failure after the bytes are written skips the clean-up.
BreakAtOnce ==
  /\ pc \in {"next", "write", "meta"}
  /\ pc' = "failed"
  /\ IF pc = "meta" THEN UNCHANGED fs ELSE CleanUp
  /\ UNCHANGED <<Fixed, force, bak, second, todo, cur, fresh, restored>>

\* The archive cannot be opened, bytes do not come, access rights cannot be
\* set, or CancelRestore stops the context.
Break ==
  /\ pc \in {"next", "write", "meta"}
  /\ pc' = "failed"
  /\ CleanUp
  /\ UNCHANGED <<Fixed, force, bak, second, todo, cur, fresh, restored>>

\* restoreFileSync, restoreFolderSync, restoreBatchSync: the user is asked
\* once; with Yes everything is restored again, overwriting.
Answer(yes) ==
  /\ pc = "exists"
  /\ IF yes
     THEN pc' = "start" /\ force' = TRUE /\ todo' = targets
     ELSE pc' = "failed" /\ UNCHANGED <<force, todo>>
  /\ cur' = {} /\ restored' = {} /\ fresh' = FALSE
  /\ UNCHANGED <<Fixed, fs, bak, second>>

SecondPasses ==
  /\ pc \in {"next", "write", "meta"} /\ second < MaxSecond
  /\ second' = second + 1
  /\ UNCHANGED <<Fixed, force, fs, bak, todo, cur, fresh, restored, pc>>

\* The process ends between two steps.
Dies ==
  /\ pc \notin {"ok", "failed", "dead"}
  /\ pc' = "dead"
  /\ UNCHANGED <<Fixed, force, fs, bak, second, todo, cur, fresh, restored>>

RestoreNext ==
  \/ Start
  \/ \E t \in todo : Open(t)
  \/ \E t \in cur : Write(t) \/ Apply(t)
  \/ Done \/ Break
  \/ \E yes \in BOOLEAN : Answer(yes)
  \/ SecondPasses \/ Dies

RestoreSpec == RestoreInit /\ [][RestoreNext]_writing

-----------------------------------------------------------------------------
(* Properties. *)

Wanted == {f \in Catalog : \E s \in req.sel : Under(f, s)}

\* No two targets share a destination.  The code does not see to it: two
\* selected folders with the name of the root are both put into the root.
Distinct == \A t, u \in targets : t.dest = u.dest => t = u

\* Every variable has its type; what the clean-up would remove are
\* destinations (the list restored of restoreTargetsWithPreset).
TypeOK ==
  /\ sources \in JobSources /\ req.kind \in Destinations /\ force \in BOOLEAN
  /\ had \subseteq Dests /\ restored \subseteq Dests
  /\ DOMAIN fs = Dests /\ DOMAIN bak = Dests
  /\ second \in 0..MaxSecond
  /\ todo \subseteq targets /\ cur \subseteq todo
  /\ pc \in {"start", "next", "write", "meta", "exists", "ok", "failed", "dead"}

\* A restore that reports success has written every selected file, those of
\* selected folders included and each once, and nothing else: to the root, or
\* with one source to the very place it was backed up from
\* (collectBatchTargets, coveredByShorterPrefix, ResolveOriginalDest).
Complete ==
  pc = "ok" /\ Distinct =>
    /\ {t.file : t \in targets} = Wanted
    /\ \A t \in targets :
         /\ fs[t.dest] = t.file
         /\ req.root # <<>> => Under(t.dest, req.root)
         /\ req.root = <<>> /\ Len(sources) = 1 =>
              [file |-> t.file, home |-> t.dest] \in Entries(sources)

\* A file of the user is where it was or under a backup name, whatever fails,
\* is cancelled or dies, unless overwriting was chosen or agreed to
\* (PrepareExistingDest, clean-up of restoreTargetsWithPreset).
NothingLost ==
  req.mode # "overwrite" /\ ~force /\ Distinct =>
    \A d \in had : fs[d] = Original \/ \E s \in 0..MaxSecond : bak[d][s] = Original

\* In mode "ask" a file of the user is never touched before the user agrees,
\* also when several files have been restored before (PrepareExistingDest,
\* restoreBatchSync).
AskedFirst == req.mode = "ask" /\ ~force => \A d \in had : fs[d] = Original

\* A restore of an archive's folder or batch that ends without success leaves
\* no file where there was none (the deferred clean-up of
\* restoreTargetsWithPreset).
NothingLeft ==
  req.kind = "zip" /\ req.op # "file" /\ pc \in {"failed", "exists"} /\ ~force =>
    \A d \in Dests \ had : fs[d] = None
=============================================================================
