------------------------------ MODULE FileChain -----------------------------
(***************************************************************************)
(* Incremental backups of a job's files to an FTP or SMB folder:           *)
(* filebackup.Run, the local index fileindex.json it reads and replaces,   *)
(* and the snapshot that filerestore.buildSnapshotView reads back.         *)
(*                                                                         *)
(* A run scans the sources, packs the changed files into one zip, uploads  *)
(* the zip, then its manifest (the chain of archives it depends on and the *)
(* deleted files), then the metadata of the whole snapshot, and only then  *)
(* replaces the index.  Every one of these steps can fail and be rolled    *)
(* back, the rollback can fail too, the process can die between two of     *)
(* them, and the files change meanwhile.                                   *)
(*                                                                         *)
(* The bytes of a file are a number: every write gives it a new one, and   *)
(* with it a new size or a new second of modification (NeedsContentBackup  *)
(* sees nothing else).  So is its access control list.  Archives are named *)
(* in the order of their runs: the code stamps the name with the second,   *)
(* and two runs of a job are more than a second apart.  A run that leaves  *)
(* nothing behind gives its name back, so that the number of failed runs   *)
(* has no bound.                                                           *)
(***************************************************************************)
EXTENDS Integers, Sequences, SequencesExt, FiniteSets

CONSTANTS
  Files,      \* the paths of the catalogue
  MaxArchives, \* bound: archives at the destination or in the index
  MaxEvents,  \* bound: changes of the files by their user, and faults: network errors,
              \* unreadable files, deaths of the process, emptied folders
  SkipAccess, \* Job.SkipAccessErrors: go on without what cannot be read
  SkipRatio   \* significantSkipRatioNum: a run fails when skipped * SkipRatio > total

ASSUME FileChainAssumption ==
  /\ MaxArchives \in Nat \ {0} /\ MaxEvents \in Nat /\ SkipRatio \in Nat
  /\ SkipAccess \in BOOLEAN

VARIABLES
  disk,    \* the files of the job: body 0 when there is no such file
  edits,   \* changes made so far, also the source of new bodies and lists
  faults,  \* faults so far
  index,   \* fileindex.json
  remote,  \* which parts of every archive lie at the destination
  made,    \* what the run of that name put, or meant to put, into its parts
  name,    \* the archive of the current run
  pc,      \* what the current run does next
  run,     \* the variables of the current run
  window,  \* bodies every file has had since it was scanned
  truth    \* for every archive, what a reader of the snapshot may find

vars == <<disk, edits, faults, index, remote, made, name, pc, run, window, truth>>

Names == 1..MaxArchives
Parts == {"zip", "manifest", "meta"}
Stamps == 0..MaxEvents + 1
Nothing == [body |-> 0, acl |-> 0]
Records == [body: Stamps, acl: Stamps]
NoFiles == [f \in Files |-> 0]
NoIndex == [archives |-> <<>>, files |-> [f \in Files |-> Nothing], meta |-> NoFiles]
NoArchive == [kind |-> "none", zip |-> NoFiles, chain |-> <<>>, deleted |-> {}, meta |-> NoFiles]
NoRun == [kind |-> "none", scan |-> [f \in Files |-> Nothing],
          blocked |-> {}, skipped |-> {}]

NoTruth == [f \in Files |-> [bodies |-> {}, acl |-> 0]]

Present(r) == {f \in Files : r[f].body # 0}

Init ==
  /\ disk = [f \in Files |-> [body |-> 1, acl |-> 1]]
  /\ edits = 0 /\ faults = 0
  /\ index = NoIndex
  /\ remote = [n \in Names |-> {}]
  /\ made = [n \in Names |-> NoArchive]
  /\ name = 0
  /\ pc = "idle"
  /\ run = NoRun
  /\ window = [f \in Files |-> {}]
  /\ truth = [n \in Names |-> NoTruth]

-----------------------------------------------------------------------------
(* Index, manifest and metadata: pure functions of the store and the scan. *)

\* BaseFull, and whether the destination has it.
Base == IF index.archives = <<>> THEN 0 ELSE Head(index.archives)

LastArchive == IF index.archives = <<>> THEN 0 ELSE Last(index.archives)

BaseThere == Base # 0 /\ "zip" \in remote[Base]

\* fileindex.NeedsContentBackup: no record, or another size or second.
NeedsContent(f) == index.files[f].body # run.scan[f].body

\* fileindex.NeedsACLBackup.
NeedsACL(f) == index.files[f].acl # run.scan[f].acl

Scanned == Present(run.scan)

\* What goes into the zip: everything, or what changed since the index.
Planned ==
  IF run.kind = "full" THEN Scanned ELSE {f \in Scanned : NeedsContent(f)}

\* Variant: what could not be read counts as deleted.
DeletedUnseen == IF run.kind = "full" THEN {} ELSE Present(index.files) \ Scanned

\* computeDeleted: known to the index, not seen by the scan, and not under a
\* directory that the scan could not read.
Deleted ==
  IF run.kind = "full" THEN {}
  ELSE Present(index.files) \ (Scanned \cup run.blocked)

\* The files that are in the zip: planned, and readable when it was packed.
Archived == Planned \ run.skipped

\* buildManifest: the base, the recorded incrementals, and the new archive.
ManifestChain == IF run.kind = "full" THEN <<name>> ELSE Append(index.archives, name)

\* Variant: the metadata of changed bytes only.
SnapshotMetaOfContent ==
  [f \in Files |->
     IF run.kind = "full" THEN IF f \in Archived THEN run.scan[f].acl ELSE 0
     ELSE IF f \in Deleted THEN 0
     ELSE IF f \in Scanned /\ NeedsContent(f) THEN run.scan[f].acl
     ELSE index.meta[f]]

\* buildSnapshotMeta.
SnapshotMeta ==
  [f \in Files |->
     IF run.kind = "full" THEN IF f \in Archived THEN run.scan[f].acl ELSE 0
     ELSE IF f \in Deleted THEN 0
     ELSE IF f \in Scanned /\ (NeedsContent(f) \/ NeedsACL(f)) THEN run.scan[f].acl
     ELSE index.meta[f]]

\* Variant: the index records what was scanned, packed or not.
NewIndexOfScan ==
  [archives |-> ManifestChain,
   files |-> [f \in Files |-> IF f \in Scanned THEN run.scan[f] ELSE Nothing],
   meta |-> SnapshotMeta]

\* updateStore: what the index says after the run.
NewIndex ==
  [archives |-> ManifestChain,
   files |->
     [f \in Files |->
        IF f \in Archived THEN run.scan[f]
        ELSE IF run.kind = "full" \/ f \in Deleted THEN Nothing
        ELSE IF index.files[f] # Nothing /\ f \in Scanned /\ NeedsACL(f)
             THEN [index.files[f] EXCEPT !.acl = run.scan[f].acl]
        ELSE index.files[f]],
   meta |->
     [f \in Files |->
        IF f \in Archived THEN run.scan[f].acl
        ELSE IF run.kind = "full" \/ f \in Deleted THEN 0
        ELSE IF index.files[f] # Nothing /\ f \in Scanned /\ NeedsACL(f)
             THEN run.scan[f].acl
        ELSE index.meta[f]]]

\* checkSignificantSkips.
TooManySkipped(skips) ==
  skips # {} /\ Cardinality(skips) * SkipRatio > Cardinality(Scanned)

-----------------------------------------------------------------------------
(* The snapshot a reader gets.                                             *)

\* listArchives: the snapshots a restore can choose from are the zips that lie
\* at the destination, in the order of their names.
Archives == {n \in Names : "zip" \in remote[n]}

\* loadArchiveMeta: a snapshot whose metadata are not there has none.
MetaOf(n) == IF "meta" \in remote[n] THEN made[n].meta ELSE NoFiles

\* The chain of archives: from the manifest, or only the archive itself when it
\* is a full one without a manifest.
ChainOf(n) == IF "manifest" \in remote[n] THEN made[n].chain ELSE <<n>>

\* buildSnapshotView succeeds: the manifest of every archive but a full target,
\* and every zip of the chain.
Builds(n) ==
  /\ n \in Archives
  /\ made[n].kind = "incremental" => "manifest" \in remote[n]
  /\ \A m \in ToSet(ChainOf(n)) \ {n} : {"zip", "manifest"} \subseteq remote[m]

\* An archive settles a file when the file is in its zip or its manifest calls it
\* deleted.
Settles(n, f) == made[n].zip[f] # 0 \/ f \in made[n].deleted

\* The place in a chain of the last archive that settles a file.
LastWord(chain, f) ==
  {k \in DOMAIN chain : /\ Settles(chain[k], f)
                        /\ \A j \in DOMAIN chain : Settles(chain[j], f) => j <= k}

\* buildSnapshotView lays the archives of the chain over one another, of each the
\* deletions first and then the entries: what the last word on a file says counts.
ChainView(chain) ==
  [f \in Files |-> IF LastWord(chain, f) = {} THEN 0
                   ELSE made[chain[CHOOSE k \in LastWord(chain, f) : TRUE]].zip[f]]

View(n) == ChainView(ChainOf(n))

-----------------------------------------------------------------------------
(* The user, and the sources during a run.                                 *)

\* The files matter only until the archive is packed: changes after that are
\* those before the next scan.
Edit(f) ==
  /\ edits + faults < MaxEvents /\ pc \in {"idle", "pack"}
  /\ edits' = edits + 1
  /\ \/ disk' = [disk EXCEPT ![f].body = edits + 2, ![f].acl = IF @ = 0 THEN 1 ELSE @]
     \/ disk[f].body # 0 /\ disk' = [disk EXCEPT ![f] = Nothing]
     \/ disk[f].body # 0 /\ disk' = [disk EXCEPT ![f].acl = edits + 2]
  /\ window' = [window EXCEPT ![f] = IF pc = "pack" THEN @ \cup {disk'[f].body} ELSE @]
  /\ UNCHANGED <<faults, index, remote, made, name, pc, run, truth>>

Faulty(n) == edits + faults + n <= MaxEvents /\ faults' = faults + n

Fault == Faulty(1)

\* The end of a run, well or badly, with "parts" as the contents of the archives.
Finish(parts) ==
  /\ pc' = "idle" /\ name' = 0
  /\ run' = NoRun
  /\ window' = [f \in Files |-> {}]
  /\ made' = [n \in Names |-> IF remote'[n] = {} THEN NoArchive ELSE parts[n]]
  /\ truth' = [n \in Names |-> IF remote'[n] = {} THEN NoTruth ELSE truth[n]]

Fail == UNCHANGED <<index, remote>> /\ Finish(made)

\* Names that cannot be given to another archive now.
Taken == {n \in Names : remote[n] # {}} \cup ToSet(index.archives)

\* Variant: a run goes on with the last archive.
NextNameAgain(n) == n = IF LastArchive = 0 THEN 1 ELSE LastArchive

\* The name of the run's archive: later than every archive there is.
NextName(n) == (\A m \in Taken : m < n) /\ (n = 1 \/ n - 1 \in Taken)

\* scanFiles: the files of the disk but those that cannot be looked at.
ScanFiles(blocked) ==
  [f \in Files |-> IF f \in blocked THEN Nothing ELSE disk[f]]

\* Run up to the decision what to archive.  ForceFull removes the index first.
\* The base is looked up at the destination, and a network error reads as
\* "not there".
Scan(force, blocked) ==
  LET store == IF force THEN NoIndex ELSE index
      scan == ScanFiles(blocked)
  IN
  /\ pc = "idle"
  /\ blocked # {} => SkipAccess
  /\ \E f \in Files : scan[f].body # 0
  /\ \E n \in Names : NextName(n) /\ name' = n
  /\ index' = store
  /\ \E found \in BOOLEAN :
       /\ found => ~force /\ BaseThere
       /\ Faulty((IF blocked # {} THEN 1 ELSE 0)
                 + IF ~found /\ ~force /\ BaseThere THEN 1 ELSE 0)
       /\ run' = [kind |-> IF found THEN "incremental" ELSE "full",
                  scan |-> scan, blocked |-> blocked, skipped |-> {}]
  /\ pc' = "pack"
  /\ window' = [f \in Files |-> {scan[f].body} \ {0}]
  /\ UNCHANGED <<disk, edits, remote, made, truth>>

WorkToDo ==
  \/ run.kind = "full" \/ Planned # {} \/ Deleted # {}
  \/ \E f \in Scanned : NeedsACL(f)

\* An incremental run with nothing to do looks for the last archive and ends,
\* well or badly.
NothingToDo ==
  /\ pc = "pack" /\ ~WorkToDo
  /\ Fail
  /\ UNCHANGED <<disk, edits, faults>>

\* writeZip: every file was read at some moment since its scan.
ZipsOf(archived) ==
  {zip \in [Files -> Stamps] :
     \A f \in Files : IF f \in archived THEN zip[f] \in window[f] \ {0}
                                         ELSE zip[f] = 0}

\* What a reader may find in the snapshot of this run: for a file that could not
\* be read, what the snapshot before shows.
TruthOf(skipped) ==
  [f \in Files |->
     LET before == IF run.kind = "full" THEN [bodies |-> {0}, acl |-> 0]
                   ELSE truth[LastArchive][f]
     IN [bodies |-> IF f \in skipped \cup run.blocked THEN before.bodies
                    ELSE IF f \in Scanned THEN window[f] \ {0}
                    ELSE {0},
         acl |-> IF f \in Scanned THEN run.scan[f].acl ELSE before.acl]]

\* The packing and the checks of its result.  A planned file that is gone or
\* locked now is skipped, or ends the run.  From here on the content of the
\* archive is settled.
Pack(skipped) ==
  LET archived == Planned \ skipped
  IN
  /\ pc = "pack" /\ WorkToDo
  /\ skipped \subseteq Planned
  /\ IF \/ skipped # {} /\ ~SkipAccess
        \/ archived = {} /\ (run.kind = "full" \/ Planned # {})
        \/ TooManySkipped(skipped \cup run.blocked)
     THEN Fail
     ELSE /\ run' = [run EXCEPT !.skipped = skipped]
          /\ \E zip \in ZipsOf(archived) :
               made' = [made EXCEPT ![name] =
                         [NoArchive EXCEPT !.kind = run.kind, !.zip = zip]]
          /\ truth' = [truth EXCEPT ![name] = TruthOf(skipped)]
          /\ pc' = "zip"
          /\ window' = [f \in Files |-> {}]
          /\ UNCHANGED <<index, remote, name>>
  /\ Faulty(IF skipped = {} THEN 0 ELSE 1)
  /\ UNCHANGED <<disk, edits>>

\* A read error in the middle of a file, or the cancellation of the run.
PackFails ==
  /\ pc = "pack"
  /\ Fail
  /\ UNCHANGED <<disk, edits, faults>>

-----------------------------------------------------------------------------
(* The uploads.  Upload writes <name>.partial, compares the size and       *)
(* renames; uploadArchive then compares the hash and removes what differs. *)

\* Variant: the rollback removes the archive the index ends with as well.
RollbackLast(parts) ==
  /\ remote' = [n \in Names |-> IF n = name \/ n = LastArchive THEN {} ELSE remote[n]]
  /\ UNCHANGED faults

\* What rollbackRemoteBackup and the removals after it may leave behind: nothing,
\* or anything of this run when the network fails them as well.
Rollback(parts) ==
  \/ remote' = [remote EXCEPT ![name] = {}] /\ UNCHANGED faults
  \/ Fault /\ \E left \in SUBSET parts : remote' = [remote EXCEPT ![name] = left]

\* Upload, then VerifyUploaded agrees on size and hash.
Uploaded(part, next, parts) ==
  /\ remote' = [remote EXCEPT ![name] = @ \cup {part}]
  /\ made' = parts
  /\ pc' = next
  /\ UNCHANGED <<faults, index, name, run, window, truth>>

\* The upload or its verification fails: the part may lie there all the same.
UploadFailed(part, parts) ==
  /\ Rollback(remote[name] \cup {part})
  /\ Finish(parts)
  /\ UNCHANGED index

Upload(part, next, parts) ==
  /\ pc = part
  /\ Uploaded(part, next, parts) \/ UploadFailed(part, parts)
  /\ UNCHANGED <<disk, edits>>

UploadZip == Upload("zip", "manifest", made)

UploadManifest ==
  Upload("manifest", "meta",
         [made EXCEPT ![name].chain = ManifestChain, ![name].deleted = Deleted])

UploadMeta ==
  Upload("meta", "save", [made EXCEPT ![name].meta = SnapshotMeta])

\* updateStore and fileindex.Save: the index is replaced by a rename.  A failure
\* rolls the uploads back.
SaveIndex ==
  /\ pc = "save"
  /\ \/ index' = NewIndex /\ UNCHANGED <<remote, faults>>
     \/ index' = index /\ Rollback(remote[name])
  /\ Finish(made)
  /\ UNCHANGED <<disk, edits>>

-----------------------------------------------------------------------------

\* The process dies: what is at the destination stays.
Crash ==
  /\ pc # "idle" /\ Fault
  /\ Fail
  /\ UNCHANGED <<disk, edits>>

\* Somebody empties the backup folder between two runs.
Wipe ==
  /\ pc = "idle" /\ Fault
  /\ remote # [n \in Names |-> {}]
  /\ remote' = [n \in Names |-> {}]
  /\ Finish(made)
  /\ UNCHANGED <<disk, edits, index>>

Next ==
  \/ \E f \in Files : Edit(f)
  \/ \E force \in BOOLEAN, blocked \in SUBSET Files : Scan(force, blocked)
  \/ NothingToDo
  \/ \E skipped \in SUBSET Files : Pack(skipped)
  \/ PackFails
  \/ UploadZip
  \/ UploadManifest
  \/ UploadMeta
  \/ SaveIndex
  \/ Crash
  \/ Wipe

Spec == Init /\ [][Next]_vars

-----------------------------------------------------------------------------
TypeOK ==
  /\ disk \in [Files -> Records]
  /\ edits \in 0..MaxEvents /\ faults \in 0..MaxEvents
  /\ index \in [archives: Seq(Names), files: [Files -> Records], meta: [Files -> Stamps]]
  /\ remote \in [Names -> SUBSET Parts]
  /\ made \in [Names -> [kind: {"none", "full", "incremental"}, zip: [Files -> Stamps],
                        chain: Seq(Names), deleted: SUBSET Files, meta: [Files -> Stamps]]]
  /\ name \in {0} \cup Names
  /\ pc \in {"idle", "pack", "zip", "manifest", "meta", "save"}
  /\ run \in [kind: {"none", "full", "incremental"}, scan: [Files -> Records],
             blocked: SUBSET Files, skipped: SUBSET Files]
  /\ window \in [Files -> SUBSET Stamps]
  /\ truth \in [Names -> [Files -> [bodies: SUBSET Stamps, acl: Stamps]]]

\* A snapshot that can be read at all shows every file as it was while the run
\* looked at it: with bytes it had between the scan and the end of the packing,
\* absent when it was absent, and, when it could not be read, as in the snapshot
\* before.  This holds for archives of failed and killed runs too, and however
\* many incremental archives lie between the file's bytes and the snapshot
\* (runner.go Run, buildManifest, computeDeleted; chain.go buildSnapshotView).
SnapshotFaithful ==
  \A n \in Archives : Builds(n) =>
    LET view == View(n) IN \A f \in Files : view[f] \in truth[n][f].bodies

\* The access control list a restore applies to a file of a snapshot is the one
\* the file had at the scan, or the earlier one when the file could not be
\* scanned, even though an incremental run stores the metadata of all files
\* and the bytes of a few (runner.go buildSnapshotMeta, updateStore).
MetaFaithful ==
  \A n \in Archives : Builds(n) /\ "meta" \in remote[n] =>
    LET view == View(n)
    IN  \A f \in Files : view[f] # 0 => MetaOf(n)[f] = truth[n][f].acl

\* As long as the base lies at the destination, the archives the index builds on
\* are all complete there: a run that extends the chain extends one that can be
\* restored, whatever failed before (runner.go rollbackRemoteBackup, updateStore).
IndexRestorable ==
  BaseThere =>
    \A n \in ToSet(index.archives) : remote[n] = Parts

\* The index knows exactly the files of the last snapshot: what it knows is not
\* uploaded again, so a file it knows and the chain lacks would be in no backup
\* until it changes (runner.go updateStore, computeDeleted).
IndexAgrees ==
  BaseThere =>
    LET view == View(LastArchive)
    IN  \A f \in Files : (index.files[f].body # 0) <=> (view[f] # 0)

\* A snapshot that can be read never changes its content: later runs, their
\* rollbacks and crashes touch their own archive only (runner.go
\* removeRemoteArchive, ftpclient Upload).
SnapshotImmutable ==
  [][\A n \in Names : Builds(n) /\ Builds(n)' => View(n)' = View(n)]_vars

=============================================================================
