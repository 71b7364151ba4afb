-------------------------- MODULE FileChainProofs --------------------------
(***************************************************************************)
(* Proofs about FileChain: for every number of files, archives, changes    *)
(* and faults, what a snapshot shows is what the run saw, it does not      *)
(* change afterwards, and the index agrees with the chain it builds on.    *)
(*                                                                         *)
(* The argument has three layers.  The lemmas on ChainView say how an      *)
(* archive changes what a chain shows.  Settled says where a run is, what  *)
(* lies at the destination and that chains go back: from it follows that a *)
(* step touches the archive of its run only.  Agreed adds what the numbers *)
(* mean: the run's archive shows bytes of its window (Promise), and the    *)
(* index, whose records decide what the next run leaves out, is right      *)
(* about a file or the file has other bytes by now (IndexTrue).            *)
(***************************************************************************)
EXTENDS FileChain, TLAPS

-----------------------------------------------------------------------------
\* What a chain of one archive shows.
LEMMA ViewOfOne ==
  ASSUME NEW n, NEW f \in Files
  PROVE  ChainView(<<n>>)[f] = made[n].zip[f]
<1>1. DOMAIN <<n>> = {1} /\ <<n>>[1] = n
  OBVIOUS
<1>2. CASE Settles(n, f)
  <2>1. LastWord(<<n>>, f) = {1}
    BY <1>1, <1>2 DEF LastWord
  <2> QED BY <1>1, <2>1 DEF ChainView
<1>3. CASE ~Settles(n, f)
  <2>1. LastWord(<<n>>, f) = {}
    BY <1>1, <1>3 DEF LastWord
  <2> QED BY <1>3, <2>1 DEF ChainView, Settles
<1> QED BY <1>2, <1>3

\* What an archive adds to a chain: the files it settles.
LEMMA ViewOfLonger ==
  ASSUME NEW c \in Seq(Names), NEW n \in Names, NEW f \in Files
  PROVE  ChainView(Append(c, n))[f] = IF Settles(n, f) THEN made[n].zip[f] ELSE ChainView(c)[f]
<1> DEFINE d == Append(c, n)
<1>1. /\ Len(c) \in Nat /\ DOMAIN c = 1..Len(c)
      /\ DOMAIN d = 1..(Len(c) + 1)
      /\ d[Len(c) + 1] = n
      /\ \A k \in 1..Len(c) : d[k] = c[k]
  OBVIOUS
<1> HIDE DEF d
<1>2. CASE Settles(n, f)
  <2>1. LastWord(d, f) = {Len(c) + 1}
    BY <1>1, <1>2 DEF LastWord
  <2> QED BY <1>1, <1>2, <2>1 DEF ChainView, d
<1>3. CASE ~Settles(n, f)
  <2>1. LastWord(d, f) = LastWord(c, f)
    BY <1>1, <1>3 DEF LastWord
  <2>2. \A k \in LastWord(c, f) : d[k] = c[k]
    BY <1>1 DEF LastWord
  <2>3. ChainView(d)[f] = ChainView(c)[f]
    <3>1. CASE LastWord(c, f) = {}
      BY <2>1, <3>1 DEF ChainView
    <3>2. CASE LastWord(c, f) # {}
      <4>1. (CHOOSE k \in LastWord(c, f) : TRUE) \in LastWord(c, f)
        BY <3>2
      <4> QED BY <2>1, <2>2, <4>1 DEF ChainView
    <3> QED BY <3>1, <3>2
  <2> QED BY <1>3, <2>3 DEF d
<1> QED BY <1>2, <1>3

\* A chain shows the same as long as its archives hold the same.
LEMMA ViewKept ==
  ASSUME NEW c,
         \A k \in DOMAIN c : /\ made'[c[k]].zip = made[c[k]].zip
                             /\ made'[c[k]].deleted = made[c[k]].deleted
  PROVE  ChainView(c)' = ChainView(c)
<1>1. \A k \in DOMAIN c, f \in Files : Settles(c[k], f)' <=> Settles(c[k], f)
  BY DEF Settles
<1>2. \A f \in Files : LastWord(c, f)' = LastWord(c, f)
  BY <1>1 DEF LastWord
<1>3. ASSUME NEW f \in Files, LastWord(c, f) # {}
      PROVE  (CHOOSE k \in LastWord(c, f) : TRUE) \in DOMAIN c
  <2>1. (CHOOSE k \in LastWord(c, f) : TRUE) \in LastWord(c, f)
    BY <1>3
  <2> QED BY <2>1 DEF LastWord
<1>4. ASSUME NEW f \in Files PROVE ChainView(c)'[f] = ChainView(c)[f]
  <2>1. CASE LastWord(c, f) = {}
    BY <1>2, <2>1 DEF ChainView
  <2>2. CASE LastWord(c, f) # {}
    <3> DEFINE k == CHOOSE k \in LastWord(c, f) : TRUE
    <3>1. made'[c[k]].zip = made[c[k]].zip
      BY <1>3, <2>2
    <3>2. ChainView(c)[f] = made[c[k]].zip[f]
      BY <2>2 DEF ChainView
    <3>3. ChainView(c)'[f] = made'[c[k]].zip[f]
      BY <1>2, <2>2 DEF ChainView
    <3> QED BY <3>1, <3>2, <3>3
  <2> QED BY <2>1, <2>2
<1> QED BY <1>4 DEF ChainView

-----------------------------------------------------------------------------
\* TypeOK in parts.
Index == [archives: Seq(Names), files: [Files -> Records], meta: [Files -> Stamps]]

Archive == [kind: {"none", "full", "incremental"}, zip: [Files -> Stamps],
            chain: Seq(Names), deleted: SUBSET Files, meta: [Files -> Stamps]]

Run == [kind: {"none", "full", "incremental"}, scan: [Files -> Records],
        blocked: SUBSET Files, skipped: SUBSET Files]

Truth == [Files -> [bodies: SUBSET Stamps, acl: Stamps]]

DiskTypes ==
  /\ disk \in [Files -> Records]
  /\ edits \in 0..MaxEvents /\ faults \in 0..MaxEvents

IndexTypes == index \in Index

DestTypes == remote \in [Names -> SUBSET Parts] /\ made \in [Names -> Archive]

RunTypes ==
  /\ name \in {0} \cup Names
  /\ pc \in {"idle", "pack", "zip", "manifest", "meta", "save"}
  /\ run \in Run
  /\ window \in [Files -> SUBSET Stamps]
  /\ pc # "idle" =>
       /\ name \in Names
       /\ run.kind \in {"full", "incremental"}
       /\ run.kind = "incremental" => index.archives # <<>>

TruthTypes == truth \in [Names -> Truth]

Types == DiskTypes /\ IndexTypes /\ DestTypes /\ RunTypes /\ TruthTypes

LEMMA Zero == 0 \in Stamps /\ 1 \in Stamps /\ Nothing \in Records /\ NoFiles \in [Files -> Stamps]
  BY FileChainAssumption DEF Stamps, Records, Nothing, NoFiles

LEMMA NoTypes == NoIndex \in Index /\ NoArchive \in Archive /\ NoRun \in Run /\ NoTruth \in Truth
  BY Zero DEF NoIndex, NoArchive, NoRun, NoTruth, Index, Archive, Run, Truth

\* What the current run computes has its type.
LEMMA RunComputes ==
  ASSUME Types, pc # "idle"
  PROVE  /\ ManifestChain \in Seq(Names)
         /\ Deleted \subseteq Files
         /\ SnapshotMeta \in [Files -> Stamps]
         /\ Scanned \subseteq Files /\ Planned \subseteq Files
<1>1. ManifestChain \in Seq(Names)
  BY DEF ManifestChain, Types, RunTypes, IndexTypes, Index
<1>2. Scanned \subseteq Files /\ Planned \subseteq Files /\ Deleted \subseteq Files
  BY DEF Deleted, Scanned, Planned, Present
<1>3. SnapshotMeta \in [Files -> Stamps]
  BY Zero DEF SnapshotMeta, Types, RunTypes, IndexTypes, Index, Run, Records
<1> QED BY <1>1, <1>2, <1>3

LEMMA NewIndexType == ASSUME Types, pc # "idle" PROVE NewIndex \in Index
<1>1. ManifestChain \in Seq(Names)
  BY RunComputes
<1>2. NewIndex.files \in [Files -> Records]
  BY Zero DEF NewIndex, Types, RunTypes, IndexTypes, Index, Run, Records
<1>3. NewIndex.meta \in [Files -> Stamps]
  BY Zero DEF NewIndex, Types, RunTypes, IndexTypes, Index, Run, Records
<1> QED BY <1>1, <1>2, <1>3 DEF NewIndex, Index

LEMMA FinishTypes ==
  ASSUME Types, NEW parts \in [Names -> Archive], Finish(parts), remote' \in [Names -> SUBSET Parts],
         index' \in Index, UNCHANGED <<disk, edits>>, faults' \in 0..MaxEvents
  PROVE  Types'
<1>1. RunTypes'
  BY NoTypes, Zero DEF Finish, RunTypes
<1>2. DestTypes' /\ TruthTypes'
  BY NoTypes DEF Finish, DestTypes, Types, TruthTypes
<1> QED BY <1>1, <1>2 DEF Types, DiskTypes, IndexTypes

LEMMA FaultType == ASSUME Types, NEW n \in {0, 1, 2}, Faulty(n) PROVE faults' \in 0..MaxEvents
  BY FileChainAssumption DEF Faulty, Types, DiskTypes

LEMMA RollbackTypes ==
  ASSUME Types, NEW parts \in SUBSET Parts, Rollback(parts)
  PROVE  remote' \in [Names -> SUBSET Parts] /\ faults' \in 0..MaxEvents
  BY FaultType DEF Rollback, Fault, Types, DestTypes, DiskTypes

LEMMA UploadTypes ==
  ASSUME Types, NEW part \in Parts, NEW next \in {"manifest", "meta", "save"}, pc # "idle",
         NEW parts \in [Names -> Archive], Upload(part, next, parts)
  PROVE  Types'
<1>1. CASE Uploaded(part, next, parts)
  <2>1. DestTypes' /\ RunTypes'
    BY <1>1 DEF Uploaded, Types, DestTypes, RunTypes
  <2> QED BY <1>1, <2>1 DEF Upload, Uploaded, Types, DiskTypes, IndexTypes, TruthTypes
<1>2. CASE UploadFailed(part, parts)
  <2>1. remote[name] \cup {part} \in SUBSET Parts
    BY DEF Types, DestTypes, RunTypes
  <2> QED
    BY <1>2, <2>1, RollbackTypes, FinishTypes DEF Upload, UploadFailed, Types, IndexTypes
<1> QED BY <1>1, <1>2 DEF Upload

LEMMA FailTypes ==
  ASSUME Types, Fail, UNCHANGED <<disk, edits>>, faults' \in 0..MaxEvents
  PROVE  Types'
  BY FinishTypes DEF Fail, Types, DestTypes, IndexTypes

\* The archives with the manifest of the run, and with its metadata.
WithManifest == [made EXCEPT ![name].chain = ManifestChain, ![name].deleted = Deleted]
WithMeta == [made EXCEPT ![name].meta = SnapshotMeta]

LEMMA ManifestAdded ==
  ASSUME Types, pc # "idle"
  PROVE  /\ WithManifest \in [Names -> Archive]
         /\ WithManifest[name].kind = made[name].kind /\ WithManifest[name].zip = made[name].zip
         /\ WithManifest[name].chain = ManifestChain /\ WithManifest[name].deleted = Deleted
         /\ \A n \in Names \ {name} : WithManifest[n] = made[n]
<1> DEFINE a == [kind |-> made[name].kind, zip |-> made[name].zip, chain |-> ManifestChain,
                 deleted |-> Deleted, meta |-> made[name].meta]
<1>1. /\ made \in [Names -> Archive] /\ name \in Names
      /\ ManifestChain \in Seq(Names) /\ Deleted \subseteq Files
  BY RunComputes DEF Types, DestTypes, RunTypes
<1>2. a \in Archive
  BY <1>1 DEF Archive
<1>3. made[name] \in Archive
  BY <1>1
<1>4. [[made[name] EXCEPT !.chain = ManifestChain] EXCEPT !.deleted = Deleted] = a
  <2>1. made[name] = [kind |-> made[name].kind, zip |-> made[name].zip, chain |-> made[name].chain,
                      deleted |-> made[name].deleted, meta |-> made[name].meta]
    BY <1>3 DEF Archive
  <2> DEFINE b == [kind |-> made[name].kind, zip |-> made[name].zip, chain |-> ManifestChain,
                   deleted |-> made[name].deleted, meta |-> made[name].meta]
  <2>2. [made[name] EXCEPT !.chain = ManifestChain] = b
    BY <2>1
  <2>3. [b EXCEPT !.deleted = Deleted] = a
    OBVIOUS
  <2> QED BY <2>2, <2>3
<1>5. /\ WithManifest = [made EXCEPT ![name] =
                          [[made[name] EXCEPT !.chain = ManifestChain] EXCEPT !.deleted = Deleted]]
  BY <1>1 DEF WithManifest
<1>6. WithManifest = [made EXCEPT ![name] = a]
  BY <1>4, <1>5
<1>7. a.kind = made[name].kind /\ a.zip = made[name].zip /\ a.chain = ManifestChain /\ a.deleted = Deleted
  OBVIOUS
<1> HIDE DEF a
<1> QED BY <1>1, <1>2, <1>6, <1>7

LEMMA MetaAdded ==
  ASSUME Types, pc # "idle"
  PROVE  /\ WithMeta \in [Names -> Archive]
         /\ WithMeta[name].kind = made[name].kind /\ WithMeta[name].zip = made[name].zip
         /\ WithMeta[name].chain = made[name].chain /\ WithMeta[name].deleted = made[name].deleted
         /\ WithMeta[name].meta = SnapshotMeta
         /\ \A n \in Names \ {name} : WithMeta[n] = made[n]
<1> DEFINE a == [kind |-> made[name].kind, zip |-> made[name].zip, chain |-> made[name].chain,
                 deleted |-> made[name].deleted, meta |-> SnapshotMeta]
<1>1. /\ made \in [Names -> Archive] /\ name \in Names
      /\ SnapshotMeta \in [Files -> Stamps]
  BY RunComputes DEF Types, DestTypes, RunTypes
<1>2. made[name] \in Archive
  BY <1>1
<1>3. a \in Archive
  BY <1>1, <1>2 DEF Archive
<1>4. [made[name] EXCEPT !.meta = SnapshotMeta] = a
  BY <1>2 DEF Archive
<1>5. WithMeta = [made EXCEPT ![name] = [made[name] EXCEPT !.meta = SnapshotMeta]]
  BY <1>1 DEF WithMeta
<1>6. WithMeta = [made EXCEPT ![name] = a]
  BY <1>4, <1>5
<1>7. /\ a.kind = made[name].kind /\ a.zip = made[name].zip /\ a.chain = made[name].chain
      /\ a.deleted = made[name].deleted /\ a.meta = SnapshotMeta
  OBVIOUS
<1> HIDE DEF a
<1> QED BY <1>1, <1>3, <1>6, <1>7

LEMMA ManifestUploads ==
  /\ UploadManifest <=> Upload("manifest", "meta", WithManifest)
  /\ UploadMeta <=> Upload("meta", "save", WithMeta)
  /\ UploadManifest => pc = "manifest"
  /\ UploadMeta => pc = "meta"
  BY DEF UploadManifest, UploadMeta, WithManifest, WithMeta, Upload

\* The bytes of a file after an edit: new ones, none, or the same.
LEMMA EditedDisk ==
  ASSUME Types, NEW f \in Files, Edit(f)
  PROVE  /\ edits' = edits + 1 /\ edits' \in 0..MaxEvents
         /\ disk' \in [Files -> Records]
         /\ \A g \in Files : disk'[g].body \in {edits + 2, 0, disk[g].body}
<1>1. /\ edits \in 0..MaxEvents /\ faults \in 0..MaxEvents /\ edits + faults < MaxEvents
      /\ edits' = edits + 1
  BY DEF Edit, Types, DiskTypes
<1>2. edits' \in 0..MaxEvents /\ edits + 2 \in Stamps
  BY <1>1, FileChainAssumption DEF Stamps
<1>3. disk \in [Files -> Records] /\ disk[f] \in Records
  BY DEF Types, DiskTypes
<1>4. PICK r \in Records : disk' = [disk EXCEPT ![f] = r] /\ r.body \in {edits + 2, 0, disk[f].body}
  <2>1. CASE disk' = [disk EXCEPT ![f].body = edits + 2, ![f].acl = IF @ = 0 THEN 1 ELSE @]
    <3> DEFINE r == [body |-> edits + 2, acl |-> IF disk[f].acl = 0 THEN 1 ELSE disk[f].acl]
    <3>1. r \in Records
      BY <1>2, <1>3, Zero DEF Records
    <3>2. [[disk[f] EXCEPT !.body = edits + 2] EXCEPT !.acl = IF @ = 0 THEN 1 ELSE @] = r
      <4>1. disk[f] = [body |-> disk[f].body, acl |-> disk[f].acl]
        BY <1>3 DEF Records
      <4>2. [disk[f] EXCEPT !.body = edits + 2] = [body |-> edits + 2, acl |-> disk[f].acl]
        BY <4>1
      <4> DEFINE q == [body |-> edits + 2, acl |-> disk[f].acl]
      <4>3. [q EXCEPT !.acl = IF @ = 0 THEN 1 ELSE @] = r
        <5>1. q.acl = disk[f].acl
          OBVIOUS
        <5>2. \A x : [q EXCEPT !.acl = x] = [body |-> edits + 2, acl |-> x]
          OBVIOUS
        <5> HIDE DEF q
        <5> QED BY <5>1, <5>2
      <4> QED BY <4>2, <4>3
    <3>3. disk' = [disk EXCEPT ![f] =
                    [[disk[f] EXCEPT !.body = edits + 2] EXCEPT !.acl = IF @ = 0 THEN 1 ELSE @]]
      BY <1>3, <2>1
    <3> QED BY <3>1, <3>2, <3>3
  <2>2. CASE disk' = [disk EXCEPT ![f] = Nothing]
    BY <2>2, Zero DEF Nothing
  <2>3. CASE disk' = [disk EXCEPT ![f].acl = edits + 2]
    <3> DEFINE r == [body |-> disk[f].body, acl |-> edits + 2]
    <3>1. r \in Records /\ [disk[f] EXCEPT !.acl = edits + 2] = r
      BY <1>2, <1>3 DEF Records
    <3>2. disk' = [disk EXCEPT ![f] = [disk[f] EXCEPT !.acl = edits + 2]]
      BY <1>3, <2>3
    <3> QED BY <3>1, <3>2
  <2> QED BY <2>1, <2>2, <2>3 DEF Edit
<1>5. \A g \in Files : disk'[g] = IF g = f THEN r ELSE disk[g]
  BY <1>3, <1>4
<1> QED BY <1>1, <1>2, <1>3, <1>4, <1>5

LEMMA TypeStep == ASSUME Types, [Next]_vars PROVE Types'
<1>1. ASSUME NEW f \in Files, Edit(f) PROVE Types'
  <2>1. edits' = edits + 1 /\ edits' \in 0..MaxEvents /\ disk' \in [Files -> Records]
    BY <1>1, EditedDisk
  <2>2. disk'[f].body \in Stamps
    BY <2>1 DEF Records
  <2>3. window' \in [Files -> SUBSET Stamps]
    <3>1. window \in [Files -> SUBSET Stamps]
      BY DEF Types, RunTypes
    <3>2. window' = [window EXCEPT ![f] = IF pc = "pack" THEN @ \cup {disk'[f].body} ELSE @]
      BY <1>1 DEF Edit
    <3> QED BY <2>2, <3>1, <3>2
  <2> QED
    BY <1>1, <2>1, <2>2, <2>3 DEF Edit, Types, DiskTypes, IndexTypes, DestTypes, RunTypes, TruthTypes
<1>2. ASSUME NEW force \in BOOLEAN, NEW blocked \in SUBSET Files, Scan(force, blocked) PROVE Types'
  <2>1. ScanFiles(blocked) \in [Files -> Records]
    BY Zero DEF ScanFiles, Types, DiskTypes
  <2>2. /\ run' \in Run /\ faults' \in 0..MaxEvents
        /\ run'.kind \in {"full", "incremental"}
        /\ run'.kind = "incremental" => index'.archives # <<>>
    <3>1. PICK found \in BOOLEAN :
            /\ found => ~force /\ BaseThere
            /\ Faulty((IF blocked # {} THEN 1 ELSE 0)
                      + IF ~found /\ ~force /\ BaseThere THEN 1 ELSE 0)
            /\ run' = [kind |-> IF found THEN "incremental" ELSE "full",
                       scan |-> ScanFiles(blocked), blocked |-> blocked, skipped |-> {}]
      BY <1>2 DEF Scan
    <3>2. run' \in Run
      BY <2>1, <3>1 DEF Run
    <3>3. (IF blocked # {} THEN 1 ELSE 0)
          + (IF ~found /\ ~force /\ BaseThere THEN 1 ELSE 0) \in {0, 1, 2}
      OBVIOUS
    <3>4. /\ run'.kind \in {"full", "incremental"}
          /\ run'.kind = "incremental" => index'.archives # <<>>
      BY <1>2, <3>1 DEF Scan, BaseThere, Base
    <3> QED BY <3>1, <3>2, <3>3, <3>4, FaultType
  <2>3. window' \in [Files -> SUBSET Stamps]
    BY <1>2, <2>1 DEF Scan, Records
  <2>4. index' \in Index
    BY <1>2, NoTypes DEF Scan, Types, IndexTypes
  <2>5. name' \in Names /\ pc' = "pack" /\ UNCHANGED <<disk, edits, remote, made, truth>>
    BY <1>2 DEF Scan
  <2> QED
    BY <2>2, <2>3, <2>4, <2>5 DEF Types, DiskTypes, IndexTypes, DestTypes, RunTypes, TruthTypes
<1>3. CASE NothingToDo
  BY <1>3, FailTypes DEF NothingToDo, Types, DiskTypes
<1>4. ASSUME NEW skipped \in SUBSET Files, Pack(skipped) PROVE Types'
  <2>1. faults' \in 0..MaxEvents
    BY <1>4, FaultType DEF Pack
  <2>2. CASE Fail
    BY <1>4, <2>1, <2>2, FailTypes DEF Pack
  <2>3. CASE ~Fail
    <3>1. /\ run' = [run EXCEPT !.skipped = skipped]
          /\ truth' = [truth EXCEPT ![name] = TruthOf(skipped)]
          /\ pc' = "zip"
          /\ window' = [f \in Files |-> {}]
          /\ UNCHANGED <<index, remote, name, disk, edits>>
      BY <1>4, <2>3 DEF Pack
    <3>2. PICK zip \in ZipsOf(Planned \ skipped) :
            made' = [made EXCEPT ![name] = [NoArchive EXCEPT !.kind = run.kind, !.zip = zip]]
      BY <1>4, <2>3 DEF Pack
    <3>3. TruthOf(skipped) \in Truth
      <4>1. pc = "pack"
        BY <1>4 DEF Pack
      <4>2. run.kind # "full" => truth[LastArchive] \in Truth
        <5>1. run.kind # "full" => index.archives \in Seq(Names) \ {<<>>}
          BY <4>1 DEF Types, RunTypes, IndexTypes, Index
        <5>2. run.kind # "full" => LastArchive \in Names
          BY <5>1 DEF LastArchive, Last
        <5> QED BY <5>2 DEF Types, TruthTypes
      <4>3. run.kind = "full" \/ truth[LastArchive] \in Truth
        BY <4>2
      <4>4. window \in [Files -> SUBSET Stamps] /\ run.scan \in [Files -> Records]
        BY DEF Types, RunTypes, Run
      <4>5. ASSUME NEW f \in Files
            PROVE  TruthOf(skipped)[f] \in [bodies: SUBSET Stamps, acl: Stamps]
        <5> DEFINE before == IF run.kind = "full" THEN [bodies |-> {0}, acl |-> 0]
                             ELSE truth[LastArchive][f]
        <5>1. before \in [bodies: SUBSET Stamps, acl: Stamps]
          BY <4>3, Zero DEF Truth
        <5> HIDE DEF before
        <5>2. TruthOf(skipped)[f] =
                [bodies |-> IF f \in skipped \cup run.blocked THEN before.bodies
                            ELSE IF f \in Scanned THEN window[f] \ {0}
                            ELSE {0},
                 acl |-> IF f \in Scanned THEN run.scan[f].acl ELSE before.acl]
          BY DEF TruthOf, before
        <5> QED BY <4>4, <5>1, <5>2, Zero DEF Records
      <4> QED
        BY <4>5 DEF TruthOf, Truth
    <3>4. [NoArchive EXCEPT !.kind = run.kind, !.zip = zip] \in Archive
      BY NoTypes DEF Archive, ZipsOf, NoArchive, Types, RunTypes, Run
    <3>5. run' \in Run
      BY <3>1 DEF Types, RunTypes, Run
    <3>6. DestTypes' /\ TruthTypes'
      BY <3>1, <3>2, <3>3, <3>4 DEF Types, DestTypes, TruthTypes
    <3>7. RunTypes'
      <4>1. pc = "pack" /\ run'.kind = run.kind
        BY <1>4, <3>1 DEF Pack, Types, RunTypes, Run
      <4> QED BY <3>1, <3>5, <4>1 DEF Types, RunTypes
    <3> QED BY <2>1, <3>1, <3>6, <3>7 DEF Types, DiskTypes, IndexTypes
  <2> QED BY <2>2, <2>3
<1>5. CASE PackFails
  BY <1>5, FailTypes DEF PackFails, Types, DiskTypes
<1>6. CASE UploadZip
  BY <1>6, UploadTypes DEF UploadZip, Upload, Parts, Types, DestTypes
<1>7. CASE UploadManifest
  BY <1>7, ManifestUploads, ManifestAdded, UploadTypes DEF Parts
<1>8. CASE UploadMeta
  BY <1>8, ManifestUploads, MetaAdded, UploadTypes DEF Parts
<1>9. CASE SaveIndex
  <2>1. index' \in Index
    BY <1>9, NewIndexType DEF SaveIndex, Types, IndexTypes
  <2>2. remote[name] \in SUBSET Parts
    BY <1>9 DEF SaveIndex, Types, RunTypes, DestTypes
  <2>3. remote' \in [Names -> SUBSET Parts] /\ faults' \in 0..MaxEvents
    BY <1>9, <2>2, RollbackTypes DEF SaveIndex, Types, DestTypes, DiskTypes
  <2> QED BY <1>9, <2>1, <2>3, FinishTypes DEF SaveIndex, Types, DestTypes
<1>10. CASE Crash
  BY <1>10, FailTypes, FaultType DEF Crash, Fault
<1>11. CASE Wipe
  <2>1. remote' \in [Names -> SUBSET Parts]
    BY <1>11 DEF Wipe
  <2> QED BY <1>11, <2>1, FinishTypes, FaultType DEF Wipe, Fault, Types, DestTypes, IndexTypes
<1>12. CASE UNCHANGED vars
  BY <1>12 DEF vars, Types, DiskTypes, IndexTypes, DestTypes, RunTypes, TruthTypes
<1> QED
  BY <1>1, <1>2, <1>3, <1>4, <1>5, <1>6, <1>7, <1>8, <1>9, <1>10, <1>11, <1>12 DEF Next

LEMMA TypeInvariance == Spec => []Types
<1>1. Init => Types
  BY NoTypes, Zero, FileChainAssumption
     DEF Init, Types, DiskTypes, IndexTypes, DestTypes, RunTypes, TruthTypes, Records
<1> QED BY <1>1, TypeStep, PTL DEF Spec

\* The type invariant: the store, the archives and the run keep their types.
THEOREM TypeCorrect == Spec => []TypeOK
<1>1. Types => TypeOK
  BY DEF Types, DiskTypes, IndexTypes, DestTypes, RunTypes, TruthTypes, TypeOK, Index, Archive, Run, Truth
<1> QED BY <1>1, TypeInvariance, PTL
-----------------------------------------------------------------------------
(* Where the current run is, and what it leaves alone.                     *)

\* What of the run lies at the destination, by its place.
SoFar == CASE pc = "manifest" -> {"zip"}
           [] pc = "meta" -> {"zip", "manifest"}
           [] pc = "save" -> Parts
           [] OTHER -> {}

\* The name of the run is later than all others, and its base is there.
Progress ==
  /\ pc = "idle" => name = 0 /\ run = NoRun
  /\ pc # "idle" =>
       /\ remote[name] = SoFar
       /\ run.kind = "incremental" => BaseThere
       /\ \A n \in Names : remote[n] # {} => n <= name
       /\ \A k \in DOMAIN index.archives : index.archives[k] < name

LEMMA FinishProgress == ASSUME NEW parts, Finish(parts) PROVE Progress'
  BY DEF Finish, Progress

\* A step of the run that goes on with it.
LEMMA GoesOnProgress ==
  ASSUME Types, Progress, pc # "idle", pc' # "idle", UNCHANGED <<index, name>>,
         run'.kind = run.kind,
         \A n \in Names \ {name} : remote'[n] = remote[n],
         remote'[name] = SoFar'
  PROVE  Progress'
<1>1. run'.kind = "incremental" => BaseThere'
  <2>1. CASE run.kind = "incremental"
    <3>1. Base \in Names /\ Base # name
      BY <2>1 DEF Base, Progress, BaseThere, Types, IndexTypes, Index, RunTypes
    <3>2. "zip" \in remote[Base] /\ Base' = Base /\ Base # 0
      BY <2>1 DEF Progress, BaseThere, Base
    <3> QED BY <3>1, <3>2 DEF BaseThere
  <2> QED BY <2>1
<1>2. \A n \in Names : remote'[n] # {} => n <= name
  BY DEF Progress, Types, RunTypes, Names
<1> QED BY <1>1, <1>2 DEF Progress

LEMMA UploadProgress ==
  ASSUME Types, Progress, NEW part \in Parts, NEW next \in {"manifest", "meta", "save"},
         NEW parts, pc = part, Upload(part, next, parts),
         SoFar \cup {part} = CASE next = "manifest" -> {"zip"} [] next = "meta" -> {"zip", "manifest"}
                               [] OTHER -> Parts
  PROVE  Progress'
<1>1. CASE Uploaded(part, next, parts)
  <2>1. /\ remote' = [remote EXCEPT ![name] = @ \cup {part}] /\ pc' = next
        /\ UNCHANGED <<index, name, run>>
    BY <1>1 DEF Uploaded
  <2>2. remote[name] = SoFar /\ name \in Names /\ pc # "idle"
    BY DEF Progress, Parts, Types, RunTypes
  <2>3. remote'[name] = SoFar'
    BY <2>1, <2>2 DEF SoFar, Types, DestTypes
  <2> QED BY <2>1, <2>2, <2>3, GoesOnProgress DEF Types, DestTypes
<1>2. CASE UploadFailed(part, parts)
  BY <1>2, FinishProgress DEF UploadFailed
<1> QED BY <1>1, <1>2 DEF Upload

LEMMA ProgressStep == ASSUME Types, Progress, [Next]_vars PROVE Progress'
<1>1. ASSUME NEW f \in Files, Edit(f) PROVE Progress'
  BY <1>1 DEF Edit, Progress, SoFar, BaseThere, Base
<1>2. ASSUME NEW force \in BOOLEAN, NEW blocked \in SUBSET Files, Scan(force, blocked) PROVE Progress'
  <2>1. PICK n \in Names : NextName(n) /\ name' = n
    BY <1>2 DEF Scan
  <2>2. /\ pc' = "pack" /\ remote' = remote
        /\ index' = IF force THEN NoIndex ELSE index
    BY <1>2 DEF Scan
  <2>3. run'.kind = "incremental" => BaseThere'
    <3>1. run'.kind = "incremental" => ~force /\ BaseThere
      BY <1>2 DEF Scan
    <3> QED BY <2>2, <3>1 DEF BaseThere, Base
  <2>4. remote'[name'] = {} /\ \A m \in Names : remote'[m] # {} => m <= name'
    BY <2>1, <2>2 DEF NextName, Taken, Names, Types, DestTypes
  <2>5. \A k \in DOMAIN index.archives : index.archives[k] < n
    BY <2>1 DEF NextName, Taken, ToSet
  <2>6. \A k \in DOMAIN index'.archives : index'.archives[k] < name'
    BY <2>1, <2>2, <2>5 DEF NoIndex
  <2> QED BY <2>2, <2>3, <2>4, <2>6 DEF Progress, SoFar
<1>3. CASE NothingToDo \/ PackFails \/ Crash
  BY <1>3, FinishProgress DEF NothingToDo, PackFails, Crash, Fail
<1>4. ASSUME NEW skipped \in SUBSET Files, Pack(skipped) PROVE Progress'
  <2>1. CASE Fail
    BY <2>1, FinishProgress DEF Fail
  <2>2. CASE ~Fail
    <3>1. /\ pc = "pack" /\ pc' = "zip" /\ UNCHANGED <<index, remote, name>>
          /\ run' = [run EXCEPT !.skipped = skipped]
      BY <1>4, <2>2 DEF Pack
    <3>2. run'.kind = run.kind
      BY <3>1 DEF Types, RunTypes, Run
    <3>3. remote'[name] = SoFar'
      BY <3>1 DEF Progress, SoFar
    <3> QED BY <3>1, <3>2, <3>3, GoesOnProgress
  <2> QED BY <2>1, <2>2
<1>5. CASE UploadZip
  BY <1>5, UploadProgress DEF UploadZip, Upload, Parts, SoFar
<1>6. CASE UploadManifest
  BY <1>6, UploadProgress DEF UploadManifest, Upload, Parts, SoFar
<1>7. CASE UploadMeta
  BY <1>7, UploadProgress DEF UploadMeta, Upload, Parts, SoFar
<1>8. CASE SaveIndex \/ Wipe
  BY <1>8, FinishProgress DEF SaveIndex, Wipe
<1>9. CASE UNCHANGED vars
  BY <1>9 DEF vars, Progress, SoFar, BaseThere, Base
<1> QED BY <1>1, <1>2, <1>3, <1>4, <1>5, <1>6, <1>7, <1>8, <1>9 DEF Next

\* What the run has put into its archive.
Content ==
  pc \in {"zip", "manifest", "meta", "save"} =>
    /\ made[name].kind = run.kind
    /\ pc \in {"zip", "manifest"} => made[name].chain = <<>> /\ made[name].deleted = {}
    /\ pc \in {"meta", "save"} => made[name].chain = ManifestChain /\ made[name].deleted = Deleted
    /\ pc = "save" => made[name].meta = SnapshotMeta
    /\ \A f \in Files : (made[name].zip[f] # 0) <=> (f \in Archived)

LEMMA FinishContent == ASSUME NEW parts, Finish(parts) PROVE Content'
  BY DEF Finish, Content

LEMMA ContentStep == ASSUME Types, Content, [Next]_vars PROVE Content'
<1> USE DEF Content
<1>1. ASSUME NEW f \in Files, Edit(f) PROVE Content'
  BY <1>1 DEF Edit
<1>2. ASSUME NEW force \in BOOLEAN, NEW blocked \in SUBSET Files, Scan(force, blocked) PROVE Content'
  BY <1>2 DEF Scan
<1>3. CASE NothingToDo \/ PackFails \/ Crash
  BY <1>3, FinishContent DEF NothingToDo, PackFails, Crash, Fail
<1>4. ASSUME NEW skipped \in SUBSET Files, Pack(skipped) PROVE Content'
  <2>1. CASE Fail
    BY <2>1, FinishContent DEF Fail
  <2>2. CASE ~Fail
    <3>1. /\ pc = "pack" /\ pc' = "zip" /\ UNCHANGED <<index, remote, name>>
          /\ run' = [run EXCEPT !.skipped = skipped]
      BY <1>4, <2>2 DEF Pack
    <3>2. PICK zip \in ZipsOf(Planned \ skipped) :
            made' = [made EXCEPT ![name] = [NoArchive EXCEPT !.kind = run.kind, !.zip = zip]]
      BY <1>4, <2>2 DEF Pack
    <3>3. made'[name] = [kind |-> run.kind, zip |-> zip, chain |-> <<>>, deleted |-> {}, meta |-> NoFiles]
      BY <3>1, <3>2 DEF NoArchive, Types, DestTypes, RunTypes
    <3>4. Archived' = Planned \ skipped /\ run'.kind = run.kind
      BY <3>1 DEF Archived, Planned, Scanned, NeedsContent, Present, Types, RunTypes, Run
    <3>5. \A f \in Files : (zip[f] # 0) <=> (f \in Planned \ skipped)
      BY <3>2 DEF ZipsOf
    <3> QED BY <3>1, <3>3, <3>4, <3>5
  <2> QED BY <2>1, <2>2
<1>5. ASSUME NEW part \in Parts, NEW next \in {"manifest", "meta", "save"}, NEW parts \in [Names -> Archive],
             pc = part, Upload(part, next, parts),
             parts[name].kind = run.kind /\ parts[name].zip = made[name].zip,
             next = "manifest" => parts[name].chain = <<>> /\ parts[name].deleted = {},
             next # "manifest" => parts[name].chain = ManifestChain /\ parts[name].deleted = Deleted,
             next = "save" => parts[name].meta = SnapshotMeta
      PROVE  Content'
  <2>1. CASE Uploaded(part, next, parts)
    <3>1. /\ made' = parts /\ pc' = next
          /\ UNCHANGED <<index, name, run>>
      BY <2>1 DEF Uploaded
    <3>2. /\ ManifestChain' = ManifestChain /\ Deleted' = Deleted /\ Archived' = Archived
          /\ SnapshotMeta' = SnapshotMeta
      BY <3>1 DEF ManifestChain, Deleted, Archived, SnapshotMeta, Scanned, Planned, NeedsContent, NeedsACL
    <3> QED BY <1>5, <3>1, <3>2 DEF Parts
  <2>2. CASE UploadFailed(part, parts)
    BY <2>2, FinishContent DEF UploadFailed
  <2> QED BY <1>5, <2>1, <2>2 DEF Upload
<1>6. CASE UploadZip
  <2>1. pc = "zip" /\ made \in [Names -> Archive]
    BY <1>6 DEF UploadZip, Upload, Types, DestTypes
  <2> QED BY <1>5, <1>6, <2>1 DEF UploadZip, Parts
<1>7. CASE UploadManifest
  BY <1>5, <1>7, ManifestUploads, ManifestAdded DEF Parts
<1>8. CASE UploadMeta
  BY <1>5, <1>8, ManifestUploads, MetaAdded DEF Parts
<1>9. CASE SaveIndex \/ Wipe
  BY <1>9, FinishContent DEF SaveIndex, Wipe
<1>10. CASE UNCHANGED vars
  <2>1. UNCHANGED <<index, made, name, pc, run>>
    BY <1>10 DEF vars
  <2> QED
    BY <2>1 DEF ManifestChain, Deleted, Archived, SnapshotMeta, Scanned, Planned, NeedsContent, NeedsACL
<1> QED BY <1>1, <1>2, <1>3, <1>4, <1>6, <1>7, <1>8, <1>9, <1>10 DEF Next

-----------------------------------------------------------------------------
(* Snapshots do not change.                                                *)

\* An archive depends on itself and on earlier ones, a full one on itself only.
ChainsGoBack ==
  \A n \in Names : remote[n] # {} =>
    /\ \A k \in DOMAIN made[n].chain : made[n].chain[k] <= n
    /\ made[n].kind = "full" =>
         made[n].deleted = {} /\ ("manifest" \in remote[n] => made[n].chain = <<n>>)

Wiped == \A n \in Names : remote'[n] = {}

\* A step of a run leaves the archives of the others alone.
OthersKept ==
  \A n \in Names : n # name =>
    remote'[n] = remote[n] /\ (remote[n] # {} => made'[n] = made[n] /\ truth'[n] = truth[n])

\* What the run has settled stays.
OwnKept ==
  name \in Names /\ remote[name] # {} /\ remote'[name] # {} =>
    /\ made'[name].kind = made[name].kind
    /\ made'[name].zip = made[name].zip
    /\ truth'[name] = truth[name]
    /\ pc \in {"meta", "save"} =>
         made'[name].chain = made[name].chain /\ made'[name].deleted = made[name].deleted

Kept == OthersKept /\ OwnKept

LEMMA FinishKept ==
  ASSUME Types, NEW parts, Finish(parts), \A n \in Names : n # name => remote'[n] = remote[n],
         \A n \in Names : n # name => parts[n] = made[n],
         name \in Names =>
           /\ parts[name].kind = made[name].kind
           /\ parts[name].zip = made[name].zip
           /\ pc \in {"meta", "save"} =>
                parts[name].chain = made[name].chain /\ parts[name].deleted = made[name].deleted
  PROVE  Kept
<1>1. \A n \in Names : remote'[n] # {} => made'[n] = parts[n] /\ truth'[n] = truth[n]
  BY DEF Finish
<1> QED BY <1>1 DEF Kept, OthersKept, OwnKept

LEMMA UploadKept ==
  ASSUME Types, NEW part \in Parts, NEW next, NEW parts \in [Names -> Archive], pc # "idle",
         Upload(part, next, parts),
         \A n \in Names \ {name} : parts[n] = made[n],
         parts[name].kind = made[name].kind,
         parts[name].zip = made[name].zip,
         pc \in {"meta", "save"} =>
           parts[name].chain = made[name].chain /\ parts[name].deleted = made[name].deleted
  PROVE  Kept
<1>1. CASE Uploaded(part, next, parts)
  BY <1>1 DEF Uploaded, Kept, OthersKept, OwnKept, Types, DestTypes
<1>2. CASE UploadFailed(part, parts)
  <2>1. \A n \in Names : n # name => remote'[n] = remote[n]
    BY <1>2 DEF UploadFailed, Rollback, Types, DestTypes
  <2> QED BY <1>2, <2>1, FinishKept DEF UploadFailed
<1> QED BY <1>1, <1>2 DEF Upload

LEMMA KeptStep == ASSUME Types, Progress, [Next]_vars PROVE (Wipe /\ Wiped) \/ Kept
<1>1. ASSUME UNCHANGED <<remote, made, truth>> PROVE Kept
  BY <1>1 DEF Kept, OthersKept, OwnKept
<1>2. CASE \E f \in Files : Edit(f)
  BY <1>1, <1>2 DEF Edit
<1>3. CASE \E force \in BOOLEAN, blocked \in SUBSET Files : Scan(force, blocked)
  BY <1>1, <1>3 DEF Scan
<1>4. CASE Fail
  BY <1>4, FinishKept DEF Fail
<1>5. CASE NothingToDo \/ PackFails \/ Crash
  BY <1>4, <1>5 DEF NothingToDo, PackFails, Crash
<1>6. ASSUME NEW skipped \in SUBSET Files, Pack(skipped) PROVE Kept
  <2>1. CASE ~Fail
    <3>1. pc = "pack" /\ remote' = remote /\ truth' = [truth EXCEPT ![name] = TruthOf(skipped)]
      BY <1>6, <2>1 DEF Pack
    <3>2. \A n \in Names \ {name} : made'[n] = made[n]
      BY <1>6, <2>1 DEF Pack, Types, DestTypes
    <3>3. remote[name] = {}
      BY <3>1 DEF Progress, SoFar
    <3> QED BY <3>1, <3>2, <3>3 DEF Kept, OthersKept, OwnKept, Types, TruthTypes
  <2>2. CASE Fail
    BY <2>2, FinishKept DEF Fail
  <2> QED BY <2>1, <2>2
<1>7. CASE UploadZip
  BY <1>7, UploadKept DEF UploadZip, Upload, Parts, Types, DestTypes
<1>8. CASE UploadManifest
  BY <1>8, ManifestUploads, ManifestAdded, UploadKept DEF Parts
<1>9. CASE UploadMeta
  BY <1>9, ManifestUploads, MetaAdded, UploadKept DEF Parts
<1>10. CASE SaveIndex
  <2>1. \A n \in Names : n # name => remote'[n] = remote[n]
    BY <1>10 DEF SaveIndex, Rollback, Types, DestTypes
  <2> QED BY <1>10, <2>1, FinishKept DEF SaveIndex
<1>11. CASE Wipe
  BY <1>11 DEF Wipe, Wiped
<1>12. CASE UNCHANGED vars
  BY <1>1, <1>12 DEF vars
<1> QED
  BY <1>2, <1>3, <1>5, <1>6, <1>7, <1>8, <1>9, <1>10, <1>11, <1>12 DEF Next

\* The archives of other runs: they can be read, or not, as before.
LEMMA OthersView ==
  ASSUME Types, Progress, ChainsGoBack, OthersKept, NEW n \in Names, n # name, remote[n] # {}
  PROVE  /\ ChainOf(n)' = ChainOf(n)
         /\ Builds(n)' <=> Builds(n)
         /\ Builds(n) => View(n)' = View(n)
<1>1. remote'[n] = remote[n] /\ made'[n] = made[n]
  BY DEF OthersKept
<1>2. ChainOf(n)' = ChainOf(n)
  BY <1>1 DEF ChainOf
<1>3. ASSUME NEW k \in DOMAIN ChainOf(n)
      PROVE  ChainOf(n)[k] \in Names /\ ChainOf(n)[k] # name
  <2>1. ChainOf(n)[k] \in Names /\ ChainOf(n)[k] <= n
    <3>1. CASE "manifest" \in remote[n]
      <4>1. made[n].chain \in Seq(Names) /\ ChainOf(n) = made[n].chain
        BY <3>1 DEF ChainOf, Types, DestTypes, Archive
      <4>2. made[n].chain[k] \in Names
        BY <1>3, <4>1
      <4>3. made[n].chain[k] <= n
        BY <1>3, <4>1 DEF ChainsGoBack
      <4> QED BY <4>1, <4>2, <4>3
    <3>2. CASE "manifest" \notin remote[n]
      <4>1. ChainOf(n) = <<n>> /\ DOMAIN <<n>> = {1} /\ <<n>>[1] = n
        BY <3>2 DEF ChainOf
      <4>2. k = 1
        BY <1>3, <4>1
      <4> QED BY <4>1, <4>2 DEF Names
    <3> QED BY <3>1, <3>2
  <2>2. name # 0 => n < name
    BY DEF Progress, Types, RunTypes, Names
  <2> QED BY <2>1, <2>2 DEF Types, RunTypes, Names
<1>4. \A k \in DOMAIN ChainOf(n) : remote'[ChainOf(n)[k]] = remote[ChainOf(n)[k]]
  BY <1>3 DEF OthersKept
<1>5. Builds(n)' <=> Builds(n)
  BY <1>1, <1>2, <1>4 DEF Builds, Archives, ToSet
<1>6. ASSUME Builds(n) PROVE View(n)' = View(n)
  <2>1. \A k \in DOMAIN ChainOf(n) : remote[ChainOf(n)[k]] # {}
    BY <1>6 DEF Builds, Archives, ToSet
  <2>2. \A k \in DOMAIN ChainOf(n) : made'[ChainOf(n)[k]] = made[ChainOf(n)[k]]
    BY <1>3, <2>1 DEF OthersKept
  <2>3. \A c : c = ChainOf(n) => ChainView(c)' = ChainView(c)
    BY <2>2, ViewKept
  <2> QED BY <1>2, <2>3 DEF View
<1> QED BY <1>2, <1>5, <1>6

\* What the archive of the run holds after a step that leaves something of it.
LEMMA OwnMade ==
  ASSUME Types, Progress, Content, [Next]_vars, ~Wiped, name \in Names, remote'[name] # {}
  PROVE  /\ pc \in {"zip", "manifest", "meta", "save"}
         /\ made'[name].kind = run.kind
         /\ made'[name].zip = made[name].zip
         /\ truth'[name] = truth[name]
         /\ made'[name].chain \in {<<>>, ManifestChain}
         /\ made'[name].deleted \in {{}, Deleted}
         /\ "manifest" \in remote'[name] =>
              made'[name].chain = ManifestChain /\ made'[name].deleted = Deleted
         /\ "meta" \in remote'[name] => made'[name].meta = SnapshotMeta
<1> DEFINE Goal == /\ made'[name].kind = run.kind
                   /\ made'[name].zip = made[name].zip
                   /\ truth'[name] = truth[name]
                   /\ made'[name].chain \in {<<>>, ManifestChain}
                   /\ made'[name].deleted \in {{}, Deleted}
                   /\ "manifest" \in remote'[name] =>
                        made'[name].chain = ManifestChain /\ made'[name].deleted = Deleted
                   /\ "meta" \in remote'[name] => made'[name].meta = SnapshotMeta
<1> USE DEF Goal
<1>1. pc # "idle" /\ remote[name] = SoFar
  BY DEF Progress, Names
<1>2. ASSUME pc \notin {"zip", "manifest", "meta", "save"} PROVE FALSE
  <2>1. pc = "pack" /\ remote[name] = {}
    BY <1>1, <1>2 DEF SoFar, Types, RunTypes
  <2>2. remote' = remote
    BY <2>1 DEF Next, Edit, Scan, NothingToDo, Pack, PackFails, Fail, UploadZip, UploadManifest,
       UploadMeta, Upload, SaveIndex, Crash, Wipe, vars
  <2> QED BY <2>1, <2>2
\* A step that ends the run with the parts "parts".
<1>3. ASSUME NEW parts, Finish(parts) PROVE made'[name] = parts[name] /\ truth'[name] = truth[name]
  BY <1>3 DEF Finish
<1>4. CASE made'[name] = made[name] /\ truth'[name] = truth[name] /\ remote'[name] \subseteq remote[name]
  <2>1. pc \in {"zip", "manifest"} => "manifest" \notin remote'[name] /\ "meta" \notin remote'[name]
    BY <1>1, <1>4 DEF SoFar
  <2>2. pc = "meta" => "meta" \notin remote'[name]
    BY <1>1, <1>4 DEF SoFar
  <2> QED BY <1>2, <1>4, <2>1, <2>2 DEF Content
<1>5. CASE Crash
  BY <1>3, <1>4, <1>5 DEF Crash, Fail
<1>6. CASE SaveIndex
  <2>1. remote'[name] \subseteq remote[name]
    BY <1>6 DEF SaveIndex, Rollback, Types, DestTypes
  <2> QED BY <1>3, <1>4, <1>6, <2>1 DEF SaveIndex
<1>7. CASE UNCHANGED vars
  BY <1>4, <1>7 DEF vars
<1>8. ASSUME NEW part, NEW next, NEW parts, pc = part, Upload(part, next, parts)
      PROVE  made'[name] = parts[name] /\ truth'[name] = truth[name]
             /\ remote'[name] \subseteq remote[name] \cup {part}
  <2>1. CASE Uploaded(part, next, parts)
    BY <2>1 DEF Uploaded, Types, DestTypes
  <2>2. CASE UploadFailed(part, parts)
    BY <1>3, <2>2 DEF UploadFailed, Rollback, Types, DestTypes
  <2> QED BY <1>8, <2>1, <2>2 DEF Upload
<1>9. CASE UploadZip
  <2>1. pc = "zip"
    BY <1>9 DEF UploadZip, Upload
  <2>2. /\ made'[name] = made[name] /\ truth'[name] = truth[name]
        /\ remote'[name] \subseteq remote[name] \cup {"zip"}
    BY <1>8, <1>9, <2>1 DEF UploadZip
  <2>3. remote[name] = {}
    BY <1>1, <2>1 DEF SoFar
  <2> QED BY <1>2, <2>1, <2>2, <2>3 DEF Content
<1>10. CASE UploadManifest
  <2>1. pc = "manifest" /\ remote[name] = {"zip"}
    BY <1>1, <1>10, ManifestUploads DEF SoFar
  <2>2. /\ made'[name] = WithManifest[name] /\ truth'[name] = truth[name]
        /\ remote'[name] \subseteq remote[name] \cup {"manifest"}
    BY <1>8, <1>10, <2>1, ManifestUploads
  <2> QED BY <2>1, <2>2, ManifestAdded DEF Content
<1>11. CASE UploadMeta
  <2>1. pc = "meta"
    BY <1>11, ManifestUploads
  <2>2. /\ made'[name] = WithMeta[name] /\ truth'[name] = truth[name]
        /\ remote'[name] \subseteq remote[name] \cup {"meta"}
    BY <1>8, <1>11, <2>1, ManifestUploads
  <2> QED BY <2>1, <2>2, MetaAdded DEF Content
<1>12. CASE Wipe
  BY <1>12 DEF Wipe, Wiped
<1>13. \/ Crash \/ SaveIndex \/ UNCHANGED vars \/ UploadZip \/ UploadManifest \/ UploadMeta \/ Wipe
  BY <1>1, <1>2 DEF Next, Edit, Scan, NothingToDo, Pack, PackFails
<1> QED BY <1>2, <1>5, <1>6, <1>7, <1>9, <1>10, <1>11, <1>12, <1>13

LEMMA ChainsStep ==
  ASSUME Types, Progress, Content, ChainsGoBack, [Next]_vars
  PROVE  ChainsGoBack'
<1> SUFFICES ASSUME NEW n \in Names, remote'[n] # {}
             PROVE  /\ \A k \in DOMAIN made'[n].chain : made'[n].chain[k] <= n
                    /\ made'[n].kind = "full" =>
                         made'[n].deleted = {} /\ ("manifest" \in remote'[n] => made'[n].chain = <<n>>)
  BY DEF ChainsGoBack
<1>1. ~Wiped /\ Kept
  BY KeptStep DEF Wiped
<1>2. CASE n # name
  BY <1>1, <1>2 DEF Kept, OthersKept, ChainsGoBack
<1>3. CASE n = name
  <2>1. /\ made'[n].kind = run.kind
        /\ made'[n].chain \in {<<>>, ManifestChain}
        /\ made'[n].deleted \in {{}, Deleted}
        /\ "manifest" \in remote'[n] => made'[n].chain = ManifestChain
    BY <1>1, <1>3, OwnMade
  <2>2. pc # "idle"
    BY <1>3 DEF Progress, Names
  <2>3. \A k \in DOMAIN ManifestChain : ManifestChain[k] <= n
    <3>1. CASE run.kind = "full"
      BY <1>3, <3>1 DEF ManifestChain, Names
    <3>2. CASE run.kind # "full"
      <4> DEFINE c == index.archives
      <4>1. c \in Seq(Names) /\ \A k \in DOMAIN c : c[k] < n
        BY <1>3, <2>2 DEF Progress, Types, IndexTypes, Index
      <4>2. /\ Len(c) \in Nat /\ DOMAIN c = 1..Len(c)
            /\ DOMAIN Append(c, n) = 1..(Len(c) + 1)
            /\ Append(c, n)[Len(c) + 1] = n
            /\ \A k \in 1..Len(c) : Append(c, n)[k] = c[k] /\ c[k] \in Names
        BY <4>1
      <4>3. ASSUME NEW k \in DOMAIN Append(c, n) PROVE Append(c, n)[k] <= n
        <5>1. CASE k = Len(c) + 1
          BY <4>2, <5>1 DEF Names
        <5>2. CASE k \in 1..Len(c)
          BY <4>1, <4>2, <5>2 DEF Names
        <5> QED BY <4>2, <5>1, <5>2
      <4> QED BY <1>3, <3>2, <4>3 DEF ManifestChain
    <3> QED BY <3>1, <3>2
  <2>4. run.kind = "full" => Deleted = {} /\ ManifestChain = <<n>>
    BY <1>3 DEF Deleted, ManifestChain
  <2>5. \A k \in DOMAIN <<>> : <<>>[k] <= n
    OBVIOUS
  <2> QED BY <2>1, <2>3, <2>4, <2>5
<1> QED BY <1>2, <1>3

\* The snapshot of the run that can be read before and after a step.
LEMMA OwnKeptView ==
  ASSUME Types, Progress, Content, ChainsGoBack, Kept, ~Wiped, [Next]_vars, NEW n \in Names,
         n = name, Builds(n), Builds(n)'
  PROVE  View(n)' = View(n)
<1>1. /\ remote[n] # {} /\ remote'[n] # {} /\ pc # "idle"
  BY DEF Builds, Archives, Progress, Names
<1>2. /\ made'[n].kind = run.kind
      /\ made'[n].zip = made[n].zip
      /\ made[n].kind = run.kind
  BY <1>1, OwnMade DEF Content
<1>3. CASE run.kind = "full"
  <2>1. ChainOf(n) = <<n>>
    BY <1>1, <1>2, <1>3 DEF ChainOf, ChainsGoBack
  <2>2. ChainOf(n)' = <<n>>
    BY <1>1, <1>3, OwnMade DEF ChainOf, ManifestChain
  <2>3. made[n].deleted = {} /\ made'[n].deleted = {}
    BY <1>1, <1>2, <1>3, OwnMade DEF ChainsGoBack, Deleted
  <2>4. DOMAIN <<n>> = {1} /\ <<n>>[1] = name
    OBVIOUS
  <2>5. \A c : c = <<n>> => ChainView(c)' = ChainView(c)
    BY <1>2, <2>3, <2>4, ViewKept
  <2> QED BY <2>1, <2>2, <2>5 DEF View
<1>4. CASE run.kind # "full"
  <2>1. "manifest" \in remote[n]
    BY <1>1, <1>2, <1>4 DEF Builds, Types, RunTypes
  <2>2. pc \in {"meta", "save"}
    BY <1>1, <2>1 DEF Progress, SoFar, Types, RunTypes
  <2>3. made'[n].chain = made[n].chain /\ made'[n].deleted = made[n].deleted
    BY <1>1, <2>2 DEF Kept, OwnKept
  <2>4. "manifest" \in remote'[n]
    BY <1>1, <1>2, <1>4 DEF Builds, Types, RunTypes
  <2>5. ChainOf(n) = made[n].chain /\ ChainOf(n)' = made[n].chain
    BY <2>1, <2>3, <2>4 DEF ChainOf
  <2>6. \A k \in DOMAIN made[n].chain :
          /\ made[n].chain[k] \in Names
          /\ made[n].chain[k] # n => remote[made[n].chain[k]] # {}
    <3>1. made[n].chain \in Seq(Names)
      BY DEF Types, DestTypes, Archive
    <3>2. \A k \in DOMAIN made[n].chain : made[n].chain[k] \in Names
      BY <3>1
    <3>3. \A m \in ToSet(made[n].chain) \ {n} : remote[m] # {}
      BY <2>5 DEF Builds
    <3> QED BY <3>2, <3>3 DEF ToSet
  <2>7. \A k \in DOMAIN made[n].chain :
          /\ made'[made[n].chain[k]].zip = made[made[n].chain[k]].zip
          /\ made'[made[n].chain[k]].deleted = made[made[n].chain[k]].deleted
    BY <1>2, <2>3, <2>6 DEF Kept, OthersKept
  <2>8. \A c : c = made[n].chain => ChainView(c)' = ChainView(c)
    BY <2>7, ViewKept
  <2> QED BY <2>5, <2>8 DEF View
<1> QED BY <1>3, <1>4

\* What the snapshots rest on.
Settled == Types /\ Progress /\ Content /\ ChainsGoBack

LEMMA SettledAlways == Spec => []Settled
<1>1. Init => Settled
  <2>1. Init => Types
    BY NoTypes, Zero, FileChainAssumption
       DEF Init, Types, DiskTypes, IndexTypes, DestTypes, RunTypes, TruthTypes, Records
  <2> QED BY <2>1 DEF Init, Settled, Progress, Content, ChainsGoBack
<1>2. Settled /\ [Next]_vars => Settled'
  BY TypeStep, ProgressStep, ContentStep, ChainsStep DEF Settled
<1> QED BY <1>1, <1>2, PTL DEF Spec

\* A snapshot that can be read before and after a step shows the same: later
\* runs, their rollbacks and crashes touch their own archive only, and what a run
\* adds to its own once it can be read changes nothing of it.
THEOREM SnapshotsStay == Spec => SnapshotImmutable
<1>1. ASSUME Settled, [Next]_vars, NEW n \in Names, Builds(n), Builds(n)'
      PROVE  View(n)' = View(n)
  <2>1. remote[n] # {} /\ remote'[n] # {}
    BY <1>1 DEF Builds, Archives
  <2>2. ~Wiped /\ Kept
    BY <1>1, <2>1, KeptStep DEF Wiped, Settled
  <2>3. CASE n # name
    BY <1>1, <2>1, <2>2, <2>3, OthersView DEF Kept, Settled
  <2>4. CASE n = name
    BY <1>1, <2>2, <2>4, OwnKeptView DEF Settled
  <2> QED BY <2>3, <2>4
<1>2. Settled /\ [Next]_vars =>
        [\A n \in Names : Builds(n) /\ Builds(n)' => View(n)' = View(n)]_vars
  BY <1>1
<1> QED BY <1>2, SettledAlways, PTL DEF Spec, SnapshotImmutable

-----------------------------------------------------------------------------
(* What the snapshots show.                                                *)

Writing == pc \in {"zip", "manifest", "meta", "save"}

\* What the archives of the index show together.
IndexView == ChainView(index.archives)

\* No number of a body is used twice.
Fresh == \A f \in Files :
  /\ disk[f].body <= edits + 1
  /\ index.files[f].body <= edits + 1
  /\ run.scan[f].body <= edits + 1

\* Until it is packed, a scanned file has its bytes of the scan or later ones, and
\* what could not be looked at is not scanned.
Windows ==
  /\ \A f \in run.blocked : run.scan[f].body = 0
  /\ pc = "pack" => \A f \in Scanned :
       /\ run.scan[f].body \in window[f]
       /\ \A b \in window[f] : b # run.scan[f].body => disk[f].body # run.scan[f].body

\* When the archive has other bytes than the scan saw, the file has changed since.
Bytes ==
  Writing => \A f \in Archived :
    made[name].zip[f] # run.scan[f].body => disk[f].body # run.scan[f].body

\* What a reader may find in the snapshot of the run.
Promise ==
  Writing => \A f \in Files :
    /\ f \in Archived => made[name].zip[f] \in truth[name][f].bodies
    /\ f \notin Archived /\ run.kind = "full" => 0 \in truth[name][f].bodies
    /\ f \in Deleted => 0 \in truth[name][f].bodies
    /\ f \notin Archived /\ f \notin Deleted /\ run.kind = "incremental" =>
         IndexView[f] \in truth[name][f].bodies
    /\ f \in Scanned => truth[name][f].acl = run.scan[f].acl
    /\ f \notin Scanned /\ run.kind = "incremental" =>
         truth[name][f].acl = truth[LastArchive][f].acl

\* The index says what its last archive shows, and when it is wrong about the
\* bytes of a file, the file has changed since.
IndexTrue ==
  BaseThere =>
    /\ \A k \in DOMAIN index.archives : remote[index.archives[k]] = Parts
    /\ made[LastArchive].chain = index.archives
    /\ \A f \in Files :
         /\ (index.files[f].body # 0) <=> (IndexView[f] # 0)
         /\ index.files[f].body # 0 =>
              /\ index.meta[f] = index.files[f].acl
              /\ index.meta[f] = truth[LastArchive][f].acl
              /\ \/ IndexView[f] = index.files[f].body
                 \/ index.files[f].body \notin {disk[f].body, run.scan[f].body}

-----------------------------------------------------------------------------
(* Scanning and packing.                                                   *)

LEMMA NewIndexFiles ==
  ASSUME Types, NEW f \in Files, pc # "idle"
  PROVE  NewIndex.files[f].body \in {0, run.scan[f].body, index.files[f].body}
<1>1. NewIndex.files[f] =
        IF f \in Archived THEN run.scan[f]
        ELSE IF run.kind = "full" \/ f \in Deleted THEN Nothing
        ELSE IF index.files[f] # Nothing /\ f \in Scanned /\ NeedsACL(f)
             THEN [index.files[f] EXCEPT !.acl = run.scan[f].acl]
        ELSE index.files[f]
  BY DEF NewIndex
<1>2. index.files[f] \in Records
  BY DEF Types, IndexTypes, Index
<1>3. [index.files[f] EXCEPT !.acl = run.scan[f].acl].body = index.files[f].body
  BY <1>2 DEF Records
<1> QED BY <1>1, <1>3 DEF Nothing

LEMMA FreshStep == ASSUME Types, Fresh, [Next]_vars PROVE Fresh'
<1> USE DEF Fresh
<1> DEFINE Small(i) == \A f \in Files : i[f].body <= edits + 1
<1>1. edits \in Nat /\ 0 <= edits + 1
  BY FileChainAssumption DEF Types, DiskTypes
<1>2. ASSUME UNCHANGED <<edits, disk>>, Small(index'.files), Small(run'.scan) PROVE Fresh'
  BY <1>2
<1>3. Small(NoIndex.files) /\ Small(NoRun.scan)
  BY <1>1 DEF NoIndex, NoRun, Nothing
<1>4. Small(index.files) /\ Small(run.scan) /\ Small(disk)
  OBVIOUS
<1>5. ASSUME NEW f \in Files, Edit(f) PROVE Fresh'
  <2>1. edits' = edits + 1 /\ index' = index /\ run' = run
    BY <1>5 DEF Edit
  <2>2. ASSUME NEW g \in Files PROVE disk'[g].body <= edits + 2
    <3>1. disk[g] \in Records /\ disk[g].body <= edits + 1 /\ disk[g].body \in Nat
      BY DEF Types, DiskTypes, Records, Stamps
    <3>2. disk'[g].body \in {edits + 2, 0, disk[g].body}
      BY <1>5, EditedDisk
    <3> QED BY <1>1, <3>1, <3>2
  <2>3. /\ \A g \in Files : index.files[g].body \in Nat /\ run.scan[g].body \in Nat
        /\ \A g \in Files : index.files[g].body <= edits + 2 /\ run.scan[g].body <= edits + 2
    <3>1. \A g \in Files : index.files[g].body \in Nat /\ run.scan[g].body \in Nat
      BY DEF Types, IndexTypes, Index, RunTypes, Run, Records, Stamps
    <3> QED BY <1>1, <3>1
  <2> QED BY <1>1, <2>1, <2>2, <2>3
<1>6. ASSUME NEW force \in BOOLEAN, NEW blocked \in SUBSET Files, Scan(force, blocked) PROVE Fresh'
  <2>1. /\ UNCHANGED <<edits, disk>> /\ index' \in {NoIndex, index}
        /\ run'.scan = ScanFiles(blocked)
    BY <1>6 DEF Scan
  <2>2. Small(ScanFiles(blocked))
    BY <1>1 DEF ScanFiles, Nothing
  <2> QED BY <1>2, <1>3, <1>4, <2>1, <2>2
<1>7. ASSUME UNCHANGED <<edits, disk, index>>, run'.scan \in {run.scan, NoRun.scan} PROVE Fresh'
  BY <1>2, <1>3, <1>4, <1>7
<1>8. CASE NothingToDo \/ PackFails \/ Crash \/ Wipe
  BY <1>7, <1>8 DEF NothingToDo, PackFails, Crash, Wipe, Fail, Finish
<1>9. ASSUME NEW skipped \in SUBSET Files, Pack(skipped) PROVE Fresh'
  <2>1. UNCHANGED <<edits, disk, index>>
    BY <1>9 DEF Pack, Fail
  <2>2. run'.scan \in {run.scan, NoRun.scan}
    BY <1>9 DEF Pack, Fail, Finish, Types, RunTypes, Run
  <2> QED BY <1>7, <2>1, <2>2
<1>10. CASE UploadZip \/ UploadManifest \/ UploadMeta
  BY <1>7, <1>10 DEF UploadZip, UploadManifest, UploadMeta, Upload, Uploaded, UploadFailed, Finish
<1>11. CASE SaveIndex
  <2>1. UNCHANGED <<edits, disk>> /\ index' \in {index, NewIndex} /\ run' = NoRun
    BY <1>11 DEF SaveIndex, Finish
  <2>2. pc # "idle"
    BY <1>11 DEF SaveIndex
  <2>3. Small(NewIndex.files)
    BY <1>1, <2>2, NewIndexFiles
  <2> QED BY <1>2, <1>3, <1>4, <2>1, <2>3
<1>12. CASE UNCHANGED vars
  BY <1>12 DEF vars
<1> QED BY <1>5, <1>6, <1>8, <1>9, <1>10, <1>11, <1>12 DEF Next

LEMMA FinishWindows == ASSUME NEW parts, Finish(parts) PROVE Windows'
  BY DEF Finish, Windows, NoRun

LEMMA WindowsStep == ASSUME Types, Fresh, Windows, [Next]_vars PROVE Windows'
<1> USE DEF Windows
<1>1. ASSUME NEW f \in Files, Edit(f) PROVE Windows'
  <2>1. run' = run /\ pc' = pc /\ Scanned' = Scanned
    BY <1>1 DEF Edit, Scanned, Present
  <2>2. ASSUME pc = "pack", NEW g \in Scanned
        PROVE  /\ run.scan[g].body \in window'[g]
               /\ \A b \in window'[g] : b # run.scan[g].body => disk'[g].body # run.scan[g].body
    <3>1. /\ g \in Files /\ run.scan[g].body \in Nat /\ run.scan[g].body # 0
          /\ run.scan[g].body <= edits + 1 /\ edits \in Nat
      BY FileChainAssumption DEF Scanned, Present, Fresh, Types, RunTypes, Run, Records, Stamps, DiskTypes
    <3>2. /\ window'[g] = IF g = f THEN window[g] \cup {disk'[g].body} ELSE window[g]
      BY <1>1, <2>2, <3>1 DEF Edit, Types, RunTypes
    <3>3. disk'[g].body \in {edits + 2, 0, disk[g].body}
      BY <1>1, <3>1, EditedDisk
    <3>4. edits + 2 # run.scan[g].body
      BY <3>1
    <3> QED BY <2>2, <3>1, <3>2, <3>3, <3>4
  <2> QED BY <2>1, <2>2
<1>2. ASSUME NEW force \in BOOLEAN, NEW blocked \in SUBSET Files, Scan(force, blocked) PROVE Windows'
  <2> DEFINE scan == ScanFiles(blocked)
  <2>1. /\ run'.scan = scan /\ run'.blocked = blocked
        /\ window' = [f \in Files |-> {scan[f].body} \ {0}]
        /\ UNCHANGED disk
    BY <1>2 DEF Scan
  <2>2. \A f \in blocked : scan[f].body = 0
    BY DEF ScanFiles, Nothing
  <2>3. Scanned' = {f \in Files : scan[f].body # 0}
    BY <2>1 DEF Scanned, Present
  <2> HIDE DEF scan
  <2> QED BY <2>1, <2>2, <2>3
<1>3. CASE NothingToDo \/ PackFails \/ Crash
  BY <1>3, FinishWindows DEF NothingToDo, PackFails, Crash, Fail
<1>4. ASSUME NEW skipped \in SUBSET Files, Pack(skipped) PROVE Windows'
  <2>1. CASE Fail
    BY <2>1, FinishWindows DEF Fail
  <2>2. CASE ~Fail
    <3>1. pc' = "zip" /\ run' = [run EXCEPT !.skipped = skipped]
      BY <1>4, <2>2 DEF Pack
    <3>2. run'.scan = run.scan /\ run'.blocked = run.blocked
      BY <3>1 DEF Types, RunTypes, Run
    <3> QED BY <3>1, <3>2
  <2> QED BY <2>1, <2>2
<1>5. ASSUME NEW part, NEW next \in {"manifest", "meta", "save"}, NEW parts, Upload(part, next, parts)
      PROVE  Windows'
  <2>1. CASE Uploaded(part, next, parts)
    BY <2>1 DEF Uploaded
  <2>2. CASE UploadFailed(part, parts)
    BY <2>2, FinishWindows DEF UploadFailed
  <2> QED BY <1>5, <2>1, <2>2 DEF Upload
<1>6. CASE UploadZip \/ UploadManifest \/ UploadMeta
  BY <1>5, <1>6 DEF UploadZip, UploadManifest, UploadMeta
<1>7. CASE SaveIndex \/ Wipe
  BY <1>7, FinishWindows DEF SaveIndex, Wipe
<1>8. CASE UNCHANGED vars
  BY <1>8 DEF vars, Scanned, Present
<1> QED BY <1>1, <1>2, <1>3, <1>4, <1>6, <1>7, <1>8 DEF Next

\* The steps of a run that writes: it has just packed, or it goes on.
LEMMA WritingSteps ==
  ASSUME Types, Progress, Content, [Next]_vars, Writing'
  PROVE  \/ \E skipped \in SUBSET Files : Pack(skipped) /\ pc' = "zip" /\ ~Fail
         \/ /\ Writing
            /\ UNCHANGED <<disk, run, index, name, truth>>
            /\ made'[name].zip = made[name].zip
<1> DEFINE GoesOn == Writing /\ UNCHANGED <<disk, run, index, name, truth>>
                     /\ made'[name].zip = made[name].zip
<1> USE DEF Writing
<1>1. pc' # "idle" /\ pc' # "pack"
  OBVIOUS
<1>2. ASSUME NEW part \in Parts, NEW next, NEW parts, Upload(part, next, parts), pc = part,
             parts[name].zip = made[name].zip
      PROVE  GoesOn
  BY <1>1, <1>2 DEF Upload, Uploaded, UploadFailed, Finish, Parts
<1>3. CASE UploadZip
  BY <1>2, <1>3 DEF UploadZip, Upload, Parts
<1>4. CASE UploadManifest
  BY <1>2, <1>4, ManifestUploads, ManifestAdded DEF Parts
<1>5. CASE UploadMeta
  BY <1>2, <1>5, ManifestUploads, MetaAdded DEF Parts
<1>6. CASE UNCHANGED vars
  BY <1>6 DEF vars
<1>7. ASSUME NEW skipped \in SUBSET Files, Pack(skipped) PROVE pc' = "zip" /\ ~Fail
  BY <1>1, <1>7 DEF Pack, Fail, Finish
<1>8. ~(NothingToDo \/ PackFails \/ Crash \/ SaveIndex \/ Wipe)
  BY <1>1 DEF NothingToDo, PackFails, Crash, SaveIndex, Wipe, Fail, Finish
<1>9. ~(\E f \in Files : Edit(f))
  BY DEF Edit
<1>10. ~(\E force \in BOOLEAN, blocked \in SUBSET Files : Scan(force, blocked))
  BY <1>1 DEF Scan
<1> QED BY <1>3, <1>4, <1>5, <1>6, <1>7, <1>8, <1>9, <1>10 DEF Next

\* What the packing settles.
LEMMA PackMakes ==
  ASSUME Types, NEW skipped \in SUBSET Files, Pack(skipped), ~Fail
  PROVE  /\ pc = "pack" /\ skipped \subseteq Planned /\ pc' = "zip"
         /\ UNCHANGED <<disk, index, remote, name>>
         /\ run'.kind = run.kind /\ run'.scan = run.scan /\ run'.blocked = run.blocked
         /\ name \in Names
         /\ truth' = [truth EXCEPT ![name] = TruthOf(skipped)]
         /\ Scanned' = Scanned /\ Deleted' = Deleted
         /\ Archived' = Planned \ skipped
         /\ \A f \in Planned \ skipped : made'[name].zip[f] \in window[f] \ {0}
<1>1. /\ pc = "pack" /\ skipped \subseteq Planned /\ pc' = "zip"
      /\ UNCHANGED <<disk, index, remote, name>>
      /\ run' = [run EXCEPT !.skipped = skipped]
      /\ truth' = [truth EXCEPT ![name] = TruthOf(skipped)]
  BY DEF Pack
<1>2. /\ run'.kind = run.kind /\ run'.scan = run.scan /\ run'.blocked = run.blocked
      /\ run'.skipped = skipped
  BY <1>1 DEF Types, RunTypes, Run
<1>3. name \in Names
  BY <1>1 DEF Types, RunTypes
<1>4. Scanned' = Scanned /\ Deleted' = Deleted /\ Archived' = Planned \ skipped
  BY <1>1, <1>2 DEF Scanned, Deleted, Archived, Planned, NeedsContent, Present
<1>5. PICK zip \in ZipsOf(Planned \ skipped) :
        made' = [made EXCEPT ![name] = [NoArchive EXCEPT !.kind = run.kind, !.zip = zip]]
  BY DEF Pack
<1>6. made'[name].zip = zip
  BY <1>3, <1>5 DEF NoArchive, Types, DestTypes
<1>7. Planned \subseteq Files
  BY DEF Planned, Scanned, Present
<1>8. \A f \in Planned \ skipped : zip[f] \in window[f] \ {0}
  BY <1>5, <1>7 DEF ZipsOf
<1> QED BY <1>1, <1>2, <1>3, <1>4, <1>6, <1>8

LEMMA BytesStep ==
  ASSUME Types, Progress, Content, Windows, Bytes, [Next]_vars
  PROVE  Bytes'
<1> SUFFICES ASSUME Writing' PROVE Bytes'
  BY DEF Bytes
<1>1. ASSUME NEW skipped \in SUBSET Files, Pack(skipped), ~Fail PROVE Bytes'
  <2>1. \A f \in Planned : f \in Scanned
    BY DEF Planned
  <2> QED BY <1>1, <2>1, PackMakes DEF Bytes, Windows
<1>2. CASE /\ Writing /\ UNCHANGED <<disk, run, index, name, truth>>
           /\ made'[name].zip = made[name].zip
  <2>1. Archived' = Archived
    BY <1>2 DEF Archived, Planned, Scanned, NeedsContent, Present
  <2> QED BY <1>2, <2>1 DEF Bytes
<1> QED BY <1>1, <1>2, WritingSteps

-----------------------------------------------------------------------------
(* The archives of the index.                                              *)

\* The last snapshot of a chain that is there can be read, and shows what the
\* chain shows.
LEMMA LastView ==
  ASSUME Types, IndexTrue, BaseThere
  PROVE  /\ index.archives \in Seq(Names) /\ index.archives # <<>>
         /\ Base \in Names /\ LastArchive \in Names
         /\ Base = index.archives[1]
         /\ LastArchive = index.archives[Len(index.archives)]
         /\ 1 \in DOMAIN index.archives /\ Len(index.archives) \in DOMAIN index.archives
         /\ remote[LastArchive] = Parts /\ Builds(LastArchive)
         /\ View(LastArchive) = IndexView
<1>1. index.archives \in Seq(Names) /\ index.archives # <<>>
  BY DEF BaseThere, Base, Types, IndexTypes, Index
<1>2. /\ 1 \in DOMAIN index.archives /\ Len(index.archives) \in DOMAIN index.archives
      /\ \A k \in DOMAIN index.archives : index.archives[k] \in Names
  BY <1>1
<1>3. Base = index.archives[1] /\ LastArchive = index.archives[Len(index.archives)]
  BY <1>1 DEF Base, LastArchive, Last
<1>4. remote[LastArchive] = Parts /\ made[LastArchive].chain = index.archives
  BY <1>2, <1>3 DEF IndexTrue
<1>5. ChainOf(LastArchive) = index.archives
  BY <1>4 DEF ChainOf, Parts
<1>6. \A m \in ToSet(ChainOf(LastArchive)) : remote[m] = Parts
  BY <1>5 DEF IndexTrue, ToSet
<1>7. Builds(LastArchive)
  BY <1>2, <1>3, <1>4, <1>6 DEF Builds, Archives, Parts
<1> QED BY <1>1, <1>2, <1>3, <1>4, <1>5, <1>7 DEF View, IndexView

\* A step leaves the archives of the index alone.
LEMMA IndexKept ==
  ASSUME Types, Progress, IndexTrue, BaseThere, OthersKept
  PROVE  /\ \A c : c = index.archives => ChainView(c)' = ChainView(c)
         /\ \A k \in DOMAIN index.archives : remote'[index.archives[k]] = remote[index.archives[k]]
         /\ \A n : n = LastArchive => made'[n] = made[n] /\ truth'[n] = truth[n]
<1>1. index.archives \in Seq(Names)
  BY DEF Types, IndexTypes, Index
<1>2. \A k \in DOMAIN index.archives : index.archives[k] \in Names /\ index.archives[k] # name
  <2>1. \A k \in DOMAIN index.archives : index.archives[k] \in Names
    BY <1>1
  <2>2. CASE pc = "idle"
    BY <2>1, <2>2 DEF Progress, Names
  <2>3. CASE pc # "idle"
    <3>1. name \in Names
      BY <2>3 DEF Types, RunTypes
    <3> QED BY <2>1, <2>3, <3>1 DEF Progress, Names
  <2> QED BY <2>2, <2>3
<1>3. \A k \in DOMAIN index.archives : remote[index.archives[k]] # {}
  BY DEF IndexTrue, Parts
<1>4. \A k \in DOMAIN index.archives :
        /\ remote'[index.archives[k]] = remote[index.archives[k]]
        /\ made'[index.archives[k]] = made[index.archives[k]]
        /\ truth'[index.archives[k]] = truth[index.archives[k]]
  BY <1>2, <1>3 DEF OthersKept
<1>5. \A c : c = index.archives => ChainView(c)' = ChainView(c)
  BY <1>4, ViewKept
<1>6. \A n : n = LastArchive => made'[n] = made[n] /\ truth'[n] = truth[n]
  BY <1>4, LastView
<1> QED BY <1>4, <1>5, <1>6

LEMMA PromiseStep ==
  ASSUME Types, Progress, Content, Windows, IndexTrue, SnapshotFaithful, Promise, [Next]_vars
  PROVE  Promise'
<1> SUFFICES ASSUME Writing', NEW f \in Files
    PROVE (/\ f \in Archived => made[name].zip[f] \in truth[name][f].bodies
           /\ f \notin Archived /\ run.kind = "full" => 0 \in truth[name][f].bodies
           /\ f \in Deleted => 0 \in truth[name][f].bodies
           /\ f \notin Archived /\ f \notin Deleted /\ run.kind = "incremental" =>
                IndexView[f] \in truth[name][f].bodies
           /\ f \in Scanned => truth[name][f].acl = run.scan[f].acl
           /\ f \notin Scanned /\ run.kind = "incremental" =>
                truth[name][f].acl = truth[LastArchive][f].acl)'
  BY DEF Promise
<1>1. Kept /\ index' = index /\ name' = name /\ name \in Names
  <2>1. ~Wipe
    BY DEF Wipe, Finish, Writing
  <2>2. Kept
    BY <2>1, KeptStep
  <2>3. index' = index /\ name' = name /\ pc # "idle"
    BY WritingSteps, PackMakes DEF Writing
  <2> QED BY <2>2, <2>3 DEF Types, RunTypes
<1>2. run.kind = "incremental" =>
        /\ BaseThere
        /\ IndexView' = IndexView
        /\ LastArchive' = LastArchive /\ truth'[LastArchive] = truth[LastArchive]
        /\ LastArchive \in Names
        /\ LastArchive # name
  <2> SUFFICES ASSUME run.kind = "incremental" PROVE
        /\ BaseThere
        /\ IndexView' = IndexView
        /\ LastArchive' = LastArchive /\ truth'[LastArchive] = truth[LastArchive]
        /\ LastArchive \in Names
        /\ LastArchive # name
    OBVIOUS
  <2>1. BaseThere
    BY <1>1 DEF Progress, NoRun, Names
  <2>2. \A c : c = index.archives => ChainView(c)' = ChainView(c)
    BY <1>1, <2>1, IndexKept DEF Kept
  <2>3. truth'[LastArchive] = truth[LastArchive]
    BY <1>1, <2>1, IndexKept DEF Kept
  <2>4. LastArchive' = LastArchive
    BY <1>1 DEF LastArchive
  <2>5. LastArchive # name /\ LastArchive \in Names
    BY <1>1, <2>1, LastView DEF Progress, Names
  <2> QED BY <1>1, <2>1, <2>2, <2>3, <2>4, <2>5 DEF IndexView
<1>3. CASE /\ Writing
           /\ UNCHANGED <<disk, run, index, name, truth>>
           /\ made'[name].zip = made[name].zip
  <2>1. Archived' = Archived /\ Scanned' = Scanned /\ Deleted' = Deleted
    BY <1>3 DEF Archived, Planned, Scanned, NeedsContent, Present, Deleted
  <2> QED BY <1>2, <1>3, <2>1 DEF Promise
<1>4. ASSUME NEW skipped \in SUBSET Files, Pack(skipped), ~Fail
      PROVE (/\ f \in Archived => made[name].zip[f] \in truth[name][f].bodies
             /\ f \notin Archived /\ run.kind = "full" => 0 \in truth[name][f].bodies
             /\ f \in Deleted => 0 \in truth[name][f].bodies
             /\ f \notin Archived /\ f \notin Deleted /\ run.kind = "incremental" =>
                  IndexView[f] \in truth[name][f].bodies
             /\ f \in Scanned => truth[name][f].acl = run.scan[f].acl
             /\ f \notin Scanned /\ run.kind = "incremental" =>
                  truth[name][f].acl = truth[LastArchive][f].acl)'
  <2> DEFINE before == IF run.kind = "full" THEN [bodies |-> {0}, acl |-> 0]
                       ELSE truth[LastArchive][f]
             bodies == IF f \in skipped \cup run.blocked THEN before.bodies
                       ELSE IF f \in Scanned THEN window[f] \ {0}
                       ELSE {0}
             acl == IF f \in Scanned THEN run.scan[f].acl ELSE before.acl
  <2>1. truth'[name][f] = [bodies |-> bodies, acl |-> acl]
    <3>1. truth'[name] = TruthOf(skipped)
      BY <1>1, <1>4, PackMakes DEF Types, TruthTypes
    <3>2. TruthOf(skipped)[f] = [bodies |-> bodies, acl |-> acl]
      BY DEF TruthOf
    <3> QED BY <3>1, <3>2
  <2>2. truth'[name][f].bodies = bodies /\ truth'[name][f].acl = acl
    BY <2>1
  <2>3. /\ pc = "pack" /\ skipped \subseteq Planned
        /\ run'.kind = run.kind /\ run'.scan = run.scan
        /\ Scanned' = Scanned /\ Deleted' = Deleted /\ Archived' = Planned \ skipped
        /\ f \in Planned \ skipped => made'[name].zip[f] \in window[f] \ {0}
    BY <1>4, PackMakes
  <2>4. run.kind = "full" => before.bodies = {0}
    OBVIOUS
  <2>5. run.kind = "incremental" => before = truth[LastArchive][f]
    OBVIOUS
  <2>6. run.kind \in {"full", "incremental"}
    BY <2>3 DEF Types, RunTypes
  <2>7. f \in Planned => f \in Scanned
    BY DEF Planned
  <2>8. f \in Scanned => f \notin run.blocked /\ run.scan[f].body \in window[f] \ {0}
    BY <2>3 DEF Windows, Scanned, Present
  <2> HIDE DEF before
  <2>9. f \in Archived' => made'[name].zip[f] \in bodies
    BY <2>3, <2>7, <2>8
  <2>10. f \notin Archived' /\ run.kind = "full" => 0 \in bodies
    <3>1. run.kind = "full" => Planned = Scanned
      BY DEF Planned
    <3>2. CASE f \in skipped \cup run.blocked
      <4>1. bodies = before.bodies
        BY <3>2
      <4> QED BY <2>4, <4>1
    <3>3. CASE f \notin skipped \cup run.blocked
      <4>1. f \notin Archived' /\ run.kind = "full" => bodies = {0}
        BY <2>3, <3>1, <3>3
      <4> QED BY <4>1
    <3> QED BY <3>2, <3>3
  <2>11. f \in Deleted => 0 \in bodies
    BY <2>3, <2>7 DEF Deleted
  <2>12. f \notin Archived' /\ f \notin Deleted /\ run.kind = "incremental" => IndexView[f] \in bodies
    <3> SUFFICES ASSUME f \notin Archived', f \notin Deleted, run.kind = "incremental"
                 PROVE  IndexView[f] \in bodies
      OBVIOUS
    <3>1. CASE f \in skipped \cup run.blocked
      <4>1. View(LastArchive)[f] \in truth[LastArchive][f].bodies
        BY <1>2, LastView DEF SnapshotFaithful, Builds
      <4>2. bodies = truth[LastArchive][f].bodies
        BY <2>5, <3>1
      <4> QED BY <1>2, <4>1, <4>2, LastView
    <3>2. CASE f \notin skipped \cup run.blocked /\ f \in Scanned
      <4>1. index.files[f].body = run.scan[f].body /\ run.scan[f].body # 0
        BY <2>3, <3>2 DEF Planned, NeedsContent, Scanned, Present
      <4>2. IndexView[f] = run.scan[f].body
        BY <1>2, <4>1 DEF IndexTrue
      <4> QED BY <2>8, <3>2, <4>2
    <3>3. CASE f \notin skipped \cup run.blocked /\ f \notin Scanned
      <4>1. index.files[f].body = 0
        BY <3>3 DEF Deleted, Present
      <4>2. IndexView[f] = 0
        BY <1>2, <4>1 DEF IndexTrue
      <4> QED BY <3>3, <4>2
    <3> QED BY <3>1, <3>2, <3>3
  <2> HIDE DEF bodies
  <2>13. f \in Scanned => acl = run.scan[f].acl
    OBVIOUS
  <2>14. f \notin Scanned /\ run.kind = "incremental" => acl = truth[LastArchive][f].acl
    BY <2>5
  <2> HIDE DEF acl
  <2> QED
    BY <1>1, <1>2, <2>2, <2>3, <2>9, <2>10, <2>11, <2>12, <2>13, <2>14
<1> QED BY <1>3, <1>4, WritingSteps

\* The lemmas on chains, after a step.
LEMMA ViewsLater ==
  (/\ \A n : \A f \in Files : ChainView(<<n>>)[f] = made[n].zip[f]
   /\ \A c \in Seq(Names), n \in Names : \A f \in Files :
        ChainView(Append(c, n))[f] = IF Settles(n, f) THEN made[n].zip[f] ELSE ChainView(c)[f])'
<1>1. /\ \A n : \A f \in Files : ChainView(<<n>>)[f] = made[n].zip[f]
      /\ \A c \in Seq(Names), n \in Names : \A f \in Files :
           ChainView(Append(c, n))[f] = IF Settles(n, f) THEN made[n].zip[f] ELSE ChainView(c)[f]
  BY ViewOfOne, ViewOfLonger
<1> QED BY <1>1, PTL

\* What the snapshot of the run shows after a step: its own files, nothing of
\* what it calls deleted, and for the others what the index builds on.
LEMMA OwnView ==
  ASSUME Types, Progress, Content, IndexTrue, [Next]_vars, Kept, ~Wiped,
         NEW n \in Names, n = name, remote'[n] # {},
         run.kind = "full" \/ "manifest" \in remote'[n],
         NEW c, c = ManifestChain, NEW f \in Files
  PROVE  ChainView(c)'[f] = IF f \in Archived THEN made[n].zip[f]
                            ELSE IF run.kind = "full" \/ f \in Deleted THEN 0
                            ELSE IndexView[f]
<1>1. /\ made'[n].zip = made[n].zip /\ pc \in {"zip", "manifest", "meta", "save"}
      /\ "manifest" \in remote'[n] => made'[n].deleted = Deleted
  BY OwnMade
<1>2. (made[n].zip[f] # 0) <=> (f \in Archived)
  BY <1>1 DEF Content
<1>3. CASE run.kind = "full"
  <2>1. c = <<n>>
    BY <1>3 DEF ManifestChain
  <2>2. ChainView(c)'[f] = made'[n].zip[f]
    BY <2>1, ViewsLater
  <2> QED BY <1>1, <1>2, <1>3, <2>2
<1>4. CASE run.kind # "full"
  <2> DEFINE d == index.archives
  <2>1. c = Append(d, n) /\ d \in Seq(Names)
    BY <1>4 DEF ManifestChain, Types, IndexTypes, Index
  <2>2. BaseThere
    BY <1>1, <1>4 DEF Progress, Types, RunTypes
  <2>3. \A e : e = index.archives => ChainView(e)' = ChainView(e)
    BY <2>2, IndexKept DEF Kept
  <2>4. \A e \in Seq(Names) : ChainView(Append(e, n))'[f] =
          IF Settles(n, f)' THEN made'[n].zip[f] ELSE ChainView(e)'[f]
    BY ViewsLater
  <2>5. ChainView(c)'[f] = IF Settles(n, f)' THEN made'[n].zip[f] ELSE IndexView[f]
    <3>1. \A e : e = d => ChainView(Append(e, n))'[f] =
            IF Settles(n, f)' THEN made'[n].zip[f] ELSE IndexView[f]
      BY <2>1, <2>3, <2>4 DEF IndexView
    <3>2. \A e, g : e = d /\ g = Append(e, n) => ChainView(g)'[f] =
            IF Settles(n, f)' THEN made'[n].zip[f] ELSE IndexView[f]
      BY <3>1
    <3> QED BY <2>1, <3>2
  <2>6. Settles(n, f)' <=> (made[n].zip[f] # 0 \/ f \in Deleted)
    BY <1>1, <1>4 DEF Settles
  <2> QED BY <1>1, <1>2, <1>4, <2>5, <2>6
<1> QED BY <1>3, <1>4

LEMMA OwnSnapshot ==
  ASSUME Types, Progress, Content, IndexTrue, [Next]_vars, Kept, ~Wiped,
         NEW n \in Names, n = name, Builds(n)', NEW f \in Files
  PROVE  View(n)'[f] = IF f \in Archived THEN made[n].zip[f]
                       ELSE IF run.kind = "full" \/ f \in Deleted THEN 0
                       ELSE IndexView[f]
<1>1. remote'[n] # {} /\ (made'[n].kind = "incremental" => "manifest" \in remote'[n])
  BY DEF Builds, Archives
<1>2. /\ made'[n].kind = run.kind
      /\ "manifest" \in remote'[n] => made'[n].chain = ManifestChain
  BY <1>1, OwnMade
<1>3. run.kind \in {"full", "incremental"}
  BY DEF Types, RunTypes, Names, Progress
<1>4. ChainOf(n)' = ManifestChain
  BY <1>1, <1>2, <1>3 DEF ChainOf, ManifestChain
<1>5. \A c : c = ManifestChain =>
        ChainView(c)'[f] = IF f \in Archived THEN made[n].zip[f]
                           ELSE IF run.kind = "full" \/ f \in Deleted THEN 0
                           ELSE IndexView[f]
  BY <1>1, <1>2, <1>3, OwnView
<1> QED BY <1>4, <1>5 DEF View

LEMMA FaithfulStep ==
  ASSUME Types, Progress, Content, ChainsGoBack, IndexTrue, Promise, SnapshotFaithful, [Next]_vars
  PROVE  SnapshotFaithful'
<1> SUFFICES ASSUME NEW n \in Names, Builds(n)', NEW f \in Files
             PROVE  View(n)'[f] \in truth'[n][f].bodies
  BY DEF SnapshotFaithful, Archives
<1>1. remote'[n] # {}
  BY DEF Builds, Archives
<1>2. Kept /\ ~Wiped
  BY <1>1, KeptStep DEF Wiped
<1>3. CASE n # name
  <2>1. truth'[n] = truth[n] /\ remote[n] # {}
    BY <1>1, <1>2, <1>3 DEF Kept, OthersKept
  <2>2. Builds(n) /\ View(n)' = View(n)
    BY <1>2, <1>3, <2>1, OthersView DEF Kept
  <2> QED BY <2>1, <2>2 DEF SnapshotFaithful, Builds
<1>4. CASE n = name
  <2>1. Writing /\ truth'[n] = truth[n] /\ run.kind \in {"full", "incremental"}
    BY <1>1, <1>2, <1>4, OwnMade DEF Writing, Types, RunTypes
  <2>2. /\ f \in Archived => made[n].zip[f] \in truth[n][f].bodies
        /\ f \notin Archived /\ run.kind = "full" => 0 \in truth[n][f].bodies
        /\ f \in Deleted => 0 \in truth[n][f].bodies
        /\ f \notin Archived /\ f \notin Deleted /\ run.kind = "incremental" =>
             IndexView[f] \in truth[n][f].bodies
    BY <1>4, <2>1 DEF Promise
  <2> QED BY <1>2, <1>4, <2>1, <2>2, OwnSnapshot
<1> QED BY <1>3, <1>4

LEMMA MetaStep ==
  ASSUME Types, Progress, Content, ChainsGoBack, IndexTrue, Promise, MetaFaithful, [Next]_vars
  PROVE  MetaFaithful'
<1> SUFFICES ASSUME NEW n \in Names, Builds(n)', "meta" \in remote'[n], NEW f \in Files, View(n)'[f] # 0
             PROVE  made'[n].meta[f] = truth'[n][f].acl
  BY DEF MetaFaithful, Archives, MetaOf
<1>1. remote'[n] # {}
  BY DEF Builds, Archives
<1>2. Kept /\ ~Wiped
  BY <1>1, KeptStep DEF Wiped
<1>3. CASE n # name
  <2>1. truth'[n] = truth[n] /\ made'[n] = made[n] /\ remote'[n] = remote[n] /\ remote[n] # {}
    BY <1>1, <1>2, <1>3 DEF Kept, OthersKept
  <2>2. Builds(n) /\ View(n)' = View(n)
    BY <1>2, <1>3, <2>1, OthersView DEF Kept
  <2> QED BY <2>1, <2>2 DEF MetaFaithful, Builds, MetaOf
<1>4. CASE n = name
  <2>1. /\ Writing /\ truth'[n] = truth[n] /\ run.kind \in {"full", "incremental"}
        /\ made'[n].meta = SnapshotMeta
    BY <1>1, <1>2, <1>4, OwnMade DEF Writing, Types, RunTypes
  <2>2. View(n)'[f] = IF f \in Archived THEN made[n].zip[f]
                      ELSE IF run.kind = "full" \/ f \in Deleted THEN 0
                      ELSE IndexView[f]
    BY <1>2, <1>4, OwnSnapshot
  <2>3. /\ f \in Scanned => truth[n][f].acl = run.scan[f].acl
        /\ f \notin Scanned /\ run.kind = "incremental" =>
             truth[n][f].acl = truth[LastArchive][f].acl
    BY <1>4, <2>1 DEF Promise
  <2>4. f \in Archived => f \in Scanned
    BY DEF Archived, Planned
  <2>5. CASE run.kind = "full"
    <3>1. f \in Archived
      BY <2>2, <2>5
    <3> QED BY <2>1, <2>3, <2>4, <2>5, <3>1 DEF SnapshotMeta
  <2>6. CASE run.kind = "incremental"
    <3>1. BaseThere
      BY <2>1, <2>6 DEF Progress, Writing
    <3>2. f \notin Archived => f \notin Deleted /\ IndexView[f] # 0
      BY <2>2
    <3>3. f \notin Archived => index.files[f].body # 0 /\ index.meta[f] = index.files[f].acl
                               /\ index.meta[f] = truth[LastArchive][f].acl
      BY <3>1, <3>2 DEF IndexTrue
    <3>4. f \notin Deleted
      BY <2>4, <3>2 DEF Deleted
    <3>5. SnapshotMeta[f] = IF f \in Scanned /\ (NeedsContent(f) \/ NeedsACL(f))
                            THEN run.scan[f].acl ELSE index.meta[f]
      BY <2>6, <3>4 DEF SnapshotMeta
    <3>6. CASE f \in Scanned /\ (NeedsContent(f) \/ NeedsACL(f))
      BY <2>1, <2>3, <3>5, <3>6
    <3>7. CASE f \in Scanned /\ ~NeedsContent(f) /\ ~NeedsACL(f)
      <4>1. f \notin Archived
        BY <2>6, <3>7 DEF Archived, Planned
      <4> QED BY <2>1, <2>3, <3>3, <3>5, <3>7, <4>1 DEF NeedsACL
    <3>8. CASE f \notin Scanned
      BY <2>1, <2>3, <2>4, <2>6, <3>3, <3>5, <3>8
    <3> QED BY <3>6, <3>7, <3>8
  <2> QED BY <2>1, <2>5, <2>6
<1> QED BY <1>3, <1>4

-----------------------------------------------------------------------------
(* The index after a step.                                                 *)

\* A record of bytes the file has no longer does not come true again.
LEMMA StaleStays ==
  ASSUME Types, Fresh, [Next]_vars, NEW f \in Files, NEW b \in Nat \ {0}, b <= edits + 1,
         b \notin {disk[f].body, run.scan[f].body}
  PROVE  b \notin {disk'[f].body, run'.scan[f].body}
<1>0. NoRun.scan[f].body = 0
  BY DEF NoRun, Nothing
<1>1. ASSUME UNCHANGED disk, run'.scan \in {run.scan, NoRun.scan}
      PROVE  b \notin {disk'[f].body, run'.scan[f].body}
  BY <1>0, <1>1
<1>2. ASSUME NEW g \in Files, Edit(g) PROVE b \notin {disk'[f].body, run'.scan[f].body}
  <2>1. disk'[f].body \in {edits + 2, 0, disk[f].body}
    BY <1>2, EditedDisk
  <2>2. edits + 2 # b
    BY FileChainAssumption DEF Types, DiskTypes
  <2>3. run' = run
    BY <1>2 DEF Edit
  <2> QED BY <2>1, <2>2, <2>3
<1>3. ASSUME NEW force \in BOOLEAN, NEW blocked \in SUBSET Files, Scan(force, blocked)
      PROVE  b \notin {disk'[f].body, run'.scan[f].body}
  <2>1. disk' = disk /\ run'.scan = ScanFiles(blocked)
    BY <1>3 DEF Scan
  <2>2. ScanFiles(blocked)[f].body \in {0, disk[f].body}
    BY DEF ScanFiles, Nothing
  <2> QED BY <2>1, <2>2
<1>4. CASE NothingToDo \/ PackFails \/ Crash \/ Wipe \/ SaveIndex
  BY <1>1, <1>4 DEF NothingToDo, PackFails, Crash, Wipe, SaveIndex, Fail, Finish
<1>5. ASSUME NEW skipped \in SUBSET Files, Pack(skipped)
      PROVE  b \notin {disk'[f].body, run'.scan[f].body}
  <2>1. UNCHANGED disk
    BY <1>5 DEF Pack
  <2>2. run'.scan \in {run.scan, NoRun.scan}
    BY <1>5 DEF Pack, Fail, Finish, Types, RunTypes, Run
  <2> QED BY <1>1, <2>1, <2>2
<1>6. CASE UploadZip \/ UploadManifest \/ UploadMeta
  BY <1>1, <1>6 DEF UploadZip, UploadManifest, UploadMeta, Upload, Uploaded, UploadFailed, Finish
<1>7. CASE UNCHANGED vars
  BY <1>1, <1>7 DEF vars
<1> QED BY <1>2, <1>3, <1>4, <1>5, <1>6, <1>7 DEF Next

\* How the index changes.
LEMMA IndexSteps ==
  ASSUME Types, [Next]_vars
  PROVE  \/ index' = index
         \/ index' = NoIndex
         \/ SaveIndex /\ index' = NewIndex /\ UNCHANGED remote
<1>1. ASSUME NEW skipped \in SUBSET Files, Pack(skipped) PROVE index' = index
  BY <1>1 DEF Pack, Fail
<1>2. CASE UploadZip \/ UploadManifest \/ UploadMeta
  BY <1>2 DEF UploadZip, UploadManifest, UploadMeta, Upload, Uploaded, UploadFailed
<1> QED
  BY <1>1, <1>2 DEF Next, vars, Edit, Scan, NothingToDo, PackFails, Fail, SaveIndex, Crash, Wipe

\* The index that a run saves.
LEMMA SavedIndex ==
  ASSUME Types, Progress, Content, Bytes, Promise, IndexTrue, [Next]_vars, Kept, ~Wiped,
         SaveIndex, index' = NewIndex, UNCHANGED remote
  PROVE  IndexTrue'
<1> DEFINE new == NewIndex
<1>1. /\ pc = "save" /\ name \in Names /\ remote[name] = Parts
      /\ run.kind \in {"full", "incremental"}
  BY DEF SaveIndex, Progress, SoFar, Types, RunTypes
<1>2. remote'[name] # {} /\ "manifest" \in remote'[name]
  BY <1>1 DEF Parts
<1>3. /\ made'[name].zip = made[name].zip /\ made'[name].chain = ManifestChain
      /\ truth'[name] = truth[name] /\ pc \in {"zip", "manifest", "meta", "save"}
  BY <1>1, <1>2, OwnMade
<1>4. index'.archives = ManifestChain
  BY DEF NewIndex
<1>5. run.kind = "incremental" => BaseThere
  BY <1>1 DEF Progress
<1>6. /\ LastArchive' = name
      /\ \A k \in DOMAIN ManifestChain : remote[ManifestChain[k]] = Parts
  <2>1. CASE run.kind = "full"
    <3>1. /\ ManifestChain = <<name>> /\ <<name>> # <<>>
          /\ DOMAIN <<name>> = {1} /\ <<name>>[1] = name /\ Len(<<name>>) = 1
      BY <2>1 DEF ManifestChain
    <3> QED BY <1>1, <1>4, <3>1 DEF LastArchive, Last
  <2>2. CASE run.kind = "incremental"
    <3> DEFINE d == index.archives
    <3>1. d \in Seq(Names) /\ \A k \in DOMAIN d : remote[d[k]] = Parts
      BY <1>5, <2>2 DEF IndexTrue, Types, IndexTypes, Index
    <3>2. /\ Len(d) \in Nat /\ DOMAIN d = 1..Len(d)
          /\ DOMAIN Append(d, name) = 1..(Len(d) + 1)
          /\ Append(d, name)[Len(d) + 1] = name
          /\ \A k \in 1..Len(d) : Append(d, name)[k] = d[k]
          /\ Append(d, name) # <<>> /\ Len(Append(d, name)) = Len(d) + 1
      BY <1>1, <3>1
    <3>3. ManifestChain = Append(d, name)
      BY <2>2 DEF ManifestChain
    <3> HIDE DEF d
    <3>4. LastArchive' = name
      BY <1>4, <3>2, <3>3 DEF LastArchive, Last
    <3>5. ASSUME NEW k \in DOMAIN Append(d, name) PROVE remote[Append(d, name)[k]] = Parts
      <4>1. CASE k = Len(d) + 1
        BY <1>1, <3>2, <4>1
      <4>2. CASE k \in 1..Len(d)
        BY <3>1, <3>2, <4>2
      <4> QED BY <3>2, <4>1, <4>2
    <3> QED BY <3>3, <3>4, <3>5
  <2> QED BY <1>1, <2>1, <2>2
<1>7. ASSUME NEW f \in Files
      PROVE  /\ (new.files[f].body # 0) <=> (IndexView'[f] # 0)
             /\ new.files[f].body # 0 =>
                  /\ new.meta[f] = new.files[f].acl
                  /\ new.meta[f] = truth[name][f].acl
                  /\ \/ IndexView'[f] = new.files[f].body
                     \/ new.files[f].body \notin {disk'[f].body, run'.scan[f].body}
  <2>1. IndexView'[f] = IF f \in Archived THEN made[name].zip[f]
                        ELSE IF run.kind = "full" \/ f \in Deleted THEN 0
                        ELSE IndexView[f]
    <3>1. \A n, c : n = name /\ c = ManifestChain =>
            ChainView(c)'[f] = IF f \in Archived THEN made[n].zip[f]
                               ELSE IF run.kind = "full" \/ f \in Deleted THEN 0
                               ELSE IndexView[f]
      BY <1>1, <1>2, OwnView
    <3>2. \A c : c = ManifestChain => IndexView' = ChainView(c)'
      BY <1>4 DEF IndexView
    <3> QED BY <3>1, <3>2
  <2>2. disk' = disk /\ run'.scan[f].body = 0
    BY DEF SaveIndex, Finish, NoRun, Nothing
  <2>3. /\ new.files[f] =
             IF f \in Archived THEN run.scan[f]
             ELSE IF run.kind = "full" \/ f \in Deleted THEN Nothing
             ELSE IF index.files[f] # Nothing /\ f \in Scanned /\ NeedsACL(f)
                  THEN [index.files[f] EXCEPT !.acl = run.scan[f].acl]
             ELSE index.files[f]
        /\ new.meta[f] =
             IF f \in Archived THEN run.scan[f].acl
             ELSE IF run.kind = "full" \/ f \in Deleted THEN 0
             ELSE IF index.files[f] # Nothing /\ f \in Scanned /\ NeedsACL(f)
                  THEN run.scan[f].acl
             ELSE index.meta[f]
    BY DEF NewIndex
  <2> HIDE DEF new
  <2>4. /\ f \in Scanned => truth[name][f].acl = run.scan[f].acl
        /\ f \notin Scanned /\ run.kind = "incremental" =>
             truth[name][f].acl = truth[LastArchive][f].acl
    BY <1>1 DEF Promise, Writing
  <2>5. f \in Archived => f \in Scanned /\ run.scan[f].body # 0
    BY DEF Archived, Planned, Scanned, Present
  <2>6. (made[name].zip[f] # 0) <=> (f \in Archived)
    BY <1>3 DEF Content
  <2>7. CASE f \in Archived
    <3>1. made[name].zip[f] # run.scan[f].body => disk[f].body # run.scan[f].body
      BY <1>1, <2>7 DEF Bytes, Writing
    <3> QED BY <2>1, <2>2, <2>3, <2>4, <2>5, <2>6, <2>7, <3>1
  <2>8. CASE f \notin Archived /\ (run.kind = "full" \/ f \in Deleted)
    BY <2>1, <2>3, <2>8 DEF Nothing
  <2>9. CASE f \notin Archived /\ ~(run.kind = "full" \/ f \in Deleted)
    <3>1. IndexView'[f] = IndexView[f]
      BY <2>1, <2>9
    <3>2. /\ (index.files[f].body # 0) <=> (IndexView[f] # 0)
          /\ index.files[f].body # 0 =>
               /\ index.meta[f] = index.files[f].acl
               /\ index.meta[f] = truth[LastArchive][f].acl
               /\ \/ IndexView[f] = index.files[f].body
                  \/ index.files[f].body \notin {disk[f].body, run.scan[f].body}
      BY <1>1, <1>5, <2>9 DEF IndexTrue
    <3>3. index.files[f] \in Records
      BY DEF Types, IndexTypes, Index
    <3>4. new.files[f].body = index.files[f].body
      BY <2>3, <2>9, <3>3 DEF Records
    <3>5. CASE index.files[f] # Nothing /\ f \in Scanned /\ NeedsACL(f)
      <4>1. new.meta[f] = run.scan[f].acl /\ new.files[f].acl = run.scan[f].acl
        BY <2>3, <2>9, <3>3, <3>5 DEF Records
      <4> QED BY <2>2, <2>4, <3>1, <3>2, <3>4, <3>5, <4>1
    <3>6. CASE ~(index.files[f] # Nothing /\ f \in Scanned /\ NeedsACL(f))
      <4>1. new.files[f] = index.files[f] /\ new.meta[f] = index.meta[f]
        BY <2>3, <2>9, <3>6
      <4>2. index.files[f].body # 0 => truth[name][f].acl = index.meta[f]
        BY <1>1, <2>4, <2>9, <3>2, <3>6 DEF Nothing, NeedsACL
      <4> QED BY <2>2, <3>1, <3>2, <4>1, <4>2
    <3> QED BY <3>5, <3>6
  <2> QED BY <2>7, <2>8, <2>9
<1>8. \A k \in DOMAIN index'.archives : remote'[index'.archives[k]] = Parts
  BY <1>4, <1>6
<1>9. made'[LastArchive'].chain = index'.archives /\ truth'[LastArchive'] = truth[name]
  BY <1>3, <1>4, <1>6
<1> QED BY <1>7, <1>8, <1>9 DEF IndexTrue

LEMMA IndexStep ==
  ASSUME Types, Types', Progress, Content, Fresh, Bytes, Promise, IndexTrue, [Next]_vars
  PROVE  IndexTrue'
<1> SUFFICES ASSUME BaseThere' PROVE IndexTrue'
  BY DEF IndexTrue
<1>1. index' # NoIndex
  BY DEF BaseThere, Base, NoIndex
<1>2. Base' \in Names /\ "zip" \in remote'[Base']
  <2>1. index'.archives \in Seq(Names) /\ index'.archives # <<>>
    BY DEF BaseThere, Base, Types, IndexTypes, Index
  <2> QED BY <2>1 DEF BaseThere, Base
<1>3. ~Wiped /\ Kept
  BY <1>2, KeptStep DEF Wiped
<1>4. CASE index' = index
  <2>1. BaseThere
    <3>1. Base' = Base /\ Base \in Names /\ Base = index.archives[1] /\ 1 \in DOMAIN index.archives
      BY <1>4, <1>2 DEF BaseThere, Base, Types, IndexTypes, Index
    <3>2. Base # name
      BY <3>1 DEF Progress, Types, RunTypes, Names
    <3>3. remote'[Base] = remote[Base] /\ Base # 0
      BY <1>3, <3>1, <3>2 DEF Kept, OthersKept, Names
    <3> QED BY <1>2, <3>1, <3>3 DEF BaseThere
  <2>2. /\ \A c : c = index.archives => ChainView(c)' = ChainView(c)
        /\ \A k \in DOMAIN index.archives : remote'[index.archives[k]] = remote[index.archives[k]]
        /\ \A n : n = LastArchive => made'[n] = made[n] /\ truth'[n] = truth[n]
    BY <1>3, <2>1, IndexKept DEF Kept
  <2>3. IndexView' = IndexView /\ LastArchive' = LastArchive
    BY <1>4, <2>2 DEF IndexView, LastArchive
  <2>4. ASSUME NEW f \in Files, index.files[f].body # 0,
               index.files[f].body \notin {disk[f].body, run.scan[f].body}
        PROVE  index.files[f].body \notin {disk'[f].body, run'.scan[f].body}
    <3>1. index.files[f].body \in Nat \ {0} /\ index.files[f].body <= edits + 1
      BY <2>4 DEF Types, IndexTypes, Index, Records, Stamps, Fresh
    <3> QED BY <2>4, <3>1, StaleStays
  <2>5. /\ \A k \in DOMAIN index.archives : remote[index.archives[k]] = Parts
        /\ made[LastArchive].chain = index.archives
        /\ \A f \in Files :
             /\ (index.files[f].body # 0) <=> (IndexView[f] # 0)
             /\ index.files[f].body # 0 =>
                  /\ index.meta[f] = index.files[f].acl
                  /\ index.meta[f] = truth[LastArchive][f].acl
                  /\ \/ IndexView[f] = index.files[f].body
                     \/ index.files[f].body \notin {disk[f].body, run.scan[f].body}
    BY <2>1 DEF IndexTrue
  <2>6. made'[LastArchive] = made[LastArchive] /\ truth'[LastArchive] = truth[LastArchive]
    BY <2>2
  <2>7. /\ \A k \in DOMAIN index'.archives : remote'[index'.archives[k]] = Parts
        /\ made'[LastArchive'].chain = index'.archives
    BY <1>4, <2>2, <2>3, <2>5, <2>6
  <2>8. ASSUME NEW f \in Files
        PROVE  /\ (index'.files[f].body # 0) <=> (IndexView'[f] # 0)
               /\ index'.files[f].body # 0 =>
                    /\ index'.meta[f] = index'.files[f].acl
                    /\ index'.meta[f] = truth'[LastArchive'][f].acl
                    /\ \/ IndexView'[f] = index'.files[f].body
                       \/ index'.files[f].body \notin {disk'[f].body, run'.scan[f].body}
    BY <1>4, <2>3, <2>4, <2>5, <2>6
  <2> QED BY <2>7, <2>8 DEF IndexTrue
<1>5. CASE SaveIndex /\ index' = NewIndex /\ UNCHANGED remote
  BY <1>3, <1>5, SavedIndex
<1> QED BY <1>1, <1>4, <1>5, IndexSteps

-----------------------------------------------------------------------------
\* What an index, its chain and the snapshots agree on.
Agreed ==
  /\ Settled /\ Fresh /\ Windows /\ Bytes /\ Promise /\ IndexTrue
  /\ SnapshotFaithful /\ MetaFaithful

LEMMA AgreedAlways == Spec => []Agreed
<1>1. Init => Agreed
  <2> SUFFICES ASSUME Init PROVE Agreed
    OBVIOUS
  <2>1. Types
    BY NoTypes, Zero, FileChainAssumption
       DEF Init, Types, DiskTypes, IndexTypes, DestTypes, RunTypes, TruthTypes, Records
  <2>2. Settled
    BY <2>1 DEF Init, Settled, Progress, Content, ChainsGoBack
  <2>3. Fresh /\ Windows
    BY DEF Init, Fresh, Windows, NoIndex, NoRun, Nothing
  <2>4. Bytes /\ Promise /\ IndexTrue
    BY DEF Init, Bytes, Promise, Writing, IndexTrue, BaseThere, Base, NoIndex
  <2>5. SnapshotFaithful /\ MetaFaithful
    BY DEF Init, SnapshotFaithful, MetaFaithful, Archives
  <2> QED BY <2>2, <2>3, <2>4, <2>5 DEF Agreed
<1>2. Agreed /\ [Next]_vars => Agreed'
  BY TypeStep, ProgressStep, ContentStep, ChainsStep, FreshStep, WindowsStep, BytesStep,
     PromiseStep, IndexStep, FaithfulStep, MetaStep
     DEF Agreed, Settled
<1> QED BY <1>1, <1>2, PTL DEF Spec

\* Every snapshot that can be read shows each file with bytes it had while the
\* run looked at it, absent when it was absent, and as before when it could not
\* be read: those of failed and killed runs too, over any chain of archives.
THEOREM SnapshotsTellTheTruth == Spec => []SnapshotFaithful
<1>1. Agreed => SnapshotFaithful
  BY DEF Agreed
<1> QED BY <1>1, AgreedAlways, PTL

\* The access control list a restore applies to a file is the one it had at the
\* scan, or the earlier one when it could not be scanned.
THEOREM MetadataTellTheTruth == Spec => []MetaFaithful
<1>1. Agreed => MetaFaithful
  BY DEF Agreed
<1> QED BY <1>1, AgreedAlways, PTL

\* As long as the base lies at the destination, so do all the archives the index
\* builds on, each with its three parts.
THEOREM IndexedChainIsThere == Spec => []IndexRestorable
<1>1. Agreed => IndexRestorable
  BY DEF Agreed, IndexTrue, IndexRestorable, ToSet
<1> QED BY <1>1, AgreedAlways, PTL

\* The index knows exactly the files of the last snapshot, so that nothing it
\* leaves out of the next archive is missing from the chain.
THEOREM IndexKnowsTheSnapshot == Spec => []IndexAgrees
<1>1. Agreed => IndexAgrees
  BY LastView DEF Agreed, Settled, IndexTrue, IndexAgrees
<1> QED BY <1>1, AgreedAlways, PTL
=============================================================================
