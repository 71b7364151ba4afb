------------------------------ MODULE Settings ------------------------------
(***************************************************************************)
(* What the user has set up: the configuration file (internal/config), its *)
(* signature in a second file, and the secrets it refers to                *)
(* (internal/credential), as the window application (internal/appstore)    *)
(* and the service read and write them.                                    *)
(*                                                                         *)
(* Every operation is a plan: it loads the configuration, does its secret  *)
(* actions one file at a time, and saves the configuration when it changes *)
(* it.  Goroutines of the window share Store.mu; the goroutines of one     *)
(* program share config.mu; both programs share the data lock "config".    *)
(* Any program may end between two steps, and any write may fail.          *)
(*                                                                         *)
(* A configuration is abstracted to one destination, one job and the       *)
(* settings, each the number of the call that last set it (0: there is no  *)
(* such destination or job).  A secret is the number of the call that      *)
(* brought it.  There are three kinds: the secret of the destination, the  *)
(* passphrase of the job and the password of the mail server.              *)
(*                                                                         *)
(* Left out: the data lock's own failures (LockFile), the write of one     *)
(* file (one step), the copy in memory that views show, and a job without  *)
(* schedule, which needs no secret of its destination.                     *)
(***************************************************************************)
EXTENDS Naturals, Sequences, FiniteSets

CONSTANTS
  Views,      \* goroutines of the window application
  Ticker,     \* the goroutine of the service
  Nobody,     \* not a goroutine
  NoFile,     \* not a configuration
  Born,       \* how secrets may lie there at first: a subset of Births
  Corrupts,   \* quarantined files there may be: records, or NoFile
  MaxCalls,   \* bound: calls of the window and ticks of the service
  MaxFaults   \* bound: crashes and failed writes

Configs == [dest : Nat, job : Nat, set : Nat, old : BOOLEAN]

\* What the constants must satisfy.
SettingsAssumption ==
  /\ Ticker \notin Views /\ Nobody \notin Views \cup {Ticker}
  /\ NoFile \notin Configs /\ Corrupts \subseteq {NoFile} \cup [cfg : Configs, valid : BOOLEAN]
  /\ Born \subseteq {"none", "files", "legacy", "cred"}
  /\ MaxCalls \in Nat /\ MaxFaults \in Nat

VARIABLES
  file,     \* config.json
  sig,      \* config.json.hmac: the configuration it was computed of
  corrupt,  \* config.json.corrupt-*: the richest of them, if any
  busy,     \* the view that holds Store.mu
  mu,       \* the goroutine of each program that holds config.mu
  lock,     \* the goroutine that holds the data lock "config"
  stores,   \* where every kind of secret is kept
  th,       \* every goroutine: its place, operation, plan and configuration
  calls,    \* calls so far
  faults,   \* crashes and failed writes so far
  birth,    \* history: what there was at first
  want,     \* history: what the updates written so far add up to
  acked,    \* history: the last secret of each kind a call has acknowledged
  moved,    \* history: kinds that were taken out of the credential manager
  refused,  \* history: kinds of which a write has failed
  imported  \* history: a whole configuration has been imported

files == <<file, sig, corrupt>>
locks == <<busy, mu, lock>>
past == <<birth, want, acked, moved, refused, imported>>
settings == <<files, locks, stores, th, calls, faults, past>>

Kinds == {"secret", "passphrase", "smtp"}
Threads == Views \cup {Ticker}
Processes == {"window", "service"}
Program(t) == IF t = Ticker THEN "service" ELSE "window"

Empty == [dest |-> 0, job |-> 0, set |-> 0, old |-> FALSE]

\* Nothing is stored anywhere.
NoSecret == [user |-> 0, service |-> 0, legacy |-> 0, cred |-> 0]

-----------------------------------------------------------------------------
(* Configurations. *)

\* scoreConfig: a destination, in the old list or in the new one, is ten jobs.
Score(cfg) == (IF cfg.dest > 0 THEN 10 ELSE 0) + (IF cfg.job > 0 THEN 1 ELSE 0)

\* bestQuarantineScore.
QuarantineScore == IF corrupt = NoFile THEN 0 ELSE Score(corrupt.cfg)

\* ConfigNeedsRecovery.
NeedsRecovery(cfg) == QuarantineScore > Score(cfg)

\* normalizeConfig: servers of an old file become destinations.
Normalized(cfg) == [cfg EXCEPT !.old = FALSE]

\* paths.InstallHasData, of which secrets are the part that is modelled.
InstallHasData == \E k \in Kinds : stores[k].user + stores[k].service + stores[k].legacy > 0

-----------------------------------------------------------------------------
(* Secrets. *)

\* readDPAPISecret, readDPAPISMTPPassword, readDPAPIPassphrase: the service
\* cannot decrypt what belongs to the user, the user can read everything.
Read(p, k) ==
  LET s == stores[k]
  IN CASE p = "service" /\ s.service > 0 -> s.service
       [] p = "window" /\ s.user > 0 -> s.user
       [] p = "window" /\ s.user = 0 /\ s.service > 0 -> s.service
       [] OTHER -> s.legacy

\* The credential manager is that of the user, in the user's session.
Cred(t, k) == IF Program(t) = "window" THEN stores[k].cred ELSE 0

\* What the plan of an operation does with secrets, one after the other.
Act(a, k) == [a |-> a, k |-> k]

\* migrateServerSecrets: of the destination and the job that the
\* configuration lists, and of the mail server.
MigrationPlan(cfg) ==
  (IF cfg.dest > 0 THEN <<Act("migrate", "secret")>> ELSE <<>>)
    \o <<Act("migrate", "smtp")>>
    \o (IF cfg.job > 0 THEN <<Act("migrate", "passphrase")>> ELSE <<>>)

SetIf(given, k) == IF given THEN <<Act("set", k)>> ELSE <<>>

\* Store.SaveSettings: the password of the mail server, when one is given.
SettingsPlan(given) == SetIf(given, "smtp")

\* Store.DeleteDestination: the secret goes before the destination does.
DeleteDestinationPlan == <<Act("delete", "secret")>>

\* Store.DeleteJob.
DeleteJobPlan == <<Act("delete", "passphrase")>>

\* Variant: a destination is saved without a secret.
DestinationPlanBlindly(given) == SetIf(given, "secret")

\* Store.SaveDestination of a Proxmox server: a secret, or one there is.
DestinationPlan(given) == IF given THEN <<Act("set", "secret")>> ELSE <<Act("need", "secret")>>

\* Store.SaveJob of a scheduled job: the secret of the destination must be
\* there, then the passphrase of an encrypted job is stored, or must be there.
JobPlan(sealed, given) ==
  <<Act("need", "secret")>>
    \o (IF ~sealed THEN <<Act("delete", "passphrase")>>
        ELSE IF given THEN <<Act("set", "passphrase")>>
        ELSE <<Act("need", "passphrase")>>)

\* backuprunner.ResolveLaunch: what a run of the job needs.
UsePlan(cfg) ==
  (IF cfg.dest > 0 THEN <<Act("need", "secret")>> ELSE <<>>)
    \o (IF cfg.job > 0 THEN <<Act("need", "passphrase")>> ELSE <<>>)

\* What an operation does with secrets before it saves the configuration.
PlanOf(op, cfg) ==
  CASE op.name = "SaveDestination" -> DestinationPlan(op.given)
    [] op.name = "DeleteDestination" -> DeleteDestinationPlan
    [] op.name = "SaveJob" -> JobPlan(op.sealed, op.given)
    [] op.name = "DeleteJob" -> DeleteJobPlan
    [] op.name = "SaveSettings" -> SettingsPlan(op.given)
    [] op.name = "Reload" -> MigrationPlan(cfg)
    [] op.name = "Use" -> UsePlan(cfg)
    [] OTHER -> <<>>

\* The part of the configuration an update changes, and its new value.
Change(op, cfg) ==
  CASE op.name = "SaveDestination" -> [cfg EXCEPT !.dest = op.n]
    [] op.name = "DeleteDestination" -> [cfg EXCEPT !.dest = 0]
    [] op.name = "SaveJob" -> [cfg EXCEPT !.job = op.n]
    [] op.name = "DeleteJob" -> [cfg EXCEPT !.job = 0]
    [] op.name = "SaveSettings" -> [cfg EXCEPT !.set = op.n]
    [] OTHER -> cfg

Updates == {"SaveDestination", "DeleteDestination", "SaveJob", "DeleteJob", "SaveSettings"}

-----------------------------------------------------------------------------
Births == {"none", "files", "legacy", "cred"}

\* A secret that was there before is number 1, and so is what the file holds.
BornStore(how) ==
  CASE how = "files" -> [NoSecret EXCEPT !.user = 1, !.service = 1]
    [] how = "legacy" -> [NoSecret EXCEPT !.legacy = 1]
    [] how = "cred" -> [NoSecret EXCEPT !.cred = 1]
    [] OTHER -> NoSecret

Idle == [pc |-> "idle", op |-> [name |-> "none"], plan |-> <<>>, cfg |-> Empty,
         again |-> FALSE, val |-> 0]

\* The files of an installation: none at all, a configuration of this
\* version with its signature or before the first one was written, or one of
\* an older version.  A listed destination has a secret.
SettingsInit ==
  \E how \in Born, listed \in BOOLEAN, old \in BOOLEAN, there \in BOOLEAN,
     signed \in BOOLEAN :
    /\ (how = "none") => ~listed
    /\ old => listed
    /\ ~there => (~listed /\ ~signed)
    /\ file = IF there THEN [Empty EXCEPT !.dest = IF listed THEN 1 ELSE 0, !.old = old] ELSE NoFile
    /\ sig = IF signed THEN file ELSE NoFile
    /\ corrupt \in Corrupts
    /\ stores = [k \in Kinds |-> IF k = "passphrase" /\ how = "legacy" THEN NoSecret ELSE BornStore(how)]
    /\ birth = [how |-> how, old |-> old, signed |-> signed]
    /\ want = IF there THEN file ELSE Empty
    /\ acked = [k \in Kinds |-> IF how = "none" \/ (k = "passphrase" /\ how = "legacy") THEN 0 ELSE 1]
    /\ moved = {} /\ refused = {} /\ imported = FALSE
    /\ busy = Nobody /\ lock = Nobody
    /\ mu = [p \in Processes |-> Nobody]
    /\ th = [t \in Threads |-> Idle]
    /\ calls = 1 /\ faults = 0

-----------------------------------------------------------------------------
(* The steps of one goroutine. *)

GoOn(t, pc) == th' = [th EXCEPT ![t].pc = pc]

\* The operation has ended, well or not.
Ended(t) ==
  /\ th' = [th EXCEPT ![t] = Idle]
  /\ busy' = IF busy = t THEN Nobody ELSE busy

Fails == faults < MaxFaults /\ faults' = faults + 1

\* The calls of the views, with the number they give to what they bring.
\* Store.Update takes Store.mu for the whole of it.
Operations(n) ==
  [name : {"SaveDestination", "SaveSettings"}, given : BOOLEAN, n : {n}]
    \cup [name : {"SaveJob"}, given : BOOLEAN, sealed : BOOLEAN, n : {n}]
    \cup [name : {"DeleteDestination", "DeleteJob", "Import", "Reload", "Use"}, n : {n}]

\* ImportConfigDialog: a whole configuration, saved at once and without
\* Store.mu, then loaded.
ImportOf(op) == [Idle EXCEPT !.op = op, !.pc = "save", !.cfg = [Empty EXCEPT !.set = op.n]]

Call(t) ==
  /\ t \in Views /\ th[t].pc = "idle" /\ calls <= MaxCalls
  /\ \E op \in Operations(calls + 1) :
       /\ op.name \in Updates => busy = Nobody
       /\ busy' = IF op.name \in Updates THEN t ELSE busy
       /\ th' = [th EXCEPT ![t] = IF op.name = "Import" THEN ImportOf(op)
                                     ELSE [Idle EXCEPT !.op = op, !.pc = "load"]]
       /\ calls' = calls + 1
  /\ UNCHANGED <<files, mu, lock, stores, faults, past>>

\* checkSchedule, and the start of the service, which migrates.
ServiceTick ==
  /\ th[Ticker].pc = "idle" /\ calls <= MaxCalls
  /\ \E name \in {"Reload", "Use"} :
       th' = [th EXCEPT ![Ticker] = [Idle EXCEPT !.op = [name |-> name], !.pc = "load"]]
  /\ calls' = calls + 1
  /\ UNCHANGED <<files, locks, stores, faults, past>>

(* config.Load *)

Unlock(t) ==
  /\ mu' = [mu EXCEPT ![Program(t)] = Nobody]
  /\ lock' = IF lock = t THEN Nobody ELSE lock

ReadFile(t) ==
  /\ th[t].pc = "load" /\ mu[Program(t)] = Nobody
  /\ mu' = [mu EXCEPT ![Program(t)] = t]
  /\ th' = [th EXCEPT ![t].pc = IF file = NoFile THEN "create" ELSE "stat",
                      ![t].cfg = IF file = NoFile THEN Empty ELSE file]
  /\ UNCHANGED <<files, busy, lock, stores, calls, faults, past>>

\* Variant: the file is written without a second look under the lock.
CreateDefaultBlindly(t) ==
  /\ th[t].pc = "create" /\ lock = Nobody
  /\ lock' = t /\ file' = Empty /\ GoOn(t, "sign")
  /\ UNCHANGED <<sig, corrupt, busy, mu, stores, calls, faults, past>>

\* createDefaultConfigFile: looks again under the data lock.
CreateDefault(t) ==
  /\ th[t].pc = "create" /\ lock = Nobody
  /\ IF file = NoFile /\ InstallHasData
     THEN GoOn(t, "failed") /\ UNCHANGED <<file, lock>>
     ELSE /\ lock' = t
          /\ file' = IF file = NoFile THEN Empty ELSE file
          /\ th' = [th EXCEPT ![t].pc = IF file = NoFile THEN "sign" ELSE "stat",
                              ![t].cfg = IF file = NoFile THEN Empty ELSE file]
  /\ UNCHANGED <<sig, corrupt, busy, mu, stores, calls, faults, past>>

Parsed(t) == IF th[t].cfg.old THEN "migrate" ELSE "loaded"

\* ensureConfigSignature: the signature is compared, or missing.
Stat(t) ==
  /\ th[t].pc = "stat"
  /\ GoOn(t, IF sig = NoFile THEN "ensure" ELSE IF sig = th[t].cfg THEN Parsed(t) ELSE "failed")
  /\ UNCHANGED <<files, locks, stores, calls, faults, past>>

\* writeConfigSignature of what was read.
Ensure(t) ==
  /\ th[t].pc = "ensure"
  /\ sig' = th[t].cfg /\ GoOn(t, Parsed(t))
  /\ UNCHANGED <<file, corrupt, locks, stores, calls, faults, past>>

\* persistMigration, or the same under the lock of createDefaultConfigFile.
Migrate(t) ==
  /\ th[t].pc = "migrate" /\ lock \in {Nobody, t}
  /\ lock' = t
  /\ file' = Normalized(th[t].cfg)
  /\ th' = [th EXCEPT ![t].pc = "sign", ![t].cfg = Normalized(@)]
  /\ UNCHANGED <<sig, corrupt, busy, mu, stores, calls, faults, past>>

\* The signature of the default or of the migrated file.
Sign(t) ==
  /\ th[t].pc = "sign"
  /\ sig' = th[t].cfg
  /\ GoOn(t, "loaded")
  /\ UNCHANGED <<file, corrupt, locks, stores, calls, faults, past>>

\* LoadResilient: the configuration is used unless the quarantine is richer.
Loaded(t) ==
  /\ th[t].pc = "loaded" /\ Unlock(t)
  /\ th' = [th EXCEPT ![t].pc = IF NeedsRecovery(th[t].cfg) /\ ~th[t].again THEN "recover" ELSE "body",
                      ![t].plan = PlanOf(th[t].op, th[t].cfg)]
  /\ UNCHANGED <<files, busy, stores, calls, faults, past>>

\* A configuration that cannot be loaded is recovered or loaded once more.
LoadFailed(t) ==
  /\ th[t].pc = "failed" /\ Unlock(t)
  /\ IF th[t].again THEN Ended(t) ELSE GoOn(t, "recover") /\ UNCHANGED busy
  /\ UNCHANGED <<files, stores, calls, faults, past>>

\* validateRecoveredConfigData: its addresses are checked.
CandidateValid == corrupt.valid

\* RecoverFromQuarantine: no lock; the candidate must pass its validation.
Recover(t) ==
  /\ th[t].pc = "recover"
  /\ CASE QuarantineScore = 0 ->
            th' = [th EXCEPT ![t].pc = "load", ![t].again = TRUE] /\ UNCHANGED <<file, busy>>
       [] QuarantineScore > 0 /\ ~CandidateValid -> Ended(t) /\ UNCHANGED file
       [] OTHER -> file' = corrupt.cfg /\ GoOn(t, "recovered") /\ UNCHANGED busy
  /\ UNCHANGED <<sig, corrupt, mu, lock, stores, calls, faults, past>>

RecoverSign(t) ==
  /\ th[t].pc = "recovered"
  /\ sig' = corrupt.cfg
  /\ th' = [th EXCEPT ![t].pc = "load", ![t].again = TRUE]
  /\ UNCHANGED <<file, corrupt, locks, stores, calls, faults, past>>

(* internal/credential *)

Head1(t) == Head(th[t].plan)
Doing(t, a) == th[t].pc = "body" /\ th[t].plan # <<>> /\ Head1(t).a = a

\* The action is done; the next one of the plan follows.
NextAct(t) == th' = [th EXCEPT ![t].pc = "body", ![t].plan = Tail(@)]

\* An error of a secret ends a call; a migration is best effort.
ActFails(t) ==
  IF Head1(t).a = "migrate" THEN NextAct(t) /\ UNCHANGED busy ELSE Ended(t)

\* SetSecret, SetSMTPPassword: the credential manager first; SetPassphrase
\* goes to the files at once.
SetBegins(t) ==
  /\ Doing(t, "set")
  /\ LET k == Head1(t).k
     IN /\ stores' = IF k = "passphrase" THEN stores ELSE [stores EXCEPT ![k].cred = th[t].op.n]
        /\ th' = [th EXCEPT ![t].pc = "user", ![t].val = th[t].op.n]
  /\ UNCHANGED <<files, locks, calls, faults, past>>

\* A secret of the credential manager goes on to the files.
Move(t, k) ==
  /\ th' = [th EXCEPT ![t].pc = "user", ![t].val = Cred(t, k)]
  /\ moved' = moved \cup {k}

\* GetSecret, GetPassphrase: what the files hold, or what the credential
\* manager holds, which is moved to the files.
Need(t) ==
  /\ Doing(t, "need")
  /\ LET k == Head1(t).k
     IN IF Read(Program(t), k) > 0 THEN NextAct(t) /\ UNCHANGED <<busy, moved>>
        ELSE IF Cred(t, k) > 0
        THEN Move(t, k) /\ UNCHANGED busy
        ELSE Ended(t) /\ UNCHANGED moved
  /\ UNCHANGED <<files, mu, lock, stores, calls, faults, birth, want, acked, refused, imported>>

\* MigrateSecrets, MigrateSMTPPassword, MigratePassphrases.
MigrateSecret(t) ==
  /\ Doing(t, "migrate")
  /\ LET k == Head1(t).k
     IN IF Read(Program(t), k) = 0 /\ Cred(t, k) > 0
        THEN Move(t, k)
        ELSE NextAct(t) /\ UNCHANGED moved
  /\ UNCHANGED <<files, locks, stores, calls, faults, birth, want, acked, refused, imported>>

\* writeDPAPISecret, and in the same way writeDPAPISMTPPassword and
\* writeDPAPIPassphrase: the file of the user first.
WriteUser(t) ==
  /\ th[t].pc = "user"
  /\ stores' = [stores EXCEPT ![Head1(t).k].user = th[t].val]
  /\ GoOn(t, "service")
  /\ UNCHANGED <<files, locks, calls, faults, past>>

\* ... then the file of the service, as at the end of writeDPAPIPassphrase.
WriteService(t) ==
  /\ th[t].pc = "service"
  /\ stores' = [stores EXCEPT ![Head1(t).k].service = th[t].val]
  /\ GoOn(t, "settle")
  /\ UNCHANGED <<files, locks, calls, faults, past>>

\* Both files are there: older copies go, and a call is acknowledged.
Settle(t) ==
  /\ th[t].pc = "settle"
  /\ LET k == Head1(t).k
     IN /\ stores' = [stores EXCEPT ![k].legacy = 0, ![k].cred = 0]
        /\ acked' = IF Head1(t).a = "set" THEN [acked EXCEPT ![k] = th[t].val] ELSE acked
  /\ NextAct(t)
  /\ UNCHANGED <<files, locks, calls, faults, birth, want, moved, refused, imported>>

\* Variant: the undo takes the file of the service too.
UndoneBoth(t, s) ==
  [s EXCEPT !.user = 0, !.service = 0, !.cred = IF Head1(t).a = "set" THEN 0 ELSE @]

\* What is left of a secret of which one file could not be written: the file
\* of the user goes, and what SetSecret put into the credential manager.
Undone(t, s) ==
  [s EXCEPT !.user = IF th[t].pc = "service" THEN 0 ELSE @,
            !.cred = IF Head1(t).a = "set" /\ Head1(t).k # "passphrase" THEN 0 ELSE @]

\* One of the two files cannot be written.
WriteFails(t) ==
  /\ th[t].pc \in {"user", "service"} /\ Fails
  /\ LET k == Head1(t).k
     IN /\ stores' = [stores EXCEPT ![k] = Undone(t, @)]
        /\ refused' = refused \cup {k}
  /\ IF Head1(t).a = "need" THEN NextAct(t) /\ UNCHANGED busy ELSE ActFails(t)
  /\ UNCHANGED <<files, mu, lock, calls, birth, want, acked, moved, imported>>

\* DeleteSecret, DeletePassphrase: file by file (deleteDPAPISecret), then the
\* credential manager.
DeleteUser(t) ==
  /\ Doing(t, "delete")
  /\ stores' = [stores EXCEPT ![Head1(t).k].user = 0]
  /\ acked' = [acked EXCEPT ![Head1(t).k] = 0]
  /\ GoOn(t, "delete")
  /\ UNCHANGED <<files, locks, calls, faults, birth, want, moved, refused, imported>>

DeleteRest(t) ==
  /\ th[t].pc = "delete"
  /\ stores' = [stores EXCEPT ![Head1(t).k] = [NoSecret EXCEPT !.user = stores[Head1(t).k].user]]
  /\ NextAct(t)
  /\ UNCHANGED <<files, locks, calls, faults, past>>

(* Store.Update, config.Save *)

\* Store.Update: the plan is done, an update goes on to save, anything else
\* has ended.
BodyDone(t) ==
  /\ th[t].pc = "body" /\ th[t].plan = <<>>
  /\ IF th[t].op.name \in Updates
     THEN th' = [th EXCEPT ![t].pc = "save", ![t].cfg = Change(th[t].op, @)] /\ UNCHANGED busy
     ELSE Ended(t)
  /\ UNCHANGED <<files, mu, lock, stores, calls, faults, past>>

\* Variant: without the data lock and the mutex.
SaveUnguarded(t) ==
  /\ th[t].pc = "save"
  /\ file' = th[t].cfg
  /\ want' = IF th[t].op.name \in Updates THEN Change(th[t].op, want) ELSE file'
  /\ imported' = (imported \/ th[t].op.name = "Import")
  /\ GoOn(t, "saved")
  /\ UNCHANGED <<sig, corrupt, locks, stores, calls, faults, birth, acked, moved, refused>>

\* saveUnlocked: the file, under config.mu and the data lock ...
Save(t) ==
  /\ th[t].pc = "save" /\ mu[Program(t)] = Nobody /\ lock = Nobody
  /\ mu' = [mu EXCEPT ![Program(t)] = t] /\ lock' = t
  /\ file' = th[t].cfg
  /\ want' = IF th[t].op.name \in Updates THEN Change(th[t].op, want) ELSE file'
  /\ imported' = (imported \/ th[t].op.name = "Import")
  /\ GoOn(t, "saved")
  /\ UNCHANGED <<sig, corrupt, busy, stores, calls, faults, birth, acked, moved, refused>>

\* ... and its signature.
SaveSign(t) ==
  /\ th[t].pc = "saved"
  /\ sig' = th[t].cfg /\ Unlock(t)
  /\ IF th[t].op.name = "Import"
     THEN th' = [th EXCEPT ![t].pc = "load"] /\ UNCHANGED busy
     ELSE Ended(t)
  /\ UNCHANGED <<file, corrupt, stores, calls, faults, past>>

\* The file or its signature cannot be written.
SaveFails(t) ==
  /\ \/ th[t].pc = "save" /\ mu[Program(t)] = Nobody /\ lock = Nobody /\ UNCHANGED <<mu, lock>>
     \/ th[t].pc = "saved" /\ Unlock(t)
  /\ Fails /\ Ended(t)
  /\ UNCHANGED <<files, stores, calls, past>>

\* A program ends: its goroutines, its mutexes and its data lock with it.
ProcessEnds(p) ==
  /\ Fails
  /\ \E t \in Threads : Program(t) = p /\ th[t].pc # "idle"
  /\ th' = [t \in Threads |-> IF Program(t) = p THEN Idle ELSE th[t]]
  /\ mu' = [mu EXCEPT ![p] = Nobody]
  /\ busy' = IF p = "window" THEN Nobody ELSE busy
  /\ lock' = IF lock # Nobody /\ Program(lock) = p THEN Nobody ELSE lock
  /\ UNCHANGED <<files, stores, calls, past>>

Load(t) ==
  ReadFile(t) \/ CreateDefault(t) \/ Stat(t) \/ Ensure(t) \/ Migrate(t) \/ Sign(t)
    \/ Loaded(t) \/ LoadFailed(t) \/ Recover(t) \/ RecoverSign(t)

Secrets(t) ==
  SetBegins(t) \/ Need(t) \/ MigrateSecret(t) \/ WriteUser(t) \/ WriteService(t)
    \/ Settle(t) \/ WriteFails(t) \/ DeleteUser(t) \/ DeleteRest(t)

SettingsNext ==
  \/ \E t \in Threads : Call(t) \/ Load(t) \/ Secrets(t)
                          \/ BodyDone(t) \/ Save(t) \/ SaveSign(t) \/ SaveFails(t)
  \/ ServiceTick
  \/ \E p \in Processes : ProcessEnds(p)

SettingsSpec == SettingsInit /\ [][SettingsNext]_settings

-----------------------------------------------------------------------------
(* No update is lost: whatever both programs do, also when they create the   *)
(* file or end in the middle, the file is what all updates written so far    *)
(* add up to.  Left out are the three writers that do not start from what    *)
(* the file holds: an import, the recovery from quarantine, and the          *)
(* migration of an old file (Store.Update, createDefaultConfigFile).         *)
NoUpdateLost ==
  (~imported /\ ~birth.old /\ corrupt = NoFile) => file \in {NoFile, want}

(* The file and its signature are two files: whoever else writes them, they  *)
(* belong together once the writer has let go of the data lock, so that the  *)
(* next Load accepts the configuration.  It does not hold once a program     *)
(* ends or fails between the two, nor for a file that has no signature yet   *)
(* and that a reader signs without the lock (saveUnlocked,                   *)
(* ensureConfigSignature).                                                   *)
SignatureMatches ==
  (birth.signed /\ corrupt = NoFile /\ faults = 0 /\ lock = Nobody) => sig = file

(* No secret is lost: what a call has acknowledged, or something newer, is   *)
(* what both programs read, also between the two files, after a crash and    *)
(* after a write that failed.  What lay in the credential manager only can   *)
(* be had by the window until it is deleted or a write fails; there a late   *)
(* migration can also bring it back over a newer one (writeDPAPISecret,      *)
(* SetSecret, GetSecret, MigrateSecrets).                                    *)
SecretSurvives ==
  \A k \in Kinds : acked[k] > 0 =>
    IF birth.how = "cred" \/ k \in moved
    THEN k \in refused \/ Read("window", k) > 0 \/ stores[k].cred > 0
    ELSE \A p \in Processes : Read(p, k) >= acked[k]

(* A destination the file lists has its secret where the service can read    *)
(* it, except while it is deleted: the secret is saved before the            *)
(* destination is listed (Store.SaveDestination, Store.DeleteDestination).   *)
(* It does not hold once a migration has taken the secret out of the         *)
(* credential manager: the migration may write the file of the user while    *)
(* the destination is deleted, and that file alone satisfies the window.     *)
ListedHasSecret ==
  (file # NoFile /\ faults = 0 /\ "secret" \notin moved /\ birth.how # "cred" /\ ~birth.old
    /\ corrupt = NoFile) =>
    (file.dest > 0 => \/ Read("service", "secret") > 0
                      \/ \E t \in Views : th[t].op.name = "DeleteDestination")
=============================================================================
