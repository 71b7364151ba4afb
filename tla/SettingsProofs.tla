--------------------------- MODULE SettingsProofs ---------------------------
(***************************************************************************)
(* Proofs about Settings, for any number of views, calls and faults, any   *)
(* secrets and any files in quarantine to begin with: an update is not     *)
(* lost, the signature belongs to the file, a secret that a call has       *)
(* acknowledged stays, and a destination is listed with its secret.        *)
(*                                                                         *)
(* An update is alone, since it holds Store.mu; what it has read stays     *)
(* true under it for that reason.  Four invariants rest on the types: one  *)
(* each for the signature, the file, the secrets and the list.             *)
(***************************************************************************)
EXTENDS Settings, SequenceTheorems, TLAPS

\* An action of a plan.
Acts == [a : {"set", "need", "migrate", "delete"}, k : Kinds]

\* An operation of the window, or a tick of the service.
Ops ==
  [name : {"none", "Reload", "Use"}]
    \cup [name : {"SaveDestination", "SaveSettings"}, given : BOOLEAN, n : Nat]
    \cup [name : {"SaveJob"}, given : BOOLEAN, sealed : BOOLEAN, n : Nat]
    \cup [name : {"DeleteDestination", "DeleteJob", "Import", "Reload", "Use"}, n : Nat]

\* Where a goroutine may be: in config.Load, at the files of a secret, ...
Loading == {"load", "create", "stat", "ensure", "migrate", "sign", "loaded", "failed",
            "recover", "recovered"}
Storing == {"user", "service", "settle"}
Places == {"idle", "body", "delete", "save", "saved"} \cup Loading \cup Storing

ThreadRecs ==
  [pc : Places, op : Ops, plan : Seq(Acts), cfg : Configs, again : BOOLEAN, val : Nat]
Stores == [user : Nat, service : Nat, legacy : Nat, cred : Nat]

\* Every variable has its type.
Types ==
  /\ file \in Configs \cup {NoFile} /\ sig \in Configs \cup {NoFile}
  /\ corrupt \in {NoFile} \cup [cfg : Configs, valid : BOOLEAN]
  /\ busy \in Threads \cup {Nobody} /\ lock \in Threads \cup {Nobody}
  /\ mu \in [Processes -> Threads \cup {Nobody}]
  /\ stores \in [Kinds -> Stores]
  /\ th \in [Threads -> ThreadRecs]
  /\ calls \in Nat \ {0} /\ faults \in Nat
  /\ birth \in [how : Births, old : BOOLEAN, signed : BOOLEAN]
  /\ want \in Configs /\ acked \in [Kinds -> Nat]
  /\ moved \subseteq Kinds /\ refused \subseteq Kinds /\ imported \in BOOLEAN

\* t does an update: Store.Update, or one of those that go through it.
Updating(t) == th[t].op.name \in Updates

\* An update holds Store.mu.
Alone == \A t \in Threads : Updating(t) => t \in Views /\ busy = t

\* What an update brings has the number of a call.
Numbered == \A t \in Threads : Updating(t) => th[t].op.n \in 1..calls

\* Only updates set and delete, and only those of a destination its secret.
Fits(op, act) ==
  /\ act.a \in {"set", "delete"} => op.name \in Updates
  /\ act = Act("delete", "secret") => op.name = "DeleteDestination"
  /\ op.name = "DeleteDestination" => act = Act("delete", "secret")
  /\ op.name = "SaveDestination" => act \in {Act("set", "secret"), Act("need", "secret")}
  /\ act = Act("set", "secret") => op.name = "SaveDestination"

FitActs(op) == {act \in Acts : Fits(op, act)}

\* What is left of a plan is of its operation, and a goroutine that is at the
\* files of a secret does the first action that is left.
PlanOK(r) ==
  /\ r.plan \in Seq(FitActs(r.op))
  /\ r.op.name \in {"SaveDestination", "DeleteDestination"} => Len(r.plan) <= 1
  /\ r.pc \in Storing => r.plan # <<>> /\ Head(r.plan).a # "delete"
  /\ r.pc = "delete" => r.plan # <<>> /\ Head(r.plan).a = "delete"
  /\ r.pc \in Storing => r.val > 0
  /\ r.pc \in Storing /\ Head(r.plan).a = "set" => r.val = r.op.n
  /\ r.pc = "save" => r.op.name \in Updates \cup {"Import"}
Planned == \A t \in Threads : PlanOK(th[t])

\* A configuration is taken from quarantine only when one is there.
Recovering == \A t \in Threads : th[t].pc = "recovered" => corrupt # NoFile

TypeInv == Types /\ Alone /\ Numbered /\ Planned /\ Recovering

(* Plans. *)

LEMMA Heads ==
  ASSUME NEW S, NEW s \in Seq(S), s # <<>>
  PROVE  /\ Head(s) \in S
         /\ Tail(s) \in Seq(S) /\ Len(s) \in Nat /\ Len(Tail(s)) = Len(s) - 1
  OBVIOUS

LEMMA IdleType == Idle \in ThreadRecs /\ PlanOK(Idle) /\ Idle.op.name \notin Updates /\ Idle.pc # "recovered"
<1>1. Empty \in Configs
  BY DEF Empty, Configs
<1>2. <<>> \in Seq(Acts)
  OBVIOUS
<1>3. Idle \in ThreadRecs
  BY <1>1, <1>2 DEF Idle, ThreadRecs, Places, Ops
<1>4. PlanOK(Idle)
  BY DEF Idle, PlanOK, Storing, Updates
<1> QED
  BY <1>3, <1>4 DEF Idle, Updates

LEMMA OneThread ==
  ASSUME TypeInv, NEW t \in Threads, NEW r \in ThreadRecs,
         th' = [th EXCEPT ![t] = r], PlanOK(r), calls' \in Nat, calls' >= calls,
         corrupt' = corrupt, r.pc = "recovered" => corrupt # NoFile,
         r.op.name \in Updates => t \in Views /\ busy' = t /\ r.op.n \in 1..calls',
         busy' = busy \/ busy \in {Nobody, t}, SettingsAssumption
  PROVE  th' \in [Threads -> ThreadRecs] /\ Alone' /\ Numbered' /\ Planned' /\ Recovering'
<1>1. th' \in [Threads -> ThreadRecs] /\ th'[t] = r /\ \A u \in Threads \ {t} : th'[u] = th[u]
  BY DEF TypeInv, Types
<1>2. Alone'
  BY <1>1 DEF TypeInv, Alone, Updating, SettingsAssumption, Threads
<1>3. Numbered'
  BY <1>1 DEF TypeInv, Types, Numbered, Updating
<1>4. Planned'
  BY <1>1 DEF TypeInv, Planned
<1>5. Recovering'
  BY <1>1 DEF TypeInv, Recovering
<1> QED
  BY <1>1, <1>2, <1>3, <1>4, <1>5

\* The types of everything but the goroutines.
Others ==
  /\ file \in Configs \cup {NoFile} /\ sig \in Configs \cup {NoFile}
  /\ corrupt \in {NoFile} \cup [cfg : Configs, valid : BOOLEAN]
  /\ busy \in Threads \cup {Nobody} /\ lock \in Threads \cup {Nobody}
  /\ mu \in [Processes -> Threads \cup {Nobody}]
  /\ stores \in [Kinds -> Stores]
  /\ calls \in Nat \ {0} /\ faults \in Nat
  /\ birth \in [how : Births, old : BOOLEAN, signed : BOOLEAN]
  /\ want \in Configs /\ acked \in [Kinds -> Nat]
  /\ moved \subseteq Kinds /\ refused \subseteq Kinds /\ imported \in BOOLEAN

\* r is what a goroutine may become while it does what it was doing.
Continues(t, r) ==
  /\ r \in ThreadRecs /\ PlanOK(r) /\ r.op = th[t].op
  /\ r.pc = "recovered" => corrupt # NoFile

LEMMA GoesOn ==
  ASSUME TypeInv, SettingsAssumption, NEW t \in Threads, Others', UNCHANGED <<busy, calls, corrupt>>,
         \E r : th' = [th EXCEPT ![t] = r] /\ Continues(t, r)
  PROVE  TypeInv'
<1>1. PICK r : th' = [th EXCEPT ![t] = r] /\ Continues(t, r)
  OBVIOUS
<1>2. r.op.name \in Updates => t \in Views /\ busy' = t /\ r.op.n \in 1..calls'
  BY <1>1 DEF TypeInv, Types, Alone, Numbered, Updating, Continues
<1>3. calls' \in Nat /\ calls' >= calls /\ busy' = busy
  BY DEF TypeInv, Types
<1>4. r \in ThreadRecs /\ PlanOK(r) /\ corrupt' = corrupt /\ (r.pc = "recovered" => corrupt # NoFile)
  BY <1>1 DEF Continues
<1>5. th' \in [Threads -> ThreadRecs] /\ Alone' /\ Numbered' /\ Planned' /\ Recovering'
  BY <1>1, <1>2, <1>3, <1>4, OneThread
<1> QED
  BY <1>5 DEF TypeInv, Types, Others

LEMMA Ends ==
  ASSUME TypeInv, SettingsAssumption, NEW t \in Threads, Others', UNCHANGED <<calls, corrupt>>, Ended(t)
  PROVE  TypeInv'
<1>1. PICK r : r = Idle
  OBVIOUS
<1>0. th' = [th EXCEPT ![t] = r]
  BY <1>1 DEF Ended
<1>b. busy' = busy \/ busy \in {Nobody, t}
  BY DEF Ended
<1>2. calls' \in Nat /\ calls' >= calls /\ corrupt' = corrupt
  BY DEF TypeInv, Types
<1>3. r \in ThreadRecs /\ PlanOK(r) /\ (r.pc = "recovered" => corrupt # NoFile)
  BY <1>1, IdleType
<1>4. r.op.name \in Updates => t \in Views /\ busy' = t /\ r.op.n \in 1..calls'
  BY <1>1, IdleType
<1>5. th' \in [Threads -> ThreadRecs] /\ Alone' /\ Numbered' /\ Planned' /\ Recovering'
  BY <1>0, <1>b, <1>2, <1>3, <1>4, OneThread
<1> QED
  BY <1>5 DEF TypeInv, Types, Others

LEMMA Typed ==
  ASSUME TypeInv, NEW t \in Threads
  PROVE  /\ Others /\ th[t] \in ThreadRecs /\ PlanOK(th[t])
         /\ th[t].cfg \in Configs /\ th[t].pc \in Places /\ th[t].plan \in Seq(Acts)
         /\ th[t].again \in BOOLEAN /\ th[t].val \in Nat /\ th[t].op \in Ops
         /\ Empty \in Configs /\ Normalized(th[t].cfg) \in Configs
<1>1. Others /\ th[t] \in ThreadRecs /\ PlanOK(th[t])
  BY DEF TypeInv, Types, Others, Planned
<1>2. th[t].cfg \in Configs /\ th[t].pc \in Places /\ th[t].plan \in Seq(Acts)
      /\ th[t].again \in BOOLEAN /\ th[t].val \in Nat /\ th[t].op \in Ops
  BY <1>1 DEF ThreadRecs
<1>3. Empty \in Configs /\ Normalized(th[t].cfg) \in Configs
  BY <1>2 DEF Empty, Normalized, Configs
<1> QED
  BY <1>1, <1>2, <1>3

LEMMA PartsTyped ==
  ASSUME Others, NEW t \in Threads, Unlock(t)
  PROVE  mu' \in [Processes -> Threads \cup {Nobody}] /\ lock' \in Threads \cup {Nobody}
  BY DEF Others, Unlock, Processes, Program

LEMMA PlanFits ==
  ASSUME NEW op \in Ops, NEW cfg \in Configs
  PROVE  /\ PlanOf(op, cfg) \in Seq(FitActs(op))
         /\ op.name \in {"SaveDestination", "DeleteDestination"} => Len(PlanOf(op, cfg)) <= 1
<1>e. <<>> \in Seq(FitActs(op))
  OBVIOUS
<1>c. ASSUME NEW x \in Seq(FitActs(op)), NEW y \in Seq(FitActs(op))
      PROVE  x \o y \in Seq(FitActs(op))
  BY <1>c, ConcatProperties
<1>a. ASSUME NEW x \in {"need", "migrate"}, NEW k \in Kinds,
             op.name \notin {"SaveDestination", "DeleteDestination"}
      PROVE  <<Act(x, k)>> \in Seq(FitActs(op))
  <2>1. Act(x, k) \in FitActs(op)
    BY <1>a DEF Act, Acts, FitActs, Fits
  <2> QED
    BY <2>1
<1>b. ASSUME NEW x \in {"set", "delete"}, NEW k \in Kinds \ {"secret"},
             op.name \in Updates \ {"SaveDestination", "DeleteDestination"}
      PROVE  <<Act(x, k)>> \in Seq(FitActs(op))
  <2>1. Act(x, k) \in FitActs(op)
    BY <1>b DEF Act, Acts, FitActs, Fits
  <2> QED
    BY <2>1
<1>k. "secret" \in Kinds /\ "smtp" \in Kinds \ {"secret"} /\ "passphrase" \in Kinds \ {"secret"}
  BY DEF Kinds
<1> HIDE DEF Act
<1>1. CASE op.name = "SaveDestination"
  <2>1. Act("set", "secret") \in FitActs(op) /\ Act("need", "secret") \in FitActs(op)
    BY <1>1, <1>k DEF Act, Acts, FitActs, Fits, Updates
  <2>2. PlanOf(op, cfg) \in {<<Act("set", "secret")>>, <<Act("need", "secret")>>}
    BY <1>1 DEF PlanOf, DestinationPlan
  <2>4. \A x \in FitActs(op) : <<x>> \in Seq(FitActs(op)) /\ Len(<<x>>) = 1
    OBVIOUS
  <2>3. PlanOf(op, cfg) \in Seq(FitActs(op)) /\ Len(PlanOf(op, cfg)) = 1
    BY <2>1, <2>2, <2>4
  <2> QED
    BY <2>3
<1>2. CASE op.name = "DeleteDestination"
  <2>1. Act("delete", "secret") \in FitActs(op)
    BY <1>2, <1>k DEF Act, Acts, FitActs, Fits, Updates
  <2>2. PlanOf(op, cfg) = <<Act("delete", "secret")>>
    BY <1>2 DEF PlanOf, DeleteDestinationPlan
  <2> QED
    BY <2>1, <2>2
<1>3. CASE op.name = "SaveJob"
  <2>1. op.name \in Updates \ {"SaveDestination", "DeleteDestination"}
    BY <1>3 DEF Updates
  <2>2. <<Act("need", "secret")>> \in Seq(FitActs(op)) /\ <<Act("delete", "passphrase")>> \in Seq(FitActs(op))
        /\ <<Act("set", "passphrase")>> \in Seq(FitActs(op))
        /\ <<Act("need", "passphrase")>> \in Seq(FitActs(op))
    BY <2>1, <1>k, <1>a, <1>b
  <2>3. PlanOf(op, cfg) = JobPlan(op.sealed, op.given)
    BY <1>3 DEF PlanOf
  <2> QED
    BY <1>3, <1>c, <2>2, <2>3 DEF JobPlan
<1>4. CASE op.name = "DeleteJob"
  <2>1. <<Act("delete", "passphrase")>> \in Seq(FitActs(op))
    BY <1>4, <1>k, <1>b DEF Updates
  <2> QED
    BY <1>4, <2>1 DEF PlanOf, DeleteJobPlan
<1>5. CASE op.name = "SaveSettings"
  <2>1. <<Act("set", "smtp")>> \in Seq(FitActs(op))
    BY <1>5, <1>k, <1>b DEF Updates
  <2> QED
    BY <1>5, <1>e, <2>1 DEF PlanOf, SettingsPlan, SetIf
<1>6. CASE op.name = "Reload"
  <2>1. /\ <<Act("migrate", "secret")>> \in Seq(FitActs(op)) /\ <<Act("migrate", "smtp")>> \in Seq(FitActs(op))
        /\ <<Act("migrate", "passphrase")>> \in Seq(FitActs(op))
    BY <1>6, <1>k, <1>a
  <2>2. PlanOf(op, cfg) = MigrationPlan(cfg)
    BY <1>6 DEF PlanOf
  <2> QED
    BY <1>6, <1>c, <1>e, <2>1, <2>2 DEF MigrationPlan
<1>7. CASE op.name = "Use"
  <2>1. /\ <<Act("need", "secret")>> \in Seq(FitActs(op)) /\ <<Act("need", "passphrase")>> \in Seq(FitActs(op))
    BY <1>7, <1>k, <1>a
  <2>2. PlanOf(op, cfg) = UsePlan(cfg)
    BY <1>7 DEF PlanOf
  <2> QED
    BY <1>7, <1>c, <1>e, <2>1, <2>2 DEF UsePlan
<1>8. CASE op.name \in {"none", "Import"}
  BY <1>8, <1>e DEF PlanOf
<1> QED
  BY <1>1, <1>2, <1>3, <1>4, <1>5, <1>6, <1>7, <1>8 DEF Ops

LEMMA LoadTypes ==
  ASSUME TypeInv, SettingsAssumption, NEW t \in Threads, Load(t)
  PROVE  TypeInv'
<1> DEFINE Calm(l) == /\ l \in Places \ ({"delete", "save"} \cup Storing)
                      /\ l = "recovered" => corrupt # NoFile
<1>0. /\ Others /\ th[t] \in ThreadRecs /\ PlanOK(th[t])
      /\ th[t].cfg \in Configs /\ th[t].pc \in Places /\ th[t].plan \in Seq(Acts)
      /\ th[t].again \in BOOLEAN /\ th[t].val \in Nat /\ th[t].op \in Ops
      /\ Empty \in Configs /\ Normalized(th[t].cfg) \in Configs
  BY Typed
<1>a. ASSUME NEW l, Calm(l), NEW c \in Configs
      PROVE  Continues(t, [th[t] EXCEPT !.pc = l, !.cfg = c]) /\ Continues(t, [th[t] EXCEPT !.pc = l])
  <2>1. /\ [th[t] EXCEPT !.pc = l, !.cfg = c] \in ThreadRecs /\ [th[t] EXCEPT !.pc = l] \in ThreadRecs
    BY <1>0, <1>a DEF ThreadRecs
  <2>2. PlanOK([th[t] EXCEPT !.pc = l, !.cfg = c]) /\ PlanOK([th[t] EXCEPT !.pc = l])
    BY <1>0, <1>a DEF ThreadRecs, PlanOK, Storing
  <2>3. /\ [th[t] EXCEPT !.pc = l, !.cfg = c].pc = l /\ [th[t] EXCEPT !.pc = l].pc = l
        /\ [th[t] EXCEPT !.pc = l, !.cfg = c].op = th[t].op /\ [th[t] EXCEPT !.pc = l].op = th[t].op
    BY <1>0 DEF ThreadRecs
  <2> QED
    BY <1>a, <2>1, <2>2, <2>3 DEF Continues
<1>b. ASSUME NEW l, Calm(l), NEW a \in BOOLEAN
      PROVE  Continues(t, [th[t] EXCEPT !.pc = l, !.again = a])
  <2>1. [th[t] EXCEPT !.pc = l, !.again = a] \in ThreadRecs
    BY <1>0, <1>b DEF ThreadRecs
  <2>2. PlanOK([th[t] EXCEPT !.pc = l, !.again = a])
    BY <1>0, <1>b DEF ThreadRecs, PlanOK, Storing
  <2>3. [th[t] EXCEPT !.pc = l, !.again = a].pc = l /\ [th[t] EXCEPT !.pc = l, !.again = a].op = th[t].op
    BY <1>0 DEF ThreadRecs
  <2> QED
    BY <1>b, <2>1, <2>2, <2>3 DEF Continues
<1> HIDE DEF Calm
<1>c. ASSUME NEW l, Calm(l), GoOn(t, l)
      PROVE  \E r : th' = [th EXCEPT ![t] = r] /\ Continues(t, r)
  BY <1>0, <1>a, <1>c DEF GoOn
<1>d. /\ \A l \in Loading \ {"recovered"} : Calm(l)
      /\ Calm("body") /\ Calm("idle")
  BY DEF Calm, Places, Loading, Storing
<1>1. CASE ReadFile(t)
  <2>1. Others'
    BY <1>0, <1>1 DEF ReadFile, Others, files, past, Processes, Program
  <2> DEFINE l == IF file = NoFile THEN "create" ELSE "stat"
             c == IF file = NoFile THEN Empty ELSE file
  <2>2. th' = [th EXCEPT ![t] = [th[t] EXCEPT !.pc = l, !.cfg = c]]
    BY <1>0, <1>1 DEF ReadFile
  <2>3. Calm(l) /\ c \in Configs
    BY <1>0, <1>d DEF Loading, Others
  <2> HIDE DEF l, c
  <2>4. UNCHANGED <<busy, calls, corrupt>>
    BY <1>1 DEF ReadFile, files
  <2> QED
    BY <1>a, <2>1, <2>2, <2>3, <2>4, GoesOn
<1>2. CASE CreateDefault(t)
  <2>1. Others'
    BY <1>0, <1>2 DEF CreateDefault, Others, past
  <2>2. CASE file = NoFile /\ InstallHasData
    BY <1>2, <1>c, <1>d, <2>1, <2>2, GoesOn DEF CreateDefault, Loading
  <2>3. CASE ~(file = NoFile /\ InstallHasData)
    <3> DEFINE l == IF file = NoFile THEN "sign" ELSE "stat"
               c == IF file = NoFile THEN Empty ELSE file
    <3>1. th' = [th EXCEPT ![t] = [th[t] EXCEPT !.pc = l, !.cfg = c]]
      BY <1>0, <1>2, <2>3 DEF CreateDefault
    <3>2. Calm(l) /\ c \in Configs
      BY <1>0, <1>d DEF Loading, Others
    <3> HIDE DEF l, c
    <3>3. UNCHANGED <<busy, calls, corrupt>>
      BY <1>2 DEF CreateDefault
    <3> QED
      BY <1>a, <2>1, <3>1, <3>2, <3>3, GoesOn
  <2> QED
    BY <2>2, <2>3
<1>3. CASE Stat(t)
  <2>1. Others'
    BY <1>0, <1>3 DEF Stat, Others, past, files, locks
  <2>2. \E l \in Loading \ {"recovered"} : GoOn(t, l)
    BY <1>3 DEF Stat, Loading, Parsed
  <2> QED
    BY <1>3, <1>c, <1>d, <2>1, <2>2, GoesOn DEF Stat, locks, files
<1>4. CASE Ensure(t)
  <2>1. Others'
    BY <1>0, <1>4 DEF Ensure, Others, past, locks
  <2>2. \E l \in Loading \ {"recovered"} : GoOn(t, l)
    BY <1>4 DEF Ensure, Loading, Parsed
  <2> QED
    BY <1>4, <1>c, <1>d, <2>1, <2>2, GoesOn DEF Ensure, locks
<1>5. CASE Migrate(t)
  <2>1. Others'
    BY <1>0, <1>5 DEF Migrate, Others, past
  <2>2. th' = [th EXCEPT ![t] = [th[t] EXCEPT !.pc = "sign", !.cfg = Normalized(th[t].cfg)]]
    BY <1>0, <1>5 DEF Migrate, ThreadRecs
  <2>3. UNCHANGED <<busy, calls, corrupt>> /\ Calm("sign")
    BY <1>5, <1>d DEF Migrate, Loading, files
  <2> QED
    BY <1>0, <1>a, <2>1, <2>2, <2>3, GoesOn
<1>6. CASE Sign(t)
  <2>1. Others'
    BY <1>0, <1>6 DEF Sign, Others, past, locks
  <2>2. GoOn(t, "loaded")
    BY <1>6 DEF Sign
  <2> QED
    BY <1>6, <1>c, <1>d, <2>1, <2>2, GoesOn DEF Sign, locks, Loading
<1>7. CASE Loaded(t)
  <2> DEFINE l == IF NeedsRecovery(th[t].cfg) /\ ~th[t].again THEN "recover" ELSE "body"
             p == PlanOf(th[t].op, th[t].cfg)
             r == [th[t] EXCEPT !.pc = l, !.plan = p]
  <2>1. Others'
    BY <1>0, <1>7, PartsTyped DEF Loaded, Others, past, files
  <2>2. th' = [th EXCEPT ![t] = r]
    BY <1>0, <1>7 DEF Loaded
  <2>3. p \in Seq(FitActs(th[t].op)) /\ p \in Seq(Acts)
        /\ (th[t].op.name \in {"SaveDestination", "DeleteDestination"} => Len(p) <= 1)
    <3>1. FitActs(th[t].op) \subseteq Acts
      BY DEF FitActs
    <3> QED
      BY <1>0, <3>1, PlanFits, SeqMonotonic
  <2>4. l \in Places \ (Storing \cup {"delete", "save", "recovered"})
    BY DEF Places, Loading, Storing
  <2> HIDE DEF l, p
  <2>5. r \in ThreadRecs /\ r.pc = l /\ r.op = th[t].op /\ r.plan = p
    BY <1>0, <2>3, <2>4 DEF ThreadRecs
  <2>6. PlanOK(r)
    BY <2>3, <2>4, <2>5 DEF PlanOK
  <2>7. Continues(t, r) /\ UNCHANGED <<busy, calls, corrupt>>
    BY <1>7, <2>4, <2>5, <2>6 DEF Continues, Loaded, files
  <2> QED
    BY <2>1, <2>2, <2>7, GoesOn
<1>8. CASE LoadFailed(t)
  <2>1. Others'
    BY <1>0, <1>8, PartsTyped DEF LoadFailed, Others, past, files, Ended
  <2>2. CASE th[t].again
    BY <1>8, <2>1, <2>2, Ends DEF LoadFailed, files
  <2>3. CASE ~th[t].again
    BY <1>8, <1>c, <1>d, <2>1, <2>3, GoesOn DEF LoadFailed, Loading, files
  <2> QED
    BY <2>2, <2>3
<1>9. CASE Recover(t)
  <2>1. Others'
    BY <1>0, <1>9 DEF Recover, Others, past, QuarantineScore, Ended
  <2>2. \/ /\ th' = [th EXCEPT ![t] = [th[t] EXCEPT !.pc = "load", !.again = TRUE]] /\ UNCHANGED busy
        \/ Ended(t)
        \/ GoOn(t, "recovered") /\ UNCHANGED busy /\ Calm("recovered")
    BY <1>0, <1>9 DEF Recover, ThreadRecs, QuarantineScore, Calm, Places, Loading, Storing
  <2>3. UNCHANGED <<calls, corrupt>> /\ Calm("load")
    BY <1>9, <1>d DEF Recover, Loading
  <2> QED
    BY <1>b, <1>c, <2>1, <2>2, <2>3, GoesOn, Ends
<1>10. CASE RecoverSign(t)
  <2>1. Others'
    BY <1>0, <1>10 DEF RecoverSign, Others, past, locks, TypeInv, Recovering
  <2>2. th' = [th EXCEPT ![t] = [th[t] EXCEPT !.pc = "load", !.again = TRUE]]
    BY <1>0, <1>10 DEF RecoverSign, ThreadRecs
  <2> QED
    BY <1>10, <1>b, <1>d, <2>1, <2>2, GoesOn DEF RecoverSign, Loading, locks
<1> QED
  BY <1>1, <1>2, <1>3, <1>4, <1>5, <1>6, <1>7, <1>8, <1>9, <1>10 DEF Load

LEMMA HeadTyped ==
  ASSUME TypeInv, NEW t \in Threads, th[t].plan # <<>>
  PROVE  /\ Head1(t) \in Acts /\ Head1(t).a \in {"set", "need", "migrate", "delete"}
         /\ Head1(t).k \in Kinds /\ Fits(th[t].op, Head1(t))
         /\ Tail(th[t].plan) \in Seq(Acts) /\ Tail(th[t].plan) \in Seq(FitActs(th[t].op))
         /\ Len(Tail(th[t].plan)) < Len(th[t].plan) /\ Len(th[t].plan) \in Nat
         /\ Head1(t).a = "set" => Updating(t) /\ th[t].op.n \in Nat /\ th[t].op.n \in 1..calls
<1>1. th[t].plan \in Seq(Acts) /\ th[t].plan \in Seq(FitActs(th[t].op)) /\ calls \in Nat
  BY Typed DEF PlanOK, Others
<1>2. Head1(t) \in Acts /\ Head1(t) \in FitActs(th[t].op)
  BY <1>1, Heads DEF Head1
<1>3. /\ Tail(th[t].plan) \in Seq(Acts) /\ Tail(th[t].plan) \in Seq(FitActs(th[t].op))
      /\ Len(Tail(th[t].plan)) < Len(th[t].plan) /\ Len(th[t].plan) \in Nat
  <2>1. /\ Tail(th[t].plan) \in Seq(Acts) /\ Tail(th[t].plan) \in Seq(FitActs(th[t].op))
        /\ Len(th[t].plan) \in Nat /\ Len(Tail(th[t].plan)) = Len(th[t].plan) - 1
    BY <1>1, Heads
  <2> QED
    BY <2>1
<1>4. Head1(t).a = "set" => Updating(t) /\ th[t].op.n \in 1..calls
  BY <1>2 DEF FitActs, Fits, Updating, TypeInv, Numbered
<1> QED
  BY <1>1, <1>2, <1>3, <1>4 DEF Acts, FitActs

\* The operation goes on with the next action of its plan.
LEMMA Advances ==
  ASSUME TypeInv, NEW t \in Threads, th[t].plan # <<>>, NextAct(t)
  PROVE  /\ \E r : th' = [th EXCEPT ![t] = r] /\ Continues(t, r)
         /\ th' = [th EXCEPT ![t] = [th[t] EXCEPT !.pc = "body", !.plan = Tail(th[t].plan)]]
<1> DEFINE r == [th[t] EXCEPT !.pc = "body", !.plan = Tail(th[t].plan)]
<1>0. th[t] \in ThreadRecs /\ PlanOK(th[t])
  BY Typed
<1>1. th' = [th EXCEPT ![t] = r]
  BY <1>0 DEF NextAct, ThreadRecs
<1>2. /\ r \in ThreadRecs /\ r.op = th[t].op /\ r.pc = "body" /\ r.plan = Tail(th[t].plan)
  BY <1>0, HeadTyped DEF ThreadRecs, Places
<1>3. PlanOK(r)
  BY <1>0, <1>2, HeadTyped DEF PlanOK, Storing
<1>4. Continues(t, r)
  BY <1>2, <1>3 DEF Continues
<1> QED
  BY <1>1, <1>4

LEMMA Stays ==
  ASSUME TypeInv, NEW t \in Threads, th[t].plan # <<>>, NEW l \in Storing \cup {"delete"},
         NEW v \in Nat,
         IF l = "delete" THEN Head1(t).a = "delete"
         ELSE v > 0 /\ Head1(t).a # "delete" /\ (Head1(t).a = "set" => v = th[t].op.n)
  PROVE  Continues(t, [th[t] EXCEPT !.pc = l, !.val = v])
<1> DEFINE r == [th[t] EXCEPT !.pc = l, !.val = v]
<1>0. th[t] \in ThreadRecs /\ PlanOK(th[t])
  BY Typed
<1>1. /\ r \in ThreadRecs /\ r.op = th[t].op /\ r.pc = l /\ r.plan = th[t].plan /\ r.val = v
  BY <1>0 DEF ThreadRecs, Places, Storing
<1>2. PlanOK(r)
  BY <1>0, <1>1 DEF PlanOK, Storing, Head1
<1> QED
  BY <1>1, <1>2 DEF Continues, Storing

LEMMA StoreTyped ==
  ASSUME NEW s \in [Kinds -> Stores], NEW k \in Kinds, NEW v \in Nat
  PROVE  /\ [s EXCEPT ![k].user = v] \in [Kinds -> Stores]
         /\ [s EXCEPT ![k].service = v] \in [Kinds -> Stores]
         /\ [s EXCEPT ![k].cred = v] \in [Kinds -> Stores]
         /\ [s EXCEPT ![k].legacy = 0, ![k].cred = 0] \in [Kinds -> Stores]
         /\ [s EXCEPT ![k] = [NoSecret EXCEPT !.user = s[k].user]] \in [Kinds -> Stores]
  BY DEF Stores, NoSecret

LEMMA SecretTypes ==
  ASSUME TypeInv, SettingsAssumption, NEW t \in Threads, Secrets(t)
  PROVE  TypeInv'
<1>0. /\ Others /\ th[t] \in ThreadRecs /\ PlanOK(th[t])
      /\ th[t].pc \in Places /\ th[t].plan \in Seq(Acts) /\ th[t].val \in Nat
  BY Typed
<1>p. th[t].plan # <<>>
  BY <1>0 DEF Secrets, SetBegins, Need, MigrateSecret, WriteUser, WriteService, Settle,
     WriteFails,
     DeleteUser, DeleteRest, Doing, PlanOK, Storing
<1>h. /\ Head1(t).a \in {"set", "need", "migrate", "delete"}
      /\ Head1(t).k \in Kinds
      /\ Head1(t).a = "set" => th[t].op.n \in Nat /\ th[t].op.n \in 1..calls
  BY <1>p, HeadTyped
<1>k. PICK k \in Kinds : k = Head1(t).k
  BY <1>h
<1>u. UNCHANGED <<calls, corrupt>>
  BY DEF Secrets, SetBegins, Need, MigrateSecret, WriteUser, WriteService, Settle, WriteFails,
     DeleteUser, DeleteRest, files
<1>c. \A l : stores[l].cred \in Nat \/ l \notin Kinds
  BY <1>0 DEF Others, Stores
<1>m. ASSUME Move(t, k), Cred(t, k) > 0, Head1(t).a \in {"need", "migrate"}
      PROVE  /\ \E r : th' = [th EXCEPT ![t] = r] /\ Continues(t, r)
             /\ moved' \subseteq Kinds
  <2>1. Cred(t, k) \in Nat
    BY <1>c DEF Cred
  <2>2. Continues(t, [th[t] EXCEPT !.pc = "user", !.val = Cred(t, k)])
    BY <1>m, <1>p, <2>1, Stays DEF Storing
  <2>3. th' = [th EXCEPT ![t] = [th[t] EXCEPT !.pc = "user", !.val = Cred(t, k)]]
    BY <1>m, <1>0 DEF Move
  <2> QED
    BY <1>m, <1>0, <2>2, <2>3 DEF Move, Others
<1>1. CASE SetBegins(t)
  <2>1. Others'
    BY <1>0, <1>1, <1>h, StoreTyped DEF SetBegins, Others, past, files, locks, Doing
  <2>4. Head1(t).a = "set" /\ th[t].op.n \in Nat /\ th[t].op.n > 0
    BY <1>0, <1>1, <1>h DEF SetBegins, Doing, Others
  <2>2. Continues(t, [th[t] EXCEPT !.pc = "user", !.val = th[t].op.n])
    BY <1>p, <2>4, Stays DEF Storing
  <2>3. th' = [th EXCEPT ![t] = [th[t] EXCEPT !.pc = "user", !.val = th[t].op.n]]
    BY <1>0, <1>1 DEF SetBegins
  <2> QED
    BY <1>1, <1>u, <2>1, <2>2, <2>3, GoesOn DEF SetBegins, locks
<1>2. CASE Need(t)
  <2>1. \/ Ended(t) /\ UNCHANGED moved
        \/ /\ UNCHANGED busy /\ moved' \subseteq Kinds
           /\ \E r : th' = [th EXCEPT ![t] = r] /\ Continues(t, r)
    <3>1. CASE Read(Program(t), k) > 0
      BY <1>0, <1>2, <1>k, <1>p, <3>1, Advances DEF Need, Others
    <3>2. CASE ~(Read(Program(t), k) > 0) /\ Cred(t, k) > 0
      BY <1>2, <1>k, <1>m, <3>2 DEF Need, Doing
    <3>3. CASE ~(Read(Program(t), k) > 0) /\ ~(Cred(t, k) > 0)
      BY <1>2, <1>k, <3>3 DEF Need
    <3> QED
      BY <3>1, <3>2, <3>3
  <2>2. Others'
    BY <1>0, <1>2, <2>1 DEF Need, Others, files, Ended
  <2> QED
    BY <1>u, <2>1, <2>2, GoesOn, Ends
<1>3. CASE MigrateSecret(t)
  <2>1. moved' \subseteq Kinds /\ \E r : th' = [th EXCEPT ![t] = r] /\ Continues(t, r)
    BY <1>0, <1>3, <1>k, <1>m, <1>p, Advances DEF MigrateSecret, Others, Doing
  <2>2. Others'
    BY <1>0, <1>3, <2>1 DEF MigrateSecret, Others, files, locks
  <2> QED
    BY <1>3, <1>u, <2>1, <2>2, GoesOn DEF MigrateSecret, locks
<1>s. ASSUME NEW l \in {"service", "settle"}, GoOn(t, l), th[t].pc \in Storing
      PROVE  \E r : th' = [th EXCEPT ![t] = r] /\ Continues(t, r)
  <2>1. th[t].val > 0 /\ Head1(t).a # "delete" /\ (Head1(t).a = "set" => th[t].val = th[t].op.n)
    BY <1>0, <1>s DEF PlanOK, Head1
  <2>2. Continues(t, [th[t] EXCEPT !.pc = l, !.val = th[t].val])
    BY <1>0, <1>p, <2>1, Stays DEF Storing
  <2>3. th' = [th EXCEPT ![t] = [th[t] EXCEPT !.pc = l, !.val = th[t].val]]
    BY <1>0, <1>s DEF GoOn, ThreadRecs
  <2> QED
    BY <2>2, <2>3
<1>4. CASE WriteUser(t)
  <2>1. Others'
    BY <1>0, <1>4, <1>h, StoreTyped DEF WriteUser, Others, past, files, locks
  <2> QED
    BY <1>4, <1>s, <1>u, <2>1, GoesOn DEF WriteUser, Storing, locks
<1>5. CASE WriteService(t)
  <2>1. Others'
    BY <1>0, <1>5, <1>h, StoreTyped DEF WriteService, Others, past, files, locks
  <2> QED
    BY <1>5, <1>s, <1>u, <2>1, GoesOn DEF WriteService, Storing, locks
<1>6. CASE Settle(t)
  <2>1. Others'
    BY <1>0, <1>6, <1>h, StoreTyped, ZenonT(60) DEF Settle, Others, files, locks
  <2> QED
    BY <1>6, <1>u, <1>p, <2>1, Advances, GoesOn DEF Settle, locks
<1>7. CASE WriteFails(t)
  <2>1. stores' \in [Kinds -> Stores]
    <3>3. stores[k] \in Stores
      BY <1>0 DEF Others
    <3>4. ASSUME NEW s \in Stores
          PROVE  /\ [s EXCEPT !.user = 0, !.cred = 0] \in Stores /\ [s EXCEPT !.user = 0] \in Stores
                 /\ [s EXCEPT !.cred = 0] \in Stores
      BY DEF Stores
    <3>5. ASSUME NEW s \in Stores
          PROVE  Undone(t, s) \in {[s EXCEPT !.user = 0, !.cred = 0], [s EXCEPT !.user = 0],
                                    [s EXCEPT !.cred = 0], s}
      BY <3>5 DEF Stores, Undone
    <3>1. Undone(t, stores[k]) \in Stores
      BY <3>3, <3>4, <3>5
    <3>2. stores' = [stores EXCEPT ![k] = Undone(t, stores[k])]
      BY <1>7, <1>k, <1>0 DEF WriteFails, Others
    <3> QED
      BY <1>0, <3>1, <3>2 DEF Others
  <2>2. \/ Ended(t)
        \/ UNCHANGED busy /\ \E r : th' = [th EXCEPT ![t] = r] /\ Continues(t, r)
    <3>1. Ended(t) \/ (NextAct(t) /\ UNCHANGED busy)
      BY <1>7 DEF WriteFails, ActFails
    <3> QED
      BY <1>p, <3>1, Advances
  <2>3. refused' \subseteq Kinds /\ faults' \in Nat /\ busy' \in Threads \cup {Nobody}
    BY <1>0, <1>7, <1>h, <2>2 DEF WriteFails, Others, Fails, Ended
  <2>4. Others'
    BY <1>0, <1>7, <2>1, <2>3 DEF WriteFails, Others, files
  <2> QED
    BY <1>u, <2>2, <2>4, GoesOn, Ends
<1>8. CASE DeleteUser(t)
  <2>1. Others'
    BY <1>0, <1>8, <1>h, StoreTyped DEF DeleteUser, Others, files, locks
  <2>2. Continues(t, [th[t] EXCEPT !.pc = "delete", !.val = th[t].val])
    BY <1>0, <1>8, <1>p, Stays DEF DeleteUser, Doing, Storing
  <2>3. th' = [th EXCEPT ![t] = [th[t] EXCEPT !.pc = "delete", !.val = th[t].val]]
    BY <1>0, <1>8 DEF DeleteUser, GoOn, ThreadRecs
  <2> QED
    BY <1>8, <1>u, <2>1, <2>2, <2>3, GoesOn DEF DeleteUser, locks
<1>9. CASE DeleteRest(t)
  <2>1. Others'
    BY <1>0, <1>9, <1>h, StoreTyped DEF DeleteRest, Others, past, files, locks
  <2> QED
    BY <1>9, <1>u, <1>p, <2>1, Advances, GoesOn DEF DeleteRest, locks
<1> QED
  BY <1>1, <1>2, <1>3, <1>4, <1>5, <1>6, <1>7, <1>8, <1>9 DEF Secrets

\* Everything else a goroutine does, and the end of a program.
LEMMA SaveTypes ==
  ASSUME TypeInv, SettingsAssumption, NEW t \in Threads,
         BodyDone(t) \/ Save(t) \/ SaveSign(t) \/ SaveFails(t)
  PROVE  TypeInv'
<1>0. /\ Others /\ th[t] \in ThreadRecs /\ PlanOK(th[t])
      /\ th[t].cfg \in Configs /\ th[t].op \in Ops /\ th[t].plan \in Seq(Acts)
  BY Typed
<1>n. Updating(t) => th[t].op.n \in Nat
  BY DEF TypeInv, Numbered, Types
<1>c. ASSUME NEW c \in Configs, Updating(t)
      PROVE  Change(th[t].op, c) \in Configs
  BY <1>n, <1>c DEF Change, Configs
<1>u. UNCHANGED <<calls, corrupt>>
  BY DEF BodyDone, Save, SaveSign, SaveFails, files
<1>g. ASSUME NEW l \in {"load", "saved"}, GoOn(t, l)
      PROVE  \E r : th' = [th EXCEPT ![t] = r] /\ Continues(t, r)
  <2> DEFINE r == [th[t] EXCEPT !.pc = l]
  <2>1. r \in ThreadRecs /\ r.pc = l /\ r.op = th[t].op
    BY <1>0 DEF ThreadRecs, Places, Loading
  <2>2. PlanOK(r)
    BY <1>0, <1>g DEF PlanOK, ThreadRecs, Storing
  <2>3. Continues(t, r)
    BY <2>1, <2>2 DEF Continues
  <2>4. th' = [th EXCEPT ![t] = r]
    BY <1>g DEF GoOn
  <2> QED
    BY <2>3, <2>4
<1>1. CASE BodyDone(t)
  <2>1. Others'
    BY <1>0, <1>1 DEF BodyDone, Others, past, files, Ended
  <2>2. CASE Updating(t)
    <3> DEFINE c == Change(th[t].op, th[t].cfg)
               r == [th[t] EXCEPT !.pc = "save", !.cfg = c]
    <3>1. th' = [th EXCEPT ![t] = r] /\ UNCHANGED busy
      BY <1>0, <1>1, <2>2 DEF BodyDone, Updating, ThreadRecs
    <3>2. c \in Configs
      BY <1>0, <1>c, <2>2
    <3> HIDE DEF c
    <3>3. r \in ThreadRecs /\ r.op = th[t].op /\ r.pc = "save" /\ r.plan = th[t].plan
      BY <1>0, <3>2 DEF ThreadRecs, Places
    <3>4. PlanOK(r)
      BY <1>0, <2>2, <3>3 DEF PlanOK, Storing, Updating
    <3>5. Continues(t, r)
      BY <3>3, <3>4 DEF Continues
    <3> QED
      BY <1>u, <2>1, <3>1, <3>5, GoesOn
  <2>3. CASE ~Updating(t)
    BY <1>1, <1>u, <2>1, <2>3, Ends DEF BodyDone, Updating
  <2> QED
    BY <2>2, <2>3
<1>2. CASE Save(t)
  <2>1. want' \in Configs
    BY <1>0, <1>2, <1>c DEF Save, Others, Updating
  <2>2. Others'
    BY <1>0, <1>2, <2>1 DEF Save, Others, Processes, Program
  <2> QED
    BY <1>2, <1>g, <1>u, <2>2, GoesOn DEF Save
<1>3. CASE SaveSign(t)
  <2>1. Others'
    BY <1>0, <1>3, PartsTyped DEF SaveSign, Others, past, Ended
  <2> QED
    BY <1>3, <1>g, <1>u, <2>1, GoesOn, Ends DEF SaveSign, GoOn
<1>4. CASE SaveFails(t)
  <2>1. mu' \in [Processes -> Threads \cup {Nobody}] /\ lock' \in Threads \cup {Nobody}
    BY <1>0, <1>4, PartsTyped DEF SaveFails, Others
  <2>2. Others'
    BY <1>0, <1>4, <2>1 DEF SaveFails, Others, past, files, Ended, Fails
  <2> QED
    BY <1>4, <1>u, <2>2, Ends DEF SaveFails
<1> QED
  BY <1>1, <1>2, <1>3, <1>4

LEMMA CallTypes ==
  ASSUME TypeInv, SettingsAssumption, NEW t \in Threads, Call(t)
  PROVE  TypeInv'
<1>0. Others /\ calls + 1 \in Nat /\ t \in Views
  BY Typed DEF Others, Call
<1>1. PICK op \in Operations(calls + 1) :
         /\ op.name \in Updates => busy = Nobody
         /\ busy' = IF op.name \in Updates THEN t ELSE busy
         /\ th' = [th EXCEPT ![t] = IF op.name = "Import" THEN ImportOf(op)
                                       ELSE [Idle EXCEPT !.op = op, !.pc = "load"]]
  BY DEF Call
<1>2. op \in Ops /\ op.n = calls + 1
  BY <1>0, <1>1 DEF Operations, Ops
<1> DEFINE r == IF op.name = "Import" THEN ImportOf(op) ELSE [Idle EXCEPT !.op = op, !.pc = "load"]
<1>3. r \in ThreadRecs /\ r.op = op /\ r.plan = <<>>
      /\ r.pc = (IF op.name = "Import" THEN "save" ELSE "load")
  <2>1. Empty \in Configs /\ [Empty EXCEPT !.set = op.n] \in Configs
    BY <1>0, <1>2 DEF Empty, Configs
  <2>2. Idle \in ThreadRecs /\ Idle.plan = <<>>
    BY IdleType DEF Idle
  <2> QED
    BY <1>2, <2>1, <2>2 DEF ThreadRecs, ImportOf, Places, Loading
<1>4. th' = [th EXCEPT ![t] = r]
  BY <1>1
<1> HIDE DEF r
<1>5. PlanOK(r)
  BY <1>3 DEF PlanOK, Storing
<1>6. UNCHANGED corrupt /\ calls' = calls + 1
  BY DEF Call, files
<1>7. r.op.name \in Updates => t \in Views /\ busy' = t /\ r.op.n \in 1..calls'
  BY <1>0, <1>1, <1>2, <1>3, <1>6 DEF Others
<1>8. th' \in [Threads -> ThreadRecs] /\ Alone' /\ Numbered' /\ Planned' /\ Recovering'
  <2>1. busy' = busy \/ busy \in {Nobody, t}
    BY <1>1
  <2>2. calls' \in Nat /\ calls' >= calls /\ r.pc # "recovered"
    BY <1>0, <1>3, <1>6 DEF Others
  <2> QED
    BY <1>3, <1>4, <1>5, <1>6, <1>7, <2>1, <2>2, OneThread
<1>9. Others'
  BY <1>0, <1>1, <1>6 DEF Call, Others, files, past
<1> QED
  BY <1>8, <1>9 DEF TypeInv, Types, Others

LEMMA TickTypes ==
  ASSUME TypeInv, SettingsAssumption, ServiceTick
  PROVE  TypeInv'
<1>0. Ticker \in Threads
  BY DEF Threads
<1>1. Others /\ calls + 1 \in Nat
  BY <1>0, Typed DEF Others
<1>2. PICK name \in {"Reload", "Use"} :
         th' = [th EXCEPT ![Ticker] = [Idle EXCEPT !.op = [name |-> name], !.pc = "load"]]
  BY DEF ServiceTick
<1> DEFINE r == [Idle EXCEPT !.op = [name |-> name], !.pc = "load"]
<1>3. r \in ThreadRecs /\ r.op = [name |-> name] /\ r.plan = <<>> /\ r.pc = "load"
  <2>1. [name |-> name] \in Ops
    BY DEF Ops
  <2>2. Idle \in ThreadRecs /\ Idle.plan = <<>>
    BY IdleType DEF Idle
  <2> QED
    BY <2>1, <2>2 DEF ThreadRecs, Places, Loading
<1>4. th' = [th EXCEPT ![Ticker] = r]
  BY <1>2
<1> HIDE DEF r
<1>5. PlanOK(r)
  BY <1>3 DEF PlanOK, Storing
<1>6. UNCHANGED <<corrupt, busy>> /\ calls' = calls + 1
  BY DEF ServiceTick, files, locks
<1>7. r.op.name \notin Updates /\ r.pc # "recovered"
  BY <1>3 DEF Updates
<1>8. calls' \in Nat /\ calls' >= calls
  BY <1>1, <1>6 DEF Others
<1>9. th' \in [Threads -> ThreadRecs] /\ Alone' /\ Numbered' /\ Planned' /\ Recovering'
  BY <1>0, <1>3, <1>4, <1>5, <1>6, <1>7, <1>8, OneThread
<1>10. Others'
  BY <1>1, <1>6 DEF ServiceTick, Others, files, locks, past
<1> QED
  BY <1>9, <1>10 DEF TypeInv, Types, Others

LEMMA EndTypes ==
  ASSUME TypeInv, SettingsAssumption, NEW p \in Processes, ProcessEnds(p)
  PROVE  TypeInv'
<1>0. Others /\ Nobody \notin Threads /\ Ticker \notin Views /\ th \in [Threads -> ThreadRecs]
  BY DEF TypeInv, Types, Others, SettingsAssumption, Threads
<1>1. \A t \in Threads : th'[t] = IF Program(t) = p THEN Idle ELSE th[t]
  BY DEF ProcessEnds
<1>2. th' \in [Threads -> ThreadRecs]
  BY <1>0, IdleType DEF ProcessEnds
<1>3. UNCHANGED <<calls, corrupt>> /\ busy' = (IF p = "window" THEN Nobody ELSE busy)
  BY DEF ProcessEnds, files
<1>4. \A t \in Views : Program(t) = "window"
  BY <1>0 DEF Program
<1>5. Alone'
  BY <1>1, <1>3, <1>4, IdleType DEF TypeInv, Alone, Updating
<1>6. Numbered'
  BY <1>1, <1>3, IdleType DEF TypeInv, Numbered, Updating
<1>7. Planned' /\ Recovering'
  BY <1>1, <1>3, IdleType DEF TypeInv, Planned, Recovering
<1>8. Others'
  BY <1>0 DEF ProcessEnds, Others, Fails, files, past
<1> QED
  BY <1>2, <1>5, <1>6, <1>7, <1>8 DEF TypeInv, Types, Others

LEMMA StutterTypes ==
  ASSUME TypeInv, UNCHANGED settings
  PROVE  TypeInv'
  BY DEF TypeInv, Types, Alone, Numbered, Planned, Recovering, Updating, settings, files,
     locks, past

LEMMA StepTypes ==
  ASSUME TypeInv, SettingsAssumption, [SettingsNext]_settings
  PROVE  TypeInv'
  BY LoadTypes, SecretTypes, SaveTypes, CallTypes, TickTypes, EndTypes, StutterTypes DEF
     SettingsNext

LEMMA InitTypes ==
  ASSUME SettingsAssumption, SettingsInit
  PROVE  TypeInv
<1>1. PICK how \in Born, listed \in BOOLEAN, old \in BOOLEAN, there \in BOOLEAN, signed \in BOOLEAN :
    /\ (how = "none") => ~listed
    /\ old => listed
    /\ ~there => (~listed /\ ~signed)
    /\ file = IF there THEN [Empty EXCEPT !.dest = IF listed THEN 1 ELSE 0, !.old = old] ELSE NoFile
    /\ sig = IF signed THEN file ELSE NoFile
    /\ corrupt \in Corrupts
    /\ stores = [k \in Kinds |-> IF k = "passphrase" /\ how = "legacy" THEN NoSecret ELSE BornStore(how)]
    /\ birth = [how |-> how, old |-> old, signed |-> signed]
    /\ want = IF there THEN file ELSE Empty
    /\ acked = [k \in Kinds |-> IF how = "none" \/ (k = "passphrase" /\ how = "legacy") THEN 0 ELSE 1]
    /\ moved = {} /\ refused = {} /\ imported = FALSE
    /\ busy = Nobody /\ lock = Nobody
    /\ mu = [p \in Processes |-> Nobody]
    /\ th = [t \in Threads |-> Idle]
    /\ calls = 1 /\ faults = 0
  BY Zenon DEF SettingsInit
<1>2. Empty \in Configs /\ [Empty EXCEPT !.dest = IF listed THEN 1 ELSE 0, !.old = old] \in Configs
  BY DEF Empty, Configs
<1>3. NoSecret \in Stores /\ BornStore(how) \in Stores
  BY DEF NoSecret, BornStore, Stores
<1>4. how \in Births /\ corrupt \in {NoFile} \cup [cfg : Configs, valid : BOOLEAN]
  BY <1>1 DEF SettingsAssumption, Births
<1>5. stores \in [Kinds -> Stores] /\ acked \in [Kinds -> Nat] /\ th \in [Threads -> ThreadRecs]
  BY <1>1, <1>3, IdleType
<1>6. Types
  <2>1. file \in Configs \cup {NoFile} /\ sig \in Configs \cup {NoFile} /\ want \in Configs
    BY <1>1, <1>2
  <2>2. birth \in [how : Births, old : BOOLEAN, signed : BOOLEAN]
    BY <1>1, <1>4
  <2>3. mu \in [Processes -> Threads \cup {Nobody}]
    BY <1>1
  <2>5. calls = 1 /\ faults = 0 /\ imported = FALSE /\ moved = {} /\ refused = {}
    BY <1>1
  <2>4. calls \in Nat \ {0} /\ faults \in Nat /\ moved \subseteq Kinds /\ refused \subseteq Kinds
    BY <2>5
  <2>6. imported \in BOOLEAN
    BY <2>5, Zenon
  <2> QED
    BY <1>1, <1>4, <1>5, <2>1, <2>2, <2>3, <2>4, <2>6 DEF Types
<1>7. \A t \in Threads : th[t] = Idle
  BY <1>1
<1> QED
  BY <1>6, <1>7, IdleType DEF TypeInv, Alone, Numbered, Planned, Recovering, Updating

-----------------------------------------------------------------------------
(* The steps of a goroutine. *)

\* What one step makes of the goroutine that does it; the others stay.
LEMMA OneEnds ==
  ASSUME TypeInv, NEW t \in Threads, Ended(t)
  PROVE  /\ \A u \in Threads \ {t} : th'[u] = th[u]
         /\ th'[t].pc = "idle" /\ th'[t].op.name = "none" /\ th'[t].cfg = Empty
         /\ th'[t].plan = <<>>
  BY DEF TypeInv, Types, Ended, Idle

\* What never changes, and what only a failure changes.
LEMMA Constant ==
  ASSUME SettingsNext
  PROVE  UNCHANGED <<birth, corrupt>> /\ (UNCHANGED faults \/ Fails)
<1>1. ASSUME NEW t \in Threads, Load(t)
      PROVE  UNCHANGED <<birth, corrupt, faults>>
  BY <1>1 DEF Load, ReadFile, CreateDefault, Migrate, Loaded, Recover, RecoverSign,
     Stat, Ensure, Sign, LoadFailed, files, past
<1>2. ASSUME NEW t \in Threads, Secrets(t)
      PROVE  UNCHANGED <<birth, corrupt>> /\ (UNCHANGED faults \/ Fails)
  BY <1>2 DEF Secrets, SetBegins, Need, MigrateSecret, WriteUser, WriteService,
       Settle, WriteFails, DeleteUser, DeleteRest, files, past
<1>3. ASSUME NEW t \in Threads, Call(t) \/ BodyDone(t) \/ Save(t) \/ SaveSign(t) \/ SaveFails(t)
      PROVE  UNCHANGED <<birth, corrupt>> /\ (UNCHANGED faults \/ Fails)
  BY <1>3 DEF Call, BodyDone, Save, SaveSign, SaveFails, files, past
<1>4. ASSUME ServiceTick \/ \E p \in Processes : ProcessEnds(p)
      PROVE  UNCHANGED <<birth, corrupt>> /\ (UNCHANGED faults \/ Fails)
  BY <1>4 DEF ServiceTick, ProcessEnds, files, past
<1> QED
  BY <1>1, <1>2, <1>3, <1>4 DEF SettingsNext

\* Steps about secrets leave the configuration alone.
LEMMA SecretsOnly ==
  ASSUME TypeInv, NEW t \in Threads, Secrets(t)
  PROVE  /\ UNCHANGED <<file, sig, mu, lock, want, imported, birth, corrupt, calls>>
         /\ th[t].pc \in Storing \cup {"body", "delete"}
         /\ \A u \in Threads \ {t} : th'[u] = th[u]
         /\ \/ /\ th'[t].pc \in Storing \cup {"body", "delete"} /\ UNCHANGED busy
               /\ th'[t].cfg = th[t].cfg /\ th'[t].op = th[t].op
               /\ th'[t].pc # "body" => th'[t].plan = th[t].plan
            \/ th'[t].pc = "idle" /\ th'[t].cfg = Empty /\ th'[t].op.name = "none" /\ Ended(t)
<1>1. UNCHANGED <<file, sig, mu, lock, want, imported, birth, corrupt, calls>>
  BY DEF Secrets, SetBegins, Need, MigrateSecret, WriteUser, WriteService,
       Settle, WriteFails, DeleteUser, DeleteRest, files, locks, past
<1>2. th[t].pc \in Storing \cup {"body", "delete"}
  BY DEF Secrets, SetBegins, Need, MigrateSecret, WriteUser, WriteService,
       Settle, WriteFails, DeleteUser, DeleteRest, Doing, Storing
<1>3. \/ Ended(t)
      \/ UNCHANGED busy /\ (NextAct(t) \/ GoOn(t, "service") \/ GoOn(t, "settle") \/ GoOn(t, "delete"))
      \/ UNCHANGED busy /\ \E v : th' = [th EXCEPT ![t].pc = "user", ![t].val = v]
  BY DEF Secrets, SetBegins, Need, MigrateSecret, WriteUser, WriteService,
       Settle, WriteFails, DeleteUser, DeleteRest, Move, ActFails, locks
<1>4. /\ \A u \in Threads \ {t} : th'[u] = th[u]
      /\ \/ /\ th'[t].pc \in Storing \cup {"body", "delete"} /\ UNCHANGED busy
            /\ th'[t].cfg = th[t].cfg /\ th'[t].op = th[t].op
            /\ th'[t].pc # "body" => th'[t].plan = th[t].plan
         \/ th'[t].pc = "idle" /\ th'[t].cfg = Empty /\ th'[t].op.name = "none" /\ Ended(t)
  BY <1>3, OneEnds DEF NextAct, GoOn, Storing, TypeInv, Types, ThreadRecs
<1> QED
  BY <1>1, <1>2, <1>4

\* Steps of a load leave the secrets alone.
LEMMA LoadOnly ==
  ASSUME TypeInv, NEW t \in Threads, Load(t)
  PROVE  /\ UNCHANGED <<stores, want, imported, acked, moved, refused, birth, corrupt, calls>>
         /\ th[t].pc \in Loading
         /\ \A u \in Threads \ {t} : th'[u] = th[u]
         /\ \/ /\ th'[t].pc \in Loading \cup {"body"} /\ UNCHANGED busy
               /\ th'[t].op = th[t].op
               /\ th'[t].pc = "body" => /\ th'[t].cfg = th[t].cfg
                                        /\ th'[t].plan = PlanOf(th[t].op, th[t].cfg)
            \/ th'[t].pc = "idle" /\ th'[t].cfg = Empty /\ th'[t].op.name = "none" /\ Ended(t)
<1>1. UNCHANGED <<stores, want, imported, acked, moved, refused, birth, corrupt, calls>>
      /\ th[t].pc \in Loading
  BY DEF Load, ReadFile, CreateDefault, Migrate, Loaded, Recover, RecoverSign,
     Stat, Ensure, Sign, LoadFailed, files, past, Loading
<1>2. ASSUME ReadFile(t) \/ CreateDefault(t) \/ Migrate(t) \/ Loaded(t) \/ RecoverSign(t)
      PROVE  /\ \A u \in Threads \ {t} : th'[u] = th[u]
             /\ th'[t].pc \in Loading \cup {"body"} /\ UNCHANGED busy /\ th'[t].op = th[t].op
             /\ th'[t].pc = "body" => th'[t].cfg = th[t].cfg /\ th'[t].plan = PlanOf(th[t].op, th[t].cfg)
  BY <1>2 DEF ReadFile, CreateDefault, Migrate, Loaded, RecoverSign, GoOn, TypeInv, Types,
     ThreadRecs,
     Loading, locks
<1>3. ASSUME NEW l \in Loading, GoOn(t, l), UNCHANGED busy
      PROVE  /\ \A u \in Threads \ {t} : th'[u] = th[u]
             /\ th'[t].pc \in Loading /\ UNCHANGED busy /\ th'[t].op = th[t].op
  BY <1>3 DEF GoOn, TypeInv, Types, ThreadRecs
<1>4. Stat(t) \/ Ensure(t) \/ Sign(t) => \E l \in Loading : GoOn(t, l) /\ UNCHANGED busy
  BY DEF Stat, Ensure, Sign, Parsed, Loading, locks
<1>5. LoadFailed(t) => Ended(t) \/ \E l \in Loading : GoOn(t, l) /\ UNCHANGED busy
  BY DEF LoadFailed, Loading
<1>6. Recover(t) => \/ Ended(t)
                    \/ \E l \in Loading : GoOn(t, l) /\ UNCHANGED busy
                    \/ th' = [th EXCEPT ![t].pc = "load", ![t].again = TRUE] /\ UNCHANGED busy
  BY DEF Recover, Loading
<1>7. ASSUME th' = [th EXCEPT ![t].pc = "load", ![t].again = TRUE], UNCHANGED busy
      PROVE  /\ \A u \in Threads \ {t} : th'[u] = th[u]
             /\ th'[t].pc \in Loading /\ UNCHANGED busy /\ th'[t].op = th[t].op
  BY <1>7 DEF TypeInv, Types, ThreadRecs, Loading
<1>8. "body" \notin Loading
  BY DEF Loading
<1> QED
  BY <1>1, <1>2, <1>3, <1>4, <1>5, <1>6, <1>7, <1>8, OneEnds DEF Load

\* A call begins with nothing but what it brings.
LEMMA CallOnly ==
  ASSUME TypeInv, NEW t \in Threads, Call(t)
  PROVE  /\ \A u \in Threads \ {t} : th'[u] = th[u]
         /\ th[t].pc = "idle" /\ th'[t].plan = <<>> /\ ~th'[t].cfg.old /\ th'[t].cfg.dest = 0
         /\ th'[t].op.n = calls + 1
         /\ th'[t].pc = (IF th'[t].op.name = "Import" THEN "save" ELSE "load")
  BY DEF Call, ImportOf, Idle, Empty, Operations, TypeInv, Types

\* The goroutine goes on with its plan.
LEMMA OneNext ==
  ASSUME TypeInv, NEW t \in Threads, NextAct(t)
  PROVE  /\ \A u \in Threads \ {t} : th'[u] = th[u]
         /\ th'[t].pc = "body" /\ th'[t].op = th[t].op /\ th'[t].plan = Tail(th[t].plan)
         /\ th'[t].cfg = th[t].cfg
  BY DEF NextAct, TypeInv, Types, ThreadRecs

LEMMA OneGoesOn ==
  ASSUME TypeInv, NEW t \in Threads, NEW l, GoOn(t, l)
  PROVE  /\ \A u \in Threads \ {t} : th'[u] = th[u]
         /\ th'[t].pc = l /\ th'[t].cfg = th[t].cfg /\ th'[t].op = th[t].op
         /\ th'[t].plan = th[t].plan /\ th'[t].val = th[t].val
  BY DEF TypeInv, Types, GoOn, ThreadRecs

LEMMA OneStarts ==
  ASSUME TypeInv, NEW t \in Threads, NEW v, th' = [th EXCEPT ![t].pc = "user", ![t].val = v]
  PROVE  /\ \A u \in Threads \ {t} : th'[u] = th[u]
         /\ th'[t].pc = "user" /\ th'[t].cfg = th[t].cfg /\ th'[t].op = th[t].op
         /\ th'[t].plan = th[t].plan /\ th'[t].val = v
  BY DEF TypeInv, Types, GoOn, ThreadRecs

-----------------------------------------------------------------------------
(* The file and its signature. *)

\* Where t is, it has the data lock exactly if it has written the file and not
\* yet the signature, or both while it loads.
SignedBy(t) ==
  /\ th[t].pc \notin {"create", "ensure", "recovered"}
  /\ th[t].pc \in {"sign", "saved"} => lock = t /\ th[t].cfg = file
  /\ lock = t => th[t].pc \in {"sign", "saved", "loaded"}
  /\ lock = t /\ th[t].pc = "loaded" => sig = file

\* An installation that was signed at first, and where nothing fails: nobody
\* creates a file or signs without the lock.
Signed ==
  (birth.signed /\ corrupt = NoFile /\ faults = 0) =>
    /\ file # NoFile /\ sig # NoFile
    /\ lock = Nobody => sig = file
    /\ \A t \in Threads : SignedBy(t)

LEMMA SignedStep ==
  ASSUME TypeInv, SettingsAssumption, Signed, SettingsNext
  PROVE  Signed'
<1>1. SUFFICES ASSUME birth'.signed, corrupt' = NoFile, faults' = 0
               PROVE  Signed'
  BY DEF Signed
<1>2. birth.signed /\ corrupt = NoFile /\ faults = 0 /\ ~Fails
  <2>1. ~Fails
    BY <1>1 DEF Fails, TypeInv, Types
  <2> QED
    BY <1>1, <2>1, Constant
<1>3. /\ file # NoFile /\ sig # NoFile
      /\ lock = Nobody => sig = file
      /\ \A t \in Threads : SignedBy(t)
  BY <1>2 DEF Signed
<1>a. Nobody \notin Threads /\ NoFile \notin Configs
  BY DEF SettingsAssumption, Threads
<1>b. TypeInv'
  BY StepTypes
<1>q. ASSUME NEW t \in Threads, UNCHANGED <<file, sig, lock>>, \A u \in Threads \ {t} : th'[u] = th[u],
             th[t].pc \notin {"sign", "saved", "loaded"},
             th'[t].pc \notin {"create", "ensure", "recovered", "sign", "saved"}
      PROVE  Signed'
  BY <1>3, <1>q DEF Signed, SignedBy
<1>4. ASSUME NEW t \in Threads, Load(t)
      PROVE  Signed'
  <2>1. ReadFile(t) => Signed'
    BY <1>3, <1>a DEF ReadFile, Signed, SignedBy, TypeInv, Types, ThreadRecs, files
  <2>2. Stat(t) => Signed'
    BY <1>3, <1>a DEF Stat, GoOn, Parsed, Signed, SignedBy, TypeInv, Types, ThreadRecs,
       files, locks
  <2>3. Migrate(t) => Signed'
    BY <1>3, <1>a, Typed DEF Migrate, Signed, SignedBy, TypeInv, Types, ThreadRecs
  <2>4. Sign(t) => Signed'
    BY <1>3, <1>a DEF Sign, GoOn, Signed, SignedBy, TypeInv, Types, ThreadRecs, locks
  <2>5. Loaded(t) => Signed'
    BY <1>3, <1>a DEF Loaded, Unlock, Signed, SignedBy, TypeInv, Types, ThreadRecs, files
  <2>6. LoadFailed(t) => Signed'
    <3>1. SUFFICES ASSUME LoadFailed(t)
                   PROVE  Signed'
      OBVIOUS
    <3>2. UNCHANGED <<file, sig, lock>>
      BY <1>2, <1>3, <3>1 DEF LoadFailed, SignedBy, Unlock, QuarantineScore, files
    <3>3. /\ \A u \in Threads \ {t} : th'[u] = th[u]
          /\ th'[t].pc \in {"idle", "recover", "load", "save"}
      BY <1>2, <3>1, OneEnds DEF LoadFailed, GoOn, QuarantineScore, TypeInv, Types, ThreadRecs
    <3> QED
      BY <1>q, <3>1, <3>2, <3>3 DEF LoadFailed
  <2>7. Recover(t) => Signed'
    <3>1. SUFFICES ASSUME Recover(t)
                   PROVE  Signed'
      OBVIOUS
    <3>2. UNCHANGED <<file, sig, lock>>
      BY <1>2, <1>3, <3>1 DEF Recover, SignedBy, Unlock, QuarantineScore, files
    <3>3. /\ \A u \in Threads \ {t} : th'[u] = th[u]
          /\ th'[t].pc \in {"idle", "recover", "load", "save"}
      BY <1>2, <3>1, OneEnds DEF Recover, GoOn, QuarantineScore, TypeInv, Types, ThreadRecs
    <3> QED
      BY <1>q, <3>1, <3>2, <3>3 DEF Recover
  <2> QED
    BY <1>3, <1>4, <2>1, <2>2, <2>3, <2>4, <2>5, <2>6, <2>7 DEF Load, CreateDefault, Ensure,
       RecoverSign, SignedBy
<1>5. ASSUME NEW t \in Threads, Secrets(t)
      PROVE  Signed'
  BY <1>3, <1>5, SecretsOnly DEF Signed, SignedBy, Storing
<1>6. ASSUME NEW t \in Threads, Call(t) \/ BodyDone(t) \/ Save(t) \/ SaveSign(t) \/ SaveFails(t)
      PROVE  Signed'
  <2>1. Call(t) => Signed'
    BY <1>3, <1>a DEF Call, ImportOf, Idle, Signed, SignedBy, TypeInv, Types, ThreadRecs, files
  <2>2. BodyDone(t) => Signed'
    <3>1. SUFFICES ASSUME BodyDone(t)
                   PROVE  Signed'
      OBVIOUS
    <3>2. UNCHANGED <<file, sig, lock>>
      BY <1>2, <1>3, <3>1 DEF BodyDone, SignedBy, Unlock, QuarantineScore, files
    <3>3. /\ \A u \in Threads \ {t} : th'[u] = th[u]
          /\ th'[t].pc \in {"idle", "recover", "load", "save"}
      BY <1>2, <3>1, OneEnds DEF BodyDone, GoOn, QuarantineScore, TypeInv, Types, ThreadRecs
    <3> QED
      BY <1>q, <3>1, <3>2, <3>3 DEF BodyDone
  <2>3. Save(t) => Signed'
    BY <1>3, <1>a DEF Save, GoOn, Signed, SignedBy, TypeInv, Types, ThreadRecs
  <2>4. SaveSign(t) => Signed'
    BY <1>3, <1>a, OneEnds DEF SaveSign, Unlock, Signed, SignedBy, TypeInv, Types, ThreadRecs
  <2> QED
    BY <1>2, <1>6, <2>1, <2>2, <2>3, <2>4 DEF SaveFails
<1>7. ServiceTick => Signed'
  BY <1>3, <1>a DEF ServiceTick, Idle, Signed, SignedBy, TypeInv, Types, ThreadRecs, files,
     locks, Threads
<1> QED
  BY <1>2, <1>4, <1>5, <1>6, <1>7 DEF SettingsNext, ProcessEnds

-----------------------------------------------------------------------------
(* The file and the updates. *)

\* Where an update holds the configuration it starts from.
Settled == {"stat", "ensure", "sign", "loaded", "body", "delete"} \cup Storing

\* An update starts from what all earlier ones add up to, and adds itself.
UpdatedBy(t) ==
  /\ ~th[t].cfg.old /\ th[t].pc \notin {"migrate", "recovered"}
  /\ th[t].op.name = "Import" => th[t].pc = "save"
  /\ Updating(t) /\ th[t].pc \in Settled => th[t].cfg = want
  /\ Updating(t) /\ th[t].pc = "save" => th[t].cfg = Change(th[t].op, want)

\* Nobody writes the file but updates, and whoever creates it.
Updated ==
  (~imported /\ ~birth.old /\ corrupt = NoFile) =>
    /\ ~want.old /\ file \in {NoFile, want} /\ (file = NoFile => want = Empty)
    /\ \A t \in Threads : UpdatedBy(t)

LEMMA Changed ==
  ASSUME NEW op \in Ops, NEW cfg \in Configs
  PROVE  Change(op, cfg).old = cfg.old
  BY DEF Change, Configs

LEMMA NoQuarantine ==
  ASSUME corrupt = NoFile, NEW cfg \in Configs
  PROVE  QuarantineScore = 0 /\ ~NeedsRecovery(cfg)
  BY DEF QuarantineScore, NeedsRecovery, Score

LEMMA UpdatedStep ==
  ASSUME TypeInv, SettingsAssumption, Updated, SettingsNext
  PROVE  Updated'
<1>1. SUFFICES ASSUME ~imported', ~birth'.old, corrupt' = NoFile
               PROVE  Updated'
  BY DEF Updated
<1>0. ASSUME imported
      PROVE  FALSE
  <2>1. ASSUME NEW t \in Threads, Load(t)
        PROVE  imported'
    BY <1>0, <2>1, LoadOnly
  <2>2. ASSUME NEW t \in Threads, Secrets(t)
        PROVE  imported'
    BY <1>0, <2>2, SecretsOnly
  <2>3. ASSUME NEW t \in Threads, Call(t) \/ BodyDone(t) \/ SaveSign(t) \/ SaveFails(t)
        PROVE  imported'
    BY <1>0, <2>3 DEF Call, BodyDone, SaveSign, SaveFails, past
  <2>4. ASSUME NEW t \in Threads, Save(t)
        PROVE  imported'
    BY <1>0, <2>4 DEF Save
  <2>5. ASSUME ServiceTick \/ \E p \in Processes : ProcessEnds(p)
        PROVE  imported'
    BY <1>0, <2>5 DEF ServiceTick, ProcessEnds, past
  <2> QED
    BY <1>1, <2>1, <2>2, <2>3, <2>4, <2>5 DEF SettingsNext
<1>2. ~imported /\ ~birth.old /\ corrupt = NoFile
  BY <1>0, <1>1, Constant
<1>3. /\ ~want.old /\ file \in {NoFile, want} /\ (file = NoFile => want = Empty)
      /\ \A t \in Threads : UpdatedBy(t)
  BY <1>2 DEF Updated
<1>a. Nobody \notin Threads /\ NoFile \notin Configs /\ ~Empty.old /\ Empty \in Configs /\ want \in Configs
  BY DEF SettingsAssumption, Threads, Empty, Configs, TypeInv, Types
<1>c. \A t \in Threads : th[t].cfg \in Configs /\ th[t].op \in Ops
  BY Typed
<1>o. \A t, u \in Threads : Updating(t) /\ Updating(u) => t = u
  BY DEF TypeInv, Alone
\* Everybody else stays where he is, and so do the file and what it should be.
<1>q. ASSUME NEW t \in Threads, UNCHANGED <<file, want>>, \A u \in Threads \ {t} : th'[u] = th[u],
             UpdatedBy(t)'
      PROVE  Updated'
  BY <1>3, <1>q DEF Updated, UpdatedBy, Updating
<1>r. ASSUME NEW t \in Threads, UNCHANGED <<file, want>>, Ended(t)
      PROVE  Updated'
  <2>1. UpdatedBy(t)'
    BY <1>a, <1>r, OneEnds DEF UpdatedBy, Updating, Updates, Settled, Storing
  <2> QED
    BY <1>q, <1>r, <2>1, OneEnds
<1>4. ASSUME NEW t \in Threads, Load(t)
      PROVE  Updated'
  <2>1. ReadFile(t) => Updated'
    BY <1>3, <1>a DEF ReadFile, Updated, UpdatedBy, Updating, TypeInv, Types, ThreadRecs,
       files, past, Settled, Storing
  <2>2. CreateDefault(t) => Updated'
    <3>1. SUFFICES ASSUME CreateDefault(t)
                   PROVE  Updated'
      OBVIOUS
    <3>2. /\ th'[t].pc \in {"failed", "sign", "stat"} /\ th'[t].op = th[t].op
          /\ th'[t].pc = "failed" => th'[t].cfg = th[t].cfg /\ file' = file
          /\ th'[t].pc # "failed" => th'[t].cfg = file' /\ file' = IF file = NoFile THEN Empty ELSE file
          /\ \A u \in Threads \ {t} : th'[u] = th[u]
          /\ want' = want /\ th[t].pc = "create"
      BY <3>1 DEF CreateDefault, GoOn, TypeInv, Types, ThreadRecs, past
    <3>3. UpdatedBy(t)'
      BY <1>3, <1>a, <3>2 DEF UpdatedBy, Updating, Settled, Storing
    <3> QED
      BY <1>3, <1>a, <3>2, <3>3 DEF Updated, UpdatedBy, Updating
  <2>3. Stat(t) => Updated'
    BY <1>3, <1>a DEF Stat, GoOn, Parsed, Updated, UpdatedBy, Updating, TypeInv, Types,
       ThreadRecs, files, past, Settled, Storing
  <2>4. Ensure(t) => Updated'
    BY <1>3, <1>a DEF Ensure, GoOn, Parsed, Updated, UpdatedBy, Updating, TypeInv, Types,
       ThreadRecs, past, Settled, Storing
  <2>5. Sign(t) => Updated'
    BY <1>3, <1>a DEF Sign, GoOn, Updated, UpdatedBy, Updating, TypeInv, Types, ThreadRecs,
       past, Settled, Storing
  <2>6. Loaded(t) => Updated'
    BY <1>3, <1>a, SMTT(30) DEF Loaded, Updated, UpdatedBy, Updating, TypeInv, Types, ThreadRecs,
       files, past, Settled, Storing
  <2>7. LoadFailed(t) => Updated'
    <3>1. SUFFICES ASSUME LoadFailed(t)
                   PROVE  Updated'
      OBVIOUS
    <3>2. UNCHANGED <<file, want>>
      BY <1>2, <3>1 DEF LoadFailed, QuarantineScore, files, past
    <3>3. \/ Ended(t)
          \/ /\ th'[t].pc \in {"recover", "load"} /\ th'[t].cfg = th[t].cfg /\ th'[t].op = th[t].op
             /\ \A u \in Threads \ {t} : th'[u] = th[u]
      BY <1>2, <3>1 DEF LoadFailed, GoOn, QuarantineScore, TypeInv, Types, ThreadRecs
    <3>4. UpdatedBy(t) /\ th[t].pc # "save"
      BY <1>3, <3>1 DEF LoadFailed
    <3> QED
      BY <1>q, <1>r, <3>2, <3>3, <3>4 DEF UpdatedBy, Updating, Settled, Storing
  <2>8. Recover(t) => Updated'
    <3>1. SUFFICES ASSUME Recover(t)
                   PROVE  Updated'
      OBVIOUS
    <3>2. UNCHANGED <<file, want>>
      BY <1>2, <3>1 DEF Recover, QuarantineScore, files, past
    <3>3. \/ Ended(t)
          \/ /\ th'[t].pc \in {"recover", "load"} /\ th'[t].cfg = th[t].cfg /\ th'[t].op = th[t].op
             /\ \A u \in Threads \ {t} : th'[u] = th[u]
      BY <1>2, <3>1 DEF Recover, GoOn, QuarantineScore, TypeInv, Types, ThreadRecs
    <3>4. UpdatedBy(t) /\ th[t].pc # "save"
      BY <1>3, <3>1 DEF Recover
    <3> QED
      BY <1>q, <1>r, <3>2, <3>3, <3>4 DEF UpdatedBy, Updating, Settled, Storing
  <2> QED
    BY <1>3, <1>4, <2>1, <2>2, <2>3, <2>4, <2>5, <2>6, <2>7, <2>8 DEF Load, Migrate,
       RecoverSign, UpdatedBy
<1>5. ASSUME NEW t \in Threads, Secrets(t)
      PROVE  Updated'
  <2>1. UpdatedBy(t)'
    BY <1>3, <1>a, <1>5, SecretsOnly DEF UpdatedBy, Updating, Updates, Settled, Storing
  <2> QED
    BY <1>5, <1>q, <2>1, SecretsOnly
<1>6. ASSUME NEW t \in Threads, Call(t) \/ BodyDone(t) \/ Save(t) \/ SaveSign(t) \/ SaveFails(t)
      PROVE  Updated'
  <2>1. Call(t) => Updated'
    <3>1. SUFFICES ASSUME Call(t)
                   PROVE  Updated'
      OBVIOUS
    <3>2. UpdatedBy(t)'
      BY <1>a, <3>1, CallOnly DEF UpdatedBy, Updating, Updates, Settled, Storing
    <3> QED
      BY <1>q, <3>1, <3>2, CallOnly DEF Call, files, past
  <2>2. BodyDone(t) => Updated'
    <3>1. SUFFICES ASSUME BodyDone(t)
                   PROVE  Updated'
      OBVIOUS
    <3>2. CASE Updating(t)
      <4>1. /\ th'[t].pc = "save" /\ th'[t].op = th[t].op /\ th'[t].cfg = Change(th[t].op, th[t].cfg)
            /\ \A u \in Threads \ {t} : th'[u] = th[u]
        BY <3>1, <3>2 DEF BodyDone, Updating, TypeInv, Types, ThreadRecs
      <4>2. th[t].cfg = want /\ ~th'[t].cfg.old /\ UNCHANGED <<file, want>>
        BY <1>3, <1>c, <3>1, <3>2, <4>1, Changed DEF BodyDone, UpdatedBy, Settled, files, past
      <4>3. UpdatedBy(t)'
        BY <4>1, <4>2, <3>2 DEF UpdatedBy, Updating, Updates, Settled, Storing
      <4> QED
        BY <1>q, <4>1, <4>2, <4>3
    <3>3. CASE ~Updating(t)
      BY <1>r, <3>1, <3>3 DEF BodyDone, Updating, files, past
    <3> QED
      BY <3>2, <3>3
  <2>3. Save(t) => Updated'
    <3>1. SUFFICES ASSUME Save(t)
                   PROVE  Updated'
      OBVIOUS
    <3>2. Updating(t) /\ th[t].cfg = Change(th[t].op, want)
      BY <1>1, <1>3, <3>1, Typed DEF Save, PlanOK, UpdatedBy, Updating
    <3>3. file' = th[t].cfg /\ want' = th[t].cfg
      BY <3>1, <3>2 DEF Save, Updating
    <3>4. /\ \A u \in Threads \ {t} : th'[u] = th[u]
          /\ th'[t].pc = "saved" /\ th'[t].cfg = th[t].cfg /\ th'[t].op = th[t].op
      BY <3>1 DEF Save, GoOn, TypeInv, Types, ThreadRecs
    <3>5. UpdatedBy(t)'
      BY <1>3, <3>2, <3>4 DEF UpdatedBy, Updating, Updates, Settled, Storing
    <3>6. ASSUME NEW u \in Threads \ {t}
          PROVE  UpdatedBy(u)'
      <4>1. ~Updating(u) /\ UpdatedBy(u)
        BY <1>3, <1>o, <3>2
      <4> QED
        BY <3>4, <4>1 DEF UpdatedBy, Updating
    <3> QED
      BY <1>3, <1>a, <1>c, <3>3, <3>5, <3>6 DEF Updated, UpdatedBy
  <2>4. SaveSign(t) => Updated'
    BY <1>3, <1>a, <1>r DEF SaveSign, Updated, UpdatedBy, past
  <2> QED
    BY <1>2, <1>6, <1>r, <2>1, <2>2, <2>3, <2>4 DEF SaveFails, files, past
<1>7. ServiceTick => Updated'
  BY <1>3, <1>a DEF ServiceTick, Idle, Updated, UpdatedBy, Updating, TypeInv, Types,
     ThreadRecs, files, past, Threads, Settled, Storing
<1>8. ASSUME NEW p \in Processes, ProcessEnds(p)
      PROVE  Updated'
  <2>1. \A t \in Threads : th'[t] = Idle \/ th'[t] = th[t]
    BY <1>8 DEF ProcessEnds
  <2>2. UNCHANGED <<file, want>>
    BY <1>8 DEF ProcessEnds, files, past
  <2> QED
    BY <1>3, <1>a, <2>1, <2>2 DEF Updated, UpdatedBy, Updating, Updates, Idle, Settled, Storing
<1> QED
  BY <1>4, <1>5, <1>6, <1>7, <1>8 DEF SettingsNext

-----------------------------------------------------------------------------
(* The secrets. *)

\* The kind of secret t is at.
Kind(t) == Head1(t).k
\* A secret is stored somewhere.
Held(s) == s.user > 0 \/ s.service > 0 \/ s.legacy > 0 \/ s.cred > 0

\* A goroutine that is in the middle of the files of a secret.
AtFiles(t) == th[t].pc \in Storing \cup {"delete"}

\* A secret is somewhere unless a write of it has failed.
KeptAt(k) ==
  /\ acked[k] <= calls
  /\ k \notin refused /\ acked[k] > 0 => Held(stores[k])

\* What an update brings is newer than all that is acknowledged, a call that
\* deletes has taken the acknowledgement back, and whoever is about to drop the
\* older copies has the file of the service before it.
KeptBy(t) ==
  /\ Updating(t) => \A k \in Kinds : acked[k] <= th[t].op.n
  /\ th[t].pc = "delete" => acked[Kind(t)] = 0
  /\ th[t].pc = "settle" /\ (acked[Kind(t)] > 0 \/ Head1(t).a = "set") =>
       stores[Kind(t)].service > 0

Kept == (\A k \in Kinds : KeptAt(k)) /\ (\A t \in Threads : KeptBy(t))

\* What either program reads is not older than what is acknowledged.
NewestAt(k) ==
  acked[k] > 0 =>
    /\ \/ stores[k].service >= acked[k]
       \/ stores[k].service = 0 /\ stores[k].legacy >= acked[k]
    /\ stores[k].user = 0 \/ stores[k].user >= acked[k]

\* Nobody but a call that sets it writes a kind that is in the files already.
NewestBy(t) ==
  th[t].pc \in Storing =>
    /\ Head1(t).a = "set"
    /\ th[t].pc \in {"service", "settle"} => stores[Kind(t)].user = th[t].val
    /\ th[t].pc = "settle" => stores[Kind(t)].service = th[t].val

Newest ==
  birth.how # "cred" =>
    /\ \A k \in Kinds \ moved : NewestAt(k)
    /\ \A t \in Threads : Kind(t) \notin moved => NewestBy(t)

LEMMA SecretTaken ==
  ASSUME TypeInv, Kept, Newest
  PROVE  SecretSurvives
<1> SUFFICES ASSUME NEW k \in Kinds, acked[k] > 0
             PROVE  IF birth.how = "cred" \/ k \in moved
                    THEN k \in refused \/ Read("window", k) > 0 \/ stores[k].cred > 0
                    ELSE \A p \in Processes : Read(p, k) >= acked[k]
  BY DEF SecretSurvives
<1>1. stores[k] \in Stores /\ acked[k] \in Nat
  BY DEF TypeInv, Types
<1>2. CASE birth.how = "cred" \/ k \in moved
  BY <1>1, <1>2 DEF Kept, KeptAt, Held, Read, Stores
<1>3. CASE ~(birth.how = "cred" \/ k \in moved)
  <2>1. NewestAt(k)
    BY <1>3 DEF Newest
  <2>2. Read("window", k) >= acked[k]
    BY <1>1, <2>1 DEF NewestAt, Read, Stores
  <2>3. Read("service", k) >= acked[k]
    BY <1>1, <2>1 DEF NewestAt, Read, Stores
  <2> QED
    BY <1>3, <2>2, <2>3 DEF Processes
<1> QED
  BY <1>2, <1>3

\* Nobody but t is at the files of a secret for an update.
LEMMA Sole ==
  ASSUME TypeInv, NEW t \in Threads, Updating(t), NEW u \in Threads \ {t}
  PROVE  /\ ~Updating(u) /\ th[u].pc # "delete"
         /\ th[u].plan # <<>> => Head1(u).a \notin {"set", "delete"}
<1>1. ~Updating(u)
  BY DEF TypeInv, Alone
<1>2. th[u].plan # <<>> => Head1(u).a \notin {"set", "delete"}
  BY <1>1, HeadTyped DEF Fits, Updating
<1>3. th[u].pc # "delete"
  BY <1>2, Typed DEF PlanOK, Head1
<1> QED
  BY <1>1, <1>2, <1>3

LEMMA SecretSteps ==
  ASSUME TypeInv, SettingsAssumption, NEW t \in Threads, Secrets(t), NEW k, k = Kind(t)
  PROVE  /\ k \in Kinds /\ stores[k] \in Stores /\ stores'[k] \in Stores /\ Head1(t) \in Acts
         /\ \A l \in Kinds \ {k} : stores'[l] = stores[l] /\ acked'[l] = acked[l]
         /\ UNCHANGED <<calls, birth>> /\ moved \subseteq moved' /\ moved' \subseteq moved \cup {k}
         /\ refused \subseteq refused' /\ refused' \subseteq refused \cup {k}
         /\ th[t].plan # <<>>
         /\ acked[k] \in Nat /\ acked'[k] \in Nat /\ calls \in Nat /\ th[t].val \in Nat
         /\ Head1(t).a \in {"set", "delete"} => Updating(t) /\ th[t].op.n \in 1..calls
         /\ th[t].pc \in Storing => th[t].val > 0
         /\ th[t].pc \in Storing => (Head1(t).a = "set" => th[t].val = th[t].op.n) /\ Head1(t).a # "delete"
<1>1. th[t].plan # <<>>
  BY Typed DEF Secrets, SetBegins, Need, MigrateSecret, WriteUser, WriteService, Settle,
     WriteFails,
     DeleteUser, DeleteRest, Doing, PlanOK, Storing
<1>2. k \in Kinds /\ Head1(t) \in Acts /\ Fits(th[t].op, Head1(t))
  BY <1>1, HeadTyped DEF Kind
<1>3. stores[k] \in Stores /\ stores'[k] \in Stores /\ acked[k] \in Nat /\ acked'[k] \in Nat
      /\ calls \in Nat /\ stores \in [Kinds -> Stores] /\ acked \in [Kinds -> Nat]
  <2>1. TypeInv'
    BY SecretTypes
  <2> QED
    BY <1>2, <2>1 DEF TypeInv, Types
<1>4. \A l \in Kinds \ {k} : stores'[l] = stores[l] /\ acked'[l] = acked[l]
  <2>1. \A l \in Kinds \ {k} : stores'[l] = stores[l]
    BY <1>2, <1>3 DEF Kind, Secrets, SetBegins, Need, MigrateSecret, WriteUser,
       WriteService, Settle, WriteFails,
     DeleteUser, DeleteRest
  <2>2. \A l \in Kinds \ {k} : acked'[l] = acked[l]
    BY <1>2, <1>3 DEF Kind, Secrets, SetBegins, Need, MigrateSecret, WriteUser,
       WriteService, Settle, WriteFails,
     DeleteUser, DeleteRest, past
  <2> QED
    BY <2>1, <2>2
<1>5. /\ moved \subseteq moved' /\ moved' \subseteq moved \cup {k}
      /\ refused \subseteq refused' /\ refused' \subseteq refused \cup {k}
  BY DEF Kind, Secrets, SetBegins, Need, MigrateSecret, WriteUser, WriteService, Settle,
     WriteFails,
     DeleteUser, DeleteRest, past, Move
<1>6. Head1(t).a \in {"set", "delete"} => Updating(t) /\ th[t].op.n \in 1..calls
  BY <1>2 DEF Fits, Updating, TypeInv, Numbered
<1>7. /\ th[t].val \in Nat /\ (th[t].pc \in Storing => th[t].val > 0)
      /\ th[t].pc \in Storing => (Head1(t).a = "set" => th[t].val = th[t].op.n) /\ Head1(t).a # "delete"
  BY Typed DEF PlanOK, Head1
<1> QED
  BY <1>1, <1>2, <1>3, <1>4, <1>5, <1>6, <1>7, SecretsOnly

LEMMA SecretsKept ==
  ASSUME TypeInv, SettingsAssumption, Kept, Newest, NEW t \in Threads, Secrets(t)
  PROVE  Kept' /\ Newest'
<1>0. PICK k : k = Kind(t)
  OBVIOUS
<1>1. /\ k \in Kinds /\ stores[k] \in Stores /\ stores'[k] \in Stores /\ Head1(t) \in Acts
      /\ \A l \in Kinds \ {k} : stores'[l] = stores[l] /\ acked'[l] = acked[l]
      /\ UNCHANGED <<calls, birth>> /\ moved \subseteq moved' /\ moved' \subseteq moved \cup {k}
      /\ refused \subseteq refused' /\ refused' \subseteq refused \cup {k}
      /\ th[t].plan # <<>>
      /\ acked[k] \in Nat /\ acked'[k] \in Nat /\ calls \in Nat /\ th[t].val \in Nat
      /\ Head1(t).a \in {"set", "delete"} => Updating(t) /\ th[t].op.n \in 1..calls
      /\ th[t].pc \in Storing => th[t].val > 0
      /\ th[t].pc \in Storing => (Head1(t).a = "set" => th[t].val = th[t].op.n) /\ Head1(t).a # "delete"
  BY <1>0, SecretSteps
<1>k. /\ \A l \in Kinds : KeptAt(l) /\ (birth.how # "cred" /\ l \notin moved => NewestAt(l))
      /\ \A u \in Threads : KeptBy(u) /\ (birth.how # "cred" /\ Kind(u) \notin moved => NewestBy(u))
  BY DEF Kept, Newest
\* It is enough to look at the kind and the goroutine of the step, and at
\* others that are at the files of the same kind.
<1>q. ASSUME \A u \in Threads \ {t} : th'[u] = th[u],
             KeptAt(k)', birth.how # "cred" /\ k \notin moved' => NewestAt(k)',
             KeptBy(t)', birth.how # "cred" /\ Kind(t)' \notin moved' => NewestBy(t)',
             \A u \in Threads \ {t} : Kind(u) = k /\ AtFiles(u) =>
               KeptBy(u)' /\ (birth.how # "cred" /\ k \notin moved' => NewestBy(u)'),
             acked'[k] <= acked[k] \/ Updating(t)
      PROVE  Kept' /\ Newest'
  <2>3. ASSUME NEW u \in Threads \ {t}, Updating(u), NEW l \in Kinds
        PROVE  acked'[l] <= th[u].op.n
    <3>1. ~Updating(t) /\ acked[l] <= th[u].op.n
      BY <1>k, <2>3, Sole DEF KeptBy
    <3>2. th[u].op.n \in Nat /\ acked[k] \in Nat
      BY <1>1, <2>3 DEF TypeInv, Types, Numbered
    <3> QED
      BY <1>1, <1>q, <3>1, <3>2
  <2>1. ASSUME NEW l \in Kinds
        PROVE  KeptAt(l)' /\ (birth'.how # "cred" /\ l \notin moved' => NewestAt(l)')
    BY <1>1, <1>k, <1>q DEF KeptAt, NewestAt
  <2>2. ASSUME NEW u \in Threads
        PROVE  KeptBy(u)' /\ (birth'.how # "cred" /\ Kind(u)' \notin moved' => NewestBy(u)')
    <3>1. CASE u = t
      BY <1>1, <1>q, <3>1
    <3>2. CASE u # t /\ Kind(u) = k /\ AtFiles(u)
      BY <1>1, <1>q, <3>2 DEF Kind, Head1
    <3>3. CASE u # t /\ ~AtFiles(u)
      BY <1>q, <2>3, <3>3 DEF KeptBy, NewestBy, AtFiles, Storing, Updating
    <3>4. CASE u # t /\ Kind(u) # k /\ AtFiles(u)
      <4>1. th'[u] = th[u] /\ Kind(u)' = Kind(u) /\ Head1(u)' = Head1(u) /\ Kind(u) \in Kinds
        BY <1>q, <3>4, HeadTyped, Typed DEF Kind, Head1, AtFiles, PlanOK, Storing
      <4>2. Updating(u) => \A l \in Kinds : acked'[l] <= th[u].op.n
        BY <2>3, <3>4
      <4> QED
        BY <1>1, <1>k, <3>4, <4>1, <4>2 DEF KeptBy, NewestBy, Updating
    <3> QED
      BY <3>1, <3>2, <3>3, <3>4
  <2> QED
    BY <2>1, <2>2 DEF Kept, Newest
\* Only t may set or delete while it does.
<1>o. ASSUME Updating(t), NEW u \in Threads \ {t}, AtFiles(u)
      PROVE  /\ ~Updating(u) /\ th[u].pc # "delete" /\ Head1(u).a # "set"
             /\ Kind(u) \in moved \/ birth.how = "cred"
  <2>1. th[u].plan # <<>>
    BY <1>o, Typed DEF AtFiles, PlanOK, Storing
  <2>2. ~Updating(u) /\ th[u].pc # "delete" /\ Head1(u).a # "set"
    BY <1>o, <2>1, Sole
  <2> QED
    BY <1>k, <1>o, <2>2 DEF NewestBy, AtFiles
<1>2. CASE SetBegins(t)
  <2>1. /\ th[t].pc = "body" /\ Head1(t).a = "set"
        /\ stores'[k] = stores[k] \/ stores'[k] = [stores[k] EXCEPT !.cred = th[t].op.n]
        /\ UNCHANGED <<acked, moved, refused>>
    BY <1>0, <1>1, <1>2 DEF SetBegins, Doing, past, Kind, TypeInv, Types
  <2>2. /\ \A u \in Threads \ {t} : th'[u] = th[u]
        /\ th'[t].pc = "user" /\ th'[t].op = th[t].op /\ th'[t].plan = th[t].plan
    BY <1>2, OneStarts DEF SetBegins
  <2>3. /\ stores'[k].user = stores[k].user /\ stores'[k].service = stores[k].service
        /\ stores'[k].legacy = stores[k].legacy /\ (Held(stores[k]) => Held(stores'[k]))
    BY <1>1, <2>1 DEF Stores, Held
  <2>4. KeptAt(k)' /\ (birth.how # "cred" /\ k \notin moved' => NewestAt(k)')
    <3>1. KeptAt(k)'
      BY <1>1, <1>k, <2>1, <2>3 DEF KeptAt
    <3>2. birth.how # "cred" /\ k \notin moved' => NewestAt(k)'
      BY <1>1, <1>k, <2>1, <2>3 DEF NewestAt
    <3> QED
      BY <3>1, <3>2
  <2>5. KeptBy(t)' /\ NewestBy(t)'
    BY <1>1, <1>k, <2>1, <2>2 DEF KeptBy, NewestBy, Head1, Updating
  <2>6. ASSUME NEW u \in Threads \ {t}, Kind(u) = k
        PROVE  KeptBy(u)' /\ (birth.how # "cred" /\ k \notin moved' => NewestBy(u)')
    BY <1>1, <1>k, <2>1, <2>2, <2>3, <2>6, SMTT(30) DEF KeptBy, NewestBy, Head1, Kind, Updating
  <2> QED
    BY <1>1, <1>q, <2>1, <2>2, <2>4, <2>5, <2>6
<1>3. ASSUME UNCHANGED <<stores, acked, refused>>, \A u \in Threads \ {t} : th'[u] = th[u],
             th'[t].op = th[t].op \/ ~Updating(t)',
             \/ th'[t].pc \in {"body", "idle"}
             \/ th'[t].pc = "user" /\ th'[t].plan = th[t].plan /\ k \in moved'
      PROVE  Kept' /\ Newest'
  <2>1. KeptAt(k)' /\ (birth.how # "cred" /\ k \notin moved' => NewestAt(k)')
    BY <1>1, <1>k, <1>3 DEF KeptAt, NewestAt
  <2>2. KeptBy(t)' /\ (birth.how # "cred" /\ Kind(t)' \notin moved' => NewestBy(t)')
    BY <1>0, <1>1, <1>k, <1>3 DEF KeptBy, NewestBy, Head1, Kind, Updating, Storing
  <2>3. ASSUME NEW u \in Threads \ {t}, Kind(u) = k
        PROVE  KeptBy(u)' /\ (birth.how # "cred" /\ k \notin moved' => NewestBy(u)')
    BY <1>1, <1>k, <1>3, <2>3, SMTT(30) DEF KeptBy, NewestBy, Head1, Kind, Updating
  <2> QED
    BY <1>1, <1>3, <1>q, <2>1, <2>2, <2>3
<1>m. ASSUME Move(t, k)
      PROVE  /\ \A u \in Threads \ {t} : th'[u] = th[u]
             /\ th'[t].op = th[t].op /\ th'[t].pc = "user" /\ th'[t].plan = th[t].plan /\ k \in moved'
  BY <1>m, OneStarts DEF Move
<1>4. CASE Need(t)
  <2>1. NextAct(t) \/ Move(t, k) \/ Ended(t)
    BY <1>0, <1>4 DEF Need, Kind
  <2>2. UNCHANGED <<stores, acked, refused>>
    BY <1>4 DEF Need
  <2> QED
    BY <1>3, <1>m, <2>1, <2>2, OneNext, OneEnds DEF Updating, Updates
<1>5. CASE MigrateSecret(t)
  <2>1. NextAct(t) \/ Move(t, k)
    BY <1>0, <1>5 DEF MigrateSecret, Kind
  <2>2. UNCHANGED <<stores, acked, refused>>
    BY <1>5 DEF MigrateSecret
  <2> QED
    BY <1>3, <1>m, <2>1, <2>2, OneNext
<1>6. CASE WriteUser(t)
  <2>1. /\ th[t].pc = "user" /\ stores'[k] = [stores[k] EXCEPT !.user = th[t].val]
        /\ UNCHANGED <<acked, moved, refused>>
    BY <1>0, <1>1, <1>6 DEF WriteUser, past, Kind, TypeInv, Types
  <2>2. /\ \A u \in Threads \ {t} : th'[u] = th[u]
        /\ th'[t].pc = "service" /\ th'[t].op = th[t].op /\ th'[t].plan = th[t].plan
        /\ th'[t].val = th[t].val
    BY <1>6, OneGoesOn DEF WriteUser
  <2>3. /\ stores'[k].user = th[t].val /\ stores'[k].service = stores[k].service
        /\ stores'[k].legacy = stores[k].legacy /\ Held(stores'[k]) /\ th[t].val > 0
    BY <1>1, <2>1 DEF Stores, Held, Storing
  <2>4. birth.how # "cred" /\ k \notin moved =>
          Head1(t).a = "set" /\ Updating(t) /\ th[t].val = th[t].op.n /\ acked[k] <= th[t].val
    BY <1>0, <1>1, <1>k, <2>1 DEF NewestBy, KeptBy, Storing
  <2>5. KeptAt(k)'
    BY <1>1, <1>k, <2>1, <2>3 DEF KeptAt
  <2>6. birth.how # "cred" /\ k \notin moved' => NewestAt(k)'
    BY <1>1, <1>k, <2>1, <2>3, <2>4 DEF NewestAt
  <2>7. KeptBy(t)' /\ (birth.how # "cred" /\ Kind(t)' \notin moved' => NewestBy(t)')
    BY <1>0, <1>1, <1>k, <2>1, <2>2, <2>3, <2>4 DEF KeptBy, NewestBy, Head1, Kind, Updating,
       Storing
  <2>8. ASSUME NEW u \in Threads \ {t}, Kind(u) = k, AtFiles(u)
        PROVE  KeptBy(u)' /\ (birth.how # "cred" /\ k \notin moved' => NewestBy(u)')
    <3>1. KeptBy(u)'
      BY <1>1, <1>k, <2>1, <2>2, <2>3, <2>8, ZenonT(60) DEF KeptBy, Head1, Kind, Updating
    <3>2. birth.how # "cred" => k \in moved'
      BY <1>o, <2>1, <2>4, <2>8
    <3> QED
      BY <3>1, <3>2
  <2> QED
    BY <1>1, <1>q, <2>1, <2>2, <2>5, <2>6, <2>7, <2>8
<1>7. CASE WriteService(t)
  <2>1. /\ th[t].pc = "service" /\ stores'[k] = [stores[k] EXCEPT !.service = th[t].val]
        /\ UNCHANGED <<acked, moved, refused>>
    BY <1>0, <1>1, <1>7 DEF WriteService, past, Kind, TypeInv, Types
  <2>2. /\ \A u \in Threads \ {t} : th'[u] = th[u]
        /\ th'[t].pc = "settle" /\ th'[t].op = th[t].op /\ th'[t].plan = th[t].plan
        /\ th'[t].val = th[t].val
    BY <1>7, OneGoesOn DEF WriteService
  <2>3. /\ stores'[k].service = th[t].val /\ stores'[k].user = stores[k].user
        /\ stores'[k].legacy = stores[k].legacy /\ Held(stores'[k]) /\ th[t].val > 0
    BY <1>1, <2>1 DEF Stores, Held, Storing
  <2>4. birth.how # "cred" /\ k \notin moved =>
          /\ Head1(t).a = "set" /\ Updating(t) /\ th[t].val = th[t].op.n /\ acked[k] <= th[t].val
          /\ stores[k].user = th[t].val
    BY <1>0, <1>1, <1>k, <2>1 DEF NewestBy, KeptBy, Storing
  <2>5. KeptAt(k)'
    BY <1>1, <1>k, <2>1, <2>3 DEF KeptAt
  <2>6. birth.how # "cred" /\ k \notin moved' => NewestAt(k)'
    BY <1>1, <1>k, <2>1, <2>3, <2>4 DEF NewestAt
  <2>7. KeptBy(t)' /\ (birth.how # "cred" /\ Kind(t)' \notin moved' => NewestBy(t)')
    BY <1>0, <1>1, <1>k, <2>1, <2>2, <2>3, <2>4, ZenonT(60) DEF KeptBy, NewestBy, Head1, Kind, Updating,
       Storing
  <2>8. ASSUME NEW u \in Threads \ {t}, Kind(u) = k, AtFiles(u)
        PROVE  KeptBy(u)' /\ (birth.how # "cred" /\ k \notin moved' => NewestBy(u)')
    <3>1. KeptBy(u)'
      BY <1>1, <1>k, <2>1, <2>2, <2>3, <2>8, ZenonT(60) DEF KeptBy, Head1, Kind, Updating
    <3>2. birth.how # "cred" => k \in moved'
      BY <1>o, <2>1, <2>4, <2>8
    <3> QED
      BY <3>1, <3>2
  <2> QED
    BY <1>1, <1>q, <2>1, <2>2, <2>5, <2>6, <2>7, <2>8
<1>8. CASE Settle(t)
  <2>1. /\ th[t].pc = "settle" /\ stores'[k] = [stores[k] EXCEPT !.legacy = 0, !.cred = 0]
        /\ acked'[k] = IF Head1(t).a = "set" THEN th[t].val ELSE acked[k]
        /\ UNCHANGED <<moved, refused>>
    BY <1>0, <1>1, <1>8, ZenonT(60) DEF Settle, Kind, TypeInv, Types
  <2>2. /\ \A u \in Threads \ {t} : th'[u] = th[u]
        /\ th'[t].pc = "body" /\ th'[t].op = th[t].op
    BY <1>8, OneNext DEF Settle
  <2>3. stores'[k].service = stores[k].service /\ stores'[k].user = stores[k].user
    BY <1>1, <2>1 DEF Stores
  <2>4. birth.how # "cred" /\ k \notin moved =>
          /\ Head1(t).a = "set" /\ stores[k].user = th[t].val /\ stores[k].service = th[t].val
    BY <1>0, <1>k, <2>1 DEF NewestBy, Storing
  <2>9. acked[k] > 0 \/ Head1(t).a = "set" => stores[k].service > 0
    BY <1>0, <1>k, <2>1 DEF KeptBy
  <2>5. KeptAt(k)'
    BY <1>1, <1>k, <2>1, <2>3, <2>9 DEF KeptAt, Held, Storing
  <2>6. birth.how # "cred" /\ k \notin moved' => NewestAt(k)'
    BY <1>1, <2>1, <2>3, <2>4 DEF NewestAt, Stores
  <2>7. KeptBy(t)' /\ NewestBy(t)'
    <3>1. \A l \in Kinds \ {k} : Updating(t) => acked'[l] <= th[t].op.n
      BY <1>1, <1>k DEF KeptBy
    <3>2. Updating(t) => acked'[k] <= th[t].op.n
      BY <1>1, <1>k, <2>1 DEF KeptBy, Storing
    <3> QED
      BY <2>2, <3>1, <3>2 DEF KeptBy, NewestBy, Updating, Storing
  <2>8. ASSUME NEW u \in Threads \ {t}, Kind(u) = k, AtFiles(u)
        PROVE  KeptBy(u)' /\ (birth.how # "cred" /\ k \notin moved' => NewestBy(u)')
    <3>1. CASE Head1(t).a = "set"
      <4>1. ~Updating(u) /\ th[u].pc # "delete" /\ (k \in moved \/ birth.how = "cred")
        BY <1>1, <1>o, <2>8, <3>1
      <4> QED
        BY <1>1, <2>1, <2>2, <2>3, <2>8, <2>9, <3>1, <4>1 DEF KeptBy, Head1, Kind, Updating
    <3>2. CASE Head1(t).a # "set"
      <4>1. k \in moved \/ birth.how = "cred"
        BY <2>4, <3>2
      <4>2. acked' = acked
        BY <1>8, <3>2 DEF Settle
      <4>3. th'[u] = th[u] /\ Kind(u)' = k /\ Head1(u)' = Head1(u)
        BY <2>2, <2>8 DEF Kind, Head1
      <4>4. KeptBy(u)'
        BY <1>k, <2>3, <2>8, <4>2, <4>3 DEF KeptBy, Updating
      <4> QED
        BY <2>1, <4>1, <4>4
    <3> QED
      BY <3>1, <3>2
  <2> QED
    BY <1>1, <1>q, <2>1, <2>2, <2>5, <2>6, <2>7, <2>8
<1>9. CASE WriteFails(t)
  <2>1. /\ stores'[k] = Undone(t, stores[k])
        /\ k \in refused' /\ UNCHANGED <<acked, moved>>
    BY <1>0, <1>1, <1>9 DEF WriteFails, Kind, TypeInv, Types
  <2>2. /\ \A u \in Threads \ {t} : th'[u] = th[u]
        /\ th'[t].pc \in {"body", "idle"} /\ (th'[t].op = th[t].op \/ ~Updating(t)')
    BY <1>9, OneNext, OneEnds DEF WriteFails, ActFails, Updating, Updates
  <2>3. /\ stores'[k].service = stores[k].service /\ stores'[k].legacy = stores[k].legacy
        /\ stores'[k].user \in {0, stores[k].user}
        /\ th[t].pc = "user" => stores'[k].user = stores[k].user
        /\ th[t].pc \in {"user", "service"}
    BY <1>1, <1>9, <2>1 DEF Stores, Undone, WriteFails
  <2>5. KeptAt(k)'
    BY <1>1, <1>k, <2>1 DEF KeptAt
  <2>6. birth.how # "cred" /\ k \notin moved' => NewestAt(k)'
    BY <1>1, <1>k, <2>1, <2>3 DEF NewestAt, Stores
  <2>7. KeptBy(t)' /\ NewestBy(t)'
    BY <1>1, <1>k, <2>1, <2>2 DEF KeptBy, NewestBy, Updating, Storing
  <2>8. ASSUME NEW u \in Threads \ {t}, Kind(u) = k, AtFiles(u)
        PROVE  KeptBy(u)' /\ (birth.how # "cred" /\ k \notin moved' => NewestBy(u)')
    <3>1. KeptBy(u)'
      BY <1>1, <1>k, <2>1, <2>2, <2>3, <2>8 DEF KeptBy, Head1, Kind, Updating
    <3>2. birth.how # "cred" => k \in moved'
      <4>1. birth.how # "cred" /\ k \notin moved => Head1(t).a = "set"
        BY <1>0, <1>k, <2>3 DEF NewestBy, Storing
      <4> QED
        BY <1>1, <1>o, <2>1, <2>8, <4>1
    <3> QED
      BY <3>1, <3>2
  <2> QED
    BY <1>1, <1>q, <2>1, <2>2, <2>5, <2>6, <2>7, <2>8
<1>10. CASE DeleteUser(t)
  <2>1. /\ Head1(t).a = "delete" /\ acked'[k] = 0 /\ UNCHANGED <<moved, refused>>
    BY <1>0, <1>1, <1>10 DEF DeleteUser, Doing, Kind, TypeInv, Types
  <2>2. /\ \A u \in Threads \ {t} : th'[u] = th[u]
        /\ th'[t].pc = "delete" /\ th'[t].op = th[t].op /\ th'[t].plan = th[t].plan
    BY <1>10, OneGoesOn DEF DeleteUser
  <2>3. Updating(t)
    BY <1>1, <2>1
  <2>4. KeptAt(k)' /\ NewestAt(k)'
    BY <1>1, <2>1 DEF KeptAt, NewestAt
  <2>5. KeptBy(t)' /\ NewestBy(t)'
    <3>1. \A l \in Kinds : acked'[l] <= th[t].op.n
      BY <1>1, <1>k, <2>1, <2>3 DEF KeptBy
    <3>2. Kind(t)' = k
      BY <1>0, <2>2 DEF Kind, Head1
    <3> QED
      BY <2>1, <2>2, <3>1, <3>2 DEF KeptBy, NewestBy, Updating, Storing
  <2>6. ASSUME NEW u \in Threads \ {t}, Kind(u) = k, AtFiles(u)
        PROVE  KeptBy(u)' /\ (birth.how # "cred" /\ k \notin moved' => NewestBy(u)')
    <3>1. ~Updating(u) /\ th[u].pc # "delete" /\ Head1(u).a # "set" /\ (k \in moved \/ birth.how = "cred")
      BY <1>o, <2>3, <2>6
    <3> QED
      BY <2>1, <2>2, <2>6, <3>1 DEF KeptBy, Head1, Kind, Updating
  <2> QED
    BY <1>1, <1>q, <2>1, <2>2, <2>3, <2>4, <2>5, <2>6
<1>11. CASE DeleteRest(t)
  <2>1. /\ th[t].pc = "delete" /\ UNCHANGED <<acked, moved, refused>>
    BY <1>11 DEF DeleteRest, past
  <2>2. /\ \A u \in Threads \ {t} : th'[u] = th[u]
        /\ th'[t].pc = "body" /\ th'[t].op = th[t].op
    BY <1>11, OneNext DEF DeleteRest
  <2>3. Updating(t) /\ acked[k] = 0
    BY <1>0, <1>1, <1>k, <2>1, Typed DEF KeptBy, PlanOK, Head1
  <2>4. KeptAt(k)' /\ NewestAt(k)'
    BY <1>1, <2>1, <2>3 DEF KeptAt, NewestAt
  <2>5. KeptBy(t)' /\ NewestBy(t)'
    BY <1>1, <1>k, <2>1, <2>2 DEF KeptBy, NewestBy, Updating, Storing
  <2>6. ASSUME NEW u \in Threads \ {t}, Kind(u) = k, AtFiles(u)
        PROVE  KeptBy(u)' /\ (birth.how # "cred" /\ k \notin moved' => NewestBy(u)')
    <3>1. ~Updating(u) /\ th[u].pc # "delete" /\ Head1(u).a # "set" /\ (k \in moved \/ birth.how = "cred")
      BY <1>o, <2>3, <2>6
    <3> QED
      BY <2>1, <2>2, <2>3, <2>6, <3>1 DEF KeptBy, Head1, Kind, Updating
  <2> QED
    BY <1>1, <1>q, <2>1, <2>2, <2>3, <2>4, <2>5, <2>6
<1> QED
  BY <1>2, <1>4, <1>5, <1>6, <1>7, <1>8, <1>9, <1>10, <1>11 DEF Secrets

LEMMA KeptStep ==
  ASSUME TypeInv, SettingsAssumption, Kept, Newest, SettingsNext
  PROVE  Kept' /\ Newest'
<1>k. /\ \A l \in Kinds : KeptAt(l) /\ (birth.how # "cred" /\ l \notin moved => NewestAt(l))
      /\ \A u \in Threads : KeptBy(u) /\ (birth.how # "cred" /\ Kind(u) \notin moved => NewestBy(u))
  BY DEF Kept, Newest
<1>c. calls \in Nat /\ acked \in [Kinds -> Nat] /\ UNCHANGED birth
  BY Constant DEF TypeInv, Types
\* A goroutine that comes to no file of a secret.
<1>q. ASSUME UNCHANGED <<stores, acked, moved, refused>>, calls' \in {calls, calls + 1},
             \A u \in Threads : \/ th'[u] = th[u]
                                \/ /\ ~AtFiles(u)'
                                   /\ Updating(u)' => th'[u].op = th[u].op \/ th'[u].op.n = calls + 1
      PROVE  Kept' /\ Newest'
  <2>1. ASSUME NEW l \in Kinds
        PROVE  KeptAt(l)' /\ (birth'.how # "cred" /\ l \notin moved' => NewestAt(l)')
    BY <1>k, <1>c, <1>q DEF KeptAt, NewestAt
  <2>2. ASSUME NEW u \in Threads
        PROVE  KeptBy(u)' /\ (birth'.how # "cred" /\ Kind(u)' \notin moved' => NewestBy(u)')
    <3>1. CASE th'[u] = th[u]
      BY <1>k, <1>c, <1>q, <3>1 DEF KeptBy, NewestBy, Updating, Kind, Head1
    <3>2. CASE /\ ~AtFiles(u)'
               /\ Updating(u)' => th'[u].op = th[u].op \/ th'[u].op.n = calls + 1
      BY <1>k, <1>c, <1>q, <3>2 DEF KeptBy, KeptAt, NewestBy, Updating, AtFiles, Storing
    <3> QED
      BY <1>q, <3>1, <3>2
  <2> QED
    BY <2>1, <2>2 DEF Kept, Newest
<1>1. ASSUME NEW t \in Threads, Load(t)
      PROVE  Kept' /\ Newest'
  BY <1>1, <1>q, LoadOnly DEF AtFiles, Updating, Updates, Loading, Storing
<1>2. ASSUME NEW t \in Threads, Secrets(t)
      PROVE  Kept' /\ Newest'
  BY <1>2, SecretsKept
<1>3. ASSUME NEW t \in Threads, Call(t)
      PROVE  Kept' /\ Newest'
  BY <1>3, <1>q, CallOnly, ZenonT(60) DEF AtFiles, Updating, Updates, Storing, Call, past
<1>4. ASSUME NEW t \in Threads, BodyDone(t) \/ Save(t) \/ SaveSign(t) \/ SaveFails(t)
      PROVE  Kept' /\ Newest'
  <2>1. UNCHANGED <<stores, acked, moved, refused, calls>>
    BY <1>4 DEF BodyDone, Save, SaveSign, SaveFails, past
  <2>2. /\ \A u \in Threads \ {t} : th'[u] = th[u]
        /\ th'[t].pc \in {"idle", "save", "saved", "load"} /\ (th'[t].op = th[t].op \/ th'[t].op.name = "none")
    <3>1. \/ Ended(t) \/ GoOn(t, "saved")
          \/ th' = [th EXCEPT ![t].pc = "save", ![t].cfg = Change(th[t].op, th[t].cfg)]
          \/ th' = [th EXCEPT ![t].pc = "load"]
      BY <1>4 DEF BodyDone, Save, SaveSign, SaveFails
    <3> QED
      BY <3>1, OneEnds, OneGoesOn DEF TypeInv, Types, ThreadRecs
  <2> QED
    BY <1>c, <1>q, <2>1, <2>2 DEF AtFiles, Updating, Updates, Storing
<1>5. ASSUME ServiceTick
      PROVE  Kept' /\ Newest'
  <2>1. \A u \in Threads : th'[u] = th[u] \/ (th'[u].pc = "load" /\ th'[u].op.name \in {"Reload", "Use"})
    BY <1>5 DEF ServiceTick, TypeInv, Types, Idle
  <2> QED
    BY <1>5, <1>q, <2>1 DEF ServiceTick, past, AtFiles, Updating, Updates, Storing
<1>6. ASSUME NEW p \in Processes, ProcessEnds(p)
      PROVE  Kept' /\ Newest'
  <2>1. \A u \in Threads : th'[u] = th[u] \/ th'[u] = Idle
    BY <1>6 DEF ProcessEnds
  <2> QED
    BY <1>6, <1>c, <1>q, <2>1 DEF ProcessEnds, past, AtFiles, Updating, Updates, Storing, Idle
<1> QED
  BY <1>1, <1>2, <1>3, <1>4, <1>5, <1>6 DEF SettingsNext

-----------------------------------------------------------------------------
(* The list and the secrets. *)

\* The service can read the secret of the destination.
Has == stores["secret"].service > 0 \/ stores["secret"].legacy > 0

\* t has deleted the secret of a destination it is about to take off the list.
Gone(t) ==
  /\ th[t].op.name = "DeleteDestination"
  /\ (th[t].pc = "body" /\ th[t].plan = <<>>) \/ th[t].pc = "save"

\* t has seen to the secret of a destination it is about to list.
Chosen(t) ==
  /\ th[t].op.name = "SaveDestination"
  /\ th[t].pc = "settle" \/ (th[t].pc = "body" /\ th[t].plan = <<>>) \/ th[t].pc = "save"

\* t is between the two files of a secret it sets.
Between(t) == Updating(t) /\ th[t].pc = "service" /\ Kind(t) = "secret"

\* An update that goes on to list a destination, or to keep it on the list, has
\* left its secret with the service.
ListedBy(t) ==
  /\ ~th[t].cfg.old /\ th[t].pc \notin {"migrate", "recovered"}
  /\ th[t].pc = "saved" => lock = t /\ file = th[t].cfg
  /\ th[t].op.name \in {"DeleteDestination", "Import"} /\ th[t].pc \in {"save", "saved"} =>
       th[t].cfg.dest = 0
  /\ Updating(t) /\ th[t].pc \in Settled \cup {"save"} /\ th[t].cfg.dest > 0 => Has \/ Gone(t)
  /\ Chosen(t) => Has
  /\ th[t].pc \in Storing /\ Kind(t) = "secret" =>
       Head1(t).a = "set" /\ (th[t].pc = "settle" => stores["secret"].service > 0)
  /\ th[t].pc = "delete" /\ Kind(t) = "secret" => stores["secret"].user = 0

\* Where ListedHasSecret says something.
Undisturbed ==
  faults = 0 /\ "secret" \notin moved /\ birth.how # "cred" /\ ~birth.old /\ corrupt = NoFile

\* The file of the user alone satisfies the window: it is there with that of the
\* service, or while t is between the two.
Listed ==
  Undisturbed =>
    /\ file # NoFile => ~file.old
    /\ file # NoFile /\ file.dest > 0 => Has \/ \E t \in Threads : Gone(t)
    /\ stores["secret"].user > 0 => Has \/ \E t \in Threads : Between(t)
    /\ \A t \in Threads : ListedBy(t)

LEMMA ListedTaken ==
  ASSUME TypeInv, Listed
  PROVE  ListedHasSecret
<1> SUFFICES ASSUME Undisturbed, file # NoFile, file.dest > 0
             PROVE  \/ Read("service", "secret") > 0
                    \/ \E t \in Views : th[t].op.name = "DeleteDestination"
  BY DEF ListedHasSecret, Undisturbed
<1>1. stores["secret"] \in Stores
  BY DEF TypeInv, Types, Kinds
<1>2. Has => Read("service", "secret") > 0
  BY <1>1 DEF Has, Read, Stores
<1>3. \A t \in Threads : Gone(t) => t \in Views
  BY DEF TypeInv, Alone, Updating, Updates, Gone
<1> QED
  BY <1>2, <1>3 DEF Listed, Gone

\* Only a failure, or a secret that leaves the credential manager, ends it.
LEMMA DisturbedForGood ==
  ASSUME TypeInv, SettingsNext, Undisturbed'
  PROVE  Undisturbed /\ ~Fails
<1>1. ~Fails
  BY DEF Undisturbed, Fails, TypeInv, Types
<1>2. moved \subseteq moved'
  <2>1. ASSUME NEW t \in Threads, Secrets(t)
        PROVE  moved \subseteq moved'
    BY <2>1 DEF Secrets, SetBegins, Need, MigrateSecret, WriteUser, WriteService, Settle,
       WriteFails,
       DeleteUser, DeleteRest, past, Move
  <2>2. ASSUME NEW t \in Threads, Call(t) \/ BodyDone(t) \/ Save(t) \/ SaveSign(t) \/ SaveFails(t)
        PROVE  moved \subseteq moved'
    BY <2>2 DEF Call, BodyDone, Save, SaveSign, SaveFails, past
  <2>3. ASSUME ServiceTick \/ \E p \in Processes : ProcessEnds(p)
        PROVE  moved \subseteq moved'
    BY <2>3 DEF ServiceTick, ProcessEnds, past
  <2> QED
    BY <2>1, <2>2, <2>3, LoadOnly DEF SettingsNext
<1> QED
  BY <1>1, <1>2, Constant DEF Undisturbed

LEMMA ListedFacts ==
  ASSUME TypeInv
  PROVE  /\ stores["secret"] \in Stores /\ "secret" \in Kinds
         /\ \A t, u \in Threads : Updating(t) /\ Updating(u) => t = u
         /\ \A t \in Threads : th[t].cfg \in Configs /\ th[t].op \in Ops /\ th[t].plan \in Seq(Acts)
         /\ \A t \in Threads : (Gone(t) \/ Chosen(t)) => Updating(t)
         /\ file # NoFile => file \in Configs
  BY DEF TypeInv, Types, Kinds, Alone, ThreadRecs, Gone, Chosen, Updating, Updates

\* Steps about secrets.
LEMMA SecretsListed ==
  ASSUME TypeInv, SettingsAssumption, Listed, Undisturbed, Undisturbed', NEW t \in Threads, Secrets(t), ~Fails
  PROVE  Listed'
<1>0. PICK k : k = Kind(t)
  OBVIOUS
<1>1. /\ k \in Kinds /\ stores[k] \in Stores /\ stores'[k] \in Stores /\ Head1(t) \in Acts
      /\ \A l \in Kinds \ {k} : stores'[l] = stores[l]
      /\ th[t].plan # <<>>
      /\ Head1(t).a \in {"set", "delete"} => Updating(t) /\ th[t].op.n \in 1..calls
      /\ th[t].pc \in Storing => th[t].val > 0
      /\ th[t].val \in Nat
  BY <1>0, SecretSteps
<1>2. /\ UNCHANGED <<file, sig, lock>>
      /\ th[t].pc \in Storing \cup {"body", "delete"}
      /\ \A u \in Threads \ {t} : th'[u] = th[u]
      /\ \/ /\ th'[t].pc \in Storing \cup {"body", "delete"}
            /\ th'[t].cfg = th[t].cfg /\ th'[t].op = th[t].op
            /\ th'[t].pc # "body" => th'[t].plan = th[t].plan
         \/ th'[t].pc = "idle" /\ th'[t].cfg = Empty /\ th'[t].op.name = "none"
  BY SecretsOnly
<1>3. /\ file # NoFile => ~file.old
      /\ file # NoFile /\ file.dest > 0 => Has \/ \E u \in Threads : Gone(u)
      /\ stores["secret"].user > 0 => Has \/ \E u \in Threads : Between(u)
      /\ \A u \in Threads : ListedBy(u)
  BY DEF Listed
<1>4. /\ stores["secret"] \in Stores /\ "secret" \in Kinds
      /\ \A u, v \in Threads : Updating(u) /\ Updating(v) => u = v
      /\ \A u \in Threads : (Gone(u) \/ Chosen(u)) => Updating(u)
  BY ListedFacts
<1>5. ~Empty.old /\ ~Gone(t)
  BY <1>1, <1>2 DEF Empty, Gone, Storing
\* The secret of the destination stays with the service.
<1>q. ASSUME Has => Has', stores'["secret"].user > 0 => Has' \/ \E u \in Threads : Between(u)',
             Chosen(t)' => Has',
             th'[t].pc \in Storing /\ Kind(t)' = "secret" =>
               Head1(t)'.a = "set" /\ (th'[t].pc = "settle" => stores'["secret"].service > 0),
             th'[t].pc = "delete" /\ Kind(t)' = "secret" => stores'["secret"].user = 0,
             stores["secret"].service > 0 => stores'["secret"].service > 0,
             \A u \in Threads \ {t} : th[u].pc = "delete" /\ Kind(u) = "secret" => stores'["secret"].user = 0
      PROVE  Listed'
  <2>1. \A u \in Threads : Gone(u) => Gone(u)'
    BY <1>2, <1>5 DEF Gone
  <2>2. ListedBy(t)'
    BY <1>2, <1>3, <1>5, <1>q DEF ListedBy, Updating, Updates, Settled, Storing
  <2>3. ASSUME NEW u \in Threads \ {t}
        PROVE  ListedBy(u)'
    <3>1. th'[u] = th[u] /\ Kind(u)' = Kind(u) /\ Head1(u)' = Head1(u) /\ ListedBy(u)
      BY <1>2, <1>3 DEF Kind, Head1
    <3>2. (Gone(u)' <=> Gone(u)) /\ (Chosen(u)' <=> Chosen(u)) /\ (Updating(u)' <=> Updating(u))
      BY <3>1 DEF Gone, Chosen, Updating
    <3> QED
      BY <1>2, <1>q, <3>1, <3>2 DEF ListedBy
  <2> QED
    BY <1>2, <1>3, <1>q, <2>1, <2>2, <2>3 DEF Listed
\* Another kind, or a step that leaves the store as it is.
<1>6. CASE k # "secret"
  <2>1. stores'["secret"] = stores["secret"]
    BY <1>1, <1>4, <1>6
  <2>2. Has' <=> Has
    BY <2>1 DEF Has
  <2>3. Fits(th[t].op, Head1(t)) /\ ~Between(t)
    BY <1>0, <1>1, <1>6, HeadTyped DEF Between
  <2>4. ~Chosen(t)'
    BY <1>0, <1>2, <1>6, <2>3 DEF Chosen, Fits, Act, Kind
  <2>5. \A u \in Threads : Between(u) => Between(u)'
    BY <1>2, <2>3 DEF Between, Updating, Kind, Head1
  <2>6. th'[t].pc \in Storing \cup {"delete"} => th'[t].plan = th[t].plan
    BY <1>2 DEF Storing
  <2>7. th'[t].pc \in Storing \cup {"delete"} => Kind(t)' = k
    BY <1>0, <2>6 DEF Kind, Head1
  <2> QED
    BY <1>3, <1>6, <1>q, <2>1, <2>2, <2>4, <2>5, <2>7 DEF ListedBy
<1>s. ASSUME k = "secret", Head1(t).a \in {"set", "delete"}, NEW u \in Threads \ {t}
      PROVE  ~Updating(u) /\ th[u].pc # "delete" /\ ~Between(u) /\ ~Gone(u) /\ ~Chosen(u)
  BY <1>1, <1>4, <1>s, Sole DEF Between
<1>7. CASE k = "secret" /\ SetBegins(t)
  <2>1. /\ th[t].pc = "body" /\ Head1(t).a = "set"
        /\ stores'[k] = [stores[k] EXCEPT !.cred = th[t].op.n]
    BY <1>0, <1>1, <1>7 DEF SetBegins, Doing, Kind, TypeInv, Types
  <2>2. th'[t].pc = "user" /\ th'[t].plan = th[t].plan
    BY <1>7, OneStarts DEF SetBegins
  <2>3. /\ stores'[k].user = stores[k].user /\ stores'[k].service = stores[k].service
        /\ stores'[k].legacy = stores[k].legacy
    BY <1>1, <2>1 DEF Stores
  <2>4. \A u \in Threads : Between(u) => Between(u)'
    BY <1>2, <2>1 DEF Between, Updating, Kind, Head1
  <2>5. \A u \in Threads : th[u].pc = "delete" /\ Kind(u) = "secret" => stores'["secret"].user = 0
    BY <1>3, <1>7, <2>3 DEF ListedBy
  <2> QED
    BY <1>3, <1>7, <1>q, <2>1, <2>2, <2>3, <2>4, <2>5 DEF Has, Chosen, Head1
<1>8. ASSUME k = "secret", UNCHANGED stores, th'[t].pc \in {"body", "idle"}, ~Between(t), Chosen(t)' => Has
      PROVE  Listed'
  <2>1. Has' <=> Has
    BY <1>8 DEF Has
  <2>2. \A u \in Threads : Between(u) => Between(u)'
    BY <1>2, <1>8 DEF Between, Updating, Kind, Head1
  <2>3. \A u \in Threads : th[u].pc = "delete" /\ Kind(u) = "secret" => stores'["secret"].user = 0
    BY <1>3, <1>8 DEF ListedBy
  <2> QED
    BY <1>3, <1>8, <1>q, <2>1, <2>2, <2>3 DEF Storing
<1>m. k = "secret" => ~Move(t, k)
  BY DEF Move, Undisturbed
<1>9. CASE k = "secret" /\ Need(t)
  <2>1. \/ NextAct(t) /\ Read(Program(t), "secret") > 0
        \/ Ended(t)
    BY <1>0, <1>9, <1>m DEF Need, Kind
  <2>2. th[t].pc = "body" /\ UNCHANGED stores
    BY <1>9 DEF Need, Doing
  <2>3. CASE Ended(t)
    BY <1>8, <1>9, <2>2, <2>3, OneEnds DEF Between, Chosen
  <2>4. CASE NextAct(t) /\ Read(Program(t), "secret") > 0
    <3>1. ASSUME Chosen(t)'
          PROVE  Has
      <4>1. Updating(t)
        BY <1>2, <2>2, <2>4, <3>1, OneNext DEF Chosen, Updating, Updates
      <4>2. \A u \in Threads : ~Between(u)
        BY <1>4, <2>2, <4>1 DEF Between
      <4> QED
        BY <1>3, <1>4, <2>4, <4>2 DEF Has, Read, Stores
    <3> QED
      BY <1>8, <1>9, <2>2, <2>4, <3>1, OneNext DEF Between
  <2> QED
    BY <2>1, <2>3, <2>4
<1>10. CASE k = "secret" /\ MigrateSecret(t)
  <2>1. NextAct(t) /\ th[t].pc = "body" /\ UNCHANGED stores /\ Head1(t).a = "migrate"
    BY <1>0, <1>10, <1>m DEF MigrateSecret, Kind, Doing
  <2>2. ~Chosen(t)'
    <3>1. th[t].op.name # "SaveDestination"
      BY <1>1, <2>1, HeadTyped DEF Fits, Act
    <3> QED
      BY <2>1, <3>1, OneNext DEF Chosen
  <2> QED
    BY <1>8, <1>10, <2>1, <2>2, OneNext DEF Between
<1>11. CASE k = "secret" /\ WriteUser(t)
  <2>1. /\ th[t].pc = "user" /\ stores'[k] = [stores[k] EXCEPT !.user = th[t].val]
    BY <1>0, <1>1, <1>11 DEF WriteUser, Kind, TypeInv, Types
  <2>2. th'[t].pc = "service" /\ th'[t].plan = th[t].plan /\ th'[t].op = th[t].op
    BY <1>11, OneGoesOn DEF WriteUser
  <2>3. stores'[k].service = stores[k].service /\ stores'[k].legacy = stores[k].legacy
    BY <1>1, <2>1 DEF Stores
  <2>4. Head1(t).a = "set" /\ Updating(t)
    BY <1>0, <1>1, <1>3, <1>11, <2>1 DEF ListedBy, Storing
  <2>5. Between(t)'
    BY <1>0, <1>11, <2>2, <2>4 DEF Between, Updating, Kind, Head1
  <2>6. \A u \in Threads \ {t} : th[u].pc # "delete"
    BY <1>11, <1>s, <2>4
  <2> QED
    BY <1>11, <1>q, <2>2, <2>3, <2>4, <2>5, <2>6 DEF Has, Chosen, Head1
<1>12. CASE k = "secret" /\ WriteService(t)
  <2>1. th[t].pc = "service" /\ stores'[k] = [stores[k] EXCEPT !.service = th[t].val]
    BY <1>0, <1>1, <1>12 DEF WriteService, Kind, TypeInv, Types
  <2>2. th'[t].pc = "settle" /\ th'[t].plan = th[t].plan /\ th'[t].op = th[t].op
    BY <1>12, OneGoesOn DEF WriteService
  <2>3. stores'[k].service > 0
    BY <1>1, <2>1 DEF Stores, Storing
  <2>4. Head1(t).a = "set"
    BY <1>0, <1>1, <1>3, <1>12, <2>1 DEF ListedBy, Storing
  <2>6. \A u \in Threads \ {t} : th[u].pc # "delete"
    BY <1>12, <1>s, <2>4
  <2> QED
    BY <1>12, <1>q, <2>2, <2>3, <2>4, <2>6 DEF Has, Head1
<1>13. CASE k = "secret" /\ Settle(t)
  <2>1. th[t].pc = "settle" /\ stores'[k] = [stores[k] EXCEPT !.legacy = 0, !.cred = 0]
    BY <1>0, <1>1, <1>13 DEF Settle, Kind, TypeInv, Types
  <2>2. th'[t].pc = "body"
    BY <1>13, OneNext DEF Settle
  <2>3. stores'[k].service = stores[k].service /\ stores[k].service > 0 /\ Head1(t).a = "set"
    BY <1>0, <1>1, <1>3, <1>13, <2>1 DEF Stores, ListedBy, Storing
  <2>6. \A u \in Threads \ {t} : th[u].pc # "delete"
    BY <1>13, <1>s, <2>3
  <2> QED
    BY <1>13, <1>q, <2>2, <2>3, <2>6 DEF Has, Storing
<1>14. CASE k = "secret" /\ DeleteUser(t)
  <2>1. /\ th[t].pc = "body" /\ Head1(t).a = "delete" /\ stores'[k] = [stores[k] EXCEPT !.user = 0]
    BY <1>0, <1>1, <1>14 DEF DeleteUser, Doing, Kind, TypeInv, Types
  <2>2. th'[t].pc = "delete"
    BY <1>14, OneGoesOn DEF DeleteUser
  <2>3. /\ stores'[k].service = stores[k].service /\ stores'[k].legacy = stores[k].legacy
        /\ stores'[k].user = 0
    BY <1>1, <2>1 DEF Stores
  <2> QED
    BY <1>14, <1>q, <2>2, <2>3 DEF Has, Chosen, Storing
<1>15. CASE k = "secret" /\ DeleteRest(t)
  <2>1. /\ th[t].pc = "delete" /\ stores'[k] = [NoSecret EXCEPT !.user = stores[k].user]
    BY <1>0, <1>1, <1>15 DEF DeleteRest, Kind, TypeInv, Types
  <2>2. /\ th'[t].pc = "body" /\ th'[t].plan = Tail(th[t].plan) /\ th'[t].op = th[t].op
        /\ th'[t].cfg = th[t].cfg
    BY <1>15, OneNext DEF DeleteRest
  <2>3. stores'[k].user = 0
    BY <1>0, <1>3, <1>15, <2>1 DEF ListedBy, NoSecret
  <2>4. Head1(t).a = "delete" /\ th[t].op.name = "DeleteDestination" /\ Len(th[t].plan) <= 1
    <3>1. PlanOK(th[t]) /\ Fits(th[t].op, Head1(t))
      BY <1>1, Typed, HeadTyped
    <3>2. Head1(t).a = "delete"
      BY <2>1, <3>1 DEF PlanOK, Head1
    <3>3. Head1(t) = Act("delete", "secret")
      BY <1>0, <1>1, <1>15, <3>2 DEF Act, Acts, Kind
    <3> QED
      BY <3>1, <3>2, <3>3 DEF Fits, PlanOK
  <2>5. Gone(t)'
    <3>1. Len(Tail(th[t].plan)) < 1 /\ Tail(th[t].plan) \in Seq(Acts)
      BY <1>1, <2>4, HeadTyped
    <3>2. Tail(th[t].plan) = <<>>
      BY <3>1
    <3> QED
      BY <2>2, <2>4, <3>2 DEF Gone
  <2>6. ListedBy(t)'
    BY <1>2, <1>3, <2>2, <2>4, <2>5 DEF ListedBy, Chosen, Storing
  <2>7. ASSUME NEW u \in Threads \ {t}
        PROVE  ListedBy(u)'
    <3>1. th'[u] = th[u] /\ Kind(u)' = Kind(u) /\ Head1(u)' = Head1(u) /\ ListedBy(u)
      BY <1>2, <1>3 DEF Kind, Head1
    <3>2. ~Updating(u) /\ ~Chosen(u) /\ th[u].pc # "delete"
      BY <1>15, <1>s, <2>4
    <3>3. th[u].pc \in Storing => Head1(u).a # "set"
      BY <1>1, <2>4, Sole, Typed DEF PlanOK
    <3> QED
      BY <1>2, <3>1, <3>2, <3>3 DEF ListedBy, Updating, Chosen
  <2> QED
    BY <1>2, <1>3, <1>15, <2>3, <2>5, <2>6, <2>7 DEF Listed
<1> QED
  BY <1>6, <1>7, <1>9, <1>10, <1>11, <1>12, <1>13, <1>14, <1>15 DEF Secrets, WriteFails

LEMMA PlanToDo ==
  ASSUME NEW op, NEW cfg, op.name = "SaveDestination"
  PROVE  PlanOf(op, cfg) # <<>>
<1>1. PlanOf(op, cfg) = DestinationPlan(op.given)
  BY DEF PlanOf
<1>2. DestinationPlan(op.given) \in {<<Act("set", "secret")>>, <<Act("need", "secret")>>}
  BY DEF DestinationPlan
<1>3. \A x : <<x>> # <<>>
  OBVIOUS
<1> QED
  BY <1>1, <1>2, <1>3

LEMMA ListedStep ==
  ASSUME TypeInv, SettingsAssumption, Listed, SettingsNext
  PROVE  Listed'
<1> SUFFICES ASSUME Undisturbed'
             PROVE  Listed'
  BY DEF Listed
<1>0. Undisturbed /\ ~Fails
  BY DisturbedForGood
<1>3. /\ file # NoFile => ~file.old
      /\ file # NoFile /\ file.dest > 0 => Has \/ \E u \in Threads : Gone(u)
      /\ stores["secret"].user > 0 => Has \/ \E u \in Threads : Between(u)
      /\ \A u \in Threads : ListedBy(u)
  BY <1>0 DEF Listed
<1>4. /\ stores["secret"] \in Stores /\ "secret" \in Kinds
      /\ \A u, v \in Threads : Updating(u) /\ Updating(v) => u = v
      /\ \A u \in Threads : th[u].cfg \in Configs /\ th[u].op \in Ops /\ th[u].plan \in Seq(Acts)
      /\ \A u \in Threads : (Gone(u) \/ Chosen(u)) => Updating(u)
      /\ file # NoFile => file \in Configs
  BY ListedFacts
<1>a. ~Empty.old /\ Empty.dest = 0 /\ Nobody \notin Threads /\ corrupt = NoFile /\ NoFile \notin Configs
  BY <1>0 DEF Empty, SettingsAssumption, Threads, Undisturbed
\* A step about no secret, of a goroutine that is in none.
<1>q. ASSUME UNCHANGED stores, NEW t \in Threads, \A u \in Threads \ {t} : th'[u] = th[u],
             ~AtFiles(t), ~AtFiles(t)', ListedBy(t)',
             \A u \in Threads \ {t} : th[u].pc = "saved" => lock' = u /\ file' = file,
             file' # NoFile => ~file'.old,
             file' # NoFile /\ file'.dest > 0 => Has \/ \E u \in Threads : Gone(u)'
      PROVE  Listed'
  <2>1. Has' <=> Has
    BY <1>q DEF Has
  <2>2. \A u \in Threads : Between(u) => Between(u)'
    BY <1>q DEF Between, AtFiles, Updating, Kind, Head1, Storing
  <2>3. ASSUME NEW u \in Threads \ {t}
        PROVE  ListedBy(u)'
    <3>1. th'[u] = th[u] /\ Kind(u)' = Kind(u) /\ Head1(u)' = Head1(u) /\ ListedBy(u)
      BY <1>3, <1>q DEF Kind, Head1
    <3>2. (Gone(u)' <=> Gone(u)) /\ (Chosen(u)' <=> Chosen(u)) /\ (Updating(u)' <=> Updating(u))
      BY <3>1 DEF Gone, Chosen, Updating
    <3> QED
      BY <1>q, <2>1, <3>1, <3>2 DEF ListedBy
  <2> QED
    BY <1>3, <1>q, <2>1, <2>2, <2>3 DEF Listed
\* The same, of a goroutine that does not write the configuration.
<1>r. ASSUME UNCHANGED <<stores, file>>, NEW t \in Threads, \A u \in Threads \ {t} : th'[u] = th[u],
             ~AtFiles(t), ~AtFiles(t)', ListedBy(t)', Gone(t) => Gone(t)',
             \A u \in Threads \ {t} : lock = u => lock' = u
      PROVE  Listed'
  <2>1. \A u \in Threads : Gone(u) => Gone(u)'
    BY <1>r DEF Gone
  <2>2. \A u \in Threads \ {t} : th[u].pc = "saved" => lock' = u /\ file' = file
    BY <1>3, <1>r DEF ListedBy
  <2> QED
    BY <1>3, <1>q, <1>r, <2>1, <2>2
<1>i. ASSUME NEW t \in Threads, Ended(t), ~AtFiles(t), ~Gone(t), UNCHANGED <<stores, file>>,
             \A u \in Threads \ {t} : lock = u => lock' = u
      PROVE  Listed'
  <2>1. ListedBy(t)' /\ ~AtFiles(t)'
    BY <1>a, <1>i, OneEnds DEF ListedBy, AtFiles, Storing, Updating, Updates, Chosen
  <2> QED
    BY <1>i, <1>r, <2>1, OneEnds
<1>5. ASSUME NEW t \in Threads, Load(t)
      PROVE  Listed'
  <2>0. /\ UNCHANGED stores /\ ~AtFiles(t) /\ ~Gone(t) /\ ListedBy(t)
        /\ \A u \in Threads \ {t} : th'[u] = th[u]
        /\ ~AtFiles(t)' /\ (th'[t].op = th[t].op \/ th'[t].op.name = "none")
        /\ th'[t].pc = "body" => th'[t].plan = PlanOf(th[t].op, th[t].cfg)
        /\ th'[t].pc \in Loading \cup {"body", "idle"}
    BY <1>3, <1>5, LoadOnly DEF AtFiles, Gone, Loading, Storing
  <2>c. ~Chosen(t)'
    BY <2>0, PlanToDo DEF Chosen, Loading
  <2>d. ASSUME ~th'[t].cfg.old, th'[t].pc \notin {"migrate", "recovered"},
               Updating(t) /\ th'[t].pc \in Settled /\ th'[t].cfg.dest > 0 => Has
        PROVE  ListedBy(t)'
    <3>1. Has' <=> Has
      BY <2>0 DEF Has
    <3>2. th'[t].pc \notin Storing \cup {"save", "saved", "delete"}
      BY <2>0 DEF Loading, Storing
    <3> QED
      BY <2>0, <2>c, <2>d, <3>1, <3>2 DEF ListedBy, Updating, Updates
  <2>1. CASE ReadFile(t)
    <3>1. /\ th'[t].pc \in {"create", "stat"} /\ UNCHANGED <<file, lock>>
          /\ th'[t].pc = "stat" => file # NoFile /\ th'[t].cfg = file
          /\ th'[t].pc = "create" => th'[t].cfg = Empty
      BY <2>1 DEF ReadFile, files, TypeInv, Types, ThreadRecs
    <3>2. ASSUME Updating(t), th'[t].pc \in Settled, th'[t].cfg.dest > 0
          PROVE  Has
      <4>1. file # NoFile /\ file.dest > 0
        BY <3>1, <3>2 DEF Settled, Storing
      <4> QED
        BY <1>3, <1>4, <2>0, <3>2, <4>1
    <3>3. ListedBy(t)'
      BY <1>3, <1>a, <2>d, <3>1, <3>2
    <3> QED
      BY <1>r, <2>0, <3>1, <3>3
  <2>2. CASE CreateDefault(t)
    <3>1. /\ th'[t].pc \in {"failed", "sign", "stat"} /\ lock = Nobody
          /\ th'[t].pc = "failed" => th'[t].cfg = th[t].cfg /\ file' = file
          /\ th'[t].pc # "failed" => th'[t].cfg = file' /\ file' = IF file = NoFile THEN Empty ELSE file
      BY <2>2 DEF CreateDefault, GoOn, TypeInv, Types, ThreadRecs
    <3>2. ASSUME Updating(t), th'[t].pc \in Settled, th'[t].cfg.dest > 0
          PROVE  Has
      <4>1. file # NoFile /\ file.dest > 0
        BY <1>a, <3>1, <3>2 DEF Settled, Storing
      <4> QED
        BY <1>3, <1>4, <2>0, <3>2, <4>1
    <3>3. ListedBy(t)'
      BY <1>3, <1>a, <2>0, <2>d, <3>1, <3>2 DEF ListedBy
    <3>4. \A u \in Threads \ {t} : th[u].pc = "saved" => lock' = u /\ file' = file
      BY <1>3, <1>a, <3>1 DEF ListedBy
    <3>5. file' # NoFile => ~file'.old
      BY <1>3, <1>a, <3>1
    <3>6. file' # NoFile /\ file'.dest > 0 => Has \/ \E u \in Threads : Gone(u)'
      <4>1. \A u \in Threads : Gone(u) => Gone(u)'
        BY <2>0 DEF Gone
      <4> QED
        BY <1>3, <1>a, <3>1, <4>1
    <3> QED
      BY <1>q, <2>0, <3>3, <3>4, <3>5, <3>6
  <2>3. ASSUME UNCHANGED file, th'[t].cfg = th[t].cfg,
               th'[t].pc \notin {"migrate", "recovered"},
               th'[t].pc \in Settled => th[t].pc \in Settled,
               \A u \in Threads \ {t} : lock = u => lock' = u
        PROVE  Listed'
    <3>1. ListedBy(t)'
      BY <2>0, <2>3, <2>d DEF ListedBy
    <3> QED
      BY <1>r, <2>0, <2>3, <3>1
  <2>4. CASE Stat(t) \/ Ensure(t) \/ Sign(t)
    <3>1. \E l \in {"ensure", "loaded", "failed"} : GoOn(t, l)
      BY <2>0, <2>4 DEF Stat, Ensure, Sign, Parsed, ListedBy
    <3>2. th'[t].cfg = th[t].cfg /\ th'[t].pc \in {"ensure", "loaded", "failed"}
      BY <3>1, OneGoesOn
    <3>3. th[t].pc \in {"stat", "ensure", "sign"} /\ UNCHANGED <<file, lock>>
      BY <2>4 DEF Stat, Ensure, Sign, files, locks
    <3> QED
      BY <2>3, <3>2, <3>3 DEF Settled
  <2>5. CASE Loaded(t)
    <3>1. th'[t].cfg = th[t].cfg /\ th'[t].pc \in {"recover", "body"} /\ th[t].pc = "loaded"
      BY <2>5 DEF Loaded, TypeInv, Types, ThreadRecs
    <3>2. UNCHANGED file /\ \A u \in Threads \ {t} : lock = u => lock' = u
      BY <2>5 DEF Loaded, Unlock, files
    <3> QED
      BY <2>3, <3>1, <3>2 DEF Settled
  <2>6. CASE LoadFailed(t)
    <3>1. Ended(t) \/ GoOn(t, "recover")
      BY <2>6 DEF LoadFailed
    <3>2. UNCHANGED file /\ \A u \in Threads \ {t} : lock = u => lock' = u
      BY <2>6 DEF LoadFailed, Unlock, files
    <3> QED
      BY <1>i, <2>0, <2>3, <3>1, <3>2, OneGoesOn DEF Settled, Storing
  <2>7. CASE Recover(t)
    <3>1. /\ th' = [th EXCEPT ![t].pc = "load", ![t].again = TRUE]
          /\ UNCHANGED <<file, lock>>
      BY <1>a, <2>7 DEF Recover, QuarantineScore
    <3>2. th'[t].cfg = th[t].cfg /\ th'[t].pc = "load"
      BY <3>1 DEF TypeInv, Types, ThreadRecs
    <3> QED
      BY <2>3, <3>1, <3>2 DEF Settled, Storing
  <2> QED
    BY <1>5, <2>0, <2>1, <2>2, <2>4, <2>5, <2>6, <2>7 DEF Load, Migrate, RecoverSign, ListedBy
<1>6. ASSUME NEW t \in Threads, Call(t)
      PROVE  Listed'
  <2>1. ~AtFiles(t) /\ ~AtFiles(t)' /\ ~Gone(t)
    BY <1>6, CallOnly DEF AtFiles, Gone, Storing
  <2>2. ListedBy(t)'
    BY <1>6, CallOnly DEF ListedBy, Updating, Updates, Settled, Storing, Chosen
  <2> QED
    BY <1>6, <1>r, <2>1, <2>2, CallOnly DEF Call, files
<1>7. ASSUME NEW t \in Threads, BodyDone(t)
      PROVE  Listed'
  <2>1. UNCHANGED <<stores, file, lock>> /\ th[t].pc = "body" /\ th[t].plan = <<>> /\ ~AtFiles(t)
    BY <1>7 DEF BodyDone, files, AtFiles, Storing
  <2>2. CASE ~Updating(t)
    <3>1. Ended(t) /\ ~Gone(t)
      BY <1>4, <1>7, <2>2 DEF BodyDone, Updating
    <3> QED
      BY <1>i, <2>1, <3>1
  <2>3. CASE Updating(t)
    <3>1. /\ th'[t].pc = "save" /\ th'[t].op = th[t].op /\ th'[t].cfg = Change(th[t].op, th[t].cfg)
          /\ \A u \in Threads \ {t} : th'[u] = th[u]
      BY <1>7, <2>3 DEF BodyDone, Updating, TypeInv, Types, ThreadRecs
    <3>2. ~th'[t].cfg.old /\ th[t].op.name # "Import"
      BY <1>3, <1>4, <2>3, <3>1, Changed DEF ListedBy, Updating, Updates
    <3>3. th[t].op.name = "DeleteDestination" => th'[t].cfg.dest = 0
      BY <1>4, <3>1 DEF Change, Configs
    <3>4. th[t].op.name \notin {"DeleteDestination", "SaveDestination"} =>
            th'[t].cfg.dest = th[t].cfg.dest /\ ~Gone(t)
      BY <1>4, <3>1 DEF Change, Configs, Gone
    <3>5. th[t].op.name = "SaveDestination" => Has
      BY <1>3, <2>1 DEF ListedBy, Chosen
    <3>6. (Has' <=> Has) /\ (Gone(t) => Gone(t)')
      BY <2>1, <3>1 DEF Has, Gone
    <3>7. th'[t].cfg.dest > 0 => Has
      BY <1>3, <2>1, <2>3, <3>3, <3>4, <3>5, <1>4 DEF ListedBy, Settled, Configs
    <3>8. ListedBy(t)' /\ ~AtFiles(t)'
      BY <3>1, <3>2, <3>3, <3>5, <3>6, <3>7 DEF ListedBy, AtFiles, Storing, Updating, Chosen
    <3> QED
      BY <1>r, <2>1, <3>1, <3>6, <3>8
  <2> QED
    BY <2>2, <2>3
<1>8. ASSUME NEW t \in Threads, Save(t)
      PROVE  Listed'
  <2>1. /\ th[t].pc = "save" /\ lock = Nobody /\ lock' = t /\ file' = th[t].cfg /\ UNCHANGED stores
        /\ \A u \in Threads \ {t} : th'[u] = th[u]
        /\ th'[t].pc = "saved" /\ th'[t].op = th[t].op /\ th'[t].cfg = th[t].cfg
    BY <1>8, OneGoesOn DEF Save
  <2>2. ListedBy(t)' /\ ~AtFiles(t) /\ ~AtFiles(t)'
    BY <1>3, <2>1 DEF ListedBy, AtFiles, Storing, Updating, Settled, Chosen
  <2>3. \A u \in Threads \ {t} : th[u].pc # "saved"
    BY <1>3, <1>a, <2>1 DEF ListedBy
  <2>4. th[t].cfg.dest > 0 => Has
    <3>1. Updating(t) \/ th[t].op.name = "Import"
      BY <2>1, Typed DEF PlanOK, Updating
    <3>2. Gone(t) => th[t].cfg.dest = 0
      BY <1>3, <2>1 DEF ListedBy, Gone
    <3> QED
      BY <1>3, <1>4, <2>1, <3>1, <3>2 DEF ListedBy
  <2> QED
    BY <1>3, <1>q, <2>1, <2>2, <2>3, <2>4 DEF ListedBy
<1>9. ASSUME NEW t \in Threads, SaveSign(t)
      PROVE  Listed'
  <2>1. /\ UNCHANGED <<stores, file>> /\ th[t].pc = "saved" /\ ~AtFiles(t) /\ ~Gone(t)
        /\ \A u \in Threads \ {t} : lock = u => lock' = u
    BY <1>9 DEF SaveSign, Unlock, AtFiles, Gone, Storing
  <2>2. CASE Ended(t)
    BY <1>i, <2>1, <2>2
  <2>3. CASE th' = [th EXCEPT ![t].pc = "load"]
    <3>1. /\ th'[t].pc = "load" /\ th'[t].cfg = th[t].cfg /\ \A u \in Threads \ {t} : th'[u] = th[u]
      BY <2>3 DEF TypeInv, Types, ThreadRecs
    <3>2. ListedBy(t)' /\ ~AtFiles(t)'
      BY <1>3, <3>1 DEF ListedBy, AtFiles, Storing, Settled, Chosen
    <3> QED
      BY <1>r, <2>1, <3>1, <3>2
  <2> QED
    BY <1>9, <2>2, <2>3 DEF SaveSign
<1>10. ASSUME ServiceTick
       PROVE  Listed'
  <2>1. /\ Ticker \in Threads /\ UNCHANGED <<stores, file, lock>> /\ th[Ticker].pc = "idle"
        /\ \A u \in Threads \ {Ticker} : th'[u] = th[u]
        /\ th'[Ticker].pc = "load" /\ th'[Ticker].cfg = Empty /\ th'[Ticker].op.name \in {"Reload", "Use"}
    BY <1>10 DEF ServiceTick, TypeInv, Types, Idle, Threads, files, locks
  <2>2. ListedBy(Ticker)' /\ ~AtFiles(Ticker) /\ ~AtFiles(Ticker)' /\ ~Gone(Ticker)
    BY <1>a, <2>1 DEF ListedBy, AtFiles, Storing, Settled, Chosen, Gone
  <2> QED
    BY <1>r, <2>1, <2>2
<1> QED
  BY <1>0, <1>5, <1>6, <1>7, <1>8, <1>9, <1>10, SecretsListed DEF SettingsNext, SaveFails,
     ProcessEnds

-----------------------------------------------------------------------------
(* The theorems. *)

\* The first files and secrets.
LEMMA InitSettings ==
  ASSUME SettingsAssumption, SettingsInit
  PROVE  Signed /\ Updated /\ Kept /\ Newest /\ Listed
<1>1. PICK how \in Born, listed \in BOOLEAN, old \in BOOLEAN, there \in BOOLEAN, signed \in BOOLEAN :
    /\ (how = "none") => ~listed
    /\ old => listed
    /\ ~there => (~listed /\ ~signed)
    /\ file = IF there THEN [Empty EXCEPT !.dest = IF listed THEN 1 ELSE 0, !.old = old] ELSE NoFile
    /\ sig = IF signed THEN file ELSE NoFile
    /\ corrupt \in Corrupts
    /\ stores = [k \in Kinds |-> IF k = "passphrase" /\ how = "legacy" THEN NoSecret ELSE BornStore(how)]
    /\ birth = [how |-> how, old |-> old, signed |-> signed]
    /\ want = IF there THEN file ELSE Empty
    /\ acked = [k \in Kinds |-> IF how = "none" \/ (k = "passphrase" /\ how = "legacy") THEN 0 ELSE 1]
    /\ moved = {} /\ refused = {} /\ imported = FALSE
    /\ busy = Nobody /\ lock = Nobody
    /\ mu = [p \in Processes |-> Nobody]
    /\ th = [t \in Threads |-> Idle]
    /\ calls = 1 /\ faults = 0
  BY Zenon DEF SettingsInit
<1> DEFINE first == [Empty EXCEPT !.dest = IF listed THEN 1 ELSE 0, !.old = old]
<1>2. first \in Configs /\ first.old = old /\ first.dest = (IF listed THEN 1 ELSE 0)
      /\ Empty \in Configs /\ ~Empty.old /\ NoFile \notin Configs /\ Nobody \notin Threads
  BY DEF Empty, Configs, SettingsAssumption, Threads
<1>3. \A t \in Threads : th[t] = Idle
  BY <1>1
<1>4. file = (IF there THEN first ELSE NoFile) /\ birth.old = old /\ birth.how = how /\ birth.signed = signed
  BY <1>1
<1> HIDE DEF first
<1>5. how \in Births
  BY DEF SettingsAssumption, Births
<1>6. ASSUME NEW k \in Kinds
      PROVE  KeptAt(k) /\ (how # "cred" => NewestAt(k))
  <2>1. /\ stores[k] = IF k = "passphrase" /\ how = "legacy" THEN NoSecret ELSE BornStore(how)
        /\ acked[k] = IF how = "none" \/ (k = "passphrase" /\ how = "legacy") THEN 0 ELSE 1
        /\ calls = 1
    BY <1>1
  <2> QED
    BY <1>5, <2>1 DEF KeptAt, NewestAt, Held, BornStore, NoSecret, Births
<1>7. Signed
  BY <1>1, <1>2, <1>3, <1>4 DEF Signed, SignedBy, Idle
<1>8. Updated
  BY <1>1, <1>2, <1>3, <1>4 DEF Updated, UpdatedBy, Idle, Updating, Updates, Settled, Storing
<1>9. Kept /\ Newest
  BY <1>3, <1>4, <1>6 DEF Kept, Newest, KeptBy, NewestBy, Idle, Updating, Updates, Storing
<1>10. Listed
  <2>1. \A t \in Threads : ListedBy(t)
    BY <1>2, <1>3 DEF ListedBy, Idle, Updating, Updates, Storing, Settled, Chosen
  <2>2. how \in {"files", "legacy"} => Has
    BY <1>1 DEF Has, BornStore, NoSecret, Kinds
  <2>3. how \notin {"files", "legacy"} => stores["secret"].user = 0
    BY <1>1, <1>5 DEF BornStore, NoSecret, Births, Kinds
  <2> QED
    BY <1>1, <1>2, <1>4, <1>5, <2>1, <2>2, <2>3 DEF Listed, Undisturbed, Births
<1> QED
  BY <1>7, <1>8, <1>9, <1>10

LEMMA StutterSettings ==
  ASSUME Signed, Updated, Kept, Newest, Listed, UNCHANGED settings
  PROVE  Signed' /\ Updated' /\ Kept' /\ Newest' /\ Listed'
<1>1. Signed' /\ Updated'
  BY DEF Signed, SignedBy, Updated, UpdatedBy, Updating, settings, files, locks, past
<1>2. Kept' /\ Newest'
  BY DEF Kept, KeptAt, KeptBy, Newest, NewestAt, NewestBy, Updating, Kind, Head1, settings,
     files, locks, past
<1>3. Listed'
  BY DEF Listed, ListedBy, Undisturbed, Has, Gone, Chosen, Between, Updating, Kind, Head1,
     settings, files, locks, past
<1> QED
  BY <1>1, <1>2, <1>3

LEMMA SettingsInvariant ==
  ASSUME SettingsAssumption
  PROVE  SettingsSpec => [](TypeInv /\ Signed /\ Updated /\ Kept /\ Newest /\ Listed)
<1> DEFINE Inv == TypeInv /\ Signed /\ Updated /\ Kept /\ Newest /\ Listed
<1>1. SettingsInit => Inv
  BY InitTypes, InitSettings
<1>2. Inv /\ [SettingsNext]_settings => Inv'
  BY StepTypes, SignedStep, UpdatedStep, KeptStep, ListedStep, StutterSettings
<1> QED
  BY <1>1, <1>2, PTL DEF SettingsSpec

(* No update of either program is lost, whatever else they do: the file is   *)
(* what all updates written so far add up to (Store.Update, config.Save).    *)
THEOREM UpdatesAddUp ==
  ASSUME SettingsAssumption
  PROVE  SettingsSpec => []NoUpdateLost
<1>1. TypeInv /\ Updated => NoUpdateLost
  BY DEF Updated, NoUpdateLost
<1> QED
  BY <1>1, SettingsInvariant, PTL

(* The signature belongs to the file whenever nobody has the data lock, so   *)
(* the next Load accepts it (saveUnlocked, ensureConfigSignature).           *)
THEOREM SignatureOfTheFile ==
  ASSUME SettingsAssumption
  PROVE  SettingsSpec => []SignatureMatches
<1>1. Signed => SignatureMatches
  BY DEF Signed, SignatureMatches
<1> QED
  BY <1>1, SettingsInvariant, PTL

(* A secret that a call has acknowledged, or a newer one, is what both       *)
(* programs read, between the two files, after a crash and after a write     *)
(* that failed (writeDPAPISecret, SetSecret, DeleteSecret).                  *)
THEOREM SecretsStay ==
  ASSUME SettingsAssumption
  PROVE  SettingsSpec => []SecretSurvives
  BY SettingsInvariant, SecretTaken, PTL

(* A destination of the file has a secret that the service can read, or is   *)
(* about to be taken off the list (Store.SaveDestination).                   *)
THEOREM ListedWithSecret ==
  ASSUME SettingsAssumption
  PROVE  SettingsSpec => []ListedHasSecret
  BY SettingsInvariant, ListedTaken, PTL
=============================================================================
