------------------------------ MODULE MCWindow ------------------------------
(* Small instances for TLC of the parts of the window that share no state:   *)
(* the settings, the control of runs and of restores, what a restore writes, *)
(* and due times.  A behaviour is one of one part; the others stay as they   *)
(* are, so the states are the sum and not the product of those of the parts. *)
EXTENDS Settings, RunControl, RestoreControl, Restore, DueTimes, TLC

CONSTANTS v1, v2, j1, j2

VARIABLE part

parts == <<settings, control, restoring, writing, due>>

ASSUME WindowAssumption ==
  /\ SettingsAssumption
  /\ RunControlAssumption
  /\ RestoreControlAssumption
  /\ RestoreAssumption
  /\ DueTimesAssumption

MCCorrupts ==
  {NoFile} \cup [cfg : {[dest |-> 1, job |-> 1, set |-> 0, old |-> FALSE]}, valid : BOOLEAN]

\* Twice a day at the edges of it, and once in the middle; by the week on
\* some days or on none; every mode of full runs.
MCSchedules ==
  [type : {"", "daily", "weekly", "startup"}, times : {{}, {0, 4}, {1, 7}},
   days : {{}, {1, 3, 7}}, mode : {"", "never"}, fullday : {0}, anchor : {-1}]
    \cup [type : {"daily", "weekly"}, times : {{3}}, days : {{2, 7}},
          mode : {"weekly", "biweekly", "monthly"}, fullday : {0, 2, 4}, anchor : {-1, 2}]

Docs == <<"C", "docs">>
Work == <<"C", "work">>

\* One source with a folder of its own name in it, and a second one.
MCSources == {<<Docs>>, <<Docs, Work>>}

MCDisk ==
  {Docs \o <<"a">>, Docs \o <<"docs", "b">>, Docs \o <<"docs", "a">>, Work \o <<"a">>}

\* The original place, and a folder named like a selected one.
MCRoots == {<<>>, <<"E", "docs">>}

MCShifts == {-1, 0, 1}

\* A part that is not looked at stays in one of its initial states.
NoSettings ==
  SettingsInit /\ file = NoFile /\ corrupt = NoFile /\ birth.how = "none"

NoWrites ==
  /\ sources = <<Docs>>
  /\ req = [kind |-> "zip", op |-> "batch", sel |-> {<<"a">>}, root |-> <<>>, mode |-> "ask"]
  /\ force = FALSE /\ had = {}
  /\ RestoreInit

NoDue ==
  /\ sched = [type |-> "startup", times |-> {}, days |-> {}, mode |-> "never", fullday |-> 0,
              anchor |-> NoAnchor]
  /\ shift = -1 /\ tick = DayLen

\* A quarantined file is looked at with secrets in files only, and beside a
\* file with its signature or none at all.
SomeSettings ==
  /\ SettingsInit
  /\ corrupt # NoFile => birth.how = "files" /\ (birth.signed \/ file = NoFile)

WindowInit ==
  /\ Init /\ RestoresInit
  /\ \/ part \in {"runs", "restores"} /\ NoSettings /\ NoWrites /\ NoDue
     \/ part = "settings" /\ SomeSettings /\ NoWrites /\ NoDue
     \/ part = "writes" /\ NoSettings /\ RestoreInit /\ NoDue
     \/ part = "due" /\ NoSettings /\ NoWrites /\ DueInit

WindowNext ==
  /\ UNCHANGED part
  /\ \/ part = "settings" /\ SettingsNext /\ UNCHANGED <<control, restoring, writing, due>>
     \/ part = "runs" /\ Next /\ UNCHANGED <<settings, restoring, writing, due>>
     \/ part = "restores" /\ RestoresNext /\ UNCHANGED <<settings, control, writing, due>>
     \/ part = "writes" /\ RestoreNext /\ UNCHANGED <<settings, control, restoring, due>>
     \/ part = "due" /\ DueTick /\ UNCHANGED <<settings, control, restoring, writing>>

WindowSpec == WindowInit /\ [][WindowNext]_<<part, parts>>

Symmetry == Permutations(Views)
=============================================================================
