--------------------------- MODULE RestoreControl ---------------------------
(***************************************************************************)
(* Restores of the window and their cancellation (restore_control.go): all *)
(* restores that overlap share one context, which the first of them makes  *)
(* and the last one ends.  CancelRestore takes the cancel function under   *)
(* the mutex and calls it outside.                                         *)
(*                                                                         *)
(* A context is the number of the group of restores it was made for.  What *)
(* a restore writes is in Restore.                                         *)
(***************************************************************************)
EXTENDS Naturals, FiniteSets

CONSTANTS
  Restores,  \* the restores a user begins
  MaxStops   \* bound: calls of CancelRestore

\* What the constants must satisfy.
RestoreControlAssumption == MaxStops \in Nat

VARIABLES
  group,      \* restoreController: number of active restores, context, cancel function
  groups,     \* contexts made so far
  restore,    \* every restore: its place and context
  ctxdone,    \* contexts that are cancelled
  stop,       \* a call of CancelRestore: the cancel function it holds, or 0
  stops,      \* calls of CancelRestore so far
  status,     \* what the history records of every restore
  asked,      \* history: contexts that were current when a call looked
  meant       \* history: restores that were active when a call looked

restoring == <<group, groups, restore, ctxdone, stop, stops, status, asked, meant>>

RestoresInit ==
  /\ group = [active |-> 0, ctx |-> 0, cancel |-> 0] /\ groups = 0
  /\ restore = [r \in Restores |-> [pc |-> "none", ctx |-> 0]]
  /\ ctxdone = {} /\ stop = 0 /\ stops = 0
  /\ status = [r \in Restores |-> "none"]
  /\ asked = {} /\ meant = {}

Active == {r \in Restores : restore[r].pc \in {"running", "asking"}}

\* restoreController.begin
BeginRestore(r) ==
  /\ restore[r].pc = "none"
  /\ LET ctx == IF group.active = 0 THEN groups + 1 ELSE group.ctx
         fn == IF group.active = 0 THEN groups + 1 ELSE group.cancel
     IN /\ group' = [active |-> group.active + 1, ctx |-> ctx, cancel |-> fn]
        /\ groups' = IF group.active = 0 THEN groups + 1 ELSE groups
        /\ restore' = [restore EXCEPT ![r] = [pc |-> "running", ctx |-> ctx]]
  /\ UNCHANGED <<ctxdone, stop, stops, status, asked, meant>>

\* restoreFileSync, restoreFolderSync, restoreBatchSync: a destination exists,
\* the user is asked.
Ask(r) ==
  /\ restore[r].pc = "running" /\ restore[r].ctx \notin ctxdone
  /\ restore' = [restore EXCEPT ![r].pc = "asking"]
  /\ UNCHANGED <<group, groups, ctxdone, stop, stops, status, asked, meant>>

\* The user agrees, and the restore begins again with the same context.
Agree(r) ==
  /\ restore[r].pc = "asking"
  /\ restore' = [restore EXCEPT ![r].pc = "running"]
  /\ UNCHANGED <<group, groups, ctxdone, stop, stops, status, asked, meant>>

\* RestoreFile, RestoreFolder, RestoreBatch: how it ended goes to the history.
Record(r, outcome) == status' = [status EXCEPT ![r] = outcome]

\* restoreController.end: the last one ends the context.
LastOne == group.active = 1

EndRestore(r, outcome) ==
  /\ restore' = [restore EXCEPT ![r].pc = "done"]
  /\ group' = IF LastOne THEN [active |-> 0, ctx |-> 0, cancel |-> 0]
              ELSE [group EXCEPT !.active = @ - 1]
  /\ ctxdone' = IF LastOne THEN ctxdone \cup {group.cancel} ELSE ctxdone
  /\ Record(r, outcome)
  /\ UNCHANGED <<groups, stop, stops, asked, meant>>

\* The restore is done, or has failed, before it looks at its context again.
Finish(r) == restore[r].pc = "running" /\ \E s \in {"ok", "error"} : EndRestore(r, s)

\* The user declines.
Decline(r) == restore[r].pc = "asking" /\ EndRestore(r, "declined")

\* The context ends it.
Cancelled(r) ==
  /\ restore[r].pc = "running" /\ restore[r].ctx \in ctxdone
  /\ EndRestore(r, "cancelled")

\* restoreController.stop: the function is read under the mutex ...
StopLooks ==
  /\ stop = 0 /\ group.cancel > 0 /\ stops < MaxStops
  /\ stop' = group.cancel /\ stops' = stops + 1
  /\ asked' = asked \cup {group.ctx} /\ meant' = meant \cup Active
  /\ UNCHANGED <<group, groups, restore, ctxdone, status>>

\* Variant: the function is looked up again when it is called.
StopCancelsCurrent ==
  /\ stop > 0
  /\ ctxdone' = ctxdone \cup ({group.cancel} \ {0}) /\ stop' = 0
  /\ UNCHANGED <<group, groups, restore, stops, status, asked, meant>>

\* ... and called outside.
StopCancels ==
  /\ stop > 0
  /\ ctxdone' = ctxdone \cup {stop} /\ stop' = 0
  /\ UNCHANGED <<group, groups, restore, stops, status, asked, meant>>

RestoresNext ==
  \/ \E r \in Restores :
       BeginRestore(r) \/ Ask(r) \/ Agree(r) \/ Finish(r) \/ Decline(r) \/ Cancelled(r)
  \/ StopLooks \/ StopCancels

RestoresSpec == RestoresInit /\ [][RestoresNext]_restoring

-----------------------------------------------------------------------------
(* A call to cancel reaches every restore that was active when it looked and *)
(* still is, and nobody else: a restore that is recorded as cancelled was in *)
(* a group somebody asked to cancel, though not always itself - one that     *)
(* begins while a cancelled one still ends shares its context                *)
(* (restoreController.begin, stop and end).                                  *)
CancelReachesGroup ==
  /\ stop = 0 => \A r \in meant \cap Active : restore[r].ctx \in ctxdone
  /\ \A r \in Restores : status[r] = "cancelled" => restore[r].ctx \in asked
=============================================================================
