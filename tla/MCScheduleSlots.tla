-------------------------- MODULE MCScheduleSlots --------------------------
(* Small instances of ScheduleSlots for TLC: the window application and the  *)
(* service with one or two workers each.                                     *)
EXTENDS ScheduleSlots

CONSTANTS gui, svc, g1, s1, s2

Programs == {gui, svc}
ServiceOnly == {svc}
OwnerOf == [w \in Workers |-> IF w = g1 THEN gui ELSE svc]
=============================================================================
