--------------------------- MODULE MCBackupQueue ---------------------------
(* Small instances of BackupQueue for TLC: the window application with two   *)
(* goroutines or one, and the service with one; the same schedule slot asked *)
(* for twice, with or without a manual request beside it.                    *)
EXTENDS BackupQueue, TLC

CONSTANTS gui, svc, g1, g2, s1, man1, slotA, slotB, slot

Programs == {gui, svc}
TwoThreads == {g1, s1}
ThreeThreads == {g1, g2, s1}
OwnerOf == [t \in Threads |-> IF t \in {g1, g2} THEN gui ELSE svc]

TwinItems == {slotA, slotB}
MixedItems == {man1, slotA, slotB}
KeyOf == [i \in Items |-> IF i \in {slotA, slotB} THEN slot ELSE NoKey]

TwinSymmetry == Permutations(TwinItems)
Symmetry == {f @@ g : f \in Permutations({g1, g2}), g \in Permutations(TwinItems)}
=============================================================================
