----------------------------- MODULE MCLockFile -----------------------------
(* Small instances of LockFile for TLC; the configurations pick which of the *)
(* code's three locks it is and which hazards may happen.                    *)
EXTENDS LockFile, TLC

Symmetry == Permutations(Procs)

NoHazard == {}
Sleep == {"age"}
Crashes == {"crash"}
Heartbeats == {"beat"}
Everything == {"crash", "age", "beat", "share"}
=============================================================================
