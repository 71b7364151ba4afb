---------------------------- MODULE MCFileChain ----------------------------
(* Instance of FileChain for TLC. *)
EXTENDS FileChain, TLC

CONSTANTS f, g

MCFiles == {f, g}
Symmetry == Permutations(MCFiles)

=============================================================================
