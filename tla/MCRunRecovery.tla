--------------------------- MODULE MCRunRecovery ---------------------------
(* Small instances of RunRecovery for TLC. *)
EXTENDS RunRecovery, TLC

Symmetry == Permutations(Procs)
=============================================================================
