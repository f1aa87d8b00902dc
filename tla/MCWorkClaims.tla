---------------------------- MODULE MCWorkClaims ----------------------------
(* Small instances of WorkClaims for TLC. *)
EXTENDS WorkClaims, TLC

\* A version-1 file holding one issue under two spellings.
MCV1Ids == {[form |-> "plain",  padded |-> FALSE, body |-> b] : b \in Numbers}
             \cup {[form |-> "ticket", padded |-> TRUE, body |-> b] : b \in Numbers}

\* Process ids of one host, and hosts, are interchangeable.
Symmetry == Permutations(Pids) \cup Permutations(Hosts)
=============================================================================
