---------------------------- MODULE MCIssueClaim ----------------------------
(* Small instances of IssueClaim for TLC. *)
EXTENDS IssueClaim

CONSTANTS a, b, p
NoPriority == <<>>
PriorityB == <<b>>
=============================================================================
