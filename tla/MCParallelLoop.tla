--------------------------- MODULE MCParallelLoop ---------------------------
(* Small instances of ParallelLoop for TLC. *)
EXTENDS ParallelLoop, TLC

CONSTANTS a, b

\* An item that is implemented and merged, and one that is only implemented.
MergeAndFix == a :> 2 @@ b :> 1
=============================================================================
