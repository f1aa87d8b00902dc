--------------------------- MODULE MCGitLabEvents ---------------------------
(* Small instances of GitLabEvents for TLC: two events and a person. *)
EXTENDS GitLabEvents

\* All requests are for the same work, or the person's is for another.
SameWork  == [r \in Requests |-> "w"]
OtherWork == [r \in Requests |-> IF r \in Keys THEN "w" ELSE "v"]

\* The bound of the safety run.  Three of its invariants and its action property
\* say nothing after a mishap; what follows one is explored up to the last fault.
Explored == mishap => faults < MaxFaults
=============================================================================
