----------------------------- MODULE MCApprovals -----------------------------
(* Approvals for TLC: the operator names no bound, one attempt, a dollar cap *)
(* or an expiry.                                                             *)
EXTENDS Approvals
CONSTANTS l, m, env, api
MCTerms == {Unbounded,
            [Unbounded EXCEPT !.cap = 1],
            [Unbounded EXCEPT !.dollars = TRUE, !.expires = "later"]}
=============================================================================
