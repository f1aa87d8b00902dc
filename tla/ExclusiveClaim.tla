--------------------------- MODULE ExclusiveClaim ---------------------------
(***************************************************************************)
(* What a claim on an item promises, however it is kept: at most one owner *)
(* has authority over the item, and it has lost or given it up before      *)
(* another gets it.  The claim file of a node (WorkClaims), the claim on a *)
(* provider's issue (IssueClaim) and the central leases (CentralClaims)    *)
(* are shown to implement it.                                              *)
(***************************************************************************)
CONSTANTS Items, Owners

VARIABLE holders   \* for each item, the owners that have authority over it

Init == holders = [i \in Items |-> {}]

Take(i, o) ==
  /\ holders[i] = {}
  /\ holders' = [holders EXCEPT ![i] = {o}]

(* Authority over some items is released, expires, is taken away by an     *)
(* operator, or is lost with a process.                                    *)
Lose(lost) == holders' = [i \in Items |-> IF i \in lost THEN {} ELSE holders[i]]

Next ==
  \/ \E i \in Items, o \in Owners : Take(i, o)
  \/ \E lost \in SUBSET Items : Lose(lost)

Spec == Init /\ [][Next]_holders
=============================================================================
