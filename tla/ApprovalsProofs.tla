--------------------------- MODULE ApprovalsProofs ---------------------------
(***************************************************************************)
(* Proofs about Approvals for any labels, operations, terms, attempts and  *)
(* bounds: a scope is activated by a grant alone, the attempts started     *)
(* with a credential and charged stay within the cap of its grant, and a   *)
(* dispatch that charged and ended well leaves no credential usable.       *)
(***************************************************************************)
EXTENDS Approvals, FiniteSetTheorems, TLAPS

USE ApprovalAssumption

-----------------------------------------------------------------------------
(* What the rows do to one record *)

(* Every row makes a well-formed record out of one, whichever fields it    *)

(* sets.                                                                   *)
LEMMA RowTypes ==
  /\ None \notin Records
  /\ \A t \in Bounds : Record("requested", FALSE, t) \in Records
                       /\ Record("approved", TRUE, t) \in Records
  /\ \A r \in Records \cup {None}, kind \in Ends, reason \in {"operator", "cap"} :
       EndOf(r, kind, reason) \in Records
  /\ \A r \in Records : /\ ConsumeOf(r) \in Records
                        /\ CompleteOf(r) \in Records
                        /\ ExpireOf(r) \in Records
                        /\ \A t \in Terms : Narrowed(r, t) \in Bounds
  /\ Terms \subseteq Bounds /\ [Unbounded EXCEPT !.cap = Configured] \in Bounds
<1>1. None \notin Records
  BY DEF None, Records, States, Ends
<1>2. \A t \in Bounds : Record("requested", FALSE, t) \in Records
                       /\ Record("approved", TRUE, t) \in Records
  BY DEF Bounds, Record, Records, States
<1>3. ASSUME NEW r \in Records \cup {None}, NEW kind \in Ends, NEW reason \in {"operator", "cap"}
      PROVE  EndOf(r, kind, reason) \in Records
  <2>1. CASE r = None
    BY <2>1 DEF EndOf, Record, Unbounded, Records, States
  <2>2. CASE r \in Records
    BY <1>1, <2>2 DEF EndOf, Records, States
  <2> QED BY <2>1, <2>2
<1>4. ASSUME NEW r \in Records
      PROVE  /\ ConsumeOf(r) \in Records /\ CompleteOf(r) \in Records /\ ExpireOf(r) \in Records
             /\ \A t \in Terms : Narrowed(r, t) \in Bounds
  <2>1. ConsumeOf(r) \in Records
    <3>1. PICK u \in Nat : u = r.used + 1
      BY DEF Records
    <3>2. ConsumeOf(r) = [r EXCEPT !.st = "consumed", !.used = u]
      BY <3>1 DEF ConsumeOf
    <3> QED BY <3>2 DEF Records, States
  <2>2. CompleteOf(r) \in Records
    BY DEF CompleteOf, Records, States
  <2>3. ExpireOf(r) \in Records
    BY DEF ExpireOf, Records
  <2>4. \A t \in Terms : Narrowed(r, t) \in Bounds
    BY DEF Narrowed, Records, Bounds
  <2> QED BY <2>1, <2>2, <2>3, <2>4
<1>5. Terms \subseteq Bounds /\ [Unbounded EXCEPT !.cap = Configured] \in Bounds
  BY DEF Bounds, Unbounded
<1> QED BY <1>1, <1>2, <1>3, <1>4, <1>5

(* A scope is open if no row of it, old or last, nor the clock ended it.   *)
LEMMA EndedNo ==
  ASSUME NEW r \in Records
  PROVE  Ended(r) = "no" <=> r.ended = {} /\ r.st \notin Ends /\ r.expires # "past"
<1>1. r.ended \subseteq Ends
  BY DEF Records
<1> QED BY <1>1 DEF Ended, Ends

(* An active record, field by field.                                       *)
LEMMA ActiveFields ==
  ASSUME NEW r \in Records
  PROVE  Active(r) <=> /\ r.grant /\ r.st \in {"approved", "consumed"} /\ r.ended = {}
                       /\ r.expires # "past"
                       /\ ~CapReached(r)
<1>1. r # None
  BY RowTypes
<1>2. r.st \in States
  BY DEF Records
<1> QED BY <1>1, <1>2, EndedNo DEF Active, Granted, States, Ends

-----------------------------------------------------------------------------
(* What a step does *)

GrantOf(s) == \E t \in Terms : grant(s, t)

\* What a step may make of the record of scope s: r.
Row(s, r) ==
  \/ r = scope[s]
  \/ \E t \in Bounds : r = Record("requested", FALSE, t)
  \/ /\ GrantOf(s) /\ scope[s] \in Records
     /\ \E t \in Bounds : r = Record("approved", TRUE, t)
  \/ \E kind \in Ends, reason \in {"operator", "cap"} : r = EndOf(scope[s], kind, reason)
  \/ Charge(s) /\ scope[s] \in Records /\ r = ConsumeOf(scope[s])
  \/ Complete(s) /\ scope[s] \in Records /\ r = CompleteOf(scope[s])
  \/ scope[s] \in Records /\ r = ExpireOf(scope[s])

RowsWritten == scope' = [s \in Scopes |-> scope'[s]] /\ \A s \in Scopes : Row(s, scope'[s])

(* A step writes at most one row of a scope, and a row that needs a record *)

(* finds one.                                                              *)
LEMMA ScopeStep == TypeOK /\ [Next]_vars => RowsWritten
<1> SUFFICES ASSUME TypeOK, [Next]_vars PROVE RowsWritten
  OBVIOUS
<1> USE DEF Row, RowsWritten
<1>1. scope = [s \in Scopes |-> scope[s]] /\ \A s \in Scopes : scope[s] \in Records \cup {None}
  BY DEF TypeOK
<1>2. \A s \in Scopes : Row(s, scope[s])
  OBVIOUS
<1>3. ASSUME UNCHANGED scope PROVE RowsWritten
  BY <1>1, <1>2, <1>3
<1>4. ASSUME NEW z \in Scopes, NEW r, Row(z, r), scope' = [scope EXCEPT ![z] = r]
      PROVE  RowsWritten
  <2> HIDE DEF Row
  <2> QED BY <1>1, <1>2, <1>4
<1>5. ASSUME NEW z \in Scopes, NEW t \in Terms, request(z, t)
      PROVE  Row(z, Record("requested", FALSE, t))
  BY RowTypes
<1>6. ASSUME NEW z \in Scopes, NEW t \in Terms, grant(z, t)
      PROVE  Row(z, Record("approved", TRUE, Narrowed(scope[z], t)))
  <2>1. scope[z] \in Records
    BY <1>1, <1>6 DEF grant
  <2>2. Narrowed(scope[z], t) \in Bounds
    BY <2>1, RowTypes
  <2> QED BY <1>6, <2>1, <2>2 DEF GrantOf
<1>7. CASE Operator
  <2>1. CASE clear_attempts
    BY <1>3, <2>1 DEF clear_attempts
  <2>2. ASSUME NEW z \in Scopes, NEW t \in Terms, request(z, t)
        PROVE  RowsWritten
    BY <1>4, <1>5, <2>2 DEF request, RequestRow
  <2>3. ASSUME NEW z \in Scopes, NEW t \in Terms, grant(z, t)
        PROVE  RowsWritten
    BY <1>4, <1>6, <2>3 DEF grant
  <2>4. ASSUME NEW z \in Scopes, NEW kind \in Ends, end(z, kind)
        PROVE  RowsWritten
    <3>1. Row(z, EndOf(scope[z], kind, "operator"))
      OBVIOUS
    <3> QED BY <1>4, <2>4, <3>1 DEF end, EndRow
  <2> QED BY <1>7, <2>1, <2>2, <2>3, <2>4 DEF Operator
<1>8. ASSUME NEW z \in Scopes, Charge(z) \/ Complete(z)
      PROVE  RowsWritten
  <2>1. scope[z] \in Records
    BY <1>1, <1>8 DEF Charge, Complete, TypeOK
  <2>2. CASE Charge(z)
    <3>1. Row(z, ConsumeOf(scope[z]))
      BY <2>1, <2>2 DEF Charge
    <3> QED BY <1>4, <2>2, <3>1 DEF Charge, ConsumeRow
  <2>3. CASE Complete(z)
    <3>1. Row(z, CompleteOf(scope[z]))
      BY <2>1, <2>3 DEF Complete
    <3> QED BY <1>4, <2>3, <3>1 DEF Complete, CompleteRow
  <2> QED BY <1>8, <2>2, <2>3
<1>9. ASSUME NEW ok \in BOOLEAN, Raise(ok)
      PROVE  RowsWritten
  <2>1. run.row \in {"none", "requested", "capped", "denied", "expired"} /\ run.todo \subseteq Scopes
    BY DEF TypeOK, Runs
  <2>2. PICK z \in Scopes :
          \/ UNCHANGED scope
          \/ RequestRow(z, [Unbounded EXCEPT !.cap = Configured])
          \/ \E kind \in {"denied", "expired"}, reason \in {"operator", "cap"} :
               EndRow(z, kind, reason)
    BY <1>9, <2>1 DEF Raise
  <2>3. CASE UNCHANGED scope
    BY <1>3, <2>3
  <2>4. CASE RequestRow(z, [Unbounded EXCEPT !.cap = Configured])
    <3>1. Row(z, Record("requested", FALSE, [Unbounded EXCEPT !.cap = Configured]))
      BY RowTypes
    <3> QED BY <1>4, <2>4, <3>1 DEF RequestRow
  <2>5. ASSUME NEW kind \in {"denied", "expired"}, NEW reason \in {"operator", "cap"},
               EndRow(z, kind, reason)
        PROVE  RowsWritten
    <3>1. Row(z, EndOf(scope[z], kind, reason))
      BY DEF Ends
    <3> QED BY <1>4, <2>5, <3>1 DEF EndRow
  <2> QED BY <2>2, <2>3, <2>4, <2>5
<1>10. CASE Dispatch
  <2>1. ASSUME ~\E z \in Scopes : Charge(z) \/ Complete(z), ~\E ok \in BOOLEAN : Raise(ok)
        PROVE  UNCHANGED scope
    BY <1>10, <2>1 DEF Dispatch, Start, ReadCharges, ChargeFails, PauseEnds, ReadCompletes,
      CompleteFails, DispatchEnds, Crash, ReadEnv, CheckGaps,
      GapRefused, BackendEnds, AttemptUncharged, AppendRow,
      ReadForRaise, RaiseReadFails, AttemptEnds
  <2> QED BY <1>3, <1>8, <1>9, <2>1
<1>11. ASSUME NEW z \in Scopes, TimePasses(z)
       PROVE  RowsWritten
  <2>1. Row(z, ExpireOf(scope[z]))
    BY <1>1, <1>11 DEF TimePasses
  <2> QED BY <1>4, <1>11, <2>1 DEF TimePasses
<1>12. CASE UNCHANGED vars
  BY <1>3, <1>12 DEF vars
<1> QED BY <1>7, <1>10, <1>11, <1>12 DEF Next

(* A record stays one, and the records keep their type.                    *)
LEMMA ScopeType ==
  ASSUME TypeOK, [Next]_vars
  PROVE  /\ scope' \in [Scopes -> Records \cup {None}]
         /\ \A s \in Scopes : scope[s] # None => scope'[s] # None
<1>1. \A s \in Scopes : scope'[s] \in Records \/ scope'[s] = scope[s]
  <2> SUFFICES ASSUME NEW s \in Scopes PROVE scope'[s] \in Records \/ scope'[s] = scope[s]
    OBVIOUS
  <2>1. scope[s] \in Records \cup {None}
    BY DEF TypeOK
  <2> QED BY <2>1, ScopeStep, RowTypes DEF RowsWritten, Row
<1>2. \A s \in Scopes : scope[s] \in Records \cup {None}
  BY DEF TypeOK
<1> QED BY <1>1, <1>2, ScopeStep, RowTypes DEF RowsWritten

(* Every step keeps the type of the state.                                 *)
LEMMA TypeStep == TypeOK /\ [Next]_vars => TypeOK'
<1> SUFFICES ASSUME TypeOK, [Next]_vars PROVE TypeOK'
  OBVIOUS
<1>1. /\ scope' \in [Scopes -> Records \cup {None}]
      /\ \A s \in Scopes : scope[s] # None => scope'[s] # None
  BY ScopeType
<1>2. /\ run \in Runs /\ hold \in BOOLEAN /\ launched \in [Labels -> Nat]
      /\ unpaid \in [Labels -> Nat] /\ lost \subseteq Labels /\ fresh \subseteq Labels
      /\ dispatches \in 0..MaxDispatches /\ orders \in 0..MaxOrders /\ faults \in 0..MaxFaults
      /\ run.pc \in {"charging", "completing"} => \A s \in run.todo : scope[s] # None
  BY DEF TypeOK
<1>3. run.allowed \subseteq Labels /\ run.used \subseteq Labels /\ run.todo \subseteq Scopes
  BY <1>2 DEF Runs
<1>4. ASSUME Order PROVE orders' \in 0..MaxOrders
  BY <1>2, <1>4 DEF Order
<1>5. ASSUME Fault PROVE faults' \in 0..MaxFaults
  BY <1>2, <1>5 DEF Fault
<1>6. ASSUME run' = run, hold' \in BOOLEAN, launched' \in [Labels -> Nat],
             unpaid' \in [Labels -> Nat],
             lost' \subseteq Labels, fresh' \subseteq Labels, dispatches' = dispatches,
             orders' \in 0..MaxOrders, faults' = faults
      PROVE  TypeOK'
  BY <1>1, <1>2, <1>3, <1>6 DEF TypeOK
<1>7. CASE Operator
  <2>1. ASSUME NEW s \in Scopes, NEW t \in Terms, grant(s, t) PROVE TypeOK'
    <3>1. s[1] \in Labels
      BY DEF Scopes
    <3> QED BY <1>2, <1>4, <1>6, <2>1, <3>1 DEF grant
  <2>2. ASSUME \/ clear_attempts
               \/ \E s \in Scopes, t \in Terms : request(s, t)
               \/ \E s \in Scopes, kind \in Ends : end(s, kind)
        PROVE  TypeOK'
    BY <1>2, <1>4, <1>6, <2>2 DEF clear_attempts, request, end
  <2> QED BY <1>7, <2>1, <2>2 DEF Operator
<1>8. ASSUME NEW s \in Scopes, TimePasses(s) PROVE TypeOK'
  BY <1>2, <1>6, <1>8 DEF TimePasses
<1>9. CASE UNCHANGED vars
  BY <1>2, <1>6, <1>9 DEF vars
<1>10. CASE Dispatch
  <2>1. orders' = orders /\ (fresh' = fresh \/ fresh' = {})
    BY <1>10 DEF Dispatch, Start, ReadCharges, ChargeFails, PauseEnds, ReadCompletes,
      CompleteFails, DispatchEnds, Crash, ReadEnv, CheckGaps,
      GapRefused, BackendEnds, AttemptUncharged, Raise, AppendRow,
      Charge, Complete, ReadForRaise, RaiseReadFails, AttemptEnds
  <2>2. hold' \in BOOLEAN
    BY <1>2, <1>10 DEF Dispatch, Start, ReadCharges, ChargeFails, PauseEnds, ReadCompletes,
      CompleteFails, DispatchEnds, Crash, ReadEnv, CheckGaps,
      GapRefused, BackendEnds, AttemptUncharged, Raise, AppendRow,
      Charge, Complete, ReadForRaise, RaiseReadFails, AttemptEnds
  <2>3. faults' \in 0..MaxFaults /\ dispatches' \in 0..MaxDispatches
    <3>1. CASE \E mode \in Modes : Start(mode)
      BY <1>2, <3>1 DEF Start
    <3>2. CASE ~\E mode \in Modes : Start(mode)
      BY <1>2, <1>5, <1>10, <3>2 DEF Dispatch, ReadCharges, ChargeFails, PauseEnds,
        ReadCompletes, CompleteFails, DispatchEnds, Crash, ReadEnv, CheckGaps,
        GapRefused, BackendEnds, AttemptUncharged, Raise, AppendRow, Charge, Complete,
        ReadForRaise, RaiseReadFails, AttemptEnds
    <3> QED BY <3>1, <3>2
  <2>4. lost' \subseteq Labels
    <3>1. CASE ChargeFails
      <4>1. {s[1] : s \in run.todo} \subseteq Labels
        BY <1>3 DEF Scopes
      <4> QED BY <1>2, <1>3, <3>1, <4>1 DEF ChargeFails
    <3>2. CASE ~ChargeFails
      BY <1>2, <1>3, <1>10, <3>2 DEF Dispatch, Start, ReadCharges, PauseEnds, ReadCompletes,
        CompleteFails, DispatchEnds, Crash, ReadEnv, CheckGaps, GapRefused, BackendEnds,
        AttemptUncharged, Raise, AppendRow, Charge, Complete, ReadForRaise, RaiseReadFails,
        AttemptEnds
    <3> QED BY <3>1, <3>2
  <2>5. launched' \in [Labels -> Nat]
    <3>1. ASSUME NEW ok \in BOOLEAN, CheckGaps(ok) PROVE launched' \in [Labels -> Nat]
      BY <1>2, <3>1 DEF CheckGaps
    <3>2. CASE ~\E ok \in BOOLEAN : CheckGaps(ok)
      BY <1>2, <1>10, <3>2 DEF Dispatch, Start, ReadCharges, ChargeFails, PauseEnds,
        ReadCompletes, CompleteFails, DispatchEnds, Crash, ReadEnv,
        GapRefused, BackendEnds, AttemptUncharged, Raise, AppendRow, Charge, Complete,
        ReadForRaise, RaiseReadFails, AttemptEnds
    <3> QED BY <3>1, <3>2
  <2>7. unpaid' \in [Labels -> Nat]
    <3>1. ASSUME NEW next \in {"again", "success", "failure"}, AttemptUncharged(next)
          PROVE  unpaid' \in [Labels -> Nat]
      BY <1>2, <3>1 DEF AttemptUncharged
    <3>2. CASE ~\E next \in {"again", "success", "failure"} : AttemptUncharged(next)
      BY <1>2, <1>10, <3>2 DEF Dispatch, Start, ReadCharges, ChargeFails, PauseEnds,
        ReadCompletes, CompleteFails, DispatchEnds, Crash, ReadEnv, CheckGaps, GapRefused,
        BackendEnds, Raise, AppendRow, Charge, Complete, ReadForRaise, RaiseReadFails, AttemptEnds
    <3> QED BY <3>1, <3>2
  <2>6. run' \in Runs /\ (run'.pc \in {"charging", "completing"} => \A s \in run'.todo : scope'[s] # None)
    <3> DEFINE RunOK == run' \in Runs /\ (run'.pc \in {"charging", "completing"}
                           => \A s \in run'.todo : scope'[s] # None)
    <3>1. Idle \in Runs /\ Idle.pc = "idle"
      BY DEF Idle, Runs, Modes
    <3>2. ASSUME NEW mode \in Modes, Start(mode) PROVE RunOK
      <4>1. 1 \in 0..MaxAttempts
        OBVIOUS
      <4>2. run' = [Idle EXCEPT !.pc = "env", !.attempt = 1, !.mode = mode]
        BY <3>2 DEF Start
      <4> QED BY <3>1, <4>1, <4>2 DEF Runs
    <3>3. ASSUME NEW ok \in BOOLEAN, ReadEnv(ok) PROVE RunOK
      BY <1>2, <3>3 DEF ReadEnv, active_external_approval_env_vars, Runs
    <3>4. ASSUME NEW ok \in BOOLEAN, CheckGaps(ok) PROVE RunOK
      <4>1. Gaps(ok) \subseteq Labels
        BY DEF Gaps
      <4>2. CASE Gaps(ok) # {}
        <5>1. run' = [run EXCEPT !.pc = "raise", !.gaps = Gaps(ok), !.pause = TRUE]
          BY <3>4, <4>2 DEF CheckGaps
        <5> QED BY <1>2, <4>1, <5>1 DEF Runs
      <4>3. CASE Gaps(ok) = {}
        <5>1. run' = [run EXCEPT !.pc = "run", !.used = @ \cup run.allowed]
          BY <3>4, <4>3 DEF CheckGaps
        <5> QED BY <1>2, <1>3, <5>1 DEF Runs
      <4> QED BY <4>2, <4>3
    <3>5. ASSUME NEW ok \in BOOLEAN, BackendEnds(ok) PROVE RunOK
      BY <1>2, <3>5 DEF BackendEnds, Runs
    <3>6. CASE ReadCharges
      <4> DEFINE due == UNION {OfLabel(l) : l \in {k \in Labels : Usable(k)}}
      <4>1. due \subseteq Scopes /\ \A s \in due : scope[s] # None
        BY DEF OfLabel
      <4>2. run' = [run EXCEPT !.pc = "charging", !.charged = TRUE, !.todo = due]
        BY <3>6 DEF ReadCharges
      <4> HIDE DEF due
      <4> QED BY <1>1, <1>2, <4>1, <4>2 DEF Runs
    <3>7. ASSUME NEW s \in Scopes, Charge(s) \/ Complete(s) PROVE RunOK
      <4>1. run' = [run EXCEPT !.todo = @ \ {s}] /\ run.pc \in {"charging", "completing"}
        BY <3>7 DEF Charge, Complete
      <4> QED BY <1>1, <1>2, <1>3, <4>1 DEF Runs
    <3>8. CASE ChargeFails
      BY <1>2, <3>8 DEF ChargeFails, Runs
    <3>9. ASSUME NEW next \in {"again", "success", "failure"}, AttemptEnds(next) PROVE RunOK
      <4>1. CASE next = "again"
        <5>1. PICK a \in 0..MaxAttempts : a = run.attempt + 1
          BY <1>2, <3>9, <4>1 DEF AttemptEnds, Runs
        <5>2. run' = [run EXCEPT !.pc = "env", !.attempt = a, !.ok = FALSE]
          BY <3>9, <4>1, <5>1 DEF AttemptEnds
        <5> QED BY <1>2, <5>2 DEF Runs
      <4>2. CASE next # "again"
        BY <1>2, <3>9, <4>2 DEF AttemptEnds, Runs
      <4> QED BY <4>1, <4>2
    <3>10. ASSUME NEW l \in Labels, ReadForRaise(l) PROVE RunOK
      <4> DEFINE r == scope[<<l, EnvOp>>]
                 row == IF r # None /\ RowFor(r) = "denied" /\ DeniedByCap(r)
                        THEN "capped" ELSE RowFor(r)
      <4>1. row \in {"none", "requested", "capped", "denied", "expired"}
        BY DEF RowFor
      <4>2. {<<l, EnvOp>>} \subseteq Scopes
        BY DEF Scopes
      <4>3. run' = [run EXCEPT !.pc = "raising", !.gaps = @ \ {l}, !.todo = {<<l, EnvOp>>},
                      !.row = row]
        BY <3>10 DEF ReadForRaise
      <4> HIDE DEF row
      <4> QED BY <1>2, <4>1, <4>2, <4>3 DEF Runs
    <3>11. ASSUME NEW ok \in BOOLEAN, Raise(ok) PROVE RunOK
      BY <1>2, <3>11 DEF Raise, Runs
    <3>12. ASSUME NEW l \in Labels, RaiseReadFails(l) PROVE RunOK
      BY <1>2, <3>12 DEF RaiseReadFails, Runs
    <3>13. CASE PauseEnds
      BY <1>2, <3>13 DEF PauseEnds, Runs
    <3>14. ASSUME NEW ok \in BOOLEAN, AppendRow(ok) PROVE RunOK
      BY <1>2, <3>1, <3>14 DEF AppendRow, Runs
    <3>15. CASE ReadCompletes
      <4> DEFINE due == {s \in Scopes : Completable(scope[s])}
      <4>1. due \subseteq Scopes /\ \A s \in due : scope[s] # None
        BY DEF Completable
      <4>2. run' = [run EXCEPT !.pc = "completing", !.todo = due]
        BY <3>15 DEF ReadCompletes
      <4> HIDE DEF due
      <4> QED BY <1>1, <1>2, <4>1, <4>2 DEF Runs
    <3>17. ASSUME NEW ok \in BOOLEAN, GapRefused(ok) PROVE RunOK
      BY <1>2, <3>17 DEF GapRefused, Runs
    <3>18. ASSUME NEW next \in {"again", "success", "failure"}, AttemptUncharged(next) PROVE RunOK
      <4>1. CASE next = "again"
        <5>1. PICK a \in 0..MaxAttempts : a = run.attempt + 1
          BY <1>2, <3>18, <4>1 DEF AttemptUncharged, Runs
        <5>2. run' = [run EXCEPT !.pc = "env", !.attempt = a]
          BY <3>18, <4>1, <5>1 DEF AttemptUncharged
        <5> QED BY <1>2, <5>2 DEF Runs
      <4>2. CASE next # "again"
        <5>1. run' = [run EXCEPT !.pc = "row", !.ok = TRUE] \/ run' = [run EXCEPT !.pc = "row"]
          BY <3>18, <4>2 DEF AttemptUncharged
        <5>2. CASE run' = [run EXCEPT !.pc = "row", !.ok = TRUE]
          BY <1>2, <5>2 DEF Runs
        <5>3. CASE run' = [run EXCEPT !.pc = "row"]
          BY <1>2, <5>3 DEF Runs
        <5> QED BY <5>1, <5>2, <5>3
      <4> QED BY <4>1, <4>2
    <3>16. CASE CompleteFails \/ DispatchEnds \/ Crash
      BY <3>1, <3>16 DEF CompleteFails, DispatchEnds, Crash
    <3> QED
      BY <1>10, <3>2, <3>3, <3>4, <3>5, <3>6, <3>7, <3>8, <3>9, <3>10, <3>11, <3>12, <3>13,
        <3>14, <3>15, <3>16, <3>17, <3>18
      DEF Dispatch
  <2> QED BY <1>1, <1>2, <2>1, <2>2, <2>3, <2>4, <2>5, <2>6, <2>7 DEF TypeOK
<1> QED BY <1>7, <1>8, <1>9, <1>10 DEF Next

(* Every reachable state has its type: whatever the order of the operator's *)
(* commands and the dispatch's reads and appends, the fold of the rows     *)
(* makes well-formed records, and no charge or completion is written for a *)
(* scope that has none.                                                    *)
THEOREM ApprovalTypes == Spec => []TypeOK
<1>1. Init => TypeOK
  <2> SUFFICES ASSUME Init PROVE TypeOK
    OBVIOUS
  <2>1. Idle \in Runs /\ Idle.pc = "idle"
    BY DEF Idle, Runs, Modes
  <2>2. /\ scope \in [Scopes -> Records \cup {None}]
        /\ launched \in [Labels -> Nat] /\ unpaid \in [Labels -> Nat]
    BY DEF Init
  <2>3. /\ dispatches \in 0..MaxDispatches /\ orders \in 0..MaxOrders
        /\ faults \in 0..MaxFaults
    BY DEF Init
  <2> QED BY <2>1, <2>2, <2>3 DEF Init, TypeOK
<1> QED BY <1>1, TypeStep, PTL DEF Spec

-----------------------------------------------------------------------------
(* What a step does to the dispatch *)

\* The dispatch goes on to another step with the credentials it has.
Keeps(from, to) ==
  /\ run.pc \in from /\ run'.pc \in to
  /\ run'.allowed = run.allowed /\ run'.used = run.used /\ run'.charged = run.charged

Starts == \E mode \in Modes : Start(mode)

\* An attempt ends on a path that charges nothing.
Uncharged == \E next \in {"again", "success", "failure"} : AttemptUncharged(next)

\* A step of the dispatch, by where it stands before and after.
Moves ==
  \/ run' = run /\ (Operator \/ (\E z \in Scopes : TimePasses(z)) \/ UNCHANGED vars)
  \/ (CompleteFails \/ DispatchEnds \/ Crash) /\ run' = Idle
  \/ run.pc = "row" /\ UNCHANGED <<lost, fresh>> /\ run' = Idle
  \/ /\ Starts /\ run.pc = "idle" /\ run'.pc = "env" /\ run'.used = {} /\ run'.allowed = {}
     /\ ~run'.charged
  \/ /\ run.pc = "env" /\ run'.pc = "check" /\ run'.used = run.used
     /\ run'.charged = run.charged
     /\ run'.allowed \subseteq active_external_approval_env_vars
  \/ UNCHANGED launched /\ Keeps({"check"}, {"raise", "row"})
  \/ /\ run.pc = "check" /\ run'.pc = "run" /\ run'.charged = run.charged
     /\ run'.allowed = run.allowed /\ run'.used = run.used \cup run.allowed
     /\ launched' = [l \in Labels |-> launched[l] + IF l \in run.allowed THEN 1 ELSE 0]
  \/ Keeps({"run"}, {"charge"})
  \/ Uncharged /\ Keeps({"run"}, {"env", "row"})
  \/ ReadCharges /\ run.pc = "charge" /\ run'.pc = "charging"
       /\ run'.allowed = run.allowed /\ run'.used = run.used
       /\ run'.todo = UNION {OfLabel(l) : l \in {k \in Labels : Usable(k)}}
  \/ \E z \in Scopes : /\ Charge(z) /\ Keeps({"charging"}, {"charging"})
                        /\ run'.todo = run.todo \ {z}
  \/ ChargeFails /\ Keeps({"charge", "charging"}, {"charging"})
       /\ lost' = lost \cup run.allowed \cup {s[1] : s \in run.todo}
  \/ Keeps({"charging"}, {"env", "row"}) /\ run.todo = {}
  \/ Keeps({"raise", "raising"}, {"raise", "raising", "row"})
  \/ Keeps({"row"}, {"complete"})
  \/ ReadCompletes /\ Keeps({"complete"}, {"completing"})
       /\ run'.todo = {s \in Scopes : Completable(scope[s])}
  \/ \E z \in Scopes : /\ Complete(z) /\ Keeps({"completing"}, {"completing"})
                        /\ run'.todo = run.todo \ {z}

(* Every step is one of these.                                             *)
LEMMA RunMoves == TypeOK /\ [Next]_vars => Moves
<1> SUFFICES ASSUME TypeOK, [Next]_vars PROVE Moves
  OBVIOUS
<1>1. run \in Runs
  BY DEF TypeOK
<1>2. CASE Operator \/ (\E z \in Scopes : TimePasses(z)) \/ UNCHANGED vars
  <2>1. run' = run
    BY <1>2 DEF Operator, clear_attempts, request, grant, end, TimePasses, vars
  <2> QED BY <1>2, <2>1 DEF Moves
<1>3. CASE CompleteFails \/ DispatchEnds \/ Crash
  <2>1. run' = Idle
    BY <1>3 DEF CompleteFails, DispatchEnds, Crash
  <2> QED BY <1>3, <2>1 DEF Moves
<1>4. CASE Starts
  <2>1. /\ run.pc = "idle" /\ run'.pc = "env" /\ run'.used = {} /\ run'.allowed = {}
        /\ ~run'.charged
    BY <1>4 DEF Starts, Start, Idle
  <2> QED BY <1>4, <2>1 DEF Moves
<1>5. ASSUME NEW ok \in BOOLEAN, ReadEnv(ok) PROVE Moves
  <2>1. PICK a \in SUBSET active_external_approval_env_vars :
          run' = [run EXCEPT !.pc = "check", !.allowed = a]
    BY <1>5 DEF ReadEnv
  <2>2. /\ run.pc = "env" /\ run'.pc = "check" /\ run'.used = run.used /\ run'.allowed = a
        /\ run'.charged = run.charged
    BY <1>1, <1>5, <2>1 DEF ReadEnv, Runs
  <2> QED BY <2>2 DEF Moves
<1>6. ASSUME NEW ok \in BOOLEAN, CheckGaps(ok) PROVE Moves
  <2>1. CASE Gaps(ok) # {}
    <3>1. /\ run' = [run EXCEPT !.pc = "raise", !.gaps = Gaps(ok), !.pause = TRUE]
          /\ UNCHANGED launched /\ run.pc = "check"
      BY <1>6, <2>1 DEF CheckGaps
    <3> QED BY <1>1, <3>1 DEF Runs, Moves, Keeps
  <2>2. CASE Gaps(ok) = {}
    <3>1. /\ run' = [run EXCEPT !.pc = "run", !.used = @ \cup run.allowed]
          /\ launched' = [l \in Labels |-> launched[l] + IF l \in run.allowed THEN 1 ELSE 0]
          /\ run.pc = "check"
      BY <1>6, <2>2 DEF CheckGaps
    <3>2. /\ run.pc = "check" /\ run'.pc = "run" /\ run'.charged = run.charged
          /\ run'.allowed = run.allowed /\ run'.used = run.used \cup run.allowed
      BY <1>1, <3>1 DEF Runs
    <3> QED BY <3>1, <3>2 DEF Moves
  <2> QED BY <2>1, <2>2
<1>7. ASSUME NEW ok \in BOOLEAN, BackendEnds(ok) PROVE Moves
  BY <1>1, <1>7 DEF BackendEnds, Runs, Moves, Keeps
<1>8. CASE ReadCharges
  <2> DEFINE due == UNION {OfLabel(l) : l \in {k \in Labels : Usable(k)}}
  <2>1. run.pc = "charge" /\ run' = [run EXCEPT !.pc = "charging", !.charged = TRUE, !.todo = due]
    BY <1>8 DEF ReadCharges
  <2>2. /\ run.pc = "charge" /\ run'.pc = "charging" /\ run'.todo = due
        /\ run'.allowed = run.allowed /\ run'.used = run.used
    BY <1>1, <2>1 DEF Runs
  <2> QED BY <1>8, <2>2 DEF Moves
<1>9. ASSUME NEW z \in Scopes, Charge(z) PROVE Moves
  <2>1. run.pc = "charging" /\ run' = [run EXCEPT !.todo = @ \ {z}]
    BY <1>9 DEF Charge
  <2>2. Keeps({"charging"}, {"charging"}) /\ run'.todo = run.todo \ {z}
    BY <1>1, <2>1 DEF Runs, Keeps
  <2> QED BY <1>9, <2>2 DEF Moves
<1>10. CASE ChargeFails
  <2>1. /\ Keeps({"charge", "charging"}, {"charging"})
        /\ lost' = lost \cup run.allowed \cup {s[1] : s \in run.todo}
    BY <1>1, <1>10 DEF ChargeFails, Runs, Keeps
  <2> QED BY <1>10, <2>1 DEF Moves
<1>11. ASSUME NEW next \in {"again", "success", "failure"}, AttemptEnds(next) PROVE Moves
  <2>1. Keeps({"charging"}, {"env", "row"}) /\ run.todo = {}
    BY <1>1, <1>11 DEF AttemptEnds, Runs, Keeps
  <2> QED BY <2>1 DEF Moves
<1>12. ASSUME \/ PauseEnds
              \/ \E l \in Labels : ReadForRaise(l) \/ RaiseReadFails(l)
              \/ \E ok \in BOOLEAN : Raise(ok)
       PROVE  Moves
  <2> DEFINE Stays == Keeps({"raise", "raising"}, {"raise", "raising", "row"})
  <2>1. CASE PauseEnds
    <3>1. Stays
      BY <1>1, <2>1 DEF PauseEnds, Runs, Keeps
    <3> QED BY <3>1 DEF Moves
  <2>2. ASSUME NEW l \in Labels, ReadForRaise(l) PROVE Moves
    <3>1. Stays
      BY <1>1, <2>2 DEF ReadForRaise, Runs, Keeps
    <3> QED BY <3>1 DEF Moves
  <2>3. ASSUME NEW l \in Labels, RaiseReadFails(l) PROVE Moves
    <3>1. Stays
      BY <1>1, <2>3 DEF RaiseReadFails, Runs, Keeps
    <3> QED BY <3>1 DEF Moves
  <2>4. ASSUME NEW ok \in BOOLEAN, Raise(ok) PROVE Moves
    <3>1. run' = [run EXCEPT !.pc = "raise", !.todo = {}, !.row = "none"] /\ run.pc = "raising"
      BY <2>4 DEF Raise
    <3>2. Stays
      BY <1>1, <3>1 DEF Runs, Keeps
    <3> QED BY <3>2 DEF Moves
  <2> QED BY <1>12, <2>1, <2>2, <2>3, <2>4
<1>13. ASSUME NEW ok \in BOOLEAN, AppendRow(ok) PROVE Moves
  <2>1. \/ run.pc = "row" /\ UNCHANGED <<lost, fresh>> /\ run' = Idle
        \/ Keeps({"row"}, {"complete"})
    BY <1>1, <1>13 DEF AppendRow, Runs, Keeps
  <2> QED BY <2>1 DEF Moves
<1>14. CASE ReadCompletes
  <2> DEFINE due == {s \in Scopes : Completable(scope[s])}
  <2>1. run.pc = "complete" /\ run' = [run EXCEPT !.pc = "completing", !.todo = due]
    BY <1>14 DEF ReadCompletes
  <2> HIDE DEF due
  <2>2. Keeps({"complete"}, {"completing"}) /\ run'.todo = due
    BY <1>1, <2>1 DEF Runs, Keeps
  <2> QED BY <1>14, <2>2 DEF Moves, due
<1>15. ASSUME NEW z \in Scopes, Complete(z) PROVE Moves
  <2>1. run.pc = "completing" /\ run' = [run EXCEPT !.todo = @ \ {z}]
    BY <1>15 DEF Complete
  <2>2. Keeps({"completing"}, {"completing"}) /\ run'.todo = run.todo \ {z}
    BY <1>1, <2>1 DEF Runs, Keeps
  <2> QED BY <1>15, <2>2 DEF Moves
<1>16. ASSUME NEW ok \in BOOLEAN, GapRefused(ok) PROVE Moves
  <2>1. UNCHANGED launched /\ Keeps({"check"}, {"raise", "row"})
    BY <1>1, <1>16 DEF GapRefused, Runs, Keeps
  <2> QED BY <2>1 DEF Moves
<1>17. CASE Uncharged
  <2>1. Keeps({"run"}, {"env", "row"})
    BY <1>1, <1>17 DEF Uncharged, AttemptUncharged, Runs, Keeps
  <2> QED BY <1>17, <2>1 DEF Moves
<1> QED
  BY <1>2, <1>3, <1>4, <1>5, <1>6, <1>7, <1>8, <1>9, <1>10, <1>11, <1>12, <1>13, <1>14, <1>15,
    <1>16, <1>17
  DEF Next, Dispatch, Starts, Uncharged

-----------------------------------------------------------------------------
(* Activation *)

(* The records the fold can make: an approved one is a grant nothing was   *)
(* charged to, a requested one is no grant, and a grant that was ended     *)
(* carries the mark of it.                                                 *)
SoundRecord(r) ==
  /\ r.st = "approved" => r.grant /\ r.used = 0
  /\ r.st = "requested" => ~r.grant
  /\ r.grant /\ r.st \in Ends => r.st \in r.ended

Sound == \A s \in Scopes : scope[s] # None => SoundRecord(scope[s])

(* Nothing is completed while a dispatch charges.                          *)
ChargeOpen == run.pc = "charging" => \A s \in run.todo : scope[s].st # "completed"

ActiveInv == TypeOK /\ Sound /\ ChargeOpen

(* A request makes a record that is no grant.                              *)
LEMMA RequestFields ==
  ASSUME NEW t \in Bounds
  PROVE  LET r == Record("requested", FALSE, t) IN
         ~Active(r) /\ SoundRecord(r) /\ r.grant = FALSE /\ r.st = "requested"
BY DEF Record, SoundRecord, Active, Granted, Ends

(* A grant makes an approved record nothing was charged to.                *)
LEMMA GrantFields ==
  ASSUME NEW t \in Bounds
  PROVE  LET r == Record("approved", TRUE, t) IN SoundRecord(r) /\ r.st = "approved"
BY DEF Record, SoundRecord, Ends

(* A row that ends a scope leaves a mark on the record of a grant.         *)
LEMMA EndFields ==
  ASSUME NEW r \in Records \cup {None}, NEW kind \in Ends, NEW reason \in {"operator", "cap"}
  PROVE  LET e == EndOf(r, kind, reason) IN
         /\ ~Active(e) /\ SoundRecord(e) /\ e.st = kind
         /\ e.grant => r \in Records /\ r.grant /\ e.cap = r.cap
<1> DEFINE e == EndOf(r, kind, reason)
<1>1. e \in Records
  BY RowTypes
<1>2. e.st = kind
  BY RowTypes DEF EndOf, Record, Records
<1>3. e.grant => r \in Records /\ r.grant /\ e.cap = r.cap /\ kind \in e.ended
  <2>1. CASE r = None
    BY <2>1 DEF EndOf, Record
  <2>2. CASE r \in Records
    <3>1. e = [r EXCEPT !.st = kind, !.ended = @ \cup {kind},
                        !.reason = IF kind = "denied" THEN reason ELSE @]
      BY <2>2, RowTypes DEF EndOf
    <3> QED BY <2>2, <3>1 DEF Records
  <2> QED BY <2>1, <2>2
<1> HIDE DEF e
<1>4. ~Active(e)
  BY <1>1, <1>2, ActiveFields DEF Ends
<1>5. SoundRecord(e)
  BY <1>2, <1>3 DEF SoundRecord, Ends
<1> QED BY <1>2, <1>3, <1>4, <1>5 DEF e

(* A charge counts one attempt and activates nothing that was not active,  *)

(* unless the scope was completed.                                         *)
LEMMA ConsumeFields ==
  ASSUME NEW r \in Records
  PROVE  LET c == ConsumeOf(r) IN
         /\ c.st = "consumed" /\ c.used = r.used + 1 /\ c.grant = r.grant /\ c.cap = r.cap
         /\ SoundRecord(c)
         /\ SoundRecord(r) /\ r.st # "completed" /\ Active(c) => Active(r)
<1> DEFINE c == ConsumeOf(r)
<1>1. /\ c.st = "consumed" /\ c.used = r.used + 1 /\ c.grant = r.grant /\ c.cap = r.cap
      /\ c.ended = r.ended /\ c.expires = r.expires /\ c.dollars = r.dollars
  BY DEF ConsumeOf, Records
<1>2. c \in Records /\ r.used \in Nat /\ r.cap \in Nat /\ r.st \in States
  BY RowTypes DEF Records
<1> HIDE DEF c
<1>3. SoundRecord(c)
  BY <1>1 DEF SoundRecord, Ends
<1>4. ASSUME SoundRecord(r), r.st # "completed", Active(c) PROVE Active(r)
  <2>1. c.grant /\ c.ended = {} /\ c.expires # "past" /\ ~CapReached(c)
    BY <1>2, <1>4, ActiveFields
  <2>2. ~CapReached(r)
    BY <1>1, <1>2, <2>1 DEF CapReached
  <2>3. r.st \in {"approved", "consumed"}
    BY <1>1, <1>2, <1>4, <2>1 DEF SoundRecord, States
  <2> QED BY <1>1, <2>1, <2>2, <2>3, ActiveFields
<1> QED BY <1>1, <1>3, <1>4 DEF c

(* A completed scope is not active.                                        *)
LEMMA CompleteFields ==
  ASSUME NEW r \in Records
  PROVE  LET c == CompleteOf(r) IN
         c.grant = r.grant /\ c.cap = r.cap /\ SoundRecord(c) /\ ~Active(c)
<1>1. CompleteOf(r).grant = r.grant /\ CompleteOf(r).cap = r.cap /\ CompleteOf(r).st = "completed"
  BY DEF CompleteOf, Records
<1> QED BY <1>1, RowTypes, ActiveFields DEF SoundRecord, Ends

(* Nor is one whose time has passed.                                       *)
LEMMA ExpireFields ==
  ASSUME NEW r \in Records
  PROVE  LET e == ExpireOf(r) IN
         /\ e.grant = r.grant /\ e.cap = r.cap /\ e.st = r.st /\ ~Active(e)
         /\ SoundRecord(r) => SoundRecord(e)
<1>1. /\ ExpireOf(r).grant = r.grant /\ ExpireOf(r).cap = r.cap /\ ExpireOf(r).st = r.st
      /\ ExpireOf(r).expires = "past" /\ ExpireOf(r).used = r.used /\ ExpireOf(r).ended = r.ended
  BY DEF ExpireOf, Records
<1> QED BY <1>1, RowTypes, ActiveFields DEF SoundRecord

(* A step's effect on one record: it is active afterwards only by a grant, *)

(* by a charge or because it is the same record; it stays sound; it is     *)
(* completed by a completion only; and its grant and cap are those it had, *)
(* or those of a new grant.                                                *)
LEMMA RowEffect ==
  ASSUME NEW s, scope[s] \in Records \cup {None}, NEW r, Row(s, r),
         scope[s] \in Records => SoundRecord(scope[s])
  PROVE  /\ Active(r) => \/ GrantOf(s) /\ r.st = "approved"
                         \/ r = scope[s]
                         \/ Charge(s) /\ scope[s] \in Records /\ r = ConsumeOf(scope[s])
         /\ r # None => SoundRecord(r)
         /\ scope[s] \in Records /\ scope[s].st # "completed" /\ r.st = "completed"
              => Complete(s)
         /\ r # None /\ r.grant
              => \/ GrantOf(s)
                 \/ scope[s] \in Records /\ scope[s].grant /\ r.cap = scope[s].cap
<1>1. CASE r = scope[s]
  BY <1>1
<1>2. ASSUME NEW t \in Bounds, r = Record("requested", FALSE, t)
      PROVE  ~Active(r) /\ SoundRecord(r) /\ r.st # "completed" /\ ~r.grant
  BY <1>2, RequestFields
<1>3. ASSUME GrantOf(s), NEW t \in Bounds, r = Record("approved", TRUE, t)
      PROVE  GrantOf(s) /\ r.st = "approved" /\ SoundRecord(r)
  BY <1>3, GrantFields
<1>4. ASSUME NEW kind \in Ends, NEW reason \in {"operator", "cap"}, r = EndOf(scope[s], kind, reason)
      PROVE  /\ ~Active(r) /\ SoundRecord(r) /\ r.st # "completed"
             /\ r.grant => scope[s] \in Records /\ scope[s].grant /\ r.cap = scope[s].cap
  <2>1. /\ ~Active(r) /\ SoundRecord(r) /\ r.st = kind
        /\ r.grant => scope[s] \in Records /\ scope[s].grant /\ r.cap = scope[s].cap
    BY <1>4, EndFields
  <2> QED BY <2>1 DEF Ends
<1>5. ASSUME Charge(s), scope[s] \in Records, r = ConsumeOf(scope[s])
      PROVE  SoundRecord(r) /\ r.st # "completed" /\ r.grant = scope[s].grant /\ r.cap = scope[s].cap
  BY <1>5, ConsumeFields
<1>6. ASSUME Complete(s), scope[s] \in Records, r = CompleteOf(scope[s])
      PROVE  ~Active(r) /\ SoundRecord(r) /\ r.grant = scope[s].grant /\ r.cap = scope[s].cap
  BY <1>6, CompleteFields
<1>7. ASSUME scope[s] \in Records, r = ExpireOf(scope[s])
      PROVE  ~Active(r) /\ SoundRecord(r) /\ r.st = scope[s].st /\ r.grant = scope[s].grant
             /\ r.cap = scope[s].cap
  BY <1>7, ExpireFields
<1> QED BY <1>1, <1>2, <1>3, <1>4, <1>5, <1>6, <1>7, RowTypes DEF Row

(* A scope is active after a step only if it was before, or by a grant;    *)

(* and the only row of a scope that stays active is a charge.              *)
LEMMA ActiveStep ==
  ASSUME ActiveInv, [Next]_vars, NEW s \in Scopes, Active(scope'[s])
  PROVE  \/ GrantOf(s) /\ scope'[s].st = "approved"
         \/ /\ scope[s] \in Records /\ Active(scope[s])
            /\ \/ scope'[s] = scope[s]
               \/ Charge(s) /\ scope'[s] = ConsumeOf(scope[s])
<1>1. Row(s, scope'[s]) /\ scope[s] \in Records \cup {None}
  BY ScopeStep DEF RowsWritten, ActiveInv, TypeOK
<1>2. scope[s] \in Records => SoundRecord(scope[s])
  BY RowTypes DEF ActiveInv, Sound
<1>3. \/ GrantOf(s) /\ scope'[s].st = "approved"
      \/ scope'[s] = scope[s]
      \/ Charge(s) /\ scope[s] \in Records /\ scope'[s] = ConsumeOf(scope[s])
  BY <1>1, <1>2, RowEffect
<1>4. CASE scope'[s] = scope[s]
  BY <1>1, <1>4 DEF Active
<1>5. CASE Charge(s) /\ scope[s] \in Records /\ scope'[s] = ConsumeOf(scope[s])
  <2>1. scope[s].st # "completed"
    BY <1>5 DEF ActiveInv, ChargeOpen, Charge
  <2> QED BY <1>2, <1>5, <2>1, ConsumeFields
<1> QED BY <1>3, <1>4, <1>5

(* Records stay sound, and nothing is completed under a running charge.    *)
LEMMA ActiveInvStep == ActiveInv /\ [Next]_vars => ActiveInv'
<1> SUFFICES ASSUME ActiveInv, [Next]_vars PROVE ActiveInv'
  OBVIOUS
<1>1. TypeOK /\ TypeOK' /\ RowsWritten
  BY TypeStep, ScopeStep DEF ActiveInv
<1>2. ASSUME NEW s \in Scopes
      PROVE  /\ scope[s] \in Records \cup {None} /\ Row(s, scope'[s])
             /\ scope[s] \in Records => SoundRecord(scope[s])
  BY <1>1, RowTypes DEF TypeOK, RowsWritten, ActiveInv, Sound
<1>3. Sound'
  <2> SUFFICES ASSUME NEW s \in Scopes, scope'[s] # None PROVE SoundRecord(scope'[s])
    BY DEF Sound
  <2> QED BY <1>2, RowEffect
<1>4. ChargeOpen'
  <2>1. run \in Runs /\ run' \in Runs
    BY <1>1 DEF TypeOK
  <2>2. CASE ReadCharges
    <3> DEFINE due == UNION {OfLabel(l) : l \in {k \in Labels : Usable(k)}}
    <3>1. /\ run' = [run EXCEPT !.pc = "charging", !.charged = TRUE, !.todo = due]
          /\ scope' = scope
      BY <2>2 DEF ReadCharges
    <3>2. \A s \in due : scope[s].st # "completed"
      BY DEF Usable, Active, Granted
    <3>3. run'.todo = due
      BY <2>1, <3>1 DEF Runs
    <3> QED BY <3>1, <3>2, <3>3 DEF ChargeOpen
  <2>3. CASE ChargeFails
    BY <2>1, <2>3 DEF ChargeFails, Runs, ChargeOpen
  <2>4. ASSUME NEW z \in Scopes, Charge(z) PROVE ChargeOpen'
    <3>1. run' = [run EXCEPT !.todo = @ \ {z}] /\ scope' = [scope EXCEPT ![z] = ConsumeOf(@)]
            /\ run.pc = "charging"
      BY <2>4 DEF Charge, ConsumeRow
    <3>2. run'.todo = run.todo \ {z} /\ run.todo \subseteq Scopes
      BY <2>1, <3>1 DEF Runs
    <3>3. \A s \in Scopes \ {z} : scope'[s] = scope[s]
      BY <1>1, <3>1 DEF TypeOK
    <3> QED BY <3>1, <3>2, <3>3 DEF ChargeOpen, ActiveInv
  <2>5. ASSUME run' = run PROVE ChargeOpen'
    <3> SUFFICES ASSUME run.pc = "charging", NEW s \in run.todo PROVE scope'[s].st # "completed"
      BY <2>5 DEF ChargeOpen
    <3>1. s \in Scopes /\ scope[s] \in Records /\ scope[s].st # "completed"
      BY <1>1, <1>2, <2>1 DEF Runs, TypeOK, ActiveInv, ChargeOpen
    <3>2. CASE scope'[s].st = "completed"
      <4>1. Complete(s)
        BY <1>2, <3>1, <3>2, RowEffect
      <4> QED BY <4>1 DEF Complete
    <3> QED BY <3>2
  <2>6. ASSUME run' # run, ~ReadCharges, ~ChargeFails, ~\E z \in Scopes : Charge(z)
        PROVE  run'.pc # "charging"
    BY <1>1, <2>6, RunMoves DEF Moves, Keeps, Idle
  <2> QED BY <2>2, <2>3, <2>4, <2>5, <2>6 DEF ChargeOpen
<1> QED BY <1>1, <1>3, <1>4 DEF ActiveInv

(* The invariant of the records holds of every reachable state.            *)
LEMMA ActiveInvariant == Spec => []ActiveInv
<1>1. Init => Sound /\ ChargeOpen
  BY DEF Init, Sound, ChargeOpen, Idle
<1>2. Init /\ TypeOK => ActiveInv
  BY <1>1 DEF ActiveInv
<1> QED BY <1>2, ActiveInvStep, ApprovalTypes, PTL DEF Spec

(* ActiveOnlyByGrant, for any number of scopes and any interleaving of the *)

(* operator with the dispatch: the rows a dispatch writes from an earlier  *)
(* read (charges, completions, requests of the gate) activate no scope.    *)
THEOREM ActivationByGrant == Spec => ActiveOnlyByGrant
<1>1. ASSUME ActiveInv, [Next]_vars, NEW s \in Scopes, ~Active(scope[s]), Active(scope'[s])
      PROVE  /\ EvalState(scope[s]) = "requested"
             /\ scope'[s].st = "approved" /\ orders' = orders + 1
  <2>1. GrantOf(s) /\ scope'[s].st = "approved"
    BY <1>1, ActiveStep
  <2> QED BY <2>1 DEF GrantOf, grant, Order
<1> DEFINE Stays == [\A s \in Scopes : ~Active(scope[s]) /\ Active(scope'[s]) =>
                     /\ EvalState(scope[s]) = "requested"
                     /\ scope'[s].st = "approved" /\ orders' = orders + 1]_vars
<1>2. ActiveInv /\ [Next]_vars => Stays
  BY <1>1
<1> QED BY <1>2, ActiveInvariant, PTL DEF Spec, ActiveOnlyByGrant

-----------------------------------------------------------------------------
(* The cap of a grant *)

\* Scope s of the records f is active and the only one of its label.
Sole(f, s) ==
  /\ f[s] \in Records /\ Active(f[s])
  /\ \A z \in Scopes : z[1] = s[1] /\ f[z] # None => z = s

\* Dispatch r has started an attempt with the credential of s, which it has
\* yet to charge.
PendingIn(r, s) ==
  /\ s[1] \in r.allowed
  /\ r.pc \in {"run", "charge"} \/ (r.pc = "charging" /\ s \in r.todo)

(* A label is usable if one of its scopes is active and it has no other:   *)

(* what the cardinality in Usable says.                                    *)
LEMMA UsableSole ==
  ASSUME TypeOK
  PROVE  /\ \A l \in Labels : Usable(l) => \E s \in Scopes : s[1] = l /\ Sole(scope, s)
         /\ \A s \in Scopes : Sole(scope, s) => Usable(s[1]) /\ s \in OfLabel(s[1])
<1>1. ASSUME NEW l \in Labels, Usable(l)
      PROVE  \E s \in Scopes : s[1] = l /\ Sole(scope, s)
  <2>1. IsFiniteSet({l} \X Operations)
    BY FS_Singleton, FS_Product
  <2>2. OfLabel(l) \subseteq {l} \X Operations
    BY DEF OfLabel, Scopes
  <2>3. IsFiniteSet(OfLabel(l))
    BY <2>1, <2>2, FS_Subset
  <2>4. PICK s : OfLabel(l) = {s}
    BY <1>1, <2>3, FS_Singleton DEF Usable
  <2>5. s \in Scopes /\ s[1] = l /\ scope[s] # None /\ Active(scope[s])
    BY <1>1, <2>4 DEF Usable, OfLabel
  <2>6. \A z \in Scopes : z[1] = s[1] /\ scope[z] # None => z = s
    BY <2>4, <2>5 DEF OfLabel
  <2> QED BY <2>5, <2>6 DEF TypeOK, Sole
<1>2. ASSUME NEW s \in Scopes, Sole(scope, s)
      PROVE  Usable(s[1]) /\ s \in OfLabel(s[1])
  <2>1. OfLabel(s[1]) = {s}
    BY <1>2, RowTypes DEF OfLabel, Sole
  <2>2. Cardinality({s}) = 1
    BY FS_Singleton
  <2> QED BY <1>2, <2>1, <2>2 DEF Usable, Sole
<1> QED BY <1>1, <1>2

(* A scope that is its label's sole one after a step was so before, with   *)

(* the same record or one more charge, or it has just been granted.        *)
LEMMA SoleStep ==
  ASSUME ActiveInv, [Next]_vars, NEW s \in Scopes, Sole(scope', s)
  PROVE  \/ GrantOf(s) /\ scope'[s].st = "approved"
         \/ /\ Sole(scope, s)
            /\ \/ scope'[s] = scope[s]
               \/ Charge(s) /\ scope'[s] = ConsumeOf(scope[s])
<1>1. \A z \in Scopes : scope[z] # None => scope'[z] # None
  BY ScopeType DEF ActiveInv
<1> QED BY <1>1, ActiveStep DEF Sole

(* A grant sets the attempts of its label to none and forgets a fault of   *)

(* the grant before it.                                                    *)
LEMMA GrantEffect ==
  ASSUME TypeOK, NEW s \in Scopes, GrantOf(s)
  PROVE  /\ run' = run /\ launched'[s[1]] = 0 /\ unpaid'[s[1]] = 0
         /\ scope[s] # None
         /\ \A l \in Labels \ {s[1]} : launched'[l] = launched[l] /\ (l \in lost => l \in lost')
         /\ run.pc # "idle" => s[1] \in fresh'
<1>1. s[1] \in Labels
  BY DEF Scopes
<1>2. launched \in [Labels -> Nat] /\ unpaid \in [Labels -> Nat]
  BY DEF TypeOK
<1> QED BY <1>1, <1>2 DEF GrantOf, grant

(* Without a grant of its label, an attempt is counted only as it starts,  *)

(* and what is known of faults and of new grants stays known until the     *)
(* next dispatch.                                                          *)
LEMMA CountStep ==
  ASSUME TypeOK, [Next]_vars, NEW l \in Labels,
         \A z \in Scopes : z[1] = l => ~GrantOf(z)
  PROVE  /\ l \in lost => l \in lost'
         /\ l \in fresh => l \in fresh' \/ Starts
         /\ \/ launched'[l] = launched[l] /\ unpaid'[l] = unpaid[l]
            \/ /\ Uncharged /\ launched'[l] = launched[l]
               /\ unpaid'[l] = IF l \in run.allowed /\ launched[l] > unpaid[l]
                               THEN unpaid[l] + 1 ELSE unpaid[l]
            \/ /\ run.pc = "check" /\ run'.pc = "run" /\ l \in run.allowed
               /\ run'.allowed = run.allowed /\ launched'[l] = launched[l] + 1
               /\ unpaid'[l] = unpaid[l]
<1>1. launched \in [Labels -> Nat] /\ unpaid \in [Labels -> Nat] /\ run \in Runs
  BY DEF TypeOK
<1>2. ASSUME NEW z \in Scopes, NEW t \in Terms, grant(z, t)
      PROVE  /\ launched'[l] = launched[l] /\ unpaid'[l] = unpaid[l]
             /\ (l \in lost => l \in lost') /\ (l \in fresh => l \in fresh')
  <2>1. z[1] # l
    BY <1>2 DEF GrantOf
  <2> QED BY <1>1, <1>2, <2>1 DEF grant
<1>3. ASSUME NEW ok \in BOOLEAN, CheckGaps(ok)
      PROVE  /\ lost' = lost /\ fresh' = fresh /\ unpaid' = unpaid
             /\ \/ launched'[l] = launched[l]
                \/ /\ run.pc = "check" /\ run'.pc = "run" /\ l \in run.allowed
                   /\ run'.allowed = run.allowed /\ launched'[l] = launched[l] + 1
  <2>1. CASE Gaps(ok) # {}
    BY <1>3, <2>1 DEF CheckGaps
  <2>2. CASE Gaps(ok) = {}
    <3>1. /\ run' = [run EXCEPT !.pc = "run", !.used = @ \cup run.allowed]
          /\ launched' = [k \in Labels |-> launched[k] + IF k \in run.allowed THEN 1 ELSE 0]
          /\ run.pc = "check" /\ lost' = lost /\ fresh' = fresh /\ unpaid' = unpaid
      BY <1>3, <2>2 DEF CheckGaps
    <3>2. run'.pc = "run" /\ run'.allowed = run.allowed
      BY <1>1, <3>1 DEF Runs
    <3>3. launched'[l] = launched[l] + IF l \in run.allowed THEN 1 ELSE 0
      BY <3>1
    <3>4. launched[l] \in Nat
      BY <1>1
    <3> QED BY <3>1, <3>2, <3>3, <3>4
  <2> QED BY <2>1, <2>2
<1>4. CASE Starts
  BY <1>4 DEF Starts, Start
<1>6. CASE Uncharged
  BY <1>1, <1>6 DEF Uncharged, AttemptUncharged
<1>5. ASSUME ~\E z \in Scopes, t \in Terms : grant(z, t), ~\E ok \in BOOLEAN : CheckGaps(ok),
             ~Starts, ~Uncharged
      PROVE  launched' = launched /\ unpaid' = unpaid /\ lost \subseteq lost' /\ fresh' = fresh
  BY <1>5 DEF Next, Operator, clear_attempts, request, end, TimePasses, vars, Dispatch,
    ReadCharges, ChargeFails, PauseEnds, ReadCompletes, CompleteFails, DispatchEnds, Crash,
    ReadEnv, GapRefused, BackendEnds, Raise, AppendRow, Charge, Complete,
    ReadForRaise, RaiseReadFails, AttemptEnds, Starts, Uncharged
<1> QED BY <1>2, <1>3, <1>4, <1>5, <1>6

(* The attempts of a usable label are all charged, but the pending one and *)
(* those that ended without a charge.                                      *)
Owed ==
  \A s \in Scopes : s[1] \notin lost /\ Sole(scope, s)
    => launched[s[1]] <= scope[s].used + unpaid[s[1]] + IF PendingIn(run, s) THEN 1 ELSE 0

(* Between the two reads of an attempt, a label it was given has room for  *)
(* it under the cap, even if the label is no longer usable.                *)
Armed ==
  run.pc = "check" =>
    \A s \in Scopes : s[1] \in run.allowed \ lost /\ scope[s] # None =>
      (scope[s].grant /\ scope[s].cap > 0 => launched[s[1]] < scope[s].cap + unpaid[s[1]])

(* The labels of a started attempt are among those the dispatch used.      *)
AllowedUsed == run.pc \in {"run", "charge", "charging"} => run.allowed \subseteq run.used

CapInv == ActiveInv /\ AllowedUsed /\ Owed /\ Armed /\ CapHolds

(* A started attempt stays pending until its scope is charged, unless a    *)
(* fault is noted or it ends without a charge.                             *)
LEMMA PendingStep ==
  ASSUME TypeOK, AllowedUsed, [Next]_vars, NEW s \in Scopes, Sole(scope, s),
         s[1] \notin lost', ~Charge(s), ~Uncharged, PendingIn(run, s)
  PROVE  PendingIn(run', s)
<1>1. Moves
  BY RunMoves
<1>2. s[1] \in run.allowed /\ s[1] \in run.used /\ run.pc \in {"run", "charge", "charging"}
  BY DEF PendingIn, AllowedUsed
<1>3. CASE CompleteFails \/ DispatchEnds \/ Crash
  BY <1>2, <1>3 DEF CompleteFails, DispatchEnds, Crash
<1>4. CASE ReadCharges /\ run.pc = "charge" /\ run'.pc = "charging"
             /\ run'.allowed = run.allowed /\ run'.used = run.used
             /\ run'.todo = UNION {OfLabel(l) : l \in {k \in Labels : Usable(k)}}
  <2>1. Usable(s[1]) /\ s \in OfLabel(s[1]) /\ s[1] \in Labels
    BY UsableSole DEF Scopes
  <2>2. s \in run'.todo
    BY <1>4, <2>1
  <2> QED BY <1>2, <1>4, <2>2 DEF PendingIn, Keeps
<1>5. ASSUME NEW z \in Scopes, Charge(z), Keeps({"charging"}, {"charging"}),
             run'.todo = run.todo \ {z}
      PROVE  PendingIn(run', s)
  <2>1. z # s
    BY <1>5
  <2> QED BY <1>5, <2>1 DEF PendingIn, Keeps
<1> QED BY <1>1, <1>2, <1>3, <1>4, <1>5 DEF Moves, Keeps, PendingIn

(* Every step keeps the account of the attempts.                           *)
LEMMA CapInvStep == CapInv /\ [Next]_vars => CapInv'
<1> SUFFICES ASSUME CapInv, [Next]_vars PROVE CapInv'
  OBVIOUS
<1>1. ActiveInv /\ ActiveInv' /\ TypeOK /\ TypeOK' /\ Moves
  BY ActiveInvStep, RunMoves DEF CapInv, ActiveInv
<1>2. /\ run \in Runs /\ run' \in Runs
      /\ launched \in [Labels -> Nat] /\ launched' \in [Labels -> Nat]
      /\ unpaid \in [Labels -> Nat] /\ unpaid' \in [Labels -> Nat]
      /\ \A s \in Scopes : s[1] \in Labels
  BY <1>1 DEF TypeOK, Scopes
<1>3. AllowedUsed'
  BY <1>1, <1>2 DEF CapInv, AllowedUsed, Moves, Keeps, Idle
<1>4. Owed'
  <2> SUFFICES ASSUME NEW s \in Scopes, s[1] \notin lost', Sole(scope', s)
               PROVE  launched'[s[1]] <= scope'[s].used + unpaid'[s[1]]
                                           + IF PendingIn(run', s) THEN 1 ELSE 0
    BY DEF Owed
  <2>1. /\ scope'[s].used \in Nat /\ launched'[s[1]] \in Nat /\ launched[s[1]] \in Nat
        /\ unpaid[s[1]] \in Nat /\ unpaid'[s[1]] \in Nat
    BY <1>2 DEF Sole, Records
  <2>2. CASE GrantOf(s)
    BY <1>1, <2>1, <2>2, GrantEffect
  <2>3. CASE ~GrantOf(s)
    <3>1. Sole(scope, s) /\ \/ scope'[s] = scope[s]
                            \/ Charge(s) /\ scope'[s] = ConsumeOf(scope[s])
      BY <1>1, <2>3, SoleStep
    <3>2. \A z \in Scopes : z[1] = s[1] => ~GrantOf(z)
      BY <1>1, <2>3, <3>1, GrantEffect DEF Sole
    <3>3. s[1] \notin lost
      BY <1>1, <1>2, <3>2, CountStep
    <3>4. /\ launched[s[1]] <= scope[s].used + unpaid[s[1]] + IF PendingIn(run, s) THEN 1 ELSE 0
          /\ scope[s].used \in Nat
      BY <3>1, <3>3 DEF CapInv, Owed, Sole, Records
    <3>5. CASE Charge(s) /\ scope'[s] = ConsumeOf(scope[s])
      <4>1. scope'[s].used = scope[s].used + 1
        BY <3>1, <3>5, ConsumeFields DEF Sole
      <4>2. launched' = launched /\ unpaid' = unpaid
        BY <3>5 DEF Charge
      <4> QED BY <2>1, <3>4, <4>1, <4>2
    <3>6. CASE ~Charge(s) /\ scope'[s] = scope[s]
      <4>1. ~Uncharged /\ PendingIn(run, s) => PendingIn(run', s)
        BY <1>1, <3>1, <3>6, PendingStep DEF CapInv
      <4>2. CASE /\ ~Uncharged
                 /\ launched'[s[1]] = launched[s[1]] /\ unpaid'[s[1]] = unpaid[s[1]]
        BY <2>1, <3>4, <3>6, <4>1, <4>2
      <4>4. CASE Uncharged
        <5>1. /\ launched'[s[1]] = launched[s[1]]
              /\ unpaid'[s[1]] = IF s[1] \in run.allowed /\ launched[s[1]] > unpaid[s[1]]
                                 THEN unpaid[s[1]] + 1 ELSE unpaid[s[1]]
          BY <1>2, <4>4 DEF Uncharged, AttemptUncharged
        <5>2. PendingIn(run, s) => s[1] \in run.allowed
          BY DEF PendingIn
        <5>3. launched[s[1]] <= scope[s].used + unpaid'[s[1]]
          BY <2>1, <3>4, <5>1, <5>2
        <5> QED BY <2>1, <3>4, <3>6, <5>1, <5>3
      <4>3. CASE /\ run.pc = "check" /\ run'.pc = "run" /\ s[1] \in run.allowed
                 /\ run'.allowed = run.allowed /\ launched'[s[1]] = launched[s[1]] + 1
                 /\ unpaid'[s[1]] = unpaid[s[1]]
        <5>1. ~PendingIn(run, s) /\ PendingIn(run', s)
          BY <4>3 DEF PendingIn
        <5> QED BY <2>1, <3>4, <3>6, <4>3, <5>1
      <4> QED BY <1>1, <1>2, <3>2, <4>2, <4>3, <4>4, CountStep
    <3>7. CASE Charge(s) /\ scope'[s] = scope[s]
      <4>1. scope'[s] = ConsumeOf(scope[s])
        BY <1>1, <3>7 DEF Charge, ConsumeRow, TypeOK
      <4> QED BY <3>5, <3>7, <4>1
    <3> QED BY <3>1, <3>5, <3>6, <3>7
  <2> QED BY <2>2, <2>3
<1>5. ASSUME NEW s \in Scopes, s[1] \notin lost', scope'[s] # None, scope'[s].grant,
             scope'[s].cap > 0
      PROVE  \/ launched'[s[1]] < scope'[s].cap + unpaid'[s[1]]
             \/ /\ scope[s] \in Records /\ scope[s].grant /\ scope'[s].cap = scope[s].cap
                /\ s[1] \notin lost /\ unpaid[s[1]] <= unpaid'[s[1]]
                /\ \/ launched'[s[1]] = launched[s[1]]
                   \/ /\ run.pc = "check" /\ run'.pc = "run" /\ s[1] \in run.allowed
                      /\ launched'[s[1]] = launched[s[1]] + 1
  <2>0. scope'[s].cap \in Nat /\ unpaid[s[1]] \in Nat /\ unpaid'[s[1]] \in Nat
    BY <1>1, <1>2, <1>5 DEF TypeOK, Records
  <2>1. CASE \E z \in Scopes : z[1] = s[1] /\ GrantOf(z)
    <3>1. launched'[s[1]] = 0 /\ unpaid'[s[1]] = 0
      BY <1>1, <2>1, GrantEffect
    <3> QED BY <1>5, <2>0, <3>1
  <2>2. CASE \A z \in Scopes : z[1] = s[1] => ~GrantOf(z)
    <3>1. /\ Row(s, scope'[s]) /\ scope[s] \in Records \cup {None}
          /\ scope[s] \in Records => SoundRecord(scope[s])
      BY <1>1, ScopeStep, RowTypes DEF RowsWritten, TypeOK, ActiveInv, Sound
    <3>2. scope[s] \in Records /\ scope[s].grant /\ scope'[s].cap = scope[s].cap
      BY <1>5, <2>2, <3>1, RowEffect
    <3>3. /\ s[1] \notin lost /\ unpaid[s[1]] <= unpaid'[s[1]]
          /\ \/ launched'[s[1]] = launched[s[1]]
             \/ /\ run.pc = "check" /\ run'.pc = "run" /\ s[1] \in run.allowed
                /\ launched'[s[1]] = launched[s[1]] + 1
      BY <1>1, <1>2, <1>5, <2>0, <2>2, CountStep
    <3> QED BY <3>2, <3>3
  <2> QED BY <2>1, <2>2
<1>6. ASSUME NEW s \in Scopes, scope[s] \in Records
      PROVE  /\ scope[s] # None /\ scope[s].cap \in Nat /\ launched[s[1]] \in Nat
             /\ unpaid[s[1]] \in Nat /\ unpaid'[s[1]] \in Nat
  BY <1>2, <1>6, RowTypes DEF Records
<1>7. CapHolds'
  <2> SUFFICES ASSUME NEW s \in Scopes, scope'[s] # None, s[1] \notin lost', scope'[s].grant,
                      scope'[s].cap > 0
               PROVE  launched'[s[1]] <= scope'[s].cap + unpaid'[s[1]]
    BY DEF CapHolds
  <2>1. launched'[s[1]] \in Nat /\ unpaid'[s[1]] \in Nat /\ scope'[s].cap \in Nat
    BY <1>1, <1>2 DEF TypeOK, Records
  <2>2. CASE launched'[s[1]] < scope'[s].cap + unpaid'[s[1]]
    BY <2>1, <2>2
  <2>3. CASE /\ scope[s] \in Records /\ scope[s].grant /\ scope'[s].cap = scope[s].cap
             /\ s[1] \notin lost /\ unpaid[s[1]] <= unpaid'[s[1]]
             /\ \/ launched'[s[1]] = launched[s[1]]
                \/ /\ run.pc = "check" /\ run'.pc = "run" /\ s[1] \in run.allowed
                   /\ launched'[s[1]] = launched[s[1]] + 1
    <3>1. launched[s[1]] <= scope[s].cap + unpaid[s[1]]
      BY <1>6, <2>3 DEF CapInv, CapHolds
    <3>2. run.pc = "check" /\ s[1] \in run.allowed => launched[s[1]] < scope[s].cap + unpaid[s[1]]
      BY <1>6, <2>3 DEF CapInv, Armed
    <3> QED BY <1>6, <2>3, <3>1, <3>2
  <2> QED BY <1>5, <2>2, <2>3
<1>8. Armed'
  <2> SUFFICES ASSUME run'.pc = "check", NEW s \in Scopes, s[1] \in run'.allowed \ lost',
                      scope'[s] # None, scope'[s].grant, scope'[s].cap > 0
               PROVE  launched'[s[1]] < scope'[s].cap + unpaid'[s[1]]
    BY DEF Armed
  <2>1. CASE /\ scope[s] \in Records /\ scope[s].grant /\ scope'[s].cap = scope[s].cap
             /\ s[1] \notin lost /\ unpaid[s[1]] <= unpaid'[s[1]] /\ launched'[s[1]] = launched[s[1]]
    <3>1. CASE run' = run
      BY <1>6, <2>1, <3>1 DEF CapInv, Armed
    <3>2. CASE run.pc = "env" /\ run'.allowed \subseteq active_external_approval_env_vars
      <4>1. Usable(s[1])
        BY <3>2 DEF active_external_approval_env_vars
      <4>2. Sole(scope, s)
        BY <1>1, <1>2, <1>6, <2>1, <4>1, UsableSole DEF Sole
      <4>3. launched[s[1]] <= scope[s].used + unpaid[s[1]] /\ scope[s].used \in Nat
        BY <1>6, <2>1, <3>2, <4>2 DEF CapInv, Owed, PendingIn, Records
      <4>4. scope[s].used < scope[s].cap
        BY <1>6, <2>1, <4>2, <4>3 DEF Sole, Active, CapReached
      <4> QED BY <1>6, <2>1, <4>3, <4>4
    <3>3. run' = run \/ (run.pc = "env" /\ run'.allowed \subseteq active_external_approval_env_vars)
      BY <1>1 DEF Moves, Keeps, Idle
    <3> QED BY <3>1, <3>2, <3>3
  <2> QED BY <1>5, <2>1
<1> QED BY <1>1, <1>3, <1>4, <1>7, <1>8 DEF CapInv

(* The account of the attempts holds of every reachable state.             *)
LEMMA CapInvariant == Spec => []CapInv
<1>1. Init /\ ActiveInv => CapInv
  <2> SUFFICES ASSUME Init, ActiveInv PROVE CapInv
    OBVIOUS
  <2>1. \A s \in Scopes : scope[s] = None
    BY DEF Init
  <2>2. AllowedUsed /\ Owed /\ Armed
    BY <2>1, RowTypes DEF Init, Idle, AllowedUsed, Owed, Armed, Sole
  <2>3. CapHolds
    BY <2>1 DEF CapHolds
  <2> QED BY <2>2, <2>3 DEF CapInv
<1> QED BY <1>1, CapInvStep, ActiveInvariant, PTL DEF Spec

(* CapHolds, for every cap and any number of attempts, dispatches and      *)
(* operator commands: the attempts that are charged, and the one that is   *)
(* about to be, stay within the cap of the grant, though the record is     *)
(* read before the attempt and charged after it; what exceeds the cap are  *)
(* attempts that ended on a path without a charge.                         *)
THEOREM CapRespected == Spec => []CapHolds
<1>1. CapInv => CapHolds
  BY DEF CapInv
<1> QED BY <1>1, CapInvariant, PTL

-----------------------------------------------------------------------------
(* After a successful dispatch *)

(* Once the dispatch has read what to charge, every usable label that was  *)
(* not granted meanwhile has been charged or is being charged; once the    *)
(* completions are read, its scope is among them.                          *)
Spending ==
  run.charged => \A s \in Scopes : s[1] \notin fresh \cup lost /\ Sole(scope, s)
    => IF run.pc = "completing" THEN s \in run.todo
       ELSE scope[s].used > 0 \/ (run.pc = "charging" /\ s \in run.todo)

IdleRun == run.pc = "idle" => ~run.charged

SpendInv == ActiveInv /\ Spending /\ IdleRun

(* Every step keeps it.                                                    *)
LEMMA SpendInvStep == SpendInv /\ [Next]_vars => SpendInv'
<1> SUFFICES ASSUME SpendInv, [Next]_vars PROVE SpendInv'
  OBVIOUS
<1>1. ActiveInv /\ ActiveInv' /\ TypeOK /\ TypeOK' /\ Moves
  BY ActiveInvStep, RunMoves DEF SpendInv, ActiveInv
<1>2. run \in Runs /\ run' \in Runs /\ \A s \in Scopes : s[1] \in Labels
  BY <1>1 DEF TypeOK, Scopes
<1>3. IdleRun'
  BY <1>1 DEF SpendInv, IdleRun, Moves, Keeps, Idle
<1>4. Spending'
  <2> SUFFICES ASSUME run'.charged, NEW s \in Scopes, s[1] \notin fresh' \cup lost', Sole(scope', s)
               PROVE  IF run'.pc = "completing" THEN s \in run'.todo
                      ELSE scope'[s].used > 0 \/ (run'.pc = "charging" /\ s \in run'.todo)
    BY DEF Spending
  <2>1. ~GrantOf(s)
    BY <1>1, GrantEffect DEF SpendInv, IdleRun
  <2>2. Sole(scope, s) /\ \/ scope'[s] = scope[s]
                          \/ Charge(s) /\ scope'[s] = ConsumeOf(scope[s])
    BY <1>1, <2>1, SoleStep
  <2>3. \A z \in Scopes : z[1] = s[1] => ~GrantOf(z)
    BY <1>1, <2>1, <2>2, GrantEffect DEF Sole
  <2>4. ~Starts
    BY DEF Starts, Start, Idle
  <2>5. s[1] \notin fresh \cup lost
    BY <1>1, <1>2, <2>3, <2>4, CountStep
  <2>6. scope[s] \in Records /\ Active(scope[s]) /\ scope[s].used \in Nat /\ SoundRecord(scope[s])
    BY <1>1, <2>2, RowTypes DEF Sole, Records, ActiveInv, Sound
  <2>7. CASE Charge(s)
    <3>1. scope'[s] = ConsumeOf(scope[s])
      BY <1>1, <2>7 DEF Charge, ConsumeRow, TypeOK
    <3>2. scope'[s].used > 0
      BY <2>6, <3>1, ConsumeFields
    <3>3. run'.pc = "charging"
      BY <1>2, <2>7 DEF Charge, Runs
    <3> QED BY <3>2, <3>3
  <2>8. CASE ReadCharges
    <3> DEFINE due == UNION {OfLabel(l) : l \in {k \in Labels : Usable(k)}}
    <3>1. Usable(s[1]) /\ s \in OfLabel(s[1]) /\ s[1] \in Labels
      BY <1>1, <1>2, <2>2, UsableSole
    <3>2. s \in due
      BY <3>1
    <3>3. run' = [run EXCEPT !.pc = "charging", !.charged = TRUE, !.todo = due]
      BY <2>8 DEF ReadCharges
    <3> HIDE DEF due
    <3>4. run'.pc = "charging" /\ run'.todo = due
      BY <1>2, <3>3 DEF Runs
    <3> QED BY <3>2, <3>4
  <2>9. CASE ~Charge(s) /\ ~ReadCharges
    <3>11. run' # Idle
      BY DEF Idle
    <3>12. run'.charged = run.charged
      BY <1>1, <2>4, <2>9, <3>11 DEF Moves, Keeps
    <3>0. run.charged
      BY <3>12
    <3>1. IF run.pc = "completing" THEN s \in run.todo
          ELSE scope[s].used > 0 \/ (run.pc = "charging" /\ s \in run.todo)
      BY <2>2, <2>5, <3>0 DEF SpendInv, Spending
    <3>2. scope'[s] = scope[s]
      BY <2>2, <2>9
    <3>3. CASE run' = run
      BY <3>1, <3>2, <3>3
    <3>4. CASE scope[s].used > 0 /\ run'.pc # "completing"
      BY <3>2, <3>4
    <3>5. ASSUME NEW z \in Scopes, Charge(z), run'.pc = "charging", run.pc = "charging",
                 run'.todo = run.todo \ {z}
          PROVE  scope'[s].used > 0 \/ s \in run'.todo
      BY <2>9, <3>1, <3>2, <3>5
    <3>6. CASE ReadCompletes /\ Keeps({"complete"}, {"completing"})
               /\ run'.todo = {z \in Scopes : Completable(scope[z])}
      <4>1. scope[s].used > 0
        BY <3>1, <3>6 DEF Keeps
      <4>2. Ended(scope[s]) = "no" /\ ~CapReached(scope[s]) /\ scope[s].st = "consumed"
        BY <2>6, <4>1, ActiveFields DEF Active, Granted, SoundRecord
      <4>3. Completable(scope[s])
        BY <2>6, <4>1, <4>2, RowTypes DEF Completable, EvalState
      <4> QED BY <3>6, <4>3 DEF Keeps
    <3>7. ASSUME NEW z \in Scopes, Complete(z), run.pc = "completing", run'.pc = "completing",
                 run'.todo = run.todo \ {z}
          PROVE  s \in run'.todo
      <4>1. z # s
        <5>1. Complete(s) => scope'[s] = CompleteOf(scope[s])
          BY <1>1 DEF Complete, CompleteRow, TypeOK
        <5> QED BY <2>6, <3>7, <5>1, CompleteFields DEF Sole
      <4> QED BY <3>1, <3>7, <4>1
    <3>8. CASE ChargeFails /\ Keeps({"charge", "charging"}, {"charging"})
               /\ lost' = lost \cup run.allowed \cup {z[1] : z \in run.todo}
      <4>1. s \notin run.todo
        BY <3>8
      <4> QED BY <3>1, <3>2, <3>8, <4>1 DEF Keeps
    <3>9. CASE Keeps({"charging"}, {"env", "row"}) /\ run.todo = {}
      BY <3>1, <3>2, <3>9 DEF Keeps
    <3>10. \/ run' = run
           \/ run.pc \notin {"charging", "completing"} /\ run'.pc # "completing"
           \/ \E z \in Scopes : /\ Charge(z) /\ run'.pc = "charging" /\ run.pc = "charging"
                                /\ run'.todo = run.todo \ {z}
           \/ ReadCompletes /\ Keeps({"complete"}, {"completing"})
                /\ run'.todo = {z \in Scopes : Completable(scope[z])}
           \/ \E z \in Scopes : /\ Complete(z) /\ run.pc = "completing" /\ run'.pc = "completing"
                                /\ run'.todo = run.todo \ {z}
           \/ ChargeFails /\ Keeps({"charge", "charging"}, {"charging"})
                /\ lost' = lost \cup run.allowed \cup {z[1] : z \in run.todo}
           \/ Keeps({"charging"}, {"env", "row"}) /\ run.todo = {}
      BY <1>1, <2>4, <2>9, <3>11 DEF Moves, Keeps
    <3> QED BY <3>1, <3>3, <3>4, <3>5, <3>6, <3>7, <3>8, <3>9, <3>10
  <2> QED BY <2>7, <2>8, <2>9
<1> QED BY <1>1, <1>3, <1>4 DEF SpendInv

(* SpentAfterSuccess, for any number of labels, attempts and dispatches:   *)
(* when a dispatch that charged an attempt ends well, every label that was *)
(* usable has been charged and is completed, so none of them is usable by  *)
(* the next dispatch without a new grant.                                  *)
THEOREM GrantSpent == Spec => SpentAfterSuccess
<1>1. Init /\ ActiveInv => SpendInv
  BY DEF Init, SpendInv, Spending, IdleRun, Idle
<1>2. Spec => []SpendInv
  BY <1>1, SpendInvStep, ActiveInvariant, PTL DEF Spec
<1>3. ASSUME SpendInv, DispatchEnds, run.charged, NEW l \in Labels
      PROVE  l \in fresh \cup lost \/ ~Usable(l)
  <2>1. TypeOK
    BY <1>3 DEF SpendInv, ActiveInv
  <2> SUFFICES ASSUME l \notin fresh \cup lost, Usable(l) PROVE FALSE
    OBVIOUS
  <2>2. PICK s \in Scopes : s[1] = l /\ Sole(scope, s)
    BY <2>1, UsableSole
  <2> QED BY <1>3, <2>2 DEF SpendInv, Spending, DispatchEnds
<1> DEFINE Spent == [DispatchEnds /\ run.charged
                       => \A l \in Labels : l \in fresh \cup lost \/ ~Usable(l)]_vars
<1>4. SpendInv => Spent
  BY <1>3
<1> QED BY <1>2, <1>4, PTL DEF SpentAfterSuccess
=============================================================================
