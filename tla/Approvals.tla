------------------------------ MODULE Approvals ------------------------------
(***************************************************************************)
(* External approvals of one work item: the scopes folded from the ledger  *)
(* rows (ledger/approvals.rs), the operator's commands, and the dispatch   *)
(* that injects a credential, charges its attempts, pauses for a missing   *)
(* grant and ends the scopes it used.                                      *)
(*                                                                         *)
(* Every ledger row of a scope carries a state, so the state of the folded *)
(* record is that of the scope's last row.  One dispatch of the item runs  *)
(* at a time (WorkClaims, as far as it goes for a plain `gah dispatch`).   *)
(* A label stands for one environment variable that is present in the      *)
(* operator's file.                                                        *)
(*                                                                         *)
(* The workflow of the dispatch decides what becomes of a gap and of an    *)
(* attempt: "improve" stands for improve and fix, "study" for research,    *)
(* estimate and experiment.  pm gets no environment and has nothing to     *)
(* charge.                                                                 *)
(***************************************************************************)
EXTENDS Integers, FiniteSets

CONSTANTS Labels,        \* the declared credential labels
          Operations,    \* operation kinds an operator may name
          EnvOp,         \* "env_credential", the kind the pause gate names
          Configured,    \* max_requests of the declared scope; 0 is none
          Terms,         \* bounds an operator may give: cap, dollars, expires
          MaxAttempts,   \* attempts of one dispatch
          MaxDispatches, \* bound: dispatches of the item
          MaxOrders,     \* bound: operator commands
          MaxFaults      \* bound: crashes, failed reads and failed appends

ASSUME ApprovalAssumption ==
  /\ EnvOp \in Operations /\ IsFiniteSet(Operations)
  /\ Configured \in Nat
  /\ Terms \subseteq [cap : Nat, dollars : BOOLEAN, expires : {"never", "later"}]
  /\ MaxAttempts \in Nat \ {0}
  /\ MaxDispatches \in Nat /\ MaxOrders \in Nat /\ MaxFaults \in Nat

VARIABLES scope,    \* the folded record of every scope
          hold,     \* the gate external_api_approval_required is in force
          run,      \* the dispatch in flight
          launched, \* attempts started with the label's credential since its grant
          unpaid,   \* those among them that ended on a path without a charge
          lost,     \* labels one of whose attempts was not recorded for a fault
          fresh,    \* labels granted while this dispatch runs
          dispatches, orders, faults

vars == <<scope, hold, run, launched, unpaid, lost, fresh, dispatches, orders, faults>>

Modes == {"improve", "study", "review"}

Scopes == Labels \X Operations
Ends == {"revoked", "expired", "denied"}
States == Ends \cup {"requested", "approved", "consumed", "completed"}
None == [st |-> "none"]

\* A record as the fold starts one: from a request or a grant row, or from a
\* row that ends a scope of which no row was seen.
Record(st, granted, t) ==
  [st |-> st, grant |-> granted, used |-> 0, ended |-> {}, reason |-> "none",
   cap |-> t.cap, dollars |-> t.dollars, expires |-> t.expires]

Unbounded == [cap |-> 0, dollars |-> FALSE, expires |-> "never"]

-----------------------------------------------------------------------------
\* Mutant: only the last row of a scope counts.
EndedByLastRow(r) == IF r.st \in Ends THEN r.st
                     ELSE IF r.expires = "past" THEN "expired" ELSE "no"

\* approval_state: flags of earlier rows outlive the state of the last one.
Ended(r) ==
  CASE "revoked" \in r.ended \/ r.st = "revoked" -> "revoked"
    [] "expired" \in r.ended \/ r.st = "expired" \/ r.expires = "past" -> "expired"
    [] "denied" \in r.ended \/ r.st = "denied" -> "denied"
    [] OTHER -> "no"

\* Mutant: one attempt beyond the cap.
CapPassed(r) == \/ r.cap > 0 /\ r.used > r.cap
                \/ r.dollars /\ r.used > 0

CapReached(r) == \/ r.cap > 0 /\ r.used >= r.cap
                 \/ r.dollars /\ r.used > 0

Granted(r) == r.grant /\ r.st \notin {"requested", "completed"} /\ Ended(r) = "no"

Active(r) == r # None /\ Granted(r) /\ ~CapReached(r)

EvalState(r) == IF Ended(r) # "no" THEN Ended(r)
                ELSE IF Granted(r) /\ CapReached(r) THEN "denied" ELSE r.st

\* denial_reason of a scope whose cap was reached, kept by the row of the gate.
DeniedByCap(r) == r.reason = "cap" \/ (Granted(r) /\ CapReached(r))

OfLabel(l) == {s \in Scopes : s[1] = l /\ scope[s] # None}

\* Two operations of one label are ambiguous and give nothing.
Usable(l) == Cardinality(OfLabel(l)) = 1 /\ \A s \in OfLabel(l) : Active(scope[s])

active_external_approval_env_vars == {l \in Labels : Usable(l)}

-----------------------------------------------------------------------------
\* scope_states_from_entries: what one appended row does to its scope.
RequestRow(s, t) ==
  scope' = [scope EXCEPT ![s] = Record("requested", FALSE, t)]

EndOf(r, kind, reason) ==
  IF r = None
  THEN [Record(kind, FALSE, Unbounded) EXCEPT
          !.ended = IF kind = "denied" THEN {kind} ELSE {}, !.reason = reason]
  ELSE [r EXCEPT !.st = kind, !.ended = @ \cup {kind},
                 !.reason = IF kind = "denied" THEN reason ELSE @]

EndRow(s, kind, reason) == scope' = [scope EXCEPT ![s] = EndOf(@, kind, reason)]

ConsumeOf(r) == [r EXCEPT !.st = "consumed", !.used = @ + 1]

ConsumeRow(s) == scope' = [scope EXCEPT ![s] = ConsumeOf(@)]

CompleteOf(r) == [r EXCEPT !.st = "completed"]

CompleteRow(s) == scope' = [scope EXCEPT ![s] = CompleteOf(@)]

-----------------------------------------------------------------------------
\* The operator's commands; append_external_approval validates a command and
\* appends its row under the ledger lock.
Order == orders < MaxOrders /\ orders' = orders + 1

request(s, t) ==
  /\ Order
  /\ RequestRow(s, t)
  /\ UNCHANGED <<hold, run, launched, unpaid, lost, fresh, dispatches, faults>>

\* The bounds of a request that the terms of its grant leave open stay.
Narrowed(r, t) ==
  [cap |-> IF t.cap > 0 THEN t.cap ELSE r.cap, dollars |-> t.dollars \/ r.dollars,
   expires |-> IF t.expires = "never" THEN r.expires ELSE t.expires]

\* A grant answers one pending request and may only narrow it.
grant(s, t) ==
  /\ Order
  /\ scope[s] # None /\ EvalState(scope[s]) = "requested"
  /\ t.cap > 0 /\ scope[s].cap > 0 => t.cap <= scope[s].cap
  /\ scope' = [scope EXCEPT ![s] = Record("approved", TRUE, Narrowed(@, t))]
  /\ hold' = FALSE
  /\ launched' = [launched EXCEPT ![s[1]] = 0]
  /\ unpaid' = [unpaid EXCEPT ![s[1]] = 0]
  /\ lost' = lost \ {s[1]}
  /\ fresh' = IF run.pc = "idle" THEN fresh ELSE fresh \cup {s[1]}
  /\ UNCHANGED <<run, dispatches, faults>>

end(s, kind) ==
  /\ Order
  /\ EndRow(s, kind, "operator")
  /\ UNCHANGED <<hold, run, launched, unpaid, lost, fresh, dispatches, faults>>

clear_attempts ==
  /\ Order
  /\ hold /\ hold' = FALSE
  /\ UNCHANGED <<scope, run, launched, unpaid, lost, fresh, dispatches, faults>>

ExpireOf(r) == [r EXCEPT !.expires = "past"]

TimePasses(s) ==
  /\ scope[s] # None /\ scope[s].expires = "later"
  /\ scope' = [scope EXCEPT ![s] = ExpireOf(@)]
  /\ UNCHANGED <<hold, run, launched, unpaid, lost, fresh, dispatches, orders, faults>>

-----------------------------------------------------------------------------
\* The dispatch.  Each step is one read or one append of the ledger.
Idle == [pc |-> "idle", attempt |-> 0, allowed |-> {}, used |-> {}, gaps |-> {},
         row |-> "none", todo |-> {}, ok |-> FALSE, pause |-> FALSE,
         mode |-> "improve", charged |-> FALSE]

Fault == faults < MaxFaults /\ faults' = faults + 1

\* A held item is not selected.
Start(mode) ==
  /\ run.pc = "idle" /\ ~hold
  /\ dispatches < MaxDispatches /\ dispatches' = dispatches + 1
  /\ run' = [Idle EXCEPT !.pc = "env", !.attempt = 1, !.mode = mode]
  /\ fresh' = {}
  /\ UNCHANGED <<scope, hold, launched, unpaid, lost, orders, faults>>

\* external_env_vars_for_work_item: an unreadable ledger allows nothing.
ReadEnv(ok) ==
  /\ run.pc = "env"
  /\ run' = [run EXCEPT !.pc = "check",
               !.allowed = IF ok THEN active_external_approval_env_vars ELSE {}]
  /\ IF ok THEN UNCHANGED faults ELSE Fault
  /\ UNCHANGED <<scope, hold, launched, unpaid, lost, fresh, dispatches, orders>>

\* external_approval_gaps_for_work_item, a second read, which a review does not
\* make; unreadable means no gap.
Gaps(ok) == IF ok /\ run.mode # "review" THEN Labels \ active_external_approval_env_vars ELSE {}

\* run_backend_with_reserved_route: the backend gets the credentials of the
\* first read, if the second one finds no gap.  Only improve pauses for one.
CheckGaps(ok) ==
  /\ run.pc = "check" /\ (ok \/ run.mode # "review")
  /\ IF Gaps(ok) # {}
     THEN /\ run.mode = "improve"
          /\ run' = [run EXCEPT !.pc = "raise", !.gaps = Gaps(ok), !.pause = TRUE]
          /\ UNCHANGED launched
     ELSE /\ run' = [run EXCEPT !.pc = "run", !.used = @ \cup run.allowed]
          /\ launched' = [l \in Labels |-> launched[l] + IF l \in run.allowed THEN 1 ELSE 0]
  /\ IF ok THEN UNCHANGED faults ELSE Fault
  /\ UNCHANGED <<scope, hold, unpaid, lost, fresh, dispatches, orders>>

\* The other workflows take a gap for an error: research returns it, and an
\* experiment goes on to its judge without a backend, ending well or not.
GapRefused(ok) ==
  /\ run.pc = "check" /\ run.mode = "study" /\ Gaps(TRUE) # {}
  /\ run' = [run EXCEPT !.pc = "row", !.ok = ok]
  /\ UNCHANGED <<scope, hold, launched, unpaid, lost, fresh, dispatches, orders, faults>>

\* The backend exits, or could not be launched after all (ok = FALSE), on a path
\* that charges the attempt.
BackendEnds(ok) ==
  /\ run.pc = "run" /\ run.mode # "study"
  /\ run' = [run EXCEPT !.pc = "charge", !.ok = ok]
  /\ UNCHANGED <<scope, hold, launched, unpaid, lost, fresh, dispatches, orders, faults>>

\* The paths that charge nothing: a conflict retry; the success of a profile
\* without validation commands and contract; the attempts of research and
\* experiment, which are not in the entry; a validation timeout, a graceful
\* cancel, a terminal conflict, an early error.
AttemptUncharged(next) ==
  /\ run.pc = "run"
  /\ \/ /\ next = "again" /\ run.mode = "improve" /\ run.attempt < MaxAttempts
        /\ run' = [run EXCEPT !.pc = "env", !.attempt = @ + 1]
     \/ /\ next = "success" /\ run.mode # "review"
        /\ run' = [run EXCEPT !.pc = "row", !.ok = TRUE]
     \/ /\ next = "failure"
        /\ run' = [run EXCEPT !.pc = "row"]
  /\ unpaid' = [l \in Labels |-> IF l \in run.allowed /\ launched[l] > unpaid[l]
                                THEN unpaid[l] + 1 ELSE unpaid[l]]
  /\ UNCHANGED <<scope, hold, launched, lost, fresh, dispatches, orders, faults>>

\* record_external_approval_consumption_for_work_item: every usable label is
\* charged, whether or not this attempt had its credential.
ReadCharges ==
  /\ run.pc = "charge"
  /\ run' = [run EXCEPT !.pc = "charging", !.charged = TRUE,
               !.todo = UNION {OfLabel(l) : l \in {k \in Labels : Usable(k)}}]
  /\ UNCHANGED <<scope, hold, launched, unpaid, lost, fresh, dispatches, orders, faults>>

Charge(s) ==
  /\ run.pc = "charging" /\ s \in run.todo
  /\ ConsumeRow(s)
  /\ run' = [run EXCEPT !.todo = @ \ {s}]
  /\ UNCHANGED <<hold, launched, unpaid, lost, fresh, dispatches, orders, faults>>

\* A read or an append that fails is swallowed, and what is left is not charged.
ChargeFails ==
  /\ Fault
  /\ \/ run.pc = "charge"
     \/ run.pc = "charging" /\ run.todo # {}
  /\ run' = [run EXCEPT !.pc = "charging", !.todo = {}]
  /\ lost' = lost \cup run.allowed \cup {s[1] : s \in run.todo}
  /\ UNCHANGED <<scope, hold, launched, unpaid, fresh, dispatches, orders>>

\* The attempt loop, or the reroutes of a review: again, or the end of the dispatch.
AttemptEnds(next) ==
  /\ run.pc = "charging" /\ run.todo = {}
  /\ \/ /\ next = "again" /\ run.ok /\ run.attempt < MaxAttempts
        /\ run' = [run EXCEPT !.pc = "env", !.attempt = @ + 1, !.ok = FALSE]
     \/ /\ next = "success" /\ run.ok
        /\ run' = [run EXCEPT !.pc = "row"]
     \/ /\ next = "failure"
        /\ run' = [run EXCEPT !.pc = "row", !.ok = FALSE]
  /\ UNCHANGED <<scope, hold, launched, unpaid, lost, fresh, dispatches, orders, faults>>

\* raise_external_approval_request, its read: the row to append for one gap.
RowFor(r) ==
  IF r = None THEN "requested"
  ELSE CASE EvalState(r) = "requested" -> IF r.cap = Configured /\ ~r.dollars THEN "none" ELSE "requested"
         [] EvalState(r) \in {"denied", "expired"} -> IF r.st = EvalState(r) THEN "none" ELSE EvalState(r)
         [] OTHER -> "requested"

ReadForRaise(l) ==
  /\ run.pc = "raise" /\ l \in run.gaps
  /\ LET r == scope[<<l, EnvOp>>] IN
       run' = [run EXCEPT !.pc = "raising", !.gaps = @ \ {l}, !.todo = {<<l, EnvOp>>},
                 !.row = IF r # None /\ RowFor(r) = "denied" /\ DeniedByCap(r)
                         THEN "capped" ELSE RowFor(r)]
  /\ UNCHANGED <<scope, hold, launched, unpaid, lost, fresh, dispatches, orders, faults>>

\* ... and its append, which does not look at the scope again.
Raise(ok) ==
  /\ run.pc = "raising"
  /\ \E s \in run.todo :
       CASE run.row = "none" \/ ~ok -> UNCHANGED scope
         [] run.row = "requested" -> RequestRow(s, [Unbounded EXCEPT !.cap = Configured])
         [] run.row = "capped" -> EndRow(s, "denied", "cap")
         [] OTHER -> EndRow(s, run.row, "operator")
  /\ run' = [run EXCEPT !.pc = "raise", !.todo = {}, !.row = "none"]
  /\ IF ok THEN UNCHANGED faults ELSE Fault /\ run.row # "none"
  /\ UNCHANGED <<hold, launched, unpaid, lost, fresh, dispatches, orders>>

\* An unreadable ledger raises nothing for this gap.
RaiseReadFails(l) ==
  /\ run.pc = "raise" /\ l \in run.gaps
  /\ Fault
  /\ run' = [run EXCEPT !.gaps = @ \ {l}]
  /\ UNCHANGED <<scope, hold, launched, unpaid, lost, fresh, dispatches, orders>>

\* The workflow returns Ok for a pause: the dispatch ends cleanly.
PauseEnds ==
  /\ run.pc = "raise" /\ run.gaps = {}
  /\ run' = [run EXCEPT !.pc = "row", !.ok = TRUE]
  /\ UNCHANGED <<scope, hold, launched, unpaid, lost, fresh, dispatches, orders, faults>>

\* dispatch: the terminal row, which latches the hold of a pause; the scopes
\* are ended only after an Ok result whose row was written.
AppendRow(written) ==
  /\ run.pc = "row"
  /\ hold' = (hold \/ (written /\ run.pause))
  /\ run' = IF written /\ run.ok THEN [run EXCEPT !.pc = "complete"] ELSE Idle
  /\ IF written THEN UNCHANGED faults ELSE Fault
  /\ UNCHANGED <<scope, launched, unpaid, lost, fresh, dispatches, orders>>

\* Mutant: the scopes nothing was charged to are completed.
CompletableUnused(r) ==
  r # None /\ r.used = 0 /\ (EvalState(r) = "approved" \/ DeniedByCap(r))

\* complete_external_approvals_for_work_item.
Completable(r) ==
  r # None /\ r.used > 0 /\ (EvalState(r) = "consumed" \/ DeniedByCap(r))

ReadCompletes ==
  /\ run.pc = "complete"
  /\ run' = [run EXCEPT !.pc = "completing", !.todo = {s \in Scopes : Completable(scope[s])}]
  /\ UNCHANGED <<scope, hold, launched, unpaid, lost, fresh, dispatches, orders, faults>>

Complete(s) ==
  /\ run.pc = "completing" /\ s \in run.todo
  /\ CompleteRow(s)
  /\ run' = [run EXCEPT !.todo = @ \ {s}]
  /\ UNCHANGED <<hold, launched, unpaid, lost, fresh, dispatches, orders, faults>>

CompleteFails ==
  /\ Fault
  /\ run.pc \in {"complete", "completing"}
  /\ run' = Idle
  /\ lost' = lost \cup run.used
  /\ UNCHANGED <<scope, hold, launched, unpaid, fresh, dispatches, orders>>

DispatchEnds ==
  /\ run.pc = "completing" /\ run.todo = {}
  /\ run' = Idle
  /\ UNCHANGED <<scope, hold, launched, unpaid, lost, fresh, dispatches, orders, faults>>

\* The process dies; RunRecovery closes the run and the claim is released.
Crash ==
  /\ run.pc # "idle"
  /\ Fault
  /\ run' = Idle
  /\ lost' = lost \cup run.used
  /\ UNCHANGED <<scope, hold, launched, unpaid, fresh, dispatches, orders>>

-----------------------------------------------------------------------------
Init ==
  /\ scope = [s \in Scopes |-> None]
  /\ hold = FALSE
  /\ run = Idle
  /\ launched = [l \in Labels |-> 0] /\ unpaid = [l \in Labels |-> 0]
  /\ lost = {} /\ fresh = {}
  /\ dispatches = 0 /\ orders = 0 /\ faults = 0

Operator ==
  \/ clear_attempts
  \/ \E s \in Scopes :
       \/ \E t \in Terms : request(s, t) \/ grant(s, t)
       \/ \E kind \in Ends : end(s, kind)

Dispatch ==
  \/ ReadCharges \/ ChargeFails \/ PauseEnds \/ ReadCompletes \/ CompleteFails
  \/ DispatchEnds \/ Crash
  \/ \E mode \in Modes : Start(mode)
  \/ \E ok \in BOOLEAN : \/ ReadEnv(ok) \/ CheckGaps(ok) \/ GapRefused(ok) \/ BackendEnds(ok)
                         \/ Raise(ok) \/ AppendRow(ok)
  \/ \E s \in Scopes : Charge(s) \/ Complete(s)
  \/ \E l \in Labels : ReadForRaise(l) \/ RaiseReadFails(l)
  \/ \E next \in {"again", "success", "failure"} : AttemptEnds(next) \/ AttemptUncharged(next)

Next == Operator \/ Dispatch \/ \E s \in Scopes : TimePasses(s)

Spec == Init /\ [][Next]_vars

-----------------------------------------------------------------------------
Bounds == [cap : Nat, dollars : BOOLEAN, expires : {"never", "later", "past"}]

Records ==
  [st : States, grant : BOOLEAN, used : Nat, ended : SUBSET Ends,
   reason : {"none", "operator", "cap"}, cap : Nat, dollars : BOOLEAN,
   expires : {"never", "later", "past"}]

Runs ==
  [pc : {"idle", "env", "check", "run", "charge", "charging", "raise", "raising",
         "row", "complete", "completing"},
   attempt : 0..MaxAttempts, allowed : SUBSET Labels, used : SUBSET Labels,
   gaps : SUBSET Labels, row : {"none", "requested", "capped", "denied", "expired"},
   todo : SUBSET Scopes, ok : BOOLEAN, pause : BOOLEAN, mode : Modes, charged : BOOLEAN]

\* The type invariant: the shape of the records and of the dispatch, and every
\* row in hand that only changes a record names a scope that exists.
TypeOK ==
  /\ scope \in [Scopes -> Records \cup {None}]
  /\ hold \in BOOLEAN
  /\ run \in Runs
  /\ run.pc \in {"charging", "completing"} => \A s \in run.todo : scope[s] # None
  /\ launched \in [Labels -> Nat] /\ unpaid \in [Labels -> Nat]
  /\ lost \subseteq Labels /\ fresh \subseteq Labels
  /\ dispatches \in 0..MaxDispatches /\ orders \in 0..MaxOrders /\ faults \in 0..MaxFaults

\* A scope becomes active only when the operator grants its pending request:
\* no row of a dispatch that read the ledger earlier (a charge, a completion,
\* a request of the gate) brings back a scope that was revoked, expired,
\* denied or used up in the meantime.
ActiveOnlyByGrant ==
  [][\A s \in Scopes : ~Active(scope[s]) /\ Active(scope'[s]) =>
       /\ EvalState(scope[s]) = "requested"
       /\ scope'[s].st = "approved" /\ orders' = orders + 1]_vars

\* The attempts started with a credential since its grant exceed the grant's
\* request cap by no more than those that ended on one of the workflows' paths
\* that charge nothing; excepted is a label for which a crash, a failed read or
\* a failed append kept a charge from being recorded.
CapHolds ==
  \A s \in Scopes : scope[s] # None /\ s[1] \notin lost =>
    (scope[s].grant /\ scope[s].cap > 0 => launched[s[1]] <= scope[s].cap + unpaid[s[1]])

\* A dispatch that charged one of its attempts and ended well leaves no label of
\* the item usable: the next dispatch needs a new grant.  Excepted are a grant
\* made while it ran and a fault of its recording.
SpentAfterSuccess ==
  [][DispatchEnds /\ run.charged => \A l \in Labels : l \in fresh \cup lost \/ ~Usable(l)]_vars

\* docs/EXTERNAL_APPROVALS.md: the counter records completed backend attempts,
\* including failed ones.  Refuted by the paths of AttemptUncharged.
CounterComplete ==
  run.pc = "idle" => \A s \in Scopes : scope[s] # None /\ s[1] \notin lost \cup fresh =>
    (scope[s].grant => launched[s[1]] <= scope[s].used)

\* docs/EXTERNAL_APPROVALS.md: a grant makes the work item eligible for the
\* next loop cycle.  An item whose every label has a usable grant is not held
\* once no dispatch of it runs.
GrantFreesItem ==
  run.pc = "idle" /\ (\A l \in Labels : Usable(l)) => ~hold
=============================================================================
