----------------------------- MODULE IssueClaim -----------------------------
(***************************************************************************)
(* The provider claim protocol of src/dispatch/issue_claim.rs on one issue *)
(* or pull request: loops on different machines assign their login, post a *)
(* claim comment, wait out the verify window, and renew the claim from a   *)
(* background thread while the dispatch runs.  People assign and unassign  *)
(* themselves and the loops' logins by hand.  Every `gh` call is a step of *)
(* its own; a call may fail after the provider applied it; a loop may die  *)
(* between any two calls.                                                  *)
(*                                                                         *)
(* Time is kept as ages and remaining budgets, so behaviours are unbounded *)
(* while the state is finite.  All clocks agree: the code compares its own *)
(* clock with the provider's stamps and assumes the same.                  *)
(***************************************************************************)
EXTENDS Naturals, Sequences

CONSTANTS
  Loops,       \* logins of controller loops
  Persons,     \* logins of people
  Priority,    \* priority_logins, a sequence of logins
  TargetKind,  \* "issue" or "pull_request"
  TTL,         \* ttl_minutes
  Verify,      \* verify_seconds
  MaxDelay,    \* longest a stake or a settle takes from its clock reading
  Managed,     \* loops whose login people assign and remove by hand
  Steady,      \* loops that stay up and come back after every dispatch
  QuickRetry,  \* may a loop stake again right after a failed claim or a crash?
  Faults       \* number of failed calls, crashes and changes by hand

Logins == Loops \cup Persons

ASSUME TimingAssumption ==
  /\ TTL \in Nat \ {0} /\ Verify \in Nat /\ MaxDelay \in Nat /\ Faults \in Nat
  /\ TargetKind \in {"issue", "pull_request"}
  /\ QuickRetry \in BOOLEAN /\ Priority \in Seq(Logins)
  /\ Loops \cap Persons = {} /\ Steady \subseteq Loops /\ Managed \subseteq Loops

(* Claims of this age are expired for every clock reading in use: a stake  *)
(* or settle judges at most MaxDelay after its reading, and a renewal only *)
(* before its deadline, less than a TTL after it.                          *)
MaxAge == IF MaxDelay < TTL THEN TTL + TTL - 1 ELSE TTL + MaxDelay

VARIABLES
  assignees,   \* assignees of the item
  claims,      \* latest claim comment of each login, oldest id first
  prOpen,      \* an open pull request references the issue
  pc,          \* where each loop's dispatch is
  ren,         \* where its renewal thread is
  el,          \* time since the running operation read the clock (`now`)
  snap,        \* assignees as the running view read them
  stale,       \* logins that the stake found stale
  wait,        \* rest of the verify window, or of the pause after a failure
  left,        \* time until the lease's deadline
  lost,        \* the lease is marked lost
  personAge,   \* time a person is assigned without interruption, up to a TTL
  touched,     \* loops a person assigned or removed since they last assigned themselves
  faults       \* failures left

board == <<assignees, claims, prOpen>>
lease == <<left, lost>>
people == <<personAge, touched>>
vars == <<assignees, claims, prOpen, pc, ren, el, snap, stale, wait, left,
          lost, personAge, touched, faults>>

Claim == [login : Loops, age : 0..MaxAge]
Phases == {"idle", "stake_view", "stake_claims", "stake_pr", "stake_unassign",
           "stake_assign", "stake_post", "stake_undo", "verify", "settle_view",
           "settle_claims", "settle_unassign", "held", "publish"}
StakePhases == {"stake_view", "stake_claims", "stake_pr", "stake_unassign",
                "stake_assign", "stake_post"}
SettlePhases == {"settle_view", "settle_claims"}
Working == {"held", "publish"}
RenewPhases == {"wait", "view", "claims", "edit", "confirm", "stopped"}
RenewCalls == {"view", "claims", "edit", "confirm"}

(* The type invariant: the shape of the state, and one claim of each login. *)
TypeOK ==
  /\ assignees \subseteq Logins
  /\ claims \in Seq(Claim)
  /\ \A i, k \in DOMAIN claims : claims[i].login = claims[k].login => i = k
  /\ prOpen \in BOOLEAN
  /\ pc \in [Loops -> Phases]
  /\ ren \in [Loops -> RenewPhases]
  /\ el \in [Loops -> 0..MaxAge]
  /\ snap \in [Loops -> SUBSET Logins]
  /\ stale \in [Loops -> SUBSET Logins]
  /\ wait \in [Loops -> 0..Verify]
  /\ left \in [Loops -> 0..TTL]
  /\ lost \in [Loops -> BOOLEAN]
  /\ personAge \in 0..TTL
  /\ touched \subseteq Loops
  /\ faults \in 0..Faults

Init ==
  /\ assignees \in {{}, Persons}
  /\ claims = <<>>
  /\ prOpen = (TargetKind = "pull_request")
  /\ pc = [l \in Loops |-> "idle"]
  /\ ren = [l \in Loops |-> "stopped"]
  /\ el = [l \in Loops |-> 0]
  /\ snap = [l \in Loops |-> {}]
  /\ stale = [l \in Loops |-> {}]
  /\ wait = [l \in Loops |-> 0]
  /\ left = [l \in Loops |-> 0]
  /\ lost = [l \in Loops |-> FALSE]
  /\ personAge = 0
  /\ touched = {}
  /\ faults = Faults

-----------------------------------------------------------------------------
(* Who holds the item *)

HasClaim(x) == \E i \in DOMAIN claims : claims[i].login = x
IdOf(x) == CHOOSE i \in DOMAIN claims : claims[i].login = x
AgeOf(x) == claims[IdOf(x)].age

\* Mutant: a claim comment never expires.
NeverExpires(x, elapsed) == HasClaim(x)

\* x's latest claim was renewed less than a TTL before the clock reading.
IsLive(x, elapsed) == HasClaim(x) /\ AgeOf(x) < TTL + elapsed

\* x is the first preferred login with a live claim, else its comment is the oldest.
Wins(x, live) ==
  /\ x \in live
  /\ \/ \E i \in DOMAIN Priority : /\ Priority[i] = x
                                   /\ \A k \in 1..(i-1) : Priority[k] \notin live
     \/ /\ \A i \in DOMAIN Priority : Priority[i] \notin live
        /\ \A y \in live : IdOf(x) <= IdOf(y)

\* Mutant: an assignee without a claim comment counts as a lapsed loop.
PersonIsStale(me, seen, elapsed) ==
  LET live == {x \in seen : IsLive(x, elapsed)}
      lapsed == {x \in seen \ {me} : ~IsLive(x, elapsed)}
  IN IF live # {}
     THEN [is |-> IF Wins(me, live) THEN "mine" ELSE "theirs", stale |-> {}]
     ELSE [is |-> IF lapsed = {} THEN "unclaimed" ELSE "stale", stale |-> lapsed]

(* standing: what `me` makes of the assignees it saw and of the claim      *)
(* comments, judged at a clock reading `elapsed` ago.                      *)
standing(me, seen, elapsed) ==
  LET live   == {x \in seen : IsLive(x, elapsed)}
      lapsed == {x \in seen \ {me} : HasClaim(x) /\ ~IsLive(x, elapsed)}
      byHand == {x \in seen \ {me} : ~HasClaim(x)}
  IN IF byHand # {} THEN [is |-> "theirs", stale |-> {}]
     ELSE IF live # {}
     THEN [is |-> IF Wins(me, live) THEN "mine" ELSE "theirs", stale |-> {}]
     ELSE [is |-> IF lapsed = {} THEN "unclaimed" ELSE "stale", stale |-> lapsed]

\* What is left of a live claim, now.
Remaining(x) == IF AgeOf(x) < TTL THEN TTL - AgeOf(x) ELSE 0

\* IssueLease::ensure_held: the lease has authority at this instant.
ensure_held(l) == pc[l] \in Working /\ ~lost[l] /\ left[l] > 0

\* Mutant: every comment of a login counts, not only its latest.
EveryComment(x) == Append(claims, [login |-> x, age |-> 0])

\* The latest comments of the others, in the order of their ids.
Others(x) ==
  IF HasClaim(x)
  THEN [k \in 1..(Len(claims) - 1) |-> claims[IF k < IdOf(x) THEN k ELSE k + 1]]
  ELSE claims

\* Posting replaces the login's latest comment by one with a newer id.
WithComment(x) == Append(Others(x), [login |-> x, age |-> 0])

Renewed(x) == [claims EXCEPT ![IdOf(x)].age = 0]

-----------------------------------------------------------------------------
(* Staking a claim *)

Goto(l, phase) == pc' = [pc EXCEPT ![l] = phase]
ClearClock(l) == el' = [el EXCEPT ![l] = 0]

\* claim_or_lose: read the clock and start a stake.
StakeBegin(l) ==
  /\ pc[l] = "idle"
  /\ QuickRetry \/ wait[l] = 0
  /\ Goto(l, "stake_view")
  /\ el' = [el EXCEPT ![l] = 0]
  /\ wait' = [wait EXCEPT ![l] = 0]
  /\ UNCHANGED <<board, ren, snap, stale, lease, people, faults>>

\* First call of a view: the assignees.  The claim comments come later.
ReadAssignees(l, at, next) ==
  /\ pc[l] = at
  /\ snap' = [snap EXCEPT ![l] = assignees]
  /\ Goto(l, next)
  /\ UNCHANGED <<board, ren, el, stale, wait, lease, people, faults>>

\* IssueLease::start with the claim's expiry on the provider.
StartLease(l) ==
  /\ Goto(l, "held")
  /\ ren' = [ren EXCEPT ![l] = "wait"]
  /\ left' = [left EXCEPT ![l] = Remaining(l)]
  /\ lost' = [lost EXCEPT ![l] = FALSE]

(* Second call, and the decision of stake: an own live claim wins at once. *)
StakeDecide(l) ==
  LET st == standing(l, snap[l], el[l]) IN
  /\ pc[l] = "stake_claims"
  /\ snap' = [snap EXCEPT ![l] = {}]
  /\ \/ /\ st.is = "mine"
        /\ StartLease(l)
        /\ ClearClock(l)
        /\ UNCHANGED stale
     \/ /\ st.is # "mine"
        /\ Goto(l, CASE st.is = "theirs"    -> "idle"
                     [] st.is = "unclaimed" -> "stake_assign"
                     [] st.is = "stale"     -> "stake_pr")
        /\ IF st.is = "theirs" THEN ClearClock(l) ELSE UNCHANGED el
        /\ stale' = [stale EXCEPT ![l] = st.stale]
        /\ UNCHANGED <<ren, lease>>
  /\ UNCHANGED <<board, wait, people, faults>>

(* An expired claim still holds an issue whose pull request is open; a     *)
(* pull request's expired claim holds nothing.                             *)
StakeCheckPr(l) ==
  /\ pc[l] = "stake_pr"
  /\ IF TargetKind = "issue" /\ prOpen
     THEN Goto(l, "idle") /\ ClearClock(l) /\ stale' = [stale EXCEPT ![l] = {}]
     ELSE Goto(l, "stake_unassign") /\ UNCHANGED <<el, stale>>
  /\ UNCHANGED <<board, ren, snap, wait, lease, people, faults>>

StakeUnassign(l) ==
  /\ pc[l] = "stake_unassign"
  /\ assignees' = assignees \ stale[l]
  /\ stale' = [stale EXCEPT ![l] = {}]
  /\ Goto(l, "stake_assign")
  /\ UNCHANGED <<claims, prOpen, ren, el, snap, wait, lease, people, faults>>

StakeAssign(l) ==
  /\ pc[l] = "stake_assign"
  /\ assignees' = assignees \cup {l}
  /\ touched' = touched \ {l}
  /\ Goto(l, "stake_post")
  /\ UNCHANGED <<claims, prOpen, ren, el, snap, stale, wait, lease, personAge, faults>>

StakePost(l) ==
  /\ pc[l] = "stake_post"
  /\ claims' = WithComment(l)
  /\ wait' = [wait EXCEPT ![l] = Verify]
  /\ Goto(l, "verify")
  /\ ClearClock(l)
  /\ UNCHANGED <<assignees, prOpen, ren, snap, stale, lease, people, faults>>

(* The cleanup after a failed post: this loop's assignee is removed.       *)
StakeUndo(l) ==
  /\ pc[l] = "stake_undo"
  /\ assignees' = assignees \ {l}
  /\ Goto(l, "idle")
  /\ UNCHANGED <<claims, prOpen, ren, el, snap, stale, wait, lease, people, faults>>

-----------------------------------------------------------------------------
(* Settling it *)

\* Mutant: the verify window is skipped.
SettleAtOnce(l) ==
  /\ pc[l] = "verify"
  /\ Goto(l, "settle_view")
  /\ el' = [el EXCEPT ![l] = 0]
  /\ wait' = [wait EXCEPT ![l] = 0]
  /\ UNCHANGED <<board, ren, snap, stale, lease, people, faults>>

\* The pause is over: read the clock again.
SettleBegin(l) ==
  /\ pc[l] = "verify" /\ wait[l] = 0
  /\ Goto(l, "settle_view")
  /\ el' = [el EXCEPT ![l] = 0]
  /\ UNCHANGED <<board, ren, snap, stale, wait, lease, people, faults>>

SettleDecide(l) ==
  /\ pc[l] = "settle_claims"
  /\ snap' = [snap EXCEPT ![l] = {}]
  /\ ClearClock(l)
  /\ \/ /\ standing(l, snap[l], el[l]).is = "mine"
        /\ StartLease(l)
     \/ /\ standing(l, snap[l], el[l]).is # "mine"
        /\ Goto(l, "settle_unassign")
        /\ UNCHANGED <<ren, lease>>
  /\ UNCHANGED <<board, stale, wait, people, faults>>

SettleUnassign(l) ==
  /\ pc[l] = "settle_unassign"
  /\ assignees' = assignees \ {l}
  /\ Goto(l, "idle")
  /\ UNCHANGED <<claims, prOpen, ren, el, snap, stale, wait, lease, people, faults>>

-----------------------------------------------------------------------------
(* Renewing the lease *)

GotoRen(l, phase) == ren' = [ren EXCEPT ![l] = phase]

(* The renewer wakes up; past the deadline it gives the lease up.  The     *)
(* code wakes it after a third of the TTL, or half the rest after a        *)
(* failure; here it may wake at any time.                                  *)
RenewBegin(l) ==
  /\ ren[l] = "wait"
  /\ IF left[l] = 0
     THEN lost' = [lost EXCEPT ![l] = TRUE] /\ GotoRen(l, "stopped") /\ UNCHANGED el
     ELSE GotoRen(l, "view") /\ el' = [el EXCEPT ![l] = 0] /\ UNCHANGED lost
  /\ UNCHANGED <<board, pc, snap, stale, wait, left, people, faults>>

RenewReadAssignees(l) ==
  /\ ren[l] = "view" /\ left[l] > 0
  /\ snap' = [snap EXCEPT ![l] = assignees]
  /\ GotoRen(l, "claims")
  /\ UNCHANGED <<board, pc, el, stale, wait, lease, people, faults>>

\* Mutant: the renewer does not look whether the claim is still its own.
RenewBlind(l) ==
  /\ ren[l] = "claims" /\ left[l] > 0
  /\ snap' = [snap EXCEPT ![l] = {}]
  /\ GotoRen(l, "edit")
  /\ UNCHANGED <<board, pc, el, stale, wait, lease, people, faults>>

RenewDecide(l) ==
  /\ ren[l] = "claims" /\ left[l] > 0
  /\ snap' = [snap EXCEPT ![l] = {}]
  /\ IF standing(l, snap[l], el[l]).is = "mine"
     THEN GotoRen(l, "edit") /\ UNCHANGED <<el, lost>>
     ELSE GotoRen(l, "stopped") /\ ClearClock(l) /\ lost' = [lost EXCEPT ![l] = TRUE]
  /\ UNCHANGED <<board, pc, stale, wait, left, people, faults>>

\* The comment is edited, which moves its updated_at.
RenewEdit(l) ==
  /\ ren[l] = "edit" /\ left[l] > 0
  /\ claims' = Renewed(l)
  /\ GotoRen(l, "confirm")
  /\ UNCHANGED <<assignees, prOpen, pc, el, snap, stale, wait, lease, people, faults>>

\* Mutant: a renewal confirmed after the deadline still extends it.
ConfirmLate(l) ==
  /\ ren[l] = "confirm"
  /\ GotoRen(l, "wait")
  /\ left' = [left EXCEPT ![l] = TTL]
  /\ ClearClock(l)
  /\ UNCHANGED <<board, pc, snap, stale, wait, lost, people, faults>>

(* confirm_renewal: a TTL after the renewal began, unless the old deadline *)
(* has passed meanwhile or the lease was lost.                             *)
confirm_renewal(l) ==
  /\ ren[l] = "confirm"
  /\ IF left[l] > 0 /\ ~lost[l]
     THEN /\ GotoRen(l, "wait")
          /\ left' = [left EXCEPT ![l] = IF el[l] < TTL THEN TTL - el[l] ELSE 0]
          /\ UNCHANGED lost
     ELSE /\ GotoRen(l, "stopped")
          /\ lost' = [lost EXCEPT ![l] = TRUE]
          /\ UNCHANGED left
  /\ ClearClock(l)
  /\ UNCHANGED <<board, pc, snap, stale, wait, people, faults>>

\* A call of the renewal is killed at the deadline.
RenewCutOff(l) ==
  /\ ren[l] \in {"view", "claims", "edit"} /\ left[l] = 0
  /\ GotoRen(l, "wait")
  /\ ClearClock(l)
  /\ snap' = [snap EXCEPT ![l] = {}]
  /\ UNCHANGED <<board, pc, stale, wait, lease, people, faults>>

-----------------------------------------------------------------------------
(* The dispatch under the lease *)

\* ensure_held_before_publish succeeds; publishing takes time after it.
PublishCheck(l) ==
  /\ pc[l] = "held" /\ ensure_held(l)
  /\ Goto(l, "publish")
  /\ UNCHANGED <<board, ren, el, snap, stale, wait, lease, people, faults>>

EndLease(l) ==
  /\ Goto(l, "idle")
  /\ GotoRen(l, "stopped")
  /\ left' = [left EXCEPT ![l] = 0]
  /\ lost' = [lost EXCEPT ![l] = FALSE]

\* The branch is pushed and the pull request opened; the lease is dropped
\* after its renewer thread is joined.  The claim stays to lapse.
Publish(l) ==
  /\ pc[l] = "publish" /\ ren[l] \in {"wait", "stopped"}
  /\ EndLease(l)
  /\ prOpen' = TRUE
  /\ UNCHANGED <<assignees, claims, el, snap, stale, wait, people, faults>>

\* The dispatch ends without publishing: it failed or its lease is lost.
Abandon(l) ==
  /\ pc[l] = "held" /\ ren[l] \in {"wait", "stopped"}
  /\ EndLease(l)
  /\ UNCHANGED <<board, el, snap, stale, wait, people, faults>>

-----------------------------------------------------------------------------
(* Failures *)

SpendFault == faults > 0 /\ faults' = faults - 1

(* A call of stake or settle fails and the error is returned; what the     *)
(* call did on the provider may or may not have happened.  A failed post   *)
(* is followed by the cleanup call, which may fail too.                    *)
CallFails(l) ==
  /\ SpendFault
  /\ \/ /\ pc[l] \in {"stake_view", "stake_claims", "stake_pr", "settle_view",
                      "settle_claims", "stake_undo"}
        /\ Goto(l, "idle")
        /\ UNCHANGED <<assignees, claims, touched>>
     \/ /\ pc[l] \in {"stake_unassign", "settle_unassign"}
        /\ Goto(l, "idle")
        /\ assignees' \in {assignees,
             assignees \ IF pc[l] = "stake_unassign" THEN stale[l] ELSE {l}}
        /\ UNCHANGED <<claims, touched>>
     \/ /\ pc[l] = "stake_assign"
        /\ Goto(l, "idle")
        /\ \/ assignees' = assignees \cup {l} /\ touched' = touched \ {l}
           \/ UNCHANGED <<assignees, touched>>
        /\ UNCHANGED claims
     \/ /\ pc[l] = "stake_post"
        /\ Goto(l, "stake_undo")
        /\ claims' \in {claims, WithComment(l)}
        /\ UNCHANGED <<assignees, touched>>
  /\ snap' = [snap EXCEPT ![l] = {}]
  /\ stale' = [stale EXCEPT ![l] = {}]
  /\ ClearClock(l)
  /\ wait' = [wait EXCEPT ![l] = Verify]
  /\ UNCHANGED <<prOpen, ren, lease, personAge>>

(* A renewal call fails.  The renewer tries again before the deadline,     *)
(* unless the policy blocked the edit: then the lease is lost.             *)
RenewFails(l) ==
  /\ SpendFault
  /\ ren[l] \in {"view", "claims", "edit"} /\ left[l] > 0
  /\ \/ /\ claims' \in IF ren[l] = "edit" THEN {claims, Renewed(l)} ELSE {claims}
        /\ GotoRen(l, "wait")
        /\ UNCHANGED lost
     \/ /\ ren[l] = "edit"
        /\ GotoRen(l, "stopped")
        /\ lost' = [lost EXCEPT ![l] = TRUE]
        /\ UNCHANGED claims
  /\ ClearClock(l)
  /\ snap' = [snap EXCEPT ![l] = {}]
  /\ UNCHANGED <<assignees, prOpen, pc, stale, wait, left, people>>

(* The loop's process dies; nothing on the provider changes.  The service  *)
(* is not restarted by itself: the loop is back when somebody starts it.   *)
Crash(l) ==
  /\ SpendFault
  /\ l \notin Steady /\ pc[l] # "idle"
  /\ EndLease(l)
  /\ snap' = [snap EXCEPT ![l] = {}]
  /\ stale' = [stale EXCEPT ![l] = {}]
  /\ wait' = [wait EXCEPT ![l] = Verify]
  /\ ClearClock(l)
  /\ UNCHANGED <<board, people>>

-----------------------------------------------------------------------------
(* People, the pull request, and time *)

(* A person changes the assignees by hand: a person, or a loop's login,    *)
(* which is asked to do the work, or loses it.                             *)
ByHand(x) ==
  /\ personAge' = IF assignees \cap assignees' \cap Persons = {} THEN 0 ELSE personAge
  /\ touched' = touched \cup ({x} \cap Loops)
  /\ SpendFault
  /\ UNCHANGED <<claims, prOpen, pc, ren, el, snap, stale, wait, lease>>

HandAssign(x) ==
  /\ x \notin assignees
  /\ assignees' = assignees \cup {x}
  /\ ByHand(x)

HandUnassign(x) ==
  /\ x \in assignees
  /\ assignees' = assignees \ {x}
  /\ ByHand(x)

PrClosed ==
  /\ TargetKind = "issue" /\ prOpen
  /\ prOpen' = FALSE
  /\ UNCHANGED <<assignees, claims, pc, ren, el, snap, stale, wait, lease, people, faults>>

UpTo(max, n) == IF n < max THEN n + 1 ELSE n

(* One unit of time passes.  No stake and no settle takes longer than      *)
(* MaxDelay: the environment's side of the verify window.                  *)
Tick ==
  /\ \A l \in Loops : pc[l] \in StakePhases \cup SettlePhases => el[l] < MaxDelay
  /\ claims' = [i \in DOMAIN claims |-> [claims[i] EXCEPT !.age = UpTo(MaxAge, @)]]
  /\ el' = [l \in Loops |-> IF pc[l] \in StakePhases \cup SettlePhases
                                 \/ ren[l] \in RenewCalls
                            THEN UpTo(MaxAge, el[l]) ELSE el[l]]
  /\ wait' = [l \in Loops |-> IF wait[l] > 0 THEN wait[l] - 1 ELSE 0]
  /\ left' = [l \in Loops |-> IF left[l] > 0 THEN left[l] - 1 ELSE 0]
  /\ personAge' = IF assignees \cap Persons = {} THEN 0 ELSE UpTo(TTL, personAge)
  /\ UNCHANGED <<assignees, prOpen, pc, ren, snap, stale, lost, touched, faults>>

-----------------------------------------------------------------------------
StakeStep(l) ==
  \/ ReadAssignees(l, "stake_view", "stake_claims")
  \/ StakeDecide(l)
  \/ StakeCheckPr(l)
  \/ StakeUnassign(l)
  \/ StakeAssign(l)
  \/ StakePost(l)
  \/ StakeUndo(l)

SettleStep(l) ==
  \/ SettleBegin(l)
  \/ ReadAssignees(l, "settle_view", "settle_claims")
  \/ SettleDecide(l)
  \/ SettleUnassign(l)

RenewStep(l) ==
  \/ RenewBegin(l)
  \/ RenewReadAssignees(l)
  \/ RenewDecide(l)
  \/ RenewEdit(l)
  \/ confirm_renewal(l)
  \/ RenewCutOff(l)

WorkStep(l) == PublishCheck(l) \/ Publish(l) \/ Abandon(l)

FaultStep(l) == CallFails(l) \/ RenewFails(l) \/ Crash(l)

Step ==
  \/ \E l \in Loops : \/ StakeBegin(l) \/ StakeStep(l) \/ SettleStep(l)
                      \/ RenewStep(l) \/ WorkStep(l) \/ FaultStep(l)
  \/ \E x \in Persons \cup Managed : HandAssign(x) \/ HandUnassign(x)
  \/ PrClosed

Next == Step \/ Tick

Spec == Init /\ [][Next]_vars

\* Time in which every loop wakes up at the end of its verify window.
PromptTick ==
  /\ \A l \in Loops : pc[l] = "verify" => wait[l] > 0
  /\ Tick

\* No loop is in the middle of a stake or a settle.
Quiet == \A l \in Loops : pc[l] \notin StakePhases \cup SettlePhases

(* A dispatch thread and a renewer thread keep running until they end or   *)
(* die.  A steady loop comes back after every dispatch; one that is not    *)
(* may die, and nothing starts it again.  Time passes, and the loops do    *)
(* not hold it up by staking in turn without a pause.                      *)
Fairness ==
  /\ \A l \in Loops : /\ WF_vars(StakeStep(l) \/ SettleStep(l) \/ WorkStep(l))
                       /\ WF_vars(RenewStep(l))
  /\ \A l \in Steady : WF_vars(StakeBegin(l))
  /\ []<>Quiet
  /\ SF_vars(PromptTick)

FairSpec == Init /\ [][Step \/ PromptTick]_vars /\ Fairness

-----------------------------------------------------------------------------
(* Properties *)

\* The lease has authority, and nobody changed l's assignment behind it.
Rightful(l) == ensure_held(l) /\ l \notin touched

(* Two loops never both have a lease with authority: whatever the order of *)
(* their provider calls, failed calls, crashes, restarts and late          *)
(* renewals, once the verify window is longer than a stake can take.  Not  *)
(* so for a loop whose login a person assigned or removed since it staked: *)
(* it learns of it at its next renewal.                                    *)
LeaseExclusion ==
  \A l, m \in Loops : Rightful(l) /\ Rightful(m) => l = m

(* The claim on the issue implements an exclusive claim: authority passes  *)
(* from one loop to another only through an instant at which nobody has it.*)
Authority ==
  INSTANCE ExclusiveClaim
    WITH Items <- {"issue"}, Owners <- Loops,
         holders <- [i \in {"issue"} |-> {l \in Loops : Rightful(l)}]

ImplementsClaim == Authority!Spec

(* Once a person has been assigned for a whole TTL no loop's lease still   *)
(* has authority, because every renewal reads the assignees and extends    *)
(* the deadline from before it read them.                                  *)
PersonTakesOver ==
  personAge >= TTL => \A l \in Loops : ~ensure_held(l)

(* No step of a loop removes a person from the assignees.                  *)
PersonNeverRemoved ==
  [][\A x \in Persons : x \in assignees /\ x \notin assignees' => HandUnassign(x)]_vars

(* A lease's authority ends no later than its claim expires on the         *)
(* provider while the claim is there: the deadline is never later.         *)
DeadlineWithinClaim ==
  \A l \in Loops : ensure_held(l) => HasClaim(l) /\ left[l] <= Remaining(l)

\* l reads as assigned by hand: its login is there, and no claim comment.
Bare(l) == l \in assignees /\ ~HasClaim(l)

(* A loop that dies for good does not keep the item from one that stays    *)
(* up: again and again some loop holds it, whatever calls failed, because  *)
(* the dead loop's claim lapses and the next stake removes its assignee.   *)
(* The exceptions: a loop left assigned without a comment for ever, as it  *)
(* died before its post, or its post and the cleanup failed, or a person   *)
(* assigned it; and an issue whose pull request stays open.                *)
AlwaysTakenAgain ==
  \/ []<>(\E l \in Loops : ensure_held(l))
  \/ \E l \in Loops \ Steady : <>[]Bare(l)
  \/ <>[](TargetKind = "issue" /\ prOpen)

(* A loop that is gone for good does not hold the item against a loop that *)
(* keeps trying: "a loop that crashes stops renewing, and its claim lapses *)
(* `ttl_minutes` later" (IssueLease).  It fails in the exceptional case of *)
(* AlwaysTakenAgain, even when nobody assigned the loop by hand.           *)
DeadLoopsLapse ==
  \A l \in Loops \ Steady :
    <>[](pc[l] = "idle" /\ l \notin touched) => []<>(\E m \in Steady : ensure_held(m))
=============================================================================
