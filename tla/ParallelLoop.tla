---------------------------- MODULE ParallelLoop ----------------------------
(***************************************************************************)
(* One parallel batch of `gah loop` (run_parallel_once in                  *)
(* controller/runtime.rs): a scheduler thread starts workers for items,    *)
(* answers their requests for node capacity (runtime/admission.rs) and     *)
(* decides after each result whether to start more                         *)
(* (runtime/node_reprobe.rs).  Node capacity is a directory of locked      *)
(* lease files shared with the other controllers of the host               *)
(* (runtime/node_capacity.rs); a route slot is a locked file too           *)
(* (routing/reservation.rs).                                               *)
(*                                                                         *)
(* Each item needs a number of actions, one after the other; a merge is a  *)
(* lifecycle action, which needs no backend.  The code knows an item by    *)
(* its work_id; a merge request that has none is never claimed, and        *)
(* nothing ties two of its actions together, so that each of them is an    *)
(* item here.  Beyond the committed memory the pressure of the node is     *)
(* unknown: an admission that fits may be deferred all the same.  The number of admitted workers the coordinator  *)
(* counts matters only to that, and is left out.  A controller that is     *)
(* killed loses the locks of its lease files, and the next admission       *)
(* removes them: to the others it is a worker that ended.                  *)
(***************************************************************************)
EXTENDS Naturals, FiniteSets

CONSTANTS
  Items,        \* the profile's work
  Actions,      \* number of actions each item needs
  Merged,       \* items whose last action is a merge
  Tracked,      \* items with a work_id
  Limit,        \* effective_parallel_limit
  Slots,        \* worker threads that may exist at once
  RouteCap,     \* route slots of the backend
  Budget,       \* memory of the node less its floor, in units
  AgentNeed,    \* reservation of an agent's action
  MergeNeed,    \* reservation of a lifecycle action
  OtherNeed     \* reservation of another controller's worker

ASSUME ParallelAssumption ==
  /\ IsFiniteSet(Items) /\ IsFiniteSet(Slots)
  /\ Actions \in [Items -> Nat] /\ Merged \subseteq Items /\ Tracked \subseteq Items
  /\ \A i \in Items \ Tracked : Actions[i] <= 1
  /\ {Limit, RouteCap, Budget, AgentNeed, MergeNeed, OtherNeed} \subseteq Nat

NoItem == "none"

VARIABLES
  sched,     \* the scheduler: deciding, waiting, ended (it left the loop), over
  fill,      \* fill_attempts_remaining
  suppressed,\* refill_suppressed
  alternatives, \* node_alternative_attempts_remaining
  executed,  \* executed_work_ids
  reprobe,   \* items whose action waits for node capacity
  active,    \* workers whose result was not received
  w,         \* the workers
  leases,    \* workers that hold a node capacity lease
  other,     \* the lease of another controller's worker
  left,      \* actions each item still needs
  erred,     \* history: items with a work_id whose worker failed
  shutdown   \* shutdown_requested

vars == <<sched, fill, suppressed, alternatives, executed, reprobe, active, w,
          leases, other, left, erred, shutdown>>
budget == <<fill, suppressed, alternatives>>

Outcomes == {"ok", "error", "shutdown", "route", "node", "held"}
Free == [pc |-> "free", item |-> NoItem, agent |-> TRUE, out |-> "ok", again |-> FALSE]

WorkerState ==
  [pc : {"free", "claim", "route", "ask", "admit", "defer", "stop", "run", "end", "done"},
   item : Items \cup {NoItem}, agent : BOOLEAN, out : Outcomes, again : BOOLEAN]

(* The type invariant: the shape of the state, and active counts the workers *)
(* whose results have not been received.                                     *)
TypeOK ==
  /\ sched \in {"top", "wait", "ended", "over"}
  /\ fill \in 0..Limit /\ alternatives \in 0..Limit
  /\ suppressed \in BOOLEAN /\ shutdown \in BOOLEAN
  /\ executed \subseteq Tracked /\ reprobe \subseteq Items
  /\ erred \subseteq Tracked
  /\ w \in [Slots -> WorkerState]
  /\ leases \subseteq Slots
  /\ other \in BOOLEAN
  /\ left \in [Items -> Nat] /\ \A i \in Items : left[i] <= Actions[i]
  /\ active \in 0..Limit
  /\ sched \in {"top", "wait"} =>
       active = Cardinality({s \in Slots : w[s].pc # "free"})

Init ==
  /\ sched = "top" /\ fill = Limit /\ alternatives = Limit
  /\ suppressed = FALSE /\ shutdown = FALSE
  /\ executed = {} /\ reprobe = {} /\ erred = {} /\ active = 0
  /\ w = [s \in Slots |-> Free]
  /\ leases = {} /\ other = FALSE
  /\ left = Actions

-----------------------------------------------------------------------------
(* Node capacity *)

Need(s) == IF w[s].agent THEN AgentNeed ELSE MergeNeed

\* What the workers in S need together: their actions are of two sizes.
Reserved(S) == AgentNeed * Cardinality({s \in S : w[s].agent})
               + MergeNeed * Cardinality({s \in S : ~w[s].agent})

\* Mutant: only the leases of this controller are counted.
CommittedHere == Reserved(leases)

\* The reservations of the lease files that are locked.
committed == Reserved(leases) + (IF other THEN OtherNeed ELSE 0)

\* acquire_in_dir: the registry lock makes it one step.
Fits(need) == committed + need <= Budget

-----------------------------------------------------------------------------
(* The scheduler *)

\* The claims of this batch's workers, by work_id.
Claimed == Tracked \cap {w[s].item : s \in {x \in Slots :
             w[x].pc \in {"route", "ask", "admit", "defer", "stop", "run", "end"}}}

Agent(i) == left[i] > 1 \/ i \notin Merged

\* Mutant: what this batch has started already is not excluded.
CandidatesUnclaimed == {i \in Items : left[i] > 0} \ Claimed

\* retain_unclaimed_work: what another worker or process has not taken, and
\* everything that has no work_id.
Candidates == {i \in Items : left[i] > 0} \ (Claimed \cup executed)

\* Poll one admission message.
service_pending_request(s) ==
  /\ sched = "top" /\ w[s].pc = "ask"
  /\ \/ /\ shutdown
        /\ w' = [w EXCEPT ![s].pc = "stop"]
        /\ UNCHANGED <<leases, reprobe>>
     \/ /\ ~shutdown /\ Fits(Need(s))
        /\ w' = [w EXCEPT ![s].pc = "admit"]
        /\ leases' = leases \cup {s}
        /\ reprobe' = reprobe \ {w[s].item}
     \/ /\ ~shutdown
        /\ w' = [w EXCEPT ![s].pc = "defer"]
        /\ reprobe' = reprobe \cup {w[s].item}
        /\ UNCHANGED leases
  /\ UNCHANGED <<sched, budget, executed, active, other, left, erred, shutdown>>

\* The threads are alike: a new one takes some slot that is free.
FreeSlots == {s \in Slots : w[s].pc = "free" /\ s \notin leases}
Spawned(s) == FreeSlots # {} /\ s = CHOOSE x \in FreeSlots : TRUE

\* A worker thread for item i starts in slot s.
Launch(s, i) ==
  /\ w' = [w EXCEPT ![s] = [Free EXCEPT !.pc = "claim", !.item = i, !.agent = Agent(i)]]
  /\ executed' = executed \cup ({i} \cap Tracked)
  /\ active' = active + 1

\* A request may have come since the scheduler polled.
CanFill == sched = "top" /\ ~shutdown /\ active < Limit /\ fill > 0

\* One fill attempt decides on an action.  An agent's action is launched and
\* asks for capacity itself; a lifecycle action gets its lease here or waits.
FillAgent(s, i) ==
  /\ CanFill /\ Spawned(s) /\ i \in Candidates /\ Agent(i)
  /\ fill' = fill - 1
  /\ Launch(s, i)
  /\ UNCHANGED <<sched, suppressed, alternatives, reprobe, leases, other, left,
                 erred, shutdown>>

FillLifecycle(s, i) ==
  /\ CanFill /\ Spawned(s) /\ i \in Candidates /\ ~Agent(i)
  /\ fill' = fill - 1
  /\ \/ /\ Fits(MergeNeed)
        /\ Launch(s, i)
        /\ leases' = leases \cup {s}
        /\ reprobe' = reprobe \ {i}
        /\ UNCHANGED sched
     \/ /\ sched' = IF active > 0 THEN "wait" ELSE "ended"
        /\ reprobe' = IF active > 0 THEN reprobe \cup {i} ELSE reprobe
        /\ UNCHANGED <<w, executed, active, leases>>
  /\ UNCHANGED <<suppressed, alternatives, other, left, erred, shutdown>>

\* The decision is to wait, to ask a human or to do nothing.
FillNothing ==
  /\ CanFill
  /\ fill' = fill - 1
  /\ sched' = IF active > 0 THEN "wait" ELSE "top"
  /\ UNCHANGED <<suppressed, alternatives, executed, reprobe, active, w, leases,
                 other, left, erred, shutdown>>

\* The loop is left, and what it counted is dropped.
Leave ==
  /\ sched' = "ended" /\ reprobe' = {}
  /\ fill' = 0 /\ alternatives' = 0 /\ suppressed' = FALSE

\* Reading the ledger, the claims or the events fails.
FillFails ==
  /\ CanFill
  /\ Leave
  /\ UNCHANGED <<executed, active, w, leases, other, left, erred, shutdown>>

\* No attempt is left: the batch ends, or the scheduler waits for a result.
FillOver ==
  /\ sched = "top"
  /\ shutdown \/ active >= Limit \/ fill = 0
  /\ sched' = IF active = 0 THEN "ended" ELSE "wait"
  /\ UNCHANGED <<budget, executed, reprobe, active, w, leases, other, left,
                 erred, shutdown>>

\* allow_bounded_node_alternative, else update_parallel_refill_budget.  Once
\* the refill is suppressed the alternatives are not read, and are dropped.
Refill(out) ==
  IF out = "node" /\ ~suppressed /\ alternatives > 0
  THEN /\ alternatives' = alternatives - 1
       /\ fill' = IF fill = 0 THEN 1 ELSE fill
       /\ UNCHANGED suppressed
  ELSE /\ suppressed' = (suppressed \/ out \in {"error", "shutdown"})
       /\ fill' = IF out \in {"error", "shutdown", "route", "node"} THEN 0
                  ELSE IF suppressed THEN fill ELSE Limit
       /\ alternatives' = IF suppressed' THEN 0 ELSE alternatives

\* Mutant: an item is taken up again whatever became of its worker.
FollowUpAlways(s) == {w[s].item}

\* has_follow_up_in_batch: the item's next action may be chosen at once.
FollowUp(s) == IF w[s].agent /\ w[s].out = "ok" THEN {w[s].item} ELSE {}

\* The result of a worker is received.
WorkerCompleted(s) ==
  /\ sched = "wait" /\ w[s].pc = "done"
  /\ sched' = "top"
  /\ active' = active - 1
  /\ executed' = executed \ (FollowUp(s) \cup (IF active = 1 THEN reprobe ELSE {}))
  /\ reprobe' = IF active = 1 THEN {} ELSE reprobe
  /\ Refill(w[s].out)
  /\ w' = [w EXCEPT ![s] = [Free EXCEPT !.agent = s \notin leases]]
  /\ UNCHANGED <<leases, other, left, erred, shutdown>>

\* No result came: leave on a shutdown, probe the node when it is time (the
\* probe's lease is given back at once), or look for messages again.
WaitTimesOut ==
  /\ sched = "wait"
  /\ \/ shutdown /\ Leave /\ UNCHANGED executed
     \/ /\ ~shutdown /\ sched' = "top"
        /\ UNCHANGED <<budget, executed, reprobe>>
     \/ /\ ~shutdown /\ sched' = "top"
        /\ \E i \in reprobe : Fits(IF Agent(i) THEN AgentNeed ELSE MergeNeed)
        /\ executed' = executed \ reprobe
        /\ reprobe' = {}
        /\ fill' = 1
        /\ UNCHANGED <<suppressed, alternatives>>
  /\ UNCHANGED <<active, w, leases, other, left, erred, shutdown>>

\* The scope has joined all its threads.
BatchOver ==
  /\ sched = "ended"
  /\ \A s \in Slots : w[s].pc \in {"free", "done"} /\ s \notin leases
  /\ sched' = "over"
  /\ UNCHANGED <<budget, executed, reprobe, active, w, leases, other, left,
                 erred, shutdown>>

-----------------------------------------------------------------------------
(* Workers *)

Only(s, pc, out) ==
  w' = [w EXCEPT ![s].pc = pc, ![s].out = out,
                 ![s].again = @ /\ pc \notin {"end", "done"}]
others == <<sched, budget, executed, reprobe, active, other, left, shutdown>>

\* try_claim_work; another process may hold the item as well.  Without a
\* work_id there is nothing to claim.
Claim(s) ==
  /\ w[s].pc = "claim"
  /\ \/ w[s].item \notin Claimed /\ Only(s, IF w[s].agent THEN "route" ELSE "run", "ok")
     \/ w[s].item \in Tracked /\ Only(s, "done", "held")
  /\ UNCHANGED <<others, leases, erred>>

\* The claim file cannot be read, or the work fails before an attempt.
Fails(s) ==
  /\ w[s].pc = "route" \/ (w[s].pc = "claim" /\ w[s].item \in Tracked)
  /\ Only(s, IF w[s].pc = "claim" THEN "done" ELSE "end", "error")
  /\ erred' = erred \cup ({w[s].item} \cap Tracked)
  /\ UNCHANGED <<others, leases>>

Routed == {s \in Slots : w[s].agent /\ w[s].pc \in {"ask", "admit", "defer", "stop", "run"}}

\* reserve_backend_attempt: a route slot, then the request for node capacity.
Route(s) ==
  /\ w[s].pc = "route"
  /\ \/ Only(s, "end", "route")
     \/ /\ Cardinality(Routed) < RouteCap
        /\ IF shutdown \/ sched \in {"ended", "over"} THEN Only(s, "end", "shutdown")
           ELSE Only(s, "ask", "ok")
  /\ UNCHANGED <<others, leases, erred>>

\* Mutant: a worker waits for its answer whatever became of the scheduler.
AnswerAwaited(s) ==
  /\ \/ w[s].pc = "admit" /\ Only(s, "run", "ok")
     \/ w[s].pc = "defer" /\ Only(s, "end", "node")
     \/ w[s].pc = "stop" /\ Only(s, "end", "shutdown")
  /\ UNCHANGED <<others, leases, erred>>

\* wait_for_node.  The answer of a worker that gives up is dropped with the
\* lease in it; a scheduler that is gone answers nobody.
Answer(s) ==
  /\ \/ w[s].pc = "admit" /\ Only(s, "run", "ok") /\ UNCHANGED leases
     \/ w[s].pc = "defer" /\ Only(s, "end", "node") /\ UNCHANGED leases
     \/ /\ \/ w[s].pc = "stop"
           \/ w[s].pc \in {"ask", "admit", "defer"} /\ shutdown
           \/ w[s].pc = "ask" /\ sched \in {"ended", "over"}
        /\ Only(s, "end", "shutdown")
        /\ leases' = leases \ {s}
  /\ UNCHANGED <<others, erred>>

\* record_capacity_deferral cannot append its event: the worker fails, while
\* its action still waits for a probe.
DeferralUnrecorded(s) ==
  /\ w[s].pc = "defer"
  /\ Only(s, "end", "error")
  /\ UNCHANGED <<others, leases, erred>>

\* The action ends.  An agent's worker gives its lease back and may make
\* another attempt; a lifecycle worker keeps it until its thread ends.
RunEnds(s) ==
  /\ w[s].pc = "run"
  /\ leases' = IF w[s].agent THEN leases \ {s} ELSE leases
  /\ \/ /\ w[s].agent /\ ~w[s].again
        /\ w' = [w EXCEPT ![s].pc = "route", ![s].again = TRUE]
        /\ UNCHANGED <<left, erred>>
     \/ /\ Only(s, "end", "ok")
        /\ left' = [left EXCEPT ![w[s].item] = IF @ = 0 THEN 0 ELSE @ - 1]
        /\ UNCHANGED erred
     \/ /\ Only(s, "end", "error")
        /\ erred' = erred \cup ({w[s].item} \cap Tracked)
        /\ UNCHANGED left
  /\ UNCHANGED <<sched, budget, executed, reprobe, active, other, shutdown>>

\* release_owned_work, then the result is sent.
SendDone(s) ==
  /\ w[s].pc = "end"
  /\ Only(s, "done", w[s].out)
  /\ UNCHANGED <<others, leases, erred>>

\* The thread of a lifecycle worker ends after its result was sent.
ThreadEnds(s) ==
  /\ s \in leases /\ w[s].pc \in {"done", "free"}
  /\ leases' = leases \ {s}
  /\ w' = IF w[s].pc = "free" THEN [w EXCEPT ![s] = Free] ELSE w
  /\ UNCHANGED <<others, erred>>

-----------------------------------------------------------------------------
\* Another controller admits a worker, or its worker ends or is killed with it.
OtherController ==
  /\ other \/ Fits(OtherNeed)
  /\ other' = ~other
  /\ UNCHANGED <<sched, budget, executed, reprobe, active, w, leases, left,
                 erred, shutdown>>

\* From now on nothing is filled: what is left of the attempts is not read
\* again, and is dropped.
Shutdown ==
  /\ ~shutdown /\ sched \in {"top", "wait"}
  /\ shutdown' = TRUE
  /\ fill' = 0 /\ alternatives' = 0 /\ suppressed' = TRUE
  /\ UNCHANGED <<sched, executed, reprobe, active, w, leases, other, left, erred>>

Scheduler ==
  \/ \E s \in Slots : \/ service_pending_request(s) \/ WorkerCompleted(s)
                      \/ \E i \in Items : FillAgent(s, i) \/ FillLifecycle(s, i)
  \/ FillNothing \/ FillFails \/ FillOver \/ WaitTimesOut \/ BatchOver

Worker(s) ==
  \/ Claim(s) \/ Fails(s) \/ Route(s) \/ Answer(s) \/ DeferralUnrecorded(s)
  \/ RunEnds(s) \/ SendDone(s) \/ ThreadEnds(s)

Next ==
  \/ Scheduler \/ (\E s \in Slots : Worker(s)) \/ OtherController \/ Shutdown

\* The threads run; a worker's action has a time limit; every turn of the
\* scheduler polls, and its wait prefers a result that is there to a timeout.
Fairness ==
  /\ WF_vars(Scheduler)
  /\ \A s \in Slots : WF_vars(Worker(s))
  /\ SF_vars(\E s \in Slots : WorkerCompleted(s))
  /\ SF_vars(\E s \in Slots : service_pending_request(s))

Spec == Init /\ [][Next]_vars /\ Fairness

-----------------------------------------------------------------------------
(* The backends and merges that run, of this controller and of another one, *)
(* never need more than the node has: what a launch burst, a probe, a       *)
(* shutdown or a killed controller leaves is not spent twice                *)
(* (node_capacity.rs, NodeCapacityLease, WorkerNodeLease).                  *)
WithinBudget ==
  Reserved({s \in Slots : w[s].pc = "run"})
    + (IF other THEN OtherNeed ELSE 0) <= Budget

Busy(s) == w[s].pc \in {"claim", "route", "ask", "admit", "run"}
Shared == {i \in Items : \E s, t \in Slots :
             s # t /\ Busy(s) /\ Busy(t) /\ w[s].item = i /\ w[t].item = i}

(* No two workers of a batch are about to work, or work, on the same item  *)
(* with a work_id, though a deferred item is taken up again while its       *)
(* worker may still be on its way out (retain_unclaimed_work, readmit).     *)
OneWorkerPerItem == Shared \cap Tracked = {}

\* The same of every item: a merge request without a work_id is never
\* excluded, and two slots of a batch may review it at once.
NoItemShared == Shared = {}

Launched(i) == \E s \in Slots : w[s].pc = "free" /\ w'[s].pc = "claim" /\ w'[s].item = i

(* "Errors, route deferrals, and items held elsewhere stay excluded"        *)
(* (has_follow_up_in_batch): an item whose worker failed is not tried again *)
(* in this batch, by a refill, a probe or a node alternative.  There are    *)
(* two exceptions: an item without a work_id, and a worker that failed      *)
(* because the deferral of its action could not be recorded.                *)
FailedNotRetried == [][\A i \in erred : ~Launched(i)]_vars

\* The comment without the second exception: whatever a worker fails of, its
\* item stays excluded.  A deferral that was not recorded is a failure too,
\* and the next probe takes its item up again in spite of refill_suppressed.
ErrorStaysExcluded ==
  \A s \in Slots : w[s].pc = "done" /\ w[s].out = "error" /\ w[s].item \in Tracked
                     => w[s].item \in executed \ reprobe

(* The batch ends, with all its threads and every lease given back, however *)
(* results, probes, readmitted items, a shutdown and failed reads            *)
(* interleave, unless the node refuses requests again and again: a probe     *)
(* that fits takes an item up again without limit (ReprobeWaitOutcome).      *)
Refused == \E s \in Slots : w[s].pc = "ask" /\ w'[s].pc = "defer"
BatchEnds == <>[][~Refused]_vars => <>(sched = "over")
=============================================================================
