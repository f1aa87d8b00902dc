------------------------- MODULE ParallelLoopProofs -------------------------
(***************************************************************************)
(* Proofs about ParallelLoop for any items, slots, limits and needs: the   *)
(* type invariant with the count of active workers, that no item has two   *)
(* workers, that a failed item is not retried, and that what runs fits     *)
(* into the node.                                                          *)
(***************************************************************************)
EXTENDS ParallelLoop, FiniteSetTheorems, TLAPS

USE ParallelAssumption

-----------------------------------------------------------------------------
(* What a step does to one worker *)

\* The next state of worker s, from a phase to a phase.
Goes(s, from, to) ==
  /\ w[s].pc \in from /\ w'[s].pc \in to
  /\ w'[s].item = w[s].item /\ w'[s].agent = w[s].agent

Drops(s) == leases' = leases \ {s}

Starts(s) ==
  \E i \in Items :
    /\ w[s].pc = "free" /\ s \notin leases /\ i \notin executed /\ left[i] > 0
    /\ w'[s].pc = "claim" /\ w'[s].item = i /\ w'[s].agent = Agent(i)
    /\ executed' = executed \cup ({i} \cap Tracked) /\ UNCHANGED <<left, erred, other>>
    /\ \/ Agent(i) /\ UNCHANGED <<reprobe, leases>>
       \/ /\ ~Agent(i) /\ Fits(MergeNeed)
          /\ reprobe' = reprobe \ {i} /\ leases' = leases \cup {s}

Advances(s) ==
  /\ UNCHANGED <<executed, left, erred, other>>
  /\ \/ Goes(s, {"claim"}, {"route"}) /\ w[s].agent /\ UNCHANGED <<reprobe, leases>>
     \/ Goes(s, {"claim"}, {"run"}) /\ ~w[s].agent /\ UNCHANGED <<reprobe, leases>>
     \/ Goes(s, {"route"}, {"ask"}) /\ UNCHANGED <<reprobe, leases>>
     \/ Goes(s, {"ask"}, {"stop"}) /\ UNCHANGED <<reprobe, leases>>
     \/ Goes(s, {"ask"}, {"defer"}) /\ reprobe' = reprobe \cup {w[s].item} /\ UNCHANGED leases
     \/ /\ Goes(s, {"ask"}, {"admit"}) /\ Fits(Need(s))
        /\ reprobe' = reprobe \ {w[s].item} /\ leases' = leases \cup {s}
     \/ Goes(s, {"admit"}, {"run"}) /\ UNCHANGED <<reprobe, leases>>
     \/ Goes(s, {"run"}, {"route"}) /\ w[s].agent /\ UNCHANGED reprobe /\ Drops(s)

GivesUp(s) ==
  /\ Goes(s, {"claim", "route", "ask", "admit", "defer", "stop"}, {"end", "done"})
  /\ w'[s].out # "ok"
  /\ (Drops(s) /\ w[s].pc # "claim") \/ (UNCHANGED leases /\ w[s].pc # "admit")
  /\ UNCHANGED <<executed, left, erred, other, reprobe>>

Errs(s) ==
  /\ Goes(s, {"claim", "route", "run"}, {"end", "done"}) /\ w'[s].out = "error"
  /\ leases' = IF w[s].agent /\ w[s].pc = "run" THEN leases \ {s} ELSE leases
  /\ erred' = erred \cup ({w[s].item} \cap Tracked)
  /\ UNCHANGED <<executed, left, other, reprobe>>

Finishes(s) ==
  /\ Goes(s, {"run"}, {"end"}) /\ w'[s].out = "ok"
  /\ leases' = IF w[s].agent THEN leases \ {s} ELSE leases
  /\ left' = [left EXCEPT ![w[s].item] = IF @ = 0 THEN 0 ELSE @ - 1]
  /\ UNCHANGED <<executed, erred, other, reprobe>>

Sends(s) ==
  /\ Goes(s, {"end"}, {"done"}) /\ w'[s].out = w[s].out
  /\ UNCHANGED <<executed, left, erred, other, reprobe, leases>>

Received(s) ==
  /\ w[s].pc = "done" /\ w'[s].pc = "free" /\ w'[s].agent = (s \notin leases)
  /\ \/ executed' = executed \ FollowUp(s) /\ UNCHANGED reprobe
     \/ executed' = executed \ (FollowUp(s) \cup reprobe) /\ reprobe' = {}
  /\ UNCHANGED <<left, erred, other, leases>>

Leaves(s) ==
  /\ w[s].pc \in {"done", "free"} /\ w'[s].pc = w[s].pc
  /\ w'[s] = w[s] \/ w[s].pc = "free"
  /\ Drops(s)
  /\ UNCHANGED <<executed, left, erred, other, reprobe>>

Moves(s) ==
  /\ \A t \in Slots \ {s} : w'[t] = w[t]
  /\ \/ Starts(s) \/ Advances(s) \/ GivesUp(s) \/ Errs(s) \/ Finishes(s) \/ Sends(s)
     \/ Received(s) \/ Leaves(s)

\* A step of no worker.
NoMove ==
  /\ w' = w /\ leases' = leases /\ left' = left /\ erred' = erred
  /\ \/ UNCHANGED <<executed, reprobe, other>>
     \/ UNCHANGED <<executed, reprobe>> /\ (other \/ Fits(OtherNeed)) /\ other' = ~other
     \/ executed' \in {executed, executed \ reprobe} /\ reprobe' = {} /\ UNCHANGED other
     \/ \E i \in Items \ executed :
          ~Agent(i) /\ reprobe' = reprobe \cup {i} /\ UNCHANGED <<executed, other>>

\* The types of what these steps change.
Shape ==
  /\ w \in [Slots -> WorkerState] /\ left \in [Items -> Nat] /\ leases \subseteq Slots
  /\ executed \subseteq Tracked /\ reprobe \subseteq Items /\ erred \subseteq Tracked
  /\ other \in BOOLEAN

(* Every step is one of these.                                             *)
LEMMA StepMoves ==
  ASSUME Shape, [Next]_vars
  PROVE  NoMove \/ \E s \in Slots : Moves(s)
<1>1. ASSUME NEW s \in Slots, service_pending_request(s) PROVE Moves(s)
  BY <1>1 DEF service_pending_request, Shape, WorkerState, Moves, Advances, Goes
<1>2. ASSUME NEW s \in Slots, WorkerCompleted(s) PROVE Moves(s)
  <2>1. w'[s] = [Free EXCEPT !.agent = s \notin leases] /\ \A t \in Slots \ {s} : w'[t] = w[t]
    BY <1>2 DEF WorkerCompleted, Shape
  <2> QED BY <1>2, <2>1 DEF WorkerCompleted, Moves, Received, Free
<1>3. ASSUME NEW s \in Slots, NEW i \in Items, FillAgent(s, i) PROVE Moves(s)
  <2>1. /\ w'[s] = [Free EXCEPT !.pc = "claim", !.item = i, !.agent = Agent(i)]
        /\ \A t \in Slots \ {s} : w'[t] = w[t]
    BY <1>3 DEF FillAgent, Launch, Shape
  <2>2. s \in FreeSlots
    BY <1>3 DEF FillAgent, Spawned
  <2>3. w'[s].pc = "claim" /\ w'[s].item = i /\ w'[s].agent = Agent(i)
    BY <2>1 DEF Free
  <2>4. Starts(s)
    BY <1>3, <2>2, <2>3 DEF FillAgent, Launch, FreeSlots, Candidates, Starts
  <2> QED BY <2>1, <2>4 DEF Moves
<1>4. ASSUME NEW s \in Slots, NEW i \in Items, FillLifecycle(s, i) PROVE NoMove \/ Moves(s)
  <2>1. CASE UNCHANGED <<w, executed, active, leases>>
    <3>1. ~Launch(s, i)
      <4>1. Launch(s, i) => w'[s].pc = "claim"
        BY DEF Launch, Shape, Free
      <4>2. w[s].pc = "free"
        BY <1>4 DEF FillLifecycle, Spawned, FreeSlots
      <4> QED BY <2>1, <4>1, <4>2
    <3>2. i \in Items \ executed
      BY <1>4 DEF FillLifecycle, Candidates
    <3> QED BY <1>4, <2>1, <3>1, <3>2 DEF FillLifecycle, NoMove
  <2>2. CASE /\ Fits(MergeNeed) /\ Launch(s, i)
             /\ leases' = leases \cup {s} /\ reprobe' = reprobe \ {i}
    <3>1. /\ w'[s] = [Free EXCEPT !.pc = "claim", !.item = i, !.agent = Agent(i)]
          /\ \A t \in Slots \ {s} : w'[t] = w[t]
      BY <2>2 DEF Launch, Shape
    <3>2. s \in FreeSlots
      BY <1>4 DEF FillLifecycle, Spawned
    <3>3. w'[s].pc = "claim" /\ w'[s].item = i /\ w'[s].agent = Agent(i)
      BY <3>1 DEF Free
    <3>4. /\ ~Agent(i) /\ i \notin executed /\ left[i] > 0
          /\ w[s].pc = "free" /\ s \notin leases
          /\ executed' = executed \cup ({i} \cap Tracked) /\ UNCHANGED <<left, erred, other>>
      BY <1>4, <2>2, <3>2 DEF FillLifecycle, Launch, FreeSlots, Candidates
    <3>5. Starts(s)
      BY <2>2, <3>3, <3>4 DEF Starts
    <3> QED BY <3>1, <3>5 DEF Moves
  <2> QED BY <1>4, <2>1, <2>2 DEF FillLifecycle
<1>5. CASE FillNothing \/ FillFails \/ FillOver \/ BatchOver \/ Shutdown \/ UNCHANGED vars
  BY <1>5 DEF FillNothing, FillFails, Leave, FillOver, BatchOver, Shutdown, vars, NoMove
<1>6. CASE WaitTimesOut \/ OtherController
  BY <1>6 DEF WaitTimesOut, Leave, OtherController, NoMove
<1>7. ASSUME NEW s \in Slots, Claim(s) PROVE Moves(s)
  BY <1>7 DEF Claim, Only, others, Shape, WorkerState, Moves, Advances, GivesUp, Goes
<1>8. ASSUME NEW s \in Slots, Fails(s) PROVE Moves(s)
  BY <1>8 DEF Fails, Only, others, Shape, WorkerState, Moves, Errs, Goes
<1>9. ASSUME NEW s \in Slots, Route(s) PROVE Moves(s)
  BY <1>9 DEF Route, Only, others, Shape, WorkerState, Moves, Advances, GivesUp, Goes
<1>10. ASSUME NEW s \in Slots, Answer(s) \/ DeferralUnrecorded(s) PROVE Moves(s)
  BY <1>10 DEF Answer, DeferralUnrecorded, Only, others, Shape, WorkerState, Moves, Advances, GivesUp, Goes, Drops
<1>11. ASSUME NEW s \in Slots, RunEnds(s) PROVE Moves(s)
  BY <1>11 DEF RunEnds, Only, Shape, WorkerState, Moves, Advances, Errs, Finishes, Goes, Drops
<1>12. ASSUME NEW s \in Slots, SendDone(s) PROVE Moves(s)
  BY <1>12 DEF SendDone, Only, others, Shape, WorkerState, Moves, Sends, Goes
<1>13. ASSUME NEW s \in Slots, ThreadEnds(s) PROVE Moves(s)
  BY <1>13 DEF ThreadEnds, others, Shape, WorkerState, Free, Moves, Leaves, Drops
<1> QED BY <1>1, <1>2, <1>3, <1>4, <1>5, <1>6, <1>7, <1>8, <1>9, <1>10, <1>11, <1>12, <1>13
  DEF Next, Scheduler, Worker

(* The workers stay workers.                                               *)
LEMMA WorkerTypes ==
  ASSUME Shape, [Next]_vars
  PROVE  w' \in [Slots -> WorkerState]
<1> DEFINE W == [Slots -> WorkerState]
<1>1. ASSUME NEW s \in Slots, service_pending_request(s) PROVE w' \in W
  BY <1>1 DEF service_pending_request, Shape, WorkerState
<1>2. ASSUME NEW s \in Slots, NEW p \in {"end", "done", "run", "route", "ask"}, NEW o \in Outcomes, Only(s, p, o)
      PROVE  w' \in W
  <2> DEFINE r == [w[s] EXCEPT !.pc = p, !.out = o, !.again = @ /\ p \notin {"end", "done"}]
  <2>1. r \in WorkerState
    BY DEF Shape, WorkerState
  <2>2. w' = [w EXCEPT ![s] = r]
    BY <1>2 DEF Only, Shape
  <2> QED BY <2>1, <2>2 DEF Shape
<1>3. ASSUME NEW s \in Slots, NEW i \in Items, Launch(s, i) PROVE w' \in W
  <2>1. [Free EXCEPT !.pc = "claim", !.item = i, !.agent = Agent(i)] \in WorkerState
    BY DEF Free, WorkerState, Outcomes, Agent
  <2> QED BY <1>3, <2>1 DEF Launch, Shape
<1>4. ASSUME NEW s \in Slots, WorkerCompleted(s) PROVE w' \in W
  <2>1. [Free EXCEPT !.agent = s \notin leases] \in WorkerState
    BY DEF Free, WorkerState, Outcomes
  <2> QED BY <1>4, <2>1 DEF WorkerCompleted, Shape
<1>5. ASSUME NEW s \in Slots, ThreadEnds(s) PROVE w' \in W
  <2>1. Free \in WorkerState
    BY DEF Free, WorkerState, Outcomes
  <2> QED BY <1>5, <2>1 DEF ThreadEnds, Shape
<1>6. ASSUME NEW s \in Slots, Claim(s) \/ Fails(s) \/ Route(s) PROVE w' \in W
  <2>1. \E p \in {"end", "done", "run", "route", "ask"}, o \in Outcomes : Only(s, p, o)
    BY <1>6 DEF Claim, Fails, Route, Outcomes
  <2> QED BY <1>2, <2>1
<1>7. ASSUME NEW s \in Slots, Answer(s) \/ DeferralUnrecorded(s) \/ SendDone(s) PROVE w' \in W
  <2>1. w[s].out \in Outcomes
    BY DEF Shape, WorkerState
  <2>2. \E p \in {"end", "done", "run", "route", "ask"}, o \in Outcomes : Only(s, p, o)
    BY <1>7, <2>1 DEF Answer, DeferralUnrecorded, SendDone, Outcomes
  <2> QED BY <1>2, <2>2
<1>8. ASSUME NEW s \in Slots, RunEnds(s) PROVE w' \in W
  <2>1. CASE w' = [w EXCEPT ![s].pc = "route", ![s].again = TRUE]
    <3>1. [w[s] EXCEPT !.pc = "route", !.again = TRUE] \in WorkerState
      BY DEF Shape, WorkerState
    <3>2. w' = [w EXCEPT ![s] = [w[s] EXCEPT !.pc = "route", !.again = TRUE]]
      BY <2>1 DEF Shape
    <3> QED BY <3>1, <3>2 DEF Shape
  <2>2. CASE Only(s, "end", "ok") \/ Only(s, "end", "error")
    BY <1>2, <2>2 DEF Outcomes
  <2> QED BY <1>8, <2>1, <2>2 DEF RunEnds
<1>9. ASSUME w' = w PROVE w' \in W
  BY <1>9 DEF Shape
<1>10. CASE FillNothing \/ FillFails \/ FillOver \/ BatchOver \/ Shutdown \/ WaitTimesOut
            \/ OtherController \/ UNCHANGED vars
  BY <1>9, <1>10 DEF FillNothing, FillFails, FillOver, BatchOver, Shutdown, WaitTimesOut,
    OtherController, vars
<1>11. ASSUME NEW s \in Slots, NEW i \in Items, FillAgent(s, i) \/ FillLifecycle(s, i) PROVE w' \in W
  BY <1>3, <1>9, <1>11 DEF FillAgent, FillLifecycle
<1> QED BY <1>1, <1>4, <1>5, <1>6, <1>7, <1>8, <1>10, <1>11 DEF Next, Scheduler, Worker

-----------------------------------------------------------------------------
(* Who works on an item *)

\* A worker that works on its item, or has done so and may be followed up.
\* An item without a work_id has no owner.
Owner(r) ==
  /\ r.item \in Tracked
  /\ \/ r.pc \in {"claim", "route", "ask", "admit", "run"}
     \/ r.pc \in {"end", "done"} /\ r.out = "ok" /\ r.agent

Sole == \A s, t \in Slots : Owner(w[s]) /\ Owner(w[t]) /\ w[s].item = w[t].item => s = t

(* An owner's item is excluded from the next decisions, and neither failed *)
(* nor waits to be taken up again.                                         *)
Owned == \A s \in Slots : Owner(w[s]) => w[s].item \in executed \ (reprobe \cup erred)

(* What failed stays excluded.                                             *)
Excluded == erred \subseteq executed \ reprobe

(* Only a merge waits for capacity before it was launched.                 *)
Waits == \A i \in (reprobe \cap Tracked) \ executed : left[i] <= 1 /\ i \in Merged

(* A worker has an item, and one with a work_id needs its action.          *)
Work ==
  \A s \in Slots :
    /\ w[s].pc # "free" => w[s].item \in Items
    /\ w[s].pc \in {"claim", "route", "ask", "admit", "run"} /\ w[s].item \in Tracked
         => left[w[s].item] > 0

OwnerInv == Shape /\ Sole /\ Owned /\ Excluded /\ Waits /\ Work

(* A worker that moves on does not become an owner, and keeps its item.    *)
LEMMA OwnerStays ==
  ASSUME NEW s \in Slots, Advances(s) \/ GivesUp(s) \/ Errs(s) \/ Finishes(s) \/ Sends(s),
         Owner(w'[s])
  PROVE  Owner(w[s]) /\ w'[s].item = w[s].item
BY DEF Advances, GivesUp, Errs, Finishes, Sends, Goes, Owner

(* Every step keeps the owners apart.                                      *)
LEMMA OwnerStep == OwnerInv /\ [Next]_vars => OwnerInv'
<1> SUFFICES ASSUME OwnerInv, [Next]_vars PROVE OwnerInv'
  OBVIOUS
<1>1. Shape /\ w' \in [Slots -> WorkerState]
  BY WorkerTypes DEF OwnerInv
<1>2. CASE NoMove
  <2>1. Shape'
    <3>1. other' \in BOOLEAN
      BY <1>1, <1>2, Zenon DEF NoMove, Shape
    <3> QED BY <1>1, <1>2, <3>1 DEF NoMove, Shape
  <2>2. Sole' /\ Work'
    BY <1>2 DEF NoMove, OwnerInv, Sole, Work
  <2>3. Owned' /\ Excluded'
    BY <1>2 DEF NoMove, OwnerInv, Owned, Excluded
  <2>4. Waits'
    BY <1>1, <1>2 DEF NoMove, OwnerInv, Waits, Agent, Shape
  <2> QED BY <2>1, <2>2, <2>3, <2>4 DEF OwnerInv
<1>3. ASSUME NEW s \in Slots, Moves(s) PROVE OwnerInv'
  <2>1. \A t \in Slots \ {s} : w'[t] = w[t]
    BY <1>3 DEF Moves
  <2>2. CASE Starts(s)
    <3>1. PICK i \in Items :
            /\ i \notin executed /\ left[i] > 0
            /\ w'[s].pc = "claim" /\ w'[s].item = i /\ w'[s].agent = Agent(i)
            /\ executed' = executed \cup ({i} \cap Tracked) /\ UNCHANGED <<left, erred, other>>
            /\ \/ Agent(i) /\ UNCHANGED <<reprobe, leases>>
               \/ /\ ~Agent(i)
                  /\ reprobe' = reprobe \ {i} /\ leases' = leases \cup {s}
      BY <2>2 DEF Starts
    <3>2. i \in Tracked => i \notin reprobe' /\ i \notin erred'
      BY <1>1, <3>1 DEF OwnerInv, Excluded, Waits, Agent, Shape
    <3>3. \A t \in Slots \ {s} : Owner(w'[t]) /\ i \in Tracked => w'[t].item # i
      BY <2>1, <3>1 DEF OwnerInv, Owned
    <3>4. Shape'
      BY <1>1, <3>1 DEF Shape
    <3>5. Sole' /\ Work'
      BY <2>1, <3>1, <3>3 DEF OwnerInv, Sole, Work, Owner
    <3>6. Owned' /\ Excluded' /\ Waits'
      BY <2>1, <3>1, <3>2 DEF OwnerInv, Owned, Excluded, Waits, Owner
    <3> QED BY <3>4, <3>5, <3>6 DEF OwnerInv
  <2>3. CASE Received(s)
    <3>1. ~Owner(w'[s]) /\ w'[s].pc = "free"
      BY <2>3 DEF Received, Owner
    <3>2. /\ FollowUp(s) \cap Tracked \cap (reprobe \cup erred) = {}
          /\ \A t \in Slots \ {s} : Owner(w[t]) => w[t].item \notin FollowUp(s)
      BY <2>3 DEF Received, FollowUp, OwnerInv, Owned, Sole, Owner
    <3>3. Shape'
      BY <1>1, <2>3 DEF Received, Shape
    <3>4. Sole' /\ Work'
      BY <2>1, <2>3, <3>1 DEF Received, OwnerInv, Sole, Work
    <3>5. Owned'
      BY <2>1, <2>3, <3>1, <3>2 DEF Received, OwnerInv, Owned
    <3>6. Excluded'
      BY <1>1, <2>3, <3>2 DEF Received, OwnerInv, Excluded, Shape
    <3>7. Waits'
      BY <2>3, <3>2 DEF Received, OwnerInv, Waits
    <3> QED BY <3>3, <3>4, <3>5, <3>6, <3>7 DEF OwnerInv
  <2>4. CASE Leaves(s)
    <3>1. Owner(w'[s]) => w'[s] = w[s]
      BY <2>4 DEF Leaves, Owner
    <3>2. Shape'
      BY <1>1, <2>4 DEF Leaves, Drops, Shape
    <3>3. Sole' /\ Work'
      BY <2>1, <2>4, <3>1 DEF Leaves, OwnerInv, Sole, Work
    <3>4. Owned' /\ Excluded' /\ Waits'
      BY <2>1, <2>4, <3>1 DEF Leaves, OwnerInv, Owned, Excluded, Waits
    <3> QED BY <3>2, <3>3, <3>4 DEF OwnerInv
  <2>5. CASE Advances(s) \/ GivesUp(s) \/ Errs(s) \/ Finishes(s) \/ Sends(s)
    <3>1. Owner(w'[s]) => Owner(w[s]) /\ w'[s].item = w[s].item
      BY <2>5, OwnerStays
    <3>2. Sole'
      BY <2>1, <3>1 DEF OwnerInv, Sole
    <3>3. w[s].pc \in {"claim", "route", "ask", "admit", "run"} /\ w[s].item \in Tracked
            => w[s].item \in Items /\ Owner(w[s]) /\ w[s].item \in executed \ (reprobe \cup erred)
               /\ left[w[s].item] > 0
      BY <1>1 DEF OwnerInv, Owned, Work, Owner, Shape
    <3>4. \A t \in Slots \ {s} : Owner(w[s]) /\ Owner(w[t]) => w[t].item # w[s].item
      BY DEF OwnerInv, Sole
    <3>5. CASE Advances(s)
      <4>1. Shape'
        <5>1. w[s].item \in Items
          BY <3>5 DEF Advances, Goes, OwnerInv, Work
        <5> QED BY <1>1, <3>5, <5>1 DEF Advances, Drops, Shape
      <4>2. Work'
        <5>1. w[s].pc # "free" /\ w'[s].item = w[s].item /\ left' = left
          BY <3>5 DEF Advances, Goes
        <5>2. \/ w[s].pc \in {"claim", "route", "ask", "admit", "run"}
              \/ w'[s].pc \notin {"claim", "route", "ask", "admit", "run"}
          BY <3>5 DEF Advances, Goes
        <5> QED BY <2>1, <5>1, <5>2 DEF OwnerInv, Work
      <4>3. Owned'
        BY <2>1, <3>1, <3>3, <3>4, <3>5 DEF Advances, Goes, OwnerInv, Owned, Owner
      <4>4. UNCHANGED <<executed, erred, left>> /\ reprobe' \subseteq reprobe \cup {w[s].item}
            /\ w[s].pc \in {"claim", "route", "ask", "admit", "run"}
        BY <3>5 DEF Advances, Goes
      <4>5. Excluded'
        BY <1>1, <3>3, <4>4 DEF OwnerInv, Excluded, Shape
      <4>6. Waits'
        BY <3>3, <4>4 DEF OwnerInv, Waits
      <4> QED BY <3>2, <4>1, <4>2, <4>3, <4>5, <4>6 DEF OwnerInv
    <3>6. CASE GivesUp(s) \/ Sends(s)
      <4>1. Shape'
        BY <1>1, <3>6 DEF GivesUp, Sends, Drops, Shape
      <4>2. Work' /\ Excluded' /\ Waits'
        BY <2>1, <3>6 DEF GivesUp, Sends, Goes, OwnerInv, Work, Excluded, Waits
      <4>3. Owned'
        BY <2>1, <3>1, <3>6 DEF GivesUp, Sends, OwnerInv, Owned
      <4> QED BY <3>2, <4>1, <4>2, <4>3 DEF OwnerInv
    <3>7. CASE Errs(s)
      <4>1. Shape'
        BY <1>1, <3>3, <3>7 DEF Errs, Goes, Shape
      <4>2. Work' /\ Excluded' /\ Waits'
        BY <2>1, <3>3, <3>7 DEF Errs, Goes, OwnerInv, Work, Excluded, Waits
      <4>3. ~Owner(w'[s])
        BY <3>7 DEF Errs, Goes, Owner
      <4>4. Owned'
        BY <2>1, <3>3, <3>4, <3>7, <4>3 DEF Errs, Goes, OwnerInv, Owned
      <4> QED BY <3>2, <4>1, <4>2, <4>4 DEF OwnerInv
    <3>8. CASE Finishes(s)
      <4>1. w[s].pc = "run"
        BY <3>8 DEF Finishes, Goes
      <4>2. \A i \in Items : /\ left'[i] \in Nat /\ left'[i] <= left[i]
                             /\ i # w[s].item => left'[i] = left[i]
        BY <1>1, <3>8 DEF Finishes, Shape
      <4>4. Shape'
        <5>1. left' \in [Items -> Nat]
          BY <1>1, <3>8, <4>2 DEF Finishes, Shape
        <5>2. UNCHANGED <<executed, erred, other, reprobe>> /\ leases' \subseteq leases
          BY <3>8 DEF Finishes
        <5> QED BY <1>1, <5>1, <5>2 DEF Shape
      <4>5. Work'
        <5>1. \A t \in Slots \ {s} : Owner(w[t]) => w[t].item \in Items /\ w[t].item # w[s].item
          BY <1>1, <3>4, <4>1 DEF Owner, Shape
        <5> QED BY <2>1, <3>8, <4>2, <5>1 DEF Finishes, Goes, OwnerInv, Work, Owner
      <4>6. Owned' /\ Excluded'
        BY <2>1, <3>1, <3>8 DEF Finishes, OwnerInv, Owned, Excluded
      <4>7. Waits'
        BY <1>1, <3>8, <4>2 DEF Finishes, OwnerInv, Waits, Shape
      <4> QED BY <3>2, <4>4, <4>5, <4>6, <4>7 DEF OwnerInv
    <3> QED BY <2>5, <3>5, <3>6, <3>7, <3>8
  <2> QED BY <1>3, <2>2, <2>3, <2>4, <2>5 DEF Moves
<1> QED BY <1>1, <1>2, <1>3, StepMoves

(* The invariant about owners holds throughout.                            *)
LEMMA OwnerInvariant == Spec => []OwnerInv
<1>1. Init => OwnerInv
  <2> SUFFICES ASSUME Init PROVE OwnerInv
    OBVIOUS
  <2>1. Free \in WorkerState /\ Free.pc = "free"
    BY DEF Free, WorkerState, Outcomes
  <2>2. w \in [Slots -> WorkerState] /\ \A s \in Slots : w[s].pc = "free"
    BY <2>1 DEF Init
  <2> QED BY <2>2 DEF Init, OwnerInv, Shape, Sole, Owned, Excluded, Waits, Work, Owner
<1> QED BY <1>1, OwnerStep, PTL DEF Spec

(* OneWorkerPerItem, for any items, slots and limit: the item of a worker, *)
(* if it has a work_id, stays excluded until its result allows a follow-up, *)
(* and an item that waits to be taken up again has no worker left that     *)
(* could go on with it (retain_unclaimed_work, readmit).                   *)
THEOREM ItemsApart == Spec => []OneWorkerPerItem
<1>1. OwnerInv => OneWorkerPerItem
  BY DEF OwnerInv, Sole, Owner, OneWorkerPerItem, Shared, Busy
<1> QED BY <1>1, OwnerInvariant, PTL

(* FailedNotRetried: no refill, probe or node alternative brings an item   *)
(* with a work_id back whose worker failed otherwise than by a deferral    *)
(* that was not recorded (has_follow_up_in_batch).                         *)
THEOREM ErrorsExcluded == Spec => FailedNotRetried
<1>1. ASSUME OwnerInv, [Next]_vars, NEW s \in Slots, NEW i \in erred,
             w[s].pc = "free", w'[s].pc = "claim", w'[s].item = i
      PROVE  FALSE
  <2>1. i \in executed /\ Shape
    BY <1>1 DEF OwnerInv, Excluded
  <2>2. ~NoMove
    BY <1>1 DEF NoMove
  <2>3. PICK t \in Slots : Moves(t)
    BY <1>1, <2>1, <2>2, StepMoves
  <2>4. t = s
    BY <1>1, <2>3 DEF Moves
  <2> QED BY <1>1, <2>1, <2>3, <2>4 DEF Moves, Starts, Advances, GivesUp, Errs, Finishes, Sends,
    Received, Leaves, Goes
<1>2. OwnerInv /\ [Next]_vars
        => [\A i \in erred : ~Launched(i)]_vars
  BY <1>1 DEF Launched
<1> QED BY <1>2, OwnerInvariant, PTL DEF Spec, FailedNotRetried

-----------------------------------------------------------------------------
(* The node's memory *)

(* What runs has its lease, and an agent's worker has it only while it     *)
(* runs or is about to.                                                    *)
Leased ==
  \A s \in Slots :
    /\ w[s].pc \in {"admit", "run"} => s \in leases
    /\ w[s].pc = "claim" /\ ~w[s].agent => s \in leases
    /\ w[s].pc \in {"route", "ask", "admit", "defer", "stop"} => w[s].agent
    /\ s \in leases /\ w[s].agent => w[s].pc \in {"admit", "run"}

(* Every step keeps the leases with the workers that need them.            *)
LEMMA LeasedStep == OwnerInv /\ Leased /\ [Next]_vars => Leased'
<1> SUFFICES ASSUME OwnerInv, Leased, [Next]_vars PROVE Leased'
  OBVIOUS
<1>1. Shape
  BY DEF OwnerInv
<1>2. CASE NoMove
  BY <1>2 DEF NoMove, Leased
<1>3. ASSUME NEW s \in Slots, Moves(s) PROVE Leased'
  <2>1. \A t \in Slots \ {s} : w'[t] = w[t] /\ (t \in leases' <=> t \in leases)
    BY <1>3 DEF Moves, Starts, Advances, GivesUp, Errs, Finishes, Sends, Received, Leaves, Drops
  <2>2. /\ w[s].pc \in {"admit", "run"} => s \in leases
        /\ w[s].pc = "claim" /\ ~w[s].agent => s \in leases
        /\ w[s].pc \in {"route", "ask", "admit", "defer", "stop"} => w[s].agent
        /\ s \in leases /\ w[s].agent => w[s].pc \in {"admit", "run"}
    BY DEF Leased
  <2>3. /\ w'[s].pc \in {"admit", "run"} => s \in leases'
        /\ w'[s].pc = "claim" /\ ~w'[s].agent => s \in leases'
        /\ w'[s].pc \in {"route", "ask", "admit", "defer", "stop"} => w'[s].agent
        /\ s \in leases' /\ w'[s].agent => w'[s].pc \in {"admit", "run"}
    <3>1. CASE Starts(s)
      BY <3>1 DEF Starts
    <3>2. CASE Advances(s)
      BY <2>2, <3>2 DEF Advances, Goes, Drops
    <3>3. CASE GivesUp(s) \/ Errs(s) \/ Finishes(s) \/ Sends(s)
      BY <2>2, <3>3 DEF GivesUp, Errs, Finishes, Sends, Goes, Drops
    <3>4. CASE Received(s) \/ Leaves(s)
      BY <2>2, <3>4 DEF Received, Leaves, Drops
    <3> QED BY <1>3, <3>1, <3>2, <3>3, <3>4 DEF Moves
  <2> QED BY <2>1, <2>3 DEF Leased
<1> QED BY <1>1, <1>2, <1>3, StepMoves

\* Reserved for given workers.
Agents(S, f) == Cardinality({s \in S : f[s].agent})
Merges(S, f) == Cardinality({s \in S : ~f[s].agent})
Sum(S, f) == AgentNeed * Agents(S, f) + MergeNeed * Merges(S, f)

(* Products of natural numbers grow with their factor.                     *)
LEMMA TimesLeq ==
  ASSUME NEW a \in Nat, NEW m \in Nat, NEW n \in Nat, m <= n
  PROVE  a * m \in Nat /\ a * n \in Nat /\ a * m <= a * n
OBVIOUS

(* One more worker needs its own share.                                    *)
LEMMA TimesNext ==
  ASSUME NEW a \in Nat, NEW m \in Nat
  PROVE  a * (m + 1) = a * m + a
OBVIOUS

(* Fewer workers need no more.                                             *)
LEMMA SumShrinks ==
  ASSUME NEW S \in SUBSET Slots, NEW T \in SUBSET S, NEW f, NEW g,
         \A s \in T : g[s].agent = f[s].agent
  PROVE  Sum(T, g) \in Nat /\ Sum(S, f) \in Nat /\ Sum(T, g) <= Sum(S, f)
<1>1. IsFiniteSet(S)
  BY FS_Subset
<1>2. /\ {s \in T : g[s].agent} \subseteq {s \in S : f[s].agent}
      /\ {s \in T : ~g[s].agent} \subseteq {s \in S : ~f[s].agent}
      /\ {s \in S : f[s].agent} \subseteq S /\ {s \in S : ~f[s].agent} \subseteq S
  OBVIOUS
<1>3. IsFiniteSet({s \in S : f[s].agent}) /\ IsFiniteSet({s \in S : ~f[s].agent})
  BY <1>1, <1>2, FS_Subset
<1>4. /\ Agents(T, g) <= Agents(S, f) /\ Merges(T, g) <= Merges(S, f)
      /\ Agents(T, g) \in Nat /\ Agents(S, f) \in Nat /\ Merges(T, g) \in Nat /\ Merges(S, f) \in Nat
  <2>1. /\ Cardinality({s \in T : g[s].agent}) <= Cardinality({s \in S : f[s].agent})
        /\ IsFiniteSet({s \in T : g[s].agent})
    BY <1>2, <1>3, FS_Subset
  <2>2. /\ Cardinality({s \in T : ~g[s].agent}) <= Cardinality({s \in S : ~f[s].agent})
        /\ IsFiniteSet({s \in T : ~g[s].agent})
    BY <1>2, <1>3, FS_Subset
  <2> QED BY <1>3, <2>1, <2>2, FS_CardinalityType DEF Agents, Merges
<1> HIDE DEF Agents, Merges
<1>5. AgentNeed \in Nat /\ MergeNeed \in Nat
  OBVIOUS
<1> QED BY <1>4, <1>5, TimesLeq DEF Sum

(* One worker more needs its own share.                                    *)
LEMMA SumGrows ==
  ASSUME NEW S \in SUBSET Slots, NEW s \in Slots, s \notin S, NEW f, NEW g,
         \A x \in S : g[x].agent = f[x].agent, g[s].agent \in BOOLEAN
  PROVE  Sum(S \cup {s}, g) = Sum(S, f) + (IF g[s].agent THEN AgentNeed ELSE MergeNeed)
<1> DEFINE A == {x \in S : f[x].agent}
           M == {x \in S : ~f[x].agent}
<1>1. IsFiniteSet(A) /\ IsFiniteSet(M)
  <2>1. A \subseteq Slots /\ M \subseteq Slots
    OBVIOUS
  <2> HIDE DEF A, M
  <2> QED BY <2>1, FS_Subset
<1>2. Cardinality(A) \in Nat /\ Cardinality(M) \in Nat /\ s \notin A /\ s \notin M
  BY <1>1, FS_CardinalityType
<1>3. CASE g[s].agent
  <2>1. {x \in S \cup {s} : g[x].agent} = A \cup {s} /\ {x \in S \cup {s} : ~g[x].agent} = M
    BY <1>3
  <2>2. Cardinality(A \cup {s}) = Cardinality(A) + 1
    BY <1>1, <1>2, FS_AddElement
  <2>3. Agents(S \cup {s}, g) = Agents(S, f) + 1 /\ Merges(S \cup {s}, g) = Merges(S, f)
    BY <2>1, <2>2 DEF Agents, Merges
  <2>4. Agents(S, f) \in Nat /\ Merges(S, f) \in Nat
    BY <1>2 DEF Agents, Merges
  <2> HIDE DEF A, M
  <2> QED BY <1>3, <2>3, <2>4, TimesNext, TimesLeq DEF Sum
<1>4. CASE ~g[s].agent
  <2>1. {x \in S \cup {s} : ~g[x].agent} = M \cup {s} /\ {x \in S \cup {s} : g[x].agent} = A
    BY <1>4
  <2>2. Cardinality(M \cup {s}) = Cardinality(M) + 1
    BY <1>1, <1>2, FS_AddElement
  <2>3. Merges(S \cup {s}, g) = Merges(S, f) + 1 /\ Agents(S \cup {s}, g) = Agents(S, f)
    BY <2>1, <2>2 DEF Agents, Merges
  <2>4. Agents(S, f) \in Nat /\ Merges(S, f) \in Nat
    BY <1>2 DEF Agents, Merges
  <2> HIDE DEF A, M
  <2> QED BY <1>4, <2>3, <2>4, TimesNext, TimesLeq DEF Sum
<1> QED BY <1>3, <1>4

\* What another controller's worker needs.
Outside(o) == IF o THEN OtherNeed ELSE 0

(* The locked leases fit into the node.                                    *)
Fit == Sum(leases, w) + Outside(other) <= Budget

BudgetInv == OwnerInv /\ Leased /\ Fit

(* Every step keeps the leases within the node.                            *)
LEMMA FitStep == BudgetInv /\ [Next]_vars => Fit'
<1> SUFFICES ASSUME BudgetInv, [Next]_vars PROVE Fit'
  OBVIOUS
<1>1. Shape /\ leases \in SUBSET Slots /\ \A s \in Slots : w[s].agent \in BOOLEAN
  BY DEF BudgetInv, OwnerInv, Shape, WorkerState
<1>2. /\ Sum(leases, w) \in Nat /\ Outside(other) \in Nat /\ Budget \in Nat
      /\ AgentNeed \in Nat /\ MergeNeed \in Nat /\ OtherNeed \in Nat
  <2>1. Sum(leases, w) \in Nat
    BY <1>1, SumShrinks
  <2> QED BY <2>1 DEF Outside
<1>3. committed = Sum(leases, w) + Outside(other)
  BY DEF committed, Reserved, Sum, Agents, Merges, Outside
<1> HIDE DEF Sum
<1>4. ASSUME leases' \subseteq leases, \A s \in leases' : w'[s].agent = w[s].agent, UNCHANGED other
      PROVE  Fit'
  <2>1. Sum(leases', w') \in Nat /\ Sum(leases', w') <= Sum(leases, w)
    BY <1>1, <1>4, SumShrinks
  <2> QED BY <1>2, <1>4, <2>1 DEF BudgetInv, Fit
<1>5. ASSUME NEW s \in Slots, s \notin leases, leases' = leases \cup {s}, UNCHANGED other,
             \A t \in leases : w'[t].agent = w[t].agent, w'[s].agent \in BOOLEAN,
             Fits(IF w'[s].agent THEN AgentNeed ELSE MergeNeed)
      PROVE  Fit'
  <2>1. Sum(leases', w') = Sum(leases, w) + (IF w'[s].agent THEN AgentNeed ELSE MergeNeed)
    BY <1>1, <1>5, SumGrows
  <2> QED BY <1>2, <1>3, <1>5, <2>1 DEF Fits, Fit
<1>6. CASE NoMove
  <2>1. w' = w /\ leases' = leases
    BY <1>6 DEF NoMove
  <2>2. CASE UNCHANGED other
    BY <1>4, <2>1, <2>2
  <2>3. CASE other' # other
    <3>1. (other \/ Fits(OtherNeed)) /\ other' = ~other
      BY <1>6, <2>3 DEF NoMove
    <3>2. CASE other
      BY <1>2, <2>1, <3>1, <3>2 DEF BudgetInv, Fit, Outside
    <3>3. CASE ~other
      BY <1>2, <1>3, <2>1, <3>1, <3>3 DEF Fits, Fit, Outside
    <3> QED BY <3>2, <3>3
  <2> QED BY <2>2, <2>3
<1>7. ASSUME NEW s \in Slots, Moves(s) PROVE Fit'
  <2>1. \A t \in Slots \ {s} : w'[t].agent = w[t].agent
    BY <1>7 DEF Moves
  <2>2. UNCHANGED other
    BY <1>7 DEF Moves, Starts, Advances, GivesUp, Errs, Finishes, Sends, Received, Leaves
  <2>3. s \in leases /\ w[s].agent => w[s].pc \in {"admit", "run"}
    BY DEF BudgetInv, Leased
  <2>4. CASE Starts(s)
    <3>1. PICK i \in Items : /\ s \notin leases /\ w'[s].agent = Agent(i)
                             /\ \/ UNCHANGED leases
                                \/ ~Agent(i) /\ Fits(MergeNeed) /\ leases' = leases \cup {s}
      BY <2>4 DEF Starts
    <3>2. CASE UNCHANGED leases
      BY <1>1, <1>4, <2>1, <2>2, <3>1, <3>2
    <3>3. CASE ~Agent(i) /\ Fits(MergeNeed) /\ leases' = leases \cup {s}
      <4>1. w'[s].agent \in BOOLEAN /\ ~w'[s].agent
        BY <3>1, <3>3 DEF Agent
      <4>2. \A t \in leases : w'[t].agent = w[t].agent
        BY <1>1, <2>1, <3>1
      <4> QED BY <1>5, <2>2, <3>1, <3>3, <4>1, <4>2
    <3> QED BY <3>1, <3>2, <3>3
  <2>5. CASE Advances(s)
    <3>1. w'[s].agent = w[s].agent
      BY <2>5 DEF Advances, Goes
    <3>2. CASE leases' \subseteq leases
      BY <1>1, <1>4, <2>1, <2>2, <3>1, <3>2
    <3>3. CASE ~(leases' \subseteq leases)
      <4>1. w[s].pc = "ask" /\ Fits(Need(s)) /\ leases' = leases \cup {s}
        BY <2>5, <3>3 DEF Advances, Goes, Drops
      <4>2. s \notin leases
        BY <3>3, <4>1
      <4>3. \A t \in leases : w'[t].agent = w[t].agent
        BY <1>1, <2>1, <4>2
      <4> QED BY <1>1, <1>5, <2>2, <3>1, <4>1, <4>2, <4>3 DEF Need
    <3> QED BY <3>2, <3>3
  <2>6. CASE GivesUp(s) \/ Errs(s) \/ Finishes(s) \/ Sends(s)
    <3>1. w'[s].agent = w[s].agent /\ leases' \subseteq leases
      BY <2>6 DEF GivesUp, Errs, Finishes, Sends, Goes, Drops
    <3> QED BY <1>1, <1>4, <2>1, <2>2, <3>1
  <2>7. CASE Received(s)
    <3>1. leases' = leases /\ (s \in leases => w'[s].agent = w[s].agent)
      BY <1>1, <2>3, <2>7 DEF Received
    <3> QED BY <1>1, <1>4, <2>1, <2>2, <3>1
  <2>8. CASE Leaves(s)
    <3>1. leases' = leases \ {s}
      BY <2>8 DEF Leaves, Drops
    <3> QED BY <1>1, <1>4, <2>1, <2>2, <3>1
  <2> QED BY <1>7, <2>4, <2>5, <2>6, <2>7, <2>8 DEF Moves
<1> QED BY <1>1, <1>6, <1>7, StepMoves

(* WithinBudget, for any node, needs and number of workers: what runs has  *)
(* a lease, and a lease is given only when all the locked ones and the new *)
(* one fit, whichever controller holds them.                               *)
THEOREM NodeFits == Spec => []WithinBudget
<1>1. Init /\ OwnerInv => BudgetInv
  <2> SUFFICES ASSUME Init, OwnerInv PROVE BudgetInv
    OBVIOUS
  <2>1. Free.pc = "free" /\ \A s \in Slots : w[s].pc = "free"
    BY DEF Init, Free
  <2>2. Leased
    BY <2>1 DEF Init, Leased
  <2>3. Sum({}, w) = 0
    <3>1. {s \in {} : w[s].agent} = {} /\ {s \in {} : ~w[s].agent} = {} /\ Cardinality({}) = 0
      BY FS_EmptySet
    <3> QED BY <3>1 DEF Sum, Agents, Merges
  <2>4. Fit
    BY <2>3 DEF Init, Fit, Outside
  <2> QED BY <2>2, <2>4 DEF BudgetInv
<1>2. BudgetInv /\ [Next]_vars => BudgetInv'
  BY OwnerStep, LeasedStep, FitStep DEF BudgetInv
<1>3. BudgetInv => WithinBudget
  <2> SUFFICES ASSUME BudgetInv PROVE WithinBudget
    OBVIOUS
  <2> DEFINE R == {s \in Slots : w[s].pc = "run"}
  <2>1. R \in SUBSET leases /\ leases \in SUBSET Slots
    BY DEF BudgetInv, OwnerInv, Shape, Leased
  <2>2. Reserved(R) = Sum(R, w)
    BY DEF Reserved, Sum, Agents, Merges
  <2> HIDE DEF R, Sum
  <2>3. Sum(R, w) \in Nat /\ Sum(leases, w) \in Nat /\ Sum(R, w) <= Sum(leases, w)
    BY <2>1, SumShrinks
  <2>4. Outside(other) \in Nat /\ Budget \in Nat
    BY DEF Outside
  <2>5. Reserved(R) + Outside(other) <= Budget
    BY <2>2, <2>3, <2>4 DEF BudgetInv, Fit
  <2> QED BY <2>5 DEF WithinBudget, R, Outside
<1> QED BY <1>1, <1>2, <1>3, OwnerInvariant, PTL DEF Spec

-----------------------------------------------------------------------------
(* The scheduler's counters *)

Taken == {s \in Slots : w[s].pc # "free"}

\* active counts the workers that were not received; who waits has one.
Counted ==
  /\ active = Cardinality(Taken) /\ active \in 0..Limit
  /\ sched = "wait" => active > 0

Counters ==
  /\ sched \in {"top", "wait", "ended", "over"}
  /\ fill \in 0..Limit /\ alternatives \in 0..Limit
  /\ suppressed \in BOOLEAN /\ shutdown \in BOOLEAN
  /\ \A i \in Items : left[i] <= Actions[i]

CountInv == OwnerInv /\ Counted /\ Counters

(* A launch takes one slot more, a result that is received gives one back, *)
(* and no other step changes the count.                                    *)
LEMMA TakenStep ==
  ASSUME OwnerInv, active \in Nat, [Next]_vars
  PROVE  \/ \E s \in Slots : /\ s \notin Taken /\ Taken' = Taken \cup {s}
                             /\ active < Limit /\ active' = active + 1 /\ sched' = "top"
         \/ \E s \in Slots : /\ s \in Taken /\ Taken' = Taken \ {s}
                             /\ active' = active - 1 /\ sched' = "top"
         \/ /\ Taken' = Taken /\ active' = active
            /\ sched' = "wait" => sched = "wait" \/ active > 0
<1>0. Shape BY DEF OwnerInv
<1>1. ASSUME NEW s \in Slots, WorkerCompleted(s)
      PROVE  s \in Taken /\ Taken' = Taken \ {s} /\ active' = active - 1 /\ sched' = "top"
  <2>1. w'[s].pc = "free" /\ \A t \in Slots \ {s} : w'[t] = w[t]
    BY <1>0, <1>1 DEF WorkerCompleted, Shape, Free
  <2> QED BY <1>1, <2>1 DEF WorkerCompleted, Taken
<1>2. ASSUME NEW s \in Slots, NEW i \in Items, Launch(s, i), Spawned(s)
      PROVE  s \notin Taken /\ Taken' = Taken \cup {s} /\ active' = active + 1
  <2>1. w'[s].pc = "claim" /\ \A t \in Slots \ {s} : w'[t] = w[t]
    BY <1>0, <1>2 DEF Launch, Shape, Free
  <2>2. w[s].pc = "free" BY <1>2 DEF Spawned, FreeSlots
  <2> QED BY <1>2, <2>1, <2>2 DEF Launch, Taken
<1>3. ASSUME NEW s \in Slots, NEW i \in Items, FillAgent(s, i) \/ FillLifecycle(s, i),
             Launch(s, i)
      PROVE  active < Limit /\ sched' = "top" /\ Spawned(s)
  <2>1. active' # active
    BY <1>3 DEF Launch
  <2> QED BY <1>3, <2>1 DEF FillAgent, FillLifecycle, CanFill
<1>4. ASSUME NEW s \in Slots, service_pending_request(s) \/ Worker(s)
      PROVE  Taken' = Taken /\ active' = active /\ sched' = sched
  <2>1. active' = active /\ sched' = sched
    BY <1>4 DEF service_pending_request, Worker, Claim, Fails, Route, Answer, DeferralUnrecorded, RunEnds,
      SendDone, ThreadEnds, others
  <2>2. /\ \A t \in Slots \ {s} : w'[t] = w[t]
        /\ w'[s].pc = "free" <=> w[s].pc = "free"
    <3>1. ASSUME NEW p, NEW o, Only(s, p, o), w[s].pc # "free", p # "free" PROVE <2>2
      BY <1>0, <3>1 DEF Only, Shape, WorkerState
    <3>2. CASE service_pending_request(s)
      BY <1>0, <3>2 DEF service_pending_request, Shape, WorkerState
    <3>3. CASE \/ Claim(s) \/ Fails(s) \/ Route(s) \/ Answer(s) \/ DeferralUnrecorded(s)
               \/ SendDone(s)
      BY <3>1, <3>3 DEF Claim, Fails, Route, Answer, DeferralUnrecorded, SendDone
    <3>4. CASE RunEnds(s)
      BY <1>0, <3>1, <3>4 DEF RunEnds, Shape, WorkerState
    <3>5. CASE ThreadEnds(s)
      BY <1>0, <3>5 DEF ThreadEnds, Shape, Free
    <3> QED BY <1>4, <3>2, <3>3, <3>4, <3>5 DEF Worker
  <2> QED BY <2>1, <2>2 DEF Taken
<1>5. ASSUME w' = w, active' = active, sched' = "wait" => sched = "wait" \/ active > 0
      PROVE  /\ Taken' = Taken /\ active' = active
             /\ sched' = "wait" => sched = "wait" \/ active > 0
  BY <1>5 DEF Taken
<1>6. ASSUME NEW s \in Slots, NEW i \in Items, FillAgent(s, i) \/ FillLifecycle(s, i),
             ~Launch(s, i)
      PROVE  w' = w /\ active' = active /\ (sched' = "wait" => active > 0)
  BY <1>6 DEF FillAgent, FillLifecycle
<1>7. CASE FillNothing \/ FillFails \/ FillOver \/ WaitTimesOut \/ BatchOver
           \/ OtherController \/ Shutdown \/ UNCHANGED vars
  <2>1. w' = w /\ active' = active
    BY <1>7 DEF FillNothing, FillFails, FillOver, WaitTimesOut, BatchOver, OtherController,
      Shutdown, vars
  <2>2. sched' = "wait" => sched = "wait" \/ active > 0
    BY <1>7 DEF FillNothing, FillFails, Leave, FillOver, WaitTimesOut, BatchOver, OtherController,
      Shutdown, vars
  <2> QED BY <1>5, <2>1, <2>2
<1> QED BY <1>1, <1>2, <1>3, <1>4, <1>5, <1>6, <1>7 DEF Next, Scheduler

(* The actions an item needs only grow fewer.                              *)
LEMMA LeftStep ==
  ASSUME CountInv, [Next]_vars
  PROVE  \A i \in Items : left'[i] <= Actions[i]
<1>0. Shape /\ \A i \in Items : left[i] <= Actions[i]
  BY DEF CountInv, OwnerInv, Counters
<1>1. CASE NoMove BY <1>0, <1>1 DEF NoMove
<1>2. ASSUME NEW s \in Slots, Moves(s) PROVE \A i \in Items : left'[i] <= Actions[i]
  <2>1. CASE Finishes(s)
    <3>2. \A i \in Items : /\ left[i] \in Nat /\ Actions[i] \in Nat
                           /\ left'[i] = left[i] \/ left'[i] = left[i] - 1
      BY <1>0, <2>1 DEF Finishes, Shape
    <3> QED BY <1>0, <3>2
  <2>2. CASE UNCHANGED left BY <1>0, <2>2
  <2> QED BY <1>2, <2>1, <2>2
    DEF Moves, Starts, Advances, GivesUp, Errs, Sends, Received, Leaves
<1> QED BY <1>0, <1>1, <1>2, StepMoves

(* Every step keeps the count of the workers.                              *)
LEMMA CountedStep ==
  ASSUME OwnerInv, Counted, [Next]_vars
  PROVE  Counted'
<1>1. /\ IsFiniteSet(Taken) /\ active \in Nat /\ Limit \in Nat
      /\ active = Cardinality(Taken) /\ active <= Limit
  <2>1. Taken \in SUBSET Slots BY DEF Taken
  <2> QED BY <2>1, FS_Subset DEF Counted
<1>2. ASSUME NEW s \in Slots, s \notin Taken, Taken' = Taken \cup {s},
             active < Limit, active' = active + 1, sched' = "top"
      PROVE  Counted'
  <2>1. Cardinality(Taken \cup {s}) = Cardinality(Taken) + 1 BY <1>1, <1>2, FS_AddElement
  <2>2. active' = Cardinality(Taken') BY <1>1, <1>2, <2>1
  <2>3. active' \in 0..Limit BY <1>1, <1>2
  <2> QED BY <1>2, <2>2, <2>3 DEF Counted
<1>3. ASSUME NEW s \in Slots, s \in Taken, Taken' = Taken \ {s},
             active' = active - 1, sched' = "top"
      PROVE  Counted'
  <2>1. /\ Cardinality(Taken \ {s}) = Cardinality(Taken) - 1
        /\ Cardinality(Taken \ {s}) \in Nat
    BY <1>1, <1>3, FS_RemoveElement, FS_CardinalityType
  <2>2. active' = Cardinality(Taken') BY <1>1, <1>3, <2>1
  <2>3. active' \in 0..Limit BY <1>1, <1>3, <2>1
  <2> QED BY <1>3, <2>2, <2>3 DEF Counted
<1>4. CASE /\ Taken' = Taken /\ active' = active
           /\ sched' = "wait" => sched = "wait" \/ active > 0
  BY <1>1, <1>4 DEF Counted
<1> QED BY <1>1, <1>2, <1>3, <1>4, TakenStep

(* Every step keeps the attempts within the limit.                         *)
LEMMA CountersStep ==
  ASSUME CountInv, [Next]_vars
  PROVE  Counters'
<1>0. /\ Limit \in Nat /\ active \in 0..Limit /\ fill \in 0..Limit /\ alternatives \in 0..Limit
      /\ Shape /\ sched \in {"top", "wait", "ended", "over"}
      /\ suppressed \in BOOLEAN /\ shutdown \in BOOLEAN
  BY DEF CountInv, Counted, Counters, OwnerInv
<1>1. sched' \in {"top", "wait", "ended", "over"}
  BY <1>0 DEF Next, Scheduler, Worker, service_pending_request, WorkerCompleted, FillAgent,
    FillLifecycle, FillNothing, FillFails, Leave, FillOver, WaitTimesOut, BatchOver, Claim, Fails,
    Route, Answer, DeferralUnrecorded, RunEnds, SendDone, ThreadEnds, OtherController, Shutdown, others, vars
<1>2. ASSUME NEW s \in Slots, Worker(s)
      PROVE  UNCHANGED <<fill, alternatives, suppressed, shutdown>>
  BY <1>2 DEF Worker, Claim, Fails, Route, Answer, DeferralUnrecorded, RunEnds, SendDone, ThreadEnds,
    others, budget
<1>3. ASSUME NEW s \in Slots, WorkerCompleted(s)
      PROVE  /\ fill' \in 0..Limit /\ alternatives' \in 0..Limit
             /\ suppressed' \in BOOLEAN /\ UNCHANGED shutdown
  <2>1. /\ fill' \in {fill, 0, Limit} \/ (fill' = 1 /\ alternatives > 0)
        /\ \/ alternatives' \in {alternatives, 0}
           \/ alternatives > 0 /\ alternatives' = alternatives - 1
    BY <1>3 DEF WorkerCompleted, Refill
  <2>2. fill' \in 0..Limit /\ alternatives' \in 0..Limit BY <1>0, <2>1
  <2>3. suppressed' \in BOOLEAN BY <1>0, <1>3, Zenon DEF WorkerCompleted, Refill
  <2> QED BY <1>3, <2>2, <2>3 DEF WorkerCompleted
<1>4. CASE \/ \E s \in Slots : service_pending_request(s) \/ Worker(s)
           \/ FillOver \/ BatchOver \/ OtherController \/ UNCHANGED vars
  <2>1. UNCHANGED <<fill, alternatives, suppressed, shutdown>>
    BY <1>2, <1>4 DEF service_pending_request, FillOver, BatchOver, OtherController,
      vars, budget
  <2> QED BY <1>0, <1>1, <2>1, LeftStep DEF Counters
<1>5. CASE \E s \in Slots : WorkerCompleted(s)
  BY <1>0, <1>1, <1>3, <1>5, LeftStep DEF Counters
<1>6. CASE \/ \E s \in Slots, i \in Items : FillAgent(s, i) \/ FillLifecycle(s, i)
           \/ FillNothing
  <2>1. fill > 0 /\ fill' = fill - 1 /\ UNCHANGED <<alternatives, suppressed, shutdown>>
    BY <1>6 DEF FillAgent, FillLifecycle, FillNothing, CanFill
  <2>2. fill' \in 0..Limit BY <1>0, <2>1
  <2> QED BY <1>0, <1>1, <2>1, <2>2, LeftStep DEF Counters
<1>7. CASE WaitTimesOut
  <2>1. /\ sched = "wait" /\ fill' \in {fill, 0, 1} /\ alternatives' \in {alternatives, 0}
        /\ suppressed' \in {suppressed, FALSE} /\ UNCHANGED shutdown
    BY <1>7 DEF WaitTimesOut, Leave, budget
  <2>2. active > 0 BY <2>1 DEF CountInv, Counted
  <2>3. fill' \in 0..Limit /\ alternatives' \in 0..Limit BY <1>0, <2>1, <2>2
  <2>4. suppressed' \in BOOLEAN /\ shutdown' \in BOOLEAN BY <1>0, <2>1, Zenon
  <2> QED BY <1>1, <2>3, <2>4, LeftStep DEF Counters
<1>8. CASE Shutdown
  <2>1. /\ shutdown' = TRUE /\ suppressed' = TRUE /\ fill' = 0 /\ alternatives' = 0
    BY <1>8 DEF Shutdown
  <2> QED BY <1>0, <1>1, <2>1, LeftStep DEF Counters
<1>9. CASE FillFails
  <2>1. UNCHANGED shutdown /\ suppressed' = FALSE /\ fill' = 0 /\ alternatives' = 0
    BY <1>9 DEF FillFails, Leave
  <2>2. fill' \in 0..Limit /\ alternatives' \in 0..Limit BY <1>0, <2>1
  <2>3. suppressed' \in BOOLEAN /\ shutdown' \in BOOLEAN BY <1>0, <2>1, Zenon
  <2> QED BY <1>1, <2>2, <2>3, LeftStep DEF Counters
<1> QED BY <1>4, <1>5, <1>6, <1>7, <1>8, <1>9 DEF Next, Scheduler

(* The type invariant, for any items, slots and limits: the scheduler's     *)
(* count of active workers is the number of slots in use and never exceeds  *)
(* the limit, and the attempts it has left stay within it                   *)
(* (run_parallel_once).                                                     *)
THEOREM LoopTypes == Spec => []TypeOK
<1>1. Init /\ OwnerInv => CountInv
  <2> SUFFICES ASSUME Init, OwnerInv PROVE CountInv OBVIOUS
  <2>1. Taken = {} BY DEF Init, Taken, Free
  <2>2. Cardinality(Taken) = 0 BY <2>1, FS_EmptySet
  <2>3. Counted BY <2>2 DEF Init, Counted
  <2>4. \A i \in Items : left[i] <= Actions[i] BY DEF Init
  <2>5. Limit \in 0..Limit OBVIOUS
  <2>6. Counters BY <2>4, <2>5 DEF Init, Counters
  <2> QED BY <2>3, <2>6 DEF CountInv
<1>2. CountInv /\ [Next]_vars => CountInv'
  BY OwnerStep, CountedStep, CountersStep DEF CountInv
<1>3. CountInv => TypeOK
  BY DEF CountInv, OwnerInv, Shape, Counted, Counters, Taken, TypeOK
<1> QED BY <1>1, <1>2, <1>3, OwnerInvariant, PTL DEF Spec
=============================================================================
