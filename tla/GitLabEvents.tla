---------------------------- MODULE GitLabEvents ----------------------------
(***************************************************************************)
(* The durable queue of GitLab events                                      *)
(* (apps/server/src/integrations/gitlab/eventStore.ts, queue.ts and        *)
(* dispatcher.ts) on top of the fleet dispatch coordinator.  An accepted   *)
(* event is in the store's file until a session was started for it, it was *)
(* refused, or it was given up as a dead letter.  The request of an event  *)
(* is its key; other requests come from people.                            *)
(*                                                                         *)
(* Time is whether an entry's retryAt lies in the future.  A receipt's     *)
(* expiry after 24 hours is left out: a key is accepted once.              *)
(***************************************************************************)
EXTENDS FleetDispatch

CONSTANTS
  Keys,            \* the events' keys, which are requests
  Queue,           \* the caller that replays events
  MaxAttempts,     \* MAX_DISPATCH_ATTEMPTS
  QueueCapacity,   \* of the pending entries
  DeadCapacity     \* of the dead letters

ASSUME EventsAssumption ==
  /\ Keys \subseteq Requests /\ Queue \in Callers
  /\ MaxAttempts \in Nat \ {0} /\ QueueCapacity \in Nat \ {0}
  /\ DeadCapacity \in Nat

VARIABLES
  pending,      \* the pending entries: attempts, started, whether retryAt is ahead
  deadLetters,  \* keys of the dead letters
  acknowledged, \* keys whose fleet receipt has to be released
  accepted,     \* keys with a receipt in the store
  current,      \* the key the replay works on, or NoRequest
  refused,      \* history: keys the intake refused
  tries         \* history: dispatches of each key since it became pending

storeVars == <<pending, deadLetters, acknowledged, accepted>>
queueVars == <<pending, deadLetters, acknowledged, accepted, current, refused, tries>>
vars == <<fleetVars, queueVars>>

Entry == [attempts : 0..MaxAttempts, started : BOOLEAN, wait : BOOLEAN]

(* What load demands of the store's file, without which it would reject the *)
(* file after a restart: an accepted key is in one of the lists at most.    *)
(* And the replay that waits for the fleet works on a pending entry.        *)
StoreOK ==
  /\ DOMAIN pending \subseteq Keys
  /\ \A k \in DOMAIN pending : pending[k] \in Entry
  /\ current \in DOMAIN pending \cup {NoRequest}
  /\ \A S \in {deadLetters, acknowledged, accepted, refused} : S \subseteq Keys
  /\ DOMAIN pending \cap deadLetters = {} /\ DOMAIN pending \cap acknowledged = {}
  /\ deadLetters \cap acknowledged = {}
  /\ DOMAIN pending \cup deadLetters \cup acknowledged \subseteq accepted
  /\ Cardinality(deadLetters) <= DeadCapacity
  /\ call[Queue].pc # "idle" => current # NoRequest

(* The type invariant, of the coordinator and of the store (load). *)
TypeOK == FleetTypeOK /\ StoreOK

Init ==
  /\ FleetInit
  /\ pending = <<>> /\ deadLetters = {} /\ acknowledged = {} /\ accepted = {}
  /\ current = NoRequest /\ refused = {} /\ tries = [k \in Keys |-> 0]

Without(k) == [x \in DOMAIN pending \ {k} |-> pending[x]]
With(k, entry) == [x \in DOMAIN pending \cup {k} |->
                     IF x = k THEN entry ELSE pending[x]]

-----------------------------------------------------------------------------
(* Receiving *)

\* A delivery with its receipt; a duplicate and a full queue change nothing.
enqueue(k) ==
  /\ k \notin accepted
  /\ Cardinality(DOMAIN pending) < QueueCapacity
  /\ pending' = With(k, [attempts |-> 0, started |-> FALSE, wait |-> FALSE])
  /\ accepted' = accepted \cup {k}
  /\ UNCHANGED <<deadLetters, acknowledged, current, refused, tries, fleetVars>>

\* retryAt passes.
RetryDue(k) ==
  /\ k \in DOMAIN pending /\ k # current /\ pending[k].wait
  /\ pending' = [pending EXCEPT ![k].wait = FALSE]
  /\ UNCHANGED <<deadLetters, acknowledged, accepted, current, refused, tries,
                 fleetVars>>

-----------------------------------------------------------------------------
(* The end of an attempt *)

\* Mutant: the acknowledgement is forgotten even if the receipt stays pinned.
ReleaseForgets(k, A) ==
  \/ Save(Released(k)) /\ acknowledged' = A \ {k} /\ UNCHANGED faults
  \/ acknowledged' = A \ {k} /\ Fault /\ UNCHANGED <<leases, disk>>

\* release: unpin the fleet receipt, then forget the acknowledgement; A are the
\* acknowledged keys.  Either write may fail, and replay tries again.
Release(k, A) ==
  \/ /\ Save(Released(k))
     /\ \/ acknowledged' = A \ {k} /\ UNCHANGED faults
        \/ acknowledged' = A /\ Fault
  \/ /\ acknowledged' = A /\ Fault
     /\ UNCHANGED <<leases, disk>>

\* complete; entry is the entry as it is stored.  If the store cannot be
\* written the replay ends and the entry keeps the retryAt that begin gave it.
complete(k, entry) ==
  /\ current' = NoRequest
  /\ \/ pending' = Without(k) /\ Release(k, acknowledged \cup {k})
     \/ /\ Fault /\ pending' = With(k, entry)
        /\ UNCHANGED <<acknowledged, leases, disk>>
  /\ UNCHANGED <<deadLetters, accepted, tries>>

\* Mutant: a failed attempt of a spent budget leaves the entry pending.
FailedForever(k, entry) ==
  /\ current' = NoRequest
  /\ pending' = With(k, [entry EXCEPT !.wait = TRUE])
  /\ UNCHANGED <<deadLetters, faults, acknowledged, accepted, tries, leases, disk>>

\* failed: retry later, or a dead letter when the budget is spent and there is
\* room.
failed(k, entry) ==
  /\ current' = NoRequest
  /\ \/ /\ IF /\ entry.attempts >= MaxAttempts
              /\ Cardinality(deadLetters) < DeadCapacity
           THEN /\ pending' = Without(k)
                /\ deadLetters' = deadLetters \cup {k}
           ELSE /\ pending' = With(k, [entry EXCEPT !.wait = TRUE])
                /\ UNCHANGED deadLetters
        /\ UNCHANGED faults
     \/ /\ Fault
        /\ pending' = With(k, entry)
        /\ UNCHANGED deadLetters
  /\ UNCHANGED <<acknowledged, accepted, tries, leases, disk>>

-----------------------------------------------------------------------------
(* Replay *)

\* Mutant: an attempt is counted when it fails, not before it is made.
BeginUncounted(k) ==
  LET entry    == pending[k]
      previous == IF entry.started /\ k \in DOMAIN leases THEN leases[k].state
                  ELSE "missing"
  IN /\ current = NoRequest /\ k \in DOMAIN pending /\ ~entry.wait
     /\ \/ previous \in {"running", "terminal"} /\ complete(k, entry)
        \/ /\ previous = "uncertain_reconciling"
           /\ failed(k, [entry EXCEPT !.wait = TRUE])
        \/ /\ previous \in {"missing", "expired"}
           /\ pending' = With(k, [entry EXCEPT !.started = TRUE])
           /\ current' = k
           /\ tries' = [tries EXCEPT ![k] = @ + 1]
           /\ UNCHANGED <<deadLetters, acknowledged, accepted, leases, disk, faults>>
     /\ UNCHANGED <<refused, sess, call, wire, conn, mishap>>

\* Mutant: any lease of the request is taken as a confirmed start.
BeginTrustsUncertain(k) ==
  LET entry == pending[k]
  IN /\ current = NoRequest /\ k \in DOMAIN pending /\ ~entry.wait
     /\ \/ entry.started /\ complete(k, entry)
        \/ /\ ~entry.started
           /\ pending' = With(k, [attempts |-> 1, started |-> TRUE, wait |-> TRUE])
           /\ current' = k
           /\ tries' = [tries EXCEPT ![k] = @ + 1]
           /\ UNCHANGED <<deadLetters, acknowledged, accepted, leases, disk, faults>>
     /\ UNCHANGED <<refused, sess, call, wire, conn, mishap>>

\* begin reserves an attempt (if that cannot be written the replay ends and
\* nothing changes); the outcome of an earlier one is looked up in the fleet's
\* leases; without one the event goes to the intake.
begin(k) ==
  LET entry    == pending[k]
      reserved == entry.attempts < MaxAttempts
      next     == IF reserved
                  THEN [attempts |-> entry.attempts + 1, started |-> TRUE, wait |-> TRUE]
                  ELSE entry
      previous == IF entry.started /\ k \in DOMAIN leases THEN leases[k].state
                  ELSE "missing"
  IN /\ current = NoRequest /\ k \in DOMAIN pending /\ ~entry.wait
     /\ \/ previous \in {"running", "terminal"} /\ complete(k, next)
        \/ /\ previous \notin {"running", "terminal"}
           /\ ~reserved \/ previous = "uncertain_reconciling"
           /\ failed(k, next)
        \/ /\ previous \in {"missing", "expired"} /\ reserved
           /\ pending' = With(k, next)
           /\ current' = k
           /\ tries' = [tries EXCEPT ![k] = @ + 1]
           /\ UNCHANGED <<deadLetters, acknowledged, accepted, leases, disk, faults>>
     /\ UNCHANGED <<refused, sess, call, wire, conn, mishap>>

\* dispatchGitLabEvent asks the provider: the event is refused by policy, a
\* call fails, or the fleet is asked for a session.
Intake ==
  /\ current # NoRequest /\ call[Queue].pc = "idle"
  /\ \/ /\ refused' = refused \cup {current}
        /\ complete(current, pending[current])
        /\ UNCHANGED <<sess, call, wire, conn, mishap>>
     \/ /\ failed(current, pending[current])
        /\ UNCHANGED <<refused, sess, call, wire, conn, mishap>>
     \/ startSession(Queue, current, TRUE) /\ UNCHANGED queueVars

\* The fleet's answer: an unknown outcome counts as a failure.
Answered ==
  /\ call[Queue].pc \in {"done", "failed"}
  /\ call' = [call EXCEPT ![Queue] = Idle]
  /\ IF call[Queue].pc = "done"
        /\ call[Queue].state \notin {"expired", "uncertain_reconciling"}
     THEN complete(current, pending[current])
     ELSE failed(current, pending[current])
  /\ UNCHANGED <<refused, sess, wire, conn, mishap>>

\* At its beginning a replay releases what earlier ones acknowledged.
ReplayRelease(k) ==
  /\ current = NoRequest /\ k \in acknowledged
  /\ Release(k, acknowledged)
  /\ UNCHANGED <<pending, deadLetters, accepted, current, refused, tries,
                 sess, call, wire, conn, mishap>>

-----------------------------------------------------------------------------
(* The owner *)

\* Mutant: the dead letter stays one when it is retried.
RetryKeepsLetter(k) ==
  /\ k \in deadLetters
  /\ Cardinality(DOMAIN pending) < QueueCapacity
  /\ pending' = With(k, [attempts |-> 0, started |-> TRUE, wait |-> FALSE])
  /\ tries' = [tries EXCEPT ![k] = 0]
  /\ UNCHANGED <<deadLetters, acknowledged, accepted, current, refused, fleetVars>>

\* recover: a dead letter is tried again with a new budget ...
recoverRetry(k) ==
  /\ k \in deadLetters
  /\ Cardinality(DOMAIN pending) < QueueCapacity
  /\ deadLetters' = deadLetters \ {k}
  /\ pending' = With(k, [attempts |-> 0, started |-> TRUE, wait |-> FALSE])
  /\ tries' = [tries EXCEPT ![k] = 0]
  /\ UNCHANGED <<acknowledged, accepted, current, refused, fleetVars>>

\* ... or given up, which leaves its receipt to be released.
recoverDiscard(k) ==
  /\ k \in deadLetters
  /\ deadLetters' = deadLetters \ {k}
  /\ refused' = refused \cup {k}
  /\ Release(k, acknowledged \cup {k})
  /\ UNCHANGED <<pending, accepted, current, tries, sess, call, wire, conn, mishap>>

-----------------------------------------------------------------------------
ServerRestarts ==
  /\ Restart
  /\ current' = NoRequest
  /\ UNCHANGED <<storeVars, refused, tries>>

\* People start sessions and connect, as other callers.
Others ==
  \E c \in Callers \ {Queue} :
    \/ \E r \in Requests \ Keys : startSession(c, r, FALSE)
    \/ welcome(c)

\* The queue acts on the fleet's answer in the turn it comes in; only a crash
\* comes between.
Next ==
  \/ Answered \/ ServerRestarts
  \/ /\ call[Queue].pc \notin {"done", "failed"}
     /\ \/ \E c \in Callers : /\ Quiet \/ call[c].pc = "write"
                              /\ CallStep(c) /\ UNCHANGED queueVars
        \/ /\ Quiet
           /\ \/ (NodeStep \/ Others) /\ UNCHANGED queueVars
              \/ \E k \in Keys : \/ enqueue(k) \/ RetryDue(k) \/ begin(k)
                                 \/ ReplayRelease(k)
                                 \/ recoverRetry(k) \/ recoverDiscard(k)
              \/ Intake

\* Calls are answered or time out, and the queue wakes every 30 seconds.
Fairness ==
  /\ \A c \in Callers : WF_vars(CallStep(c) /\ UNCHANGED queueVars)
  /\ WF_vars((\E m \in wire : RemoteStarts(m) \/ RemoteRefuses(m))
             /\ UNCHANGED queueVars)
  /\ \A k \in Keys : WF_vars(RetryDue(k)) /\ SF_vars(begin(k) \/ ReplayRelease(k))
  /\ WF_vars(Intake \/ Answered)

Spec == Init /\ [][Next]_vars /\ Fairness

-----------------------------------------------------------------------------
(* An event that left the store for good was refused by policy or by the    *)
(* owner, or a session of its work was started: no crash, failed write or   *)
(* late answer lets it pass as done (GitLabEventQueue.replay).              *)
NoEventSkipped ==
  mishap \/
    \A k \in accepted \ (DOMAIN pending \cup deadLetters) :
      \/ k \in refused
      \/ \E s \in Sessions : sess[s].st # "none" /\ WorkOf[sess[s].req] = WorkOf[k]

(* "Reservation and budget survive a crash anywhere in the dispatcher"      *)
(* (queue.ts:93): an event is never dispatched more often than its budget   *)
(* allows before the owner decides on it.                                   *)
BudgetSurvives == \A k \in Keys : tries[k] <= MaxAttempts

(* The receipt of a pending event's session is not forgotten before the     *)
(* event is acknowledged, whatever other work, reconciliation or restart    *)
(* comes between (LeaseStore.upsert, cleanup, retainReceipt).               *)
ReceiptKept ==
  [][\A k \in Keys : k \in DOMAIN pending /\ k \in DOMAIN leases
       => k \in DOMAIN leases' \/ mishap']_vars

(* The store forgets a release only when the receipt is unpinned            *)
(* (receiptReleased): no lease stays pinned for an event that is over,      *)
(* unless a stale lease was written back.                                   *)
NoPinLeft ==
  mishap \/
    \A k \in DOMAIN leases :
      leases[k].retain => k \in DOMAIN pending \cup deadLetters \cup acknowledged

(* Every accepted event is settled: it leaves the pending entries, unless   *)
(* the dead letters are full, and what is acknowledged is released.         *)
EventsSettle ==
  \A k \in Keys :
    /\ k \in DOMAIN pending ~>
         k \notin DOMAIN pending \/ Cardinality(deadLetters) = DeadCapacity
    /\ k \in acknowledged ~> k \notin acknowledged
=============================================================================
