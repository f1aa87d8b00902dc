------------------------- MODULE GitLabEventsProofs -------------------------
(***************************************************************************)
(* Proofs about GitLabEvents and the coordinator below it, for any         *)
(* requests, callers, nodes and limits.                                    *)
(*                                                                         *)
(* QueueInv is the queue's part: the store's file stays one that load      *)
(* accepts, and an event is never dispatched more often than its budget    *)
(* allows.  FleetInv is what the coordinator's state always is.  Sound is  *)
(* what it promises until a mishap: leases name sessions of their own      *)
(* work, every running session has an open lease or is the answer of a     *)
(* call, a start is asked for only when no open lease is of its work, and  *)
(* a receipt is pinned while its event is pending or a dead letter and not *)
(* after its release.                                                      *)
(***************************************************************************)
EXTENDS GitLabEvents, FiniteSetTheorems, TLAPS

USE FleetAssumption, EventsAssumption

-----------------------------------------------------------------------------
(* The queue's own call: only Intake takes it out of "idle". *)

CallShape == call = [c \in Callers |-> call[c]]

\* What a step of another caller, or of a call under way, leaves of the queue's.
QueueRests ==
  /\ CallShape'
  /\ call[Queue].pc = "idle" => call'[Queue] = call[Queue]

\* Caller c is not the queue at rest.
Busy(c) == c \in Callers /\ (c # Queue \/ call[Queue].pc # "idle")

(* The end of a call reaches the callers that joined it and no one else. *)
LEMMA EndsRest ==
  ASSUME CallShape, NEW c, Busy(c), NEW x, NEW s, NEW st
  PROVE  /\ Ends(c, x, s, st) => QueueRests
         /\ Fails(c, x) => QueueRests
  BY DEF CallShape, Busy, Ends, Fails, QueueRests, Joined

(* A caller's own record is all that an assignment to it changes. *)
LEMMA SetRest ==
  ASSUME CallShape, NEW c, Busy(c), NEW x, call' = [call EXCEPT ![c] = x]
  PROVE  QueueRests
  BY DEF CallShape, Busy, QueueRests

(* A call that begins, whether it has to probe a node or not. *)
LEMMA ReconcilesRest ==
  ASSUME CallShape, NEW c, Busy(c), NEW x, Reconciles(c, x)
  PROVE  QueueRests
  BY SetRest DEF Reconciles

(* People's calls. *)
LEMMA OthersRest ==
  ASSUME CallShape, Others
  PROVE  QueueRests
<1> PICK c \in Callers \ {Queue} :
      \/ \E r \in Requests \ Keys : startSession(c, r, FALSE)
      \/ welcome(c)
  BY DEF Others
<1>1. Busy(c) BY DEF Busy
<1>2. CASE welcome(c) BY <1>1, <1>2, ReconcilesRest DEF welcome
<1>3. ASSUME NEW r \in Requests \ Keys, startSession(c, r, FALSE) PROVE QueueRests
  BY <1>1, <1>3, ReconcilesRest, SetRest DEF startSession
<1> QED BY <1>2, <1>3

(* The steps of the coordinator's calls. *)
LEMMA CallRest ==
  ASSUME CallShape, NEW c \in Callers, CallStep(c)
  PROVE  QueueRests
<1>1. call[c].pc # "idle"
  BY DEF CallStep, Probed, ReconcileLease, reconcileLeases, StartHere, StartThere, Started,
    StartTimesOut
<1>2. Busy(c) BY <1>1 DEF Busy
<1>3. ASSUME NEW s, Record(c, s) PROVE QueueRests
  BY <1>2, <1>3, EndsRest DEF Record
<1>4. CASE Probed(c)
  BY <1>2, <1>4 DEF Probed, CallShape, Busy, QueueRests
<1>5. CASE ReconcileLease(c)
  <2>1. CASE Fails(c, call[c]) BY <2>1, <1>2, EndsRest
  <2>2. ASSUME NEW r, call' = [call EXCEPT ![c].todo = Dropped(@, {r})] PROVE QueueRests
    BY <2>2, <1>2 DEF CallShape, Busy, QueueRests
  <2> QED BY <1>5, <2>1, <2>2 DEF ReconcileLease
<1>6. CASE reconcileLeases(c)
  <2>1. ASSUME NEW M, AfterReconcile(c, call[c], M) PROVE QueueRests
    BY <1>2, <2>1, EndsRest, SetRest DEF AfterReconcile
  <2>2. CASE Fails(c, call[c]) BY <2>2, <1>2, EndsRest
  <2> QED BY <1>6, <2>1, <2>2 DEF reconcileLeases
<1>7. CASE StartHere(c) BY <1>2, <1>3, <1>7, EndsRest DEF StartHere
<1>8. CASE \E n \in Remotes : StartThere(c, n)
  <2> PICK n \in Remotes : StartThere(c, n) BY <1>8
  <2>1. CASE Fails(c, call[c]) BY <2>1, <1>2, EndsRest
  <2>2. CASE call' = [call EXCEPT ![c].pc = "sent", ![c].at = n]
    BY <2>2, <1>2 DEF CallShape, Busy, QueueRests
  <2> QED BY <2>1, <2>2 DEF StartThere
<1>9. CASE Started(c) BY <1>2, <1>3, <1>9 DEF Started
<1>10. CASE StartTimesOut(c) BY <1>2, <1>10, EndsRest DEF StartTimesOut
<1> QED BY <1>4, <1>5, <1>6, <1>7, <1>8, <1>9, <1>10 DEF CallStep

(* The steps of the nodes and of the sessions. *)
LEMMA NodeRest ==
  ASSUME CallShape, NodeStep
  PROVE  QueueRests
<1>1. ASSUME NEW m \in wire, RemoteStarts(m) PROVE QueueRests
  <2> PICK s \in Sessions, others \in SUBSET {c \in Waiting(m.at) : call[c].req # m.req} :
        call' = [c \in Callers |->
            IF c \in Waiting(m.at) /\ (call[c].req = m.req \/ c \in others)
            THEN [call[c] EXCEPT !.session = s] ELSE call[c]]
    BY <1>1 DEF RemoteStarts
  <2> QED BY DEF CallShape, QueueRests, Waiting
<1>2. CASE UNCHANGED call BY <1>2 DEF CallShape, QueueRests
<1> QED
  BY <1>1, <1>2
  DEF NodeStep, RemoteRefuses, SessionEnds, Forgotten, SocketCloses, RemoteRestarts

-----------------------------------------------------------------------------
(* The store *)

\* The dispatches of a key are paid for by the attempts its entry counts.
Budget ==
  /\ tries \in [Keys -> Nat]
  /\ \A k \in DOMAIN pending : tries[k] <= pending[k].attempts
  /\ \A k \in Keys : tries[k] <= MaxAttempts
  /\ \A k \in Keys \ accepted : tries[k] = 0

QueueInv == CallShape /\ StoreOK /\ Budget

(* The set of dead letters is finite and has a size. *)
LEMMA Finite ==
  ASSUME NEW D \in SUBSET Keys
  PROVE  /\ IsFiniteSet(D) /\ Cardinality(D) \in Nat
         /\ \A k \in Keys : /\ Cardinality(D \cup {k}) <= Cardinality(D) + 1
                            /\ Cardinality(D \ {k}) <= Cardinality(D)
<1>1. IsFiniteSet(D) BY FS_Subset
<1>2. Cardinality(D) \in Nat BY <1>1, FS_CardinalityType
<1>3. ASSUME NEW k \in Keys PROVE Cardinality(D \cup {k}) <= Cardinality(D) + 1
  <2>1. Cardinality(D \cup {k}) = IF k \in D THEN Cardinality(D) ELSE Cardinality(D) + 1
    BY <1>1, FS_AddElement
  <2> QED BY <1>2, <2>1
<1>4. ASSUME NEW k \in Keys PROVE Cardinality(D \ {k}) <= Cardinality(D)
  <2>1. Cardinality(D \ {k}) = IF k \in D THEN Cardinality(D) - 1 ELSE Cardinality(D)
    BY <1>1, FS_RemoveElement
  <2> QED BY <1>2, <2>1
<1> QED BY <1>1, <1>2, <1>3, <1>4

(* release forgets the acknowledgement of its key or nothing. *)
LEMMA ReleaseForgetsOne ==
  ASSUME NEW k, NEW A, Release(k, A)
  PROVE  acknowledged' = A \/ acknowledged' = A \ {k}
  BY DEF Release

(* The end of an attempt: the entry is stored again with its count, or its  *)
(* key moves to one of the other lists.                                     *)
LEMMA AttemptEnds ==
  ASSUME QueueInv, NEW k \in DOMAIN pending, NEW e \in Entry,
         tries[k] <= e.attempts, complete(k, e) \/ failed(k, e),
         refused' \subseteq Keys, CallShape', call'[Queue].pc = "idle"
  PROVE  QueueInv'
<1>0. k \in Keys /\ k \in accepted /\ k \notin acknowledged /\ k \notin deadLetters
  BY DEF QueueInv, StoreOK
<1>1. UNCHANGED <<accepted, tries>> /\ current' = NoRequest
  BY DEF complete, failed
<1>2. \/ /\ pending' = Without(k) /\ UNCHANGED deadLetters
         /\ acknowledged' = acknowledged \cup {k} \/ acknowledged' = acknowledged
      \/ \E f \in Entry : /\ f.attempts = e.attempts /\ pending' = With(k, f)
                          /\ UNCHANGED <<acknowledged, deadLetters>>
      \/ /\ pending' = Without(k) /\ UNCHANGED acknowledged
         /\ deadLetters' = deadLetters \cup {k}
         /\ Cardinality(deadLetters) < DeadCapacity
  <2>1. CASE complete(k, e)
    <3>1. (acknowledged \cup {k}) \ {k} = acknowledged BY <1>0
    <3>2. CASE pending' = Without(k) /\ Release(k, acknowledged \cup {k})
      BY <2>1, <3>1, <3>2, ReleaseForgetsOne DEF complete
    <3>3. CASE pending' = With(k, e) /\ UNCHANGED acknowledged
      BY <2>1, <3>3 DEF complete
    <3> QED BY <2>1, <3>2, <3>3 DEF complete
  <2>2. CASE failed(k, e)
    <3>1. [e EXCEPT !.wait = TRUE] \in Entry /\ [e EXCEPT !.wait = TRUE].attempts = e.attempts
      BY DEF Entry
    <3> QED BY <2>2, <3>1 DEF failed
  <2> QED BY <2>1, <2>2
<1>3. /\ DOMAIN pending' \subseteq DOMAIN pending
      /\ pending' = Without(k) => k \notin DOMAIN pending'
      /\ \A x \in DOMAIN pending' : /\ pending'[x] \in Entry
                                    /\ tries[x] <= pending'[x].attempts
  <2>1. CASE pending' = Without(k)
    BY <2>1 DEF QueueInv, StoreOK, Budget, Without
  <2>2. ASSUME NEW f \in Entry, f.attempts = e.attempts, pending' = With(k, f)
        PROVE  <1>3
    <3>1. /\ DOMAIN pending' = DOMAIN pending /\ pending'[k] = f
          /\ \A x \in DOMAIN pending \ {k} : pending'[x] = pending[x]
      BY <2>2 DEF With
    <3> QED BY <2>2, <3>1 DEF QueueInv, StoreOK, Budget, Without
  <2> QED BY <1>2, <2>1, <2>2
<1>4. Cardinality(deadLetters') <= DeadCapacity
  BY <1>0, <1>2, Finite DEF QueueInv, StoreOK
<1>5. /\ DOMAIN pending' \cap deadLetters' = {}
      /\ DOMAIN pending' \cap acknowledged' = {}
      /\ deadLetters' \cap acknowledged' = {}
      /\ DOMAIN pending' \cup deadLetters' \cup acknowledged' \subseteq accepted
  BY <1>0, <1>2, <1>3 DEF QueueInv, StoreOK
<1>6. StoreOK'
  BY <1>0, <1>1, <1>3, <1>4, <1>5 DEF QueueInv, StoreOK
<1>7. Budget'
  BY <1>1, <1>3 DEF QueueInv, StoreOK, Budget
<1> QED BY <1>6, <1>7 DEF QueueInv

-----------------------------------------------------------------------------
(* The steps of the queue *)

(* The store begins empty. *)
LEMMA InitQueue == Init => QueueInv
<1> SUFFICES ASSUME Init PROVE QueueInv OBVIOUS
<1>1. DOMAIN pending = {} BY DEF Init
<1>2. Cardinality(deadLetters) = 0 BY FS_EmptySet DEF Init
<1>3. StoreOK BY <1>1, <1>2 DEF Init, FleetInit, StoreOK, Idle
<1>4. Budget BY <1>1 DEF Init, Budget
<1> QED BY <1>3, <1>4 DEF Init, FleetInit, QueueInv, CallShape

(* begin: the attempt is counted before the event is dispatched. *)
LEMMA BeginStep ==
  ASSUME QueueInv, NEW k \in Keys, begin(k)
  PROVE  QueueInv'
<1> DEFINE entry    == pending[k]
           reserved == entry.attempts < MaxAttempts
           next     == IF reserved
                       THEN [attempts |-> entry.attempts + 1, started |-> TRUE,
                             wait |-> TRUE]
                       ELSE entry
<1>1. /\ current = NoRequest /\ k \in DOMAIN pending /\ UNCHANGED <<refused, call>>
      /\ \/ complete(k, next) \/ failed(k, next)
         \/ /\ reserved /\ pending' = With(k, next) /\ current' = k
            /\ tries' = [tries EXCEPT ![k] = @ + 1]
            /\ UNCHANGED <<deadLetters, acknowledged, accepted>>
  BY DEF begin
<1>2. /\ next \in Entry /\ next.attempts >= entry.attempts
      /\ reserved => next.attempts = entry.attempts + 1
  BY <1>1 DEF QueueInv, StoreOK, Entry
<1>3. entry.attempts \in 0..MaxAttempts /\ tries[k] \in Nat /\ tries[k] <= entry.attempts
  BY <1>1 DEF QueueInv, StoreOK, Entry, Budget
<1>4. call'[Queue].pc = "idle" /\ CallShape' /\ refused' \subseteq Keys
  BY <1>1 DEF QueueInv, StoreOK, CallShape
<1> HIDE DEF next
<1>5. CASE complete(k, next) \/ failed(k, next)
  <2>1. tries[k] <= next.attempts BY <1>2, <1>3 DEF Entry
  <2> QED BY <1>1, <1>2, <1>4, <1>5, <2>1, AttemptEnds
<1>6. CASE /\ reserved /\ pending' = With(k, next) /\ current' = k
           /\ tries' = [tries EXCEPT ![k] = @ + 1]
           /\ UNCHANGED <<deadLetters, acknowledged, accepted>>
  <2>1. /\ DOMAIN pending' = DOMAIN pending /\ pending'[k] = next
        /\ \A x \in DOMAIN pending \ {k} : pending'[x] = pending[x]
    BY <1>1, <1>6 DEF With
  <2>2. /\ tries' \in [Keys -> Nat] /\ tries'[k] = tries[k] + 1
        /\ \A x \in Keys \ {k} : tries'[x] = tries[x]
    BY <1>6 DEF QueueInv, Budget
  <2>3. StoreOK' BY <1>1, <1>2, <1>4, <1>6, <2>1 DEF QueueInv, StoreOK
  <2>4. tries'[k] <= pending'[k].attempts /\ tries'[k] <= MaxAttempts
    BY <1>2, <1>3, <1>6, <2>1, <2>2 DEF Entry
  <2>5. k \in accepted BY <1>1 DEF QueueInv, StoreOK
  <2>6. Budget' BY <1>6, <2>1, <2>2, <2>4, <2>5 DEF QueueInv, StoreOK, Budget
  <2> QED BY <1>4, <2>3, <2>6 DEF QueueInv
<1> QED BY <1>1, <1>5, <1>6

(* A step that leaves the queue's variables alone. *)
LEMMA RestStep ==
  ASSUME QueueInv, UNCHANGED <<pending, deadLetters, acknowledged, accepted>>,
         UNCHANGED <<refused, tries>>, CallShape',
         \/ current' = current /\ QueueRests
         \/ current' = NoRequest /\ call'[Queue].pc = "idle"
  PROVE  QueueInv'
<1>2. /\ current' \in DOMAIN pending' \cup {NoRequest}
      /\ call'[Queue].pc # "idle" => current' # NoRequest
  BY DEF QueueInv, StoreOK, QueueRests
<1>3. StoreOK' BY <1>2 DEF QueueInv, StoreOK
<1>4. Budget' BY DEF QueueInv, Budget
<1> QED BY <1>3, <1>4 DEF QueueInv

(* dispatchGitLabEvent and the fleet's answer. *)
LEMMA IntakeStep ==
  ASSUME QueueInv, Intake
  PROVE  QueueInv'
<1>1. current \in DOMAIN pending /\ current # NoRequest /\ call[Queue].pc = "idle"
  BY DEF QueueInv, StoreOK, Intake
<1>2. /\ pending[current] \in Entry /\ tries[current] <= pending[current].attempts
      /\ current \in Keys /\ refused \subseteq Keys
  BY <1>1 DEF QueueInv, StoreOK, Budget
<1>3. CASE /\ complete(current, pending[current]) \/ failed(current, pending[current])
           /\ refused' \in {refused, refused \cup {current}} /\ UNCHANGED call
  <2>1. CallShape' /\ call'[Queue].pc = "idle" /\ refused' \subseteq Keys
    BY <1>1, <1>2, <1>3 DEF QueueInv, CallShape
  <2> QED BY <1>1, <1>2, <1>3, <2>1, AttemptEnds
<1>4. CASE startSession(Queue, current, TRUE) /\ UNCHANGED queueVars
  <2>1. CallShape'
    <3>1. ASSUME NEW x, Reconciles(Queue, x) PROVE CallShape'
      BY <3>1 DEF QueueInv, CallShape, Reconciles
    <3> QED BY <1>4, <3>1 DEF startSession, QueueInv, CallShape
  <2>2. UNCHANGED <<pending, deadLetters, acknowledged, accepted, refused, tries, current>>
    BY <1>4 DEF queueVars
  <2>3. StoreOK' BY <1>1, <2>2 DEF QueueInv, StoreOK
  <2>4. Budget' BY <2>2 DEF QueueInv, Budget
  <2> QED BY <2>1, <2>3, <2>4 DEF QueueInv
<1> QED BY <1>3, <1>4 DEF Intake

(* Answered: the queue's call ends together with the attempt. *)
LEMMA AnsweredStep ==
  ASSUME QueueInv, Answered
  PROVE  QueueInv'
<1>1. current \in DOMAIN pending /\ refused \subseteq Keys
  BY DEF QueueInv, StoreOK, Answered
<1>2. pending[current] \in Entry /\ tries[current] <= pending[current].attempts
  BY <1>1 DEF QueueInv, StoreOK, Budget
<1>3. CallShape' /\ call'[Queue].pc = "idle" /\ UNCHANGED refused
  BY DEF QueueInv, CallShape, Answered, Idle
<1>4. complete(current, pending[current]) \/ failed(current, pending[current])
  BY DEF Answered
<1> QED BY <1>1, <1>2, <1>3, <1>4, AttemptEnds

(* Deliveries, retry times, releases and the owner's decisions. *)
LEMMA StoreStep ==
  ASSUME QueueInv, NEW k \in Keys,
         \/ enqueue(k) \/ RetryDue(k) \/ ReplayRelease(k)
         \/ recoverRetry(k) \/ recoverDiscard(k)
  PROVE  QueueInv'
<1> DEFINE new(s) == [attempts |-> 0, started |-> s, wait |-> FALSE]
<1>0. UNCHANGED <<current, call>>
  BY DEF enqueue, RetryDue, ReplayRelease, recoverRetry, recoverDiscard, fleetVars
<1>1. CallShape' BY <1>0 DEF QueueInv, CallShape
<1>2. new(TRUE) \in Entry /\ new(FALSE) \in Entry
  BY DEF Entry
<1>3. CASE enqueue(k)
  <2>1. /\ DOMAIN pending' = DOMAIN pending \cup {k} /\ pending'[k] = new(FALSE)
        /\ \A x \in DOMAIN pending \ {k} : pending'[x] = pending[x]
    BY <1>3 DEF enqueue, With
  <2>2. StoreOK' BY <1>0, <1>2, <1>3, <2>1 DEF QueueInv, StoreOK, enqueue
  <2>3. Budget' BY <1>3, <2>1 DEF QueueInv, StoreOK, Budget, enqueue
  <2> QED BY <1>1, <2>2, <2>3 DEF QueueInv
<1>4. CASE RetryDue(k)
  <2>1. /\ DOMAIN pending' = DOMAIN pending
        /\ \A x \in DOMAIN pending' : /\ pending'[x] \in Entry
                                      /\ pending'[x].attempts = pending[x].attempts
    <3>1. pending[k] \in Entry BY <1>4 DEF QueueInv, StoreOK, RetryDue
    <3>2. /\ [pending[k] EXCEPT !.wait = FALSE] \in Entry
          /\ [pending[k] EXCEPT !.wait = FALSE].attempts = pending[k].attempts
      BY <3>1 DEF Entry
    <3> QED BY <1>4, <3>1, <3>2 DEF QueueInv, StoreOK, RetryDue
  <2>2. StoreOK' BY <1>0, <1>4, <2>1 DEF QueueInv, StoreOK, RetryDue
  <2>3. Budget' BY <1>4, <2>1 DEF QueueInv, Budget, RetryDue
  <2> QED BY <1>1, <2>2, <2>3 DEF QueueInv
<1>5. CASE ReplayRelease(k)
  <2>1. /\ acknowledged' \subseteq acknowledged
        /\ UNCHANGED <<pending, deadLetters, accepted, refused, tries>>
    BY <1>5, ReleaseForgetsOne DEF ReplayRelease
  <2>2. StoreOK' BY <1>0, <2>1 DEF QueueInv, StoreOK
  <2>3. Budget' BY <2>1 DEF QueueInv, Budget
  <2> QED BY <1>1, <2>2, <2>3 DEF QueueInv
<1>6. CASE recoverRetry(k)
  <2>1. /\ DOMAIN pending' = DOMAIN pending \cup {k} /\ pending'[k] = new(TRUE)
        /\ \A x \in DOMAIN pending \ {k} : pending'[x] = pending[x]
    BY <1>6 DEF recoverRetry, With
  <2>2. Cardinality(deadLetters') <= DeadCapacity
    BY <1>6, Finite DEF QueueInv, StoreOK, recoverRetry
  <2>3. StoreOK' BY <1>0, <1>2, <1>6, <2>1, <2>2 DEF QueueInv, StoreOK, recoverRetry
  <2>4. /\ tries' \in [Keys -> Nat] /\ tries'[k] = 0
        /\ \A x \in Keys \ {k} : tries'[x] = tries[x]
    BY <1>6 DEF QueueInv, Budget, recoverRetry
  <2>5. Budget'
    BY <1>6, <2>1, <2>4 DEF QueueInv, StoreOK, Budget, recoverRetry
  <2> QED BY <1>1, <2>3, <2>5 DEF QueueInv
<1>7. CASE recoverDiscard(k)
  <2>1. /\ k \in deadLetters /\ deadLetters' = deadLetters \ {k}
        /\ acknowledged' \in {acknowledged \cup {k}, acknowledged}
        /\ UNCHANGED <<pending, accepted, tries>> /\ refused' = refused \cup {k}
    <3>1. k \notin acknowledged BY <1>7 DEF recoverDiscard, QueueInv, StoreOK
    <3>2. (acknowledged \cup {k}) \ {k} = acknowledged BY <3>1
    <3>3. Release(k, acknowledged \cup {k}) BY <1>7 DEF recoverDiscard
    <3>4. acknowledged' \in {acknowledged \cup {k}, acknowledged}
      BY <3>2, <3>3, ReleaseForgetsOne
    <3> QED BY <1>7, <3>4 DEF recoverDiscard
  <2>2. Cardinality(deadLetters') <= DeadCapacity
    BY <2>1, Finite DEF QueueInv, StoreOK
  <2>3. StoreOK' BY <1>0, <2>1, <2>2 DEF QueueInv, StoreOK
  <2>4. Budget' BY <2>1 DEF QueueInv, Budget
  <2> QED BY <1>1, <2>3, <2>4 DEF QueueInv
<1> QED BY <1>3, <1>4, <1>5, <1>6, <1>7

(* The invariant of the queue is kept by every step. *)
LEMMA QueueStep == QueueInv /\ [Next]_vars => QueueInv'
<1> SUFFICES ASSUME QueueInv, [Next]_vars PROVE QueueInv' OBVIOUS
<1>0. CallShape BY DEF QueueInv
<1>1. CASE Answered BY <1>1, AnsweredStep
<1>2. CASE (NodeStep \/ \E c \in Callers : CallStep(c)) /\ UNCHANGED queueVars
  <2>1. QueueRests BY <1>0, <1>2, NodeRest, CallRest
  <2>2. CallShape' BY <2>1 DEF QueueRests
  <2> QED BY <1>2, <2>1, <2>2, RestStep DEF queueVars
<1>3. CASE Others /\ UNCHANGED queueVars
  <2>1. QueueRests BY <1>0, <1>3, OthersRest
  <2>2. CallShape' BY <2>1 DEF QueueRests
  <2> QED BY <1>3, <2>1, <2>2, RestStep DEF queueVars
<1>4. ASSUME NEW k \in Keys,
             \/ enqueue(k) \/ RetryDue(k) \/ begin(k) \/ ReplayRelease(k)
             \/ recoverRetry(k) \/ recoverDiscard(k)
      PROVE  QueueInv'
  BY <1>4, BeginStep, StoreStep
<1>5. CASE Intake BY <1>5, IntakeStep
<1>6. CASE ServerRestarts
  <2>1. CallShape' /\ call'[Queue].pc = "idle"
    BY <1>6 DEF ServerRestarts, Restart, CallShape, Idle
  <2> QED BY <1>6, <2>1, RestStep DEF ServerRestarts, storeVars
<1>7. CASE UNCHANGED vars
  <2>1. UNCHANGED <<call, queueVars>> BY <1>7 DEF vars, fleetVars
  <2>2. CallShape' BY <1>0, <2>1 DEF CallShape
  <2>3. QueueRests BY <2>1, <2>2 DEF QueueRests
  <2> QED BY <2>1, <2>2, <2>3, RestStep DEF queueVars
<1> QED BY <1>1, <1>2, <1>3, <1>4, <1>5, <1>6, <1>7 DEF Next

(* The invariant of the queue holds throughout. *)
LEMMA QueueInvariant == Spec => []QueueInv
BY InitQueue, QueueStep, PTL DEF Spec

(* The store's lists stay disjoint, within the receipts and within the      *)
(* capacity of the dead letters, whatever write fails and whenever the      *)
(* server restarts: load accepts the file (eventStore.ts).                  *)
THEOREM StoreLoads == Spec => []StoreOK
<1>1. QueueInv => StoreOK BY DEF QueueInv
<1> QED BY <1>1, QueueInvariant, PTL

(* An event is dispatched at most MaxAttempts times before the owner        *)
(* decides on it, since begin counts an attempt before it is made and no    *)
(* failed write or restart takes the count back (queue.ts, replay).         *)
THEOREM AttemptsBounded == Spec => []BudgetSurvives
<1>1. QueueInv => BudgetSurvives BY DEF QueueInv, Budget, BudgetSurvives
<1> QED BY <1>1, QueueInvariant, PTL

-----------------------------------------------------------------------------
(* Stores of leases *)

\* What a store of leases, in memory, in the file or in a snapshot, is.
Stores == UNION {[D -> Lease] : D \in SUBSET Requests}

Used(S, s) == s \in Sessions /\ S[s].st # "none"

\* With the sessions S: every lease names a session that was started, the
\* requests of a session share its record, and a lease expires only when its
\* session is gone.
Good(L, S) ==
  /\ L \in Stores
  /\ \A r \in DOMAIN L : /\ Used(S, L[r].session)
                         /\ L[r].state = "expired" => S[L[r].session].st = "gone"
  /\ \A r, q \in DOMAIN L : L[r].session = L[q].session =>
       L[r].work = L[q].work /\ L[r].state = L[q].state

\* A lease is of the work that its session does.
WorkOK(L, S) ==
  \A r \in DOMAIN L : L[r].work = WorkOf[r] /\ WorkOf[S[L[r].session].req] = WorkOf[r]

\* Request r may have a lease that is pinned or not, as b says: an event's is
\* pinned while the event is pending (P) or a dead letter (D), and only until
\* its acknowledgement (A) is forgotten; C are the accepted keys.
ReceiptOK(r, b, P, D, A, C) ==
  /\ r \notin Keys => ~b
  /\ r \in Keys => /\ r \in C
                   /\ b => r \in DOMAIN P \cup D \cup A
                   /\ r \in DOMAIN P \cup D => b
                   /\ r \in DOMAIN P => P[r].started

ReceiptsOK(L, P, D, A, C) ==
  \A r \in DOMAIN L : ReceiptOK(r, L[r].retain, P, D, A, C)

\* A session has a lease that is neither terminal nor expired.
Held(L, s) == \E r \in Open(L) : L[r].session = s

(* The fields of a lease that is changed in one of them. *)
LEMMA RetainFields ==
  ASSUME NEW l \in Lease, NEW b \in BOOLEAN
  PROVE  /\ [l EXCEPT !.retain = b] \in Lease /\ [l EXCEPT !.retain = b].retain = b
         /\ [l EXCEPT !.retain = b].session = l.session
         /\ [l EXCEPT !.retain = b].work = l.work /\ [l EXCEPT !.retain = b].state = l.state
  BY DEF Lease

(* ... in its state. *)
LEMMA StateFields ==
  ASSUME NEW l \in Lease, NEW st \in LeaseStates
  PROVE  /\ [l EXCEPT !.state = st] \in Lease /\ [l EXCEPT !.state = st].state = st
         /\ [l EXCEPT !.state = st].session = l.session
         /\ [l EXCEPT !.state = st].work = l.work /\ [l EXCEPT !.state = st].retain = l.retain
  BY DEF Lease

(* A store is a function on a set of requests. *)
LEMMA StoreShape ==
  /\ \A L \in Stores : /\ DOMAIN L \subseteq Requests
                       /\ \A r \in DOMAIN L : L[r] \in Lease
  /\ \A D \in SUBSET Requests : \A L \in [D -> Lease] : L \in Stores
  BY DEF Stores

\* The store M is L after an upsert.
Upserted(L, M, R, rec) ==
  /\ \A x \in R : x \in DOMAIN M /\ M[x] = rec
  /\ \A x \in DOMAIN M : x \in R \/
       /\ x \in DOMAIN L /\ M[x].session = L[x].session /\ M[x].retain = L[x].retain
       /\ L[x].session = rec.session => M[x].work = rec.work /\ M[x].state = rec.state
       /\ L[x].session # rec.session => M[x] = L[x]
  /\ \A x \in DOMAIN L : x \in DOMAIN M \/
       /\ L[x].session # rec.session /\ L[x].state \in Over /\ ~L[x].retain

(* LeaseStore.upsert, request by request. *)
LEMMA UpsertFacts ==
  ASSUME NEW L \in Stores, NEW R \in SUBSET Requests, NEW rec \in Lease, NEW M,
         M = Upsert(L, R, rec)
  PROVE  /\ Upserted(L, M, R, rec)
         /\ M \in Stores /\ R \subseteq DOMAIN M /\ DOMAIN M \subseteq DOMAIN L \cup R
         /\ \A x \in R : M[x] = rec
         /\ \A x \in DOMAIN M \ R :
              /\ x \in DOMAIN L /\ M[x].session = L[x].session /\ M[x].retain = L[x].retain
              /\ L[x].session = rec.session => M[x].work = rec.work /\ M[x].state = rec.state
              /\ L[x].session # rec.session => M[x] = L[x]
         /\ \A x \in DOMAIN L \ DOMAIN M :
              /\ x \notin R /\ L[x].session # rec.session
              /\ L[x].state \in Over /\ ~L[x].retain
<1> DEFINE dead == {x \in DOMAIN L \ R : /\ L[x].session # rec.session
                                        /\ L[x].work = rec.work
                                        /\ L[x].state \in Over /\ ~L[x].retain}
           dom == (DOMAIN L \ dead) \cup R
           val(x) == IF x \in R THEN rec
                     ELSE IF L[x].session = rec.session
                          THEN [rec EXCEPT !.retain = L[x].retain]
                          ELSE L[x]
<1>1. M = [x \in dom |-> val(x)] BY DEF Upsert
<1>2. DOMAIN L \subseteq Requests /\ \A x \in DOMAIN L : L[x] \in Lease
  BY StoreShape
<1>3. dom \in SUBSET Requests /\ DOMAIN L \ dom = dead BY <1>2
<1>4. ASSUME NEW x \in dom \ R
      PROVE  /\ val(x) \in Lease /\ val(x).session = L[x].session
             /\ val(x).retain = L[x].retain
             /\ L[x].session = rec.session => val(x).work = rec.work /\ val(x).state = rec.state
             /\ L[x].session # rec.session => val(x) = L[x]
  <2>1. L[x] \in Lease BY <1>2, <1>4
  <2>2. L[x].retain \in BOOLEAN BY <2>1 DEF Lease
  <2>3. CASE L[x].session = rec.session
    BY <1>4, <2>2, <2>3, RetainFields
  <2>4. CASE L[x].session # rec.session
    BY <1>4, <2>1, <2>4
  <2> QED BY <2>3, <2>4
<1>5. \A x \in dom : val(x) \in Lease BY <1>4
<1> HIDE DEF val
<1>6. M \in [dom -> Lease] BY <1>1, <1>5
<1>7. \A x \in R : val(x) = rec BY DEF val
<1>8. \A x \in dom : M[x] = val(x) BY <1>1
<1>9. DOMAIN M = dom BY <1>1
<1>10. M \in Stores BY <1>3, <1>6, StoreShape
<1>11. \A x \in dead : /\ x \notin R /\ L[x].session # rec.session
                       /\ L[x].state \in Over /\ ~L[x].retain
  OBVIOUS
<1> HIDE DEF dead, dom
<1>12. R \subseteq dom /\ dom \subseteq DOMAIN L \cup R BY DEF dom
<1>13. \A x \in R : x \in DOMAIN M /\ M[x] = rec BY <1>7, <1>8, <1>9, <1>12
<1>14. \A x \in DOMAIN M \ R :
         /\ x \in DOMAIN L /\ M[x].session = L[x].session /\ M[x].retain = L[x].retain
         /\ L[x].session = rec.session => M[x].work = rec.work /\ M[x].state = rec.state
         /\ L[x].session # rec.session => M[x] = L[x]
  BY <1>4, <1>8, <1>9, <1>12
<1>15. \A x \in DOMAIN L \ DOMAIN M :
         x \notin R /\ L[x].session # rec.session /\ L[x].state \in Over /\ ~L[x].retain
  BY <1>3, <1>9, <1>11
<1>16. \A x \in DOMAIN L : x \in DOMAIN M \/
         /\ L[x].session # rec.session /\ L[x].state \in Over /\ ~L[x].retain
  BY <1>15
<1>17. \A x \in DOMAIN M : x \in R \/
         /\ x \in DOMAIN L /\ M[x].session = L[x].session /\ M[x].retain = L[x].retain
         /\ L[x].session = rec.session => M[x].work = rec.work /\ M[x].state = rec.state
         /\ L[x].session # rec.session => M[x] = L[x]
  BY <1>14
<1>18. Upserted(L, M, R, rec) BY <1>13, <1>16, <1>17 DEF Upserted
<1> QED BY <1>9, <1>10, <1>12, <1>13, <1>14, <1>15, <1>18

(* ... of the store it makes. *)
LEMMA UpsertShape ==
  ASSUME NEW L \in Stores, NEW R \in SUBSET Requests, NEW rec \in Lease
  PROVE  Upserted(L, Upsert(L, R, rec), R, rec)
<1>1. \A M : M = Upsert(L, R, rec) => Upserted(L, M, R, rec) BY UpsertFacts
<1> QED BY <1>1

(* The result of an upsert is a store. *)
LEMMA UpsertStore ==
  ASSUME NEW L \in Stores, NEW R \in SUBSET Requests, NEW rec \in Lease
  PROVE  Upsert(L, R, rec) \in Stores
<1>1. \A M : M = Upsert(L, R, rec) => M \in Stores BY UpsertFacts
<1> QED BY <1>1

\* The store M is L without the requests old.
Removed(L, M, old) ==
  /\ M \in Stores /\ DOMAIN M = DOMAIN L \ old
  /\ \A x \in DOMAIN M : M[x] = L[x]

(* The result of a cleanup is the store without what was dropped. *)
LEMMA DropShape ==
  ASSUME NEW L \in Stores, NEW old
  PROVE  Removed(L, Dropped(L, old), old)
<1> DEFINE M == [x \in DOMAIN L \ old |-> L[x]]
<1>1. Dropped(L, old) = M BY DEF Dropped
<1>2. DOMAIN L \subseteq Requests /\ \A x \in DOMAIN L : L[x] \in Lease
  BY StoreShape
<1>3. M \in [DOMAIN L \ old -> Lease] /\ DOMAIN L \ old \in SUBSET Requests
  BY <1>2
<1>4. DOMAIN M = DOMAIN L \ old /\ \A x \in DOMAIN M : M[x] = L[x] OBVIOUS
<1> HIDE DEF M
<1>5. M \in Stores BY <1>3, StoreShape
<1>6. Removed(L, M, old) BY <1>4, <1>5 DEF Removed
<1> QED BY <1>1, <1>6

(* LeaseStore.cleanup, request by request. *)
LEMMA DropFacts ==
  ASSUME NEW L \in Stores, NEW old, NEW M, M = Dropped(L, old)
  PROVE  /\ M \in Stores /\ DOMAIN M = DOMAIN L \ old
         /\ \A x \in DOMAIN M : M[x] = L[x]
<1>1. Removed(L, M, old) BY DropShape
<1> QED BY <1>1 DEF Removed

(* pinReceipt and updateLeaseForSession write a record that the store has.  *)
LEMMA PinnedFacts ==
  ASSUME NEW L \in Stores, NEW R \in SUBSET Requests, NEW s, Of(L, s) # {}
  PROVE  \/ Pinned(L, R, s) = L /\ R = {}
         \/ \E x \in Of(L, s) :
              /\ [L[x] EXCEPT !.retain = TRUE] \in Lease
              /\ Pinned(L, R, s) = Upsert(L, R, [L[x] EXCEPT !.retain = TRUE])
<1> DEFINE x == CHOOSE x \in Of(L, s) : TRUE
<1>1. x \in Of(L, s) OBVIOUS
<1>2. L[x] \in Lease BY <1>1, StoreShape DEF Of
<1>3. [L[x] EXCEPT !.retain = TRUE] \in Lease BY <1>2, RetainFields
<1> HIDE DEF x
<1>4. R # {} => Pinned(L, R, s) = Upsert(L, R, [L[x] EXCEPT !.retain = TRUE])
  BY DEF Pinned, x
<1> QED BY <1>1, <1>3, <1>4 DEF Pinned

(* updateLeaseForSession. *)
LEMMA TerminatedFacts ==
  ASSUME NEW L \in Stores, NEW s
  PROVE  \/ Terminated(L, s) = L /\ Of(L, s) = {}
         \/ \E x \in Of(L, s) :
              /\ [L[x] EXCEPT !.state = "terminal"] \in Lease
              /\ Terminated(L, s) = Upsert(L, {x}, [L[x] EXCEPT !.state = "terminal"])
<1> DEFINE x == CHOOSE x \in Of(L, s) : TRUE
<1>1. CASE Of(L, s) # {}
  <2>1. x \in Of(L, s) BY <1>1
  <2>2. L[x] \in Lease BY <2>1, StoreShape DEF Of
  <2>3. [L[x] EXCEPT !.state = "terminal"] \in Lease
    BY <2>2, StateFields DEF LeaseStates
  <2> HIDE DEF x
  <2>4. Terminated(L, s) = Upsert(L, {x}, [L[x] EXCEPT !.state = "terminal"])
    BY <1>1 DEF Terminated, x
  <2> QED BY <2>1, <2>3, <2>4
<1> QED BY <1>1 DEF Terminated

-----------------------------------------------------------------------------
(* What the writes preserve *)

(* A write keeps a store good if its record is. *)
LEMMA UpsertGood ==
  ASSUME NEW S, NEW L, Good(L, S), NEW R \in SUBSET Requests, NEW rec \in Lease,
         Used(S, rec.session), rec.state = "expired" => S[rec.session].st = "gone"
  PROVE  Good(Upsert(L, R, rec), S)
<1> DEFINE M == Upsert(L, R, rec)
<1>1. L \in Stores BY DEF Good
<1>2. /\ M \in Stores /\ R \subseteq DOMAIN M /\ DOMAIN M \subseteq DOMAIN L \cup R
      /\ \A x \in R : M[x] = rec
      /\ \A x \in DOMAIN M \ R :
           /\ x \in DOMAIN L /\ M[x].session = L[x].session /\ M[x].retain = L[x].retain
           /\ L[x].session = rec.session => M[x].work = rec.work /\ M[x].state = rec.state
           /\ L[x].session # rec.session => M[x] = L[x]
  BY <1>1, UpsertFacts
<1> HIDE DEF M
<1>3. ASSUME NEW r \in DOMAIN M
      PROVE  Used(S, M[r].session) /\ (M[r].state = "expired" => S[M[r].session].st = "gone")
  <2>1. CASE r \in R BY <1>2, <2>1
  <2>2. CASE r \notin R /\ L[r].session = rec.session BY <1>2, <1>3, <2>2
  <2>3. CASE r \notin R /\ L[r].session # rec.session BY <1>2, <1>3, <2>3 DEF Good
  <2> QED BY <2>1, <2>2, <2>3
<1>4. ASSUME NEW r \in DOMAIN M, NEW q \in DOMAIN M, M[r].session = M[q].session
      PROVE  M[r].work = M[q].work /\ M[r].state = M[q].state
  <2>1. \A x \in DOMAIN M : M[x].session = rec.session =>
          M[x].work = rec.work /\ M[x].state = rec.state
    BY <1>2
  <2>2. \A x \in DOMAIN M : M[x].session # rec.session => x \in DOMAIN L /\ M[x] = L[x]
    BY <1>2
  <2>3. CASE M[r].session = rec.session BY <1>4, <2>1, <2>3
  <2>4. CASE M[r].session # rec.session
    BY <1>4, <2>2, <2>4 DEF Good
  <2> QED BY <2>3, <2>4
<1> QED BY <1>2, <1>3, <1>4 DEF Good, M

(* A write keeps the works right if it is of its requests' work. *)
LEMMA UpsertWork ==
  ASSUME NEW S, NEW L \in Stores, WorkOK(L, S), NEW R \in SUBSET Requests,
         NEW rec \in Lease, rec.work = WorkOf[S[rec.session].req],
         \A r \in R : rec.work = WorkOf[r]
  PROVE  WorkOK(Upsert(L, R, rec), S)
<1> DEFINE M == Upsert(L, R, rec)
<1>1. /\ \A x \in R : M[x] = rec
      /\ \A x \in DOMAIN M \ R :
           /\ x \in DOMAIN L /\ M[x].session = L[x].session
           /\ L[x].session = rec.session => M[x].work = rec.work
           /\ L[x].session # rec.session => M[x] = L[x]
  BY UpsertFacts
<1> HIDE DEF M
<1>2. ASSUME NEW r \in DOMAIN M
      PROVE  M[r].work = WorkOf[r] /\ WorkOf[S[M[r].session].req] = WorkOf[r]
  <2>1. CASE r \in R BY <1>1, <2>1
  <2>2. CASE r \notin R /\ L[r].session = rec.session BY <1>1, <1>2, <2>2 DEF WorkOK
  <2>3. CASE r \notin R /\ L[r].session # rec.session BY <1>1, <1>2, <2>3 DEF WorkOK
  <2> QED BY <2>1, <2>2, <2>3
<1> QED BY <1>2 DEF WorkOK, M

(* A write changes the receipts of the requests it is for, and no other. *)
LEMMA UpsertReceipts ==
  ASSUME NEW L \in Stores, NEW R \in SUBSET Requests, NEW rec \in Lease,
         NEW P, NEW D, NEW A, NEW C, ReceiptsOK(L, P, D, A, C),
         \A r \in R : ReceiptOK(r, rec.retain, P, D, A, C)
  PROVE  ReceiptsOK(Upsert(L, R, rec), P, D, A, C)
<1> DEFINE M == Upsert(L, R, rec)
<1>1. /\ \A x \in R : M[x] = rec
      /\ \A x \in DOMAIN M \ R : x \in DOMAIN L /\ M[x].retain = L[x].retain
  BY UpsertFacts
<1> HIDE DEF M
<1> QED BY <1>1 DEF ReceiptsOK, M

(* An open lease stays where it is when the requests R are written, if it   *)
(* is not among them, unless its own session is written as over.            *)
LEMMA UpsertHeld ==
  ASSUME NEW L \in Stores, NEW R \in SUBSET Requests, NEW rec \in Lease,
         NEW s, NEW r \in Open(L), L[r].session = s, r \in R => rec.session = s,
         rec.session = s => rec.state \notin Over
  PROVE  Held(Upsert(L, R, rec), s)
<1> DEFINE M == Upsert(L, R, rec)
<1>1. r \in DOMAIN L /\ L[r].state \notin Over BY DEF Open
<1>2. /\ \A x \in R : x \in DOMAIN M /\ M[x] = rec
      /\ \A x \in DOMAIN M \ R :
           /\ M[x].session = L[x].session
           /\ L[x].session = rec.session => M[x].state = rec.state
           /\ L[x].session # rec.session => M[x] = L[x]
      /\ \A x \in DOMAIN L \ DOMAIN M : L[x].state \in Over
  BY UpsertFacts
<1> HIDE DEF M
<1>3. r \in DOMAIN M BY <1>1, <1>2
<1>4. M[r].session = s /\ M[r].state \notin Over
  <2>1. CASE r \in R BY <1>2, <2>1
  <2>2. CASE r \notin R /\ rec.session = s BY <1>1, <1>2, <1>3, <2>2
  <2>3. CASE r \notin R /\ rec.session # s BY <1>1, <1>2, <1>3, <2>3
  <2> QED BY <2>1, <2>2, <2>3
<1> QED BY <1>3, <1>4 DEF Held, Open, M

(* What holds of a store holds of a part of it. *)
LEMMA PartOK ==
  ASSUME NEW S, NEW L, Good(L, S), NEW M \in Stores, DOMAIN M \subseteq DOMAIN L,
         \A x \in DOMAIN M : M[x] = L[x]
  PROVE  /\ Good(M, S)
         /\ WorkOK(L, S) => WorkOK(M, S)
         /\ \A P, D, A, C : ReceiptsOK(L, P, D, A, C) => ReceiptsOK(M, P, D, A, C)
<1>1. Good(M, S) BY DEF Good
<1>2. WorkOK(L, S) => WorkOK(M, S) BY DEF WorkOK
<1>3. ASSUME NEW P, NEW D, NEW A, NEW C, ReceiptsOK(L, P, D, A, C)
      PROVE  ReceiptsOK(M, P, D, A, C)
  BY <1>3 DEF ReceiptsOK
<1> QED BY <1>1, <1>2, <1>3

-----------------------------------------------------------------------------
(* Sessions *)

SessOK(S) ==
  /\ S \in [Sessions -> [at : Nodes, req : Requests \cup {NoRequest},
                         st : {"none", "live", "ended", "gone"}]]
  /\ \A s \in Sessions : S[s].st # "none" => S[s].req \in Requests

\* How sessions change: one that was started stays where it is and for its
\* request, and is never forgotten once it is gone.
Evolves(S, T) ==
  /\ SessOK(T)
  /\ \A s \in Sessions : S[s].st # "none" =>
       /\ T[s].st # "none" /\ T[s].at = S[s].at /\ T[s].req = S[s].req
       /\ S[s].st = "gone" => T[s].st = "gone"

(* Leases stay good when sessions change. *)
LEMMA EvolveOK ==
  ASSUME NEW S, NEW T, Evolves(S, T), NEW L, Good(L, S)
  PROVE  Good(L, T) /\ (WorkOK(L, S) => WorkOK(L, T))
<1>1. \A r \in DOMAIN L : Used(S, L[r].session) BY DEF Good
<1>2. \A r \in DOMAIN L : L[r].session \in Sessions /\ S[L[r].session].st # "none"
  BY <1>1 DEF Used
<1>3. Good(L, T) BY <1>2 DEF Good, Evolves, Used
<1>4. WorkOK(L, S) => WorkOK(L, T) BY <1>2 DEF WorkOK, Evolves
<1> QED BY <1>3, <1>4

(* A node starts a session. *)
LEMMA StartEvolves ==
  ASSUME SessOK(sess), NEW n \in Nodes, NEW r \in Requests, NEW s \in Sessions,
         StartOn(n, r, s)
  PROVE  /\ Evolves(sess, sess') /\ Used(sess', s) /\ sess'[s].at = n
         /\ WorkOf[sess'[s].req] = WorkOf[r]
         /\ n = Local => sess'[s].req = r
         /\ \A t \in Sessions : sess'[t].st = "live" /\ t # s => sess[t].st = "live"
         /\ \A t \in Sessions : t # s => sess'[t] = sess[t]
         /\ sess'[s] # sess[s] => sess[s].st = "none" /\ sess'[s].req = r
<1>1. CASE UNCHANGED sess /\ s \in Existing(n, r)
  <2>1. s \in Known(n) /\ WorkOf[sess[s].req] = WorkOf[r] /\ (n = Local => sess[s].req = r)
    BY <1>1 DEF Existing
  <2>2. sess[s].at = n /\ sess[s].st # "none" BY <2>1 DEF Known
  <2> QED BY <1>1, <2>1, <2>2 DEF Evolves, Used
<1>2. CASE /\ Unused # {} /\ s = Fresh
           /\ sess' = [sess EXCEPT ![s] = [at |-> n, req |-> r, st |-> "live"]]
  <2>1. s \in Unused BY <1>2 DEF Fresh
  <2>2. sess[s].st = "none" BY <2>1 DEF Unused
  <2>3. /\ sess'[s] = [at |-> n, req |-> r, st |-> "live"]
        /\ \A t \in Sessions : t # s => sess'[t] = sess[t]
    BY <1>2 DEF SessOK
  <2>4. SessOK(sess') BY <1>2, <2>3 DEF SessOK
  <2> QED BY <2>2, <2>3, <2>4 DEF Evolves, Used
<1> QED BY <1>1, <1>2 DEF StartOn

(* A node restarts. *)
LEMMA KilledEvolves ==
  ASSUME SessOK(sess), NEW n, NEW T, T = Killed(n)
  PROVE  /\ Evolves(sess, T)
         /\ \A t \in Sessions : T[t].st = "live" => sess[t].st = "live"
<1>1. ASSUME NEW s \in Sessions
      PROVE  /\ T[s] \in [at : Nodes, req : Requests \cup {NoRequest},
                          st : {"none", "live", "ended", "gone"}]
             /\ T[s].at = sess[s].at /\ T[s].req = sess[s].req
             /\ T[s].st = "none" <=> sess[s].st = "none"
             /\ sess[s].st = "gone" => T[s].st = "gone"
             /\ T[s].st = "live" => sess[s].st = "live"
  <2>1. sess[s] \in [at : Nodes, req : Requests \cup {NoRequest},
                     st : {"none", "live", "ended", "gone"}] BY DEF SessOK
  <2>2. T[s] = IF s \in Known(n) THEN [sess[s] EXCEPT !.st = "gone"] ELSE sess[s]
    BY DEF Killed
  <2>3. s \in Known(n) => sess[s].st \in {"live", "ended"} BY DEF Known
  <2>4. CASE s \in Known(n) BY <2>1, <2>2, <2>3, <2>4
  <2>5. CASE s \notin Known(n) BY <2>1, <2>2, <2>5
  <2> QED BY <2>4, <2>5
<1>2. T = [s \in Sessions |-> T[s]] BY DEF Killed
<1>3. SessOK(T) BY <1>1, <1>2 DEF SessOK
<1> QED BY <1>1, <1>3 DEF Evolves

(* A session ends or is forgotten. *)
LEMMA EndEvolves ==
  ASSUME SessOK(sess), NEW s \in Sessions, NEW st \in {"ended", "gone"},
         sess[s].st \in {"live", "ended"}, st = "ended" => sess[s].st = "live",
         NEW T, T = [sess EXCEPT ![s].st = st]
  PROVE  /\ Evolves(sess, T) /\ T[s].st = st
         /\ \A t \in Sessions : T[t].st = "live" => sess[t].st = "live"
<1>1. /\ T[s].at = sess[s].at /\ T[s].req = sess[s].req /\ T[s].st = st
      /\ \A t \in Sessions : t # s => T[t] = sess[t]
  BY DEF SessOK
<1>2. SessOK(T) BY <1>1 DEF SessOK
<1> QED BY <1>1, <1>2 DEF Evolves

-----------------------------------------------------------------------------
(* The writes of the coordinator *)

(* pinReceipt. *)
LEMMA PinnedGood ==
  ASSUME NEW S, NEW L, Good(L, S), NEW R \in SUBSET Requests, NEW s, Of(L, s) # {}
  PROVE  Good(Pinned(L, R, s), S)
<1>1. L \in Stores BY DEF Good
<1>2. ASSUME NEW x \in Of(L, s), [L[x] EXCEPT !.retain = TRUE] \in Lease,
             Pinned(L, R, s) = Upsert(L, R, [L[x] EXCEPT !.retain = TRUE])
      PROVE  Good(Pinned(L, R, s), S)
  <2>1. x \in DOMAIN L /\ L[x] \in Lease BY <1>1, <1>2, StoreShape DEF Of
  <2> DEFINE rec == [L[x] EXCEPT !.retain = TRUE]
  <2>2. rec.session = L[x].session /\ rec.state = L[x].state BY <2>1, RetainFields
  <2>3. Used(S, rec.session) /\ (rec.state = "expired" => S[rec.session].st = "gone")
    BY <2>1, <2>2 DEF Good
  <2> HIDE DEF rec
  <2>4. rec \in Lease BY <1>2 DEF rec
  <2>5. Good(Upsert(L, R, rec), S) BY <2>3, <2>4, UpsertGood
  <2> QED BY <1>2, <2>5 DEF rec
<1> QED BY <1>1, <1>2, PinnedFacts

(* updateLeaseForSession. *)
LEMMA TerminatedGood ==
  ASSUME NEW S, NEW L, Good(L, S), NEW s
  PROVE  Good(Terminated(L, s), S)
<1>1. L \in Stores BY DEF Good
<1>2. ASSUME NEW x \in Of(L, s), [L[x] EXCEPT !.state = "terminal"] \in Lease,
             Terminated(L, s) = Upsert(L, {x}, [L[x] EXCEPT !.state = "terminal"])
      PROVE  Good(Terminated(L, s), S)
  <2>1. x \in DOMAIN L /\ x \in Requests /\ L[x] \in Lease BY <1>1, <1>2, StoreShape DEF Of
  <2> DEFINE rec == [L[x] EXCEPT !.state = "terminal"]
  <2>2. rec.session = L[x].session /\ rec.state = "terminal"
    BY <2>1, StateFields DEF LeaseStates
  <2>3. Used(S, rec.session) /\ (rec.state = "expired" => S[rec.session].st = "gone")
    BY <2>1, <2>2 DEF Good
  <2> HIDE DEF rec
  <2>4. rec \in Lease BY <1>2 DEF rec
  <2>5. Good(Upsert(L, {x}, rec), S) BY <2>1, <2>3, <2>4, UpsertGood
  <2> QED BY <1>2, <2>5 DEF rec
<1> QED BY <1>1, <1>2, TerminatedFacts

(* releaseReceipt. *)
LEMMA ReleasedFacts ==
  ASSUME NEW r \in Requests, leases \in Stores
  PROVE  \/ Released(r) = leases /\ (r \in DOMAIN leases => ~leases[r].retain)
         \/ \E rec \in Lease :
              /\ r \in DOMAIN leases
              /\ rec.session = leases[r].session /\ rec.work = leases[r].work
              /\ rec.state = leases[r].state /\ rec.retain = FALSE
              /\ Released(r) = Upsert(leases, {r}, rec)
<1>1. CASE r \in DOMAIN leases /\ leases[r].retain
  <2>1. leases[r] \in Lease BY <1>1, StoreShape
  <2> DEFINE rec == [leases[r] EXCEPT !.retain = FALSE]
  <2>2. /\ rec \in Lease /\ rec.session = leases[r].session /\ rec.work = leases[r].work
        /\ rec.state = leases[r].state /\ rec.retain = FALSE
    BY <2>1, RetainFields
  <2>3. Released(r) = Upsert(leases, {r}, rec) BY <1>1 DEF Released
  <2> HIDE DEF rec
  <2> QED BY <1>1, <2>2, <2>3
<1>2. CASE ~(r \in DOMAIN leases /\ leases[r].retain) BY <1>2 DEF Released
<1> QED BY <1>1, <1>2

(* releaseReceipt keeps the leases good. *)
LEMMA ReleasedGood ==
  ASSUME NEW S, Good(leases, S), NEW r \in Requests
  PROVE  Good(Released(r), S)
<1>1. leases \in Stores BY DEF Good
<1>2. ASSUME NEW rec \in Lease, r \in DOMAIN leases,
             rec.session = leases[r].session, rec.state = leases[r].state,
             Released(r) = Upsert(leases, {r}, rec)
      PROVE  Good(Released(r), S)
  <2>1. Used(S, rec.session) /\ (rec.state = "expired" => S[rec.session].st = "gone")
    BY <1>2 DEF Good
  <2> QED BY <1>2, <2>1, UpsertGood
<1> QED BY <1>1, <1>2, ReleasedFacts

(* What reconcileLeases writes: the lease it read, with another state. *)
LEMMA ReconciledFacts ==
  ASSUME NEW lease \in Lease, NEW seen, NEW rec, rec = Reconciled(lease, seen)
  PROVE  /\ rec \in Lease /\ rec.session = lease.session /\ rec.work = lease.work
         /\ rec.retain = lease.retain
         /\ rec.state = "expired" => sess[lease.session].st \notin {"live", "ended"}
         /\ sess[lease.session].st = "live" => rec.state \notin Over
<1> DEFINE s == lease.session
           st == IF sess[s].at \in Remotes \ seen THEN "uncertain_reconciling"
                 ELSE CASE sess[s].st = "live"  -> "running"
                        [] sess[s].st = "ended" -> "terminal"
                        [] OTHER -> "expired"
<1>1. /\ st \in LeaseStates
      /\ st = "expired" => sess[s].st \notin {"live", "ended"}
      /\ sess[s].st = "live" => st \notin Over
  BY DEF LeaseStates, Over
<1>2. rec = [lease EXCEPT !.state = st] BY DEF Reconciled
<1> HIDE DEF st
<1> QED BY <1>1, <1>2, StateFields

-----------------------------------------------------------------------------
(* Memory and file *)

\* The file has every lease of the memory, and those that a cleanup dropped
\* whose file could not be written.
DiskAhead(L, F) ==
  /\ \A r \in DOMAIN L : r \in DOMAIN F /\ F[r] = L[r]
  /\ \A r \in DOMAIN F \ DOMAIN L : ~F[r].retain

LeasesOK(L, F, S) == Good(L, S) /\ Good(F, S) /\ DiskAhead(L, F)

(* A store that is saved is in memory and in the file. *)
LEMMA SaveOK ==
  ASSUME NEW S, LeasesOK(leases, disk, S), NEW M, Good(M, S), Save(M)
  PROVE  LeasesOK(leases', disk', S)
<1>1. CASE M = leases BY <1>1 DEF Save, LeasesOK
<1>2. CASE M # leases BY <1>2 DEF Save, LeasesOK, DiskAhead
<1> QED BY <1>1, <1>2

(* Memory and file stay good when sessions change. *)
LEMMA EvolveLeases ==
  ASSUME NEW S, NEW T, Evolves(S, T), NEW L, NEW F, LeasesOK(L, F, S)
  PROVE  LeasesOK(L, F, T)
  BY EvolveOK DEF LeasesOK

-----------------------------------------------------------------------------
(* Calls *)

Phases == {"idle", "probe", "write", "select", "sent", "joined", "done", "failed"}
Active == {"probe", "write", "select", "sent"}

CallRec ==
  [pc : Phases, req : Requests \cup {NoRequest}, retain : BOOLEAN, todo : Stores,
   seen : SUBSET Remotes, at : Nodes, session : Sessions \cup {None},
   state : LeaseStates]

\* What a call is, with the sessions S: todo is what it still has of a
\* snapshot of the open leases.
CallOK(x, S) ==
  /\ x \in CallRec
  /\ Good(x.todo, S) /\ \A r \in DOMAIN x.todo : x.todo[r].state \notin Over
  /\ x.session # None => Used(S, x.session) /\ x.pc \in {"sent", "done"}
  /\ x.pc = "sent" => x.at \in Remotes /\ (x.session # None => S[x.session].at \in Remotes)
  /\ x.pc = "done" => x.session # None
  /\ x.pc \in {"select", "sent", "joined", "done"} => x.req \in Requests

CallsOK == call \in [Callers -> CallRec] /\ \A c \in Callers : CallOK(call[c], sess)

\* The calls that retain their receipt are the queue's, for its current event.
CallsOwn ==
  /\ \A c \in Callers \ {Queue} :
       /\ ~call[c].retain /\ call[c].req \notin Keys
       /\ call[c].pc \notin {"done", "failed"}
  /\ call[Queue].pc # "idle" => call[Queue].req = current
  /\ call[Queue].pc \in Active \cup {"joined"} => call[Queue].retain
  /\ current # NoRequest => pending[current].started

Asks(c) == call[c].pc \in Active /\ call[c].req # NoRequest

\* At most one call is in its turn of writes, none when the queue has its
\* answer, and at most one call asks for a work.
Alone ==
  /\ \A c, d \in Callers : call[c].pc = "write" /\ call[d].pc = "write" => c = d
  /\ call[Queue].pc \in {"done", "failed"} => Quiet
  /\ \A c, d \in Callers :
       Asks(c) /\ Asks(d) /\ WorkOf[call[c].req] = WorkOf[call[d].req] => c = d

CallInv == CallsOK /\ CallsOwn /\ Alone

(* The store is empty at first. *)
LEMMA EmptyGood == ASSUME NEW S PROVE Good(<<>>, S) /\ DOMAIN <<>> = {}
<1>1. DOMAIN <<>> = {} /\ <<>> \in [{} -> Lease] OBVIOUS
<1>2. <<>> \in Stores BY <1>1, StoreShape
<1> QED BY <1>1, <1>2 DEF Good

(* A caller at rest. *)
LEMMA IdleFields ==
  /\ Idle.pc = "idle" /\ Idle.req = NoRequest /\ Idle.retain = FALSE
  /\ Idle.todo = <<>> /\ Idle.seen = {} /\ Idle.at = Local /\ Idle.session = None
  /\ Idle.state = "running" /\ Idle \in CallRec
<1>1. <<>> \in Stores BY EmptyGood DEF Good
<1> QED BY <1>1 DEF Idle, CallRec, Phases, Nodes, LeaseStates

(* A caller at rest has nothing to write and no answer. *)
LEMMA IdleOK == ASSUME NEW S PROVE CallOK(Idle, S)
  BY IdleFields, EmptyGood DEF CallOK

(* The call of a caller that has its answer, or an error. *)
LEMMA DoneOK ==
  ASSUME NEW S, NEW x, CallOK(x, S), x.req \in Requests, NEW s, Used(S, s),
         NEW st \in LeaseStates, NEW y, y = Done(x, s, st)
  PROVE  /\ CallOK(y, S)
         /\ ~y.retain
         /\ x.retain => y.pc = "done" /\ y.req = x.req /\ y.session = s /\ y.state = st
         /\ ~x.retain => y = Idle
<1>1. s \in Sessions /\ s # None BY FleetAssumption DEF Used, Sessions, None
<1>2. CASE x.retain
  <2>1. y = [Idle EXCEPT !.pc = "done", !.req = x.req, !.session = s, !.state = st]
    BY <1>2 DEF Done
  <2>2. /\ y \in CallRec /\ y.pc = "done" /\ y.req = x.req /\ y.session = s
        /\ y.state = st /\ y.retain = FALSE /\ y.todo = <<>>
    <3>1. Idle \in CallRec BY IdleFields
    <3>2. y \in CallRec BY <1>1, <2>1, <3>1 DEF CallRec, Phases
    <3>3. y.pc = "done" /\ y.req = x.req /\ y.session = s /\ y.state = st
      BY <2>1, <3>1 DEF CallRec
    <3>4. y.retain = FALSE /\ y.todo = <<>> BY <2>1, <3>1, IdleFields DEF CallRec
    <3> QED BY <3>2, <3>3, <3>4
  <2> QED BY <1>1, <1>2, <2>2, EmptyGood DEF CallOK
<1>3. CASE ~x.retain BY <1>3, IdleOK, IdleFields DEF Done
<1> QED BY <1>2, <1>3

(* The call of a caller that has an error. *)
LEMMA FailedOK ==
  ASSUME NEW S, NEW x, CallOK(x, S), NEW y, y = Failed(x)
  PROVE  /\ CallOK(y, S)
         /\ ~y.retain /\ y.session = None
         /\ x.retain => y.pc = "failed" /\ y.req = x.req
         /\ ~x.retain => y = Idle
<1>1. x.req \in Requests \cup {NoRequest} BY DEF CallOK, CallRec
<1>2. CASE x.retain
  <2>1. y = [Idle EXCEPT !.pc = "failed", !.req = x.req] BY <1>2 DEF Failed
  <2>2. /\ y \in CallRec /\ y.pc = "failed" /\ y.req = x.req /\ y.session = None
        /\ y.retain = FALSE /\ y.todo = <<>>
    BY <1>1, <2>1, IdleFields DEF CallRec, Phases
  <2> QED BY <1>2, <2>2, EmptyGood DEF CallOK
<1>3. CASE ~x.retain BY <1>3, IdleOK, IdleFields DEF Failed
<1> QED BY <1>2, <1>3

(* A call stays what it is when sessions change. *)
LEMMA EvolveCall ==
  ASSUME NEW S, NEW T, Evolves(S, T), NEW x, CallOK(x, S)
  PROVE  CallOK(x, T)
<1>1. Good(x.todo, T) BY EvolveOK DEF CallOK
<1>2. \A s : Used(S, s) => Used(T, s) /\ T[s].at = S[s].at BY DEF Used, Evolves
<1>3. x.session # None => T[x.session].at = S[x.session].at /\ Used(T, x.session)
  BY <1>2 DEF CallOK
<1> QED BY <1>1, <1>3 DEF CallOK

-----------------------------------------------------------------------------
(* What steps do to the calls *)

(* The sessions change and the calls do not. *)
LEMMA SameCalls ==
  ASSUME CallInv, UNCHANGED <<call, current, pending>>, Evolves(sess, sess')
  PROVE  CallInv'
<1>1. CallsOK' BY EvolveCall DEF CallInv, CallsOK
<1>2. CallsOwn' BY DEF CallInv, CallsOwn
<1>3. Alone' BY DEF CallInv, Alone, Asks, Quiet
<1> QED BY <1>1, <1>2, <1>3 DEF CallInv

(* One call changes. *)
LEMMA SetCall ==
  ASSUME CallInv, UNCHANGED <<sess, current, pending>>, NEW c \in Callers, NEW x,
         call' = [call EXCEPT ![c] = x], CallOK(x, sess),
         c # Queue => ~x.retain /\ x.req \notin Keys /\ x.pc \notin {"done", "failed"},
         c = Queue => /\ x.pc # "idle" => x.req = current
                      /\ x.pc \in Active \cup {"joined"} => x.retain
                      /\ x.pc \notin {"done", "failed"},
         x.pc = "write" => \A d \in Callers : call[d].pc = "write" => c = d,
         x.pc = "write" => call[Queue].pc \notin {"done", "failed"},
         x.pc \in Active /\ x.req # NoRequest =>
           \A d \in Callers : Asks(d) /\ WorkOf[call[d].req] = WorkOf[x.req] => c = d
  PROVE  CallInv'
<1>1. call'[c] = x /\ \A d \in Callers : d # c => call'[d] = call[d]
  BY DEF CallInv, CallsOK
<1>2. x \in CallRec BY DEF CallOK
<1>3. CallsOK' BY <1>1, <1>2 DEF CallInv, CallsOK
<1>4. CallsOwn' BY <1>1, EventsAssumption DEF CallInv, CallsOwn
<1>5. Alone'
  <2>1. \A d, e \in Callers : call'[d].pc = "write" /\ call'[e].pc = "write" => d = e
    BY <1>1 DEF CallInv, Alone
  <2>2. ASSUME call'[Queue].pc \in {"done", "failed"} PROVE Quiet'
    <3>1. Queue # c BY <1>1, <2>2
    <3>2. call[Queue].pc \in {"done", "failed"} BY <1>1, <2>2, <3>1, EventsAssumption
    <3>3. Quiet /\ x.pc # "write" BY <3>2 DEF CallInv, Alone
    <3> QED BY <1>1, <3>3 DEF Quiet
  <2>3. \A d \in Callers : d # c => (Asks(d)' <=> Asks(d)) BY <1>1 DEF Asks
  <2>4. Asks(c)' => x.pc \in Active /\ x.req # NoRequest BY <1>1 DEF Asks
  <2>5. ASSUME NEW d \in Callers, NEW e \in Callers, Asks(d)', Asks(e)',
               WorkOf[call'[d].req] = WorkOf[call'[e].req]
        PROVE  d = e
    <3>1. CASE d = c BY <1>1, <2>3, <2>4, <2>5, <3>1
    <3>2. CASE e = c BY <1>1, <2>3, <2>4, <2>5, <3>2
    <3>3. CASE d # c /\ e # c BY <1>1, <2>3, <2>5, <3>3 DEF CallInv, Alone
    <3> QED BY <3>1, <3>2, <3>3
  <2> QED BY <2>1, <2>2, <2>5 DEF Alone
<1> QED BY <1>3, <1>4, <1>5 DEF CallInv

\* A call of c and those that joined it end, the call of d as y(d).
LEMMA EndCalls ==
  ASSUME CallInv, UNCHANGED <<current, pending>>, Evolves(sess, sess'),
         NEW c \in Callers, call[c].pc \in Active, Quiet \/ call[c].pc = "write",
         CallsOK', NEW F \in SUBSET Callers, c \in F,
         \A d \in F : d = c \/ call[d].pc = "joined",
         \A d \in Callers \ F : call'[d] = call[d],
         \A d \in F : /\ ~call'[d].retain
                      /\ ~call[d].retain => call'[d] = Idle
                      /\ call[d].retain => /\ call'[d].pc \in {"done", "failed"}
                                           /\ call'[d].req = call[d].req
  PROVE  CallInv'
<1>1. \A d \in F : call'[d].pc \in {"idle", "done", "failed"}
  BY IdleFields DEF CallInv, CallsOK, CallOK, CallRec
<1>2. Quiet'
  BY <1>1 DEF CallInv, Alone, Quiet
<1>3. Alone'
  <2>1. \A d \in Callers : Asks(d)' => d \notin F /\ Asks(d) BY <1>1 DEF Asks, Active
  <2> QED BY <1>2, <2>1 DEF CallInv, Alone, Quiet
<1>4. CallsOwn'
  <2>1. \A d \in Callers \ {Queue} : /\ ~call'[d].retain /\ call'[d].req \notin Keys
                                     /\ call'[d].pc \notin {"done", "failed"}
    BY IdleFields, EventsAssumption, FleetAssumption DEF CallInv, CallsOwn
  <2>2. call'[Queue].pc # "idle" => call'[Queue].req = current
    <3>1. CASE Queue \notin F BY <3>1, EventsAssumption DEF CallInv, CallsOwn
    <3>2. CASE Queue \in F /\ ~call[Queue].retain BY <3>2, IdleFields
    <3>3. CASE Queue \in F /\ call[Queue].retain
      <4>1. call[Queue].pc # "idle" BY <3>3 DEF Active
      <4> QED BY <3>3, <4>1 DEF CallInv, CallsOwn
    <3> QED BY <3>1, <3>2, <3>3
  <2>3. call'[Queue].pc \in Active \cup {"joined"} => call'[Queue].retain
    <3>1. CASE Queue \notin F BY <3>1, EventsAssumption DEF CallInv, CallsOwn
    <3>2. CASE Queue \in F BY <1>1, <3>2 DEF Active
    <3> QED BY <3>1, <3>2
  <2> QED BY <2>1, <2>2, <2>3 DEF CallInv, CallsOwn
<1> QED BY <1>3, <1>4 DEF CallInv

(* The callers whose call ends with that of c. *)
LEMMA JoinedShape ==
  ASSUME CallInv, NEW c \in Callers
  PROVE  /\ {c} \cup Joined(c) \in SUBSET Callers
         /\ \A d \in Joined(c) : /\ call[d].pc = "joined" /\ call[d].req \in Requests
                                 /\ WorkOf[call[d].req] = WorkOf[call[c].req]
  BY DEF Joined, CallInv, CallsOK, CallOK

(* Ends: with an answer. *)
LEMMA EndsCalls ==
  ASSUME CallInv, UNCHANGED <<current, pending>>, Evolves(sess, sess'),
         NEW c \in Callers, call[c].pc \in Active, Quiet \/ call[c].pc = "write",
         call[c].req \in Requests, NEW s, Used(sess', s), NEW st \in LeaseStates,
         Ends(c, call[c], s, st)
  PROVE  CallInv'
<1> DEFINE F == {c} \cup Joined(c)
<1>1. \A d \in F : call[d].req \in Requests /\ CallOK(call[d], sess)
  BY JoinedShape DEF CallInv, CallsOK
<1>2. \A d \in Callers : call'[d] = IF d \in F THEN Done(call[d], s, st) ELSE call[d]
  BY DEF Ends
<1>3. F \in SUBSET Callers /\ \A d \in F : d = c \/ call[d].pc = "joined" BY JoinedShape
<1>4. \A d \in Callers : CallOK(call[d], sess') BY EvolveCall DEF CallInv, CallsOK
<1>5. call' = [d \in Callers |-> call'[d]] BY DEF Ends
<1> HIDE DEF F
<1>6. ASSUME NEW d \in F
      PROVE  /\ CallOK(call'[d], sess') /\ ~call'[d].retain
             /\ ~call[d].retain => call'[d] = Idle
             /\ call[d].retain => /\ call'[d].pc \in {"done", "failed"}
                                  /\ call'[d].req = call[d].req
  <2>1. call'[d] = Done(call[d], s, st) BY <1>2, <1>3, <1>6
  <2>2. CallOK(call[d], sess') /\ call[d].req \in Requests BY <1>1, <1>3, <1>4, <1>6
  <2> QED BY <2>1, <2>2, DoneOK
<1>7. \A d \in Callers : CallOK(call'[d], sess') BY <1>2, <1>4, <1>6
<1>8. CallsOK' BY <1>5, <1>7 DEF CallsOK, CallOK
<1>9. \A d \in Callers \ F : call'[d] = call[d] BY <1>2
<1>10. c \in F BY DEF F
<1> QED BY <1>3, <1>6, <1>8, <1>9, <1>10, EndCalls

(* Fails: with an error. *)
LEMMA FailsCalls ==
  ASSUME CallInv, UNCHANGED <<current, pending>>, Evolves(sess, sess'),
         NEW c \in Callers, call[c].pc \in Active, Quiet \/ call[c].pc = "write",
         Fails(c, call[c])
  PROVE  CallInv'
<1> DEFINE F == {c} \cup Joined(c)
<1>2. \A d \in Callers : call'[d] = IF d \in F THEN Failed(call[d]) ELSE call[d]
  BY DEF Fails
<1>3. F \in SUBSET Callers /\ \A d \in F : d = c \/ call[d].pc = "joined" BY JoinedShape
<1>4. \A d \in Callers : CallOK(call[d], sess') BY EvolveCall DEF CallInv, CallsOK
<1>5. call' = [d \in Callers |-> call'[d]] BY DEF Fails
<1> HIDE DEF F
<1>6. ASSUME NEW d \in F
      PROVE  /\ CallOK(call'[d], sess') /\ ~call'[d].retain
             /\ ~call[d].retain => call'[d] = Idle
             /\ call[d].retain => /\ call'[d].pc \in {"done", "failed"}
                                  /\ call'[d].req = call[d].req
  <2>1. call'[d] = Failed(call[d]) BY <1>2, <1>3, <1>6
  <2>2. CallOK(call[d], sess') BY <1>3, <1>4, <1>6
  <2> QED BY <2>1, <2>2, FailedOK
<1>7. \A d \in Callers : CallOK(call'[d], sess') BY <1>2, <1>4, <1>6
<1>8. CallsOK' BY <1>5, <1>7 DEF CallsOK, CallOK
<1>9. \A d \in Callers \ F : call'[d] = call[d] BY <1>2
<1>10. c \in F BY DEF F
<1> QED BY <1>3, <1>6, <1>8, <1>9, <1>10, EndCalls

-----------------------------------------------------------------------------
(* What steps do to the coordinator *)

FleetOK ==
  /\ SessOK(sess) /\ LeasesOK(leases, disk, sess)
  /\ wire \subseteq [req : Requests, at : Remotes]
  /\ conn \subseteq {s \in Sessions : Used(sess, s) /\ sess[s].at \in Remotes}
  /\ mishap \in BOOLEAN /\ faults \in 0..MaxFaults

FleetInv == FleetOK /\ CallInv

\* The queue has no answer to act on.
NoAnswer == call[Queue].pc \notin {"done", "failed"}

(* Sessions that do not change. *)
LEMMA SameSessions == ASSUME SessOK(sess), UNCHANGED sess PROVE Evolves(sess, sess')
  BY DEF Evolves

(* Faults stay within their bound. *)
LEMMA FaultOK == ASSUME faults \in 0..MaxFaults, Fault PROVE faults' \in 0..MaxFaults
  BY FleetAssumption DEF Fault

(* A socket is that of a started session of a remote node. *)
LEMMA ConnOK ==
  ASSUME FleetOK, Evolves(sess, sess'), conn' \subseteq conn
  PROVE  conn' \subseteq {s \in Sessions : Used(sess', s) /\ sess'[s].at \in Remotes}
  BY DEF FleetOK, Evolves, Used

(* The leases that reconcileLeases reads. *)
LEMMA SnapshotFacts ==
  ASSUME NEW S, Good(leases, S)
  PROVE  /\ Good(Snapshot, S) /\ DOMAIN Snapshot = Open(leases)
         /\ \A r \in Open(leases) : Snapshot[r] = leases[r]
         /\ \A r \in DOMAIN Snapshot : Snapshot[r].state \notin Over
<1>1. leases \in Stores BY DEF Good
<1>2. DOMAIN Snapshot = Open(leases) /\ \A r \in Open(leases) : Snapshot[r] = leases[r]
  BY DEF Snapshot
<1>3. Open(leases) \in SUBSET Requests /\ Open(leases) \subseteq DOMAIN leases
      /\ \A r \in Open(leases) : leases[r] \in Lease
  BY <1>1, StoreShape DEF Open
<1>4. Snapshot \in [Open(leases) -> Lease] BY <1>3 DEF Snapshot
<1>5. Snapshot \in Stores BY <1>3, <1>4, StoreShape
<1>6. Good(Snapshot, S) BY <1>2, <1>3, <1>5, PartOK
<1> QED BY <1>2, <1>6 DEF Open

(* A call begins with reconcileLeases. *)
LEMMA ReconcilesInv ==
  ASSUME FleetInv, Quiet, NoAnswer, UNCHANGED queueVars, NEW c \in Callers,
         NEW x \in CallRec, x.todo = Snapshot, x.session = None, Reconciles(c, x),
         c # Queue => ~x.retain /\ x.req \notin Keys,
         c = Queue => x.retain /\ x.req = current,
         x.req # NoRequest => ~Pending(x.req)
  PROVE  FleetInv' /\ call'[c].todo = Snapshot /\ call'[c].pc \in {"probe", "write"}
         /\ \A d \in Callers : d # c => call'[d] = call[d]
<1> DEFINE y == [x EXCEPT !.pc = IF Probes(x) = {} THEN "write" ELSE "probe"]
<1>1. /\ y \in CallRec /\ y.pc \in {"probe", "write"} /\ y.req = x.req /\ y.retain = x.retain
      /\ y.todo = Snapshot /\ y.session = None
  BY DEF CallRec, Phases
<1>2. call' = [call EXCEPT ![c] = y] BY DEF Reconciles
<1>3. UNCHANGED <<sess, leases, disk, wire, conn, mishap, faults>> BY DEF Reconciles
<1>4. UNCHANGED <<current, pending>> BY DEF queueVars
<1> HIDE DEF y
<1>5. CallOK(y, sess) BY <1>1, SnapshotFacts DEF CallOK, FleetInv, FleetOK, LeasesOK
<1>6. y.req # NoRequest =>
        \A d \in Callers : Asks(d) /\ WorkOf[call[d].req] = WorkOf[y.req] => c = d
  BY <1>1 DEF Pending, Asks, Active
<1>7. y.pc \notin {"done", "failed", "idle"} BY <1>1
<1>8. \A d \in Callers : call[d].pc # "write" BY DEF Quiet
<1>9. CallInv'
  BY <1>1, <1>2, <1>3, <1>4, <1>5, <1>6, <1>7, <1>8, SetCall DEF FleetInv, NoAnswer
<1>10. FleetOK' BY <1>3 DEF FleetInv, FleetOK
<1>11. call'[c] = y /\ \A d \in Callers : d # c => call'[d] = call[d]
  BY <1>2 DEF FleetInv, CallInv, CallsOK
<1> QED BY <1>1, <1>9, <1>10, <1>11 DEF FleetInv

(* startSession: the call joins one under way or begins. *)
LEMMA StartInv ==
  ASSUME FleetInv, Quiet, NoAnswer, UNCHANGED queueVars, NEW c \in Callers,
         NEW r \in Requests, NEW b \in BOOLEAN, startSession(c, r, b),
         c # Queue => ~b /\ r \notin Keys, c = Queue => b /\ r = current
  PROVE  FleetInv'
<1>1. CASE /\ call' = [call EXCEPT ![c] =
                [Idle EXCEPT !.pc = "joined", !.req = r, !.retain = b]]
           /\ UNCHANGED <<sess, leases, disk, wire, conn, mishap, faults>>
  <2> DEFINE y == [Idle EXCEPT !.pc = "joined", !.req = r, !.retain = b]
  <2>1. /\ y \in CallRec /\ y.pc = "joined" /\ y.req = r /\ y.retain = b /\ y.todo = <<>>
        /\ y.session = None
    BY IdleFields DEF CallRec, Phases
  <2> HIDE DEF y
  <2>2. CallOK(y, sess) BY <2>1, EmptyGood DEF CallOK
  <2>3. call' = [call EXCEPT ![c] = y] BY <1>1 DEF y
  <2>4. UNCHANGED <<current, pending>> BY DEF queueVars
  <2>5. y.pc \notin Active \cup {"done", "failed", "write"} BY <2>1 DEF Active
  <2>6. CallInv' BY <1>1, <2>1, <2>2, <2>3, <2>4, <2>5, SetCall DEF FleetInv
  <2> QED BY <1>1, <2>6 DEF FleetInv, FleetOK
<1>2. CASE /\ ~Pending(r)
           /\ Reconciles(c, [Idle EXCEPT !.req = r, !.retain = b, !.todo = Snapshot])
  <2> DEFINE x == [Idle EXCEPT !.req = r, !.retain = b, !.todo = Snapshot]
  <2>1. Snapshot \in Stores BY SnapshotFacts DEF FleetInv, FleetOK, LeasesOK, Good
  <2>2. x \in CallRec /\ x.req = r /\ x.retain = b /\ x.todo = Snapshot /\ x.session = None
    BY <2>1, IdleFields DEF CallRec
  <2> HIDE DEF x
  <2>3. Reconciles(c, x) BY <1>2 DEF x
  <2> QED BY <1>2, <2>2, <2>3, ReconcilesInv
<1> QED BY <1>1, <1>2 DEF startSession

(* sendWelcomeMessage. *)
LEMMA WelcomeInv ==
  ASSUME FleetInv, Quiet, NoAnswer, UNCHANGED queueVars, NEW c \in Callers, c # Queue,
         welcome(c)
  PROVE  FleetInv'
<1> DEFINE x == [Idle EXCEPT !.todo = Snapshot]
<1>1. Snapshot \in Stores BY SnapshotFacts DEF FleetInv, FleetOK, LeasesOK, Good
<1>2. /\ x \in CallRec /\ x.req = NoRequest /\ x.retain = FALSE /\ x.todo = Snapshot
      /\ x.session = None
  BY <1>1, IdleFields DEF CallRec
<1>3. Reconciles(c, x) BY DEF welcome
<1> HIDE DEF x
<1>4. x.req \notin Keys BY <1>2, EventsAssumption, FleetAssumption
<1> QED BY <1>2, <1>3, <1>4, ReconcilesInv

(* The probes are answered. *)
LEMMA ProbedInv ==
  ASSUME FleetInv, Quiet, NoAnswer, UNCHANGED queueVars, NEW c \in Callers, Probed(c)
  PROVE  FleetInv'
<1>1. PICK seen \in SUBSET Probes(call[c]) :
        call' = [call EXCEPT ![c].pc = "write", ![c].seen = seen]
  BY DEF Probed
<1> DEFINE y == [call[c] EXCEPT !.pc = "write", !.seen = seen]
<1>2. call[c] \in CallRec /\ CallOK(call[c], sess) /\ call[c].pc = "probe"
  BY DEF FleetInv, CallInv, CallsOK, Probed
<1>3. seen \in SUBSET Remotes BY <1>1 DEF Probes
<1>4. /\ y \in CallRec /\ y.pc = "write" /\ y.req = call[c].req /\ y.retain = call[c].retain
      /\ y.todo = call[c].todo /\ y.session = call[c].session
  BY <1>2, <1>3 DEF CallRec, Phases
<1>5. call' = [call EXCEPT ![c] = y] BY <1>1, <1>2 DEF FleetInv, CallInv, CallsOK
<1> HIDE DEF y
<1>6. CallOK(y, sess) BY <1>2, <1>4 DEF CallOK
<1>7. UNCHANGED <<sess, leases, disk, wire, conn, faults>> /\ mishap' \in BOOLEAN
  BY DEF Probed, FleetInv, FleetOK
<1>8. UNCHANGED <<current, pending>> BY DEF queueVars
<1>9. y.req # NoRequest =>
        \A d \in Callers : Asks(d) /\ WorkOf[call[d].req] = WorkOf[y.req] => c = d
  BY <1>2, <1>4 DEF FleetInv, CallInv, Alone, Asks, Active
<1>10. \A d \in Callers : call[d].pc # "write" BY DEF Quiet
<1>11. /\ c # Queue => ~y.retain /\ y.req \notin Keys
       /\ c = Queue => y.retain /\ y.req = current
  BY <1>2, <1>4 DEF FleetInv, CallInv, CallsOwn, Active
<1>12. CallInv'
  BY <1>4, <1>5, <1>6, <1>7, <1>8, <1>9, <1>10, <1>11, SetCall DEF FleetInv, NoAnswer
<1>13. FleetOK' BY <1>7 DEF FleetInv, FleetOK
<1> QED BY <1>12, <1>13 DEF FleetInv

(* A lease that was read is written, or the file cannot be. *)
LEMMA ReconcileLeaseInv ==
  ASSUME FleetInv, NoAnswer, UNCHANGED queueVars, NEW c \in Callers, ReconcileLease(c)
  PROVE  FleetInv'
<1>1. PICK r \in DOMAIN call[c].todo :
        \/ /\ Save(Upsert(leases, {r}, Reconciled(call[c].todo[r], call[c].seen)))
           /\ call' = [call EXCEPT ![c].todo = Dropped(@, {r})]
           /\ UNCHANGED faults
        \/ Fault /\ Fails(c, call[c]) /\ UNCHANGED <<leases, disk>>
  BY DEF ReconcileLease
<1>2. /\ call[c].pc = "write" /\ UNCHANGED <<sess, wire, conn, mishap>>
      /\ UNCHANGED <<current, pending>>
  BY DEF ReconcileLease, queueVars
<1>3. /\ call[c] \in CallRec /\ CallOK(call[c], sess) /\ Good(call[c].todo, sess)
      /\ call[c].todo \in Stores
  BY DEF FleetInv, CallInv, CallsOK, CallOK, Good
<1>4. r \in Requests /\ call[c].todo[r] \in Lease BY <1>1, <1>3, StoreShape
<1>5. CASE /\ Save(Upsert(leases, {r}, Reconciled(call[c].todo[r], call[c].seen)))
           /\ call' = [call EXCEPT ![c].todo = Dropped(@, {r})]
           /\ UNCHANGED faults
  <2> DEFINE rec == Reconciled(call[c].todo[r], call[c].seen)
             N == Dropped(call[c].todo, {r})
             y == [call[c] EXCEPT !.todo = N]
  <2>1. /\ rec \in Lease /\ rec.session = call[c].todo[r].session
        /\ rec.state = "expired" => sess[rec.session].st \notin {"live", "ended"}
    BY <1>4, ReconciledFacts
  <2>2. Used(sess, rec.session) BY <1>1, <1>3, <2>1 DEF Good
  <2>3. rec.state = "expired" => sess[rec.session].st = "gone"
    BY <2>1, <2>2 DEF FleetInv, FleetOK, SessOK, Used
  <2> HIDE DEF rec
  <2>4. Good(Upsert(leases, {r}, rec), sess)
    BY <1>4, <2>1, <2>2, <2>3, UpsertGood DEF FleetInv, FleetOK, LeasesOK
  <2>5. LeasesOK(leases', disk', sess)
    BY <1>5, <2>4, SaveOK DEF FleetInv, FleetOK, rec
  <2>6. FleetOK' BY <1>2, <1>5, <2>5 DEF FleetInv, FleetOK
  <2>7. /\ N \in Stores /\ DOMAIN N = DOMAIN call[c].todo \ {r}
        /\ \A x \in DOMAIN N : N[x] = call[c].todo[x]
    <3>1. call[c].todo \in Stores BY <1>3
    <3>2. Removed(call[c].todo, N, {r}) BY <3>1, DropShape
    <3> HIDE DEF N
    <3> QED BY <3>2 DEF Removed
  <2> HIDE DEF N
  <2>8. Good(N, sess) BY <1>3, <2>7, PartOK
  <2>9. /\ y \in CallRec /\ y.pc = "write" /\ y.req = call[c].req /\ y.retain = call[c].retain
        /\ y.todo = N /\ y.session = call[c].session
    BY <1>2, <1>3, <2>7 DEF CallRec
  <2>10. call' = [call EXCEPT ![c] = y] BY <1>5, <1>3 DEF FleetInv, CallInv, CallsOK, N
  <2> HIDE DEF y
  <2>11. CallOK(y, sess) BY <1>2, <1>3, <2>7, <2>8, <2>9 DEF CallOK
  <2>12. /\ y.req # NoRequest =>
              \A d \in Callers : Asks(d) /\ WorkOf[call[d].req] = WorkOf[y.req] => c = d
         /\ \A d \in Callers : call[d].pc = "write" => c = d
    BY <1>2, <2>9 DEF FleetInv, CallInv, Alone, Asks, Active
  <2>13. /\ c # Queue => ~y.retain /\ y.req \notin Keys
         /\ c = Queue => y.retain /\ y.req = current
    BY <1>2, <2>9 DEF FleetInv, CallInv, CallsOwn, Active
  <2>14. CallInv'
    BY <1>2, <2>9, <2>10, <2>11, <2>12, <2>13, SetCall DEF FleetInv, NoAnswer
  <2> QED BY <2>6, <2>14 DEF FleetInv
<1>6. CASE Fault /\ Fails(c, call[c]) /\ UNCHANGED <<leases, disk>>
  <2>1. FleetOK' BY <1>2, <1>6, FaultOK DEF FleetInv, FleetOK
  <2>2. CallInv'
    BY <1>2, <1>6, FailsCalls, SameSessions DEF FleetInv, FleetOK, Active
  <2> QED BY <2>1, <2>2 DEF FleetInv
<1> QED BY <1>1, <1>5, <1>6

(* The requests whose receipts are pinned with an answer. *)
LEMMA ReceiptsShape ==
  ASSUME FleetInv, NEW c \in Callers
  PROVE  /\ Receipts(JoinedCalls(c)) \in SUBSET Requests
         /\ call[c].req \in Requests => Receipts({call[c]} \cup JoinedCalls(c)) \in SUBSET Requests
  BY JoinedShape DEF FleetInv, Receipts, JoinedCalls

(* The end of reconcileLeases and what follows it. *)
LEMMA ReconcileEndInv ==
  ASSUME FleetInv, NoAnswer, UNCHANGED queueVars, NEW c \in Callers, reconcileLeases(c)
  PROVE  FleetInv'
<1>1. PICK old \in SUBSET Droppable(leases) :
       \/ AfterReconcile(c, call[c], Dropped(leases, old)) /\ UNCHANGED faults
       \/ /\ Fault /\ Fails(c, call[c])
          /\ \/ leases' = Dropped(leases, old) /\ UNCHANGED disk
             \/ Save(Dropped(leases, old))
  BY DEF reconcileLeases
<1>2. /\ call[c].pc = "write" /\ UNCHANGED <<sess, wire, conn, mishap>>
      /\ UNCHANGED <<current, pending>>
  BY DEF reconcileLeases, queueVars
<1>3. /\ call[c] \in CallRec /\ CallOK(call[c], sess)
  BY DEF FleetInv, CallInv, CallsOK
<1> DEFINE L == Dropped(leases, old)
<1>4. leases \in Stores /\ Good(leases, sess) BY DEF FleetInv, FleetOK, LeasesOK, Good
<1>5. /\ L \in Stores /\ DOMAIN L = DOMAIN leases \ old
      /\ \A x \in DOMAIN L : L[x] = leases[x]
  <2>1. Removed(leases, L, old) BY <1>4, DropShape
  <2> HIDE DEF L
  <2> QED BY <2>1 DEF Removed
<1> HIDE DEF L
<1>6. Good(L, sess) BY <1>4, <1>5, PartOK
<1>7. \A x \in DOMAIN leases \ DOMAIN L : ~leases[x].retain BY <1>5 DEF Droppable
<1>8. Evolves(sess, sess') BY <1>2, SameSessions DEF FleetInv, FleetOK
<1>9. CASE /\ Fault /\ Fails(c, call[c])
           /\ \/ leases' = L /\ UNCHANGED disk
              \/ Save(L)
  <2>1. CallInv' BY <1>2, <1>8, <1>9, FailsCalls DEF FleetInv, Active
  <2>2. CASE leases' = L /\ UNCHANGED disk
    <3>1. DiskAhead(L, disk)
      BY <1>5, <1>7 DEF FleetInv, FleetOK, LeasesOK, DiskAhead
    <3>2. LeasesOK(leases', disk', sess)
      BY <1>6, <2>2, <3>1 DEF FleetInv, FleetOK, LeasesOK
    <3> QED BY <1>2, <1>9, <2>1, <3>2, FaultOK DEF FleetInv, FleetOK
  <2>3. CASE Save(L)
    <3>1. LeasesOK(leases', disk', sess) BY <1>6, <2>3, SaveOK DEF FleetInv, FleetOK
    <3> QED BY <1>2, <1>9, <2>1, <3>1, FaultOK DEF FleetInv, FleetOK
  <2> QED BY <1>9, <2>2, <2>3
<1>10. CASE AfterReconcile(c, call[c], L) /\ UNCHANGED faults
  <2>1. CASE call[c].req = NoRequest
    <3>1. Save(L) /\ call' = [call EXCEPT ![c] = Idle] BY <1>10, <2>1 DEF AfterReconcile
    <3>2. LeasesOK(leases', disk', sess) BY <1>6, <3>1, SaveOK DEF FleetInv, FleetOK
    <3>3. FleetOK' BY <1>2, <1>10, <3>2 DEF FleetInv, FleetOK
    <3>4. Idle.pc \notin Active \cup {"joined", "done", "failed", "write"} /\ Idle.req \notin Keys
      BY IdleFields, EventsAssumption, FleetAssumption DEF Active
    <3>5. CallInv' BY <1>2, <3>1, <3>4, IdleOK, IdleFields, SetCall DEF FleetInv
    <3> QED BY <3>3, <3>5 DEF FleetInv
  <2>2. CASE call[c].req # NoRequest /\ Answer(L, call[c].req) = {} /\ Save(L)
             /\ call' = [call EXCEPT ![c] = [call[c] EXCEPT !.pc = "select", !.seen = {}]]
    <3> DEFINE y == [call[c] EXCEPT !.pc = "select", !.seen = {}]
    <3>1. /\ y \in CallRec /\ y.pc = "select" /\ y.req = call[c].req /\ y.retain = call[c].retain
          /\ y.todo = call[c].todo /\ y.session = call[c].session
      BY <1>3 DEF CallRec, Phases
    <3> HIDE DEF y
    <3>2. call[c].req \in Requests BY <1>3, <2>2 DEF CallRec
    <3>3. CallOK(y, sess) BY <1>2, <1>3, <3>1, <3>2 DEF CallOK
    <3>4. \A d \in Callers : Asks(d) /\ WorkOf[call[d].req] = WorkOf[y.req] => c = d
      BY <1>2, <2>2, <3>1 DEF FleetInv, CallInv, Alone, Asks, Active
    <3>5. /\ c # Queue => ~y.retain /\ y.req \notin Keys
          /\ c = Queue => y.retain /\ y.req = current
      BY <1>2, <3>1 DEF FleetInv, CallInv, CallsOwn, Active
    <3>6. call' = [call EXCEPT ![c] = y] BY <2>2 DEF y
    <3>7. CallInv' BY <1>2, <3>1, <3>3, <3>4, <3>5, <3>6, SetCall DEF FleetInv
    <3>8. LeasesOK(leases', disk', sess) BY <1>6, <2>2, SaveOK DEF FleetInv, FleetOK
    <3>9. FleetOK' BY <1>2, <1>10, <3>8 DEF FleetInv, FleetOK
    <3> QED BY <3>7, <3>9 DEF FleetInv
  <2>3. ASSUME call[c].req # NoRequest, NEW y \in Answer(L, call[c].req),
               Save(Pinned(L, Receipts({call[c]} \cup JoinedCalls(c)), L[y].session)),
               Ends(c, call[c], L[y].session, L[y].state)
        PROVE  FleetInv'
    <3>1. y \in DOMAIN L BY <2>3 DEF Answer, Open
    <3>2. Used(sess, L[y].session) /\ y \in Of(L, L[y].session) BY <1>6, <3>1 DEF Good, Of
    <3>3. L[y].state \in LeaseStates BY <1>5, <3>1, StoreShape DEF Lease
    <3>4. call[c].req \in Requests BY <1>3, <2>3 DEF CallRec
    <3>5. CallInv'
      BY <1>2, <1>8, <2>3, <3>2, <3>3, <3>4, EndsCalls DEF FleetInv, Active
    <3>6. Good(Pinned(L, Receipts({call[c]} \cup JoinedCalls(c)), L[y].session), sess)
      BY <1>6, <3>2, <3>4, ReceiptsShape, PinnedGood
    <3>7. LeasesOK(leases', disk', sess) BY <2>3, <3>6, SaveOK DEF FleetInv, FleetOK
    <3>8. FleetOK' BY <1>2, <1>10, <3>7 DEF FleetInv, FleetOK
    <3> QED BY <3>5, <3>8 DEF FleetInv
  <2> QED BY <1>10, <2>1, <2>2, <2>3 DEF AfterReconcile
<1> QED BY <1>1, <1>9, <1>10 DEF L

(* The lease of a started session, and the receipts of those who joined. *)
LEMMA RecordedGood ==
  ASSUME NEW S, Good(leases, S), NEW r \in Requests, NEW b \in BOOLEAN,
         NEW R \in SUBSET Requests, NEW s, Used(S, s), NEW rec,
         rec = [session |-> s, work |-> WorkOf[r], state |-> "running", retain |-> b]
  PROVE  /\ rec \in Lease /\ Good(Upsert(leases, {r}, rec), S)
         /\ r \in Of(Upsert(leases, {r}, rec), s)
         /\ Good(Pinned(Upsert(leases, {r}, rec), R, s), S)
<1> DEFINE M == Upsert(leases, {r}, rec)
<1>1. rec \in Lease /\ rec.session = s /\ rec.state = "running"
  BY DEF Lease, LeaseStates, Used
<1>2. leases \in Stores BY DEF Good
<1>3. Good(M, S) BY <1>1, UpsertGood
<1>4. r \in DOMAIN M /\ M[r] = rec
  <2>1. Upserted(leases, M, {r}, rec) BY <1>1, <1>2, UpsertShape
  <2> HIDE DEF M
  <2> QED BY <2>1 DEF Upserted
<1>5. r \in Of(M, s) BY <1>1, <1>4 DEF Of
<1> HIDE DEF M
<1>6. Good(Pinned(M, R, s), S) BY <1>3, <1>5, PinnedGood
<1> QED BY <1>1, <1>3, <1>5, <1>6 DEF M

(* recordLease of a started session. *)
LEMMA RecordInv ==
  ASSUME FleetInv, Quiet, UNCHANGED <<current, pending>>, Evolves(sess, sess'),
         NEW c \in Callers, call[c].pc \in {"select", "sent"}, NEW s, Used(sess', s),
         Record(c, s)
  PROVE  /\ CallInv' /\ LeasesOK(leases', disk', sess') /\ faults' \in 0..MaxFaults
<1> DEFINE r == call[c].req
           rec == [session |-> s, work |-> WorkOf[r], state |-> "running",
                   retain |-> call[c].retain]
           R == Receipts(JoinedCalls(c))
<1>1. r \in Requests /\ call[c].retain \in BOOLEAN /\ call[c].pc \in Active
  BY DEF FleetInv, CallInv, CallsOK, CallOK, CallRec, Active
<1>2. LeasesOK(leases, disk, sess') BY EvolveLeases DEF FleetInv, FleetOK
<1>3. CASE /\ Save(Pinned(Upsert(leases, {r}, rec), R, s))
           /\ Ends(c, call[c], s, "running") /\ UNCHANGED faults
  <2>1. CallInv'
    BY <1>1, <1>3, EndsCalls DEF FleetInv, LeaseStates
  <2>2. R \in SUBSET Requests BY ReceiptsShape
  <2>3. Good(leases, sess') BY <1>2 DEF LeasesOK
  <2>4. Good(Pinned(Upsert(leases, {r}, rec), R, s), sess')
    <3>1. \A b \in BOOLEAN, q \in Requests, T \in SUBSET Requests :
            Good(Pinned(Upsert(leases, {q}, [session |-> s, work |-> WorkOf[q],
                   state |-> "running", retain |-> b]), T, s), sess')
      BY <2>3, RecordedGood
    <3> HIDE DEF R
    <3> QED BY <1>1, <2>2, <3>1
  <2>5. LeasesOK(leases', disk', sess') BY <1>2, <1>3, <2>4, SaveOK
  <2> QED BY <1>3, <2>1, <2>5 DEF FleetInv, FleetOK
<1>4. CASE Fault /\ Fails(c, call[c]) /\ UNCHANGED <<leases, disk>>
  <2>1. CallInv' BY <1>1, <1>4, FailsCalls DEF FleetInv
  <2> QED BY <1>2, <1>4, <2>1, FaultOK DEF FleetInv, FleetOK
<1> QED BY <1>3, <1>4 DEF Record

(* A session is started on this node. *)
LEMMA StartHereInv ==
  ASSUME FleetInv, Quiet, UNCHANGED queueVars, NEW c \in Callers, StartHere(c)
  PROVE  FleetInv'
<1>1. /\ call[c].pc = "select" /\ UNCHANGED <<wire, conn>> /\ UNCHANGED <<current, pending>>
      /\ mishap' \in BOOLEAN
  BY DEF StartHere, queueVars, FleetInv, FleetOK
<1>2. call[c].req \in Requests BY <1>1 DEF FleetInv, CallInv, CallsOK, CallOK
<1>3. ASSUME NEW s \in Sessions, StartOn(Local, call[c].req, s), Record(c, s)
      PROVE  FleetInv'
  <2>1. Evolves(sess, sess') /\ Used(sess', s)
    BY <1>2, <1>3, StartEvolves DEF Nodes, FleetInv, FleetOK
  <2>2. CallInv' /\ LeasesOK(leases', disk', sess') /\ faults' \in 0..MaxFaults
    BY <1>1, <1>3, <2>1, RecordInv
  <2>3. FleetOK' BY <1>1, <2>1, <2>2, ConnOK DEF FleetInv, FleetOK, Evolves
  <2> QED BY <2>2, <2>3 DEF FleetInv
<1>4. CASE Fails(c, call[c]) /\ UNCHANGED <<sess, leases, disk, faults>>
  <2>1. CallInv' BY <1>1, <1>4, FailsCalls, SameSessions DEF FleetInv, FleetOK, Active
  <2>2. FleetOK' BY <1>1, <1>4 DEF FleetInv, FleetOK
  <2> QED BY <2>1, <2>2 DEF FleetInv
<1> QED BY <1>3, <1>4 DEF StartHere

(* A start is sent to a remote node. *)
LEMMA StartThereInv ==
  ASSUME FleetInv, Quiet, UNCHANGED queueVars, NEW c \in Callers, NEW n \in Remotes,
         StartThere(c, n)
  PROVE  FleetInv'
<1>1. /\ call[c].pc = "select" /\ UNCHANGED <<sess, leases, disk, conn, mishap, faults>>
      /\ UNCHANGED <<current, pending>>
  BY DEF StartThere, queueVars
<1>2. CallOK(call[c], sess) /\ call[c] \in CallRec /\ call[c].req \in Requests
  BY <1>1 DEF FleetInv, CallInv, CallsOK, CallOK
<1>3. CASE /\ call' = [call EXCEPT ![c].pc = "sent", ![c].at = n]
           /\ wire' = wire \cup {[req |-> call[c].req, at |-> n]}
  <2> DEFINE y == [call[c] EXCEPT !.pc = "sent", !.at = n]
  <2>1. /\ y \in CallRec /\ y.pc = "sent" /\ y.req = call[c].req /\ y.retain = call[c].retain
        /\ y.todo = call[c].todo /\ y.session = call[c].session /\ y.at = n
    BY <1>2 DEF CallRec, Phases, Nodes
  <2>2. call' = [call EXCEPT ![c] = y] BY <1>2, <1>3 DEF FleetInv, CallInv, CallsOK
  <2> HIDE DEF y
  <2>3. CallOK(y, sess) BY <1>1, <1>2, <2>1 DEF CallOK
  <2>4. \A d \in Callers : Asks(d) /\ WorkOf[call[d].req] = WorkOf[y.req] => c = d
    BY <1>1, <1>2, <2>1, FleetAssumption DEF FleetInv, CallInv, Alone, Asks, Active
  <2>5. /\ c # Queue => ~y.retain /\ y.req \notin Keys
        /\ c = Queue => y.retain /\ y.req = current
    BY <1>1, <2>1 DEF FleetInv, CallInv, CallsOwn, Active
  <2>6. CallInv' BY <1>1, <2>1, <2>2, <2>3, <2>4, <2>5, SetCall DEF FleetInv
  <2>7. [req |-> call[c].req, at |-> n] \in [req : Requests, at : Remotes] BY <1>2
  <2>8. FleetOK' BY <1>1, <1>3, <2>7 DEF FleetInv, FleetOK
  <2> QED BY <2>6, <2>8 DEF FleetInv
<1>4. CASE Fails(c, call[c]) /\ UNCHANGED wire
  <2>1. CallInv' BY <1>1, <1>4, FailsCalls, SameSessions DEF FleetInv, FleetOK, Active
  <2>2. FleetOK' BY <1>1, <1>4 DEF FleetInv, FleetOK
  <2> QED BY <2>1, <2>2 DEF FleetInv
<1> QED BY <1>3, <1>4 DEF StartThere

(* The answer of a start arrives. *)
LEMMA StartedInv ==
  ASSUME FleetInv, Quiet, UNCHANGED queueVars, NEW c \in Callers, Started(c)
  PROVE  FleetInv'
<1>1. /\ call[c].pc = "sent" /\ call[c].session # None /\ UNCHANGED <<sess, wire>>
      /\ UNCHANGED <<current, pending>> /\ mishap' \in BOOLEAN
      /\ Record(c, call[c].session) /\ conn' = conn \cup {call[c].session}
  BY DEF Started, queueVars, FleetInv, FleetOK
<1>2. Used(sess, call[c].session) /\ sess[call[c].session].at \in Remotes
  BY <1>1 DEF FleetInv, CallInv, CallsOK, CallOK
<1>3. Evolves(sess, sess') BY <1>1, SameSessions DEF FleetInv, FleetOK
<1>4. CallInv' /\ LeasesOK(leases', disk', sess') /\ faults' \in 0..MaxFaults
  BY <1>1, <1>2, <1>3, RecordInv
<1>5. conn' \subseteq {s \in Sessions : Used(sess', s) /\ sess'[s].at \in Remotes}
  BY <1>1, <1>2 DEF FleetInv, FleetOK, Used
<1>6. FleetOK' BY <1>1, <1>4, <1>5 DEF FleetInv, FleetOK
<1> QED BY <1>4, <1>6 DEF FleetInv

(* A start has no answer in time. *)
LEMMA TimesOutInv ==
  ASSUME FleetInv, Quiet, UNCHANGED queueVars, NEW c \in Callers, StartTimesOut(c)
  PROVE  FleetInv'
<1>1. /\ call[c].pc = "sent" /\ UNCHANGED <<sess, leases, disk, wire, conn>>
      /\ UNCHANGED <<current, pending>> /\ mishap' \in BOOLEAN /\ Fails(c, call[c])
  BY DEF StartTimesOut, queueVars, FleetInv, FleetOK
<1>2. faults' \in 0..MaxFaults BY FleetAssumption DEF StartTimesOut, FleetInv, FleetOK
<1>3. CallInv' BY <1>1, FailsCalls, SameSessions DEF FleetInv, FleetOK, Active
<1>4. FleetOK' BY <1>1, <1>2 DEF FleetInv, FleetOK
<1> QED BY <1>3, <1>4 DEF FleetInv

(* A step of a call. *)
LEMMA CallInvariant ==
  ASSUME FleetInv, NoAnswer, UNCHANGED queueVars, NEW c \in Callers,
         Quiet \/ call[c].pc = "write", CallStep(c)
  PROVE  FleetInv'
<1>1. CASE call[c].pc = "write"
  <2>1. ReconcileLease(c) \/ reconcileLeases(c)
    BY <1>1 DEF CallStep, Probed, StartHere, StartThere, Started, StartTimesOut
  <2> QED BY <2>1, ReconcileLeaseInv, ReconcileEndInv
<1>2. CASE Quiet
  BY <1>2, ProbedInv, ReconcileLeaseInv, ReconcileEndInv, StartHereInv, StartThereInv,
     StartedInv, TimesOutInv DEF CallStep
<1> QED BY <1>1, <1>2

(* A remote node starts a session. *)
LEMMA RemoteStartsInv ==
  ASSUME FleetInv, Quiet, UNCHANGED queueVars, NEW m \in wire, RemoteStarts(m)
  PROVE  FleetInv'
<1>1. PICK s \in Sessions, others \in SUBSET {c \in Waiting(m.at) : call[c].req # m.req} :
       /\ StartOn(m.at, m.req, s)
       /\ call' = [c \in Callers |->
            IF c \in Waiting(m.at) /\ (call[c].req = m.req \/ c \in others)
            THEN [call[c] EXCEPT !.session = s] ELSE call[c]]
       /\ mishap' = (mishap \/ others # {})
  BY DEF RemoteStarts
<1>2. m.req \in Requests /\ m.at \in Remotes /\ m.at \in Nodes
  BY DEF FleetInv, FleetOK, Nodes
<1>3. UNCHANGED <<leases, disk, conn, faults>> /\ UNCHANGED <<current, pending>>
      /\ wire' = wire \ {m}
  BY DEF RemoteStarts, queueVars
<1>4. Evolves(sess, sess') /\ Used(sess', s) /\ sess'[s].at = m.at
  BY <1>1, <1>2, StartEvolves DEF FleetInv, FleetOK
<1>5. s \in Sessions BY <1>1
<1>6. ASSUME NEW c \in Callers
      PROVE  /\ call'[c] \in CallRec /\ CallOK(call'[c], sess')
             /\ call'[c].pc = call[c].pc /\ call'[c].req = call[c].req
             /\ call'[c].retain = call[c].retain
  <2>1. call[c] \in CallRec /\ CallOK(call[c], sess')
    BY <1>4, EvolveCall DEF FleetInv, CallInv, CallsOK
  <2>2. CASE c \in Waiting(m.at) /\ (call[c].req = m.req \/ c \in others)
    <3>1. call'[c] = [call[c] EXCEPT !.session = s] BY <1>1, <2>2
    <3>2. call[c].pc = "sent" BY <2>2 DEF Waiting
    <3>3. /\ call'[c] \in CallRec /\ call'[c].pc = "sent" /\ call'[c].req = call[c].req
          /\ call'[c].retain = call[c].retain /\ call'[c].todo = call[c].todo
          /\ call'[c].session = s /\ call'[c].at = call[c].at
      BY <1>5, <2>1, <3>1, <3>2 DEF CallRec
    <3> QED BY <1>2, <1>4, <2>1, <3>2, <3>3 DEF CallOK
  <2>3. CASE ~(c \in Waiting(m.at) /\ (call[c].req = m.req \/ c \in others))
    <3>1. call'[c] = call[c] BY <1>1, <2>3
    <3> QED BY <2>1, <3>1
  <2> QED BY <2>2, <2>3
<1>7. CallsOK' BY <1>1, <1>6 DEF CallsOK
<1>8. CallsOwn' BY <1>3, <1>6, EventsAssumption DEF FleetInv, CallInv, CallsOwn
<1>9. Alone' BY <1>6, EventsAssumption DEF FleetInv, CallInv, Alone, Asks, Quiet
<1>10. LeasesOK(leases', disk', sess') BY <1>3, <1>4, EvolveLeases DEF FleetInv, FleetOK
<1>11. FleetOK' BY <1>1, <1>3, <1>4, <1>10, ConnOK DEF FleetInv, FleetOK, Evolves
<1> QED BY <1>7, <1>8, <1>9, <1>11 DEF FleetInv, CallInv

(* A step outside the calls. *)
LEMMA NodeInvariant ==
  ASSUME FleetInv, Quiet, UNCHANGED queueVars, NodeStep
  PROVE  FleetInv'
<1>1. UNCHANGED <<current, pending>> BY DEF queueVars
<1>2. SessOK(sess) /\ Good(leases, sess) BY DEF FleetInv, FleetOK, LeasesOK
<1>3. ASSUME NEW m \in wire, RemoteRefuses(m) PROVE FleetInv'
  <2>1. UNCHANGED <<sess, leases, disk, call, conn, mishap, faults>> /\ wire' \subseteq wire
    BY <1>3 DEF RemoteRefuses
  <2>2. CallInv' BY <1>1, <1>2, <2>1, SameCalls, SameSessions DEF FleetInv
  <2> QED BY <2>1, <2>2 DEF FleetInv, FleetOK
<1>4. ASSUME NEW s \in Sessions, SessionEnds(s) PROVE FleetInv'
  <2>1. /\ sess[s].st = "live" /\ sess' = [sess EXCEPT ![s].st = "ended"]
        /\ UNCHANGED <<call, wire, mishap, faults>> /\ conn' \subseteq conn
        /\ Save(Terminated(leases, s)) \/ UNCHANGED <<leases, disk>>
    BY <1>4 DEF SessionEnds
  <2>2. Evolves(sess, sess') BY <1>2, <2>1, EndEvolves
  <2>3. LeasesOK(leases, disk, sess') BY <2>2, EvolveLeases DEF FleetInv, FleetOK
  <2>4. Good(Terminated(leases, s), sess') BY <2>3, TerminatedGood DEF LeasesOK
  <2>5. LeasesOK(leases', disk', sess') BY <2>1, <2>3, <2>4, SaveOK
  <2>6. CallInv' BY <1>1, <2>1, <2>2, SameCalls DEF FleetInv
  <2> QED BY <2>1, <2>2, <2>5, <2>6, ConnOK DEF FleetInv, FleetOK, Evolves
<1>5. ASSUME NEW s \in Sessions, Forgotten(s) PROVE FleetInv'
  <2>1. /\ sess[s].st = "ended" /\ sess' = [sess EXCEPT ![s].st = "gone"]
        /\ UNCHANGED <<leases, disk, call, wire, conn, mishap, faults>>
    BY <1>5 DEF Forgotten
  <2>2. Evolves(sess, sess') BY <1>2, <2>1, EndEvolves
  <2>3. LeasesOK(leases, disk, sess') BY <2>2, EvolveLeases DEF FleetInv, FleetOK
  <2>4. CallInv' BY <1>1, <2>1, <2>2, SameCalls DEF FleetInv
  <2> QED BY <2>1, <2>2, <2>3, <2>4, ConnOK DEF FleetInv, FleetOK, Evolves
<1>6. ASSUME NEW s \in Sessions, SocketCloses(s) PROVE FleetInv'
  <2>1. /\ UNCHANGED <<sess, call, wire>> /\ conn' \subseteq conn
        /\ Save(Terminated(leases, s)) \/ UNCHANGED <<leases, disk>>
        /\ (Fault /\ mishap' = TRUE) \/ UNCHANGED <<faults, mishap>>
    BY <1>6 DEF SocketCloses
  <2>2. Evolves(sess, sess') BY <1>2, <2>1, SameSessions
  <2>3. Good(Terminated(leases, s), sess) BY <1>2, TerminatedGood
  <2>4. LeasesOK(leases', disk', sess) BY <2>1, <2>3, SaveOK DEF FleetInv, FleetOK
  <2>5. CallInv' BY <1>1, <2>1, <2>2, SameCalls DEF FleetInv
  <2>6. faults' \in 0..MaxFaults /\ mishap' \in BOOLEAN
    BY <2>1, FaultOK DEF FleetInv, FleetOK
  <2> QED BY <2>1, <2>2, <2>4, <2>5, <2>6, ConnOK DEF FleetInv, FleetOK
<1>7. ASSUME NEW n \in Remotes, RemoteRestarts(n) PROVE FleetInv'
  <2>1. /\ Fault /\ sess' = Killed(n) /\ wire' \subseteq wire
        /\ UNCHANGED <<leases, disk, call, conn, mishap>>
    BY <1>7 DEF RemoteRestarts
  <2>2. Evolves(sess, sess') BY <1>2, <2>1, KilledEvolves
  <2>3. LeasesOK(leases, disk, sess') BY <2>2, EvolveLeases DEF FleetInv, FleetOK
  <2>4. CallInv' BY <1>1, <2>1, <2>2, SameCalls DEF FleetInv
  <2> QED BY <2>1, <2>2, <2>3, <2>4, ConnOK, FaultOK DEF FleetInv, FleetOK, Evolves
<1> QED BY <1>3, <1>4, <1>5, <1>6, <1>7, RemoteStartsInv DEF NodeStep

(* The server restarts. *)
LEMMA RestartInv == ASSUME FleetInv, ServerRestarts PROVE FleetInv'
<1>1. /\ Fault /\ sess' = Killed(Local) /\ leases' = disk /\ conn' = {}
      /\ call' = [c \in Callers |-> Idle] /\ mishap' \in BOOLEAN /\ UNCHANGED <<disk, wire>>
      /\ current' = NoRequest
  BY DEF ServerRestarts, Restart, FleetInv, FleetOK
<1>2. Evolves(sess, sess') BY <1>1, KilledEvolves DEF FleetInv, FleetOK
<1>3. LeasesOK(leases', disk', sess')
  <2>1. LeasesOK(leases, disk, sess') BY <1>2, EvolveLeases DEF FleetInv, FleetOK
  <2> QED BY <1>1, <2>1 DEF LeasesOK, DiskAhead
<1>4. \A c \in Callers : call'[c] = Idle BY <1>1
<1>5. CallsOK' BY <1>1, <1>4, IdleOK, IdleFields DEF CallsOK
<1>6. CallsOwn'
  BY <1>1, <1>4, IdleFields, EventsAssumption, FleetAssumption DEF CallsOwn, Active
<1>7. Alone' BY <1>4, IdleFields, EventsAssumption DEF Alone, Asks, Active
<1> QED BY <1>1, <1>2, <1>3, <1>5, <1>6, <1>7, FaultOK DEF FleetInv, FleetOK, CallInv, Evolves

-----------------------------------------------------------------------------
(* What the queue does to the coordinator *)

\* A step of the queue writes a lease only to release the receipt of k.
QueueWrites(k) ==
  /\ Save(Released(k)) \/ UNCHANGED <<leases, disk>>
  /\ UNCHANGED faults \/ Fault

(* complete and failed write no other lease. *)
LEMMA EndWrites ==
  ASSUME NEW k, NEW e, complete(k, e) \/ failed(k, e)
  PROVE  QueueWrites(k) /\ current' = NoRequest
  BY DEF QueueWrites, complete, failed, Release

(* A step of the queue keeps the coordinator's state good ... *)
LEMMA QueueFleet ==
  ASSUME FleetOK, NEW k \in Keys, UNCHANGED <<sess, wire, conn, mishap>>, QueueWrites(k)
  PROVE  FleetOK'
<1>1. k \in Requests /\ Good(leases, sess) BY EventsAssumption DEF FleetOK, LeasesOK
<1>2. LeasesOK(leases', disk', sess)
  BY <1>1, ReleasedGood, SaveOK DEF FleetOK, QueueWrites
<1>3. faults' \in 0..MaxFaults BY FaultOK DEF FleetOK, QueueWrites
<1> QED BY <1>2, <1>3 DEF FleetOK

(* ... and its calls. *)
LEMMA QueueCalls ==
  ASSUME CallInv, UNCHANGED <<call, sess>>,
         call[Queue].pc # "idle" => current' = current,
         current' # NoRequest => pending'[current'].started
  PROVE  CallInv'
<1>1. CallsOK' BY DEF CallInv, CallsOK
<1>2. CallsOwn' BY DEF CallInv, CallsOwn
<1>3. Alone' BY DEF CallInv, Alone, Asks, Quiet
<1> QED BY <1>1, <1>2, <1>3 DEF CallInv

(* Deliveries, retries, the beginning of an attempt, releases, the owner. *)
LEMMA StoreInv ==
  ASSUME QueueInv, FleetInv, NEW k \in Keys,
         \/ enqueue(k) \/ RetryDue(k) \/ begin(k) \/ ReplayRelease(k)
         \/ recoverRetry(k) \/ recoverDiscard(k)
  PROVE  FleetInv'
<1>1. CASE enqueue(k)
  <2>1. /\ UNCHANGED <<sess, leases, disk, call, wire, conn, mishap, faults>>
        /\ UNCHANGED current /\ k \notin accepted
        /\ pending' = With(k, [attempts |-> 0, started |-> FALSE, wait |-> FALSE])
    BY <1>1 DEF enqueue, fleetVars
  <2>2. \A x \in DOMAIN pending : pending'[x] = pending[x]
    BY <2>1 DEF QueueInv, StoreOK, With
  <2>3. current' # NoRequest => pending'[current'].started
    BY <2>1, <2>2 DEF QueueInv, StoreOK, FleetInv, CallInv, CallsOwn
  <2>4. CallInv' BY <2>1, <2>3, QueueCalls DEF FleetInv
  <2> QED BY <2>1, <2>4 DEF FleetInv, FleetOK
<1>2. CASE RetryDue(k)
  <2>1. /\ UNCHANGED <<sess, leases, disk, call, wire, conn, mishap, faults>>
        /\ UNCHANGED current /\ k # current /\ pending' = [pending EXCEPT ![k].wait = FALSE]
    BY <1>2 DEF RetryDue, fleetVars
  <2>2. current' # NoRequest => pending'[current'].started
    BY <2>1 DEF QueueInv, StoreOK, FleetInv, CallInv, CallsOwn
  <2>3. CallInv' BY <2>1, <2>2, QueueCalls DEF FleetInv
  <2> QED BY <2>1, <2>3 DEF FleetInv, FleetOK
<1>3. CASE begin(k)
  <2>1. /\ current = NoRequest /\ k \in DOMAIN pending
        /\ UNCHANGED <<sess, call, wire, conn, mishap>>
    BY <1>3 DEF begin
  <2>2. \/ \E e : complete(k, e) \/ failed(k, e)
        \/ /\ pending' = With(k, [attempts |-> pending[k].attempts + 1, started |-> TRUE,
                                  wait |-> TRUE])
           /\ current' = k /\ UNCHANGED <<leases, disk, faults>>
    BY <1>3 DEF begin
  <2>3. QueueWrites(k) /\ (current' # NoRequest => pending'[current'].started)
    <3>1. CASE \E e : complete(k, e) \/ failed(k, e) BY <3>1, EndWrites
    <3>2. CASE /\ pending' = With(k, [attempts |-> pending[k].attempts + 1,
                                      started |-> TRUE, wait |-> TRUE])
               /\ current' = k /\ UNCHANGED <<leases, disk, faults>>
      BY <3>2 DEF With, QueueWrites
    <3> QED BY <2>2, <3>1, <3>2
  <2>4. call[Queue].pc = "idle" BY <2>1 DEF QueueInv, StoreOK
  <2>5. CallInv' BY <2>1, <2>3, <2>4, QueueCalls DEF FleetInv
  <2> QED BY <2>1, <2>3, <2>5, QueueFleet DEF FleetInv
<1>4. CASE ReplayRelease(k)
  <2>1. /\ UNCHANGED <<sess, call, wire, conn, mishap, current, pending>> /\ QueueWrites(k)
    BY <1>4 DEF ReplayRelease, Release, QueueWrites
  <2>2. CallInv' BY <2>1, QueueCalls DEF FleetInv, CallInv, CallsOwn
  <2> QED BY <2>1, <2>2, QueueFleet DEF FleetInv
<1>5. CASE recoverRetry(k)
  <2>1. /\ UNCHANGED <<sess, leases, disk, call, wire, conn, mishap, faults>>
        /\ UNCHANGED current /\ k \in deadLetters
        /\ pending' = With(k, [attempts |-> 0, started |-> TRUE, wait |-> FALSE])
    BY <1>5 DEF recoverRetry, fleetVars
  <2>2. \A x \in DOMAIN pending : pending'[x] = pending[x]
    BY <2>1 DEF QueueInv, StoreOK, With
  <2>3. current' # NoRequest => pending'[current'].started
    BY <2>1, <2>2 DEF QueueInv, StoreOK, FleetInv, CallInv, CallsOwn
  <2>4. CallInv' BY <2>1, <2>3, QueueCalls DEF FleetInv
  <2> QED BY <2>1, <2>4 DEF FleetInv, FleetOK
<1>6. CASE recoverDiscard(k)
  <2>1. /\ UNCHANGED <<sess, call, wire, conn, mishap, current, pending>> /\ QueueWrites(k)
    BY <1>6 DEF recoverDiscard, Release, QueueWrites
  <2>2. CallInv' BY <2>1, QueueCalls DEF FleetInv, CallInv, CallsOwn
  <2> QED BY <2>1, <2>2, QueueFleet DEF FleetInv
<1> QED BY <1>1, <1>2, <1>3, <1>4, <1>5, <1>6

(* dispatchGitLabEvent. *)
LEMMA IntakeInv ==
  ASSUME QueueInv, FleetInv, Quiet, NoAnswer, Intake
  PROVE  FleetInv'
<1>1. /\ current # NoRequest /\ call[Queue].pc = "idle" /\ current \in Keys
      /\ current \in Requests
  BY EventsAssumption DEF Intake, QueueInv, StoreOK
<1>2. ASSUME complete(current, pending[current]) \/ failed(current, pending[current]),
             UNCHANGED <<sess, call, wire, conn, mishap>>
      PROVE  FleetInv'
  <2>1. QueueWrites(current) /\ current' = NoRequest BY <1>2, EndWrites
  <2>2. CallInv' BY <1>1, <1>2, <2>1, QueueCalls DEF FleetInv
  <2> QED BY <1>1, <1>2, <2>1, <2>2, QueueFleet DEF FleetInv
<1>3. CASE startSession(Queue, current, TRUE) /\ UNCHANGED queueVars
  BY <1>1, <1>3, StartInv, EventsAssumption
<1> QED BY <1>2, <1>3 DEF Intake

(* The queue has the fleet's answer. *)
LEMMA AnsweredInv ==
  ASSUME QueueInv, FleetInv, Answered
  PROVE  FleetInv'
<1>1. current \in Keys BY DEF Answered, QueueInv, StoreOK
<1>2. /\ complete(current, pending[current]) \/ failed(current, pending[current])
      /\ UNCHANGED <<sess, wire, conn, mishap>> /\ call' = [call EXCEPT ![Queue] = Idle]
  BY DEF Answered
<1>3. QueueWrites(current) /\ current' = NoRequest BY <1>2, EndWrites
<1>4. FleetOK' BY <1>1, <1>2, <1>3, QueueFleet DEF FleetInv
<1>5. call'[Queue] = Idle /\ \A d \in Callers : d # Queue => call'[d] = call[d]
  BY <1>2, EventsAssumption DEF FleetInv, CallInv, CallsOK
<1>6. CallsOK' BY <1>2, <1>5, IdleFields, IdleOK DEF FleetInv, CallInv, CallsOK
<1>7. CallsOwn'
  BY <1>3, <1>5, IdleFields, EventsAssumption, FleetAssumption
     DEF FleetInv, CallInv, CallsOwn, Active
<1>8. Alone'
  <2>1. ~Asks(Queue)' BY <1>5, IdleFields DEF Asks, Active
  <2>2. \A d \in Callers : Asks(d)' => d # Queue /\ Asks(d) BY <1>5, <2>1 DEF Asks
  <2>3. \A d \in Callers : call'[d].pc = "write" => d # Queue /\ call[d].pc = "write"
    BY <1>5, IdleFields
  <2> QED BY <1>5, <2>2, <2>3, IdleFields DEF FleetInv, CallInv, Alone
<1> QED BY <1>4, <1>6, <1>7, <1>8 DEF FleetInv, CallInv

(* The invariant of the coordinator is kept by every step. *)
LEMMA FleetStepInv == QueueInv /\ FleetInv /\ [Next]_vars => FleetInv'
<1> SUFFICES ASSUME QueueInv, FleetInv, [Next]_vars PROVE FleetInv' OBVIOUS
<1>1. CASE Answered BY <1>1, AnsweredInv
<1>2. CASE ServerRestarts BY <1>2, RestartInv
<1>3. ASSUME NoAnswer, NEW c \in Callers, Quiet \/ call[c].pc = "write", CallStep(c),
             UNCHANGED queueVars
      PROVE  FleetInv'
  BY <1>3, CallInvariant
<1>4. CASE NoAnswer /\ Quiet /\ NodeStep /\ UNCHANGED queueVars BY <1>4, NodeInvariant
<1>5. CASE NoAnswer /\ Quiet /\ Others /\ UNCHANGED queueVars
  <2>1. PICK c \in Callers \ {Queue} :
          (\E r \in Requests \ Keys : startSession(c, r, FALSE)) \/ welcome(c)
    BY <1>5 DEF Others
  <2> QED BY <1>5, <2>1, StartInv, WelcomeInv
<1>6. ASSUME NEW k \in Keys, \/ enqueue(k) \/ RetryDue(k) \/ begin(k) \/ ReplayRelease(k)
                             \/ recoverRetry(k) \/ recoverDiscard(k)
      PROVE  FleetInv'
  BY <1>6, StoreInv
<1>7. CASE NoAnswer /\ Quiet /\ Intake BY <1>7, IntakeInv
<1>8. CASE UNCHANGED vars
  <2>1. UNCHANGED <<sess, leases, disk, call, wire, conn, mishap, faults, current, pending>>
    BY <1>8 DEF vars, fleetVars, queueVars
  <2>2. CallInv' BY <2>1, QueueCalls DEF FleetInv, CallInv, CallsOwn
  <2> QED BY <2>1, <2>2 DEF FleetInv, FleetOK
<1> QED BY <1>1, <1>2, <1>3, <1>4, <1>5, <1>6, <1>7, <1>8 DEF Next, NoAnswer

(* The coordinator at first. *)
LEMMA InitFleet == Init => FleetInv
<1> SUFFICES ASSUME Init PROVE FleetInv OBVIOUS
<1>1. \A s \in Sessions : sess[s] = [at |-> Local, req |-> NoRequest, st |-> "none"]
  BY DEF Init, FleetInit
<1>2. SessOK(sess) BY <1>1 DEF Init, FleetInit, SessOK, Nodes
<1>3. LeasesOK(leases, disk, sess) BY EmptyGood DEF Init, FleetInit, LeasesOK, DiskAhead
<1>4. FleetOK
  <2>1. wire = {} /\ conn = {} /\ mishap = FALSE /\ faults = 0 BY DEF Init, FleetInit
  <2>2. 0 \in 0..MaxFaults BY FleetAssumption
  <2> QED BY <1>2, <1>3, <2>1, <2>2 DEF FleetOK
<1>5. \A c \in Callers : call[c] = Idle BY DEF Init, FleetInit
<1>6. CallsOK BY <1>5, IdleFields, IdleOK DEF Init, FleetInit, CallsOK
<1>7. CallsOwn
  BY <1>5, IdleFields, EventsAssumption, FleetAssumption DEF Init, CallsOwn, Active
<1>8. Alone BY <1>5, IdleFields, EventsAssumption DEF Alone, Asks, Active
<1> QED BY <1>4, <1>6, <1>7, <1>8 DEF FleetInv, CallInv

(* The invariant of the coordinator holds throughout. *)
LEMMA FleetInvariant == Spec => [](QueueInv /\ FleetInv)
BY InitQueue, InitFleet, QueueStep, FleetStepInv, PTL DEF Spec

(* The types of the coordinator and of the store: a lease, in memory or in  *)
(* the file, names a session that was started, whatever failed.             *)
THEOREM EventsTyped == Spec => []TypeOK
<1>1. ASSUME QueueInv, FleetInv PROVE TypeOK
  <2>1. \A L \in {leases, disk} :
          /\ DOMAIN L \subseteq Requests
          /\ \A r \in DOMAIN L : L[r] \in Lease /\ sess[L[r].session].st # "none"
    BY <1>1, StoreShape DEF FleetInv, FleetOK, LeasesOK, Good, Used
  <2>2. \A s \in Sessions : /\ sess[s].at \in Nodes
                            /\ sess[s].req \in Requests \cup {NoRequest}
                            /\ sess[s].st \in {"none", "live", "ended", "gone"}
    BY <1>1 DEF FleetInv, FleetOK, SessOK
  <2>3. \A c \in Callers : call[c].pc \in Phases
    BY <1>1 DEF FleetInv, CallInv, CallsOK, CallRec
  <2>4. FleetTypeOK
    BY <1>1, <2>1, <2>2, <2>3 DEF FleetInv, FleetOK, FleetTypeOK, Phases
  <2> QED BY <1>1, <2>4 DEF QueueInv, TypeOK
<1> QED BY <1>1, FleetInvariant, PTL

-----------------------------------------------------------------------------
(* Writes keep a store sound *)

\* The store M is L after a write for the requests R, of the work w: other
\* leases keep their session, what becomes open is of that work, and no pinned
\* receipt is dropped.
Wrote(L, M, R, w) ==
  /\ \A x \in DOMAIN M : x \in R \/ (x \in DOMAIN L /\ M[x].session = L[x].session)
  /\ \A x \in Open(M) : x \in Open(L) \/ WorkOf[x] = w
  /\ \A x \in DOMAIN L : x \in DOMAIN M \/ ~L[x].retain

(* LeaseStore.upsert of a record that is over, or of the work w. *)
LEMMA UpsertWrote ==
  ASSUME NEW S, NEW L, Good(L, S), WorkOK(L, S), NEW R \in SUBSET Requests,
         NEW rec \in Lease, NEW w, rec.state \in Over \/ \A r \in R : WorkOf[r] = w,
         rec.state \in Over \/ WorkOf[S[rec.session].req] = w
  PROVE  Wrote(L, Upsert(L, R, rec), R, w)
<1> DEFINE M == Upsert(L, R, rec)
<1>1. L \in Stores BY DEF Good
<1>2. Upserted(L, M, R, rec) BY <1>1, UpsertShape
<1> HIDE DEF M
<1>3. \A x \in DOMAIN M : x \in R \/ (x \in DOMAIN L /\ M[x].session = L[x].session)
  BY <1>2 DEF Upserted
<1>4. \A x \in DOMAIN L : x \in DOMAIN M \/ ~L[x].retain BY <1>2 DEF Upserted
<1>5. ASSUME NEW x \in Open(M) PROVE x \in Open(L) \/ WorkOf[x] = w
  <2>1. x \in DOMAIN M /\ M[x].state \notin Over BY DEF Open
  <2>2. CASE x \in R
    <3>1. M[x] = rec BY <1>2, <2>2 DEF Upserted
    <3> QED BY <2>1, <2>2, <3>1
  <2>3. CASE x \notin R /\ L[x].session = rec.session
    <3>1. x \in DOMAIN L /\ M[x].state = rec.state BY <1>2, <2>1, <2>3 DEF Upserted
    <3> QED BY <2>1, <2>3, <3>1 DEF WorkOK
  <2>4. CASE x \notin R /\ L[x].session # rec.session
    BY <1>2, <2>1, <2>4 DEF Upserted, Open
  <2> QED BY <2>2, <2>3, <2>4
<1>6. Wrote(L, M, R, w) BY <1>3, <1>4, <1>5 DEF Wrote
<1> QED BY <1>6 DEF M

(* Two writes for the same work. *)
LEMMA WroteTwice ==
  ASSUME NEW L, NEW M, NEW N, NEW Q, NEW R, NEW w, Wrote(L, M, Q, w), Wrote(M, N, R, w),
         \A x \in DOMAIN L : x \in DOMAIN M => M[x].retain = L[x].retain \/ x \in Q \cap DOMAIN N
  PROVE  Wrote(L, N, Q \cup R, w)
<1>1. \A x \in DOMAIN N :
        x \in Q \cup R \/ (x \in DOMAIN L /\ N[x].session = L[x].session)
  BY DEF Wrote
<1>2. \A x \in Open(N) : x \in Open(L) \/ WorkOf[x] = w BY DEF Wrote
<1>3. \A x \in DOMAIN L : x \in DOMAIN N \/ ~L[x].retain BY DEF Wrote
<1> QED BY <1>1, <1>2, <1>3 DEF Wrote

\* A session keeps an open lease of a request that is not in R, or if it is s.
KeepsHeld(L, M, R, s) ==
  \A q \in Open(L) : (q \in R => L[q].session = s)
    => q \in DOMAIN M /\ Held(M, L[q].session)

(* A record is written again with its state. *)
LEMMA AgainHeld ==
  ASSUME NEW S, NEW L, Good(L, S), NEW R \in SUBSET Requests, NEW y \in DOMAIN L,
         NEW rec \in Lease, rec.session = L[y].session, rec.state = L[y].state
  PROVE  KeepsHeld(L, Upsert(L, R, rec), R, rec.session)
<1>1. L \in Stores BY DEF Good
<1>2. ASSUME NEW q \in Open(L), q \in R => L[q].session = rec.session
      PROVE  q \in DOMAIN Upsert(L, R, rec) /\ Held(Upsert(L, R, rec), L[q].session)
  <2>1. q \in DOMAIN L /\ L[q].state \notin Over BY DEF Open
  <2>2. rec.session = L[q].session => rec.state \notin Over BY <2>1 DEF Good
  <2>3. Held(Upsert(L, R, rec), L[q].session) BY <1>1, <1>2, <2>2, UpsertHeld
  <2>4. Upserted(L, Upsert(L, R, rec), R, rec) BY <1>1, UpsertShape
  <2>5. q \in DOMAIN Upsert(L, R, rec) BY <2>1, <2>4 DEF Upserted
  <2> QED BY <2>3, <2>5
<1> QED BY <1>2 DEF KeepsHeld

(* pinReceipt: what it pins is of the work of the session. *)
LEMMA PinnedSound ==
  ASSUME NEW S, NEW L, Good(L, S), WorkOK(L, S), NEW R \in SUBSET Requests, NEW s,
         Of(L, s) # {}, NEW w, WorkOf[S[s].req] = w, \A r \in R : WorkOf[r] = w
  PROVE  /\ WorkOK(Pinned(L, R, s), S)
         /\ Wrote(L, Pinned(L, R, s), R, w)
         /\ KeepsHeld(L, Pinned(L, R, s), R, s)
<1>1. L \in Stores BY DEF Good
<1>2. CASE Pinned(L, R, s) = L /\ R = {}
  <2>1. Wrote(L, L, R, w) BY DEF Wrote
  <2>2. KeepsHeld(L, L, R, s) BY DEF KeepsHeld, Held, Open
  <2> QED BY <1>2, <2>1, <2>2
<1>3. ASSUME NEW y \in Of(L, s), [L[y] EXCEPT !.retain = TRUE] \in Lease,
             Pinned(L, R, s) = Upsert(L, R, [L[y] EXCEPT !.retain = TRUE])
      PROVE  /\ WorkOK(Pinned(L, R, s), S)
             /\ Wrote(L, Pinned(L, R, s), R, w)
             /\ KeepsHeld(L, Pinned(L, R, s), R, s)
  <2> DEFINE rec == [L[y] EXCEPT !.retain = TRUE]
  <2>1. y \in DOMAIN L /\ L[y].session = s /\ L[y] \in Lease
    BY <1>1, <1>3, StoreShape DEF Of
  <2>2. /\ rec \in Lease /\ rec.session = L[y].session /\ rec.state = L[y].state
        /\ rec.work = L[y].work
    BY <2>1, RetainFields
  <2>3. rec.work = w /\ WorkOf[S[rec.session].req] = w /\ rec.session = s
    BY <2>1, <2>2 DEF WorkOK
  <2>4. Pinned(L, R, s) = Upsert(L, R, rec) BY <1>3
  <2> HIDE DEF rec
  <2>5. WorkOK(Upsert(L, R, rec), S) BY <1>1, <2>2, <2>3, UpsertWork
  <2>6. Wrote(L, Upsert(L, R, rec), R, w) BY <2>2, <2>3, UpsertWrote
  <2>7. KeepsHeld(L, Upsert(L, R, rec), R, rec.session)
    BY <2>1, <2>2, AgainHeld
  <2> QED BY <2>3, <2>4, <2>5, <2>6, <2>7
<1> QED BY <1>1, <1>2, <1>3, PinnedFacts

(* pinReceipt changes the receipts of the requests it pins. *)
LEMMA PinnedReceipts ==
  ASSUME NEW L \in Stores, NEW R \in SUBSET Requests, NEW s, Of(L, s) # {},
         NEW P, NEW D, NEW A, NEW C, ReceiptsOK(L, P, D, A, C),
         \A r \in R : ReceiptOK(r, TRUE, P, D, A, C)
  PROVE  ReceiptsOK(Pinned(L, R, s), P, D, A, C)
<1>1. ASSUME NEW y \in Of(L, s), [L[y] EXCEPT !.retain = TRUE] \in Lease,
             Pinned(L, R, s) = Upsert(L, R, [L[y] EXCEPT !.retain = TRUE])
      PROVE  ReceiptsOK(Pinned(L, R, s), P, D, A, C)
  <2> DEFINE rec == [L[y] EXCEPT !.retain = TRUE]
  <2>1. L[y] \in Lease BY <1>1, StoreShape DEF Of
  <2>2. rec \in Lease /\ rec.retain = TRUE BY <2>1, RetainFields
  <2>3. Pinned(L, R, s) = Upsert(L, R, rec) BY <1>1
  <2> HIDE DEF rec
  <2>4. \A r \in R : ReceiptOK(r, rec.retain, P, D, A, C) BY <2>2
  <2>5. ReceiptsOK(Upsert(L, R, rec), P, D, A, C) BY <2>2, <2>4, UpsertReceipts
  <2> QED BY <2>3, <2>5
<1> QED BY <1>1, PinnedFacts

\* The open lease rec of r is new in M, and the open leases of L stay.
Added(L, M, r, rec) ==
  /\ r \in Open(M) /\ M[r] = rec
  /\ \A q \in Open(L) : q \in Open(M) /\ M[q] = L[q]
  /\ \A x \in DOMAIN M : x = r \/ (x \in DOMAIN L /\ M[x].retain = L[x].retain)

(* recordLease of a started session, when no open lease is of its work. *)
LEMMA RecordSound ==
  ASSUME NEW S, NEW L, Good(L, S), WorkOK(L, S), NEW r \in Requests,
         \A q \in Open(L) : WorkOf[q] # WorkOf[r],
         NEW rec \in Lease, WorkOf[S[rec.session].req] = WorkOf[r],
         rec.work = WorkOf[r], rec.state = "running"
  PROVE  /\ WorkOK(Upsert(L, {r}, rec), S)
         /\ Wrote(L, Upsert(L, {r}, rec), {r}, WorkOf[r])
         /\ Added(L, Upsert(L, {r}, rec), r, rec)
<1> DEFINE M == Upsert(L, {r}, rec)
<1>1. L \in Stores BY DEF Good
<1>2. Upserted(L, M, {r}, rec) BY <1>1, UpsertShape
<1>3. WorkOK(M, S) BY <1>1, UpsertWork
<1>4. Wrote(L, M, {r}, WorkOf[r]) BY UpsertWrote
<1> HIDE DEF M
<1>5. r \in DOMAIN M /\ M[r] = rec BY <1>2 DEF Upserted
<1>6. r \in Open(M) BY <1>5 DEF Open, Over
<1>7. ASSUME NEW q \in Open(L) PROVE q \in Open(M) /\ M[q] = L[q]
  <2>1. q \in DOMAIN L /\ L[q].state \notin Over /\ WorkOf[q] # WorkOf[r] BY DEF Open
  <2>2. WorkOf[S[L[q].session].req] = WorkOf[q] BY <2>1 DEF WorkOK
  <2>3. q # r /\ L[q].session # rec.session BY <2>1, <2>2
  <2>4. q \in DOMAIN M /\ M[q] = L[q] BY <1>2, <2>1, <2>3 DEF Upserted
  <2> QED BY <2>1, <2>4 DEF Open
<1>8. \A x \in DOMAIN M : x = r \/ (x \in DOMAIN L /\ M[x].retain = L[x].retain)
  BY <1>2 DEF Upserted
<1>9. Added(L, M, r, rec) BY <1>5, <1>6, <1>7, <1>8 DEF Added
<1> QED BY <1>3, <1>4, <1>9 DEF M

\* The lease rec of request r can be recorded in L with the receipts R.
Recordable(S, L, r, R, rec) ==
  /\ Good(L, S) /\ WorkOK(L, S) /\ r \in Requests /\ R \subseteq Requests
  /\ \A q \in R : WorkOf[q] = WorkOf[r]
  /\ \A q \in Open(L) : WorkOf[q] # WorkOf[r]
  /\ rec \in Lease /\ Used(S, rec.session) /\ WorkOf[S[rec.session].req] = WorkOf[r]
  /\ rec.work = WorkOf[r] /\ rec.state = "running"

\* ... and then M is the store.
Recorded(S, L, M, r, R, rec) ==
  /\ WorkOK(M, S)
  /\ Wrote(L, M, {r} \cup R, WorkOf[r])
  /\ Held(M, rec.session) /\ \A t : Held(L, t) => Held(M, t)

(* recordLease and the pins of those who joined. *)
LEMMA RecordedSound ==
  ASSUME NEW S, NEW L, NEW r, NEW R, NEW rec, Recordable(S, L, r, R, rec),
         NEW M, M = Pinned(Upsert(L, {r}, rec), R, rec.session)
  PROVE  Recorded(S, L, M, r, R, rec)
<1>0. /\ Good(L, S) /\ WorkOK(L, S) /\ r \in Requests /\ R \in SUBSET Requests
      /\ \A q \in R : WorkOf[q] = WorkOf[r]
      /\ \A q \in Open(L) : WorkOf[q] # WorkOf[r]
      /\ rec \in Lease /\ Used(S, rec.session) /\ WorkOf[S[rec.session].req] = WorkOf[r]
      /\ rec.work = WorkOf[r] /\ rec.state = "running"
  BY DEF Recordable
<1> DEFINE N == Upsert(L, {r}, rec)
<1>1. WorkOK(N, S) /\ Wrote(L, N, {r}, WorkOf[r]) BY <1>0, RecordSound
<1>2. Added(L, N, r, rec) BY <1>0, RecordSound
<1>3. Good(N, S) BY <1>0, UpsertGood
<1> HIDE DEF N
<1>4. r \in Open(N) /\ N[r] = rec BY <1>2 DEF Added
<1>5. r \in Of(N, rec.session) BY <1>4 DEF Of, Open
<1>6. M = Pinned(N, R, rec.session) BY DEF N
<1>7. WorkOK(M, S) /\ Wrote(N, M, R, WorkOf[r]) /\ KeepsHeld(N, M, R, rec.session)
  BY <1>0, <1>1, <1>3, <1>5, <1>6, PinnedSound
<1>8. Held(M, rec.session) /\ r \in DOMAIN M BY <1>4, <1>7 DEF KeepsHeld
<1>9. ASSUME NEW t, Held(L, t) PROVE Held(M, t)
  <2>1. PICK q \in Open(L) : L[q].session = t BY <1>9 DEF Held
  <2>2. q \in Open(N) /\ N[q].session = t /\ q \notin R BY <1>0, <1>2, <2>1 DEF Added
  <2> QED BY <1>7, <2>2 DEF KeepsHeld
<1>10. \A x \in DOMAIN L : x \in DOMAIN N => N[x].retain = L[x].retain \/ x \in {r} \cap DOMAIN M
  BY <1>2, <1>8 DEF Added
<1>11. Wrote(L, M, {r} \cup R, WorkOf[r]) BY <1>1, <1>7, <1>10, WroteTwice
<1> QED BY <1>7, <1>8, <1>9, <1>11 DEF Recorded

-----------------------------------------------------------------------------
(* What the coordinator promises while it has not lost sight of a session *)

\* A store is of the right works and receipts.
Soundly(L) ==
  WorkOK(L, sess) /\ ReceiptsOK(L, pending, deadLetters, acknowledged, accepted)

\* The answer of a start is of the work that was asked for.
AnswerOK ==
  \A c \in Callers : call[c].session # None =>
    WorkOf[sess[call[c].session].req] = WorkOf[call[c].req]

\* A start is asked for only when no open lease is of its work.
Asked(c) == call[c].pc \in {"select", "sent"}
StartFree ==
  \A c \in Callers : Asked(c) => \A r \in Open(leases) : WorkOf[r] # WorkOf[call[c].req]

\* A message under way is that of a call that waits for its answer.
Waits(c, m) ==
  /\ call[c].pc = "sent" /\ call[c].req = m.req /\ call[c].at = m.at
  /\ call[c].session = None
WireOK == \A m \in wire : \E c \in Callers : Waits(c, m)

\* The coordinator knows every session that runs.
Answers(c, s) == call[c].pc = "sent" /\ call[c].session = s
Tracked ==
  \A s \in Sessions : Live(s) => Held(leases, s) \/ \E c \in Callers : Answers(c, s)

\* The session of an earlier attempt at the current event is gone.
CurrentGone(L) ==
  current \in DOMAIN L /\ call[Queue].pc # "done" => sess[L[current].session].st = "gone"

\* What a call in its turn of writes has still to write agrees with the leases.
Turn(T) ==
  /\ Soundly(T) /\ CurrentGone(T)
  /\ \A r \in DOMAIN T : r \in DOMAIN leases => leases[r].session = T[r].session
  /\ \A r \in DOMAIN T : \A d \in Callers : Asked(d) => WorkOf[r] # WorkOf[call[d].req]
TurnOK == \A c \in Callers : call[c].pc = "write" => Turn(call[c].todo)

Single ==
  \A s, t \in Sessions :
    Live(s) /\ Live(t) /\ WorkOf[sess[s].req] = WorkOf[sess[t].req] => s = t

Settled ==
  \A k \in accepted \ (DOMAIN pending \cup deadLetters) :
    \/ k \in refused
    \/ \E s \in Sessions : sess[s].st # "none" /\ WorkOf[sess[s].req] = WorkOf[k]

Sound ==
  /\ Soundly(leases) /\ Soundly(disk)
  /\ AnswerOK /\ StartFree /\ WireOK /\ Tracked
  /\ CurrentGone(leases) /\ TurnOK /\ Single /\ Settled

Inv == QueueInv /\ FleetInv /\ Sound

(* The file has what the memory has. *)
LEMMA FileSound ==
  ASSUME NEW M, Save(M), WorkOK(disk, sess'), WorkOK(M, sess'),
         ReceiptsOK(disk, pending', deadLetters', acknowledged', accepted'),
         ReceiptsOK(M, pending', deadLetters', acknowledged', accepted')
  PROVE  Soundly(leases)' /\ Soundly(disk)'
<1>1. CASE M = leases BY <1>1 DEF Save, Soundly
<1>2. CASE M # leases BY <1>2 DEF Save, Soundly
<1> QED BY <1>1, <1>2

(* What a session has become does not unsettle an event. *)
LEMMA SettledKept ==
  ASSUME Settled, Evolves(sess, sess'), UNCHANGED <<pending, deadLetters, accepted, refused>>
  PROVE  Settled'
<1>1. \A s \in Sessions : sess[s].st # "none" => sess'[s].st # "none" /\ sess'[s].req = sess[s].req
  BY DEF Evolves
<1> QED BY <1>1 DEF Settled

(* Sessions that are started stay what they are, so do the facts that only  *)
(* name started sessions.                                                   *)
LEMMA EvolveSound ==
  ASSUME FleetInv, Sound, Evolves(sess, sess'), UNCHANGED queueVars
  PROVE  /\ WorkOK(leases, sess') /\ WorkOK(disk, sess') /\ Settled'
         /\ \A r \in DOMAIN leases : sess[leases[r].session].st = "gone"
                                       => sess'[leases[r].session].st = "gone"
         /\ \A c \in Callers : call[c].session # None =>
              WorkOf[sess'[call[c].session].req] = WorkOf[call[c].req]
<1>1. WorkOK(leases, sess') /\ WorkOK(disk, sess')
  BY EvolveOK DEF FleetInv, FleetOK, LeasesOK, Sound, Soundly
<1>2. Settled' BY SettledKept DEF Sound, queueVars
<1>3. \A r \in DOMAIN leases : Used(sess, leases[r].session)
  BY DEF FleetInv, FleetOK, LeasesOK, Good
<1>4. \A r \in DOMAIN leases : sess[leases[r].session].st = "gone"
                                 => sess'[leases[r].session].st = "gone"
  BY <1>3 DEF Used, Evolves
<1>5. ASSUME NEW c \in Callers, call[c].session # None
      PROVE  WorkOf[sess'[call[c].session].req] = WorkOf[call[c].req]
  <2>1. Used(sess, call[c].session) BY <1>5 DEF FleetInv, CallInv, CallsOK, CallOK
  <2>2. sess'[call[c].session].req = sess[call[c].session].req BY <2>1 DEF Used, Evolves
  <2> QED BY <1>5, <2>2 DEF Sound, AnswerOK
<1> QED BY <1>1, <1>2, <1>4, <1>5

(* No session comes to life, so no second one of a work. *)
LEMMA SingleKept ==
  ASSUME Single, Evolves(sess, sess'),
         \A s \in Sessions : sess'[s].st = "live" => sess[s].st = "live"
  PROVE  Single'
<1>1. \A s \in Sessions : sess'[s].st = "live" => sess'[s].req = sess[s].req
  BY DEF Evolves
<1> QED BY <1>1 DEF Single, Live

(* A call begins, or its turn of writes does: what it has to write is what  *)
(* the leases are.                                                          *)
LEMMA BeginsSound ==
  ASSUME Inv, NoAnswer, Quiet, UNCHANGED queueVars, FleetInv', NEW c \in Callers,
         UNCHANGED <<sess, leases, disk, wire>>,
         \A d \in Callers : d # c => call'[d] = call[d],
         call[c].pc \in {"idle", "probe"}, call'[c].pc \in {"joined", "probe", "write"},
         call'[c].pc = "write" => \A r \in DOMAIN call'[c].todo :
           r \in Open(leases) /\ call'[c].todo[r] = leases[r]
  PROVE  Sound'
<1>1. UNCHANGED <<pending, deadLetters, acknowledged, accepted, current, refused>>
  BY DEF queueVars
<1>2. Sound /\ FleetInv /\ QueueInv BY DEF Inv
<1>3. call[c].session = None /\ call'[c].session = None
  BY <1>2 DEF FleetInv, CallInv, CallsOK, CallOK
<1>4. \A d \in Callers : Asked(d)' => d # c /\ Asked(d) BY DEF Asked
<1>5. Soundly(leases)' /\ Soundly(disk)' BY <1>1, <1>2 DEF Sound, Soundly
<1>6. AnswerOK' BY <1>2, <1>3 DEF Sound, AnswerOK
<1>7. StartFree' BY <1>2, <1>4 DEF Sound, StartFree
<1>8. WireOK'
  <2>1. \A d \in Callers, m \in wire : Waits(d, m) => d # c /\ Waits(d, m)' BY DEF Waits
  <2> QED BY <1>2, <2>1 DEF Sound, WireOK
<1>9. Tracked'
  <2>1. \A d \in Callers, s \in Sessions : Answers(d, s) => d # c /\ Answers(d, s)' BY DEF Answers
  <2> QED BY <1>2, <2>1 DEF Sound, Tracked, Live
<1>10. current \in DOMAIN leases => sess[leases[current].session].st = "gone"
  BY <1>2 DEF Sound, CurrentGone, NoAnswer
<1>11. CurrentGone(leases)' BY <1>1, <1>10 DEF CurrentGone
<1>12. Single' /\ Settled' BY <1>1, <1>2 DEF Sound, Single, Settled, Live
<1>13. TurnOK'
  <2>1. SUFFICES ASSUME call'[c].pc = "write" PROVE Turn(call[c].todo)'
    BY DEF TurnOK, Quiet
  <2> DEFINE T == call'[c].todo
  <2>2. T \in Stores BY DEF FleetInv, CallInv, CallsOK, CallOK, Good
  <2>3. \A r \in DOMAIN T : r \in Open(leases) /\ T[r] = leases[r] BY <2>1
  <2> HIDE DEF T
  <2>4. \A r \in DOMAIN T : r \in DOMAIN leases BY <2>3 DEF Open
  <2>5. WorkOK(T, sess') /\ ReceiptsOK(T, pending', deadLetters', acknowledged', accepted')
    BY <1>1, <1>5, <2>3, <2>4 DEF Soundly, WorkOK, ReceiptsOK
  <2>6. current' \in DOMAIN T => sess'[T[current'].session].st = "gone"
    BY <1>1, <1>10, <2>3, <2>4
  <2>7. \A r \in DOMAIN T : \A d \in Callers : Asked(d)' => WorkOf[r] # WorkOf[call'[d].req]
    BY <1>7, <2>3 DEF StartFree
  <2>8. \A r \in DOMAIN T : r \in DOMAIN leases' => leases'[r].session = T[r].session
    BY <2>3
  <2> USE DEF T
  <2>9. Soundly(call[c].todo)' BY <2>5 DEF Soundly
  <2>10. CurrentGone(call[c].todo)' BY <2>6 DEF CurrentGone
  <2> QED BY <2>7, <2>8, <2>9, <2>10 DEF Turn
<1> QED BY <1>5, <1>6, <1>7, <1>8, <1>9, <1>11, <1>12, <1>13 DEF Sound

(* startSession and sendWelcomeMessage. *)
LEMMA StartSound ==
  ASSUME Inv, NoAnswer, Quiet, UNCHANGED queueVars, FleetInv', NEW c \in Callers,
         (\E r \in Requests, b \in BOOLEAN : startSession(c, r, b)) \/ welcome(c)
  PROVE  Sound'
<1>1. call[c].pc = "idle" BY DEF startSession, welcome
<1>2. call \in [Callers -> CallRec] BY DEF Inv, FleetInv, CallInv, CallsOK
<1>3. ASSUME NEW r \in Requests, NEW b \in BOOLEAN,
             call' = [call EXCEPT ![c] = [Idle EXCEPT !.pc = "joined", !.req = r, !.retain = b]],
             UNCHANGED <<sess, leases, disk, wire, conn, mishap, faults>>
      PROVE  Sound'
  <2>1. call'[c].pc = "joined" /\ \A d \in Callers : d # c => call'[d] = call[d]
    BY <1>2, <1>3 DEF Idle
  <2> QED BY <1>1, <1>3, <2>1, BeginsSound
<1>4. ASSUME NEW x \in CallRec, x.todo = Snapshot, Reconciles(c, x) PROVE Sound'
  <2> DEFINE y == [x EXCEPT !.pc = IF Probes(x) = {} THEN "write" ELSE "probe"]
  <2>1. y.pc \in {"probe", "write"} /\ y.todo = Snapshot BY <1>4 DEF CallRec
  <2>2. call' = [call EXCEPT ![c] = y] /\ UNCHANGED <<sess, leases, disk, wire>>
    BY <1>4 DEF Reconciles
  <2> HIDE DEF y
  <2>3. call'[c] = y /\ \A d \in Callers : d # c => call'[d] = call[d] BY <1>2, <2>2
  <2>4. \A r \in DOMAIN Snapshot : r \in Open(leases) /\ Snapshot[r] = leases[r]
    BY DEF Snapshot
  <2> QED BY <1>1, <2>1, <2>2, <2>3, <2>4, BeginsSound
<1>5. Snapshot \in Stores BY SnapshotFacts DEF Inv, FleetInv, FleetOK, LeasesOK, Good
<1>6. ASSUME NEW r \in Requests, NEW b \in BOOLEAN, startSession(c, r, b) PROVE Sound'
  <2>1. CASE Reconciles(c, [Idle EXCEPT !.req = r, !.retain = b, !.todo = Snapshot])
    <3> DEFINE x == [Idle EXCEPT !.req = r, !.retain = b, !.todo = Snapshot]
    <3>1. x \in CallRec /\ x.todo = Snapshot BY <1>5, IdleFields DEF CallRec
    <3> QED BY <1>4, <2>1, <3>1
  <2> QED BY <1>3, <1>6, <2>1 DEF startSession
<1>7. CASE welcome(c)
  <2> DEFINE x == [Idle EXCEPT !.todo = Snapshot]
  <2>1. x \in CallRec /\ x.todo = Snapshot BY <1>5, IdleFields DEF CallRec
  <2> QED BY <1>4, <1>7, <2>1 DEF welcome
<1> QED BY <1>6, <1>7

(* The probes are answered, and no lease that was read has changed. *)
LEMMA ProbedSound ==
  ASSUME Inv, NoAnswer, Quiet, UNCHANGED queueVars, FleetInv', ~mishap', NEW c \in Callers,
         Probed(c)
  PROVE  Sound'
<1>1. call[c].pc = "probe" /\ ~Stale(call[c].todo) /\ UNCHANGED <<sess, leases, disk, wire>>
  BY DEF Probed
<1>2. /\ call'[c].pc = "write" /\ call'[c].todo = call[c].todo
      /\ \A d \in Callers : d # c => call'[d] = call[d]
  BY DEF Probed, Inv, FleetInv, CallInv, CallsOK, CallRec
<1>3. \A r \in DOMAIN call[c].todo : r \in DOMAIN leases /\ call[c].todo[r] = leases[r]
  BY <1>1 DEF Stale
<1>4. \A r \in DOMAIN call[c].todo : call[c].todo[r].state \notin Over
  BY DEF Inv, FleetInv, CallInv, CallsOK, CallOK
<1>5. \A r \in DOMAIN call[c].todo : r \in Open(leases) BY <1>3, <1>4 DEF Open
<1> QED BY <1>1, <1>2, <1>3, <1>5, BeginsSound

(* A lease that was read is written: it is still that of the same session.  *)
LEMMA WritesSound ==
  ASSUME Inv, NoAnswer, UNCHANGED queueVars, NEW c \in Callers, call[c].pc = "write",
         NEW r \in DOMAIN call[c].todo, UNCHANGED <<sess, wire>>,
         Save(Upsert(leases, {r}, Reconciled(call[c].todo[r], call[c].seen))),
         call' = [call EXCEPT ![c].todo = Dropped(@, {r})]
  PROVE  Sound'
<1> DEFINE T == call[c].todo
           rec == Reconciled(T[r], call[c].seen)
           M == Upsert(leases, {r}, rec)
<1>1. Sound /\ FleetInv /\ QueueInv BY DEF Inv
<1>2. UNCHANGED <<pending, deadLetters, acknowledged, accepted, current, refused>>
  BY DEF queueVars
<1>3. /\ Turn(T) /\ Good(T, sess) /\ T \in Stores
  BY <1>1 DEF Sound, TurnOK, FleetInv, CallInv, CallsOK, CallOK, Good
<1>4. /\ leases \in Stores /\ Good(leases, sess) /\ WorkOK(leases, sess)
      /\ ReceiptsOK(leases, pending, deadLetters, acknowledged, accepted)
  BY <1>1 DEF FleetInv, FleetOK, LeasesOK, Good, Sound, Soundly
<1>5. r \in Requests /\ T[r] \in Lease /\ r \in DOMAIN T BY <1>3, StoreShape
<1>6. /\ rec \in Lease /\ rec.session = T[r].session /\ rec.work = T[r].work
      /\ rec.retain = T[r].retain
      /\ sess[rec.session].st = "live" => rec.state \notin Over
  BY <1>5, ReconciledFacts
<1> HIDE DEF rec
<1>7. /\ rec.work = WorkOf[r] /\ WorkOf[sess[rec.session].req] = WorkOf[r]
      /\ ReceiptOK(r, rec.retain, pending, deadLetters, acknowledged, accepted)
  BY <1>3, <1>5, <1>6 DEF Turn, Soundly, WorkOK, ReceiptsOK
<1>8. WorkOK(M, sess) BY <1>4, <1>5, <1>6, <1>7, UpsertWork
<1>9. ReceiptsOK(M, pending, deadLetters, acknowledged, accepted)
  BY <1>4, <1>5, <1>6, <1>7, UpsertReceipts
<1>10. Wrote(leases, M, {r}, WorkOf[r]) BY <1>4, <1>5, <1>6, <1>7, UpsertWrote
<1>11. Upserted(leases, M, {r}, rec) BY <1>4, <1>5, <1>6, UpsertShape
<1>12. ASSUME NEW s, Held(leases, s), sess[s].st = "live" PROVE Held(M, s)
  <2>1. PICK q \in Open(leases) : leases[q].session = s BY <1>12 DEF Held
  <2>2. q = r => rec.session = s BY <1>3, <1>5, <1>6, <2>1 DEF Turn, Open
  <2>3. rec.session = s => rec.state \notin Over BY <1>6, <1>12
  <2>4. {r} \in SUBSET Requests BY <1>5
  <2>5. leases \in Stores /\ rec \in Lease BY <1>4, <1>6
  <2>6. q \in {r} => rec.session = s BY <2>2
  <2> HIDE DEF rec
  <2> QED BY <2>1, <2>3, <2>4, <2>5, <2>6, UpsertHeld
<1>13. Save(M) BY DEF rec
<1> HIDE DEF M
<1>14. leases' = M BY <1>13 DEF Save
<1>15. Soundly(leases)' /\ Soundly(disk)'
  BY <1>1, <1>2, <1>8, <1>9, <1>13, FileSound DEF Sound, Soundly
<1>16. /\ \A d \in Callers : /\ call'[d].pc = call[d].pc /\ call'[d].req = call[d].req
                             /\ call'[d].at = call[d].at /\ call'[d].session = call[d].session
       /\ call'[c].todo = Dropped(T, {r})
  BY <1>1 DEF FleetInv, CallInv, CallsOK, CallRec
<1>17. AnswerOK' BY <1>1, <1>16 DEF Sound, AnswerOK
<1>18. \A d \in Callers : Asked(d)' <=> Asked(d) BY <1>16 DEF Asked
<1>19. StartFree'
  <2>1. \A d \in Callers : Asked(d) => WorkOf[r] # WorkOf[call[d].req]
    BY <1>3, <1>5 DEF Turn
  <2>2. \A x \in Open(M) : x \in Open(leases) \/ WorkOf[x] = WorkOf[r] BY <1>10 DEF Wrote
  <2> QED BY <1>1, <1>14, <1>16, <1>18, <2>1, <2>2 DEF Sound, StartFree
<1>20. WireOK' BY <1>1, <1>16 DEF Sound, WireOK, Waits
<1>21. Tracked' BY <1>1, <1>12, <1>14, <1>16 DEF Sound, Tracked, Live, Answers
<1>22. call'[Queue].pc = call[Queue].pc BY <1>16, EventsAssumption
<1>23. CurrentGone(leases)'
  <2>1. SUFFICES ASSUME current \in DOMAIN M, call[Queue].pc # "done"
                 PROVE  sess[M[current].session].st = "gone"
    BY <1>2, <1>14, <1>22 DEF CurrentGone
  <2>2. CASE current = r
    <3>1. M[r] = rec BY <1>11 DEF Upserted
    <3> QED BY <1>3, <1>5, <1>6, <2>1, <2>2, <3>1 DEF Turn, CurrentGone
  <2>3. CASE current # r
    <3>1. current \in DOMAIN leases /\ M[current].session = leases[current].session
      BY <1>10, <2>1, <2>3 DEF Wrote
    <3> QED BY <1>1, <2>1, <3>1 DEF Sound, CurrentGone
  <2> QED BY <2>2, <2>3
<1>24. TurnOK'
  <2> DEFINE N == Dropped(T, {r})
  <2>1. N \in Stores /\ DOMAIN N = DOMAIN T \ {r} /\ \A x \in DOMAIN N : N[x] = T[x]
    <3>1. Removed(T, N, {r}) BY <1>3, DropShape
    <3> HIDE DEF N
    <3> QED BY <3>1 DEF Removed
  <2> HIDE DEF N
  <2>2. Soundly(N)
    <3>1. WorkOK(N, sess) BY <1>3, <2>1 DEF Turn, Soundly, WorkOK
    <3>2. ReceiptsOK(N, pending, deadLetters, acknowledged, accepted)
      BY <1>3, <2>1 DEF Turn, Soundly, ReceiptsOK
    <3> QED BY <3>1, <3>2 DEF Soundly
  <2>3. CurrentGone(N) BY <1>3, <2>1 DEF Turn, CurrentGone
  <2>4. ASSUME NEW x \in DOMAIN N, x \in DOMAIN M PROVE M[x].session = N[x].session
    <3>1. x # r /\ x \in DOMAIN T /\ N[x] = T[x] BY <2>1, <2>4
    <3>2. x \in DOMAIN leases /\ M[x].session = leases[x].session
      BY <1>10, <2>4, <3>1 DEF Wrote
    <3> QED BY <1>3, <3>1, <3>2 DEF Turn
  <2>5. \A x \in DOMAIN N : \A d \in Callers : Asked(d)' => WorkOf[x] # WorkOf[call'[d].req]
    BY <1>3, <1>16, <1>18, <2>1 DEF Turn
  <2>6. call'[c].todo = N BY <1>16 DEF N
  <2>7. Soundly(call[c].todo)' BY <1>2, <2>2, <2>6 DEF Soundly
  <2>8. CurrentGone(call[c].todo)' BY <1>2, <1>22, <2>3, <2>6 DEF CurrentGone
  <2>9. Turn(call[c].todo)' BY <1>14, <2>4, <2>5, <2>6, <2>7, <2>8 DEF Turn
  <2>10. \A d \in Callers : call'[d].pc = "write" => d = c
    BY <1>1, <1>16 DEF FleetInv, CallInv, Alone
  <2> QED BY <2>9, <2>10 DEF TurnOK
<1>25. Single' /\ Settled' BY <1>1, <1>2 DEF Sound, Single, Settled, Live
<1> QED BY <1>15, <1>17, <1>19, <1>20, <1>21, <1>23, <1>24, <1>25 DEF Sound
\* The call of c and some that joined it are over, the others as they were.
Ended(c) ==
  \A d \in Callers :
    \/ d # c /\ call'[d] = call[d]
    \/ /\ d = c \/ call[d].pc = "joined"
       /\ call'[d].pc \in {"idle", "done", "failed"}

(* What the end of a call leaves of the other calls. *)
LEMMA EndedFacts ==
  ASSUME Inv, NEW c \in Callers, Ended(c), Quiet \/ call[c].pc = "write"
  PROVE  /\ \A d \in Callers : Asked(d)' => d # c /\ call'[d] = call[d]
         /\ \A d \in Callers : \A m : d # c /\ Waits(d, m) => Waits(d, m)'
         /\ \A d \in Callers : \A s : d # c /\ Answers(d, s) => Answers(d, s)'
         /\ TurnOK'
<1>1. \A d \in Callers : Asked(d)' => d # c /\ call'[d] = call[d] BY DEF Ended, Asked
<1>2. \A d \in Callers : \A m : d # c /\ Waits(d, m) => Waits(d, m)' BY DEF Ended, Waits
<1>3. \A d \in Callers : \A s : d # c /\ Answers(d, s) => Answers(d, s)'
  BY DEF Ended, Answers
<1>4. \A d \in Callers : call'[d].pc # "write"
  BY DEF Ended, Inv, FleetInv, CallInv, Alone, Quiet
<1> QED BY <1>1, <1>2, <1>3, <1>4 DEF TurnOK

(* A call that fails leaves no answer. *)
LEMMA FailsShape ==
  ASSUME FleetInv, NEW c \in Callers, Fails(c, call[c])
  PROVE  /\ Ended(c)
         /\ \A d \in Callers : call'[d].session # None => call'[d] = call[d]
         /\ call'[Queue].pc = "done" => call[Queue].pc = "done"
<1>1. \A d \in Callers : CallOK(call[d], sess) BY DEF FleetInv, CallInv, CallsOK
<1>2. \A d \in Callers : call'[d] = IF d = c \/ d \in Joined(c) THEN Failed(call[d]) ELSE call[d]
  BY DEF Fails
<1>3. \A x : Failed(x).pc \in {"idle", "failed"} /\ Failed(x).session = None
  BY DEF Failed, Idle
<1>4. \A d \in Callers : \/ d # c /\ call'[d] = call[d]
                         \/ /\ d = c \/ call[d].pc = "joined"
                            /\ call'[d].pc \in {"idle", "failed"} /\ call'[d].session = None
  BY <1>1, <1>2, <1>3, JoinedShape DEF FleetInv
<1> QED BY <1>4, EventsAssumption DEF Ended

(* A call fails that left no session and no message behind. *)
LEMMA FailsSound ==
  ASSUME Inv, NoAnswer, UNCHANGED queueVars, UNCHANGED <<sess, wire>>, NEW c \in Callers,
         Quiet \/ call[c].pc = "write", Fails(c, call[c]),
         Soundly(leases)', Soundly(disk)',
         \A x \in DOMAIN leases' : x \in DOMAIN leases /\ leases'[x] = leases[x],
         \A x \in Open(leases) : x \in DOMAIN leases',
         \A m \in wire : ~Waits(c, m), \A s \in Sessions : ~Answers(c, s)
  PROVE  Sound'
<1>1. Sound /\ FleetInv /\ QueueInv BY DEF Inv
<1>2. UNCHANGED <<pending, deadLetters, acknowledged, accepted, current, refused>>
  BY DEF queueVars
<1>3. /\ Ended(c) /\ \A d \in Callers : call'[d].session # None => call'[d] = call[d]
      /\ call'[Queue].pc = "done" => call[Queue].pc = "done"
  BY <1>1, FailsShape
<1>4. /\ \A d \in Callers : Asked(d)' => d # c /\ call'[d] = call[d]
      /\ \A d \in Callers : \A m : d # c /\ Waits(d, m) => Waits(d, m)'
      /\ \A d \in Callers : \A s : d # c /\ Answers(d, s) => Answers(d, s)'
      /\ TurnOK'
  BY <1>3, EndedFacts
<1>5. AnswerOK' BY <1>1, <1>3 DEF Sound, AnswerOK
<1>6. \A x \in Open(leases') : x \in Open(leases) BY DEF Open
<1>7. StartFree' BY <1>1, <1>4, <1>6 DEF Sound, StartFree, Asked
<1>8. WireOK' BY <1>1, <1>4 DEF Sound, WireOK
<1>9. \A s : Held(leases, s) => Held(leases, s)' BY DEF Held, Open
<1>10. Tracked' BY <1>1, <1>4, <1>9 DEF Sound, Tracked, Live
<1>11. CurrentGone(leases)' BY <1>1, <1>2, <1>3 DEF Sound, CurrentGone, NoAnswer
<1>12. Single' /\ Settled' BY <1>1, <1>2 DEF Sound, Single, Settled, Live
<1> QED BY <1>4, <1>5, <1>7, <1>8, <1>10, <1>11, <1>12 DEF Sound

(* A lease that was read is written, or the file cannot be. *)
LEMMA ReconcileLeaseSound ==
  ASSUME Inv, NoAnswer, UNCHANGED queueVars, NEW c \in Callers, ReconcileLease(c)
  PROVE  Sound'
<1>1. call[c].pc = "write" /\ UNCHANGED <<sess, wire>> BY DEF ReconcileLease
<1>2. CASE Fails(c, call[c]) /\ UNCHANGED <<leases, disk>>
  <2>1. Soundly(leases)' /\ Soundly(disk)' BY <1>1, <1>2 DEF Inv, Sound, Soundly, queueVars
  <2>2. /\ \A m : ~Waits(c, m) /\ \A s : ~Answers(c, s) BY <1>1 DEF Waits, Answers
  <2>3. \A x \in Open(leases) : x \in DOMAIN leases' BY <1>2 DEF Open
  <2> QED BY <1>1, <1>2, <2>1, <2>2, <2>3, FailsSound
<1> QED BY <1>1, <1>2, WritesSound DEF ReconcileLease

(* The receipts that are pinned with an answer: the current event's, whose  *)
(* call is then done.                                                       *)
LEMMA ReceiptsOwn ==
  ASSUME QueueInv, FleetInv, NEW c \in Callers, call[c].pc \in Active,
         NEW r \in Receipts({call[c]} \cup JoinedCalls(c))
  PROVE  /\ r = current /\ r \in Keys /\ WorkOf[r] = WorkOf[call[c].req]
         /\ Queue = c \/ Queue \in Joined(c)
         /\ ReceiptOK(r, TRUE, pending, deadLetters, acknowledged, accepted)
<1>1. PICK d \in Callers : /\ d = c \/ d \in Joined(c)
                           /\ call[d].retain /\ call[d].req = r
  BY JoinedShape DEF Receipts, JoinedCalls, FleetInv
<1>2. d = Queue BY <1>1 DEF FleetInv, CallInv, CallsOwn
<1>3. call[d].pc # "idle" /\ WorkOf[r] = WorkOf[call[c].req]
  BY <1>1, JoinedShape DEF FleetInv, Active
<1>4. r = current BY <1>1, <1>2, <1>3 DEF FleetInv, CallInv, CallsOwn
<1>5. current # NoRequest BY <1>2, <1>3 DEF QueueInv, StoreOK
<1>6. /\ current \in DOMAIN pending /\ current \in Keys /\ current \in accepted
      /\ pending[current].started
  BY <1>5 DEF QueueInv, StoreOK, FleetInv, CallInv, CallsOwn
<1>7. ReceiptOK(r, TRUE, pending, deadLetters, acknowledged, accepted)
  BY <1>4, <1>6 DEF ReceiptOK
<1> QED BY <1>1, <1>2, <1>3, <1>4, <1>6, <1>7

(* The receipt of the call itself. *)
LEMMA OwnReceipt ==
  ASSUME QueueInv, FleetInv, NEW c \in Callers, call[c].pc \in Active,
         call[c].req \in Requests
  PROVE  /\ ReceiptOK(call[c].req, call[c].retain, pending, deadLetters, acknowledged, accepted)
         /\ call[c].req = current => c = Queue
         /\ call[c].retain <=> c = Queue
<1>1. CASE c = Queue
  <2>1. call[c].retain /\ call[c].req = current BY <1>1 DEF FleetInv, CallInv, CallsOwn, Active
  <2>2. call[c].req \in Receipts({call[c]} \cup JoinedCalls(c)) BY <2>1 DEF Receipts
  <2>3. ReceiptOK(call[c].req, TRUE, pending, deadLetters, acknowledged, accepted)
    BY <2>2, ReceiptsOwn
  <2>4. call[c].retain = TRUE BY <2>1 DEF FleetInv, CallInv, CallsOK, CallRec
  <2> QED BY <1>1, <2>1, <2>3, <2>4
<1>2. CASE c # Queue
  <2>1. ~call[c].retain /\ call[c].req \notin Keys BY <1>2 DEF FleetInv, CallInv, CallsOwn
  <2>2. call[c].req # current
    BY <2>1, FleetAssumption DEF QueueInv, StoreOK
  <2> QED BY <1>2, <2>1, <2>2 DEF ReceiptOK
<1> QED BY <1>1, <1>2

(* A call that ends with a session, and those that joined it. *)
LEMMA EndsShape ==
  ASSUME FleetInv, NEW c \in Callers, call[c].pc \in Active, NEW s \in Sessions, NEW st,
         Ends(c, call[c], s, st)
  PROVE  /\ Ended(c)
         /\ \A d \in Callers : call'[d].session # None =>
              \/ call'[d] = call[d]
              \/ call'[d].session = s /\ WorkOf[call'[d].req] = WorkOf[call[c].req]
         /\ Queue = c \/ Queue \in Joined(c) => call'[Queue].pc = "done"
         /\ call'[Queue].pc # "done" => call[Queue].pc # "done" \/ Queue = c
<1>2. \A d \in Callers :
        call'[d] = IF d = c \/ d \in Joined(c) THEN Done(call[d], s, st) ELSE call[d]
  BY DEF Ends
<1>3. \A x : /\ Done(x, s, st).pc \in {"idle", "done"}
             /\ x.retain => Done(x, s, st).pc = "done" /\ Done(x, s, st).req = x.req
             /\ ~x.retain => Done(x, s, st).session = None
             /\ Done(x, s, st).session # None => Done(x, s, st).session = s
  BY DEF Done, Idle
<1>4. \A d \in Joined(c) : d \in Callers /\ call[d].pc = "joined"
                           /\ WorkOf[call[d].req] = WorkOf[call[c].req]
  BY JoinedShape DEF FleetInv
<1>5. Ended(c) BY <1>2, <1>3, <1>4 DEF Ended
<1>6. ASSUME NEW d \in Callers, call'[d].session # None
      PROVE  \/ call'[d] = call[d]
             \/ call'[d].session = s /\ WorkOf[call'[d].req] = WorkOf[call[c].req]
  <2>1. CASE d = c \/ d \in Joined(c)
    <3>1. call'[d] = Done(call[d], s, st) BY <1>2, <2>1
    <3>2. call[d].retain BY <1>3, <1>6, <3>1
    <3> QED BY <1>3, <1>4, <1>6, <2>1, <3>1, <3>2
  <2>2. CASE ~(d = c \/ d \in Joined(c)) BY <1>2, <2>2
  <2> QED BY <2>1, <2>2
<1>7. ASSUME Queue = c \/ Queue \in Joined(c) PROVE call'[Queue].pc = "done"
  <2>1. call[Queue].retain
    BY <1>4, <1>7 DEF FleetInv, CallInv, CallsOwn
  <2> QED BY <1>2, <1>3, <1>7, <2>1, EventsAssumption
<1>8. call'[Queue].pc # "done" => call[Queue].pc # "done" \/ Queue = c
  BY <1>2, <1>4, EventsAssumption
<1> QED BY <1>5, <1>6, <1>7, <1>8

(* A call ends with a session of the work it asked for. *)
LEMMA EndsSound ==
  ASSUME Inv, NoAnswer, UNCHANGED queueVars, wire' = wire, Evolves(sess, sess'),
         NEW c \in Callers, call[c].pc \in Active, Quiet \/ call[c].pc = "write",
         call[c].req \in Requests,
         NEW s \in Sessions, WorkOf[sess'[s].req] = WorkOf[call[c].req], NEW st,
         Ends(c, call[c], s, st), Soundly(leases)', Soundly(disk)',
         NEW W, Wrote(leases, leases', W, WorkOf[call[c].req]),
         current \in W => Queue = c \/ Queue \in Joined(c),
         \A t \in Sessions : sess'[t].st = "live" =>
           Held(leases', t) \/ \E d \in Callers : d # c /\ Answers(d, t),
         Single', \A m \in wire : ~Waits(c, m)
  PROVE  Sound'
<1>1. Sound /\ FleetInv /\ QueueInv BY DEF Inv
<1>2. UNCHANGED <<pending, deadLetters, acknowledged, accepted, current, refused>>
  BY DEF queueVars
<1>3. Ended(c) BY <1>1, EndsShape
<1>4. \A d \in Callers : call'[d].session # None =>
        \/ call'[d] = call[d]
        \/ call'[d].session = s /\ WorkOf[call'[d].req] = WorkOf[call[c].req]
  BY <1>1, EndsShape
<1>5. /\ Queue = c \/ Queue \in Joined(c) => call'[Queue].pc = "done"
  BY <1>1, EndsShape
<1>6. \A d \in Callers : Asked(d)' => d # c /\ call'[d] = call[d] BY <1>3, EndedFacts
<1>7. \A d \in Callers : \A m : d # c /\ Waits(d, m) => Waits(d, m)' BY <1>3, EndedFacts
<1>8. \A d \in Callers : \A t : d # c /\ Answers(d, t) => Answers(d, t)' BY <1>3, EndedFacts
<1>9. TurnOK' BY <1>3, EndedFacts
<1>10. AnswerOK'
  <2>1. \A d \in Callers : call[d].session # None =>
          WorkOf[sess'[call[d].session].req] = WorkOf[call[d].req]
    BY <1>1, EvolveSound
  <2> QED BY <1>4, <2>1 DEF AnswerOK
<1>11. StartFree'
  <2>1. SUFFICES ASSUME NEW d \in Callers, Asked(d)', NEW x \in Open(leases')
                 PROVE  WorkOf[x] # WorkOf[call'[d].req]
    BY DEF StartFree
  <2>2. d # c /\ call'[d] = call[d] BY <1>6, <2>1
  <2>3. Asked(d) /\ Asks(d) /\ Asks(c)
    BY <1>1, <2>1, <2>2, FleetAssumption
    DEF Asked, Asks, Active, FleetInv, CallInv, CallsOK, CallOK
  <2>4. WorkOf[call[d].req] # WorkOf[call[c].req]
    BY <1>1, <2>2, <2>3 DEF FleetInv, CallInv, Alone
  <2>5. x \in Open(leases) \/ WorkOf[x] = WorkOf[call[c].req] BY <2>1 DEF Wrote
  <2> QED BY <1>1, <2>2, <2>3, <2>4, <2>5 DEF Sound, StartFree
<1>12. WireOK' BY <1>1, <1>7 DEF Sound, WireOK
<1>13. Tracked' BY <1>8 DEF Tracked, Live
<1>14. CurrentGone(leases)'
  <2>1. SUFFICES ASSUME current \in DOMAIN leases', call'[Queue].pc # "done"
                 PROVE  sess'[leases'[current].session].st = "gone"
    BY <1>2 DEF CurrentGone
  <2>2. current \notin W BY <1>5, <2>1
  <2>3. current \in DOMAIN leases /\ leases'[current].session = leases[current].session
    BY <2>1, <2>2 DEF Wrote
  <2>4. sess[leases[current].session].st = "gone"
    BY <1>1, <2>3 DEF Sound, CurrentGone, NoAnswer
  <2> QED BY <1>1, <2>3, <2>4, EvolveSound
<1>15. Settled' BY <1>1, EvolveSound
<1> QED BY <1>9, <1>10, <1>11, <1>12, <1>13, <1>14, <1>15 DEF Sound

(* A call goes on, or a client's reconciliation is over. *)
LEMMA MovesSound ==
  ASSUME Inv, NoAnswer, UNCHANGED queueVars, UNCHANGED sess, NEW c \in Callers,
         Quiet \/ call[c].pc = "write", call[c].pc \in {"write", "select"},
         \A d \in Callers : d # c => call'[d] = call[d],
         call'[c].pc \in {"idle", "select", "sent"}, call'[c].session = None,
         Soundly(leases)', Soundly(disk)',
         \A x \in DOMAIN leases' : x \in DOMAIN leases /\ leases'[x] = leases[x],
         \A x \in Open(leases) : x \in DOMAIN leases',
         \A m \in wire' : m \in wire \/ Waits(c, m)',
         Asked(c)' => \A r \in Open(leases') : WorkOf[r] # WorkOf[call'[c].req]
  PROVE  Sound'
<1>1. Sound /\ FleetInv /\ QueueInv BY DEF Inv
<1>2. UNCHANGED <<pending, deadLetters, acknowledged, accepted, current, refused>>
  BY DEF queueVars
<1>3. \A d \in Callers, m \in wire : Waits(d, m) => Waits(d, m)'
  <2>1. call[c].pc # "sent" OBVIOUS
  <2> QED BY <2>1 DEF Waits
<1>4. \A d \in Callers, s \in Sessions : Answers(d, s) => Answers(d, s)'
  <2>1. call[c].pc # "sent" OBVIOUS
  <2> QED BY <2>1 DEF Answers
<1>5. AnswerOK' BY <1>1 DEF Sound, AnswerOK
<1>6. \A x \in Open(leases') : x \in Open(leases) BY DEF Open
<1>7. StartFree'
  <2>1. \A d \in Callers : d # c => (Asked(d)' <=> Asked(d)) BY DEF Asked
  <2> QED BY <1>1, <1>6, <2>1 DEF Sound, StartFree
<1>8. WireOK' BY <1>1, <1>3 DEF Sound, WireOK
<1>9. \A s : Held(leases, s) => Held(leases, s)' BY DEF Held, Open
<1>10. Tracked' BY <1>1, <1>4, <1>9 DEF Sound, Tracked, Live
<1>11. CurrentGone(leases)' BY <1>1, <1>2 DEF Sound, CurrentGone, NoAnswer
<1>12. Single' /\ Settled' BY <1>1, <1>2 DEF Sound, Single, Settled, Live
<1>13. \A d \in Callers : call'[d].pc # "write"
  BY <1>1 DEF FleetInv, CallInv, Alone, Quiet
<1>14. TurnOK' BY <1>13 DEF TurnOK
<1> QED BY <1>5, <1>7, <1>8, <1>10, <1>11, <1>12, <1>14 DEF Sound

\* The store M is L after a cleanup.
Cleaned(L, M) ==
  /\ \A x \in DOMAIN M : x \in DOMAIN L /\ M[x] = L[x]
  /\ \A x \in DOMAIN L : x \in DOMAIN M \/ (L[x].state = "terminal" /\ ~L[x].retain)

(* A cleanup keeps open leases and pinned ones. *)
LEMMA CleanedSound ==
  ASSUME NEW L, NEW M, Cleaned(L, M), Soundly(L)
  PROVE  /\ Soundly(M) /\ Open(M) = Open(L) /\ \A s : Held(L, s) => Held(M, s)
<1>1. Soundly(M) BY DEF Cleaned, Soundly, WorkOK, ReceiptsOK
<1>2. Open(M) = Open(L) BY DEF Cleaned, Open, Over
<1>3. \A x \in Open(L) : M[x] = L[x] BY <1>2 DEF Cleaned, Open
<1> QED BY <1>1, <1>2, <1>3 DEF Held

(* The end of reconcileLeases and what follows it. *)
LEMMA ReconcileEndSound ==
  ASSUME Inv, NoAnswer, UNCHANGED queueVars, NEW c \in Callers, reconcileLeases(c)
  PROVE  Sound'
<1>1. PICK old \in SUBSET Droppable(leases) :
       \/ AfterReconcile(c, call[c], Dropped(leases, old)) /\ UNCHANGED faults
       \/ /\ Fault /\ Fails(c, call[c])
          /\ \/ leases' = Dropped(leases, old) /\ UNCHANGED disk
             \/ Save(Dropped(leases, old))
  BY DEF reconcileLeases
<1>2. call[c].pc = "write" /\ UNCHANGED <<sess, wire>> BY DEF reconcileLeases
<1>3. Sound /\ FleetInv /\ QueueInv BY DEF Inv
<1>4. UNCHANGED <<pending, deadLetters, acknowledged, accepted, current, refused>>
  BY DEF queueVars
<1>5. call[c] \in CallRec /\ CallOK(call[c], sess) /\ call \in [Callers -> CallRec]
  BY <1>3 DEF FleetInv, CallInv, CallsOK
<1>6. call[c].session = None BY <1>2, <1>5 DEF CallOK
<1> DEFINE L == Dropped(leases, old)
<1>7. leases \in Stores /\ Good(leases, sess) BY <1>3 DEF FleetInv, FleetOK, LeasesOK, Good
<1>8. /\ L \in Stores /\ DOMAIN L = DOMAIN leases \ old
      /\ \A x \in DOMAIN L : L[x] = leases[x]
  BY <1>7, DropFacts
<1> HIDE DEF L
<1>9. Good(L, sess) BY <1>7, <1>8, PartOK
<1>10. Cleaned(leases, L) BY <1>8 DEF Cleaned, Droppable
<1>11. Soundly(leases) /\ Soundly(disk) BY <1>3 DEF Sound
<1>12. Soundly(L) /\ Open(L) = Open(leases) /\ \A s : Held(leases, s) => Held(L, s)
  BY <1>10, <1>11, CleanedSound
<1>13. ASSUME NEW M, Save(M), Soundly(M) PROVE Soundly(leases)' /\ Soundly(disk)'
  BY <1>2, <1>4, <1>11, <1>13, FileSound DEF Soundly
<1>14. UNCHANGED disk => Soundly(disk)' BY <1>2, <1>4, <1>11 DEF Soundly
<1>15. \A x \in Open(leases) : x \in DOMAIN L BY <1>12 DEF Open
<1>16. \A x \in DOMAIN L : x \in DOMAIN leases /\ L[x] = leases[x] BY <1>8
<1>17. CASE /\ Fails(c, call[c])
            /\ \/ leases' = L /\ UNCHANGED disk
               \/ Save(L)
  <2>1. leases' = L BY <1>17 DEF Save
  <2>2. Soundly(leases)' /\ Soundly(disk)'
    <3>1. CASE Save(L) BY <1>12, <1>13, <3>1
    <3>2. CASE UNCHANGED disk BY <1>12, <1>14, <2>1, <3>2, <1>2, <1>4 DEF Soundly
    <3> QED BY <1>17, <3>1, <3>2
  <2>3. /\ \A m : ~Waits(c, m) /\ \A s : ~Answers(c, s) BY <1>2 DEF Waits, Answers
  <2> QED BY <1>2, <1>15, <1>16, <1>17, <2>1, <2>2, <2>3, FailsSound
<1>18. ASSUME Save(L), NEW y, call' = [call EXCEPT ![c] = y],
              y.pc \in {"idle", "select"}, y.session = None,
              y.pc = "select" => y.req = call[c].req /\ Answer(L, call[c].req) = {}
       PROVE  Sound'
  <2>1. call'[c] = y /\ \A d \in Callers : d # c => call'[d] = call[d] BY <1>5, <1>18
  <2>2. leases' = L BY <1>18 DEF Save
  <2>3. Soundly(leases)' /\ Soundly(disk)' BY <1>12, <1>13, <1>18
  <2>4. ASSUME y.pc = "select", NEW r \in Open(L) PROVE WorkOf[r] # WorkOf[y.req]
    <3>1. r \in DOMAIN L /\ L[r].work = WorkOf[r] BY <1>12 DEF Open, Soundly, WorkOK
    <3>2. L[r].work # WorkOf[call[c].req] BY <1>18, <2>4 DEF Answer
    <3> QED BY <1>18, <2>4, <3>1, <3>2
  <2>5. Asked(c)' => \A r \in Open(leases') : WorkOf[r] # WorkOf[call'[c].req]
    BY <1>18, <2>1, <2>2, <2>4 DEF Asked
  <2> QED BY <1>2, <1>15, <1>16, <1>18, <2>1, <2>2, <2>3, <2>5, MovesSound
<1>19. ASSUME call[c].req \in Requests, NEW y \in Answer(L, call[c].req),
              Save(Pinned(L, Receipts({call[c]} \cup JoinedCalls(c)), L[y].session)),
              Ends(c, call[c], L[y].session, L[y].state)
       PROVE  Sound'
  <2> DEFINE R == Receipts({call[c]} \cup JoinedCalls(c))
             s == L[y].session
             w == WorkOf[call[c].req]
             M == Pinned(L, R, s)
  <2>1. R \in SUBSET Requests BY <1>3, <1>19, ReceiptsShape
  <2>2. \A r \in R : /\ r = current /\ WorkOf[r] = w /\ (Queue = c \/ Queue \in Joined(c))
                     /\ ReceiptOK(r, TRUE, pending, deadLetters, acknowledged, accepted)
    BY <1>2, <1>3, ReceiptsOwn DEF Active
  <2> HIDE DEF R
  <2>3. y \in DOMAIN L /\ (y = call[c].req \/ L[y].work = w) BY <1>19 DEF Answer, Open
  <2>4. L[y].work = w /\ WorkOf[sess[s].req] = w BY <1>12, <2>3 DEF Soundly, WorkOK
  <2>5. s \in Sessions /\ y \in Of(L, s) BY <1>9, <2>3 DEF Good, Used, Of
  <2>6. WorkOK(M, sess) /\ Wrote(L, M, R, w) /\ KeepsHeld(L, M, R, s)
    BY <1>9, <1>12, <2>1, <2>2, <2>4, <2>5, PinnedSound DEF Soundly
  <2>7. ReceiptsOK(M, pending, deadLetters, acknowledged, accepted)
    BY <1>8, <1>12, <2>1, <2>2, <2>5, PinnedReceipts DEF Soundly
  <2>8. Save(M) BY <1>19 DEF R
  <2>9. Ends(c, call[c], s, L[y].state) BY <1>19
  <2> HIDE DEF M, s, w
  <2>10. leases' = M BY <2>8 DEF Save
  <2>11. Soundly(leases)' /\ Soundly(disk)' BY <1>13, <2>6, <2>7, <2>8 DEF Soundly
  <2>12. Wrote(leases, M, R, w)
    <3>1. \A x \in DOMAIN M : x \in R \/ (x \in DOMAIN leases /\ M[x].session = leases[x].session)
      BY <1>16, <2>6 DEF Wrote
    <3>2. \A x \in Open(M) : x \in Open(leases) \/ WorkOf[x] = w BY <1>12, <2>6 DEF Wrote
    <3>3. \A x \in DOMAIN leases : x \in DOMAIN M \/ ~leases[x].retain
      BY <1>10, <2>6 DEF Wrote, Cleaned
    <3> QED BY <3>1, <3>2, <3>3 DEF Wrote
  <2>13. ASSUME NEW t \in Sessions, sess'[t].st = "live"
         PROVE  Held(leases', t) \/ \E d \in Callers : d # c /\ Answers(d, t)
    <3>1. \A d \in Callers : Answers(d, t) => d # c BY <1>2 DEF Answers
    <3>2. CASE Held(leases, t)
      <4>1. PICK q \in Open(L) : L[q].session = t BY <1>12, <3>2 DEF Held
      <4>2. q \in R => sess[leases[q].session].st = "gone"
        BY <1>3, <1>15, <1>16, <1>12, <2>2, <4>1 DEF Sound, CurrentGone, NoAnswer
      <4>3. q \notin R BY <1>2, <1>12, <1>15, <1>16, <2>13, <4>1, <4>2
      <4> QED BY <2>6, <2>10, <4>1, <4>3 DEF KeepsHeld
    <3> QED BY <1>2, <1>3, <2>13, <3>1, <3>2 DEF Sound, Tracked, Live
  <2>14. Single' BY <1>2, <1>3 DEF Sound, Single, Live
  <2>15. \A m \in wire : ~Waits(c, m) BY <1>2 DEF Waits
  <2>16. Evolves(sess, sess') BY <1>2, <1>3, SameSessions DEF FleetInv, FleetOK
  <2>17. current \in R => Queue = c \/ Queue \in Joined(c) BY <2>2
  <2>18. call[c].pc \in Active /\ WorkOf[sess'[s].req] = WorkOf[call[c].req]
    BY <1>2, <2>4 DEF Active, w
  <2>19. Wrote(leases, leases', R, WorkOf[call[c].req]) BY <2>10, <2>12 DEF w
  <2>20. s \in Sessions BY <2>5
  <2> QED BY <1>2, <1>19, <2>9, <2>11, <2>13, <2>14, <2>15, <2>16, <2>17, <2>18, <2>19,
             <2>20, EndsSound
<1>20. CASE AfterReconcile(c, call[c], L)
  <2>1. CASE call[c].req = NoRequest
    <3>1. Save(L) /\ call' = [call EXCEPT ![c] = Idle] BY <1>20, <2>1 DEF AfterReconcile
    <3> QED BY <1>18, <3>1, IdleFields
  <2>2. CASE call[c].req # NoRequest /\ Answer(L, call[c].req) = {} /\ Save(L)
             /\ call' = [call EXCEPT ![c] = [call[c] EXCEPT !.pc = "select", !.seen = {}]]
    <3> DEFINE y == [call[c] EXCEPT !.pc = "select", !.seen = {}]
    <3>1. y.pc = "select" /\ y.req = call[c].req /\ y.session = None
      BY <1>5, <1>6 DEF CallRec
    <3> HIDE DEF y
    <3>2. call' = [call EXCEPT ![c] = y] BY <2>2 DEF y
    <3> QED BY <1>18, <2>2, <3>1, <3>2
  <2>3. call[c].req # NoRequest => call[c].req \in Requests BY <1>5 DEF CallRec
  <2> QED BY <1>19, <1>20, <2>1, <2>2, <2>3 DEF AfterReconcile
<1> QED BY <1>1, <1>17, <1>20 DEF L

(* A node starts a session that a call asked for, or has one of its work:   *)
(* no other of that work runs.                                              *)
LEMMA StartOnSound ==
  ASSUME Inv, NEW n \in Nodes, NEW c \in Callers, Asked(c), call[c].session = None,
         NEW s \in Sessions, StartOn(n, call[c].req, s)
  PROVE  /\ WorkOf[sess'[s].req] = WorkOf[call[c].req] /\ Single'
         /\ \A t \in Sessions : sess'[t].st = "live" => t = s \/ sess[t].st = "live"
<1>1. Sound /\ FleetInv /\ QueueInv BY DEF Inv
<1> DEFINE r == call[c].req
<1>2. r \in Requests /\ Asks(c)
  BY <1>1, FleetAssumption DEF Asked, Asks, Active, FleetInv, CallInv, CallsOK, CallOK
<1>3. CASE s \in Existing(n, r) /\ UNCHANGED sess
  <2>1. WorkOf[sess[s].req] = WorkOf[r] BY <1>3 DEF Existing
  <2> QED BY <1>1, <1>3, <2>1 DEF Sound, Single, Live
<1>4. CASE sess' = [sess EXCEPT ![s] = [at |-> n, req |-> r, st |-> "live"]]
  <2>1. /\ sess'[s].req = r /\ sess'[s].st = "live"
        /\ \A t \in Sessions : t # s => sess'[t] = sess[t]
    BY <1>1, <1>4 DEF FleetInv, FleetOK, SessOK
  <2> HIDE DEF r
  <2>2. ASSUME NEW t \in Sessions, sess[t].st = "live", WorkOf[sess[t].req] = WorkOf[r]
        PROVE  FALSE
    <3>1. CASE Held(leases, t)
      <4>1. PICK q \in Open(leases) : leases[q].session = t BY <3>1 DEF Held
      <4>2. WorkOf[q] = WorkOf[r] BY <1>1, <2>2, <4>1 DEF Sound, Soundly, WorkOK, Open
      <4> QED BY <1>1, <4>2 DEF Sound, StartFree, r
    <3>2. CASE \E d \in Callers : Answers(d, t)
      <4>1. PICK d \in Callers : Answers(d, t) BY <3>2
      <4>2. t # None /\ d # c BY <4>1 DEF Answers, Sessions, None
      <4>3. WorkOf[sess[t].req] = WorkOf[call[d].req]
        BY <1>1, <4>1, <4>2 DEF Sound, AnswerOK, Answers
      <4>4. Asks(d)
        BY <1>1, <4>1, FleetAssumption DEF Answers, Asks, Active, FleetInv, CallInv, CallsOK, CallOK
      <4> QED BY <1>1, <1>2, <2>2, <4>2, <4>3, <4>4 DEF FleetInv, CallInv, Alone, r
    <3> QED BY <1>1, <2>2, <3>1, <3>2 DEF Sound, Tracked, Live
  <2>3. Single' BY <1>1, <2>1, <2>2 DEF Sound, Single, Live
  <2> QED BY <2>1, <2>3 DEF r
<1> QED BY <1>3, <1>4 DEF StartOn

(* recordLease of a started session, without a fault. *)
LEMMA RecordSteps ==
  ASSUME Inv, NoAnswer, Quiet, UNCHANGED queueVars, wire' = wire, Evolves(sess, sess'),
         NEW c \in Callers, Asked(c), NEW s, Used(sess', s),
         WorkOf[sess'[s].req] = WorkOf[call[c].req], Single',
         \A t \in Sessions : sess'[t].st = "live" =>
           t = s \/ Held(leases, t) \/ \E d \in Callers : d # c /\ Answers(d, t),
         \A m \in wire : ~Waits(c, m), Record(c, s), faults' = faults
  PROVE  Sound'
<1> DEFINE r == call[c].req
           rec == [session |-> s, work |-> WorkOf[r], state |-> "running",
                   retain |-> call[c].retain]
           R == Receipts(JoinedCalls(c))
           M == Pinned(Upsert(leases, {r}, rec), R, s)
<1>1. Sound /\ FleetInv /\ QueueInv BY DEF Inv
<1>2. UNCHANGED <<pending, deadLetters, acknowledged, accepted, current, refused>>
  BY DEF queueVars
<1>3. r \in Requests /\ call[c].retain \in BOOLEAN /\ call[c].pc \in Active /\ s \in Sessions
  BY <1>1 DEF Asked, FleetInv, CallInv, CallsOK, CallOK, CallRec, Active, Used
<1>4. ~Fault BY <1>1 DEF Fault, FleetInv, FleetOK
<1>5. Save(M) /\ Ends(c, call[c], s, "running") BY <1>4 DEF Record
<1>6. Good(leases, sess') /\ WorkOK(leases, sess') /\ WorkOK(disk, sess')
  BY <1>1, EvolveLeases, EvolveSound DEF FleetInv, FleetOK, LeasesOK
<1>7. R \in SUBSET Requests BY <1>1, ReceiptsShape
<1>8. \A q \in R : /\ q = current /\ WorkOf[q] = WorkOf[r] /\ (Queue = c \/ Queue \in Joined(c))
                   /\ ReceiptOK(q, TRUE, pending, deadLetters, acknowledged, accepted)
  <2> SUFFICES ASSUME NEW q \in R
               PROVE  /\ q = current /\ WorkOf[q] = WorkOf[r] /\ (Queue = c \/ Queue \in Joined(c))
                      /\ ReceiptOK(q, TRUE, pending, deadLetters, acknowledged, accepted)
    OBVIOUS
  <2>1. q \in Receipts({call[c]} \cup JoinedCalls(c)) BY DEF Receipts
  <2> HIDE DEF R
  <2> QED BY <1>1, <1>3, <2>1, ReceiptsOwn
<1>9. /\ rec \in Lease /\ rec.session = s /\ rec.work = WorkOf[r] /\ rec.state = "running"
      /\ rec.retain = call[c].retain
  BY <1>3 DEF Lease, LeaseStates
<1>10. /\ r \in Of(Upsert(leases, {r}, rec), s) /\ Good(Upsert(leases, {r}, rec), sess')
  <2>1. \A b \in BOOLEAN, q \in Requests :
          /\ q \in Of(Upsert(leases, {q}, [session |-> s, work |-> WorkOf[q],
                   state |-> "running", retain |-> b]), s)
          /\ Good(Upsert(leases, {q}, [session |-> s, work |-> WorkOf[q],
                   state |-> "running", retain |-> b]), sess')
    BY <1>6, RecordedGood
  <2> QED BY <1>3, <2>1
<1> HIDE DEF R, rec
<1>11. \A q \in Open(leases) : WorkOf[q] # WorkOf[r] BY <1>1 DEF Sound, StartFree
<1>12. M = Pinned(Upsert(leases, {r}, rec), R, rec.session) BY <1>9
<1>13. /\ WorkOK(M, sess') /\ Wrote(leases, M, {r} \cup R, WorkOf[r])
       /\ Held(M, s) /\ \A t : Held(leases, t) => Held(M, t)
  <2> HIDE DEF M, r
  <2>1. WorkOf[sess'[rec.session].req] = WorkOf[r] /\ Used(sess', rec.session)
    BY <1>9 DEF r
  <2>2. Recordable(sess', leases, r, R, rec)
    BY <1>3, <1>6, <1>7, <1>8, <1>9, <1>11, <2>1 DEF Recordable
  <2>3. Recorded(sess', leases, M, r, R, rec) BY <1>12, <2>2, RecordedSound
  <2> QED BY <1>9, <2>3 DEF Recorded
<1>14. ReceiptsOK(M, pending, deadLetters, acknowledged, accepted)
  <2>1. ReceiptOK(r, rec.retain, pending, deadLetters, acknowledged, accepted)
    BY <1>1, <1>3, <1>9, OwnReceipt
  <2>2. leases \in Stores /\ ReceiptsOK(leases, pending, deadLetters, acknowledged, accepted)
    BY <1>1, <1>6 DEF Good, Sound, Soundly
  <2> DEFINE N == Upsert(leases, {r}, rec)
  <2>3. ReceiptsOK(N, pending, deadLetters, acknowledged, accepted)
    <3> HIDE DEF r
    <3> QED BY <1>3, <1>9, <2>1, <2>2, UpsertReceipts
  <2>4. N \in Stores /\ Of(N, s) # {} BY <1>10 DEF Good
  <2> HIDE DEF N
  <2>5. ReceiptsOK(Pinned(N, R, s), pending, deadLetters, acknowledged, accepted)
    BY <1>7, <1>8, <2>3, <2>4, PinnedReceipts
  <2> QED BY <2>5 DEF N
<1> HIDE DEF M
<1>15. leases' = M BY <1>5 DEF Save
<1>16. Soundly(leases)' /\ Soundly(disk)'
  BY <1>1, <1>2, <1>5, <1>6, <1>13, <1>14, FileSound DEF Sound, Soundly
<1>17. current \in {r} \cup R => Queue = c \/ Queue \in Joined(c)
  BY <1>1, <1>3, <1>8, OwnReceipt
<1>18. \A t \in Sessions : sess'[t].st = "live" =>
         Held(leases', t) \/ \E d \in Callers : d # c /\ Answers(d, t)
  BY <1>13, <1>15
<1> QED BY <1>3, <1>5, <1>13, <1>15, <1>16, <1>17, <1>18, EndsSound

(* A session is started on this node. *)
LEMMA StartHereSound ==
  ASSUME Inv, NoAnswer, Quiet, UNCHANGED queueVars, ~mishap', NEW c \in Callers, StartHere(c)
  PROVE  Sound'
<1>1. call[c].pc = "select" /\ UNCHANGED wire /\ faults' = faults BY DEF StartHere
<1>2. /\ call[c].session = None /\ call[c].req \in Requests /\ Asked(c)
  BY <1>1 DEF Inv, FleetInv, CallInv, CallsOK, CallOK, Asked
<1>3. \A m : ~Waits(c, m) /\ \A t : ~Answers(c, t) BY <1>1 DEF Waits, Answers
<1>4. ASSUME NEW s \in Sessions, StartOn(Local, call[c].req, s), Record(c, s)
      PROVE  Sound'
  <2>1. Evolves(sess, sess') /\ Used(sess', s)
    BY <1>2, <1>4, StartEvolves DEF Nodes, Inv, FleetInv, FleetOK
  <2>2. /\ WorkOf[sess'[s].req] = WorkOf[call[c].req] /\ Single'
        /\ \A t \in Sessions : sess'[t].st = "live" => t = s \/ sess[t].st = "live"
    BY <1>2, <1>4, StartOnSound DEF Nodes
  <2>3. \A t \in Sessions : sess'[t].st = "live" =>
          t = s \/ Held(leases, t) \/ \E d \in Callers : d # c /\ Answers(d, t)
    BY <1>3, <2>2 DEF Inv, Sound, Tracked, Live
  <2> QED BY <1>1, <1>2, <1>3, <1>4, <2>1, <2>2, <2>3, RecordSteps
<1>5. CASE Fails(c, call[c]) /\ UNCHANGED <<sess, leases, disk, faults>>
  <2>1. Soundly(leases)' /\ Soundly(disk)' BY <1>5 DEF Inv, Sound, Soundly, queueVars
  <2>2. \A x \in Open(leases) : x \in DOMAIN leases' BY <1>5 DEF Open
  <2> QED BY <1>1, <1>3, <1>5, <2>1, <2>2, FailsSound
<1> QED BY <1>4, <1>5 DEF StartHere

(* The answer of a start arrives. *)
LEMMA StartedSound ==
  ASSUME Inv, NoAnswer, Quiet, UNCHANGED queueVars, ~mishap', NEW c \in Callers, Started(c)
  PROVE  Sound'
<1> DEFINE s == call[c].session
<1>1. /\ call[c].pc = "sent" /\ s # None /\ UNCHANGED <<sess, wire>> /\ faults' = faults
      /\ Record(c, s)
  BY DEF Started
<1>2. Asked(c) /\ Used(sess, s) BY <1>1 DEF Inv, FleetInv, CallInv, CallsOK, CallOK, Asked
<1>3. \A m : ~Waits(c, m) /\ \A t : Answers(c, t) => t = s BY <1>1 DEF Waits, Answers
<1>4. Evolves(sess, sess') BY <1>1, SameSessions DEF Inv, FleetInv, FleetOK
<1>5. WorkOf[sess[s].req] = WorkOf[call[c].req] BY <1>1 DEF Inv, Sound, AnswerOK
<1>6. Single' BY <1>1 DEF Inv, Sound, Single, Live
<1>7. \A t \in Sessions : sess'[t].st = "live" =>
        t = s \/ Held(leases, t) \/ \E d \in Callers : d # c /\ Answers(d, t)
  BY <1>1, <1>3 DEF Inv, Sound, Tracked, Live
<1> HIDE DEF s
<1> QED BY <1>1, <1>2, <1>3, <1>4, <1>5, <1>6, <1>7, RecordSteps

(* A start is sent to a remote node, or no connection is made. *)
LEMMA StartThereSound ==
  ASSUME Inv, NoAnswer, Quiet, UNCHANGED queueVars, NEW c \in Callers, NEW n \in Remotes,
         StartThere(c, n)
  PROVE  Sound'
<1>1. call[c].pc = "select" /\ UNCHANGED <<sess, leases, disk>> BY DEF StartThere
<1>2. /\ call[c].session = None /\ call \in [Callers -> CallRec] /\ Asked(c)
  BY <1>1 DEF Inv, FleetInv, CallInv, CallsOK, CallOK, Asked
<1>3. Soundly(leases)' /\ Soundly(disk)' BY <1>1 DEF Inv, Sound, Soundly, queueVars
<1>4. \A x \in Open(leases) : x \in DOMAIN leases' BY <1>1 DEF Open
<1>5. CASE /\ call' = [call EXCEPT ![c].pc = "sent", ![c].at = n]
           /\ wire' = wire \cup {[req |-> call[c].req, at |-> n]}
  <2>1. /\ call'[c].pc = "sent" /\ call'[c].req = call[c].req /\ call'[c].at = n
        /\ call'[c].session = None /\ \A d \in Callers : d # c => call'[d] = call[d]
    BY <1>2, <1>5 DEF CallRec
  <2>2. \A m \in wire' : m \in wire \/ Waits(c, m)' BY <1>5, <2>1 DEF Waits
  <2>3. \A r \in Open(leases') : WorkOf[r] # WorkOf[call'[c].req]
    BY <1>1, <1>2, <2>1 DEF Inv, Sound, StartFree
  <2> QED BY <1>1, <1>3, <1>4, <2>1, <2>2, <2>3, MovesSound
<1>6. CASE Fails(c, call[c]) /\ UNCHANGED wire
  <2>1. \A m : ~Waits(c, m) /\ \A t : ~Answers(c, t) BY <1>1 DEF Waits, Answers
  <2> QED BY <1>1, <1>3, <1>4, <1>6, <2>1, FailsSound
<1> QED BY <1>5, <1>6 DEF StartThere

(* A start has no answer in time. *)
LEMMA TimesOutSound ==
  ASSUME Inv, NoAnswer, Quiet, UNCHANGED queueVars, ~mishap', NEW c \in Callers,
         StartTimesOut(c)
  PROVE  Sound'
<1>1. /\ call[c].pc = "sent" /\ UNCHANGED <<sess, leases, disk, wire>> /\ faults' = faults
      /\ Fails(c, call[c])
  BY DEF StartTimesOut
<1>2. [req |-> call[c].req, at |-> call[c].at] \notin wire /\ call[c].session = None
  BY <1>1 DEF StartTimesOut, Inv, FleetInv, FleetOK
<1>3. Soundly(leases)' /\ Soundly(disk)' BY <1>1 DEF Inv, Sound, Soundly, queueVars
<1>4. \A x \in Open(leases) : x \in DOMAIN leases' BY <1>1 DEF Open
<1>5. ASSUME NEW m \in wire PROVE ~Waits(c, m)
  <2>1. m \in [req : Requests, at : Remotes] BY DEF Inv, FleetInv, FleetOK
  <2>2. m = [req |-> m.req, at |-> m.at] BY <2>1
  <2> QED BY <1>2, <2>2 DEF Waits
<1>6. \A t \in Sessions : ~Answers(c, t) BY <1>2 DEF Answers, Sessions, None
<1> QED BY <1>1, <1>3, <1>4, <1>5, <1>6, FailsSound

-----------------------------------------------------------------------------
(* Sessions and nodes *)

\* The store M is L after a write that opens no lease and gives none another
\* session; only s may lose its open lease.
Narrows(L, M, s) ==
  /\ \A x \in DOMAIN M : x \in DOMAIN L /\ M[x].session = L[x].session
  /\ \A x \in Open(M) : x \in Open(L)
  /\ \A x \in DOMAIN L : x \in DOMAIN M \/ ~L[x].retain
  /\ \A t : t # s /\ Held(L, t) => Held(M, t)

(* No write at all. *)
LEMMA SameNarrows == ASSUME NEW L, NEW s PROVE Narrows(L, L, s)
  BY DEF Narrows

(* updateLeaseForSession. *)
LEMMA TerminatedSound ==
  ASSUME NEW S, NEW L, Good(L, S), WorkOK(L, S), NEW s,
         NEW P, NEW D, NEW A, NEW C, ReceiptsOK(L, P, D, A, C)
  PROVE  /\ WorkOK(Terminated(L, s), S) /\ ReceiptsOK(Terminated(L, s), P, D, A, C)
         /\ Narrows(L, Terminated(L, s), s)
<1>1. L \in Stores BY DEF Good
<1>2. ASSUME NEW x \in Of(L, s), [L[x] EXCEPT !.state = "terminal"] \in Lease,
             Terminated(L, s) = Upsert(L, {x}, [L[x] EXCEPT !.state = "terminal"])
      PROVE  /\ WorkOK(Terminated(L, s), S) /\ ReceiptsOK(Terminated(L, s), P, D, A, C)
             /\ Narrows(L, Terminated(L, s), s)
  <2>1. x \in DOMAIN L /\ x \in Requests /\ L[x] \in Lease /\ L[x].session = s
    BY <1>1, <1>2, StoreShape DEF Of
  <2> DEFINE rec == [L[x] EXCEPT !.state = "terminal"]
             M == Upsert(L, {x}, rec)
  <2>2. /\ rec \in Lease /\ rec.session = s /\ rec.state = "terminal"
        /\ rec.work = L[x].work /\ rec.retain = L[x].retain
    BY <2>1, StateFields DEF LeaseStates
  <2>3. Terminated(L, s) = M BY <1>2
  <2> HIDE DEF rec
  <2>4. rec.work = WorkOf[x] /\ WorkOf[S[rec.session].req] = WorkOf[x]
    BY <2>1, <2>2 DEF WorkOK
  <2>5. WorkOK(M, S) BY <1>1, <2>1, <2>2, <2>4, UpsertWork
  <2>6. ReceiptsOK(M, P, D, A, C)
    <3>1. ReceiptOK(x, rec.retain, P, D, A, C) BY <2>1, <2>2 DEF ReceiptsOK
    <3> QED BY <1>1, <2>1, <2>2, <3>1, UpsertReceipts
  <2>7. Upserted(L, M, {x}, rec) BY <1>1, <2>1, <2>2, UpsertShape
  <2>8. ASSUME NEW t, t # s, Held(L, t) PROVE Held(M, t)
    <3>1. PICK q \in Open(L) : L[q].session = t BY <2>8 DEF Held
    <3>2. q \in {x} => rec.session = t BY <2>1, <2>2, <3>1
    <3>3. rec.session = t => rec.state \notin Over BY <2>2, <2>8
    <3>4. {x} \in SUBSET Requests BY <2>1
    <3> QED BY <1>1, <2>2, <3>1, <3>2, <3>3, <3>4, UpsertHeld
  <2> HIDE DEF M
  <2>9. \A y \in DOMAIN M : y \in DOMAIN L /\ M[y].session = L[y].session
    BY <2>1, <2>2, <2>7 DEF Upserted
  <2>10. \A y \in DOMAIN L : y \in DOMAIN M \/ ~L[y].retain BY <2>7 DEF Upserted
  <2>11. ASSUME NEW y \in Open(M) PROVE y \in Open(L)
    <3>1. y \in DOMAIN M /\ M[y].state \notin Over BY DEF Open
    <3>2. y # x BY <2>2, <2>7, <3>1 DEF Upserted, Over
    <3>3. L[y].session # rec.session BY <2>2, <2>7, <3>1, <3>2 DEF Upserted, Over
    <3> QED BY <2>7, <3>1, <3>2, <3>3 DEF Upserted, Open
  <2>12. Narrows(L, M, s) BY <2>8, <2>9, <2>10, <2>11 DEF Narrows
  <2> QED BY <2>3, <2>5, <2>6, <2>12
<1> QED BY <1>1, <1>2, TerminatedFacts, SameNarrows

(* A step outside the calls that starts no session. *)
LEMMA NarrowSound ==
  ASSUME Inv, Quiet, UNCHANGED queueVars, UNCHANGED call, Evolves(sess, sess'),
         wire' \subseteq wire, Soundly(leases)', Soundly(disk)',
         NEW s, Narrows(leases, leases', s),
         \A t \in Sessions : sess'[t].st = "live" => sess[t].st = "live" /\ t # s
  PROVE  Sound'
<1>1. Sound /\ FleetInv /\ QueueInv BY DEF Inv
<1>2. UNCHANGED <<pending, deadLetters, acknowledged, accepted, current, refused>>
  BY DEF queueVars
<1>3. AnswerOK' BY <1>1, EvolveSound DEF AnswerOK
<1>4. StartFree' BY <1>1 DEF Sound, StartFree, Narrows, Asked
<1>5. WireOK' BY <1>1 DEF Sound, WireOK, Waits
<1>6. Tracked'
  <2>1. \A t : t # s /\ Held(leases, t) => Held(leases', t) BY DEF Narrows
  <2>2. \A c \in Callers : \A t : Answers(c, t) => Answers(c, t)' BY DEF Answers
  <2> QED BY <1>1, <2>1, <2>2 DEF Sound, Tracked, Live
<1>7. CurrentGone(leases)'
  <2>1. SUFFICES ASSUME current \in DOMAIN leases', call[Queue].pc # "done"
                 PROVE  sess'[leases'[current].session].st = "gone"
    BY <1>2 DEF CurrentGone
  <2>2. current \in DOMAIN leases /\ leases'[current].session = leases[current].session
    BY <2>1 DEF Narrows
  <2>3. sess[leases[current].session].st = "gone" BY <1>1, <2>1, <2>2 DEF Sound, CurrentGone
  <2> QED BY <1>1, <2>2, <2>3, EvolveSound
<1>8. TurnOK' BY DEF TurnOK, Quiet
<1>9. Single' BY <1>1, SingleKept DEF Sound
<1>10. Settled' BY <1>1, EvolveSound
<1> QED BY <1>3, <1>4, <1>5, <1>6, <1>7, <1>8, <1>9, <1>10 DEF Sound

(* The steps of nodes other than starts. *)
LEMMA NodesSound ==
  ASSUME Inv, Quiet, UNCHANGED queueVars, ~mishap',
         \/ \E m \in wire : RemoteRefuses(m)
         \/ \E s \in Sessions : SessionEnds(s) \/ Forgotten(s) \/ SocketCloses(s)
         \/ \E n \in Remotes : RemoteRestarts(n)
  PROVE  Sound'
<1>1. Sound /\ FleetInv /\ QueueInv BY DEF Inv
<1>2. SessOK(sess) BY <1>1 DEF FleetInv, FleetOK
<1>3. UNCHANGED <<pending, deadLetters, acknowledged, accepted>> BY DEF queueVars
<1>4. ASSUME UNCHANGED <<leases, disk, call>>, Evolves(sess, sess'), wire' \subseteq wire,
             \A t \in Sessions : sess'[t].st = "live" => sess[t].st = "live"
      PROVE  Sound'
  <2>1. Soundly(leases)' /\ Soundly(disk)'
    BY <1>1, <1>3, <1>4, EvolveSound DEF Sound, Soundly
  <2>2. Narrows(leases, leases', None) BY <1>4, SameNarrows
  <2>3. \A t \in Sessions : t # None BY DEF Sessions, None
  <2> QED BY <1>4, <2>1, <2>2, <2>3, NarrowSound
<1>5. ASSUME NEW s \in Sessions, Save(Terminated(leases, s)), UNCHANGED <<call, wire>>,
             Evolves(sess, sess'),
             \A t \in Sessions : sess'[t].st = "live" => sess[t].st = "live" /\ t # s
      PROVE  Sound'
  <2>1. /\ Good(leases, sess') /\ WorkOK(leases, sess') /\ WorkOK(disk, sess')
        /\ ReceiptsOK(leases, pending, deadLetters, acknowledged, accepted)
        /\ ReceiptsOK(disk, pending, deadLetters, acknowledged, accepted)
    BY <1>1, <1>5, EvolveLeases, EvolveSound DEF FleetInv, FleetOK, LeasesOK, Sound, Soundly
  <2> DEFINE M == Terminated(leases, s)
  <2>2. /\ WorkOK(M, sess') /\ ReceiptsOK(M, pending, deadLetters, acknowledged, accepted)
        /\ Narrows(leases, M, s)
    BY <2>1, TerminatedSound
  <2>3. Save(M) BY <1>5
  <2> HIDE DEF M
  <2>4. leases' = M BY <2>3 DEF Save
  <2>5. Soundly(leases)' /\ Soundly(disk)' BY <1>3, <2>1, <2>2, <2>3, FileSound
  <2> QED BY <1>5, <2>2, <2>4, <2>5, NarrowSound
<1>6. ASSUME NEW m \in wire, RemoteRefuses(m) PROVE Sound'
  <2>1. UNCHANGED <<sess, leases, disk, call>> /\ wire' \subseteq wire BY <1>6 DEF RemoteRefuses
  <2> QED BY <1>2, <1>4, <2>1, SameSessions
<1>7. ASSUME NEW s \in Sessions, SessionEnds(s) PROVE Sound'
  <2>1. /\ sess[s].st = "live" /\ sess' = [sess EXCEPT ![s].st = "ended"]
        /\ UNCHANGED <<call, wire>>
        /\ Save(Terminated(leases, s)) \/ UNCHANGED <<leases, disk>>
    BY <1>7 DEF SessionEnds
  <2>2. /\ Evolves(sess, sess') /\ sess'[s].st = "ended"
        /\ \A t \in Sessions : sess'[t].st = "live" => sess[t].st = "live"
    <3>1. /\ sess'[s].at = sess[s].at /\ sess'[s].req = sess[s].req /\ sess'[s].st = "ended"
          /\ \A t \in Sessions : t # s => sess'[t] = sess[t]
      BY <1>2, <2>1 DEF SessOK
    <3>2. \A t \in Sessions : sess'[t].st = "live" => sess[t].st = "live" BY <2>1, <3>1
    <3>3. Evolves(sess, sess') BY <1>2, <2>1, EndEvolves
    <3> QED BY <3>1, <3>2, <3>3
  <2> QED BY <1>4, <1>5, <2>1, <2>2
<1>8. ASSUME NEW s \in Sessions, Forgotten(s) PROVE Sound'
  <2>1. /\ sess[s].st = "ended" /\ sess' = [sess EXCEPT ![s].st = "gone"]
        /\ UNCHANGED <<leases, disk, call, wire>>
    BY <1>8 DEF Forgotten
  <2>2. Evolves(sess, sess') BY <1>2, <2>1, EndEvolves
  <2>3. \A t \in Sessions : sess'[t].st = "live" => sess[t].st = "live"
    BY <1>2, <2>1 DEF SessOK
  <2> QED BY <1>4, <2>1, <2>2, <2>3
<1>9. ASSUME NEW s \in Sessions, SocketCloses(s) PROVE Sound'
  <2>1. /\ UNCHANGED <<sess, call, wire>> /\ sess[s].st # "live"
        /\ Save(Terminated(leases, s)) \/ UNCHANGED <<leases, disk>>
    BY <1>9 DEF SocketCloses
  <2>2. Evolves(sess, sess') BY <1>2, <2>1, SameSessions
  <2>3. \A t \in Sessions : sess'[t].st = "live" => sess[t].st = "live" /\ t # s BY <2>1
  <2> QED BY <1>4, <1>5, <2>1, <2>2, <2>3
<1>10. ASSUME NEW n \in Remotes, RemoteRestarts(n) PROVE Sound'
  <2>1. sess' = Killed(n) /\ wire' \subseteq wire /\ UNCHANGED <<leases, disk, call>>
    BY <1>10 DEF RemoteRestarts
  <2>2. /\ Evolves(sess, sess')
        /\ \A t \in Sessions : sess'[t].st = "live" => sess[t].st = "live"
    BY <1>2, <2>1, KilledEvolves
  <2> QED BY <1>4, <2>1, <2>2
<1> QED BY <1>6, <1>7, <1>8, <1>9, <1>10

(* A remote node starts a session: for the call that waits for it. *)
LEMMA RemoteStartsSound ==
  ASSUME Inv, Quiet, UNCHANGED queueVars, ~mishap', NEW m \in wire, RemoteStarts(m)
  PROVE  Sound'
<1>1. Sound /\ FleetInv /\ QueueInv BY DEF Inv
<1>2. PICK s \in Sessions :
       /\ StartOn(m.at, m.req, s)
       /\ call' = [d \in Callers |-> IF d \in Waiting(m.at) /\ call[d].req = m.req
                                     THEN [call[d] EXCEPT !.session = s] ELSE call[d]]
  BY DEF RemoteStarts
<1>3. UNCHANGED <<leases, disk>> /\ wire' = wire \ {m} BY DEF RemoteStarts
<1>4. /\ wire \subseteq [req : Requests, at : Remotes] /\ m.req \in Requests /\ m.at \in Remotes
      /\ m.at \in Nodes
  BY <1>1 DEF FleetInv, FleetOK, Nodes
<1>5. PICK c \in Callers : Waits(c, m) BY <1>1 DEF Sound, WireOK
<1>6. /\ call[c].pc = "sent" /\ call[c].req = m.req /\ call[c].at = m.at
      /\ call[c].session = None /\ Asked(c) /\ c \in Waiting(m.at)
  BY <1>5 DEF Waits, Asked, Waiting
<1>7. \A d \in Callers : d \in Waiting(m.at) /\ call[d].req = m.req => d = c
  BY <1>1, <1>4, <1>6, FleetAssumption DEF FleetInv, CallInv, Alone, Asks, Active, Waiting
<1>8. \A d \in Callers : d # c => call'[d] = call[d] BY <1>2, <1>7
<1>9. /\ call'[c].session = s /\ call'[c].pc = "sent" /\ call'[c].req = m.req
  <2>1. call[c] \in CallRec BY <1>1 DEF FleetInv, CallInv, CallsOK
  <2> QED BY <1>2, <1>6, <2>1 DEF CallRec
<1>10. /\ WorkOf[sess'[s].req] = WorkOf[m.req] /\ Single'
       /\ \A t \in Sessions : sess'[t].st = "live" => t = s \/ sess[t].st = "live"
  <2>1. StartOn(m.at, call[c].req, s) BY <1>2, <1>6
  <2> QED BY <1>4, <1>6, <2>1, StartOnSound
<1>11. Evolves(sess, sess') BY <1>1, <1>2, <1>4, StartEvolves DEF FleetInv, FleetOK
<1>12. UNCHANGED <<pending, deadLetters, acknowledged, accepted, current, refused>>
  BY DEF queueVars
<1>13. Soundly(leases)' /\ Soundly(disk)'
  BY <1>1, <1>3, <1>11, <1>12, EvolveSound DEF Sound, Soundly
<1>14. AnswerOK'
  <2>1. \A d \in Callers : call[d].session # None =>
          WorkOf[sess'[call[d].session].req] = WorkOf[call[d].req]
    BY <1>1, <1>11, EvolveSound
  <2> QED BY <1>8, <1>9, <1>10, <2>1 DEF AnswerOK
<1>15. StartFree' BY <1>1, <1>3, <1>6, <1>8, <1>9 DEF Sound, StartFree, Asked
<1>16. WireOK'
  <2>1. SUFFICES ASSUME NEW p \in wire, p # m PROVE \E d \in Callers : Waits(d, p)'
    BY <1>3 DEF WireOK
  <2>2. PICK d \in Callers : Waits(d, p) BY <1>1 DEF Sound, WireOK
  <2>3. p = [req |-> p.req, at |-> p.at] /\ m = [req |-> m.req, at |-> m.at] BY <1>4
  <2>4. d # c BY <1>6, <2>1, <2>2, <2>3 DEF Waits
  <2> QED BY <1>8, <2>2, <2>4 DEF Waits
<1>17. Tracked'
  <2>1. SUFFICES ASSUME NEW t \in Sessions, sess'[t].st = "live"
                 PROVE  Held(leases, t) \/ \E d \in Callers : Answers(d, t)'
    BY <1>3 DEF Tracked, Live
  <2>2. CASE t = s BY <1>9, <2>2 DEF Answers
  <2>3. CASE sess[t].st = "live"
    <3>1. t # None BY DEF Sessions, None
    <3>2. \A d \in Callers : Answers(d, t) => Answers(d, t)' BY <1>6, <1>8, <3>1 DEF Answers
    <3> QED BY <1>1, <2>3, <3>2 DEF Sound, Tracked, Live
  <2> QED BY <1>10, <2>1, <2>2, <2>3
<1>18. CurrentGone(leases)'
  <2>1. call'[Queue].pc = call[Queue].pc BY <1>6, <1>8, <1>9, EventsAssumption
  <2> QED BY <1>1, <1>3, <1>11, <1>12, <2>1, EvolveSound DEF Sound, CurrentGone
<1>19. TurnOK' BY <1>8, <1>9 DEF TurnOK, Quiet
<1>20. Settled' BY <1>1, <1>11, EvolveSound
<1> QED BY <1>10, <1>13, <1>14, <1>15, <1>16, <1>17, <1>18, <1>19, <1>20 DEF Sound

(* The server restarts. *)
LEMMA RestartSound == ASSUME Inv, ~mishap', ServerRestarts PROVE Sound'
<1>1. Sound /\ FleetInv /\ QueueInv BY DEF Inv
<1>2. /\ sess' = Killed(Local) /\ leases' = disk /\ UNCHANGED <<disk, wire>> /\ wire = {}
      /\ call' = [c \in Callers |-> Idle] /\ current' = NoRequest
      /\ \A c \in Callers : call[c].pc = "sent" => call[c].session = None
      /\ UNCHANGED <<pending, deadLetters, acknowledged, accepted, refused>>
  BY DEF ServerRestarts, Restart, storeVars
<1>3. \A c \in Callers : call'[c] = Idle BY <1>2
<1>4. /\ Evolves(sess, sess')
      /\ \A t \in Sessions : sess'[t].st = "live" => sess[t].st = "live"
  BY <1>1, <1>2, KilledEvolves DEF FleetInv, FleetOK
<1>5. Good(disk, sess) /\ DiskAhead(leases, disk) BY <1>1 DEF FleetInv, FleetOK, LeasesOK
<1>6. Soundly(leases)' /\ Soundly(disk)'
  BY <1>1, <1>2, <1>4, <1>5, EvolveOK DEF Sound, Soundly
<1>7. AnswerOK' BY <1>3, IdleFields DEF AnswerOK
<1>8. StartFree' BY <1>3, IdleFields DEF StartFree, Asked
<1>9. WireOK' BY <1>2 DEF WireOK
<1>10. Tracked'
  <2>1. SUFFICES ASSUME NEW t \in Sessions, sess[t].st = "live" PROVE Held(disk, t)
    BY <1>2, <1>4 DEF Tracked, Live
  <2>2. \A c \in Callers : ~Answers(c, t) BY <1>2 DEF Answers, Sessions, None
  <2>3. Held(leases, t) BY <1>1, <2>1, <2>2 DEF Sound, Tracked, Live
  <2> QED BY <1>5, <2>3 DEF Held, Open, DiskAhead
<1>11. CurrentGone(leases)'
  <2>1. NoRequest \notin DOMAIN disk BY <1>5, StoreShape, FleetAssumption DEF Good
  <2> QED BY <1>2, <2>1 DEF CurrentGone
<1>12. TurnOK' BY <1>3, IdleFields DEF TurnOK
<1>13. Single' BY <1>1, <1>4, SingleKept DEF Sound
<1>14. Settled' BY <1>1, <1>2, <1>4, SettledKept DEF Sound
<1> QED BY <1>6, <1>7, <1>8, <1>9, <1>10, <1>11, <1>12, <1>13, <1>14 DEF Sound

-----------------------------------------------------------------------------
(* The queue *)

\* Only the entry of k changes.
Moved(k) ==
  /\ accepted \subseteq accepted' /\ accepted' \subseteq accepted \cup {k}
  /\ refused \subseteq refused'
  /\ \A r : r # k =>
       /\ r \in DOMAIN pending' <=> r \in DOMAIN pending
       /\ r \in DOMAIN pending => pending'[r].started = pending[r].started
       /\ r \in deadLetters' <=> r \in deadLetters
       /\ r \in acknowledged' <=> r \in acknowledged

(* The receipts of other requests stay what they have to be. *)
LEMMA MovedReceipts ==
  ASSUME NEW k \in Keys, Moved(k), NEW L, NEW M,
         ReceiptsOK(L, pending, deadLetters, acknowledged, accepted),
         \A x \in DOMAIN M : x # k => x \in DOMAIN L /\ M[x].retain = L[x].retain,
         k \in DOMAIN M =>
           ReceiptOK(k, M[k].retain, pending', deadLetters', acknowledged', accepted')
  PROVE  ReceiptsOK(M, pending', deadLetters', acknowledged', accepted')
<1>1. ASSUME NEW r \in DOMAIN M, r # k
      PROVE  ReceiptOK(r, M[r].retain, pending', deadLetters', acknowledged', accepted')
  <2>1. ReceiptOK(r, M[r].retain, pending, deadLetters, acknowledged, accepted)
    BY <1>1 DEF ReceiptsOK
  <2> QED BY <1>1, <2>1 DEF ReceiptOK, Moved
<1> QED BY <1>1 DEF ReceiptsOK

\* The store M is L after the receipt of k is released.
Unpinned(L, M, k) ==
  /\ \A x \in DOMAIN M : x \in DOMAIN L /\ (x # k => M[x].retain = L[x].retain)
  /\ k \in DOMAIN M => ~M[k].retain
  /\ \A x \in DOMAIN L : x \in DOMAIN M \/ ~L[x].retain

(* releaseReceipt. *)
LEMMA ReleasedSound ==
  ASSUME NEW S, Good(leases, S), WorkOK(leases, S), NEW k \in Requests
  PROVE  /\ WorkOK(Released(k), S) /\ Unpinned(leases, Released(k), k)
         /\ Narrows(leases, Released(k), None)
<1>1. leases \in Stores BY DEF Good
<1>2. CASE Released(k) = leases /\ (k \in DOMAIN leases => ~leases[k].retain)
  <2>1. Unpinned(leases, leases, k) BY <1>2 DEF Unpinned
  <2> QED BY <1>2, <2>1, SameNarrows
<1>3. ASSUME NEW rec \in Lease, k \in DOMAIN leases,
             rec.session = leases[k].session, rec.work = leases[k].work,
             rec.state = leases[k].state, rec.retain = FALSE,
             Released(k) = Upsert(leases, {k}, rec)
      PROVE  /\ WorkOK(Released(k), S) /\ Unpinned(leases, Released(k), k)
             /\ Narrows(leases, Released(k), None)
  <2> DEFINE M == Upsert(leases, {k}, rec)
  <2>1. rec.work = WorkOf[k] /\ WorkOf[S[rec.session].req] = WorkOf[k]
    BY <1>3 DEF WorkOK
  <2>2. WorkOK(M, S) BY <1>1, <1>3, <2>1, UpsertWork
  <2>3. Upserted(leases, M, {k}, rec) BY <1>1, <1>3, UpsertShape
  <2>4. KeepsHeld(leases, M, {k}, rec.session) BY <1>3, AgainHeld
  <2> HIDE DEF M
  <2>5. k \in DOMAIN M /\ M[k] = rec BY <2>3 DEF Upserted
  <2>6. \A x \in DOMAIN M : x # k => x \in DOMAIN leases /\ M[x].retain = leases[x].retain
                                     /\ M[x].session = leases[x].session
    BY <2>3 DEF Upserted
  <2>7. \A x \in DOMAIN leases : x \in DOMAIN M \/ ~leases[x].retain
    BY <2>3 DEF Upserted
  <2>8. Unpinned(leases, M, k) BY <1>3, <2>5, <2>6, <2>7 DEF Unpinned
  <2>9. ASSUME NEW x \in Open(M) PROVE x \in Open(leases)
    <3>1. x \in DOMAIN M /\ M[x].state \notin Over BY DEF Open
    <3>2. CASE x = k BY <1>3, <2>5, <3>1, <3>2 DEF Open
    <3>3. CASE x # k /\ leases[x].session = rec.session
      <4>1. x \in DOMAIN leases /\ M[x].state = rec.state BY <2>3, <3>1, <3>3 DEF Upserted
      <4>2. leases[x].state = rec.state BY <1>3, <3>3, <4>1 DEF Good
      <4> QED BY <3>1, <4>1, <4>2 DEF Open
    <3>4. CASE x # k /\ leases[x].session # rec.session
      BY <2>3, <3>1, <3>4 DEF Upserted, Open
    <3> QED BY <3>2, <3>3, <3>4
  <2>10. ASSUME NEW t, Held(leases, t) PROVE Held(M, t)
    <3>1. PICK q \in Open(leases) : leases[q].session = t BY <2>10 DEF Held
    <3> QED BY <1>3, <2>4, <3>1 DEF KeepsHeld
  <2>11. Narrows(leases, M, None) BY <1>3, <2>5, <2>6, <2>7, <2>9, <2>10 DEF Narrows
  <2> QED BY <1>3, <2>2, <2>8, <2>11 DEF M
<1> QED BY <1>1, <1>2, <1>3, ReleasedFacts

\* k has a session of its work, or was refused.
SettledKey(k) ==
  \/ k \in refused'
  \/ \E s \in Sessions : sess[s].st # "none" /\ WorkOf[sess[s].req] = WorkOf[k]

\* The receipt of k may stay as it is, whatever it is.
StaysOK(k) ==
  \A b \in BOOLEAN :
    ReceiptOK(k, b, pending, deadLetters, acknowledged, accepted)
      => ReceiptOK(k, b, pending', deadLetters', acknowledged', accepted')

(* A step of the queue: the receipt of an event is released when the event  *)
(* is over, or stays.                                                       *)
LEMMA QueueSound ==
  ASSUME Inv, Quiet, UNCHANGED <<sess, wire>>, NEW k \in Keys, Moved(k),
         \A d \in Callers : \/ call'[d] = call[d]
                            \/ call'[d] = Idle /\ call[d].pc \in {"done", "failed"},
         \/ /\ Save(Released(k))
            /\ k \in accepted' /\ k \notin DOMAIN pending' \cup deadLetters'
         \/ UNCHANGED <<leases, disk>> /\ StaysOK(k),
         k \in DOMAIN pending' \cup deadLetters' \/ SettledKey(k),
         \/ current' = NoRequest
         \/ current' = current /\ UNCHANGED call
         \/ current' \in DOMAIN leases => sess[leases[current'].session].st = "gone"
  PROVE  Sound'
<1>1. Sound /\ FleetInv /\ QueueInv BY DEF Inv
<1>2. k \in Requests BY EventsAssumption
<1>3. /\ Good(leases, sess) /\ DiskAhead(leases, disk) /\ Good(disk, sess)
      /\ WorkOK(leases, sess) /\ WorkOK(disk, sess)
      /\ ReceiptsOK(leases, pending, deadLetters, acknowledged, accepted)
      /\ ReceiptsOK(disk, pending, deadLetters, acknowledged, accepted)
  BY <1>1 DEF FleetInv, FleetOK, LeasesOK, Sound, Soundly
<1>4. Soundly(leases)' /\ Soundly(disk)' /\ Narrows(leases, leases', None)
  <2>1. CASE UNCHANGED <<leases, disk>> /\ StaysOK(k)
    <3>1. ASSUME NEW L, Good(L, sess), ReceiptsOK(L, pending, deadLetters, acknowledged, accepted)
          PROVE  ReceiptsOK(L, pending', deadLetters', acknowledged', accepted')
      <4>1. k \in DOMAIN L => L[k].retain \in BOOLEAN BY <3>1, StoreShape DEF Good, Lease
      <4>2. k \in DOMAIN L =>
              ReceiptOK(k, L[k].retain, pending, deadLetters, acknowledged, accepted)
        BY <3>1 DEF ReceiptsOK
      <4>3. k \in DOMAIN L =>
              ReceiptOK(k, L[k].retain, pending', deadLetters', acknowledged', accepted')
        BY <2>1, <4>1, <4>2 DEF StaysOK
      <4> QED BY <3>1, <4>3, MovedReceipts
    <3>2. Soundly(leases)' /\ Soundly(disk)' BY <1>3, <2>1, <3>1 DEF Soundly
    <3> QED BY <2>1, <3>2, SameNarrows
  <2>2. CASE /\ Save(Released(k))
             /\ k \in accepted' /\ k \notin DOMAIN pending' \cup deadLetters'
    <3> DEFINE M == Released(k)
    <3>1. WorkOK(M, sess) /\ Unpinned(leases, M, k) /\ Narrows(leases, M, None)
      BY <1>2, <1>3, ReleasedSound
    <3>2. Save(M) BY <2>2
    <3> HIDE DEF M
    <3>3. \A b : ~b => ReceiptOK(k, b, pending', deadLetters', acknowledged', accepted')
      BY <2>2 DEF ReceiptOK
    <3>4. ReceiptsOK(M, pending', deadLetters', acknowledged', accepted')
      BY <1>3, <3>1, <3>3, MovedReceipts DEF Unpinned
    <3>5. leases' = M BY <3>2 DEF Save
    <3>6. Soundly(leases)' BY <3>1, <3>4, <3>5 DEF Soundly
    <3>7. CASE M # leases
      <4>1. disk' = M BY <3>2, <3>7 DEF Save
      <4> QED BY <3>1, <3>4, <3>5, <3>6, <4>1 DEF Soundly
    <3>8. CASE M = leases
      <4>1. disk' = disk BY <3>2, <3>8 DEF Save
      <4>2. k \in DOMAIN disk => ~disk[k].retain
        BY <1>3, <3>1, <3>8 DEF Unpinned, DiskAhead
      <4>3. ReceiptsOK(disk, pending', deadLetters', acknowledged', accepted')
        BY <1>3, <3>3, <4>2, MovedReceipts
      <4> QED BY <1>3, <3>1, <3>5, <3>6, <4>1, <4>3 DEF Soundly
    <3> QED BY <3>7, <3>8
  <2> QED BY <2>1, <2>2
<1>5. AnswerOK' BY <1>1, IdleFields DEF Sound, AnswerOK
<1>6. \A d \in Callers : Asked(d)' => call'[d] = call[d] /\ Asked(d) BY IdleFields DEF Asked
<1>7. StartFree' BY <1>1, <1>4, <1>6 DEF Sound, StartFree, Narrows
<1>8. WireOK'
  <2>1. \A d \in Callers, m \in wire : Waits(d, m) => Waits(d, m)' BY DEF Waits
  <2> QED BY <1>1, <2>1 DEF Sound, WireOK
<1>9. Tracked'
  <2>1. \A d \in Callers, t \in Sessions : Answers(d, t) => Answers(d, t)' BY DEF Answers
  <2>2. \A t \in Sessions : Held(leases, t) => Held(leases', t)
    BY <1>4 DEF Narrows, Sessions, None
  <2> QED BY <1>1, <2>1, <2>2 DEF Sound, Tracked, Live
<1>10. CurrentGone(leases)'
  <2>1. \A x \in DOMAIN leases' : x \in DOMAIN leases /\ leases'[x].session = leases[x].session
    BY <1>4 DEF Narrows
  <2>2. CASE current' = NoRequest
    <3>1. NoRequest \notin DOMAIN leases BY <1>3, StoreShape, FleetAssumption DEF Good
    <3> QED BY <2>1, <2>2, <3>1 DEF CurrentGone
  <2>3. CASE current' = current /\ UNCHANGED call
    BY <1>1, <2>1, <2>3 DEF Sound, CurrentGone
  <2>4. CASE current' \in DOMAIN leases => sess[leases[current'].session].st = "gone"
    BY <2>1, <2>4 DEF CurrentGone
  <2> QED BY <2>2, <2>3, <2>4
<1>11. TurnOK' BY IdleFields DEF TurnOK, Quiet
<1>12. Single' BY <1>1 DEF Sound, Single, Live
<1>13. Settled' BY <1>1 DEF Sound, Settled, Moved, SettledKey
<1> QED BY <1>4, <1>5, <1>7, <1>8, <1>9, <1>10, <1>11, <1>12, <1>13 DEF Sound

(* complete and failed: the end of an attempt. *)
LEMMA AttemptSound ==
  ASSUME Inv, Quiet, UNCHANGED <<sess, wire>>, NEW k \in DOMAIN pending, NEW e \in Entry,
         pending[k].started => e.started, refused \subseteq refused',
         \A d \in Callers : \/ call'[d] = call[d]
                            \/ call'[d] = Idle /\ call[d].pc \in {"done", "failed"},
         (complete(k, e) /\ SettledKey(k)) \/ failed(k, e)
  PROVE  Sound'
<1>1. Sound /\ FleetInv /\ QueueInv BY DEF Inv
<1>2. /\ k \in Keys /\ k \in accepted /\ k \notin deadLetters /\ k \notin acknowledged
      /\ DOMAIN Without(k) = DOMAIN pending \ {k}
      /\ \A x \in DOMAIN pending \ {k} : Without(k)[x] = pending[x]
  BY <1>1 DEF QueueInv, StoreOK, Without
<1>3. current' = NoRequest /\ UNCHANGED accepted BY DEF complete, failed
<1>4. ASSUME NEW f \in Entry, f.started = e.started, pending' = With(k, f),
             UNCHANGED <<deadLetters, acknowledged, leases, disk>>
      PROVE  Sound'
  <2>1. /\ DOMAIN pending' = DOMAIN pending /\ pending'[k] = f
        /\ \A x \in DOMAIN pending \ {k} : pending'[x] = pending[x]
    BY <1>2, <1>4 DEF With
  <2>2. Moved(k) BY <1>3, <1>4, <2>1 DEF Moved
  <2>3. StaysOK(k) BY <1>2, <1>3, <1>4, <2>1 DEF StaysOK, ReceiptOK
  <2> QED BY <1>2, <1>3, <1>4, <2>1, <2>2, <2>3, QueueSound
<1>5. ASSUME pending' = Without(k), deadLetters' = deadLetters \cup {k},
             UNCHANGED <<acknowledged, leases, disk>>
      PROVE  Sound'
  <2>1. Moved(k) BY <1>2, <1>3, <1>5 DEF Moved
  <2>2. StaysOK(k) BY <1>2, <1>3, <1>5 DEF StaysOK, ReceiptOK
  <2> QED BY <1>2, <1>3, <1>5, <2>1, <2>2, QueueSound
<1>6. ASSUME SettledKey(k), pending' = Without(k), UNCHANGED deadLetters,
             Release(k, acknowledged \cup {k})
      PROVE  Sound'
  <2>1. acknowledged' = acknowledged \cup {k} \/ acknowledged' = (acknowledged \cup {k}) \ {k}
    BY <1>6, ReleaseForgetsOne
  <2>2. Moved(k) BY <1>2, <1>3, <1>6, <2>1 DEF Moved
  <2>3. CASE Save(Released(k)) BY <1>2, <1>3, <1>6, <2>2, <2>3, QueueSound
  <2>4. CASE acknowledged' = acknowledged \cup {k} /\ UNCHANGED <<leases, disk>>
    <3>1. StaysOK(k) BY <1>2, <1>3, <1>6, <2>4 DEF StaysOK, ReceiptOK
    <3> QED BY <1>2, <1>3, <1>6, <2>2, <2>4, <3>1, QueueSound
  <2> QED BY <1>6, <2>3, <2>4 DEF Release
<1>7. CASE complete(k, e) /\ SettledKey(k) BY <1>4, <1>6, <1>7 DEF complete
<1>8. CASE failed(k, e)
  <2>1. [e EXCEPT !.wait = TRUE] \in Entry /\ [e EXCEPT !.wait = TRUE].started = e.started
    BY DEF Entry
  <2> QED BY <1>4, <1>5, <1>8, <2>1 DEF failed
<1> QED BY <1>7, <1>8

(* Deliveries, retries, the beginning of an attempt, releases, the owner. *)
LEMMA StoreSound ==
  ASSUME Inv, Quiet, NEW k \in Keys,
         \/ enqueue(k) \/ RetryDue(k) \/ begin(k) \/ ReplayRelease(k)
         \/ recoverRetry(k) \/ recoverDiscard(k)
  PROVE  Sound'
<1>1. Sound /\ FleetInv /\ QueueInv BY DEF Inv
<1>2. StoreOK BY <1>1 DEF QueueInv
<1>3. CASE enqueue(k)
  <2>1. /\ UNCHANGED <<sess, leases, disk, call, wire, current, deadLetters, acknowledged, refused>>
        /\ k \notin accepted /\ accepted' = accepted \cup {k}
        /\ pending' = With(k, [attempts |-> 0, started |-> FALSE, wait |-> FALSE])
    BY <1>3 DEF enqueue, fleetVars
  <2>2. DOMAIN pending' = DOMAIN pending \cup {k}
        /\ \A x \in DOMAIN pending : x # k => pending'[x] = pending[x]
    BY <2>1 DEF With
  <2>3. Moved(k) BY <2>1, <2>2 DEF Moved
  <2>4. StaysOK(k) BY <2>1 DEF StaysOK, ReceiptOK
  <2> QED BY <2>1, <2>2, <2>3, <2>4, QueueSound
<1>4. CASE RetryDue(k)
  <2>1. /\ UNCHANGED <<sess, leases, disk, call, wire, current, deadLetters, acknowledged,
                       accepted, refused>>
        /\ k \in DOMAIN pending /\ pending' = [pending EXCEPT ![k].wait = FALSE]
    BY <1>4 DEF RetryDue, fleetVars
  <2>2. /\ DOMAIN pending' = DOMAIN pending /\ pending'[k].started = pending[k].started
        /\ \A x \in DOMAIN pending : x # k => pending'[x] = pending[x]
    BY <1>2, <2>1 DEF StoreOK, Entry
  <2>3. Moved(k) BY <2>1, <2>2 DEF Moved
  <2>4. StaysOK(k) BY <2>1, <2>2 DEF StaysOK, ReceiptOK
  <2> QED BY <2>1, <2>2, <2>3, <2>4, QueueSound
<1>5. CASE begin(k)
  <2> DEFINE entry == pending[k]
             reserved == entry.attempts < MaxAttempts
             next == IF reserved
                     THEN [attempts |-> entry.attempts + 1, started |-> TRUE, wait |-> TRUE]
                     ELSE entry
             previous == IF entry.started /\ k \in DOMAIN leases THEN leases[k].state
                         ELSE "missing"
  <2>1. /\ current = NoRequest /\ k \in DOMAIN pending
        /\ UNCHANGED <<refused, sess, call, wire, conn, mishap>>
        /\ \/ previous \in {"running", "terminal"} /\ complete(k, next)
           \/ failed(k, next)
           \/ /\ previous \in {"missing", "expired"} /\ reserved
              /\ pending' = With(k, next) /\ current' = k
              /\ UNCHANGED <<deadLetters, acknowledged, accepted, leases, disk>>
    BY <1>5 DEF begin
  <2>2. entry \in Entry BY <1>2, <2>1 DEF StoreOK
  <2>3. next \in Entry /\ (entry.started => next.started) /\ (reserved => next.started)
    BY <2>2, EventsAssumption DEF Entry
  <2> HIDE DEF next
  <2>4. CASE previous \in {"running", "terminal"} /\ complete(k, next)
    <3>1. k \in DOMAIN leases BY <2>4
    <3>2. /\ Used(sess, leases[k].session) /\ WorkOf[sess[leases[k].session].req] = WorkOf[k]
      BY <1>1, <3>1 DEF FleetInv, FleetOK, LeasesOK, Good, Sound, Soundly, WorkOK
    <3>3. SettledKey(k) BY <3>2 DEF SettledKey, Used
    <3> QED BY <2>1, <2>3, <2>4, <3>3, AttemptSound
  <2>5. CASE failed(k, next) BY <2>1, <2>3, <2>5, AttemptSound
  <2>6. CASE /\ previous \in {"missing", "expired"} /\ reserved
             /\ pending' = With(k, next) /\ current' = k
             /\ UNCHANGED <<deadLetters, acknowledged, accepted, leases, disk>>
    <3>1. /\ DOMAIN pending' = DOMAIN pending /\ pending'[k] = next
          /\ \A x \in DOMAIN pending : x # k => pending'[x] = pending[x]
      BY <2>1, <2>6 DEF With
    <3>2. Moved(k) BY <2>1, <2>6, <3>1 DEF Moved
    <3>3. StaysOK(k) BY <2>1, <2>3, <2>6, <3>1 DEF StaysOK, ReceiptOK
    <3>4. k \in DOMAIN leases => sess[leases[k].session].st = "gone"
      <4>1. SUFFICES ASSUME k \in DOMAIN leases PROVE sess[leases[k].session].st = "gone"
        OBVIOUS
      <4>2. entry.started BY <1>1, <2>1, <4>1 DEF Sound, Soundly, ReceiptsOK, ReceiptOK
      <4>3. leases[k] \in Lease
        BY <1>1, <4>1, StoreShape DEF FleetInv, FleetOK, LeasesOK, Good
      <4>4. leases[k].state = "expired" BY <2>6, <4>1, <4>2, <4>3 DEF Lease, LeaseStates
      <4> QED BY <1>1, <4>1, <4>4 DEF FleetInv, FleetOK, LeasesOK, Good
    <3> QED BY <2>1, <2>6, <3>1, <3>2, <3>3, <3>4, QueueSound
  <2> QED BY <2>1, <2>4, <2>5, <2>6
<1>6. CASE ReplayRelease(k)
  <2>1. /\ UNCHANGED <<sess, call, wire, current, pending, deadLetters, accepted, refused>>
        /\ k \in acknowledged /\ Release(k, acknowledged)
    BY <1>6 DEF ReplayRelease
  <2>2. k \in accepted /\ k \notin DOMAIN pending \cup deadLetters BY <1>2, <2>1 DEF StoreOK
  <2>3. acknowledged' = acknowledged \/ acknowledged' = acknowledged \ {k}
    BY <2>1, ReleaseForgetsOne
  <2>4. Moved(k) BY <2>1, <2>3 DEF Moved
  <2>5. SettledKey(k) BY <1>1, <2>1, <2>2 DEF Sound, Settled, SettledKey
  <2>6. CASE Save(Released(k)) BY <2>1, <2>2, <2>4, <2>5, <2>6, QueueSound
  <2>7. CASE UNCHANGED <<leases, disk, acknowledged>>
    <3>1. StaysOK(k) BY <2>1, <2>7 DEF StaysOK
    <3> QED BY <2>1, <2>4, <2>5, <2>7, <3>1, QueueSound
  <2> QED BY <2>1, <2>6, <2>7 DEF Release
<1>7. CASE recoverRetry(k)
  <2>1. /\ UNCHANGED <<sess, leases, disk, call, wire, current, acknowledged, accepted, refused>>
        /\ k \in deadLetters /\ deadLetters' = deadLetters \ {k}
        /\ pending' = With(k, [attempts |-> 0, started |-> TRUE, wait |-> FALSE])
    BY <1>7 DEF recoverRetry, fleetVars
  <2>2. /\ DOMAIN pending' = DOMAIN pending \cup {k} /\ pending'[k].started = TRUE
        /\ \A x \in DOMAIN pending : x # k => pending'[x] = pending[x]
    BY <2>1 DEF With
  <2>3. Moved(k) BY <2>1, <2>2 DEF Moved
  <2>4. StaysOK(k) BY <2>1, <2>2 DEF StaysOK, ReceiptOK
  <2> QED BY <2>1, <2>2, <2>3, <2>4, QueueSound
<1>8. CASE recoverDiscard(k)
  <2>1. /\ UNCHANGED <<sess, call, wire, current, pending, accepted>>
        /\ k \in deadLetters /\ deadLetters' = deadLetters \ {k}
        /\ refused' = refused \cup {k} /\ Release(k, acknowledged \cup {k})
    BY <1>8 DEF recoverDiscard
  <2>2. k \in accepted /\ k \notin DOMAIN pending /\ k \notin acknowledged
    BY <1>2, <2>1 DEF StoreOK
  <2>3. acknowledged' = acknowledged \cup {k} \/ acknowledged' = (acknowledged \cup {k}) \ {k}
    BY <2>1, ReleaseForgetsOne
  <2>4. Moved(k) BY <2>1, <2>2, <2>3 DEF Moved
  <2>5. SettledKey(k) BY <2>1 DEF SettledKey
  <2>6. CASE Save(Released(k)) BY <2>1, <2>2, <2>4, <2>5, <2>6, QueueSound
  <2>7. CASE UNCHANGED <<leases, disk>> /\ acknowledged' = acknowledged \cup {k}
    <3>1. StaysOK(k) BY <2>1, <2>2, <2>7 DEF StaysOK, ReceiptOK
    <3> QED BY <2>1, <2>4, <2>5, <2>7, <3>1, QueueSound
  <2> QED BY <2>1, <2>6, <2>7 DEF Release
<1> QED BY <1>3, <1>4, <1>5, <1>6, <1>7, <1>8

(* dispatchGitLabEvent. *)
LEMMA IntakeSound ==
  ASSUME Inv, Quiet, NoAnswer, Intake, FleetInv'
  PROVE  Sound'
<1>1. Sound /\ FleetInv /\ QueueInv BY DEF Inv
<1>2. /\ current \in DOMAIN pending /\ current \in Requests /\ pending[current] \in Entry
  BY <1>1, EventsAssumption DEF Intake, QueueInv, StoreOK
<1>3. CASE /\ refused' = refused \cup {current} /\ complete(current, pending[current])
           /\ UNCHANGED <<sess, call, wire, conn, mishap>>
  <2>1. SettledKey(current) BY <1>3 DEF SettledKey
  <2> QED BY <1>2, <1>3, <2>1, AttemptSound
<1>4. CASE /\ failed(current, pending[current])
           /\ UNCHANGED <<refused, sess, call, wire, conn, mishap>>
  BY <1>2, <1>4, AttemptSound
<1>5. CASE startSession(Queue, current, TRUE) /\ UNCHANGED queueVars
  BY <1>2, <1>5, StartSound, EventsAssumption
<1> QED BY <1>3, <1>4, <1>5 DEF Intake

(* The queue has the fleet's answer. *)
LEMMA AnsweredSound == ASSUME Inv, Answered PROVE Sound'
<1>1. Sound /\ FleetInv /\ QueueInv BY DEF Inv
<1>2. /\ call[Queue].pc \in {"done", "failed"} /\ call' = [call EXCEPT ![Queue] = Idle]
      /\ UNCHANGED <<refused, sess, wire, conn, mishap>>
      /\ \/ call[Queue].pc = "done" /\ complete(current, pending[current])
         \/ failed(current, pending[current])
  BY DEF Answered
<1>3. /\ current \in DOMAIN pending /\ pending[current] \in Entry
  BY <1>1, <1>2 DEF QueueInv, StoreOK
<1>4. Quiet BY <1>1, <1>2 DEF FleetInv, CallInv, Alone
<1>5. \A d \in Callers : \/ call'[d] = call[d]
                         \/ call'[d] = Idle /\ call[d].pc \in {"done", "failed"}
  BY <1>1, <1>2 DEF FleetInv, CallInv, CallsOK
<1>6. ASSUME call[Queue].pc = "done" PROVE SettledKey(current)
  <2>1. /\ call[Queue].session # None /\ Used(sess, call[Queue].session)
        /\ call[Queue].req = current
    BY <1>1, <1>6, EventsAssumption DEF FleetInv, CallInv, CallsOK, CallOK, CallsOwn
  <2>2. WorkOf[sess[call[Queue].session].req] = WorkOf[current]
    BY <1>1, <2>1, EventsAssumption DEF Sound, AnswerOK
  <2> QED BY <2>1, <2>2 DEF SettledKey, Used
<1> QED BY <1>2, <1>3, <1>4, <1>5, <1>6, AttemptSound

-----------------------------------------------------------------------------
(* The invariant and what follows from it *)

(* Nothing undoes a mishap. *)
LEMMA MishapStays == ASSUME FleetInv, [Next]_vars, mishap PROVE mishap'
<1>1. CASE Answered BY <1>1 DEF Answered
<1>2. CASE ServerRestarts BY <1>2 DEF ServerRestarts, Restart
<1>3. ASSUME NEW c \in Callers, CallStep(c) PROVE mishap'
  BY <1>3 DEF CallStep, Probed, ReconcileLease, reconcileLeases, StartHere, StartThere,
     Started, StartTimesOut
<1>4. CASE NodeStep
  BY <1>4 DEF NodeStep, RemoteStarts, RemoteRefuses, SessionEnds, Forgotten, SocketCloses,
     RemoteRestarts
<1>5. CASE Others BY <1>5 DEF Others, startSession, welcome, Reconciles
<1>6. ASSUME NEW k \in Keys, \/ enqueue(k) \/ RetryDue(k) \/ begin(k) \/ ReplayRelease(k)
                             \/ recoverRetry(k) \/ recoverDiscard(k)
      PROVE  mishap'
  BY <1>6 DEF enqueue, RetryDue, begin, ReplayRelease, recoverRetry, recoverDiscard, fleetVars
<1>7. CASE Intake BY <1>7 DEF Intake, startSession, Reconciles
<1>8. CASE UNCHANGED vars BY <1>8 DEF vars, fleetVars
<1> QED BY <1>1, <1>2, <1>3, <1>4, <1>5, <1>6, <1>7, <1>8 DEF Next

(* Without a mishap every step keeps what the coordinator promises. *)
LEMMA SoundStep == ASSUME Inv, [Next]_vars, ~mishap' PROVE Sound'
<1>1. QueueInv /\ FleetInv BY DEF Inv
<1>2. FleetInv' BY <1>1, FleetStepInv
<1>3. ASSUME NoAnswer, NEW c \in Callers, Quiet \/ call[c].pc = "write", CallStep(c),
             UNCHANGED queueVars
      PROVE  Sound'
  <2>1. CASE call[c].pc = "write"
    <3>1. ReconcileLease(c) \/ reconcileLeases(c)
      BY <1>3, <2>1 DEF CallStep, Probed, StartHere, StartThere, Started, StartTimesOut
    <3> QED BY <1>3, <3>1, ReconcileLeaseSound, ReconcileEndSound
  <2>2. CASE Quiet
    BY <1>2, <1>3, <2>2, ProbedSound, ReconcileLeaseSound, ReconcileEndSound, StartHereSound,
       StartThereSound, StartedSound, TimesOutSound DEF CallStep
  <2> QED BY <1>3, <2>1, <2>2
<1>4. CASE Quiet /\ NodeStep /\ UNCHANGED queueVars
  BY <1>4, RemoteStartsSound, NodesSound DEF NodeStep
<1>5. CASE NoAnswer /\ Quiet /\ Others /\ UNCHANGED queueVars
  <2>1. PICK c \in Callers \ {Queue} :
          (\E r \in Requests \ Keys : startSession(c, r, FALSE)) \/ welcome(c)
    BY <1>5 DEF Others
  <2> QED BY <1>2, <1>5, <2>1, StartSound
<1>6. ASSUME Quiet, NEW k \in Keys,
             \/ enqueue(k) \/ RetryDue(k) \/ begin(k) \/ ReplayRelease(k)
             \/ recoverRetry(k) \/ recoverDiscard(k)
      PROVE  Sound'
  BY <1>6, StoreSound
<1>7. CASE NoAnswer /\ Quiet /\ Intake BY <1>2, <1>7, IntakeSound
<1>8. CASE UNCHANGED vars
  <2>1. /\ UNCHANGED <<sess, leases, disk, call, wire>>
        /\ UNCHANGED <<pending, deadLetters, acknowledged, accepted, current, refused>>
    BY <1>8 DEF vars, fleetVars, queueVars
  <2> QED BY <2>1 DEF Inv, Sound, Soundly, AnswerOK, StartFree, Asked, WireOK, Waits, Tracked,
             Answers, Live, CurrentGone, TurnOK, Turn, Single, Settled
<1> QED BY <1>3, <1>4, <1>5, <1>6, <1>7, <1>8, AnsweredSound, RestartSound DEF Next, NoAnswer

(* Nothing is promised at first. *)
LEMMA InitSound == Init => Sound
<1> SUFFICES ASSUME Init PROVE Sound OBVIOUS
<1>1. /\ leases = <<>> /\ disk = <<>> /\ wire = {} /\ call = [c \in Callers |-> Idle]
      /\ \A s \in Sessions : sess[s].st = "none"
      /\ accepted = {}
  BY DEF Init, FleetInit
<1>2. DOMAIN leases = {} /\ DOMAIN disk = {} BY <1>1, EmptyGood
<1>3. Soundly(leases) /\ Soundly(disk) BY <1>2 DEF Soundly, WorkOK, ReceiptsOK
<1>4. \A c \in Callers : call[c].pc = "idle" /\ call[c].session = None BY <1>1, IdleFields
<1>5. AnswerOK /\ StartFree /\ WireOK /\ TurnOK
  BY <1>1, <1>4 DEF AnswerOK, StartFree, Asked, WireOK, TurnOK
<1>6. Tracked /\ Single BY <1>1 DEF Tracked, Single, Live
<1>7. CurrentGone(leases) /\ Settled BY <1>1, <1>2 DEF CurrentGone, Settled
<1> QED BY <1>3, <1>5, <1>6, <1>7 DEF Sound

(* The inductive invariant: until a mishap the coordinator keeps what it    *)
(* promises.                                                                *)
LEMMA SoundInvariant == Spec => [](QueueInv /\ FleetInv /\ (mishap \/ Sound))
<1>1. Init => mishap \/ Sound BY InitSound
<1>2. QueueInv /\ FleetInv /\ (mishap \/ Sound) /\ [Next]_vars => (mishap \/ Sound)'
  BY SoundStep, MishapStays DEF Inv
<1> QED BY <1>1, <1>2, InitQueue, InitFleet, QueueStep, FleetStepInv, PTL DEF Spec

(* No two sessions of the same work run at once, however requests race,     *)
(* fail and repeat, unless the coordinator lost sight of one.               *)
THEOREM OneSession == Spec => []OneSessionPerWork
<1>1. mishap \/ Sound => OneSessionPerWork BY DEF OneSessionPerWork, Sound, Single
<1> QED BY <1>1, SoundInvariant, PTL

(* An event that left the store for good was refused or has a session of    *)
(* its work.                                                                *)
THEOREM EventsNotSkipped == Spec => []NoEventSkipped
<1>1. mishap \/ Sound => NoEventSkipped BY DEF NoEventSkipped, Sound, Settled
<1> QED BY <1>1, SoundInvariant, PTL

(* No lease stays pinned for an event that is over. *)
THEOREM PinsReleased == Spec => []NoPinLeft
<1>1. mishap \/ Sound => NoPinLeft
  BY DEF NoPinLeft, Sound, Soundly, ReceiptsOK, ReceiptOK
<1> QED BY <1>1, SoundInvariant, PTL

(* A lease names a session that does its own work, until a mishap. *)
THEOREM LeasesOfTheirWork == Spec => [](mishap \/ LeaseNamesItsWork)
<1>1. mishap \/ Sound => mishap \/ LeaseNamesItsWork
  BY DEF LeaseNamesItsWork, Sound, Soundly, WorkOK
<1> QED BY <1>1, SoundInvariant, PTL

-----------------------------------------------------------------------------
(* Receipts *)

\* No pinned lease of L is missing in M.
PinsKept(L, M) == \A x \in DOMAIN L : L[x].retain => x \in DOMAIN M

(* LeaseStore.upsert keeps pinned leases. *)
LEMMA UpsertPins ==
  ASSUME NEW L \in Stores, NEW R \in SUBSET Requests, NEW rec \in Lease
  PROVE  PinsKept(L, Upsert(L, R, rec))
<1>1. Upserted(L, Upsert(L, R, rec), R, rec) BY UpsertShape
<1> QED BY <1>1 DEF Upserted, PinsKept

(* No write of the coordinator drops a pinned lease. *)
LEMMA CallPins ==
  ASSUME FleetInv, NEW c \in Callers, CallStep(c)
  PROVE  PinsKept(leases, leases')
<1>1. leases \in Stores /\ Good(leases, sess) BY DEF FleetInv, FleetOK, LeasesOK, Good
<1>2. CASE UNCHANGED leases BY <1>2 DEF PinsKept
<1>3. CASE ReconcileLease(c)
  <2>1. ASSUME NEW r \in DOMAIN call[c].todo,
               Save(Upsert(leases, {r}, Reconciled(call[c].todo[r], call[c].seen)))
        PROVE  PinsKept(leases, leases')
    <3> DEFINE T == call[c].todo
               rec == Reconciled(T[r], call[c].seen)
    <3>1. T \in Stores BY DEF FleetInv, CallInv, CallsOK, CallOK, Good
    <3>2. r \in Requests /\ T[r] \in Lease BY <2>1, <3>1, StoreShape
    <3>3. rec \in Lease BY <3>2, ReconciledFacts
    <3>4. leases' = Upsert(leases, {r}, rec) BY <2>1 DEF Save
    <3> HIDE DEF rec
    <3> QED BY <1>1, <3>2, <3>3, <3>4, UpsertPins
  <2> QED BY <1>2, <1>3, <2>1 DEF ReconcileLease
<1>4. CASE reconcileLeases(c)
  <2>1. PICK old \in SUBSET Droppable(leases) :
          AfterReconcile(c, call[c], Dropped(leases, old)) \/ leases' = Dropped(leases, old)
    BY <1>4 DEF reconcileLeases, Save
  <2> DEFINE L == Dropped(leases, old)
  <2>2. /\ L \in Stores /\ DOMAIN L = DOMAIN leases \ old
        /\ \A x \in DOMAIN L : L[x] = leases[x]
    BY <1>1, DropFacts
  <2> HIDE DEF L
  <2>3. PinsKept(leases, L) BY <2>2 DEF PinsKept, Droppable
  <2>4. ASSUME call[c].req # NoRequest, NEW y \in Answer(L, call[c].req),
               Save(Pinned(L, Receipts({call[c]} \cup JoinedCalls(c)), L[y].session))
        PROVE  PinsKept(leases, leases')
    <3> DEFINE R == Receipts({call[c]} \cup JoinedCalls(c))
               s == L[y].session
    <3>1. call[c].req \in Requests BY <2>4 DEF FleetInv, CallInv, CallsOK, CallRec
    <3>2. R \in SUBSET Requests BY <3>1, ReceiptsShape
    <3>3. y \in Of(L, s) BY <2>4 DEF Answer, Open, Of
    <3>4. leases' = Pinned(L, R, s) BY <2>4 DEF Save
    <3> HIDE DEF R, s
    <3>5. PinsKept(L, leases')
      <4>1. CASE Pinned(L, R, s) = L BY <3>4, <4>1 DEF PinsKept
      <4>2. ASSUME NEW x \in Of(L, s), [L[x] EXCEPT !.retain = TRUE] \in Lease,
                   Pinned(L, R, s) = Upsert(L, R, [L[x] EXCEPT !.retain = TRUE])
            PROVE  PinsKept(L, leases')
        BY <2>2, <3>2, <3>4, <4>2, UpsertPins
      <4> QED BY <2>2, <3>2, <3>3, <4>1, <4>2, PinnedFacts
    <3> QED BY <2>2, <2>3, <3>5 DEF PinsKept
  <2> QED BY <2>1, <2>3, <2>4 DEF AfterReconcile, Save, L
<1>5. ASSUME NEW s, Used(sess', s), Asked(c), Evolves(sess, sess'), Record(c, s)
      PROVE  PinsKept(leases, leases')
  <2> DEFINE r == call[c].req
             rec == [session |-> s, work |-> WorkOf[r], state |-> "running",
                     retain |-> call[c].retain]
             R == Receipts(JoinedCalls(c))
             N == Upsert(leases, {r}, rec)
  <2>1. r \in Requests /\ call[c].retain \in BOOLEAN
    BY <1>5 DEF Asked, FleetInv, CallInv, CallsOK, CallOK, CallRec
  <2>2. R \in SUBSET Requests BY ReceiptsShape
  <2>3. rec \in Lease /\ rec.session = s BY <1>5, <2>1 DEF Lease, LeaseStates, Used
  <2>4. leases' = Pinned(N, R, s) \/ leases' = leases BY <1>5 DEF Record, Save
  <2> HIDE DEF rec, R, r
  <2>5. N \in Stores /\ Upserted(leases, N, {r}, rec)
    <3>1. Upserted(leases, N, {r}, rec) BY <1>1, <2>1, <2>3, UpsertShape
    <3>2. N \in Stores BY <1>1, <2>1, <2>3, UpsertStore
    <3> QED BY <3>1, <3>2
  <2> HIDE DEF N
  <2>6. r \in DOMAIN N /\ N[r] = rec BY <2>5 DEF Upserted
  <2>7. r \in Of(N, s) BY <2>3, <2>6 DEF Of
  <2>8. \A x \in DOMAIN leases : leases[x].retain => x \in DOMAIN N /\ (x # r => N[x].retain)
    BY <2>5 DEF Upserted
  <2>9. ASSUME NEW y \in Of(N, s), [N[y] EXCEPT !.retain = TRUE] \in Lease,
               Pinned(N, R, s) = Upsert(N, R, [N[y] EXCEPT !.retain = TRUE])
        PROVE  PinsKept(leases, Pinned(N, R, s))
    <3> DEFINE pin == [N[y] EXCEPT !.retain = TRUE]
    <3>1. N[y] \in Lease /\ N[y].session = s BY <2>5, <2>9, StoreShape DEF Of
    <3>2. pin \in Lease /\ pin.session = s BY <3>1, RetainFields
    <3>3. Pinned(N, R, s) = Upsert(N, R, pin) BY <2>9
    <3> HIDE DEF pin
    <3>4. Upserted(N, Upsert(N, R, pin), R, pin) BY <2>2, <2>5, <3>2, UpsertShape
    <3>5. r \in DOMAIN Upsert(N, R, pin) BY <2>3, <2>6, <3>2, <3>4 DEF Upserted
    <3>6. \A x \in DOMAIN N : N[x].retain => x \in DOMAIN Upsert(N, R, pin)
      BY <3>4 DEF Upserted
    <3> QED BY <2>8, <3>3, <3>5, <3>6 DEF PinsKept
  <2>10. PinsKept(leases, N) BY <2>8 DEF PinsKept
  <2>11. PinsKept(leases, Pinned(N, R, s))
    BY <2>2, <2>5, <2>7, <2>9, <2>10, PinnedFacts
  <2> QED BY <1>2, <2>4, <2>11
<1>6. CASE StartHere(c)
  <2>1. /\ call[c].pc = "select" /\ Asked(c) /\ call[c].req \in Requests
    BY <1>6 DEF StartHere, Asked, FleetInv, CallInv, CallsOK, CallOK
  <2>2. ASSUME NEW s \in Sessions, StartOn(Local, call[c].req, s), Record(c, s)
        PROVE  PinsKept(leases, leases')
    <3>1. Evolves(sess, sess') /\ Used(sess', s)
      BY <2>1, <2>2, StartEvolves DEF Nodes, FleetInv, FleetOK
    <3> QED BY <1>5, <2>1, <2>2, <3>1
  <2> QED BY <1>2, <1>6, <2>2 DEF StartHere
<1>7. CASE Started(c)
  <2>1. /\ call[c].pc = "sent" /\ call[c].session # None /\ UNCHANGED sess
        /\ Record(c, call[c].session)
    BY <1>7 DEF Started
  <2>2. Asked(c) /\ Used(sess, call[c].session)
    BY <2>1 DEF Asked, FleetInv, CallInv, CallsOK, CallOK
  <2>3. Evolves(sess, sess') BY <2>1, SameSessions DEF FleetInv, FleetOK
  <2> QED BY <1>5, <2>1, <2>2, <2>3
<1> QED BY <1>2, <1>3, <1>4, <1>6, <1>7 DEF CallStep, Probed, StartThere, StartTimesOut

(* Nor does the end of a session, a restart or the queue. *)
LEMMA OtherPins ==
  ASSUME QueueInv, FleetInv,
         \/ NodeStep \/ Others \/ ServerRestarts \/ Intake \/ Answered \/ UNCHANGED vars
         \/ \E k \in Keys : \/ enqueue(k) \/ RetryDue(k) \/ begin(k) \/ ReplayRelease(k)
                            \/ recoverRetry(k) \/ recoverDiscard(k)
  PROVE  PinsKept(leases, leases')
<1>1. leases \in Stores /\ DiskAhead(leases, disk) BY DEF FleetInv, FleetOK, LeasesOK, Good
<1>2. CASE UNCHANGED leases BY <1>2 DEF PinsKept
<1>3. ASSUME NEW s, leases' = Terminated(leases, s) PROVE PinsKept(leases, leases')
  <2>1. ASSUME NEW x \in Of(leases, s), [leases[x] EXCEPT !.state = "terminal"] \in Lease,
               leases' = Upsert(leases, {x}, [leases[x] EXCEPT !.state = "terminal"])
        PROVE  PinsKept(leases, leases')
    <3>1. x \in Requests BY <1>1, <2>1, StoreShape DEF Of
    <3> QED BY <1>1, <2>1, <3>1, UpsertPins
  <2> QED BY <1>1, <1>2, <1>3, <2>1, TerminatedFacts
<1>4. ASSUME NEW k \in Keys, leases' = Released(k) PROVE PinsKept(leases, leases')
  <2>1. k \in Requests BY EventsAssumption
  <2> QED BY <1>1, <1>2, <1>4, <2>1, ReleasedFacts, UpsertPins
<1>5. ASSUME NEW k \in Keys, QueueWrites(k) PROVE PinsKept(leases, leases')
  BY <1>2, <1>4, <1>5 DEF QueueWrites, Save
<1>6. ASSUME NEW k \in Keys, NEW e, complete(k, e) \/ failed(k, e)
      PROVE  PinsKept(leases, leases')
  BY <1>5, <1>6, EndWrites
<1>7. CASE NodeStep
  BY <1>2, <1>3, <1>7 DEF NodeStep, RemoteStarts, RemoteRefuses, SessionEnds, Forgotten,
     SocketCloses, RemoteRestarts, Save
<1>8. CASE Others BY <1>2, <1>8 DEF Others, startSession, welcome, Reconciles
<1>9. CASE ServerRestarts BY <1>1, <1>9 DEF ServerRestarts, Restart, PinsKept, DiskAhead
<1>10. CASE Intake
  <2>1. current \in Keys BY <1>10 DEF Intake, QueueInv, StoreOK
  <2> QED BY <1>2, <1>6, <1>10, <2>1 DEF Intake, startSession, Reconciles
<1>11. CASE Answered
  <2>1. current \in Keys BY <1>11 DEF Answered, QueueInv, StoreOK
  <2> QED BY <1>6, <1>11, <2>1 DEF Answered
<1>12. CASE UNCHANGED vars BY <1>2, <1>12 DEF vars, fleetVars
<1>13. ASSUME NEW k \in Keys, \/ enqueue(k) \/ RetryDue(k) \/ begin(k) \/ ReplayRelease(k)
                              \/ recoverRetry(k) \/ recoverDiscard(k)
       PROVE  PinsKept(leases, leases')
  <2>1. CASE begin(k)
    <3>1. (\E e : complete(k, e) \/ failed(k, e)) \/ UNCHANGED leases BY <2>1 DEF begin
    <3> QED BY <1>2, <1>6, <3>1
  <2>2. CASE ReplayRelease(k) \/ recoverDiscard(k)
    BY <1>5, <2>2 DEF ReplayRelease, recoverDiscard, Release, QueueWrites
  <2>3. CASE enqueue(k) \/ RetryDue(k) \/ recoverRetry(k)
    BY <1>2, <2>3 DEF enqueue, RetryDue, recoverRetry, fleetVars
  <2> QED BY <1>13, <2>1, <2>2, <2>3
<1> QED BY <1>7, <1>8, <1>9, <1>10, <1>11, <1>12, <1>13

(* The receipt of a pending event's session is not forgotten before the     *)
(* event is acknowledged: it is pinned, and no step drops a pinned lease.   *)
THEOREM ReceiptsKept == Spec => ReceiptKept
<1>1. ASSUME QueueInv, FleetInv, mishap \/ Sound, [Next]_vars,
             NEW k \in Keys, k \in DOMAIN pending, k \in DOMAIN leases
      PROVE  k \in DOMAIN leases' \/ mishap'
  <2>1. CASE mishap BY <1>1, <2>1, MishapStays
  <2>2. CASE Sound
    <3>1. leases[k].retain BY <1>1, <2>2 DEF Sound, Soundly, ReceiptsOK, ReceiptOK
    <3>2. PinsKept(leases, leases') BY <1>1, CallPins, OtherPins DEF Next
    <3> QED BY <1>1, <3>1, <3>2 DEF PinsKept
  <2> QED BY <1>1, <2>1, <2>2
<1>2. QueueInv /\ FleetInv /\ (mishap \/ Sound) /\ [Next]_vars =>
        [\A k \in Keys : k \in DOMAIN pending /\ k \in DOMAIN leases
           => k \in DOMAIN leases' \/ mishap']_vars
  BY <1>1
<1> QED BY <1>2, SoundInvariant, PTL DEF Spec, ReceiptKept
=============================================================================
