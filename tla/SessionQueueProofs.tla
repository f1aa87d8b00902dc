------------------------- MODULE SessionQueueProofs -------------------------
(***************************************************************************)
(* Proofs about SessionQueue for any number of sessions: the type          *)
(* invariant, that a session stopped in the queue never starts, and that   *)
(* the queue serializes its dispatches unless an entry was dropped, a kill *)
(* was not confirmed or a child left processes behind.                     *)
(***************************************************************************)
EXTENDS SessionQueue, TLAPS

USE SessionsAssumption

(* What holds of each session.  One that was not started has no process,   *)
(* and neither has a later one; one in the queue is not an extra worker;   *)
(* only what runs or has run is being killed.                              *)
Shape ==
  \A s \in Sessions :
    /\ proc[s] = "none" <=> status[s] = "absent"
    /\ proc[s] = "none" => /\ s \notin released /\ s \notin manual
                           /\ \A t \in Sessions : t > s => proc[t] = "none"
    /\ previous[s] # Resolved => proc[previous[s]] # "none"
    /\ s \in manual => proc[s] # "queued"
    /\ s \in active => proc[s] \in {"queued", "alive"}
    /\ s \in killing => proc[s] \in {"alive", "left", "gone"}

TailShape == tail # Resolved => proc[tail] # "none" /\ tail \notin manual

(* A session that is queued and not cancelled is reported as running, and  *)
(* keeps its slot.                                                         *)
Stopped ==
  \A s \in Sessions : proc[s] = "queued" /\ s \notin cancelled
    => status[s] = "running" /\ s \notin released

(* Only a kill that was not confirmed leaves a child without its slot.     *)
Slots == \A s \in Sessions : proc[s] = "alive" /\ s \in released => s \in unkilled

QueueInv == TypeOK /\ Shape /\ TailShape /\ Stopped /\ Slots

\* A step of one session.
StepOf(a) ==
  \/ \E m \in BOOLEAN : StartSession(a, m)
  \/ startAfterPrevious(a)
  \/ \E ok \in BOOLEAN, rest \in Left : handleDispatchComplete(a, ok, rest)
  \/ TreeExits(a)
  \/ stopSession(a)
  \/ \E confirmed \in BOOLEAN : CancelAnswers(a, confirmed)
  \/ cleanupFinishedSessions(a)

\* What is kept of s, and of the others, does not change.
Kept(s) ==
  /\ proc'[s] = proc[s] /\ status'[s] = status[s] /\ previous'[s] = previous[s]
  /\ s \in killing' <=> s \in killing
  /\ s \in active' <=> s \in active
  /\ s \in cancelled' <=> s \in cancelled
  /\ s \in unkilled' <=> s \in unkilled
  /\ s \in released' <=> s \in released
  /\ s \in manual' <=> s \in manual

(* A step changes what is kept of one session only.                        *)
LEMMA OthersKept ==
  ASSUME TypeOK, NEW a \in Sessions, StepOf(a), NEW s \in Sessions, s # a
  PROVE  Kept(s)
BY DEF StepOf, StartSession, startAfterPrevious, handleDispatchComplete, TreeExits, stopSession, StopActive,
  CancelAnswers, cleanupFinishedSessions, Release, queue, Kept, TypeOK

(* Every step keeps the types.                                             *)
LEMMA TypeStep ==
  ASSUME QueueInv, NEW a \in Sessions, StepOf(a)
  PROVE  TypeOK'
<1> USE DEF QueueInv, TypeOK, Statuses, Trees, Running, Left
<1>1. ASSUME NEW m \in BOOLEAN, StartSession(a, m) PROVE TypeOK'
  <2>1. tail = Resolved \/ (tail \in Sessions /\ tail < a)
    <3>1. proc[a] = "none" /\ (tail # Resolved => proc[tail] # "none" /\ tail \in Sessions)
      BY <1>1 DEF StartSession, Shape, TailShape
    <3> QED BY <3>1 DEF Shape, Sessions
  <2>2. tail < a
    BY <2>1 DEF Resolved, Sessions
  <2>3. /\ status' \in [Sessions -> Statuses] /\ previous' \in [Sessions -> Sessions \cup {Resolved}]
        /\ \A s \in Sessions : previous'[s] < s
    BY <1>1, <2>2 DEF StartSession
  <2>4. proc' \in [Sessions -> Trees]
    BY <1>1 DEF StartSession
  <2>5. \A s \in Sessions : s \in killing' => status'[s] = "stopping"
    BY <1>1 DEF StartSession
  <2>6. /\ \A S \in {manual', released', active', cancelled', killing', unkilled'} : S \subseteq Sessions
        /\ tail' \in Sessions \cup {Resolved} /\ dropped' = dropped
    BY <1>1 DEF StartSession
  <2> QED BY <2>3, <2>4, <2>5, <2>6
<1>2. CASE startAfterPrevious(a)
  <2>1. proc' \in [Sessions -> Trees]
    BY <1>2 DEF startAfterPrevious
  <2>2. /\ \A S \in {manual', released', active', cancelled', killing', unkilled'} : S \subseteq Sessions
        /\ tail' \in Sessions \cup {Resolved} /\ UNCHANGED <<status, previous, dropped, killing>>
    BY <1>2 DEF startAfterPrevious, WithoutTail, queue
  <2> QED BY <2>1, <2>2
<1>3. ASSUME NEW ok \in BOOLEAN, NEW rest \in Left, handleDispatchComplete(a, ok, rest) PROVE TypeOK'
  <2>1. status' \in [Sessions -> Statuses] /\ \A s \in Sessions : s \in killing' => status'[s] = "stopping"
    BY <1>3 DEF handleDispatchComplete, Ended
  <2>2. /\ \A S \in {manual', released', active', cancelled', killing', unkilled'} : S \subseteq Sessions
        /\ tail' \in Sessions \cup {Resolved} /\ UNCHANGED <<previous, dropped>>
        /\ proc' \in [Sessions -> Trees]
    BY <1>3 DEF handleDispatchComplete, Release, WithoutTail, queue
  <2> QED BY <2>1, <2>2
<1>4. CASE stopSession(a)
  <2>1. status' \in [Sessions -> Statuses] /\ \A s \in Sessions : s \in killing' => status'[s] = "stopping"
    BY <1>4 DEF stopSession, StopActive
  <2>2. /\ \A S \in {manual', released', active', cancelled', killing', unkilled'} : S \subseteq Sessions
        /\ tail' \in Sessions \cup {Resolved} /\ UNCHANGED <<previous, proc>>
    BY <1>4 DEF stopSession, StopActive, Release, WithoutTail, queue
  <2>3. dropped' \in BOOLEAN
    BY <1>4, Zenon DEF stopSession, StopActive
  <2> QED BY <2>1, <2>2, <2>3
<1>5. ASSUME NEW confirmed \in BOOLEAN, CancelAnswers(a, confirmed) PROVE TypeOK'
  <2>1. status' \in [Sessions -> Statuses] /\ \A s \in Sessions : s \in killing' => status'[s] = "stopping"
    BY <1>5 DEF CancelAnswers
  <2>2. /\ \A S \in {manual', released', active', cancelled', killing', unkilled'} : S \subseteq Sessions
        /\ tail' \in Sessions \cup {Resolved} /\ UNCHANGED <<previous, proc, dropped>>
    BY <1>5 DEF CancelAnswers, Release, WithoutTail, queue
  <2> QED BY <2>1, <2>2
<1>6. CASE cleanupFinishedSessions(a)
  BY <1>6 DEF cleanupFinishedSessions, queue
<1>7. CASE TreeExits(a)
  <2>1. proc' \in [Sessions -> Trees]
    BY <1>7 DEF TreeExits
  <2> QED BY <1>7, <2>1 DEF TreeExits, queue
<1> QED BY <1>1, <1>2, <1>3, <1>4, <1>5, <1>6, <1>7 DEF StepOf

(* Every step keeps the shape of a session and of the queue.               *)
LEMMA QueueStep ==
  ASSUME QueueInv, NEW a \in Sessions, StepOf(a)
  PROVE  QueueInv'
<1>1. TypeOK /\ TypeOK' /\ Shape /\ TailShape /\ Stopped /\ Slots
  BY TypeStep DEF QueueInv
<1>2. ASSUME NEW s \in Sessions, s # a PROVE Kept(s)
  BY <1>1, <1>2, OthersKept
<1>3. proc'[a] # "none"
  <2>1. \A m \in BOOLEAN : StartSession(a, m) => proc'[a] # "none"
    BY <1>1 DEF StartSession, TypeOK
  <2>2. ~(\E m \in BOOLEAN : StartSession(a, m)) => proc[a] # "none"
    BY <1>1 DEF StepOf, startAfterPrevious, Ready, handleDispatchComplete, TreeExits, stopSession,
      CancelAnswers, cleanupFinishedSessions, Shape, Running
  <2>3. ~(\E m \in BOOLEAN : StartSession(a, m)) => (proc[a] # "none" => proc'[a] # "none")
    BY <1>1 DEF StepOf, startAfterPrevious, handleDispatchComplete, TreeExits, stopSession,
      CancelAnswers, cleanupFinishedSessions, TypeOK, Left
  <2> QED BY <2>1, <2>2, <2>3
<1>4. \A s \in Sessions : proc'[s] = "none" => s # a /\ proc[s] = "none"
  BY <1>2, <1>3 DEF Kept
<1>5. /\ status'[a] # "absent"
      /\ a \in manual' => proc'[a] # "queued"
      /\ a \in active' => proc'[a] \in {"queued", "alive"}
      /\ a \in killing' => proc'[a] \in {"alive", "left", "gone"}
      /\ proc'[a] = "queued" /\ a \notin cancelled' => status'[a] = "running" /\ a \notin released'
      /\ proc'[a] = "alive" /\ a \in released' => a \in unkilled'
  <2> USE DEF TypeOK
  <2>1. ASSUME NEW m \in BOOLEAN, StartSession(a, m)
        PROVE  /\ status'[a] # "absent"
               /\ a \in manual' => proc'[a] # "queued"
               /\ a \in active' => proc'[a] \in {"queued", "alive"}
               /\ a \in killing' => proc'[a] \in {"alive", "left", "gone"}
               /\ proc'[a] = "queued" /\ a \notin cancelled' => status'[a] = "running" /\ a \notin released'
               /\ proc'[a] = "alive" /\ a \in released' => a \in unkilled'
    BY <1>1, <2>1 DEF StartSession, Shape
  <2>2. CASE startAfterPrevious(a)
    BY <1>1, <2>2 DEF startAfterPrevious, Ready, Shape, Stopped, queue
  <2>3. ASSUME NEW ok \in BOOLEAN, NEW rest \in Left, handleDispatchComplete(a, ok, rest)
        PROVE  status'[a] # "absent" /\ proc'[a] \in {"left", "gone"} /\ a \notin active'
    BY <1>1, <2>3 DEF handleDispatchComplete, Shape, Ended, Left
  <2>4. CASE stopSession(a)
    BY <1>1, <2>4 DEF stopSession, StopActive, Release, Shape, Stopped, Slots, queue
  <2>5. ASSUME NEW confirmed \in BOOLEAN, CancelAnswers(a, confirmed)
        PROVE  /\ status'[a] # "absent" /\ proc'[a] = proc[a] /\ proc[a] # "queued" /\ a \notin killing'
               /\ active' = active /\ (a \in released' => a \in unkilled' \/ proc[a] \in {"left", "gone"})
    BY <1>1, <2>5 DEF CancelAnswers, Release, Shape
  <2>6. CASE cleanupFinishedSessions(a)
    BY <1>1, <2>6 DEF cleanupFinishedSessions, Shape, Stopped, Slots, queue
  <2>7. CASE TreeExits(a)
    BY <1>1, <2>7 DEF TreeExits, Shape, queue
  <2> QED BY <1>1, <2>1, <2>2, <2>3, <2>4, <2>5, <2>6, <2>7 DEF StepOf, Shape
<1>6. tail' # Resolved => tail' = tail \/ (tail' = a /\ a \notin manual')
  BY <1>1 DEF StepOf, StartSession, startAfterPrevious, handleDispatchComplete, TreeExits, stopSession,
    StopActive, CancelAnswers, cleanupFinishedSessions, Release, WithoutTail, queue, Shape
<1>6a. tail = a => manual' = manual
  BY <1>1 DEF StepOf, StartSession, startAfterPrevious, handleDispatchComplete, TreeExits, stopSession,
    CancelAnswers, cleanupFinishedSessions, queue, Shape, TailShape, Resolved, Sessions
<1>7. previous'[a] \in {previous[a], tail}
  BY <1>1 DEF StepOf, StartSession, startAfterPrevious, handleDispatchComplete, TreeExits, stopSession,
    StopActive, CancelAnswers, cleanupFinishedSessions, Release, WithoutTail, queue, TypeOK
<1>8. Shape'
  <2> SUFFICES ASSUME NEW s \in Sessions
               PROVE  /\ proc'[s] = "none" <=> status'[s] = "absent"
                      /\ proc'[s] = "none" => /\ s \notin released' /\ s \notin manual'
                                              /\ \A t \in Sessions : t > s => proc'[t] = "none"
                      /\ previous'[s] # Resolved => proc'[previous'[s]] # "none"
                      /\ s \in manual' => proc'[s] # "queued"
                      /\ s \in active' => proc'[s] \in {"queued", "alive"}
                      /\ s \in killing' => proc'[s] \in {"alive", "left", "gone"}
    BY DEF Shape
  <2>1. proc'[s] = "none" <=> status'[s] = "absent"
    BY <1>1, <1>2, <1>3, <1>5 DEF Shape, Kept
  <2>2. previous'[s] # Resolved => proc'[previous'[s]] # "none"
    <3>1. previous'[s] \in {previous[s], tail}
      BY <1>2, <1>7 DEF Kept
    <3>2. previous'[s] # Resolved => previous'[s] \in Sessions /\ proc[previous'[s]] # "none"
      BY <1>1, <3>1 DEF Shape, TailShape, TypeOK
    <3> QED BY <1>4, <3>2
  <2>3. ASSUME proc'[s] = "none", NEW t \in Sessions, t > s PROVE proc'[t] = "none"
    <3>1. s # a /\ proc[s] = "none" /\ proc[t] = "none"
      BY <1>1, <1>4, <2>3 DEF Shape
    <3>2. t # a
      <4>1. ASSUME t = a PROVE \E m \in BOOLEAN : StartSession(a, m)
        BY <1>1, <3>1, <4>1 DEF StepOf, startAfterPrevious, Ready, handleDispatchComplete, TreeExits,
          stopSession, CancelAnswers, cleanupFinishedSessions, Shape
      <4>2. ASSUME t = a PROVE status[s] # "absent"
        BY <2>3, <4>1, <4>2 DEF StartSession, Sessions
      <4> QED BY <1>1, <3>1, <4>2 DEF Shape
    <3> QED BY <1>2, <3>1, <3>2 DEF Kept
  <2>4. proc'[s] = "none" => s \notin released' /\ s \notin manual'
    BY <1>1, <1>2, <1>4 DEF Shape, Kept
  <2>5. /\ s \in manual' => proc'[s] # "queued"
        /\ s \in active' => proc'[s] \in {"queued", "alive"}
        /\ s \in killing' => proc'[s] \in {"alive", "left", "gone"}
    BY <1>1, <1>2, <1>5 DEF Shape, Kept
  <2> QED BY <2>1, <2>2, <2>3, <2>4, <2>5
<1>9. TailShape'
  BY <1>1, <1>2, <1>3, <1>4, <1>6, <1>6a DEF TailShape, Kept, TypeOK
<1>10. Stopped' /\ Slots'
  BY <1>1, <1>2, <1>5 DEF Stopped, Slots, Kept
<1> QED BY <1>1, <1>8, <1>9, <1>10 DEF QueueInv

(* The invariant of the queue holds throughout.                            *)
LEMMA QueueInvariant == Spec => []QueueInv
<1>1. Init => QueueInv
  <2> SUFFICES ASSUME Init PROVE QueueInv
    OBVIOUS
  <2>1. \A s \in Sessions : Resolved < s
    BY DEF Sessions, Resolved
  <2>2. TypeOK
    BY <2>1 DEF Init, TypeOK, Statuses, Trees
  <2>3. Shape /\ TailShape /\ Stopped /\ Slots
    BY DEF Init, Shape, TailShape, Stopped, Slots
  <2> QED BY <2>2, <2>3 DEF QueueInv
<1>2. QueueInv /\ [Next]_vars => QueueInv'
  <2> SUFFICES ASSUME QueueInv, [Next]_vars PROVE QueueInv'
    OBVIOUS
  <2>1. ASSUME NEW a \in Sessions, StepOf(a) PROVE QueueInv'
    BY <2>1, QueueStep
  <2>2. CASE UNCHANGED vars
    BY <2>2 DEF vars, QueueInv, TypeOK, Shape, TailShape, Stopped, Slots
  <2> QED BY <2>1, <2>2 DEF Next, StepOf
<1> QED BY <1>1, <1>2, PTL DEF Spec

(* TypeOK, for any number of sessions: a session waits only for an earlier *)
(* one, and what is being killed is reported as stopping until the kill is *)
(* answered, whatever ends meanwhile.                                      *)
THEOREM SessionTypes == Spec => []TypeOK
<1>1. QueueInv => TypeOK
  BY DEF QueueInv
<1> QED BY <1>1, QueueInvariant, PTL

(* StoppedNeverStarts: a stop leaves its mark in cancelledSessions, and    *)
(* nothing but the session's own turn takes it away.                       *)
THEOREM NoStartAfterStop == Spec => StoppedNeverStarts
<1>1. ASSUME QueueInv, [Next]_vars, NEW s \in Sessions, proc[s] = "queued", proc'[s] = "alive"
      PROVE  status[s] = "running"
  <2>1. PICK a \in Sessions : StepOf(a)
    BY <1>1 DEF Next, StepOf, vars
  <2>2. s = a
    BY <1>1, <2>1, OthersKept DEF QueueInv, Kept
  <2>3. startAfterPrevious(s)
    BY <1>1, <2>1, <2>2 DEF StepOf, StartSession, handleDispatchComplete, TreeExits, stopSession,
      CancelAnswers, cleanupFinishedSessions, QueueInv, Shape
  <2>4. s \notin cancelled
    BY <1>1, <2>3 DEF startAfterPrevious, QueueInv, TypeOK
  <2> QED BY <1>1, <2>4 DEF QueueInv, Stopped
<1>2. QueueInv /\ [Next]_vars
        => [\A s \in Sessions :
              proc[s] = "queued" /\ proc'[s] = "alive" => status[s] = "running"]_vars
  BY <1>1
<1> QED BY <1>2, QueueInvariant, PTL DEF Spec, StoppedNeverStarts

-----------------------------------------------------------------------------
(* The chain of tails *)

\* C holds with a session those it waits for.
Closed(C, prev) == \A x \in C : prev[x] \in C \cup {Resolved}

\* TailResolved of given slots.
Over(s, prev, rel) == s = Resolved \/ \E C \in SUBSET rel : s \in C /\ Closed(C, prev)

\* y waits for x, at once or through others.
WaitsFor(y, x, prev) == \A C \in SUBSET Sessions : y \in C /\ Closed(C, prev) => x \in C

\* The sessions that go through the queue.
InQueue(p, m) == {s \in Sessions : p[s] # "none" /\ s \notin m}

(* The turn of a session came when those before it in its chain were over. *)
Turn ==
  \A s \in InQueue(proc, manual) : proc[s] # "queued" => Over(previous[s], previous, released)

(* Unless an entry was dropped, the chain reaches every session that is    *)
(* not over: later sessions wait for it, and so will the next one.         *)
Chain ==
  ~dropped =>
    \A x \in InQueue(proc, manual) :
      ~Over(x, previous, released) =>
        /\ tail # Resolved /\ WaitsFor(tail, x, previous)
        /\ \A t \in InQueue(proc, manual) : t > x => WaitsFor(t, x, previous)

SerialInv == QueueInv /\ Turn /\ Chain

(* A session whose predecessors are over is over once its slot is free,    *)
(* and so is everything it waits for.                                      *)
LEMMA OverNext ==
  ASSUME NEW s \in Sessions, NEW prev, NEW rel \in SUBSET Sessions, s \in rel,
         Over(prev[s], prev, rel)
  PROVE  Over(s, prev, rel) /\ \A x : WaitsFor(s, x, prev) => Over(x, prev, rel)
<1>1. PICK C \in SUBSET rel : s \in C /\ Closed(C, prev)
  <2>1. CASE prev[s] = Resolved
    <3>1. {s} \in SUBSET rel /\ Closed({s}, prev)
      BY <2>1 DEF Closed
    <3> QED BY <3>1
  <2>2. CASE prev[s] # Resolved
    <3>1. PICK D \in SUBSET rel : prev[s] \in D /\ Closed(D, prev)
      BY <2>2 DEF Over
    <3>2. D \cup {s} \in SUBSET rel /\ Closed(D \cup {s}, prev)
      BY <3>1 DEF Closed
    <3> QED BY <3>2
  <2> QED BY <2>1, <2>2
<1>2. C \in SUBSET Sessions
  BY <1>1
<1> QED BY <1>1, <1>2 DEF Over, WaitsFor

(* What is over stays over.                                                *)
LEMMA OverStays ==
  ASSUME NEW s, NEW prev, NEW next, NEW rel, NEW rel2, rel \subseteq rel2,
         \A x \in rel : next[x] = prev[x], Over(s, prev, rel)
  PROVE  Over(s, next, rel2)
BY DEF Over, Closed

(* A new session at the end of the chain adds to it.                       *)
LEMMA WaitsStay ==
  ASSUME NEW a \in Sessions, NEW prev, NEW next, \A x \in Sessions \ {a} : next[x] = prev[x],
         \A x \in Sessions \ {a} : prev[x] # a,
         NEW y \in Sessions, NEW x \in Sessions, y # a, WaitsFor(y, x, prev)
  PROVE  WaitsFor(y, x, next)
<1> SUFFICES ASSUME NEW C \in SUBSET Sessions, y \in C, Closed(C, next) PROVE x \in C
  BY DEF WaitsFor
<1>1. C \ {a} \in SUBSET Sessions /\ y \in C \ {a} /\ Closed(C \ {a}, prev)
  BY DEF Closed
<1> QED BY <1>1 DEF WaitsFor

(* A step that adds nothing to the queue keeps the chain: the entry of the *)
(* map goes only with the session that all the others are over before.     *)
LEMMA ChainKept ==
  ASSUME QueueInv, QueueInv', Chain, previous' = previous, released \subseteq released',
         InQueue(proc', manual') \subseteq InQueue(proc, manual), dropped => dropped',
         \/ tail' = tail \/ dropped'
         \/ tail \in Sessions /\ tail \in released' /\ Over(previous[tail], previous, released')
  PROVE  Chain'
<1> SUFFICES ASSUME ~dropped', NEW x \in InQueue(proc', manual'), ~Over(x, previous, released')
             PROVE  /\ tail' # Resolved /\ WaitsFor(tail', x, previous)
                    /\ \A t \in InQueue(proc', manual') : t > x => WaitsFor(t, x, previous)
  BY DEF Chain
<1>1. x \in InQueue(proc, manual) /\ ~dropped
  OBVIOUS
<1>2. ~Over(x, previous, released)
  BY OverStays
<1>3. /\ tail # Resolved /\ WaitsFor(tail, x, previous)
      /\ \A t \in InQueue(proc, manual) : t > x => WaitsFor(t, x, previous)
  BY <1>1, <1>2 DEF Chain
<1>4. tail' = tail
  <2> SUFFICES ASSUME tail \in Sessions, tail \in released', Over(previous[tail], previous, released')
               PROVE  FALSE
    OBVIOUS
  <2>1. released' \in SUBSET Sessions
    BY DEF QueueInv, TypeOK
  <2> QED BY <1>3, <2>1, OverNext
<1> QED BY <1>3, <1>4

(* A session that joins the queue waits for all that the last one waits    *)
(* for, and for the last one.                                              *)
LEMMA ChainGrows ==
  ASSUME QueueInv, QueueInv', Chain, NEW a \in Sessions, StartSession(a, FALSE)
  PROVE  Chain'
<1>1. /\ proc[a] = "none" /\ TypeOK /\ a \notin released /\ tail # a
      /\ \A x \in Sessions \ {a} : previous[x] # a
      /\ \A t \in Sessions : t > a => proc[t] = "none"
  BY DEF StartSession, QueueInv, Shape, TailShape, Resolved, Sessions
<1>2. /\ tail' = a /\ previous'[a] = tail /\ \A x \in Sessions \ {a} : previous'[x] = previous[x]
      /\ released' = released /\ dropped' = dropped /\ manual' = manual
      /\ \A x \in Sessions \ {a} : proc'[x] = proc[x]
  BY <1>1 DEF StartSession, TypeOK
<1>3. a # Resolved /\ WaitsFor(a, a, previous')
  BY DEF Resolved, Sessions, WaitsFor
<1>4. ASSUME NEW x \in Sessions, x # a, ~dropped', x \in InQueue(proc', manual'),
             ~Over(x, previous', released')
      PROVE  /\ WaitsFor(a, x, previous')
             /\ \A t \in InQueue(proc', manual') : t > x => WaitsFor(t, x, previous')
  <2>1. ~Over(x, previous, released)
    <3>1. \A y \in released : previous'[y] = previous[y]
      BY <1>1, <1>2 DEF TypeOK
    <3> QED BY <1>2, <1>4, <3>1, OverStays
  <2>2. x \in InQueue(proc, manual) /\ ~dropped
    BY <1>2, <1>4 DEF InQueue
  <2>3. /\ tail # Resolved /\ WaitsFor(tail, x, previous)
        /\ \A t \in InQueue(proc, manual) : t > x => WaitsFor(t, x, previous)
    BY <2>1, <2>2 DEF Chain
  <2>4. tail \in Sessions
    BY <1>1, <2>3 DEF TypeOK
  <2>5. WaitsFor(tail, x, previous')
    BY <1>1, <1>2, <2>3, <2>4, WaitsStay
  <2>6. WaitsFor(a, x, previous')
    BY <1>2, <2>3, <2>5 DEF WaitsFor, Closed
  <2>7. ASSUME NEW t \in InQueue(proc', manual'), t > x, t # a PROVE WaitsFor(t, x, previous')
    <3>1. t \in InQueue(proc, manual) /\ t \in Sessions
      BY <1>2, <2>7 DEF InQueue
    <3> QED BY <1>1, <1>2, <2>3, <2>7, <3>1, WaitsStay
  <2> QED BY <2>6, <2>7
<1>5. \A t \in InQueue(proc', manual') : ~(t > a)
  BY <1>1, <1>2 DEF InQueue, Sessions
<1>6. \A x \in InQueue(proc', manual') : x \in Sessions
  BY DEF InQueue
<1> QED BY <1>2, <1>3, <1>4, <1>5, <1>6 DEF Chain

(* Every step keeps the chain, and a session's turn comes by it.           *)
LEMMA SerialStep ==
  ASSUME SerialInv, NEW a \in Sessions, StepOf(a)
  PROVE  SerialInv'
<1>1. QueueInv /\ QueueInv' /\ TypeOK /\ TypeOK' /\ Shape /\ Turn /\ Chain
  BY QueueStep DEF SerialInv, QueueInv
<1>2. ASSUME NEW s \in Sessions, s # a PROVE Kept(s)
  BY <1>1, <1>2, OthersKept
<1>3. /\ released \subseteq released' /\ (dropped => dropped')
      /\ \A x \in released : previous'[x] = previous[x]
  <2>1. released \subseteq released'
    BY <1>1 DEF StepOf, StartSession, startAfterPrevious, handleDispatchComplete, TreeExits, stopSession,
      StopActive, CancelAnswers, cleanupFinishedSessions, Release
  <2>3. dropped => dropped'
    <3>1. UNCHANGED dropped \/ stopSession(a)
      BY DEF StepOf, StartSession, startAfterPrevious, handleDispatchComplete, TreeExits, CancelAnswers,
        cleanupFinishedSessions
    <3> QED BY <3>1, Zenon DEF stopSession, StopActive
  <2>2. a \in released => previous' = previous
    BY <1>1 DEF StepOf, StartSession, startAfterPrevious, handleDispatchComplete, TreeExits, stopSession,
      CancelAnswers, cleanupFinishedSessions, Shape, queue
  <2> QED BY <1>1, <1>2, <2>1, <2>2, <2>3 DEF TypeOK, Kept
<1>4. Turn'
  <2> SUFFICES ASSUME NEW s \in InQueue(proc', manual'), proc'[s] # "queued"
               PROVE  Over(previous'[s], previous', released')
    BY DEF Turn
  <2>1. /\ s \in Sessions /\ proc'[s] # "none" /\ s \notin manual'
    BY DEF InQueue
  <2>2. Over(previous[s], previous, released) /\ previous'[s] = previous[s]
    <3>1. CASE s # a
      BY <1>1, <1>2, <2>1, <3>1 DEF Kept, InQueue, Turn
    <3>2. CASE s = a
      <4>1. CASE startAfterPrevious(a)
        BY <3>2, <4>1 DEF startAfterPrevious, Ready, TailResolved, Over, Closed, queue
      <4>2. CASE \E m \in BOOLEAN : StartSession(a, m)
        BY <1>1, <2>1, <3>2, <4>2 DEF StartSession, TypeOK
      <4>3. CASE ~startAfterPrevious(a) /\ ~(\E m \in BOOLEAN : StartSession(a, m))
        <5>1. proc[a] \notin {"none", "queued"} /\ manual' = manual /\ previous' = previous
          BY <1>1, <2>1, <3>2, <4>3 DEF StepOf, handleDispatchComplete, TreeExits, stopSession,
            CancelAnswers, cleanupFinishedSessions, Shape, queue
        <5> QED BY <1>1, <2>1, <3>2, <5>1 DEF Turn, InQueue
      <4> QED BY <4>1, <4>2, <4>3
    <3> QED BY <3>1, <3>2
  <2> QED BY <1>3, <2>2, OverStays
<1>5. Chain'
  <2>1. CASE StartSession(a, FALSE)
    BY <1>1, <2>1, ChainGrows
  <2>2. CASE StartSession(a, TRUE)
    <3>1. previous' = previous /\ tail' = tail /\ a \in manual'
      BY <2>2 DEF StartSession
    <3>2. InQueue(proc', manual') \subseteq InQueue(proc, manual)
      BY <1>2, <3>1 DEF InQueue, Kept
    <3> QED BY <1>1, <1>3, <3>1, <3>2, ChainKept
  <2>3. CASE ~(\E m \in BOOLEAN : StartSession(a, m))
    <3>1. previous' = previous /\ manual' = manual /\ proc[a] # "none"
      BY <1>1, <2>3 DEF StepOf, startAfterPrevious, Ready, handleDispatchComplete, TreeExits, stopSession,
        CancelAnswers, cleanupFinishedSessions, queue, Shape
    <3>2. InQueue(proc', manual') \subseteq InQueue(proc, manual)
      BY <1>2, <3>1 DEF InQueue, Kept
    <3>3. \/ tail' = tail
          \/ /\ tail = a /\ a \in released' /\ a \notin manual
             /\ startAfterPrevious(a) \/ proc[a] # "queued" \/ dropped'
      <4>1. CASE startAfterPrevious(a)
        BY <1>1, <4>1 DEF startAfterPrevious, Ready, WithoutTail, Shape
      <4>2. ASSUME NEW ok \in BOOLEAN, NEW rest \in Left, handleDispatchComplete(a, ok, rest)
            PROVE  tail' = tail \/ (tail = a /\ a \in released' /\ a \notin manual /\ proc[a] # "queued")
        BY <4>2 DEF handleDispatchComplete, Release, WithoutTail
      <4>3. CASE stopSession(a)
        BY <1>1, <4>3 DEF stopSession, StopActive, Release, WithoutTail, Quiet, Ready
      <4>4. ASSUME NEW confirmed \in BOOLEAN, CancelAnswers(a, confirmed)
            PROVE  tail' = tail \/ (tail = a /\ a \in released' /\ a \notin manual /\ proc[a] # "queued")
        BY <1>1, <4>4 DEF CancelAnswers, Release, WithoutTail, Shape
      <4>5. CASE cleanupFinishedSessions(a)
        BY <4>5 DEF cleanupFinishedSessions
      <4>6. CASE TreeExits(a)
        BY <4>6 DEF TreeExits
      <4> QED BY <2>3, <4>1, <4>2, <4>3, <4>4, <4>5, <4>6 DEF StepOf
    <3>4. ASSUME tail' # tail, ~dropped' PROVE Over(previous[a], previous, released)
      <4>1. CASE startAfterPrevious(a)
        BY <4>1 DEF startAfterPrevious, Ready, TailResolved, Over, Closed
      <4>2. CASE proc[a] # "queued"
        BY <1>1, <3>1, <3>3, <3>4, <4>2 DEF Turn, InQueue
      <4> QED BY <3>3, <3>4, <4>1, <4>2
    <3>5. ASSUME tail' # tail, ~dropped' PROVE Over(previous[a], previous, released')
      BY <1>3, <3>4, <3>5, OverStays
    <3> QED BY <1>1, <1>3, <3>1, <3>2, <3>3, <3>5, ChainKept
  <2> QED BY <2>1, <2>2, <2>3
<1> QED BY <1>1, <1>4, <1>5 DEF SerialInv

(* SerializedUnlessCancelled, for any number of sessions, stops, failures, *)
(* processes that survive their signals or their parent: of two running    *)
(* dispatches the later one waited for the earlier, which has given up its *)
(* slot.                                                                   *)
THEOREM QueueSerializes == Spec => []SerializedUnlessCancelled
<1>1. Init /\ QueueInv => SerialInv
  BY DEF Init, SerialInv, Turn, Chain, InQueue
<1>2. SerialInv /\ [Next]_vars => SerialInv'
  <2> SUFFICES ASSUME SerialInv, [Next]_vars PROVE SerialInv'
    OBVIOUS
  <2>1. ASSUME NEW a \in Sessions, StepOf(a) PROVE SerialInv'
    BY <2>1, SerialStep
  <2>2. CASE UNCHANGED vars
    BY <2>2 DEF vars, SerialInv, QueueInv, TypeOK, Shape, TailShape, Stopped, Slots, Turn, Chain
  <2> QED BY <2>1, <2>2 DEF Next, StepOf
<1>3. SerialInv => SerializedUnlessCancelled
  <2>1. ASSUME SerialInv, ~dropped, NEW s \in Sessions, NEW t \in Sessions, s \notin unkilled,
               Queued(s), Queued(t), s < t, proc[s] # "left"
        PROVE  FALSE
    <3>1. s \in InQueue(proc, manual) /\ t \in InQueue(proc, manual) /\ s \notin released
      BY <2>1 DEF Queued, Running, InQueue, SerialInv, QueueInv, Slots
    <3>2. ~Over(s, previous, released)
      BY <3>1 DEF Over, Resolved, Sessions
    <3>3. WaitsFor(t, s, previous)
      BY <2>1, <3>1, <3>2 DEF SerialInv, Chain, Sessions
    <3>4. Over(previous[t], previous, released)
      BY <2>1, <3>1 DEF SerialInv, Turn, Queued, Running
    <3>5. released \cup {t} \in SUBSET Sessions /\ released \in SUBSET Sessions
      BY <2>1 DEF SerialInv, QueueInv, TypeOK
    <3>6. Over(previous[t], previous, released \cup {t})
      BY <3>4, OverStays
    <3>7. Over(s, previous, released \cup {t})
      BY <3>3, <3>5, <3>6, OverNext
    <3>8. PICK C \in SUBSET (released \cup {t}) : s \in C
      BY <3>7 DEF Over, Resolved, Sessions
    <3> QED BY <2>1, <3>1, <3>8 DEF Sessions
  <2> QED BY <2>1 DEF SerializedUnlessCancelled
<1> QED BY <1>1, <1>2, <1>3, QueueInvariant, PTL DEF Spec
=============================================================================
