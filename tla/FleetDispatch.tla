---------------------------- MODULE FleetDispatch ----------------------------
(***************************************************************************)
(* The fleet dispatch coordinator of the server                            *)
(* (apps/server/src/fleetDispatch.ts): callers ask it to start a session   *)
(* for a request; it looks for a lease of the same request or of the same  *)
(* work, else starts a session on this node or on a remote one and records *)
(* a lease in a file.  Callers run concurrently; what one does between two *)
(* awaits is one step here, or several that only a crash comes between     *)
(* when the lease file is written more than once.  Messages to a remote    *)
(* node and its answers may be late or lost, writes of the lease file may  *)
(* fail, nodes restart.                                                    *)
(*                                                                         *)
(* The answer of a probe is applied in the state it was given in: only the *)
(* leases that reconcileLeases read before the await are stale.            *)
(***************************************************************************)
EXTENDS Naturals, FiniteSets

CONSTANTS
  Requests,    \* request identifiers
  WorkOf,      \* the work key of each request
  Callers,     \* concurrent users of the coordinator
  Remotes,     \* the remote nodes
  MaxSessions, \* number of sessions ever started
  MaxFaults    \* number of failures

Local == "local"
Nodes == Remotes \cup {Local}
Sessions == 1..MaxSessions
None == 0          \* no session
NoRequest == "none"

ASSUME FleetAssumption ==
  /\ IsFiniteSet(Requests) /\ IsFiniteSet(Callers) /\ IsFiniteSet(Remotes)
  /\ NoRequest \notin Requests /\ Local \notin Remotes
  /\ DOMAIN WorkOf = Requests
  /\ MaxSessions \in Nat /\ MaxFaults \in Nat

VARIABLES
  sess,    \* the sessions: where each runs, for which request, its status
  leases,  \* the lease store in memory
  disk,    \* the lease store on disk
  call,    \* what each caller is doing
  wire,    \* session.start messages a remote node has not handled
  conn,    \* sessions a transport with an open socket takes for running
  mishap,  \* history: see below
  faults   \* number of failures so far

fleetVars == <<sess, leases, disk, call, wire, conn, mishap, faults>>

\* mishap is set by what the coordinator cannot see or gets wrong: a start it
\* gave up on may still happen, a connection closed under a running session, a
\* lease of a started session could not be written, a stale lease was written
\* back, or the answer of a start was that of another one.

LeaseStates == {"running", "uncertain_reconciling", "terminal", "expired"}
Over == {"terminal", "expired"}

Lease == [session : Sessions, work : {WorkOf[r] : r \in Requests},
          state : LeaseStates, retain : BOOLEAN]

Idle == [pc |-> "idle", req |-> NoRequest, retain |-> FALSE, todo |-> <<>>,
         seen |-> {}, at |-> Local, session |-> None, state |-> "running"]

FleetTypeOK ==
  /\ \A s \in Sessions :
       /\ sess[s].at \in Nodes
       /\ sess[s].req \in Requests \cup {NoRequest}
       /\ sess[s].st \in {"none", "live", "ended", "gone"}
  /\ \A L \in {leases, disk} :
       /\ DOMAIN L \subseteq Requests
       /\ \A r \in DOMAIN L : L[r] \in Lease /\ sess[L[r].session].st # "none"
  /\ \A c \in Callers :
       call[c].pc \in {"idle", "probe", "write", "select", "sent", "joined",
                       "done", "failed"}
  /\ \A m \in wire : m.req \in Requests /\ m.at \in Remotes
  /\ conn \subseteq {s \in Sessions : sess[s].at \in Remotes}
  /\ mishap \in BOOLEAN /\ faults \in 0..MaxFaults

FleetInit ==
  /\ sess = [s \in Sessions |-> [at |-> Local, req |-> NoRequest, st |-> "none"]]
  /\ leases = <<>> /\ disk = <<>>
  /\ call = [c \in Callers |-> Idle]
  /\ wire = {} /\ conn = {} /\ mishap = FALSE /\ faults = 0

-----------------------------------------------------------------------------
(* The lease store *)

\* Mutant: a retained receipt is dropped like any other.
UpsertDropsReceipts(L, R, rec) ==
  LET dead == {x \in DOMAIN L \ R : /\ L[x].session # rec.session
                                    /\ L[x].work = rec.work
                                    /\ L[x].state \in Over}
  IN [x \in (DOMAIN L \ dead) \cup R |->
        IF x \in R THEN rec
        ELSE IF L[x].session = rec.session
             THEN [rec EXCEPT !.retain = L[x].retain]
             ELSE L[x]]

\* LeaseStore.upsert, of one request or, one after the other, of several with
\* the same record: requests that joined one session share its record; ended
\* leases of the same work go, unless their receipt is retained.
Upsert(L, R, rec) ==
  LET dead == {x \in DOMAIN L \ R : /\ L[x].session # rec.session
                                    /\ L[x].work = rec.work
                                    /\ L[x].state \in Over /\ ~L[x].retain}
  IN [x \in (DOMAIN L \ dead) \cup R |->
        IF x \in R THEN rec
        ELSE IF L[x].session = rec.session
             THEN [rec EXCEPT !.retain = L[x].retain]
             ELSE L[x]]

\* getBySessionId: the requests of a session.
Of(L, s) == {r \in DOMAIN L : L[r].session = s}

\* updateLeaseForSession
Terminated(L, s) ==
  IF Of(L, s) = {} THEN L
  ELSE LET r == CHOOSE x \in Of(L, s) : TRUE
       IN Upsert(L, {r}, [L[r] EXCEPT !.state = "terminal"])

\* pinReceipt of the requests R.
Pinned(L, R, s) ==
  IF R = {} THEN L
  ELSE LET x == CHOOSE x \in Of(L, s) : TRUE
       IN Upsert(L, R, [L[x] EXCEPT !.retain = TRUE])

\* A lease that is neither terminal nor expired (getByWorkKey, reconcileLeases).
Open(L) == {r \in DOMAIN L : L[r].state \notin Over}

\* (A write that changes nothing is not told apart from none.)
Save(L) == leases' = L /\ disk' = IF L = leases THEN disk ELSE L

Fault == faults < MaxFaults /\ faults' = faults + 1

-----------------------------------------------------------------------------
(* Nodes *)

Known(n) == {s \in Sessions : sess[s].at = n /\ sess[s].st \in {"live", "ended"}}

\* The session a node answers a start with when it has one already: of the
\* same request, or, by the leases of the remote node's own coordinator, a
\* running one of the same work.
Existing(n, r) ==
  {s \in Known(n) : sess[s].req = r}
  \cup {s \in Known(n) : /\ n # Local /\ sess[s].st = "live"
                         /\ WorkOf[sess[s].req] = WorkOf[r]}

Unused == {s \in Sessions : sess[s].st = "none"}
Fresh == CHOOSE s \in Unused : TRUE

\* Node n starts request r as session s, or answers with one it has.
StartOn(n, r, s) ==
  \/ /\ s \in {x \in Existing(n, r) :
                 sess[x].req = r \/ \A y \in Existing(n, r) : sess[y].req # r}
     /\ UNCHANGED sess
  \/ /\ Existing(n, r) = {} /\ Unused # {} /\ s = Fresh
     /\ sess' = [sess EXCEPT ![s] = [at |-> n, req |-> r, st |-> "live"]]

-----------------------------------------------------------------------------
(* Callers *)

\* The callers whose startSession awaits the promise of caller c.
Joined(c) ==
  {d \in Callers : call[d].pc = "joined" /\ call[c].req # NoRequest
                   /\ WorkOf[call[d].req] = WorkOf[call[c].req]}

\* Only a durable caller, one that retains its receipt, acts on the result.
Done(x, s, st) ==
  IF x.retain
  THEN [Idle EXCEPT !.pc = "done", !.req = x.req, !.session = s, !.state = st]
  ELSE Idle
Failed(x) ==
  IF x.retain THEN [Idle EXCEPT !.pc = "failed", !.req = x.req] ELSE Idle

\* The call x of c and those that joined it end with a session or an error.
Ends(c, x, s, st) ==
  call' = [d \in Callers |-> IF d = c THEN Done(x, s, st)
                             ELSE IF d \in Joined(c) THEN Done(call[d], s, st)
                             ELSE call[d]]
Fails(c, x) ==
  call' = [d \in Callers |-> IF d = c THEN Failed(x)
                             ELSE IF d \in Joined(c) THEN Failed(call[d])
                             ELSE call[d]]

\* The requests of the calls X whose receipt is retained.
Receipts(X) == {x.req : x \in {y \in X : y.retain}}

JoinedCalls(c) == {call[d] : d \in Joined(c)}

\* getByRequestId, then getByWorkKey: the lease that answers request r.
Answer(L, r) ==
  IF r \in DOMAIN L /\ L[r].state # "expired" THEN {r}
  ELSE {x \in Open(L) : L[x].work = WorkOf[r]}

\* What reconcileLeases writes of a lease it read: what the node says of its
\* session.  seen: the remote nodes that answer.
Reconciled(lease, seen) ==
  LET s == lease.session
  IN [lease EXCEPT !.state =
        IF sess[s].at \in Remotes \ seen THEN "uncertain_reconciling"
        ELSE CASE sess[s].st = "live"  -> "running"
               [] sess[s].st = "ended" -> "terminal"
               [] OTHER -> "expired"]

Dropped(L, old) == [r \in DOMAIN L \ old |-> L[r]]

\* The leases reconcileLeases reads, and the nodes it has to probe.
Snapshot == [r \in Open(leases) |-> leases[r]]
Probes(x) == {sess[x.todo[r].session].at : r \in DOMAIN x.todo} \cap Remotes

Stale(todo) == \E r \in DOMAIN todo : r \notin DOMAIN leases \/ leases[r] # todo[r]

\* Call x begins with reconcileLeases, which leaves the turn only if it has to
\* probe a node.  (The leases before the first remote one are then written at
\* once in the code, with the others here.)
Reconciles(c, x) ==
  /\ call' = [call EXCEPT ![c] =
                [x EXCEPT !.pc = IF Probes(x) = {} THEN "write" ELSE "probe"]]
  /\ UNCHANGED <<sess, leases, disk, wire, conn, mishap, faults>>

\* The probes are answered or time out: a turn of writes begins.
Probed(c) ==
  /\ call[c].pc = "probe"
  /\ \E seen \in SUBSET Probes(call[c]) :
       call' = [call EXCEPT ![c].pc = "write", ![c].seen = seen]
  /\ mishap' = (mishap \/ Stale(call[c].todo))
  /\ UNCHANGED <<sess, leases, disk, wire, conn, faults>>

\* recordLease of one of the leases, in the order of the store; or the file
\* cannot be written.
ReconcileLease(c) ==
  /\ call[c].pc = "write"
  /\ \E r \in DOMAIN call[c].todo :
       \/ /\ Save(Upsert(leases, {r}, Reconciled(call[c].todo[r], call[c].seen)))
          /\ call' = [call EXCEPT ![c].todo = Dropped(@, {r})]
          /\ UNCHANGED faults
       \/ Fault /\ Fails(c, call[c]) /\ UNCHANGED <<leases, disk>>
  /\ UNCHANGED <<sess, wire, conn, mishap>>

\* What startSessionFresh does in the same turn, with the leases L: a lease
\* answers, or a node is asked.
AfterReconcile(c, x, L) ==
  IF x.req = NoRequest
  THEN Save(L) /\ call' = [call EXCEPT ![c] = Idle]
  ELSE LET a == Answer(L, x.req)
       IN \/ /\ a = {} /\ Save(L)
             /\ call' = [call EXCEPT ![c] = [x EXCEPT !.pc = "select", !.seen = {}]]
          \/ \E y \in a :
               /\ Save(Pinned(L, Receipts({x} \cup JoinedCalls(c)), L[y].session))
               /\ Ends(c, x, L[y].session, L[y].state)

\* cleanup drops those of the terminal leases that are an hour old.
Droppable(L) == {r \in DOMAIN L : L[r].state = "terminal" /\ ~L[r].retain}

\* The end of reconcileLeases and what follows it in the same turn.  If the
\* file of cleanup cannot be written, memory forgets all the same; or the
\* receipt's cannot, or the nodes' observations cannot be read.
reconcileLeases(c) ==
  /\ call[c].pc = "write" /\ DOMAIN call[c].todo = {}
  /\ \E old \in SUBSET Droppable(leases) :
       \/ AfterReconcile(c, call[c], Dropped(leases, old)) /\ UNCHANGED faults
       \/ /\ Fault /\ Fails(c, call[c])
          /\ \/ leases' = Dropped(leases, old) /\ UNCHANGED disk
             \/ Save(Dropped(leases, old))
  /\ UNCHANGED <<sess, wire, conn, mishap>>

\* A promise for the same request or the same work is pending.
Pending(r) ==
  \E d \in Callers : /\ call[d].pc \in {"probe", "write", "select", "sent"}
                     /\ call[d].req # NoRequest
                     /\ WorkOf[call[d].req] = WorkOf[r]

\* Mutant: a start of the same work does not wait for the pending one.
StartAlone(c, r, retain) ==
  /\ call[c].pc = "idle"
  /\ Reconciles(c, [Idle EXCEPT !.req = r, !.retain = retain, !.todo = Snapshot])

\* startSession: join a pending promise or begin with reconcileLeases.
startSession(c, r, retain) ==
  /\ call[c].pc = "idle"
  /\ \/ /\ Pending(r)
        /\ call' = [call EXCEPT ![c] =
             [Idle EXCEPT !.pc = "joined", !.req = r, !.retain = retain]]
        /\ UNCHANGED <<sess, leases, disk, wire, conn, mishap, faults>>
     \/ /\ ~Pending(r)
        /\ Reconciles(c, [Idle EXCEPT !.req = r, !.retain = retain, !.todo = Snapshot])

\* sendWelcomeMessage reconciles for every client that connects.
welcome(c) ==
  /\ call[c].pc = "idle"
  /\ Reconciles(c, [Idle EXCEPT !.todo = Snapshot])

\* recordLease of a started session, and the pins of those who joined.
Record(c, s) ==
  LET r == call[c].req
      rec == [session |-> s, work |-> WorkOf[r], state |-> "running",
              retain |-> call[c].retain]
  IN \/ /\ Save(Pinned(Upsert(leases, {r}, rec), Receipts(JoinedCalls(c)), s))
        /\ Ends(c, call[c], s, "running")
        /\ UNCHANGED faults
     \/ Fault /\ Fails(c, call[c]) /\ UNCHANGED <<leases, disk>>

\* selectNode chose this node: the session starts and is recorded in one turn,
\* or its provider is not available.
StartHere(c) ==
  /\ call[c].pc = "select"
  /\ \/ \E s \in Sessions : StartOn(Local, call[c].req, s) /\ Record(c, s)
     \/ Fails(c, call[c]) /\ UNCHANGED <<sess, leases, disk, faults>>
  /\ mishap' = (mishap \/ faults' # faults)
  /\ UNCHANGED <<wire, conn>>

\* It chose a remote node: the start is sent, or no connection is made.
StartThere(c, n) ==
  /\ call[c].pc = "select"
  /\ \/ /\ call' = [call EXCEPT ![c].pc = "sent", ![c].at = n]
        /\ wire' = wire \cup {[req |-> call[c].req, at |-> n]}
     \/ Fails(c, call[c]) /\ UNCHANGED wire
  /\ UNCHANGED <<sess, leases, disk, conn, mishap, faults>>

\* The callers whose start at node n has no answer.
Waiting(n) == {c \in Callers : /\ call[c].pc = "sent" /\ call[c].at = n
                               /\ call[c].session = None}

\* handleStartSession of the remote node.  A new session is announced to every
\* client, and a waiting transport takes the first announcement as its answer.
RemoteStarts(m) ==
  /\ m \in wire
  /\ wire' = wire \ {m}
  /\ \E s \in Sessions, others \in SUBSET {c \in Waiting(m.at) : call[c].req # m.req} :
       /\ StartOn(m.at, m.req, s)
       /\ sess[s].st # "none" => others = {}
       /\ call' = [c \in Callers |->
            IF c \in Waiting(m.at) /\ (call[c].req = m.req \/ c \in others)
            THEN [call[c] EXCEPT !.session = s] ELSE call[c]]
       /\ mishap' = (mishap \/ others # {})
  /\ UNCHANGED <<leases, disk, conn, faults>>

\* The remote node refuses, which the transport does not read, or the message
\* is lost.
RemoteRefuses(m) ==
  /\ m \in wire
  /\ wire' = wire \ {m}
  /\ UNCHANGED <<sess, leases, disk, call, conn, mishap, faults>>

\* The answer of a start arrives.
Started(c) ==
  /\ call[c].pc = "sent" /\ call[c].session # None
  /\ Record(c, call[c].session)
  /\ conn' = conn \cup {call[c].session}
  /\ mishap' = (mishap \/ faults' # faults)
  /\ UNCHANGED <<sess, wire>>

\* The start has no answer after RECONCILE_TIMEOUT_MS.
StartTimesOut(c) ==
  /\ call[c].pc = "sent"
  /\ LET m == [req |-> call[c].req, at |-> call[c].at]
     IN /\ m \in wire => faults < MaxFaults
        /\ call[c].session # None => faults < MaxFaults
        /\ faults' = IF m \in wire \/ call[c].session # None THEN faults + 1
                     ELSE faults
        /\ mishap' = (mishap \/ faults' # faults)
  /\ Fails(c, call[c])
  /\ UNCHANGED <<sess, leases, disk, wire, conn>>

-----------------------------------------------------------------------------
(* Sessions and nodes *)

\* A session ends, by itself or by stopSession.  The lease follows if the
\* coordinator is told: over the socket, or because it stopped the session.
SessionEnds(s) ==
  /\ sess[s].st = "live"
  /\ sess' = [sess EXCEPT ![s].st = "ended"]
  /\ \/ Save(Terminated(leases, s)) /\ conn' = conn \ {s}
     \/ s \notin conn /\ UNCHANGED <<leases, disk, conn>>
  /\ UNCHANGED <<call, wire, mishap, faults>>

\* cleanupFinishedSessions of the node, an hour after the end.
Forgotten(s) ==
  /\ sess[s].st = "ended"
  /\ sess' = [sess EXCEPT ![s].st = "gone"]
  /\ UNCHANGED <<leases, disk, call, wire, conn, mishap, faults>>

\* The socket of a transport closes, or the end of the session is told late:
\* the session counts as ended, unless the transport's session was replaced by
\* another that ended.
SocketCloses(s) ==
  /\ s \in conn
  /\ conn' = conn \ {s}
  /\ \/ Save(Terminated(leases, s))
     \/ /\ \E t \in Sessions \ {s} : sess[t].at = sess[s].at
                                     /\ sess[t].st \in {"ended", "gone"}
        /\ UNCHANGED <<leases, disk>>
  /\ IF sess[s].st = "live" THEN Fault /\ mishap' = TRUE
                            ELSE UNCHANGED <<faults, mishap>>
  /\ UNCHANGED <<sess, call, wire>>

\* A node restarts: the service's control group takes its sessions with it.
Killed(n) ==
  [s \in Sessions |-> IF s \in Known(n) THEN [sess[s] EXCEPT !.st = "gone"]
                      ELSE sess[s]]

\* The sockets of a remote node that restarts close one by one: SocketCloses.
RemoteRestarts(n) ==
  /\ Fault
  /\ sess' = Killed(n)
  /\ wire' = {m \in wire : m.at # n}
  /\ UNCHANGED <<leases, disk, call, conn, mishap>>

\* The server itself restarts: its sessions die, its memory is the file's.
Restart ==
  /\ Fault
  /\ sess' = Killed(Local)
  /\ leases' = disk
  /\ call' = [c \in Callers |-> Idle]
  /\ conn' = {}
  /\ mishap' = \/ mishap \/ wire # {}
                \/ \E c \in Callers : call[c].pc = "sent" /\ call[c].session # None
  /\ UNCHANGED <<disk, wire>>

\* releaseReceipt of a durable caller that acknowledged its request.
Released(r) ==
  IF r \in DOMAIN leases /\ leases[r].retain
  THEN Upsert(leases, {r}, [leases[r] EXCEPT !.retain = FALSE])
  ELSE leases

CallStep(c) ==
  \/ Probed(c) \/ ReconcileLease(c) \/ reconcileLeases(c)
  \/ StartHere(c) \/ \E n \in Remotes : StartThere(c, n)
  \/ Started(c) \/ StartTimesOut(c)

\* What happens outside the calls.
NodeStep ==
  \/ \E m \in wire : RemoteStarts(m) \/ RemoteRefuses(m)
  \/ \E s \in Sessions : SessionEnds(s) \/ Forgotten(s) \/ SocketCloses(s)
  \/ \E n \in Remotes : RemoteRestarts(n)

\* No call is in its turn of writes, which only a crash interrupts.
Quiet == \A c \in Callers : call[c].pc # "write"

-----------------------------------------------------------------------------
Live(s) == sess[s].st = "live"

(* No two sessions of the same work run at once, however requests race,     *)
(* fail and repeat, and across restarts (startSession, pendingWorkStarts,   *)
(* getByWorkKey), unless the coordinator lost sight of one: see mishap.     *)
OneSessionPerWork ==
  ~mishap =>
    \A s, t \in Sessions :
      Live(s) /\ Live(t) /\ WorkOf[sess[s].req] = WorkOf[sess[t].req] => s = t

(* "Several request IDs can join one running job" (LeaseStore.upsert,       *)
(* fleetDispatch.ts:345): a lease names a session that does its own work.   *)
LeaseNamesItsWork ==
  \A r \in DOMAIN leases : WorkOf[sess[leases[r].session].req] = WorkOf[r]
=============================================================================
