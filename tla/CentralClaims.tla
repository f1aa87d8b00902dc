--------------------------- MODULE CentralClaims ---------------------------
(***************************************************************************)
(* Central claim arbitration between nodes: the lease store of             *)
(* apps/server/src/claimsService.ts and the client of                      *)
(* src/central_claims.rs that acquires a lease before a dispatch, renews   *)
(* it from a background thread while the dispatch runs, and releases it    *)
(* when the guard is dropped.                                              *)
(*                                                                         *)
(* One (profile, work_id) key is modelled; keys do not interact.  The      *)
(* server's handlers are synchronous, so each is one step.  A call is not: *)
(* the client sends it, the server handles it, the client reads the        *)
(* answer, and in between time passes, the client may time out or die, and *)
(* the server may restart from its file.  A request whose client gave up   *)
(* may still be handled later.                                             *)
(***************************************************************************)
EXTENDS Naturals

CONSTANTS
  Nodes,      \* nodes that compete for the item
  Nobody,     \* no lease holder
  RenewEvery, \* ticks the renewal thread sleeps between attempts
  MaxCall,    \* ticks after which a call has timed out (curl --max-time)
  LateOps,    \* calls the server may handle after their client gave up
  Steady,     \* nodes that keep trying for the item
  Faults      \* bound on failed calls, failed saves, crashes and restarts

\* DEFAULT_LEASE_SECONDS: the renewal thread sleeps a third of it.
Lease == 3 * RenewEvery
LapseCount == 3

Ops == {"acquire", "renew", "release"}

ASSUME ConstantsAssumption ==
  /\ Nobody \notin Nodes
  /\ RenewEvery \in Nat \ {0}
  /\ MaxCall \in Nat
  /\ LateOps \subseteq Ops
  /\ Steady \subseteq Nodes
  /\ Faults \in Nat

\* By when a failing renewal has been reported: see WarnedInTime.
WarnBy == Lease + 4 * MaxCall
MaxSince == WarnBy + 1

VARIABLES
  mem,       \* the lease in the server's map: holder and ticks to expiry
  disk,      \* the lease in the server's file
  pc,        \* each node's dispatch: its call in flight, or its renewal's sleep
  wait,      \* ticks since that phase began
  answer,    \* the server's answer to the call, once handled
  since,     \* ticks since a node sent its last successful call
  failures,  \* the renewal thread's consecutive failures
  late,      \* requests given up on that the server may still handle
  faults

server == <<mem, disk>>
guard == <<since, failures>>
vars == <<mem, disk, pc, wait, answer, since, failures, late, faults>>

Leases == [node : Nodes \cup {Nobody}, ttl : 0..Lease]
NoLease == [node |-> Nobody, ttl |-> 0]

Working == {"sleep", "renew"}

(* The type invariant: the shape of the state and the range of its timers. *)
TypeOK ==
  /\ mem \in Leases
  /\ disk \in Leases
  /\ pc \in [Nodes -> Ops \cup {"idle", "sleep"}]
  /\ wait \in [Nodes -> Nat]
  /\ answer \in [Nodes -> {"none", "ok", "refused"}]
  /\ since \in [Nodes -> 0..MaxSince]
  /\ failures \in [Nodes -> 0..LapseCount]
  /\ late \subseteq [node : Nodes, op : LateOps]
  /\ faults \in 0..Faults

Init ==
  /\ mem = NoLease
  /\ disk = NoLease
  /\ pc = [n \in Nodes |-> "idle"]
  /\ wait = [n \in Nodes |-> 0]
  /\ answer = [n \in Nodes |-> "none"]
  /\ since = [n \in Nodes |-> 0]
  /\ failures = [n \in Nodes |-> 0]
  /\ late = {}
  /\ faults = Faults

SpendFault == faults > 0 /\ faults' = faults - 1

-----------------------------------------------------------------------------
(* The server *)

\* Mutant: an expired lease is never swept.
NeverSwept(l) == l

sweepExpired(l) == IF l.ttl = 0 THEN NoLease ELSE l

Grant(n) == [node |-> n, ttl |-> Lease]

(* The file is replaced by an atomic rename.  A failed save is answered as *)
(* an error, keeps the change in memory, and may have replaced the file    *)
(* (the chmod after the rename can fail).                                  *)
save(l, ok) ==
  \/ ok /\ disk' = l /\ UNCHANGED faults
  \/ ~ok /\ SpendFault /\ disk' \in {disk, l}

\* Mutant: an unexpired lease of another node is replaced.
AcquireOverLive(n, ok) == mem' = Grant(n) /\ save(Grant(n), ok)

\* Another node's unexpired lease refuses; one's own is refreshed.
acquire(n, ok) ==
  LET lease == sweepExpired(mem)
  IN IF lease.node \in {Nobody, n}
     THEN mem' = Grant(n) /\ save(Grant(n), ok)
     ELSE mem' = lease /\ ~ok /\ UNCHANGED <<disk, faults>>

\* Mutant: a renewal brings back a lease that was lost.
RenewResurrects(n, ok) == mem' = Grant(n) /\ save(Grant(n), ok)

\* A renewal never brings back a lease that lapsed or was taken.
renew(n, ok) ==
  LET lease == sweepExpired(mem)
  IN IF lease.node = n
     THEN mem' = Grant(n) /\ save(Grant(n), ok)
     ELSE mem' = lease /\ ~ok /\ UNCHANGED <<disk, faults>>

\* Nothing to do, and no error, unless the lease is this node's.
release(n, ok) ==
  IF mem.node = n
  THEN mem' = NoLease /\ save(NoLease, ok)
  ELSE ok /\ UNCHANGED <<mem, disk, faults>>

Serve(op, n, ok) ==
  \/ op = "acquire" /\ acquire(n, ok)
  \/ op = "renew" /\ renew(n, ok)
  \/ op = "release" /\ release(n, ok)

ServeCall(n) ==
  /\ pc[n] \in Ops
  /\ answer[n] = "none"
  /\ \E ok \in BOOLEAN :
       /\ Serve(pc[n], n, ok)
       /\ answer' = [answer EXCEPT ![n] = IF ok THEN "ok" ELSE "refused"]
  /\ UNCHANGED <<pc, wait, guard, late>>

\* A request whose client is gone: handled, the answer goes nowhere.
ServeLate ==
  \E r \in late :
    /\ \E ok \in BOOLEAN : Serve(r.op, r.node, ok)
    /\ late' = late \ {r}
    /\ UNCHANGED <<pc, wait, answer, guard>>

\* The service process restarts and loads the file.
load ==
  /\ SpendFault
  /\ mem' = disk
  /\ UNCHANGED <<disk, pc, wait, answer, guard, late>>

-----------------------------------------------------------------------------
(* The nodes *)

\* Node n enters a phase: a new call, the sleep between renewals, or idle.
Enter(n, phase) ==
  /\ pc' = [pc EXCEPT ![n] = phase]
  /\ wait' = [wait EXCEPT ![n] = 0]
  /\ answer' = [answer EXCEPT ![n] = "none"]

(* The client stops waiting for its call; if the server has not handled it *)
(* yet, it is lost or will be handled late.                                *)
LeaveCall(n) ==
  \/ UNCHANGED late
  \/ /\ pc[n] \in LateOps
     /\ answer[n] = "none"
     /\ late' = late \cup {[node |-> n, op |-> pc[n]]}

\* The guard and its renewal thread's counter are gone.
EndGuard(n) ==
  /\ since' = [since EXCEPT ![n] = 0]
  /\ failures' = [failures EXCEPT ![n] = 0]

\* A dispatch starts (acquire_claim): one at a time on a node, which its
\* local claims see to.
AcquireBegin(n) ==
  /\ pc[n] = "idle"
  /\ Enter(n, "acquire")
  /\ UNCHANGED <<server, guard, late, faults>>

\* 200: the dispatch starts and with it the renewal thread.
AcquireGranted(n) ==
  /\ pc[n] = "acquire"
  /\ answer[n] = "ok"
  /\ Enter(n, "sleep")
  /\ since' = [since EXCEPT ![n] = wait[n]]
  /\ failures' = [failures EXCEPT ![n] = 0]
  /\ UNCHANGED <<server, late, faults>>

\* 409 or any other status: fail closed, the dispatch does not start.
AcquireRefused(n) ==
  /\ pc[n] = "acquire"
  /\ answer[n] = "refused"
  /\ Enter(n, "idle")
  /\ UNCHANGED <<server, guard, late, faults>>

RenewBegin(n) ==
  /\ pc[n] = "sleep"
  /\ wait[n] >= RenewEvery
  /\ Enter(n, "renew")
  /\ UNCHANGED <<server, guard, late, faults>>

\* Mutant: a success takes one failure back instead of all.
RenewUncounts(n) ==
  /\ pc[n] = "renew"
  /\ answer[n] = "ok"
  /\ Enter(n, "sleep")
  /\ since' = [since EXCEPT ![n] = wait[n]]
  /\ failures' = [failures EXCEPT ![n] = @ - 1]
  /\ UNCHANGED <<server, late, faults>>

RenewOk(n) ==
  /\ pc[n] = "renew"
  /\ answer[n] = "ok"
  /\ Enter(n, "sleep")
  /\ since' = [since EXCEPT ![n] = wait[n]]
  /\ failures' = [failures EXCEPT ![n] = 0]
  /\ UNCHANGED <<server, late, faults>>

\* Mutant: only transport errors count as failures.
RefusalNotCounted(n) ==
  /\ Enter(n, "sleep")
  /\ failures' = IF answer[n] = "refused" THEN failures
                 ELSE [failures EXCEPT ![n] = IF @ < LapseCount THEN @ + 1 ELSE @]
  /\ UNCHANGED since

(* One more consecutive failure; the third logs that the claim has likely  *)
(* lapsed.  The dispatch goes on and so do the attempts.                   *)
CountFailure(n) ==
  /\ Enter(n, "sleep")
  /\ failures' = [failures EXCEPT ![n] = IF @ < LapseCount THEN @ + 1 ELSE @]
  /\ UNCHANGED since

RenewRefused(n) ==
  /\ pc[n] = "renew"
  /\ answer[n] = "refused"
  /\ CountFailure(n)
  /\ UNCHANGED <<server, late, faults>>

\* A call fails in transport or times out, before or after it was handled.
CallFails(n) ==
  /\ pc[n] \in Ops
  /\ SpendFault
  /\ LeaveCall(n)
  /\ \/ pc[n] = "renew" /\ CountFailure(n)
     \/ pc[n] # "renew" /\ Enter(n, "idle") /\ UNCHANGED guard
  /\ UNCHANGED server

(* The dispatch ends and the guard is dropped: the renewal thread is told  *)
(* to stop, not joined, so its call may still be on its way.               *)
Drop(n) ==
  /\ pc[n] \in Working
  /\ LeaveCall(n)
  /\ EndGuard(n)
  /\ Enter(n, "release")
  /\ UNCHANGED <<server, faults>>

ReleaseDone(n) ==
  /\ pc[n] = "release"
  /\ answer[n] # "none"
  /\ Enter(n, "idle")
  /\ UNCHANGED <<server, guard, late, faults>>

\* The dispatching process dies: nothing is released.
Crash(n) ==
  /\ pc[n] # "idle"
  /\ SpendFault
  /\ LeaveCall(n)
  /\ EndGuard(n)
  /\ Enter(n, "idle")
  /\ UNCHANGED server

-----------------------------------------------------------------------------
\* A call ends within its timeout, and a sleep when it is over.
Due(n) == \/ pc[n] \in Ops /\ wait[n] >= MaxCall
          \/ pc[n] = "sleep" /\ wait[n] >= RenewEvery

Aged(l) == [node |-> l.node, ttl |-> IF l.ttl > 0 THEN l.ttl - 1 ELSE 0]

Tick ==
  /\ \A n \in Nodes : ~Due(n)
  /\ mem' = Aged(mem)
  /\ disk' = Aged(disk)
  /\ wait' = [n \in Nodes |-> IF pc[n] = "idle" THEN 0 ELSE wait[n] + 1]
  /\ since' = [n \in Nodes |-> IF pc[n] \in Working /\ since[n] < MaxSince
                               THEN since[n] + 1 ELSE since[n]]
  /\ UNCHANGED <<pc, answer, failures, late, faults>>

NodeStep(n) ==
  \/ AcquireGranted(n)
  \/ AcquireRefused(n)
  \/ RenewBegin(n)
  \/ RenewOk(n)
  \/ RenewRefused(n)
  \/ Drop(n)
  \/ ReleaseDone(n)

Next ==
  \/ \E n \in Nodes : AcquireBegin(n) \/ NodeStep(n) \/ ServeCall(n)
                        \/ CallFails(n) \/ Crash(n)
  \/ ServeLate
  \/ load
  \/ Tick

(* Time passes, the server answers, a node's client acts on answers, a     *)
(* dispatch ends, and a steady node tries again.                           *)
Fairness ==
  /\ WF_vars(Tick)
  /\ \A n \in Nodes : WF_vars(ServeCall(n)) /\ WF_vars(NodeStep(n))
  /\ \A n \in Nodes : WF_vars(Drop(n))
  /\ \A n \in Steady : WF_vars(AcquireBegin(n))

Spec == Init /\ [][Next]_vars
FairSpec == Spec /\ Fairness

-----------------------------------------------------------------------------
(* Properties *)

(* Two nodes work on the item at the same time only when one of them has   *)
(* had no successful call for a whole lease: through server restarts,      *)
(* failed saves, lost answers, crashes and late acquire or renew requests. *)
FreshLeaseExclusive ==
  \A m, n \in Nodes :
    m # n /\ pc[m] \in Working /\ pc[n] \in Working
      => since[m] >= Lease \/ since[n] >= Lease

(* The leases implement an exclusive claim: a node has authority from a    *)
(* successful call until a lease's time has passed since it was sent, and  *)
(* no other node gets it before that, whatever the server and the calls    *)
(* that are still on their way do.                                         *)
Authority ==
  INSTANCE ExclusiveClaim
    WITH Items <- {"item"}, Owners <- Nodes,
         holders <- [i \in {"item"} |->
                       {n \in Nodes : pc[n] \in Working /\ since[n] < Lease}]

ImplementsClaim == Authority!Spec

(* The renewal loop reports the lapse: a dispatch with no successful call  *)
(* for a lease and four call timeouts has logged the lapse warning.        *)
WarnedInTime ==
  \A n \in Nodes :
    pc[n] \in Working /\ since[n] > WarnBy => failures[n] = LapseCount

(* A node that stops for good, in whatever state its lease was left, does  *)
(* not keep the item: a steady node gets to work on it again and again.    *)
DeadNodeLapses ==
  <>[](\A n \in Nodes \ Steady : pc[n] = "idle")
    => []<>(\E n \in Steady : pc[n] \in Working)
=============================================================================
