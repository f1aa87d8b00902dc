------------------------ MODULE CentralClaimsProofs ------------------------
(***************************************************************************)
(* Proofs about CentralClaims for any set of nodes, renewal interval, call *)
(* timeout and number of faults.  Exclusion, and with it the refinement of *)
(* ExclusiveClaim, is proved when no release is handled after its client   *)
(* gave up; it fails otherwise (README, section "Stated, and refuted by    *)
(* the code").                                                             *)
(***************************************************************************)
EXTENDS CentralClaims, TLAPS

(* A call is answered or abandoned within its timeout.                     *)
CallsInTime == \A n \in Nodes : pc[n] \in Ops => wait[n] <= MaxCall

\* Lease l is n's for as long as a call n sent t ticks ago entitles it.
Backs(l, n, t) == t < Lease => l.node = n /\ l.ttl + t >= Lease

Stored(n, t) == Backs(mem, n, t) /\ Backs(disk, n, t)

(* What makes exclusion inductive: memory and file both hold the lease of  *)
(* a node at work, ...                                                     *)
WorkBacked == \A n \in Nodes : pc[n] \in Working => Stored(n, since[n])

(* ... and of a node whose successful answer is on its way.                *)
AnswerBacked ==
  \A n \in Nodes :
    pc[n] \in {"acquire", "renew"} /\ answer[n] = "ok" => Stored(n, wait[n])

Inv == TypeOK /\ CallsInTime /\ WorkBacked /\ AnswerBacked

USE ConstantsAssumption

-----------------------------------------------------------------------------
(* Every handler stores a well-formed lease and gives back at most the     *)
(* fault it spends.                                                        *)
LEMMA ServeType ==
  ASSUME TypeOK, NEW op, NEW n \in Nodes, NEW ok \in BOOLEAN, Serve(op, n, ok)
  PROVE  mem' \in Leases /\ disk' \in Leases /\ faults' \in 0..Faults
<1>1. Lease \in Nat /\ Grant(n) \in Leases /\ NoLease \in Leases
  BY DEF Grant, Leases, NoLease, Lease
<1>2. sweepExpired(mem) \in Leases
  BY <1>1 DEF TypeOK, sweepExpired
<1>3. ASSUME NEW l \in Leases, save(l, ok)
      PROVE  disk' \in Leases /\ faults' \in 0..Faults
  BY <1>3 DEF save, TypeOK, SpendFault
<1> QED BY <1>1, <1>2, <1>3 DEF Serve, acquire, renew, release, TypeOK

(* Types and call timeouts are kept by every step.                         *)
LEMMA TypeStep ==
  TypeOK /\ CallsInTime /\ [Next]_vars => TypeOK' /\ CallsInTime'
<1> SUFFICES ASSUME TypeOK, CallsInTime, [Next]_vars PROVE TypeOK' /\ CallsInTime'
  OBVIOUS
<1>1. Lease \in Nat /\ MaxSince \in Nat /\ MaxCall <= MaxSince /\ LapseCount \in Nat
  BY DEF Lease, MaxSince, WarnBy, LapseCount
<1>2. ASSUME NEW n \in Nodes, NEW phase \in Ops \cup {"idle", "sleep"}, Enter(n, phase)
      PROVE  /\ pc' \in [Nodes -> Ops \cup {"idle", "sleep"}]
             /\ wait' \in [Nodes -> Nat]
             /\ answer' \in [Nodes -> {"none", "ok", "refused"}]
             /\ CallsInTime'
  BY <1>2 DEF Enter, TypeOK, CallsInTime
<1>3. ASSUME SpendFault PROVE faults' \in 0..Faults
  BY <1>3 DEF SpendFault, TypeOK
<1>4. ASSUME NEW n \in Nodes, LeaveCall(n)
      PROVE  late' \subseteq [node : Nodes, op : LateOps]
  BY <1>4 DEF LeaveCall, TypeOK
<1>5. ASSUME NEW n \in Nodes, EndGuard(n)
      PROVE  since' \in [Nodes -> 0..MaxSince] /\ failures' \in [Nodes -> 0..LapseCount]
  BY <1>1, <1>5 DEF EndGuard, TypeOK
<1>6. ASSUME NEW n \in Nodes, CountFailure(n)
      PROVE  since' \in [Nodes -> 0..MaxSince] /\ failures' \in [Nodes -> 0..LapseCount]
  BY <1>1, <1>6 DEF CountFailure, TypeOK
<1>7. ASSUME NEW n \in Nodes, ServeCall(n) PROVE TypeOK' /\ CallsInTime'
  <2>1. PICK ok \in BOOLEAN :
          /\ Serve(pc[n], n, ok)
          /\ answer' = [answer EXCEPT ![n] = IF ok THEN "ok" ELSE "refused"]
    BY <1>7 DEF ServeCall
  <2>2. mem' \in Leases /\ disk' \in Leases /\ faults' \in 0..Faults
    BY <2>1, ServeType
  <2> QED BY <1>7, <2>1, <2>2 DEF ServeCall, TypeOK, CallsInTime, guard
<1>8. CASE ServeLate
  <2>1. PICK r \in late, ok \in BOOLEAN : Serve(r.op, r.node, ok) /\ late' = late \ {r}
    BY <1>8 DEF ServeLate
  <2>2. mem' \in Leases /\ disk' \in Leases /\ faults' \in 0..Faults
    BY <2>1, ServeType DEF TypeOK
  <2> QED BY <1>8, <2>1, <2>2 DEF ServeLate, TypeOK, CallsInTime, guard
<1>9. CASE load
  BY <1>9 DEF load, SpendFault, TypeOK, CallsInTime, guard
<1>10. ASSUME NEW n \in Nodes,
              \/ AcquireBegin(n) \/ AcquireRefused(n) \/ RenewBegin(n) \/ ReleaseDone(n)
       PROVE  TypeOK' /\ CallsInTime'
  BY <1>2, <1>10 DEF AcquireBegin, AcquireRefused, RenewBegin, ReleaseDone, Ops,
       TypeOK, server, guard
<1>11. ASSUME NEW n \in Nodes, AcquireGranted(n) \/ RenewOk(n)
       PROVE  TypeOK' /\ CallsInTime'
  <2>1. wait[n] \in 0..MaxSince
    BY <1>1, <1>11 DEF AcquireGranted, RenewOk, Ops, TypeOK, CallsInTime
  <2>2. Enter(n, "sleep")
    BY <1>11 DEF AcquireGranted, RenewOk
  <2> QED BY <1>1, <1>2, <1>11, <2>1, <2>2
          DEF AcquireGranted, RenewOk, TypeOK, server
<1>12. ASSUME NEW n \in Nodes, RenewRefused(n) PROVE TypeOK' /\ CallsInTime'
  BY <1>2, <1>6, <1>12 DEF RenewRefused, CountFailure, TypeOK, server
<1>13. ASSUME NEW n \in Nodes, CallFails(n) PROVE TypeOK' /\ CallsInTime'
  <2>1. CASE pc[n] = "renew"
    BY <1>2, <1>3, <1>4, <1>6, <1>13, <2>1 DEF CallFails, CountFailure, TypeOK, server
  <2>2. CASE pc[n] # "renew"
    BY <1>2, <1>3, <1>4, <1>13, <2>2 DEF CallFails, TypeOK, server, guard
  <2> QED BY <2>1, <2>2
<1>14. ASSUME NEW n \in Nodes, Drop(n) PROVE TypeOK' /\ CallsInTime'
  BY <1>2, <1>4, <1>5, <1>14 DEF Drop, Ops, TypeOK, server
<1>15. ASSUME NEW n \in Nodes, Crash(n) PROVE TypeOK' /\ CallsInTime'
  BY <1>2, <1>3, <1>4, <1>5, <1>15 DEF Crash, TypeOK, server
<1>16. CASE Tick
  <2>1. Aged(mem) \in Leases /\ Aged(disk) \in Leases
    BY <1>1 DEF Aged, TypeOK, Leases
  <2>2. wait' \in [Nodes -> Nat]
    BY <1>16 DEF Tick, TypeOK
  <2>3. since' \in [Nodes -> 0..MaxSince]
    BY <1>1, <1>16 DEF Tick, TypeOK
  <2>4. CallsInTime'
    BY <1>16 DEF Tick, Due, TypeOK, CallsInTime, Ops
  <2> QED BY <1>16, <2>1, <2>2, <2>3, <2>4 DEF Tick, TypeOK
<1>17. CASE UNCHANGED vars
  BY <1>17 DEF vars, TypeOK, CallsInTime
<1> QED
  BY <1>7, <1>8, <1>9, <1>10, <1>11, <1>12, <1>13, <1>14, <1>15, <1>16, <1>17
  DEF Next, NodeStep

-----------------------------------------------------------------------------
(* A handler serving node m, other than a release while m is at work or    *)
(* has been answered, leaves every entitlement of memory and file intact.  *)
LEMMA ServeKeeps ==
  ASSUME TypeOK, NEW op \in Ops, NEW m \in Nodes, NEW ok \in BOOLEAN, Serve(op, m, ok),
         NEW n \in Nodes, NEW t \in Nat, Stored(n, t), op = "release" => n # m
  PROVE  Stored(n, t)'
<1> SUFFICES ASSUME t < Lease PROVE Stored(n, t)'
  BY DEF Stored, Backs
<1>1. Lease \in Nat /\ mem.node = n /\ disk.node = n /\ mem.ttl > 0
  BY DEF Stored, Backs, Lease, TypeOK, Leases
<1>2. sweepExpired(mem) = mem /\ n # Nobody
  BY <1>1 DEF sweepExpired
<1>3. Backs(Grant(m), m, t)
  BY <1>1 DEF Backs, Grant
<1>4. ASSUME save(Grant(m), ok), n = m PROVE Backs(disk', n, t)
  BY <1>3, <1>4 DEF save, Stored
<1>5. CASE op = "acquire"
  BY <1>1, <1>2, <1>3, <1>4, <1>5 DEF Serve, acquire, Stored
<1>6. CASE op = "renew"
  BY <1>1, <1>2, <1>3, <1>4, <1>6 DEF Serve, renew, Stored
<1>7. CASE op = "release"
  BY <1>1, <1>7 DEF Serve, release, Stored
<1> QED BY <1>5, <1>6, <1>7 DEF Ops

(* A successful acquire or renewal backs its caller from this moment on.   *)
LEMMA ServeGrants ==
  ASSUME NEW op \in {"acquire", "renew"}, NEW n \in Nodes, Serve(op, n, TRUE),
         NEW t \in Nat
  PROVE  Stored(n, t)'
<1>1. mem' = Grant(n) /\ disk' = Grant(n)
  BY DEF Serve, acquire, renew, save
<1> QED BY <1>1 DEF Stored, Backs, Grant, Lease

(* Nobody is entitled to anything at first.                                *)
LEMMA InvInit == Init => Inv
BY DEF Init, Inv, TypeOK, CallsInTime, WorkBacked, AnswerBacked, Working, Leases,
  NoLease, Ops, Lease, MaxSince, WarnBy, LapseCount

(* The entitlements survive every step.                                    *)
LEMMA InvStep ==
  ASSUME "release" \notin LateOps PROVE Inv /\ [Next]_vars => Inv'
<1> SUFFICES ASSUME Inv, [Next]_vars PROVE Inv'
  OBVIOUS
<1> USE DEF Inv
<1>1. TypeOK' /\ CallsInTime'
  BY TypeStep
<1> SUFFICES WorkBacked' /\ AnswerBacked'
  BY <1>1
<1>2. \A n \in Nodes : since[n] \in Nat /\ wait[n] \in Nat
  BY DEF TypeOK
<1>3. ASSUME NEW n \in Nodes, ServeCall(n) PROVE WorkBacked' /\ AnswerBacked'
  <2>1. PICK ok \in BOOLEAN :
          /\ Serve(pc[n], n, ok)
          /\ answer' = [answer EXCEPT ![n] = IF ok THEN "ok" ELSE "refused"]
    BY <1>3 DEF ServeCall
  <2>2. pc[n] \in Ops /\ pc' = pc /\ wait' = wait /\ since' = since
    BY <1>3 DEF ServeCall, guard
  <2>3. ASSUME NEW k \in Nodes, pc[k] \in Working PROVE Stored(k, since[k])'
    BY <1>2, <2>1, <2>2, <2>3, ServeKeeps DEF WorkBacked, Working
  <2>4. ASSUME NEW k \in Nodes, k # n, pc[k] \in {"acquire", "renew"}, answer[k] = "ok"
        PROVE  Stored(k, wait[k])'
    BY <1>2, <2>1, <2>2, <2>4, ServeKeeps DEF AnswerBacked
  <2>5. ASSUME pc[n] \in {"acquire", "renew"}, answer'[n] = "ok" PROVE Stored(n, wait[n])'
    <3>1. ok = TRUE
      BY <2>1, <2>5 DEF TypeOK
    <3> QED BY <1>2, <2>1, <2>2, <2>5, <3>1, ServeGrants
  <2>6. \A k \in Nodes : k # n => answer'[k] = answer[k]
    BY <2>1 DEF TypeOK
  <2> QED BY <2>2, <2>3, <2>4, <2>5, <2>6 DEF WorkBacked, AnswerBacked
<1>4. CASE ServeLate
  <2>1. PICK r \in late, ok \in BOOLEAN : Serve(r.op, r.node, ok)
    BY <1>4 DEF ServeLate
  <2>2. r.node \in Nodes /\ r.op \in Ops /\ r.op # "release"
    BY DEF TypeOK
  <2>3. pc' = pc /\ wait' = wait /\ since' = since /\ answer' = answer
    BY <1>4 DEF ServeLate, guard
  <2> QED BY <1>2, <2>1, <2>2, <2>3, ServeKeeps DEF WorkBacked, AnswerBacked
<1>5. CASE load
  BY <1>5 DEF load, guard, WorkBacked, AnswerBacked, Stored
<1>6. ASSUME NEW n \in Nodes, UNCHANGED server, NEW phase \in Ops \cup {"idle", "sleep"},
             Enter(n, phase), \A k \in Nodes \ {n} : since'[k] = since[k],
             phase \in Working => Stored(n, since'[n])
      PROVE  WorkBacked' /\ AnswerBacked'
  <2>1. mem' = mem /\ disk' = disk
    BY <1>6 DEF server
  <2>2. \A k \in Nodes \ {n} : pc'[k] = pc[k] /\ wait'[k] = wait[k] /\ answer'[k] = answer[k]
    BY <1>6 DEF Enter, TypeOK
  <2>3. pc'[n] = phase /\ answer'[n] = "none"
    BY <1>6 DEF Enter, TypeOK
  <2> QED BY <1>6, <2>1, <2>2, <2>3 DEF WorkBacked, AnswerBacked, Stored
<1>7. ASSUME NEW n \in Nodes,
             \/ AcquireBegin(n) \/ AcquireRefused(n) \/ ReleaseDone(n) \/ Drop(n) \/ Crash(n)
      PROVE  WorkBacked' /\ AnswerBacked'
  <2>1. \A k \in Nodes \ {n} : since'[k] = since[k]
    BY <1>7 DEF AcquireBegin, AcquireRefused, ReleaseDone, Drop, Crash, EndGuard, guard, TypeOK
  <2>2. UNCHANGED server
    BY <1>7 DEF AcquireBegin, AcquireRefused, ReleaseDone, Drop, Crash
  <2>3. \E phase \in {"acquire", "release", "idle"} : Enter(n, phase)
    BY <1>7 DEF AcquireBegin, AcquireRefused, ReleaseDone, Drop, Crash
  <2> QED BY <1>6, <2>1, <2>2, <2>3 DEF Ops, Working
<1>8. ASSUME NEW n \in Nodes, RenewBegin(n) \/ RenewRefused(n) PROVE WorkBacked' /\ AnswerBacked'
  <2>1. since' = since /\ UNCHANGED server /\ pc[n] \in Working
    BY <1>8 DEF RenewBegin, RenewRefused, CountFailure, guard, Working
  <2>2. \E phase \in {"renew", "sleep"} : Enter(n, phase)
    BY <1>8 DEF RenewBegin, RenewRefused, CountFailure
  <2> QED BY <1>6, <2>1, <2>2 DEF Ops, Working, WorkBacked
<1>9. ASSUME NEW n \in Nodes, AcquireGranted(n) \/ RenewOk(n) PROVE WorkBacked' /\ AnswerBacked'
  <2>1. since' = [since EXCEPT ![n] = wait[n]] /\ UNCHANGED server /\ Enter(n, "sleep")
    BY <1>9 DEF AcquireGranted, RenewOk
  <2>2. Stored(n, wait[n])
    BY <1>9 DEF AcquireGranted, RenewOk, AnswerBacked
  <2>3. since'[n] = wait[n] /\ \A k \in Nodes \ {n} : since'[k] = since[k]
    BY <2>1 DEF TypeOK
  <2> QED BY <1>6, <2>1, <2>2, <2>3
<1>10. ASSUME NEW n \in Nodes, CallFails(n) PROVE WorkBacked' /\ AnswerBacked'
  <2>1. since' = since /\ UNCHANGED server
    BY <1>10 DEF CallFails, CountFailure, guard
  <2>2. CASE pc[n] = "renew"
    BY <1>6, <1>10, <2>1, <2>2 DEF CallFails, CountFailure, WorkBacked, Working
  <2>3. CASE pc[n] # "renew"
    BY <1>6, <1>10, <2>1, <2>3 DEF CallFails, Working
  <2> QED BY <2>2, <2>3
<1>11. CASE Tick
  <2>1. ASSUME NEW n \in Nodes, NEW t \in Nat, Stored(n, t) PROVE Stored(n, t + 1)'
    <3>1. ASSUME NEW l \in Leases, Backs(l, n, t) PROVE Backs(Aged(l), n, t + 1)
      BY <3>1 DEF Backs, Aged, Leases, Lease
    <3> QED BY <1>11, <2>1, <3>1 DEF Tick, Stored, TypeOK
  <2>2. pc' = pc /\ answer' = answer
    BY <1>11 DEF Tick
  <2>3. ASSUME NEW n \in Nodes, pc[n] \in Working PROVE Stored(n, since[n])'
    <3>1. CASE since[n] < MaxSince
      <4>1. since'[n] = since[n] + 1
        BY <1>11, <2>3, <3>1 DEF Tick
      <4> QED BY <1>2, <2>1, <2>3, <4>1 DEF WorkBacked
    <3>2. CASE ~(since[n] < MaxSince)
      <4>1. since'[n] = since[n] /\ ~(since[n] < Lease)
        BY <1>2, <1>11, <2>3, <3>2 DEF Tick, MaxSince, WarnBy, Lease
      <4> QED BY <4>1 DEF Stored, Backs
    <3> QED BY <3>1, <3>2
  <2>4. ASSUME NEW n \in Nodes, pc[n] \in {"acquire", "renew"}, answer[n] = "ok"
        PROVE  Stored(n, wait[n])'
    <3>1. wait'[n] = wait[n] + 1
      BY <1>11, <2>4 DEF Tick
    <3> QED BY <1>2, <2>1, <2>4, <3>1 DEF AnswerBacked
  <2> QED BY <2>2, <2>3, <2>4 DEF WorkBacked, AnswerBacked
<1>12. CASE UNCHANGED vars
  BY <1>12 DEF vars, WorkBacked, AnswerBacked, Stored
<1> QED
  BY <1>1, <1>3, <1>4, <1>5, <1>7, <1>8, <1>9, <1>10, <1>11, <1>12 DEF Next, NodeStep

-----------------------------------------------------------------------------
(* Every reachable state has its type; in particular the time since a      *)
(* node's last successful call is bounded by the call timeout when it is   *)
(* taken over from the answer.                                             *)
THEOREM CentralTypes == Spec => []TypeOK
<1>1. Init => TypeOK /\ CallsInTime
  BY DEF Init, TypeOK, CallsInTime, Leases, NoLease, Ops, Lease, MaxSince, WarnBy, LapseCount
<1> QED BY <1>1, TypeStep, PTL DEF Spec

(* Two nodes work on one item only when one of them went a whole lease     *)
(* without a successful call, for any number of nodes and faults, if no    *)
(* release is handled after its client gave up.                            *)
THEOREM CentralExclusion ==
  ASSUME "release" \notin LateOps PROVE Spec => []FreshLeaseExclusive
<1>1. Init => Inv
  BY InvInit
<1>2. Inv => FreshLeaseExclusive
  BY DEF Inv, TypeOK, WorkBacked, Stored, Backs, FreshLeaseExclusive, Lease
<1> QED BY <1>1, <1>2, InvStep, PTL DEF Spec
-----------------------------------------------------------------------------
\* The nodes that have authority over the item.
Entitled == {n \in Nodes : pc[n] \in Working /\ since[n] < Lease}

(* The server's memory names a node that has authority, so only one has.   *)
LEMMA EntitledNamed ==
  ASSUME Inv PROVE \A n \in Entitled : mem.node = n
BY DEF Inv, WorkBacked, Stored, Backs, Entitled

(* A step by which a node gains authority is its own reading of an answer: *)
(* it leaves the server's memory alone.                                    *)
LEMMA GainLeavesServer ==
  ASSUME Inv, [Next]_vars, NEW o \in Entitled', o \notin Entitled
  PROVE  mem' = mem
<1>1. CASE \/ ServeLate \/ load \/ \E n \in Nodes : ServeCall(n)
  BY <1>1 DEF ServeLate, load, ServeCall, guard, Entitled
<1>2. CASE Tick
  <2>1. pc' = pc /\ since'[o] < Lease /\ o \in Nodes /\ pc[o] \in Working
    BY <1>2 DEF Tick, Entitled
  <2>2. since'[o] >= since[o] /\ since[o] \in Nat /\ Lease \in Nat
    BY <1>2, <2>1 DEF Tick, Inv, TypeOK, Lease
  <2>3. since[o] < Lease
    <3> HIDE DEF Lease
    <3>1. since'[o] \in Nat
      BY <1>2, <2>1, <2>2 DEF Tick, Inv, TypeOK
    <3> QED BY <2>1, <2>2, <3>1
  <2> QED BY <2>1, <2>3 DEF Entitled
<1>3. CASE \E n \in Nodes : AcquireBegin(n) \/ NodeStep(n) \/ CallFails(n) \/ Crash(n)
  BY <1>3 DEF NodeStep, AcquireBegin, AcquireGranted, AcquireRefused, RenewBegin, RenewOk,
    RenewRefused, Drop, ReleaseDone, CallFails, Crash, server
<1>4. CASE UNCHANGED vars
  BY <1>4 DEF vars
<1> QED BY <1>1, <1>2, <1>3, <1>4 DEF Next

(* The central leases implement the exclusive claim when no release is     *)
(* handled after its client gave up: a node gets authority only when no    *)
(* other has it, through restarts of the server, failed saves, lost        *)
(* answers, crashes and late acquire and renew requests.                   *)
THEOREM CentralRefinement ==
  ASSUME "release" \notin LateOps PROVE Spec => ImplementsClaim
<1>1. Init => Authority!Init
  <2> SUFFICES ASSUME Init PROVE Authority!Init
    OBVIOUS
  <2>1. Entitled = {}
    BY DEF Init, Entitled, Working
  <2> QED BY <2>1 DEF Authority!Init, Entitled
<1>2. Inv /\ Inv' /\ [Next]_vars => [Authority!Next]_([i \in {"item"} |-> Entitled])
  <2> SUFFICES ASSUME Inv, Inv', [Next]_vars, Entitled' # Entitled
               PROVE  Authority!Next
    OBVIOUS
  <2>1. CASE Entitled' = {}
    <3>1. Authority!Lose({"item"})
      BY <2>1 DEF Authority!Lose, Entitled
    <3> QED BY <3>1 DEF Authority!Next
  <2>2. CASE Entitled' # {}
    <3>1. PICK o \in Entitled' : TRUE
      BY <2>2
    <3>2. Entitled' = {o} /\ mem'.node = o
      BY <3>1 DEF Inv, WorkBacked, Stored, Backs, Entitled
    <3>3. o \notin Entitled
      BY <3>2, EntitledNamed
    <3>4. mem' = mem
      BY <3>1, <3>3, GainLeavesServer
    <3>5. Entitled = {}
      BY <3>2, <3>3, <3>4, EntitledNamed
    <3>6. Authority!Take("item", o)
      BY <3>2, <3>5 DEF Authority!Take, Entitled
    <3>7. o \in Nodes
      BY <3>1 DEF Entitled
    <3> QED BY <3>6, <3>7 DEF Authority!Next
  <2> QED BY <2>1, <2>2
<1> QED
  BY <1>1, <1>2, InvInit, InvStep, PTL DEF Spec, ImplementsClaim, Authority!Spec, Entitled
-----------------------------------------------------------------------------
(* A sleep between renewals ends when it is over.                          *)
SleepsInTime == \A n \in Nodes : pc[n] = "sleep" => wait[n] <= RenewEvery

\* What f failed attempts, each after its sleep, add to a successful call.
Spent(f) == IF f < LapseCount THEN f * RenewEvery + (f + 1) * MaxCall ELSE MaxSince

(* The time since the last successful call is accounted for by the failed  *)
(* attempts and the phase the renewal thread is in.                        *)
Accounted ==
  \A n \in Nodes :
    /\ pc[n] = "sleep" => since[n] <= Spent(failures[n]) + wait[n]
    /\ pc[n] = "renew" => since[n] <= Spent(failures[n]) + RenewEvery + wait[n]

WarnInv == TypeOK /\ CallsInTime /\ SleepsInTime /\ Accounted

(* The accounting survives every step.                                     *)
LEMMA WarnStep == WarnInv /\ [Next]_vars => WarnInv'
<1> SUFFICES ASSUME WarnInv, [Next]_vars PROVE WarnInv'
  OBVIOUS
<1> USE DEF WarnInv
<1>1. TypeOK' /\ CallsInTime'
  BY TypeStep
<1> SUFFICES SleepsInTime' /\ Accounted'
  BY <1>1
<1>2. \A n \in Nodes : /\ since[n] \in Nat /\ wait[n] \in Nat /\ failures[n] \in 0..3
                       /\ since[n] <= MaxSince /\ since'[n] \in Nat
                       /\ since'[n] <= MaxSince
  BY <1>1 DEF TypeOK, LapseCount
<1>3. \A f \in 0..3 : Spent(f) \in Nat
  BY DEF Spent, LapseCount, MaxSince, WarnBy, Lease
<1>4. ASSUME NEW n \in Nodes, NEW phase, Enter(n, phase),
             \A k \in Nodes \ {n} : since'[k] = since[k] /\ failures'[k] = failures[k],
             phase = "sleep" => since'[n] <= Spent(failures'[n]),
             phase = "renew" => since'[n] <= Spent(failures'[n]) + RenewEvery
      PROVE  SleepsInTime' /\ Accounted'
  <2>1. \A k \in Nodes \ {n} : pc'[k] = pc[k] /\ wait'[k] = wait[k]
    BY <1>4 DEF Enter, TypeOK
  <2>2. pc'[n] = phase /\ wait'[n] = 0
    BY <1>4 DEF Enter, TypeOK
  <2>3. failures'[n] \in 0..3
    BY <1>1 DEF TypeOK, LapseCount
  <2> QED BY <1>2, <1>3, <1>4, <2>1, <2>2, <2>3 DEF SleepsInTime, Accounted
<1>5. CASE \/ ServeLate \/ load \/ \E n \in Nodes : ServeCall(n)
  BY <1>5 DEF ServeLate, load, ServeCall, guard, SleepsInTime, Accounted
<1>6. ASSUME NEW n \in Nodes,
             \/ AcquireBegin(n) \/ AcquireRefused(n) \/ ReleaseDone(n) \/ Drop(n) \/ Crash(n)
      PROVE  SleepsInTime' /\ Accounted'
  <2>1. \E phase \in {"acquire", "release", "idle"} : Enter(n, phase)
    BY <1>6 DEF AcquireBegin, AcquireRefused, ReleaseDone, Drop, Crash
  <2>2. \A k \in Nodes \ {n} : since'[k] = since[k] /\ failures'[k] = failures[k]
    BY <1>6 DEF AcquireBegin, AcquireRefused, ReleaseDone, Drop, Crash, EndGuard, guard, TypeOK
  <2> QED BY <1>4, <2>1, <2>2
<1>7. ASSUME NEW n \in Nodes, AcquireGranted(n) \/ RenewOk(n) PROVE SleepsInTime' /\ Accounted'
  <2>1. wait[n] <= MaxCall
    BY <1>7 DEF AcquireGranted, RenewOk, CallsInTime, Ops
  <2>2. /\ Enter(n, "sleep")
        /\ since'[n] = wait[n] /\ failures'[n] = 0
        /\ \A k \in Nodes \ {n} : since'[k] = since[k] /\ failures'[k] = failures[k]
    BY <1>7 DEF AcquireGranted, RenewOk, TypeOK
  <2> QED BY <1>4, <2>1, <2>2 DEF Spent, LapseCount
<1>8. ASSUME NEW n \in Nodes, RenewBegin(n) PROVE SleepsInTime' /\ Accounted'
  <2>1. pc[n] = "sleep" /\ wait[n] <= RenewEvery /\ Enter(n, "renew")
    BY <1>8 DEF RenewBegin, SleepsInTime
  <2>2. since' = since /\ failures' = failures
    BY <1>8 DEF RenewBegin, guard
  <2>3. since[n] <= Spent(failures[n]) + RenewEvery
    BY <1>2, <1>3, <2>1 DEF Accounted
  <2> QED BY <1>4, <2>1, <2>2, <2>3
<1>9. ASSUME NEW n \in Nodes, pc[n] = "renew", CountFailure(n) PROVE SleepsInTime' /\ Accounted'
  <2>1. wait[n] <= MaxCall /\ since[n] <= Spent(failures[n]) + RenewEvery + wait[n]
    BY <1>9 DEF CallsInTime, Accounted, Ops
  <2>2. /\ Enter(n, "sleep") /\ since' = since
        /\ failures'[n] = IF failures[n] < 3 THEN failures[n] + 1 ELSE failures[n]
        /\ \A k \in Nodes \ {n} : failures'[k] = failures[k]
    BY <1>9 DEF CountFailure, LapseCount, TypeOK
  <2>3. since[n] <= Spent(failures'[n])
    <3>1. CASE failures[n] \in {0, 1}
      BY <1>2, <2>1, <2>2, <3>1 DEF Spent, LapseCount
    <3>2. CASE failures[n] \in {2, 3}
      BY <1>2, <2>2, <3>2 DEF Spent, LapseCount
    <3> QED BY <1>2, <3>1, <3>2
  <2> QED BY <1>4, <2>2, <2>3
<1>10. ASSUME NEW n \in Nodes, RenewRefused(n) PROVE SleepsInTime' /\ Accounted'
  BY <1>9, <1>10 DEF RenewRefused
<1>11. ASSUME NEW n \in Nodes, CallFails(n) PROVE SleepsInTime' /\ Accounted'
  <2>1. CASE pc[n] = "renew"
    BY <1>9, <1>11, <2>1 DEF CallFails
  <2>2. CASE pc[n] # "renew"
    BY <1>4, <1>11, <2>2 DEF CallFails, guard
  <2> QED BY <2>1, <2>2
<1>12. CASE Tick
  <2>1. pc' = pc /\ failures' = failures
    BY <1>12 DEF Tick
  <2>2. ASSUME NEW n \in Nodes, pc[n] \in Working
        PROVE  wait'[n] = wait[n] + 1 /\ since'[n] <= since[n] + 1
    BY <1>2, <1>12, <2>2 DEF Tick, Working
  <2>3. ASSUME NEW n \in Nodes, pc[n] = "sleep" PROVE wait[n] < RenewEvery
    BY <1>2, <1>12, <2>3 DEF Tick, Due
  <2>4. SleepsInTime'
    BY <1>2, <2>1, <2>2, <2>3 DEF SleepsInTime, Working
  <2>5. Accounted'
    BY <1>2, <1>3, <2>1, <2>2 DEF Accounted, Working
  <2> QED BY <2>4, <2>5
<1>13. CASE UNCHANGED vars
  BY <1>13 DEF vars, SleepsInTime, Accounted
<1> QED
  BY <1>5, <1>6, <1>7, <1>8, <1>10, <1>11, <1>12, <1>13 DEF Next, NodeStep

(* A dispatch whose lease has not been renewed for a lease and four call   *)
(* timeouts has logged the lapse warning, for any renewal interval and any *)
(* call timeout: three failed attempts, each after its sleep, take no      *)
(* longer than that.                                                       *)
THEOREM LapseWarning == Spec => []WarnedInTime
<1>1. Init => WarnInv
  BY InvInit DEF Init, Inv, WarnInv, SleepsInTime, Accounted
<1>2. WarnInv => WarnedInTime
  <2> SUFFICES ASSUME WarnInv, NEW n \in Nodes, pc[n] \in Working, failures[n] # LapseCount
               PROVE  ~(since[n] > WarnBy)
    BY DEF WarnedInTime
  <2>1. failures[n] \in {0, 1, 2} /\ since[n] \in Nat /\ wait[n] \in Nat
    BY DEF WarnInv, TypeOK, LapseCount
  <2>2. Spent(failures[n]) \in Nat /\ Spent(failures[n]) <= 2 * RenewEvery + 3 * MaxCall
    BY <2>1 DEF Spent, LapseCount
  <2>3. since[n] <= Spent(failures[n]) + RenewEvery + MaxCall
    BY <2>1, <2>2 DEF WarnInv, Working, Accounted, CallsInTime, SleepsInTime, Ops
  <2> QED BY <2>1, <2>2, <2>3 DEF WarnBy, Lease
<1> QED BY <1>1, <1>2, WarnStep, PTL DEF Spec
=============================================================================
