-------------------------- MODULE WorkClaimsProofs --------------------------
(***************************************************************************)
(* Proofs about WorkClaims for any hosts, process ids, scopes and work     *)
(* ids.  Uniqueness of an owned claim, and the protection of a manual      *)
(* worker's claim, need no assumption.  Exclusion between jobs, and        *)
(* between jobs and an agent update, and the refinement of ExclusiveClaim  *)
(* are proved for one host: across hosts a loop's claim can be taken at    *)
(* once (README, section "Stated, and refuted by the code"), and the       *)
(* exclusion does not hold.                                                *)
(***************************************************************************)
EXTENDS WorkClaims, TLAPS

OneHost == \A g, h \in Hosts : g = h

(* What makes a job's exclusion inductive: a running job's process is      *)
(* alive in the job's role, ...                                            *)
JobsAlive == \A j \in running \cup attempts :
               role[j.proc] = j.kind

(* ... it holds a claim of its own unless an operator removed it, ...      *)
JobsClaimed ==
  \A j \in ClaimedJobs : \E c \in claims :
    OwnedBy(c, j.proc) /\ SameWork(c, j.scope, j.work)

(* ... only claiming workers are between admission and claim, ...          *)
AttemptsClaiming == \A j \in attempts : j.kind \in ClaimingKinds

(* ... and the maintenance lock is held against every admission.           *)
LockExcludesAdmission ==
  /\ maint.stage # "free" => /\ attempts = {}
                             /\ maint.by \in Procs
                             /\ role[maint.by] \in UpdaterKinds
  /\ maint.stage = "free" => maint.by = Nobody

(* Uniqueness as the code compares ids, after normalizing both; it is      *)
(* inductive, and normalization makes it say what OwnedClaimUnique says.   *)
NormalUnique ==
  \A c, d \in claims :
    c.pid # ZeroPid /\ SameWork(d, c.scope, c.work) => d = c

\* The inductive invariant of the single-host theorems.
NodeInv ==
  /\ TypeOK
  /\ NormalUnique
  /\ JobsAlive
  /\ JobsClaimed
  /\ AttemptsClaiming
  /\ LockExcludesAdmission
  /\ InstallExcludesClaimedJobs

(* Normalizing an id yields an id, and normalizing it again changes        *)
(* nothing, so a stored id and a compared id meet in one spelling.         *)
LEMMA NormalizeIdempotent ==
  ASSUME NEW r \in RawIds
  PROVE  /\ normalize_work_identity(r) \in RawIds
         /\ normalize_work_identity(r) \in WorkIds
         /\ normalize_work_identity(normalize_work_identity(r))
              = normalize_work_identity(r)
<1>1. normalize_work_identity(r) \in WorkIds
  BY DEF WorkIds
<1>2. CASE r.body \in Numbers
  <2>1. normalize_work_identity(r)
          = [form |-> "hash", padded |-> FALSE, body |-> r.body]
    BY <1>2 DEF normalize_work_identity
  <2>2. normalize_work_identity(r) \in [form : Forms, padded : BOOLEAN, body : Numbers]
    BY <1>2, <2>1 DEF Forms
  <2> QED BY <1>1, <1>2, <2>1, <2>2 DEF normalize_work_identity, RawIds
<1>3. CASE r.body \notin Numbers
  BY <1>1, <1>3 DEF normalize_work_identity
<1> QED BY <1>2, <1>3

(* A normalized id is itself a possible spelling.                          *)
LEMMA WorkIdsRaw == WorkIds \subseteq RawIds
BY NormalizeIdempotent DEF WorkIds

(* Normalization meets its purpose: spellings of one item are equal after  *)
(* it, and two normalized ids of one item are the same id.                 *)
LEMMA SameItemNormalized ==
  ASSUME NEW v \in RawIds, NEW w \in RawIds, SameItem(v, w)
  PROVE  /\ normalize_work_identity(v) = normalize_work_identity(w)
         /\ v \in WorkIds /\ w \in WorkIds => v = w
<1>1. normalize_work_identity(v) = normalize_work_identity(w)
  BY DEF SameItem, normalize_work_identity
<1>2. \A x \in WorkIds : normalize_work_identity(x) = x
  BY NormalizeIdempotent DEF WorkIds
<1> QED BY <1>1, <1>2

(* Every reachable state has its type: no handler stores a malformed claim *)
(* or leaves a disowned job that is not running.                           *)
THEOREM TypeCorrect == Spec => []TypeOK
<1>1. Init => TypeOK
  <2> SUFFICES ASSUME Init PROVE TypeOK
    OBVIOUS
  <2>1. claims \subseteq WorkClaim
    <3>1. V1Claims \subseteq WorkClaim
      BY ConstantsAssumption DEF V1Claims, WorkClaim
    <3> QED BY <3>1 DEF Init
  <2> QED BY <2>1 DEF Init, TypeOK, Roles
<1>2. TypeOK /\ [Next]_vars => TypeOK'
  <2> SUFFICES ASSUME TypeOK, [Next]_vars PROVE TypeOK'
    OBVIOUS
  <2> USE DEF TypeOK
  <2>1. ASSUME NEW p \in Procs, NEW r \in Roles, Start(p, r) PROVE TypeOK'
    BY <2>1 DEF Start
  <2>2. ASSUME NEW p \in Procs, Exit(p) PROVE TypeOK'
    BY <2>2 DEF Exit, Roles
  <2>3. ASSUME NEW p \in Procs, NEW s \in Scopes, NEW raw \in RawIds,
               dispatch_admission(p, s, raw)
        PROVE  TypeOK'
    <3>1. normalize_work_identity(raw) \in WorkIds
      BY NormalizeIdempotent
    <3> QED BY <2>3, <3>1 DEF dispatch_admission, Job, WorkerKinds
  <2>4. ASSUME NEW p \in Procs, NEW s \in Scopes, NEW raw \in RawIds,
               PlainDispatch(p, s, raw)
        PROVE  TypeOK'
    <3>1. normalize_work_identity(raw) \in WorkIds
      BY NormalizeIdempotent
    <3> QED BY <2>4, <3>1 DEF PlainDispatch, Job, WorkerKinds
  <2>5. ASSUME NEW p \in Procs, NEW s \in Scopes, release_owned_for_profile(p, s)
        PROVE  TypeOK'
    BY <2>5 DEF release_owned_for_profile
  <2>6. ASSUME NEW p \in Procs, maintenance_lock(p) PROVE TypeOK'
    BY <2>6 DEF maintenance_lock
  <2>7. ASSUME NEW p \in Procs, Install(p) PROVE TypeOK'
    BY <2>7 DEF Install
  <2>8. ASSUME NEW p \in Procs, MaintenanceDone(p) PROVE TypeOK'
    BY <2>8 DEF MaintenanceDone
  <2>9. ASSUME NEW j \in attempts, try_claim_with_mode(j) PROVE TypeOK'
    <3>1. [scope |-> j.scope, work |-> j.work, host |-> HostOf(j.proc),
           pid |-> PidOf(j.proc), manual |-> j.kind = "manual", old |-> FALSE]
            \in WorkClaim
      BY WorkIdsRaw DEF WorkClaim, Job, Procs, HostOf, PidOf
    <3> QED BY <2>9, <3>1 DEF try_claim_with_mode
  <2>10. CASE ClaimRefused
    BY <2>10 DEF ClaimRefused
  <2>11. ASSUME NEW j \in running, NEW released \in BOOLEAN,
                FinishJob(j, released)
         PROVE  TypeOK'
    BY <2>11 DEF FinishJob, release_owned
  <2>12. CASE ClaimAges
    <3> PICK c \in claims : /\ ~c.old
                            /\ claims' = (claims \ {c}) \cup {[c EXCEPT !.old = TRUE]}
                            /\ UNCHANGED <<role, attempts, running, disowned, maint>>
      BY <2>12 DEF ClaimAges
    <3>1. [c EXCEPT !.old = TRUE] \in WorkClaim
      BY DEF WorkClaim
    <3> QED BY <3>1
  <2>13. ASSUME NEW s \in Scopes, NEW raw \in RawIds, handle_claims_clear(s, raw)
         PROVE  TypeOK'
    BY <2>13 DEF handle_claims_clear, Disown
  <2>14. ASSUME NEW h \in Hosts, NEW s \in Scopes, NEW anyAge \in BOOLEAN,
                handle_claims_reclaim(h, s, anyAge)
         PROVE  TypeOK'
    BY <2>14 DEF handle_claims_reclaim, Disown
  <2>15. CASE UNCHANGED vars
    BY <2>15 DEF vars
  <2> QED
    BY <2>1, <2>2, <2>3, <2>4, <2>5, <2>6, <2>7, <2>8, <2>9, <2>10, <2>11,
       <2>12, <2>13, <2>14, <2>15
    DEF Next, ProcStep, ClaimWork, Finish, OperatorStep
<1> QED BY <1>1, <1>2, PTL DEF Spec

(* A claim that has an owner is the only one the code's comparison finds   *)
(* for its work.                                                           *)
LEMMA NormalUniqueness == Spec => []NormalUnique
<1>1. Init => NormalUnique
  BY DEF Init, NormalUnique, V1Claims
<1>2. TypeOK /\ TypeOK' /\ NormalUnique /\ [Next]_vars => NormalUnique'
  <2> SUFFICES ASSUME TypeOK, TypeOK', NormalUnique, [Next]_vars
               PROVE  NormalUnique'
    OBVIOUS
  <2>1. ASSUME claims' \subseteq claims PROVE NormalUnique'
    BY <2>1 DEF NormalUnique, SameWork
  <2>2. ASSUME NEW j \in attempts, try_claim_with_mode(j)
        PROVE  NormalUnique'
    <3> DEFINE n == [scope |-> j.scope, work |-> j.work, host |-> HostOf(j.proc),
                     pid |-> PidOf(j.proc), manual |-> j.kind = "manual",
                     old |-> FALSE]
    <3>1. claims' = (claims \ Matching(j.scope, j.work)) \cup {n}
      BY <2>2 DEF try_claim_with_mode
    <3>2. \A d \in claims \ Matching(j.scope, j.work) :
            /\ ~SameWork(d, n.scope, n.work)
            /\ ~SameWork(n, d.scope, d.work)
      BY DEF Matching, SameWork
    <3> HIDE DEF n
    <3> QED BY <3>1, <3>2 DEF NormalUnique
  <2>3. CASE ClaimAges
    <3> PICK c \in claims : claims' = (claims \ {c}) \cup {[c EXCEPT !.old = TRUE]}
      BY <2>3 DEF ClaimAges
    <3> DEFINE n == [c EXCEPT !.old = TRUE]
    <3>1. n.scope = c.scope /\ n.work = c.work /\ n.pid = c.pid
      BY DEF TypeOK, WorkClaim
    <3>2. claims' = (claims \ {c}) \cup {n}
      OBVIOUS
    <3> HIDE DEF n
    <3>3. \A d \in claims : SameWork(d, n.scope, n.work) <=> SameWork(d, c.scope, c.work)
      BY <3>1 DEF SameWork
    <3>4. \A d : SameWork(n, d.scope, d.work) <=> SameWork(c, d.scope, d.work)
      BY <3>1 DEF SameWork
    <3> QED BY <3>1, <3>2, <3>3, <3>4 DEF NormalUnique
  <2>4. ASSUME NEW p \in Procs, ~(claims' \subseteq claims) PROVE
          /\ \A r \in Roles : ~Start(p, r)
          /\ ~Exit(p)
          /\ \A s \in Scopes, raw \in RawIds : ~dispatch_admission(p, s, raw)
          /\ \A s \in Scopes, raw \in RawIds : ~PlainDispatch(p, s, raw)
          /\ \A s \in Scopes : ~release_owned_for_profile(p, s)
          /\ ~maintenance_lock(p) /\ ~Install(p) /\ ~MaintenanceDone(p)
    BY <2>4 DEF Start, Exit, dispatch_admission, PlainDispatch,
         release_owned_for_profile, maintenance_lock, Install, MaintenanceDone
  <2>5. CASE ProcStep
    BY <2>1, <2>4, <2>5 DEF ProcStep
  <2>6. CASE ClaimRefused \/ Finish \/ OperatorStep \/ UNCHANGED vars
    <3>1. claims' \subseteq claims
      BY <2>6 DEF ClaimRefused, Finish, FinishJob, release_owned, OperatorStep,
           handle_claims_clear, handle_claims_reclaim, vars
    <3> QED BY <2>1, <3>1
  <2> QED BY <2>2, <2>3, <2>5, <2>6 DEF Next, ClaimWork
<1> QED BY <1>1, <1>2, TypeCorrect, PTL DEF Spec

(* A claim that has an owner is alone on its item, under every spelling,   *)
(* in every reachable state and on any number of hosts.                    *)
THEOREM ClaimUniqueness == Spec => []OwnedClaimUnique
<1>1. TypeOK /\ NormalUnique => OwnedClaimUnique
  BY SameItemNormalized
  DEF TypeOK, WorkClaim, NormalUnique, OwnedClaimUnique, SameWork
<1> QED BY <1>1, TypeCorrect, NormalUniqueness, PTL

-----------------------------------------------------------------------------
(* One host *)

(* A claim names one process.                                              *)
LEMMA OwnerUnique ==
  ASSUME NEW c, NEW p \in Procs, NEW q \in Procs, OwnedBy(c, p), OwnedBy(c, q)
  PROVE  p = q
<1>1. PICK g \in Hosts, i \in Pids : p = <<g, i>>
  BY DEF Procs
<1>2. PICK h \in Hosts, k \in Pids : q = <<h, k>>
  BY DEF Procs
<1> QED BY <1>1, <1>2 DEF OwnedBy, HostOf, PidOf

(* A live local owner's claim is never stale on its host, so neither a     *)
(* claim attempt nor the idle check can look past a running job.           *)
LEMMA LocalJobNotStale ==
  ASSUME OneHost, TypeOK, JobsAlive, ConstantsAssumption,
         NEW j \in running, NEW c \in claims, OwnedBy(c, j.proc),
         NEW h \in Hosts, NEW old \in BOOLEAN
  PROVE  ~is_stale(c, h, old)
<1>1. j.proc \in Procs /\ j.kind \in WorkerKinds
  BY DEF TypeOK, Job
<1>2. PICK g \in Hosts, i \in Pids : j.proc = <<g, i>>
  BY <1>1 DEF Procs
<1>3. c.host = h /\ c.pid = i /\ g = h
  BY <1>2 DEF OwnedBy, HostOf, PidOf, OneHost
<1>4. role[<<h, i>>] # "none"
  BY <1>1, <1>2, <1>3 DEF JobsAlive, WorkerKinds, ClaimingKinds
<1>5. c.pid # ZeroPid
  BY <1>3, ConstantsAssumption
<1> QED BY <1>3, <1>4, <1>5 DEF is_stale, is_process_alive

(* Two jobs that hold claims of one work item are the same job.            *)
LEMMA ClaimedJobsExclude ==
  ASSUME NodeInv, ConstantsAssumption PROVE JobExclusion
<1> SUFFICES ASSUME NEW j \in ClaimedJobs, NEW k \in ClaimedJobs,
                    j.scope = k.scope, SameItem(j.work, k.work)
             PROVE  j = k
  BY DEF JobExclusion
<1>1. j \in Job /\ k \in Job /\ j \in running /\ k \in running
  BY DEF NodeInv, TypeOK, ClaimedJobs
<1>10. j.work = k.work
  BY <1>1, WorkIdsRaw, SameItemNormalized DEF Job
<1>2. PICK c \in claims : OwnedBy(c, j.proc) /\ SameWork(c, j.scope, j.work)
  BY DEF NodeInv, JobsClaimed
<1>3. PICK d \in claims : OwnedBy(d, k.proc) /\ SameWork(d, k.scope, k.work)
  BY DEF NodeInv, JobsClaimed
<1>4. j.proc \in Procs /\ k.proc \in Procs
  BY <1>1 DEF Job
<1>5. c.pid # ZeroPid
  BY <1>2, <1>4, ConstantsAssumption DEF OwnedBy, Procs, PidOf
<1>6. SameWork(d, c.scope, c.work)
  BY <1>2, <1>3, <1>10 DEF SameWork
<1>7. d = c
  BY <1>5, <1>6 DEF NodeInv, NormalUnique
<1>8. j.proc = k.proc
  BY <1>2, <1>3, <1>4, <1>7, OwnerUnique
<1>9. j.kind = k.kind
  BY <1>1, <1>8 DEF NodeInv, JobsAlive
<1> QED BY <1>1, <1>8, <1>9, <1>10 DEF Job

(* The parts of the invariant that only say which jobs exist, are alive    *)
(* and hold off maintenance are kept by every step.                        *)
LEMMA LivenessPartsStep ==
  ASSUME TypeOK, JobsAlive, AttemptsClaiming, LockExcludesAdmission,
         ConstantsAssumption, Next
  PROVE  JobsAlive' /\ AttemptsClaiming' /\ LockExcludesAdmission'
<1> USE DEF JobsAlive, AttemptsClaiming, LockExcludesAdmission, TypeOK
<1>1. ASSUME NEW p \in Procs, NEW r \in Roles, Start(p, r)
      PROVE  JobsAlive' /\ AttemptsClaiming' /\ LockExcludesAdmission'
  <2>1. \A j \in running \cup attempts : j.proc # p
    BY <1>1 DEF Start, Job, WorkerKinds, ClaimingKinds
  <2>2. maint.stage # "free" => maint.by # p
    BY <1>1 DEF Start, UpdaterKinds
  <2>3. JobsAlive'
    BY <1>1, <2>1 DEF Start, Job
  <2> QED BY <1>1, <2>2, <2>3 DEF Start
<1>2. ASSUME NEW p \in Procs, Exit(p)
      PROVE  JobsAlive' /\ AttemptsClaiming' /\ LockExcludesAdmission'
  <2>1. JobsAlive' /\ AttemptsClaiming'
    BY <1>2 DEF Exit, Job
  <2>2. LockExcludesAdmission'
    <3>1. CASE maint.by = p
      BY <1>2, <3>1 DEF Exit
    <3>2. CASE maint.by # p
      BY <1>2, <3>2 DEF Exit
    <3> QED BY <3>1, <3>2
  <2> QED BY <2>1, <2>2
<1>3. ASSUME NEW p \in Procs, NEW s \in Scopes, NEW raw \in RawIds,
             dispatch_admission(p, s, raw)
      PROVE  JobsAlive' /\ AttemptsClaiming' /\ LockExcludesAdmission'
  BY <1>3 DEF dispatch_admission
<1>4. ASSUME NEW p \in Procs, NEW s \in Scopes, NEW raw \in RawIds,
             PlainDispatch(p, s, raw)
      PROVE  JobsAlive' /\ AttemptsClaiming' /\ LockExcludesAdmission'
  BY <1>4 DEF PlainDispatch
<1>5. ASSUME NEW p \in Procs, NEW s \in Scopes, release_owned_for_profile(p, s)
      PROVE  JobsAlive' /\ AttemptsClaiming' /\ LockExcludesAdmission'
  BY <1>5 DEF release_owned_for_profile
<1>6. ASSUME NEW p \in Procs, maintenance_lock(p) \/ Install(p) \/ MaintenanceDone(p)
      PROVE  JobsAlive' /\ AttemptsClaiming' /\ LockExcludesAdmission'
  BY <1>6 DEF maintenance_lock, Install, MaintenanceDone
<1>7. ASSUME NEW j \in attempts, try_claim_with_mode(j)
      PROVE  JobsAlive' /\ AttemptsClaiming' /\ LockExcludesAdmission'
  BY <1>7 DEF try_claim_with_mode
<1>8. CASE ClaimRefused
  BY <1>8 DEF ClaimRefused
<1>9. CASE Finish
  BY <1>9 DEF Finish, FinishJob
<1>10. CASE ClaimAges
  BY <1>10 DEF ClaimAges
<1>11. CASE OperatorStep
  BY <1>11 DEF OperatorStep, handle_claims_clear, handle_claims_reclaim
<1> QED
  BY <1>1, <1>2, <1>3, <1>4, <1>5, <1>6, <1>7, <1>8, <1>9, <1>10, <1>11
  DEF Next, ProcStep, ClaimWork

(* A step that keeps every claim record of the claimed jobs that remain    *)
(* keeps JobsClaimed.                                                      *)
LEMMA KeepsJobsClaimed ==
  ASSUME JobsClaimed, ClaimedJobs' \subseteq ClaimedJobs,
         \A c \in claims : \A j \in ClaimedJobs' :
           OwnedBy(c, j.proc) /\ SameWork(c, j.scope, j.work) => c \in claims'
  PROVE  JobsClaimed'
<1> SUFFICES ASSUME NEW j \in ClaimedJobs'
             PROVE  \E c \in claims' : OwnedBy(c, j.proc) /\ SameWork(c, j.scope, j.work)
  BY DEF JobsClaimed, OwnedBy, SameWork
<1>1. PICK c \in claims : OwnedBy(c, j.proc) /\ SameWork(c, j.scope, j.work)
  BY DEF JobsClaimed
<1> QED BY <1>1

(* Every step keeps a claim for each job that has not been disowned.       *)
LEMMA JobsClaimedStep ==
  ASSUME OneHost, NodeInv, ConstantsAssumption, Next, TypeOK'
  PROVE  JobsClaimed'
<1> USE DEF NodeInv
<1>1. CASE ClaimWork
  <2> PICK k \in attempts : try_claim_with_mode(k)
    BY <1>1 DEF ClaimWork
  <2> DEFINE h == HostOf(k.proc)
             n == [scope |-> k.scope, work |-> k.work, host |-> h,
                   pid |-> PidOf(k.proc), manual |-> k.kind = "manual",
                   old |-> FALSE]
  <2>1. /\ claims' = (claims \ Matching(k.scope, k.work)) \cup {n}
        /\ running' = running \cup {k}
        /\ disowned' = disowned
        /\ is_claimed(k.scope, k.work) => is_claim_stale(k.scope, k.work, h)
    BY DEF try_claim_with_mode
  <2>2. k.proc \in Procs /\ h \in Hosts
    BY DEF TypeOK, Job, Procs, HostOf
  <2>3. OwnedBy(n, k.proc) /\ SameWork(n, k.scope, k.work)
    BY DEF OwnedBy, SameWork
  <2>4. ASSUME NEW j \in ClaimedJobs, NEW c \in claims, OwnedBy(c, j.proc),
               SameWork(c, j.scope, j.work)
        PROVE  c \notin Matching(k.scope, k.work)
    <3> SUFFICES ASSUME c \in Matching(k.scope, k.work) PROVE FALSE
      OBVIOUS
    <3>1. PICK d \in Matching(k.scope, k.work) : is_stale(d, h, d.old)
      BY <2>1 DEF is_claimed, is_claim_stale
    <3>2. j \in running /\ j.proc \in Procs
      BY DEF ClaimedJobs, TypeOK, Job
    <3>3. c.pid # ZeroPid
      BY <2>4, <3>2, ConstantsAssumption DEF OwnedBy, Procs, PidOf
    <3>4. d \in claims /\ SameWork(d, c.scope, c.work)
      BY <3>1 DEF Matching, SameWork
    <3>5. d = c
      BY <3>3, <3>4 DEF NormalUnique
    <3>6. d.old \in BOOLEAN
      BY <3>4 DEF TypeOK, WorkClaim
    <3> QED BY <2>2, <2>4, <3>1, <3>2, <3>5, <3>6, LocalJobNotStale
  <2>5. ClaimedJobs' \subseteq ClaimedJobs \cup {k}
    BY <2>1 DEF ClaimedJobs
  <2> HIDE DEF n, h
  <2>6. ASSUME NEW j \in ClaimedJobs'
        PROVE  \E c \in claims' : OwnedBy(c, j.proc) /\ SameWork(c, j.scope, j.work)
    <3>1. CASE j = k
      BY <2>1, <2>3, <3>1
    <3>2. CASE j \in ClaimedJobs
      <4> PICK c \in claims : OwnedBy(c, j.proc) /\ SameWork(c, j.scope, j.work)
        BY <3>2 DEF JobsClaimed
      <4> QED BY <2>1, <2>4, <3>2
    <3> QED BY <2>5, <3>1, <3>2
  <2> QED BY <2>6 DEF JobsClaimed, OwnedBy, SameWork
<1>2. CASE Finish
  <2> PICK k \in running, released \in BOOLEAN : FinishJob(k, released)
    BY <1>2 DEF Finish
  <2>1. ClaimedJobs' \subseteq ClaimedJobs /\ k \notin ClaimedJobs'
    BY DEF FinishJob, ClaimedJobs
  <2>2. ASSUME NEW c \in claims, NEW j \in ClaimedJobs', OwnedBy(c, j.proc),
               SameWork(c, j.scope, j.work), c \notin claims'
        PROVE  FALSE
    <3>1. OwnedBy(c, k.proc) /\ SameWork(c, k.scope, k.work)
      BY <2>2 DEF FinishJob, release_owned
    <3>2. j \in running /\ j \in Job /\ k \in Job
      BY <2>1 DEF ClaimedJobs, TypeOK
    <3>3. j.proc = k.proc
      BY <2>2, <3>1, <3>2, OwnerUnique DEF Job
    <3>4. j.scope = k.scope /\ j.work = k.work
      <4>1. normalize_work_identity(j.work) = normalize_work_identity(k.work)
              /\ j.scope = k.scope
        BY <2>2, <3>1 DEF SameWork
      <4>2. \A w \in WorkIds : normalize_work_identity(w) = w
        BY NormalizeIdempotent DEF WorkIds
      <4> QED BY <3>2, <4>1, <4>2 DEF Job
    <3>5. j.kind = k.kind
      BY <3>2, <3>3 DEF JobsAlive
    <3> QED BY <2>1, <3>2, <3>3, <3>4, <3>5 DEF Job
  <2> QED BY <2>1, <2>2, KeepsJobsClaimed
<1>3. CASE ClaimAges
  <2> PICK a \in claims : /\ claims' = (claims \ {a}) \cup {[a EXCEPT !.old = TRUE]}
                          /\ UNCHANGED <<role, attempts, running, disowned, maint>>
    BY <1>3 DEF ClaimAges
  <2> DEFINE n == [a EXCEPT !.old = TRUE]
  <2>1. n.scope = a.scope /\ n.work = a.work /\ n.pid = a.pid /\ n.host = a.host
    BY DEF TypeOK, WorkClaim
  <2>2. ClaimedJobs' = ClaimedJobs /\ claims' = (claims \ {a}) \cup {n}
    BY DEF ClaimedJobs
  <2> HIDE DEF n
  <2>3. ASSUME NEW j \in ClaimedJobs
        PROVE  \E c \in claims' : OwnedBy(c, j.proc) /\ SameWork(c, j.scope, j.work)
    <3> PICK c \in claims : OwnedBy(c, j.proc) /\ SameWork(c, j.scope, j.work)
      BY DEF JobsClaimed
    <3>1. CASE c = a
      BY <2>1, <2>2, <3>1 DEF OwnedBy, SameWork
    <3> QED BY <2>2, <3>1
  <2> QED BY <2>2, <2>3 DEF JobsClaimed, OwnedBy, SameWork
<1>4. ASSUME NEW s \in Scopes, NEW raw \in RawIds, handle_claims_clear(s, raw)
      PROVE  JobsClaimed'
  <2>1. ClaimedJobs' \subseteq ClaimedJobs
    BY <1>4 DEF handle_claims_clear, Disown, ClaimedJobs
  <2>2. ASSUME NEW c \in claims, NEW j \in ClaimedJobs', OwnedBy(c, j.proc),
               SameWork(c, j.scope, j.work)
        PROVE  c \in claims'
    BY <1>4, <2>2 DEF handle_claims_clear, Disown, ClaimedJobs
  <2> QED BY <2>1, <2>2, KeepsJobsClaimed
<1>5. ASSUME NEW h \in Hosts, NEW s \in Scopes, NEW anyAge \in BOOLEAN,
             handle_claims_reclaim(h, s, anyAge)
      PROVE  JobsClaimed'
  <2> DEFINE gone == {c \in claims : c.scope = s /\ is_stale(c, h, c.old \/ anyAge)}
  <2>1. /\ claims' = claims \ gone
        /\ disowned' = IF anyAge THEN Disown(gone) ELSE disowned
        /\ running' = running
    BY <1>5 DEF handle_claims_reclaim
  <2>2. ClaimedJobs' \subseteq ClaimedJobs
    BY <2>1 DEF Disown, ClaimedJobs
  <2>3. ASSUME NEW c \in claims, NEW j \in ClaimedJobs', OwnedBy(c, j.proc),
               SameWork(c, j.scope, j.work)
        PROVE  c \notin gone
    <3>1. j \in running
      BY <2>2 DEF ClaimedJobs
    <3>2. (c.old \/ anyAge) \in BOOLEAN
      BY DEF TypeOK, WorkClaim
    <3> QED BY <2>3, <3>1, <3>2, LocalJobNotStale
  <2> HIDE DEF gone
  <2> QED BY <2>1, <2>2, <2>3, KeepsJobsClaimed
<1>6. ASSUME NEW p \in Procs, NEW s \in Scopes, release_owned_for_profile(p, s)
      PROVE  JobsClaimed'
  <2>1. ClaimedJobs' = ClaimedJobs
    BY <1>6 DEF release_owned_for_profile, ClaimedJobs
  <2>2. ASSUME NEW c \in claims, NEW j \in ClaimedJobs', OwnedBy(c, j.proc),
               SameWork(c, j.scope, j.work), c \notin claims'
        PROVE  FALSE
    <3>1. OwnedBy(c, p) /\ c.scope = s
      BY <1>6, <2>2 DEF release_owned_for_profile
    <3>2. j \in running /\ j.proc \in Procs
      BY <2>1 DEF ClaimedJobs, TypeOK, Job
    <3>3. j.proc = p /\ j.scope = s
      BY <2>2, <3>1, <3>2, OwnerUnique DEF SameWork
    <3> QED BY <1>6, <3>2, <3>3 DEF release_owned_for_profile, JobsOf
  <2> QED BY <2>1, <2>2, KeepsJobsClaimed
<1>7. ASSUME claims' = claims, ClaimedJobs' \subseteq ClaimedJobs
      PROVE  JobsClaimed'
  BY <1>7, KeepsJobsClaimed
<1>8. CASE ClaimRefused
  BY <1>7, <1>8 DEF ClaimRefused, ClaimedJobs
<1>9. ASSUME NEW p \in Procs,
             \/ \E r \in Roles : Start(p, r)
             \/ Exit(p)
             \/ \E s \in Scopes, raw \in RawIds : dispatch_admission(p, s, raw)
             \/ \E s \in Scopes, raw \in RawIds : PlainDispatch(p, s, raw)
             \/ maintenance_lock(p) \/ Install(p) \/ MaintenanceDone(p)
      PROVE  JobsClaimed'
  <2>1. claims' = claims
    BY <1>9 DEF Start, Exit, dispatch_admission, PlainDispatch, maintenance_lock,
         Install, MaintenanceDone
  <2>2. ClaimedJobs' \subseteq ClaimedJobs
    BY <1>9 DEF Start, Exit, dispatch_admission, PlainDispatch, maintenance_lock,
         Install, MaintenanceDone, ClaimedJobs, ClaimingKinds
  <2> QED BY <1>7, <2>1, <2>2
<1> QED
  BY <1>1, <1>2, <1>3, <1>4, <1>5, <1>6, <1>8, <1>9
  DEF Next, ProcStep, OperatorStep

(* No step lets a claimed job run while an agent update installs.          *)
LEMMA InstallStep ==
  ASSUME OneHost, NodeInv, ConstantsAssumption, Next, TypeOK'
  PROVE  InstallExcludesClaimedJobs'
<1> USE DEF NodeInv
<1>1. ASSUME ClaimedJobs' \subseteq ClaimedJobs, maint' = maint, role' = role
      PROVE  InstallExcludesClaimedJobs'
  BY <1>1 DEF InstallExcludesClaimedJobs
<1>2. ASSUME maint'.stage # "installing" PROVE InstallExcludesClaimedJobs'
  BY <1>2 DEF InstallExcludesClaimedJobs
<1>3. ASSUME NEW p \in Procs, NEW r \in Roles, Start(p, r)
      PROVE  InstallExcludesClaimedJobs'
  <2>1. maint'= maint /\ ClaimedJobs' = ClaimedJobs
    BY <1>3 DEF Start, ClaimedJobs
  <2>2. maint.stage = "installing" => maint.by # p /\ maint.by \in Procs
    BY <1>3 DEF Start, LockExcludesAdmission, UpdaterKinds
  <2> QED BY <1>3, <2>1, <2>2 DEF Start, InstallExcludesClaimedJobs, TypeOK
<1>4. ASSUME NEW p \in Procs, Exit(p) PROVE InstallExcludesClaimedJobs'
  <2>1. ClaimedJobs' \subseteq ClaimedJobs
    BY <1>4 DEF Exit, ClaimedJobs
  <2>2. CASE maint.by = p
    BY <1>2, <1>4, <2>2 DEF Exit
  <2>3. CASE maint.by # p
    <3>1. maint' = maint
      BY <1>4, <2>3 DEF Exit
    <3>2. maint.stage = "installing" => role'[maint.by] = role[maint.by]
      BY <1>4, <2>3 DEF Exit, LockExcludesAdmission, TypeOK
    <3> QED BY <2>1, <3>1, <3>2 DEF InstallExcludesClaimedJobs
  <2> QED BY <2>2, <2>3
<1>5. ASSUME NEW p \in Procs, maintenance_lock(p) \/ MaintenanceDone(p)
      PROVE  InstallExcludesClaimedJobs'
  BY <1>2, <1>5 DEF maintenance_lock, MaintenanceDone
<1>6. ASSUME NEW p \in Procs, Install(p) PROVE InstallExcludesClaimedJobs'
  <2>1. maint' = [stage |-> "installing", by |-> p] /\ role' = role
          /\ ClaimedJobs' = ClaimedJobs
    BY <1>6 DEF Install, ClaimedJobs
  <2>2. ASSUME role[p] = "agent_update", NEW j \in ClaimedJobs PROVE FALSE
    <3>1. PICK c \in claims : OwnedBy(c, j.proc)
      BY DEF JobsClaimed
    <3>2. is_stale(c, HostOf(p), c.old)
      BY <1>6, <2>2 DEF Install, ensure_node_idle
    <3>3. HostOf(p) \in Hosts /\ c.old \in BOOLEAN /\ j \in running
      BY DEF Procs, HostOf, TypeOK, WorkClaim, ClaimedJobs
    <3> QED BY <3>1, <3>2, <3>3, LocalJobNotStale
  <2> QED BY <2>1, <2>2 DEF InstallExcludesClaimedJobs
<1>7. CASE ClaimWork
  <2>1. attempts # {} /\ maint' = maint
    BY <1>7 DEF ClaimWork, try_claim_with_mode
  <2>2. maint.stage = "free"
    BY <2>1 DEF LockExcludesAdmission
  <2> QED BY <1>2, <2>1, <2>2
<1>8. CASE ClaimRefused \/ Finish \/ ClaimAges \/ OperatorStep
  <2>1. ClaimedJobs' \subseteq ClaimedJobs
    BY <1>8 DEF ClaimRefused, Finish, FinishJob, ClaimAges, OperatorStep,
         handle_claims_clear, handle_claims_reclaim, Disown, ClaimedJobs
  <2>2. maint' = maint /\ role' = role
    BY <1>8 DEF ClaimRefused, Finish, FinishJob, ClaimAges, OperatorStep,
         handle_claims_clear, handle_claims_reclaim
  <2> QED BY <1>1, <2>1, <2>2
<1>9. ASSUME NEW p \in Procs, NEW s \in Scopes,
             \/ \E raw \in RawIds : dispatch_admission(p, s, raw)
             \/ \E raw \in RawIds : PlainDispatch(p, s, raw)
             \/ release_owned_for_profile(p, s)
      PROVE  InstallExcludesClaimedJobs'
  <2>1. ClaimedJobs' \subseteq ClaimedJobs
    BY <1>9 DEF dispatch_admission, PlainDispatch, release_owned_for_profile,
         ClaimedJobs, ClaimingKinds
  <2>2. maint' = maint /\ role' = role
    BY <1>9 DEF dispatch_admission, PlainDispatch, release_owned_for_profile
  <2> QED BY <1>1, <2>1, <2>2
<1> QED
  BY <1>3, <1>4, <1>5, <1>6, <1>7, <1>8, <1>9 DEF Next, ProcStep

(* The invariant of the single-host theorems holds throughout.             *)
LEMMA NodeInvariant == ASSUME OneHost PROVE Spec => []NodeInv
<1>1. Init => NodeInv
  <2> SUFFICES ASSUME Init PROVE NodeInv
    OBVIOUS
  <2>1. TypeOK
    <3>1. V1Claims \subseteq WorkClaim
      BY ConstantsAssumption DEF V1Claims, WorkClaim
    <3> QED BY <3>1 DEF Init, TypeOK, Roles
  <2>2. NormalUnique
    BY DEF Init, NormalUnique, V1Claims
  <2> QED
    BY <2>1, <2>2 DEF Init, NodeInv, JobsAlive, JobsClaimed, ClaimedJobs,
      AttemptsClaiming, LockExcludesAdmission, InstallExcludesClaimedJobs
<1>2. NodeInv /\ TypeOK' /\ NormalUnique' /\ [Next]_vars => NodeInv'
  <2> SUFFICES ASSUME NodeInv, TypeOK', NormalUnique', [Next]_vars
               PROVE  NodeInv'
    OBVIOUS
  <2>1. CASE Next
    <3>1. JobsAlive' /\ AttemptsClaiming' /\ LockExcludesAdmission'
      BY <2>1, ConstantsAssumption, LivenessPartsStep DEF NodeInv
    <3>2. JobsClaimed'
      BY <2>1, ConstantsAssumption, JobsClaimedStep
    <3>3. InstallExcludesClaimedJobs'
      BY <2>1, ConstantsAssumption, InstallStep
    <3> QED BY <3>1, <3>2, <3>3 DEF NodeInv
  <2>2. CASE UNCHANGED vars
    BY <2>2 DEF vars, NodeInv, TypeOK, NormalUnique, JobsAlive, JobsClaimed,
      ClaimedJobs, AttemptsClaiming, LockExcludesAdmission, SameWork, OwnedBy,
      InstallExcludesClaimedJobs
  <2> QED BY <2>1, <2>2
<1> QED BY <1>1, <1>2, TypeCorrect, NormalUniqueness, PTL DEF Spec

(* On one host, two claimed jobs never run the same work, and no claimed   *)
(* job runs while an agent CLI is being replaced: for any number of        *)
(* processes, scopes and work items, through crashes and reused ids.       *)
THEOREM NodeExclusion ==
  ASSUME OneHost
  PROVE  Spec => [](JobExclusion /\ InstallExcludesClaimedJobs)
<1>1. NodeInv => JobExclusion /\ InstallExcludesClaimedJobs
  BY ConstantsAssumption, ClaimedJobsExclude DEF NodeInv
<1> QED BY <1>1, NodeInvariant, PTL

-----------------------------------------------------------------------------
(* The claim file implements an exclusive claim *)

\* Those of the jobs that run item i.
JobsOn(i, jobs) == {j \in jobs : j.scope = i[1] /\ j.work = i[2]}

(* A claim made for a job is the only step that can add a claimed job.     *)
LEMMA OnlyClaimWorkAdds ==
  ASSUME [Next]_vars, ~ClaimWork PROVE ClaimedJobs' \subseteq ClaimedJobs
<1>1. CASE ProcStep
  BY <1>1 DEF ProcStep, Start, Exit, dispatch_admission, PlainDispatch,
    release_owned_for_profile, maintenance_lock, Install, MaintenanceDone,
    ClaimedJobs, ClaimingKinds
<1>2. CASE ClaimRefused \/ Finish \/ ClaimAges \/ OperatorStep
  BY <1>2 DEF ClaimRefused, Finish, FinishJob, ClaimAges, OperatorStep,
    handle_claims_clear, handle_claims_reclaim, Disown, ClaimedJobs
<1>3. CASE UNCHANGED vars
  BY <1>3 DEF vars, ClaimedJobs
<1> QED BY <1>1, <1>2, <1>3 DEF Next

(* On one host the claim file implements an exclusive claim of each item:  *)
(* a job that goes through a claim gets the item only when no other        *)
(* claimed job has it, for any number of processes and items.              *)
THEOREM ClaimFileRefinement ==
  ASSUME OneHost PROVE Spec => ImplementsClaim
<1> DEFINE Items == Scopes \X WorkIds
           bar == [i \in Items |-> JobsOn(i, ClaimedJobs)]
<1>1. Init => Authority!Init
  BY DEF Init, Authority!Init, ClaimedJobs
<1>2. TypeOK /\ JobExclusion /\ JobExclusion' /\ [Next]_vars => [Authority!Next]_bar
  <2> SUFFICES ASSUME TypeOK, JobExclusion, JobExclusion', [Next]_vars
               PROVE  Authority!Next \/ bar' = bar
    BY DEF JobsOn
  <2>1. \A i \in Items : \A j, k \in JobsOn(i, ClaimedJobs) : j = k
    BY DEF JobExclusion, SameItem, JobsOn
  <2>2. CASE ~ClaimWork
    <3> DEFINE lost == {i \in Items : JobsOn(i, ClaimedJobs') = {}}
    <3>1. \A i \in Items : JobsOn(i, ClaimedJobs') = {} \/ JobsOn(i, ClaimedJobs') = JobsOn(i, ClaimedJobs)
      <4>1. \A i \in Items : JobsOn(i, ClaimedJobs') \subseteq JobsOn(i, ClaimedJobs)
        BY <2>2, OnlyClaimWorkAdds DEF JobsOn
      <4> QED BY <2>1, <4>1
    <3>2. bar' = [i \in Items |-> IF i \in lost THEN {} ELSE bar[i]]
      BY <3>1
    <3>3. Authority!Lose(lost)
      BY <3>2 DEF Authority!Lose, JobsOn
    <3>4. lost \in SUBSET (Scopes \X WorkIds)
      OBVIOUS
    <3> HIDE DEF lost
    <3>5. Authority!Next
      BY <3>3, <3>4 DEF Authority!Next, Authority!Lose
    <3> QED BY <3>5
  <2>3. CASE ClaimWork
    <3>1. PICK k \in attempts : running' = running \cup {k} /\ disowned' = disowned
      BY <2>3 DEF ClaimWork, try_claim_with_mode
    <3>2. CASE ClaimedJobs' = ClaimedJobs
      BY <3>2 DEF JobsOn
    <3>3. CASE ClaimedJobs' # ClaimedJobs
      <4> DEFINE item == <<k.scope, k.work>>
      <4>1. ClaimedJobs' = ClaimedJobs \cup {k} /\ k \notin ClaimedJobs
        BY <3>1, <3>3 DEF ClaimedJobs
      <4>2. item \in Items /\ k \in Job /\ item[1] = k.scope /\ item[2] = k.work
        BY DEF TypeOK, Job
      <4>3. JobsOn(item, ClaimedJobs) = {}
        BY <4>1, <4>2 DEF JobExclusion, SameItem, JobsOn
      <4>4. JobsOn(item, ClaimedJobs') = {k}
        BY <4>1, <4>2, <4>3 DEF JobsOn
      <4>5. \A i \in Items : i # item => JobsOn(i, ClaimedJobs') = JobsOn(i, ClaimedJobs)
        BY <4>1, <4>2 DEF JobsOn
      <4>6. bar' = [bar EXCEPT ![item] = {k}]
        BY <4>2, <4>4, <4>5
      <4>7. Authority!Take(item, k)
        BY <4>2, <4>3, <4>6 DEF Authority!Take, JobsOn
      <4> QED BY <4>2, <4>7 DEF Authority!Next
    <3> QED BY <3>2, <3>3
  <2> QED BY <2>2, <2>3
<1> QED
  BY <1>1, <1>2, TypeCorrect, NodeExclusion, PTL
  DEF Spec, ImplementsClaim, Authority!Spec, JobsOn
-----------------------------------------------------------------------------
(* Any number of hosts *)

(* A manual worker's claim is marked as one: nobody else's entry for the   *)
(* item can carry its host and process id while it runs.                   *)
ManualMarked ==
  \A j \in running : \A c \in claims :
    j.kind = "manual" /\ OwnedBy(c, j.proc) /\ SameWork(c, j.scope, j.work) => c.manual

ManualInv ==
  TypeOK /\ NormalUnique /\ JobsAlive /\ AttemptsClaiming /\ LockExcludesAdmission
    /\ ManualMarked

(* The mark survives every step.                                           *)
LEMMA ManualMarkedStep ==
  ASSUME ManualInv, ConstantsAssumption, Next PROVE ManualMarked'
<1> USE DEF ManualInv
<1>1. ASSUME running' \subseteq running, claims' \subseteq claims PROVE ManualMarked'
  BY <1>1 DEF ManualMarked, OwnedBy, SameWork
<1>2. CASE ClaimWork
  <2> PICK k \in attempts : try_claim_with_mode(k)
    BY <1>2 DEF ClaimWork
  <2> DEFINE n == [scope |-> k.scope, work |-> k.work, host |-> HostOf(k.proc),
                   pid |-> PidOf(k.proc), manual |-> k.kind = "manual",
                   old |-> FALSE]
  <2>1. /\ claims' = (claims \ Matching(k.scope, k.work)) \cup {n}
        /\ running' = running \cup {k}
    BY DEF try_claim_with_mode
  <2>2. n.manual = (k.kind = "manual") /\ OwnedBy(n, k.proc)
    BY DEF OwnedBy
  <2> HIDE DEF n
  <2> SUFFICES ASSUME NEW j \in running', NEW c \in claims', j.kind = "manual",
                      OwnedBy(c, j.proc), SameWork(c, j.scope, j.work)
               PROVE  c.manual
    BY DEF ManualMarked, OwnedBy, SameWork
  <2>3. CASE c = n
    <3>1. j.proc \in Procs /\ k.proc \in Procs
      BY <2>1 DEF TypeOK, Job
    <3>2. j.proc = k.proc
      BY <2>2, <2>3, <3>1, OwnerUnique
    <3>3. k.kind = "manual"
      BY <2>1, <3>2 DEF JobsAlive
    <3> QED BY <2>2, <2>3, <3>3
  <2>4. CASE c # n
    <3>1. j # k /\ j \in running /\ c \in claims
      BY <2>1, <2>4 DEF Matching
    <3> QED BY <3>1 DEF ManualMarked
  <2> QED BY <2>3, <2>4
<1>3. CASE ClaimAges
  <2> PICK a \in claims : claims' = (claims \ {a}) \cup {[a EXCEPT !.old = TRUE]}
                            /\ running' = running
    BY <1>3 DEF ClaimAges
  <2> DEFINE n == [a EXCEPT !.old = TRUE]
  <2>1. n.scope = a.scope /\ n.work = a.work /\ n.pid = a.pid /\ n.host = a.host
          /\ n.manual = a.manual
    BY DEF TypeOK, WorkClaim
  <2>2. claims' = (claims \ {a}) \cup {n}
    OBVIOUS
  <2> HIDE DEF n
  <2> SUFFICES ASSUME NEW j \in running, NEW c \in claims', j.kind = "manual",
                      OwnedBy(c, j.proc), SameWork(c, j.scope, j.work)
               PROVE  c.manual
    BY DEF ManualMarked, OwnedBy, SameWork
  <2>3. CASE c = n
    BY <2>1, <2>3 DEF ManualMarked, OwnedBy, SameWork
  <2>4. CASE c # n
    BY <2>2, <2>4 DEF ManualMarked
  <2> QED BY <2>3, <2>4
<1>4. CASE ClaimRefused \/ Finish \/ OperatorStep
  <2>1. running' \subseteq running /\ claims' \subseteq claims
    BY <1>4 DEF ClaimRefused, Finish, FinishJob, release_owned, OperatorStep,
      handle_claims_clear, handle_claims_reclaim
  <2> QED BY <1>1, <2>1
<1>5. ASSUME NEW p \in Procs, NEW s \in Scopes, NEW raw \in RawIds, PlainDispatch(p, s, raw)
      PROVE  ManualMarked'
  <2>1. claims' = claims /\ \A j \in running' : j.kind = "manual" => j \in running
    BY <1>5 DEF PlainDispatch
  <2> QED BY <2>1 DEF ManualMarked, OwnedBy, SameWork
<1>6. ASSUME NEW p \in Procs,
             \/ \E r \in Roles : Start(p, r)
             \/ Exit(p)
             \/ \E s \in Scopes, raw \in RawIds : dispatch_admission(p, s, raw)
             \/ \E s \in Scopes : release_owned_for_profile(p, s)
             \/ maintenance_lock(p) \/ Install(p) \/ MaintenanceDone(p)
      PROVE  ManualMarked'
  <2>1. running' \subseteq running /\ claims' \subseteq claims
    BY <1>6 DEF Start, Exit, dispatch_admission, release_owned_for_profile,
      maintenance_lock, Install, MaintenanceDone
  <2> QED BY <1>1, <2>1
<1> QED BY <1>2, <1>3, <1>4, <1>5, <1>6 DEF Next, ProcStep

(* A young claim of a running manual worker is stale on no host: on its    *)
(* own the process is alive, elsewhere only its age would count.           *)
LEMMA ManualNotStale ==
  ASSUME ManualInv, ConstantsAssumption, NEW j \in running, j.kind = "manual",
         NEW c \in claims, OwnedBy(c, j.proc), SameWork(c, j.scope, j.work),
         NEW h \in Hosts
  PROVE  ~is_stale(c, h, FALSE)
<1>1. j.proc \in Procs /\ c.manual /\ role[j.proc] = "manual"
  BY DEF ManualInv, ManualMarked, TypeOK, Job, JobsAlive
<1>2. PICK g \in Hosts, i \in Pids : j.proc = <<g, i>>
  BY <1>1 DEF Procs
<1>3. c.host = g /\ c.pid = i /\ c.pid # ZeroPid
  BY <1>2, ConstantsAssumption DEF OwnedBy, HostOf, PidOf
<1> QED BY <1>1, <1>2, <1>3 DEF is_stale, is_process_alive

(* No step takes a young claim from a manual worker that keeps running and *)
(* that no operator command disowned.                                      *)
LEMMA ManualClaimStep ==
  ASSUME ManualInv, ConstantsAssumption, Next, NEW j \in ClaimedJobs, NEW c \in claims,
         j.kind = "manual", j \in running' \ disowned',
         OwnedBy(c, j.proc), SameWork(c, j.scope, j.work), ~c.old
  PROVE  \E d \in claims' : OwnedBy(d, j.proc) /\ SameWork(d, j.scope, j.work)
<1> USE DEF ManualInv
<1>1. j \in running /\ j \in Job /\ j.proc \in Procs /\ c.old = FALSE
  BY DEF ClaimedJobs, TypeOK, Job, WorkClaim
<1>2. \A h \in Hosts : ~is_stale(c, h, c.old)
  BY <1>1, ManualNotStale
<1>3. CASE c \in claims'
  BY <1>3
<1>4. CASE ClaimWork
  <2> PICK k \in attempts : try_claim_with_mode(k)
    BY <1>4 DEF ClaimWork
  <2>1. c \in Matching(k.scope, k.work) => is_claim_stale(k.scope, k.work, HostOf(k.proc))
    BY DEF try_claim_with_mode, is_claimed
  <2>2. HostOf(k.proc) \in Hosts
    BY DEF TypeOK, Job, Procs, HostOf
  <2>3. c.pid # ZeroPid
    BY <1>1, ConstantsAssumption DEF OwnedBy, Procs, PidOf
  <2>4. \A d \in Matching(k.scope, k.work) : c \in Matching(k.scope, k.work) => d = c
    BY <2>3 DEF NormalUnique, Matching, SameWork
  <2>5. c \notin Matching(k.scope, k.work)
    BY <1>2, <2>1, <2>2, <2>4 DEF is_claim_stale
  <2>6. c \in claims'
    BY <2>5 DEF try_claim_with_mode
  <2> QED BY <2>6
<1>5. CASE Finish
  <2> PICK k \in running, released \in BOOLEAN : FinishJob(k, released)
    BY <1>5 DEF Finish
  <2> SUFFICES ASSUME c \notin claims' PROVE FALSE
    BY <1>3
  <2>1. OwnedBy(c, k.proc) /\ SameWork(c, k.scope, k.work) /\ k \in Job
    BY DEF FinishJob, release_owned, TypeOK
  <2>2. j.proc = k.proc
    BY <1>1, <2>1, OwnerUnique DEF Job
  <2>3. j.scope = k.scope /\ j.work = k.work
    <3>1. normalize_work_identity(j.work) = normalize_work_identity(k.work)
            /\ j.scope = k.scope
      BY <2>1 DEF SameWork
    <3>2. \A w \in WorkIds : normalize_work_identity(w) = w
      BY NormalizeIdempotent DEF WorkIds
    <3> QED BY <1>1, <2>1, <3>1, <3>2 DEF Job
  <2>4. j = k
    BY <1>1, <2>1, <2>2, <2>3 DEF JobsAlive, Job
  <2> QED BY <2>4 DEF FinishJob
<1>6. CASE ClaimAges
  <2> PICK a \in claims : claims' = (claims \ {a}) \cup {[a EXCEPT !.old = TRUE]}
    BY <1>6 DEF ClaimAges
  <2> DEFINE n == [a EXCEPT !.old = TRUE]
  <2>1. n.scope = a.scope /\ n.work = a.work /\ n.pid = a.pid /\ n.host = a.host
    BY DEF TypeOK, WorkClaim
  <2>2. n \in claims' /\ (c # a => c \in claims')
    OBVIOUS
  <2> HIDE DEF n
  <2> QED BY <2>1, <2>2 DEF OwnedBy, SameWork
<1>7. ASSUME NEW s \in Scopes, NEW raw \in RawIds, handle_claims_clear(s, raw)
      PROVE  c \in claims'
  BY <1>1, <1>7 DEF handle_claims_clear, Disown
<1>8. ASSUME NEW h \in Hosts, NEW s \in Scopes, NEW anyAge \in BOOLEAN,
             handle_claims_reclaim(h, s, anyAge)
      PROVE  c \in claims'
  <2>1. CASE anyAge = TRUE
    BY <1>1, <1>8, <2>1 DEF handle_claims_reclaim, Disown
  <2>2. CASE anyAge = FALSE
    <3>1. ~is_stale(c, h, c.old \/ anyAge)
      BY <1>1, <1>2, <2>2
    <3> QED BY <1>8, <3>1 DEF handle_claims_reclaim
  <2> QED BY <2>1, <2>2
<1>9. ASSUME NEW p \in Procs, NEW s \in Scopes, release_owned_for_profile(p, s)
      PROVE  c \in claims'
  <2>1. j.proc # p
    BY <1>1, <1>9 DEF release_owned_for_profile, JobsAlive
  <2>2. ~OwnedBy(c, p)
    BY <1>1, <2>1, OwnerUnique
  <2> QED BY <1>9, <2>2 DEF release_owned_for_profile
<1>10. CASE claims' = claims
  BY <1>10
<1>11. ClaimRefused => claims' = claims
  BY DEF ClaimRefused
<1>12. ASSUME NEW p \in Procs,
             \/ \E r \in Roles : Start(p, r)
             \/ Exit(p)
             \/ \E s \in Scopes, raw \in RawIds : dispatch_admission(p, s, raw)
             \/ \E s \in Scopes, raw \in RawIds : PlainDispatch(p, s, raw)
             \/ maintenance_lock(p) \/ Install(p) \/ MaintenanceDone(p)
      PROVE  claims' = claims
  BY <1>12 DEF Start, Exit, dispatch_admission, PlainDispatch, maintenance_lock,
    Install, MaintenanceDone
<1> QED
  BY <1>3, <1>4, <1>5, <1>6, <1>7, <1>8, <1>9, <1>10, <1>11, <1>12
  DEF Next, ProcStep, OperatorStep

(* Across any number of hosts, a running manual worker keeps its claim     *)
(* until the age limit: no other host's claim attempt or reclaim, and no   *)
(* release by another process, removes it.                                 *)
THEOREM ManualClaimKept == Spec => ManualClaimNotTakenEarly
<1>1. Init => JobsAlive /\ AttemptsClaiming /\ LockExcludesAdmission /\ ManualMarked
  BY DEF Init, JobsAlive, AttemptsClaiming, LockExcludesAdmission, ManualMarked
<1>2. ManualInv /\ [Next]_vars
        => (JobsAlive /\ AttemptsClaiming /\ LockExcludesAdmission /\ ManualMarked)'
  <2> SUFFICES ASSUME ManualInv, [Next]_vars
               PROVE  (JobsAlive /\ AttemptsClaiming /\ LockExcludesAdmission /\ ManualMarked)'
    OBVIOUS
  <2>1. CASE Next
    BY <2>1, ConstantsAssumption, LivenessPartsStep, ManualMarkedStep DEF ManualInv
  <2>2. CASE UNCHANGED vars
    BY <2>2 DEF vars, ManualInv, JobsAlive, AttemptsClaiming, LockExcludesAdmission,
      ManualMarked, OwnedBy, SameWork
  <2> QED BY <2>1, <2>2
<1> DEFINE Kept == \A j \in ClaimedJobs : \A c \in claims :
       /\ j.kind = "manual" /\ j \in running' \ disowned'
       /\ OwnedBy(c, j.proc) /\ SameWork(c, j.scope, j.work)
       /\ ~c.old
       => \E d \in claims' : OwnedBy(d, j.proc) /\ SameWork(d, j.scope, j.work)
<1>3. ManualInv /\ [Next]_vars => [Kept]_vars
  BY ConstantsAssumption, ManualClaimStep
<1> QED
  BY <1>1, <1>2, <1>3, TypeCorrect, NormalUniqueness, PTL
  DEF Spec, ManualInv, ManualClaimNotTakenEarly
=============================================================================
