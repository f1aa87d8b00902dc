----------------------------- MODULE WorkClaims -----------------------------
(***************************************************************************)
(* The durable per-work claim file of src/work_claim.rs, the processes     *)
(* that use it (controller loops, manual workers, plain `gah dispatch`),   *)
(* the operator commands on it, and the admission/maintenance lock of      *)
(* src/agents/state.rs that keeps an agent-CLI update and a new claim from *)
(* passing each other.                                                     *)
(*                                                                         *)
(* Every operation on the file runs under one exclusive flock and ends     *)
(* with an atomic rename, so each is one step here.  What is not atomic is *)
(* modelled as separate steps: taking the shared admission lock and then   *)
(* the claim; taking the maintenance lock, then the idle check, then the   *)
(* installation; a process dying in between.                               *)
(***************************************************************************)
EXTENDS Naturals, FiniteSets

CONSTANTS
  Hosts,        \* machines that share the state directory
  Pids,         \* process ids, reused after a process ends
  Scopes,       \* "<profile>@<repo_id>" claim scopes
  Numbers,      \* issue numbers
  Words,        \* non-numeric ticket names
  V1Ids,        \* work ids a version-1 claim file may hold
  ZeroPid,      \* pid 0, the owner of a migrated version-1 claim
  UnknownHost,  \* its host name, "unknown"
  Nobody        \* no holder of the maintenance lock

Procs == Hosts \X Pids

(***************************************************************************)
(* A work id as it is spelled: `71`, `#71`, `TICKET-71`, each possibly     *)
(* with leading zeros, or one of the same prefixes before a word.          *)
(***************************************************************************)
Forms == {"plain", "hash", "ticket"}
RawIds == [form : Forms, padded : BOOLEAN, body : Numbers]
            \cup [form : Forms, padded : {FALSE}, body : Words]

ASSUME ConstantsAssumption ==
  /\ Numbers \cap Words = {}
  /\ V1Ids \subseteq RawIds
  /\ ZeroPid \notin Pids
  /\ UnknownHost \notin Hosts
  /\ Nobody \notin Procs

\* Mutant: a numeric id keeps its spelling.
NormalizeKeepsSpelling(id) == id

(* Numeric spellings collapse to `#<number>` without leading zeros; every  *)
(* other id is kept as it is.                                              *)
normalize_work_identity(id) ==
  IF id.body \in Numbers
  THEN [form |-> "hash", padded |-> FALSE, body |-> id.body]
  ELSE id

WorkIds == {normalize_work_identity(r) : r \in RawIds}

(***************************************************************************)
(* A claim record.  `old` stands for "claimed_at is more than              *)
(* CLAIM_MAX_AGE_SECS ago".                                                *)
(***************************************************************************)
WorkClaim ==
  [scope : Scopes, work : RawIds, host : Hosts \cup {UnknownHost},
   pid : Pids \cup {ZeroPid}, manual : BOOLEAN, old : BOOLEAN]

V1Claims ==
  [scope : Scopes, work : V1Ids, host : {UnknownHost}, pid : {ZeroPid},
   manual : {FALSE}, old : {FALSE}]

\* A loop and a manual worker claim their jobs; a plain `gah dispatch`
\* runs under the profile lock alone.
ClaimingKinds == {"loop", "manual"}
WorkerKinds   == ClaimingKinds \cup {"dispatch"}
UpdaterKinds  == {"agent_update", "node_update"}
Roles == {"none", "other"} \cup WorkerKinds \cup UpdaterKinds

Job == [proc : Procs, kind : WorkerKinds, scope : Scopes, work : WorkIds]

VARIABLES
  claims,    \* the claims in the file
  role,      \* what runs under each process id
  attempts,  \* jobs between dispatch_admission() and the claim itself
  running,   \* jobs being executed
  disowned,  \* running jobs whose claim an operator command removed
  maint      \* the maintenance lock: who holds it and how far it is

vars == <<claims, role, attempts, running, disowned, maint>>

(* The type invariant: the shape of the file, of the jobs and of the lock; *)
(* an admission and maintenance never hold the lock at the same time.      *)
TypeOK ==
  /\ claims \subseteq WorkClaim
  /\ role \in [Procs -> Roles]
  /\ attempts \subseteq Job
  /\ running \subseteq Job
  /\ disowned \subseteq running
  /\ maint \in [stage : {"free", "locked", "installing"},
                by : Procs \cup {Nobody}]
  /\ maint.stage # "free" => attempts = {}

Init ==
  /\ claims \in SUBSET V1Claims
  /\ role = [p \in Procs |-> "none"]
  /\ attempts = {}
  /\ running = {}
  /\ disowned = {}
  /\ maint = [stage |-> "free", by |-> Nobody]

-----------------------------------------------------------------------------
(* Staleness and lookup *)

HostOf(p) == p[1]
PidOf(p) == p[2]

\* `kill -0 <pid>` on host h: some process has that id, whosever it is.
is_process_alive(h, pid) == pid \in Pids /\ role[<<h, pid>>] # "none"

\* Mutant: a remote manual worker's pid is looked up on this host.
StaleRemoteByPid(c, h, tooOld) ==
  \/ c.pid = ZeroPid
  \/ ~is_process_alive(h, c.pid)
  \/ c.host # h /\ tooOld

(* Whether claim c is stale as seen from host h, when its age exceeds the  *)
(* limit in use iff tooOld.                                                *)
is_stale(c, h, tooOld) ==
  IF c.manual /\ c.host # h
  THEN c.pid = ZeroPid \/ tooOld
  ELSE \/ c.pid = ZeroPid
       \/ ~is_process_alive(h, c.pid)
       \/ c.host # h /\ tooOld

SameWork(c, s, w) ==
  /\ c.scope = s
  /\ normalize_work_identity(c.work) = normalize_work_identity(w)

Matching(s, w) == {c \in claims : SameWork(c, s, w)}

is_claimed(s, w) == Matching(s, w) # {}
is_claim_stale(s, w, h) == \E c \in Matching(s, w) : is_stale(c, h, c.old)

OwnedBy(c, p) == c.host = HostOf(p) /\ c.pid = PidOf(p)

JobsOf(p) == {j \in running \cup attempts : j.proc = p}

-----------------------------------------------------------------------------
(* Processes *)

\* A process id is given to a new process: one of ours or a stranger.
Start(p, r) ==
  /\ role[p] = "none"
  /\ r # "none"
  /\ role' = [role EXCEPT ![p] = r]
  /\ UNCHANGED <<claims, attempts, running, disowned, maint>>

(* A process ends, by finishing or by being killed.  The kernel drops its  *)
(* flocks; its claims stay in the file.                                    *)
Exit(p) ==
  /\ role[p] # "none"
  /\ role' = [role EXCEPT ![p] = "none"]
  /\ attempts' = {j \in attempts : j.proc # p}
  /\ running' = {j \in running : j.proc # p}
  /\ disowned' = {j \in disowned : j.proc # p}
  /\ maint' = IF maint.by = p THEN [stage |-> "free", by |-> Nobody] ELSE maint
  /\ UNCHANGED claims

-----------------------------------------------------------------------------
(* Claiming and releasing *)

(* First half of try_claim_with_mode: take the shared side of the update   *)
(* lock.  With maintenance running the call returns false and nothing      *)
(* changes.  A manual worker makes one claim; a loop never re-selects work *)
(* that one of its own worker threads has (executed_work_ids).             *)
dispatch_admission(p, s, raw) ==
  LET j == [proc |-> p, kind |-> role[p], scope |-> s,
            work |-> normalize_work_identity(raw)]
  IN /\ role[p] \in ClaimingKinds
     /\ role[p] = "manual" => JobsOf(p) = {}
     /\ \A k \in JobsOf(p) : k.scope # s \/ k.work # j.work
     /\ maint.stage = "free"
     /\ attempts' = attempts \cup {j}
     /\ UNCHANGED <<claims, role, running, disowned, maint>>

\* Mutant: a live claim does not refuse the newcomer.
ClaimOverLive(j) ==
  /\ claims' = claims \cup
       {[scope |-> j.scope, work |-> j.work, host |-> HostOf(j.proc),
         pid |-> PidOf(j.proc), manual |-> j.kind = "manual", old |-> FALSE]}
  /\ attempts' = attempts \ {j}
  /\ running' = running \cup {j}
  /\ UNCHANGED <<role, disowned, maint>>

(* Second half: under the claim file's lock, a live claim refuses, a stale *)
(* one is released, and the new claim is appended; the admission lock is   *)
(* dropped on return.                                                      *)
try_claim_with_mode(j) ==
  LET h == HostOf(j.proc)
  IN /\ is_claimed(j.scope, j.work) => is_claim_stale(j.scope, j.work, h)
     /\ claims' = (claims \ Matching(j.scope, j.work)) \cup
          {[scope |-> j.scope, work |-> j.work, host |-> h,
            pid |-> PidOf(j.proc), manual |-> j.kind = "manual",
            old |-> FALSE]}
     /\ attempts' = attempts \ {j}
     /\ running' = running \cup {j}
     /\ UNCHANGED <<role, disowned, maint>>

ClaimWork == \E j \in attempts : try_claim_with_mode(j)

\* The claim is live, or reading or saving the file failed: no claim.
ClaimRefused ==
  \E j \in attempts :
    /\ attempts' = attempts \ {j}
    /\ UNCHANGED <<claims, role, running, disowned, maint>>

\* A plain `gah dispatch` runs its target with neither admission nor claim.
PlainDispatch(p, s, raw) ==
  /\ role[p] = "dispatch"
  /\ JobsOf(p) = {}
  /\ running' = running \cup
       {[proc |-> p, kind |-> "dispatch", scope |-> s,
         work |-> normalize_work_identity(raw)]}
  /\ UNCHANGED <<claims, role, attempts, disowned, maint>>

\* Mutant: the release ignores who owns the claim.
ReleaseAnyOwner(p, s, w) == {c \in claims : ~SameWork(c, s, w)}

release_owned(p, s, w) == {c \in claims : ~(OwnedBy(c, p) /\ SameWork(c, s, w))}

(* A job ends and its worker releases the claim it took.  A failed release *)
(* is only a warning (ManualClaim::drop, the parallel worker's `let _ =`). *)
FinishJob(j, released) ==
  /\ running' = running \ {j}
  /\ disowned' = disowned \ {j}
  /\ claims' = IF released /\ j.kind \in ClaimingKinds
               THEN release_owned(j.proc, j.scope, j.work)
               ELSE claims
  /\ UNCHANGED <<role, attempts, maint>>

Finish == \E j \in running, released \in BOOLEAN : FinishJob(j, released)

(* A loop pass with failed results drops every claim of this process in    *)
(* the scope, after its worker threads have been joined.                   *)
release_owned_for_profile(p, s) ==
  /\ role[p] = "loop"
  /\ \A j \in JobsOf(p) : j.scope # s
  /\ claims' = {c \in claims : ~(OwnedBy(c, p) /\ c.scope = s)}
  /\ UNCHANGED <<role, attempts, running, disowned, maint>>

-----------------------------------------------------------------------------
(* Time and the operator's commands *)

ClaimAges ==
  \E c \in claims :
    /\ ~c.old
    /\ claims' = (claims \ {c}) \cup {[c EXCEPT !.old = TRUE]}
    /\ UNCHANGED <<role, attempts, running, disowned, maint>>

Disown(gone) ==
  disowned \cup {j \in running : \E c \in gone : OwnedBy(c, j.proc)
                                              /\ SameWork(c, j.scope, j.work)}

\* `gah claims clear`: no ownership or staleness check.
handle_claims_clear(s, raw) ==
  /\ claims' = claims \ Matching(s, raw)
  /\ disowned' = Disown(Matching(s, raw))
  /\ UNCHANGED <<role, attempts, running, maint>>

\* `gah claims reclaim` on host h; with anyAge the operator's
\* --max-age-secs is below every claim's age.
handle_claims_reclaim(h, s, anyAge) ==
  LET gone == {c \in claims : c.scope = s /\ is_stale(c, h, c.old \/ anyAge)}
  IN /\ claims' = claims \ gone
     /\ disowned' = IF anyAge THEN Disown(gone) ELSE disowned
     /\ UNCHANGED <<role, attempts, running, maint>>

-----------------------------------------------------------------------------
(* Maintenance *)

\* Mutant: maintenance takes the lock on the shared side.
MaintenanceShares(p) ==
  /\ role[p] \in UpdaterKinds
  /\ maint.stage = "free"
  /\ maint' = [stage |-> "locked", by |-> p]
  /\ UNCHANGED <<claims, role, attempts, running, disowned>>

\* agents::update and gah update: the exclusive side, refused while any
\* admission holds the shared side.
maintenance_lock(p) ==
  /\ role[p] \in UpdaterKinds
  /\ maint.stage = "free"
  /\ attempts = {}
  /\ maint' = [stage |-> "locked", by |-> p]
  /\ UNCHANGED <<claims, role, attempts, running, disowned>>

\* Mutant: the idle check is left out.
NoIdleCheck(p) == TRUE

(* No claim in the file, of any scope, is live as seen from the updating   *)
(* host.                                                                   *)
ensure_node_idle(p) == \A c \in claims : is_stale(c, HostOf(p), c.old)

\* The agent updater installs after the idle check; `gah update` has none.
Install(p) ==
  /\ maint = [stage |-> "locked", by |-> p]
  /\ role[p] = "agent_update" => ensure_node_idle(p)
  /\ maint' = [stage |-> "installing", by |-> p]
  /\ UNCHANGED <<claims, role, attempts, running, disowned>>

\* The update ends, or the idle check refused it; the lock is dropped.
MaintenanceDone(p) ==
  /\ maint.by = p
  /\ maint' = [stage |-> "free", by |-> Nobody]
  /\ UNCHANGED <<claims, role, attempts, running, disowned>>

-----------------------------------------------------------------------------
ProcStep ==
  \E p \in Procs :
    \/ \E r \in Roles : Start(p, r)
    \/ Exit(p)
    \/ \E s \in Scopes, raw \in RawIds : dispatch_admission(p, s, raw)
    \/ \E s \in Scopes, raw \in RawIds : PlainDispatch(p, s, raw)
    \/ \E s \in Scopes : release_owned_for_profile(p, s)
    \/ maintenance_lock(p)
    \/ Install(p)
    \/ MaintenanceDone(p)

OperatorStep ==
  \/ \E s \in Scopes, raw \in RawIds : handle_claims_clear(s, raw)
  \/ \E h \in Hosts, s \in Scopes, anyAge \in BOOLEAN :
       handle_claims_reclaim(h, s, anyAge)

Next == ProcStep \/ ClaimWork \/ ClaimRefused \/ Finish \/ ClaimAges
          \/ OperatorStep

Spec == Init /\ [][Next]_vars

-----------------------------------------------------------------------------
(* Properties *)

ClaimedJobs == {j \in running \ disowned : j.kind \in ClaimingKinds}

\* Two ids mean one item: the same issue number, however it is spelled.
SameItem(v, w) == v = w \/ (v.body \in Numbers /\ v.body = w.body)

(* A claim with an owner is the only claim of its item, under whatever     *)
(* spelling: try_claim_with_mode compares normalized ids and releases the  *)
(* stale match before it appends.  Only version-1 entries, which have no   *)
(* owner, may still repeat an item.                                        *)
OwnedClaimUnique ==
  \A c, d \in claims :
    c.pid # ZeroPid /\ d.scope = c.scope /\ SameItem(d.work, c.work) => d = c

(* On one host, two jobs that went through a claim never run the same item *)
(* at the same time, whatever order admissions, claims, deaths, reused     *)
(* process ids and releases come in; a job whose claim the operator        *)
(* removed is the one exception.                                           *)
JobExclusion ==
  \A j, k \in ClaimedJobs : j.scope = k.scope /\ SameItem(j.work, k.work) => j = k

(* On one host the claim file implements an exclusive claim of each item:  *)
(* a job that goes through a claim starts on the item only after the last  *)
(* one has ended, died with its process or been disowned.                  *)
Authority ==
  INSTANCE ExclusiveClaim
    WITH Items <- Scopes \X WorkIds, Owners <- Job,
         holders <- [i \in Scopes \X WorkIds |->
                       {j \in ClaimedJobs : j.scope = i[1] /\ j.work = i[2]}]

ImplementsClaim == Authority!Spec

(* While an agent CLI is being replaced, no job that holds a claim runs on *)
(* the node: admission is closed before the idle check and stays closed    *)
(* until the installer exits.                                              *)
InstallExcludesClaimedJobs ==
  maint.stage = "installing" /\ role[maint.by] = "agent_update"
    => ClaimedJobs = {}

(* A manual worker's claim on one host is never taken by a process of      *)
(* another host before the age limit, although its process id means        *)
(* nothing there.                                                          *)
ManualClaimNotTakenEarly ==
  [][\A j \in ClaimedJobs : \A c \in claims :
       /\ j.kind = "manual" /\ j \in running' \ disowned'
       /\ OwnedBy(c, j.proc) /\ SameWork(c, j.scope, j.work)
       /\ ~c.old
       => \E d \in claims' : OwnedBy(d, j.proc) /\ SameWork(d, j.scope, j.work)
    ]_vars

(* agents/state.rs: "Maintenance takes the exclusive side, then checks     *)
(* durable claims; neither side can pass the other unnoticed."  Read as:   *)
(* no job of any kind runs while an update of any kind installs.           *)
NoJobDuringMaintenance ==
  maint.stage = "installing" => running \ disowned = {}

(* work_claim.rs, CLAIM_MAX_AGE_SECS: "A claim held on another host        *)
(* expires after this".  Read as: a claim is not replaced by another host  *)
(* while its job runs and it is younger than that.                         *)
RemoteClaimNotTakenEarly ==
  [][\A j \in ClaimedJobs : \A c \in claims :
       /\ j \in running' \ disowned'
       /\ OwnedBy(c, j.proc) /\ SameWork(c, j.scope, j.work)
       /\ ~c.old
       => \E d \in claims' : OwnedBy(d, j.proc) /\ SameWork(d, j.scope, j.work)
    ]_vars
=============================================================================
