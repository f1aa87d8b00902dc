---------------------------- MODULE RunRecovery ----------------------------
(***************************************************************************)
(* How the runs of one profile on one node are started, finished and, when *)
(* their process died, closed as abandoned.  Three durable files take part *)
(* and no lock covers them together: the event stream (run_dispatch_and_   *)
(* record in src/controller/runtime.rs), the ledger (dispatch::run) and    *)
(* the claim file (src/work_claim.rs).  A loop and a plain `gah dispatch`  *)
(* hold the profile lock and reconcile before they dispatch                *)
(* (reconcile_abandoned_dispatches in src/controller/recovery.rs); a       *)
(* manual worker skips the lock and is protected by its claim alone.       *)
(*                                                                         *)
(* Each read and each append of a file is one step; a process may die      *)
(* between any two of them, and its process id may be taken by a stranger. *)
(***************************************************************************)
EXTENDS Naturals

CONSTANTS
  Procs,     \* process ids of the node
  Works,     \* normalized work ids
  MaxRuns,   \* number of runs started
  Faults,    \* deaths, strangers and failed appends
  ReusePids, \* may a gah process get the id of a dead claim's owner?
  NoWork,    \* the start event of a plain dispatch names no work
  Nobody     \* no holder of the profile lock

ASSUME RunsAssumption ==
  /\ MaxRuns \in Nat /\ Faults \in Nat /\ ReusePids \in BOOLEAN
  /\ NoWork \notin Works /\ Nobody \notin Procs

Runs == 1..MaxRuns
NoRun == 0

VARIABLES
  kind,       \* what each process id runs
  pc,         \* where it is
  run,        \* the run it executes, or NoRun
  work,       \* the work it claimed, or NoWork
  lock,       \* holder of the profile lock
  claims,     \* the claim file: work, owner, manual worker or not
  started,    \* dispatch_started events: run and the work they name
  finished,   \* runs with a terminal event
  own,        \* runs with the ledger row that dispatch::run appends
  abandoned,  \* number of "abandoned" ledger rows of each run
  seen,       \* sessions in the ledger as the lock's holder read it
  orphans,    \* runs the lock's holder is about to close
  cleared,    \* history: manual workers whose claim the operator cleared
  faults      \* failures left

vars == <<kind, pc, run, work, lock, claims, started, finished, own,
          abandoned, seen, orphans, cleared, faults>>
files == <<claims, started, finished, own, abandoned>>
recon == <<seen, orphans>>

LockKinds == {"loop", "dispatch"}
Kinds == LockKinds \cup {"manual", "stranger", "none"}
Phases == {"off", "start", "entries", "events", "claims", "close_row",
           "close_event", "ready", "claimed", "run", "record", "release"}
ReconPhases == {"entries", "events", "claims", "close_row", "close_event"}
Claim == [work : Works, pid : Procs, manual : BOOLEAN]

(* The type invariant: the shape of the state; who reconciles has the lock. *)
TypeOK ==
  /\ kind \in [Procs -> Kinds]
  /\ pc \in [Procs -> Phases]
  /\ run \in [Procs -> Runs \cup {NoRun}]
  /\ work \in [Procs -> Works \cup {NoWork}]
  /\ lock \in Procs \cup {Nobody}
  /\ claims \subseteq Claim
  /\ started \subseteq [run : Runs, work : Works \cup {NoWork}]
  /\ finished \subseteq Runs /\ own \subseteq Runs /\ seen \subseteq Runs
  /\ abandoned \in [Runs -> Nat]
  /\ orphans \subseteq started
  /\ cleared \subseteq Procs
  /\ faults \in 0..Faults
  /\ \A p \in Procs : pc[p] \in ReconPhases => lock = p

Init ==
  /\ kind = [p \in Procs |-> "none"]
  /\ pc = [p \in Procs |-> "off"]
  /\ run = [p \in Procs |-> NoRun]
  /\ work = [p \in Procs |-> NoWork]
  /\ lock = Nobody
  /\ claims = {} /\ started = {} /\ finished = {} /\ own = {}
  /\ abandoned = [r \in Runs |-> 0]
  /\ seen = {} /\ orphans = {} /\ cleared = {}
  /\ faults = Faults

-----------------------------------------------------------------------------
Goto(p, phase) == pc' = [pc EXCEPT ![p] = phase]
SpendFault == faults > 0 /\ faults' = faults - 1

is_process_alive(p) == kind[p] # "none"

\* On the claim's own host only its process decides.
is_stale(c) == ~is_process_alive(c.pid)

Used == {e.run : e \in started}

\* Run ids are never used twice; numbering them keeps the starts in order.
Fresh(r) == r \in Runs \ Used /\ 1..(r - 1) \subseteq Used

HasRow(r) == r \in own \/ abandoned[r] > 0

-----------------------------------------------------------------------------
(* Processes *)

\* Operators start jobs only while run ids are left.
Start(p, k) ==
  /\ kind[p] = "none"
  /\ k # "none"
  /\ k \in {"manual", "dispatch"} => ~(Runs \subseteq Used)
  /\ kind' = [kind EXCEPT ![p] = k]
  /\ Goto(p, "start")
  /\ k # "stranger" /\ ~ReusePids => \A c \in claims : c.pid # p
  /\ IF k = "stranger" THEN SpendFault ELSE UNCHANGED faults
  /\ UNCHANGED <<run, work, lock, files, recon, cleared>>

(* The process ends: its flock is dropped, its claim stays in the file.    *)
Gone(p) ==
  /\ kind' = [kind EXCEPT ![p] = "none"]
  /\ Goto(p, "off")
  /\ run' = [run EXCEPT ![p] = NoRun]
  /\ work' = [work EXCEPT ![p] = NoWork]
  /\ cleared' = cleared \ {p}
  /\ IF lock = p
     THEN lock' = Nobody /\ seen' = {} /\ orphans' = {}
     ELSE UNCHANGED <<lock, recon>>

Die(p) ==
  /\ kind[p] \notin {"none", "stranger"}
  /\ SpendFault
  /\ Gone(p)
  /\ UNCHANGED files

StrangerExits(p) ==
  /\ kind[p] = "stranger"
  /\ Gone(p)
  /\ UNCHANGED <<files, faults>>

\* Mutant: the lock is taken over from its holder.
LockTakenOver(p) ==
  /\ kind[p] \in LockKinds /\ pc[p] = "start"
  /\ lock' = p /\ Goto(p, "entries")
  /\ UNCHANGED <<kind, run, work, recon, files, cleared, faults>>

\* try_lock_exclusive: a second holder is refused and exits.
acquire_profile_lock(p) ==
  /\ kind[p] \in LockKinds /\ pc[p] = "start"
  /\ IF lock = Nobody
     THEN lock' = p /\ Goto(p, "entries") /\ UNCHANGED <<kind, run, work, recon, cleared>>
     ELSE Gone(p)
  /\ UNCHANGED <<files, faults>>

-----------------------------------------------------------------------------
(* Reconciliation, by the holder of the profile lock *)

\* ledger::read_entries, before reconcile_abandoned_dispatches is called.
read_entries(p) ==
  /\ pc[p] = "entries"
  /\ seen' = {r \in Runs : HasRow(r)}
  /\ Goto(p, "events")
  /\ UNCHANGED <<kind, run, work, lock, files, orphans, cleared, faults>>

\* Started runs without a terminal event.
orphaned_dispatch_runs == {e \in started : e.run \notin finished}

read_events(p) ==
  /\ pc[p] = "events"
  /\ orphans' = orphaned_dispatch_runs
  /\ Goto(p, IF orphaned_dispatch_runs = {} THEN "ready" ELSE "claims")
  /\ UNCHANGED <<kind, run, work, lock, files, seen, cleared, faults>>

\* Mutant: every claim counts, whether or not its owner lives.
DeadClaimsCount == {c.work : c \in {d \in claims : d.manual}}

\* Mutant: a manual worker's claim is not looked at.
NoManualWork == {}

live_manual_work_ids == {c.work : c \in {d \in claims : d.manual /\ ~is_stale(d)}}

read_claims(p) ==
  /\ pc[p] = "claims"
  /\ LET open == {e \in orphans : e.work \notin live_manual_work_ids}
     IN orphans' = open /\ Goto(p, IF open = {} THEN "ready" ELSE "close_row")
  /\ UNCHANGED <<kind, run, work, lock, files, seen, cleared, faults>>

\* Orphans are closed in the order of their start events.
IsNext(e) == e \in orphans /\ \A f \in orphans : e.run <= f.run

\* Mutant: the sessions already in the ledger are not consulted.
AlwaysAppendRow(p) ==
  /\ pc[p] = "close_row"
  /\ \E e \in orphans :
       IsNext(e) /\ abandoned' = [abandoned EXCEPT ![e.run] = @ + 1]
  /\ Goto(p, "close_event")
  /\ UNCHANGED <<kind, run, work, lock, claims, started, finished, own, recon, cleared, faults>>

\* Mutant: the ledger row is left out.
NeverAppendRow(p) ==
  /\ pc[p] = "close_row"
  /\ Goto(p, "close_event")
  /\ UNCHANGED <<kind, run, work, lock, files, recon, cleared, faults>>

(* The "abandoned" ledger row, unless the ledger as read already had a row *)
(* of this session.                                                        *)
AppendAbandonedRow(p) ==
  /\ pc[p] = "close_row"
  /\ \E e \in orphans :
       /\ IsNext(e)
       /\ abandoned' = IF e.run \in seen THEN abandoned
                       ELSE [abandoned EXCEPT ![e.run] = @ + 1]
  /\ Goto(p, "close_event")
  /\ UNCHANGED <<kind, run, work, lock, claims, started, finished, own, recon, cleared, faults>>

AppendClosingEvent(p) ==
  /\ pc[p] = "close_event"
  /\ \E e \in orphans :
       /\ IsNext(e)
       /\ finished' = finished \cup {e.run}
       /\ orphans' = orphans \ {e}
       /\ Goto(p, IF orphans = {e} THEN "ready" ELSE "close_row")
  /\ UNCHANGED <<kind, run, work, lock, claims, started, own, abandoned, seen, cleared, faults>>

(* A file cannot be read or appended to: the pass ends with the error, a   *)
(* loop begins the next one and a plain dispatch exits.  Unreadable claims *)
(* only skip the reconciliation.                                           *)
ReconcileFails(p) ==
  /\ pc[p] \in ReconPhases
  /\ SpendFault
  /\ IF pc[p] = "claims" \/ kind[p] = "loop"
     THEN /\ Goto(p, IF pc[p] = "claims" THEN "ready" ELSE "entries")
          /\ seen' = {} /\ orphans' = {}
          /\ UNCHANGED <<kind, run, work, lock, cleared>>
     ELSE Gone(p)
  /\ UNCHANGED files

-----------------------------------------------------------------------------
(* Running a job *)

\* The process is about to choose work: a locked process has reconciled.
MayClaim(p) ==
  \/ kind[p] = "loop" /\ pc[p] = "ready"
  \/ kind[p] = "manual" /\ pc[p] = "start"

\* try_claim_work of the loop, try_claim_manual_work of ManualClaim::take.
try_claim(p, w) ==
  /\ MayClaim(p)
  /\ \A c \in claims : c.work = w => is_stale(c)
  /\ claims' = {c \in claims : c.work # w} \cup
                 {[work |-> w, pid |-> p, manual |-> kind[p] = "manual"]}
  /\ work' = [work EXCEPT ![p] = w]
  /\ Goto(p, "claimed")
  /\ UNCHANGED <<kind, run, lock, started, finished, own, abandoned, recon, cleared, faults>>

\* A manual worker whose work is claimed exits.
ClaimRefused(p, w) ==
  /\ kind[p] = "manual" /\ pc[p] = "start"
  /\ \E c \in claims : c.work = w /\ ~is_stale(c)
  /\ Gone(p)
  /\ UNCHANGED <<files, faults>>

\* Nothing to dispatch, or every candidate is claimed: the next pass.
NextPass(p) ==
  /\ kind[p] = "loop" /\ pc[p] = "ready"
  /\ Goto(p, "entries")
  /\ UNCHANGED <<kind, run, work, lock, files, recon, cleared, faults>>

(* run_dispatch_and_record: the start event, under a fresh run id.  If it  *)
(* cannot be appended nothing is dispatched; past MaxRuns none can.        *)
RecordStarted(p) ==
  /\ pc[p] = "claimed" \/ (kind[p] = "dispatch" /\ pc[p] = "ready")
  /\ \/ \E r \in Runs :
          /\ Fresh(r)
          /\ started' = started \cup {[run |-> r, work |-> work[p]]}
          /\ run' = [run EXCEPT ![p] = r]
          /\ Goto(p, "run")
          /\ UNCHANGED faults
     \/ /\ IF Runs \subseteq Used THEN UNCHANGED faults ELSE SpendFault
        /\ Goto(p, "release")
        /\ UNCHANGED <<started, run>>
  /\ UNCHANGED <<kind, work, lock, claims, finished, own, abandoned, recon, cleared>>

(* dispatch::run returns.  It appended its ledger row, unless it failed    *)
(* before it had one or the append failed, which is only a warning.        *)
RunEnds(p, appended) ==
  /\ pc[p] = "run"
  /\ own' = IF appended THEN own \cup {run[p]} ELSE own
  /\ Goto(p, "record")
  /\ UNCHANGED <<kind, run, work, lock, claims, started, finished, abandoned, recon, cleared, faults>>

\* The terminal event; a failed append is an error and leaves the run open.
RecordFinished(p) ==
  /\ pc[p] = "record"
  /\ \/ finished' = finished \cup {run[p]} /\ UNCHANGED faults
     \/ SpendFault /\ UNCHANGED finished
  /\ run' = [run EXCEPT ![p] = NoRun]
  /\ Goto(p, "release")
  /\ UNCHANGED <<kind, work, lock, claims, started, own, abandoned, recon, cleared>>

(* The claim is released; the loop goes on to its next pass, the others    *)
(* exit.                                                                   *)
release_owned_work(p) ==
  /\ pc[p] = "release"
  /\ claims' = {c \in claims : ~(c.pid = p /\ c.work = work[p])}
  /\ IF kind[p] = "loop"
     THEN /\ Goto(p, "entries")
          /\ work' = [work EXCEPT ![p] = NoWork]
          /\ UNCHANGED <<kind, run, lock, recon, cleared>>
     ELSE Gone(p)
  /\ UNCHANGED <<started, finished, own, abandoned, faults>>

(* `gah claims clear` removes the claim of an item without asking whether  *)
(* its owner lives.                                                        *)
handle_claims_clear(w) ==
  /\ \E c \in claims : c.work = w
  /\ claims' = {c \in claims : c.work # w}
  /\ cleared' = cleared \cup {p \in Procs :
       [work |-> w, pid |-> p, manual |-> TRUE] \in claims /\ work[p] = w}
  /\ UNCHANGED <<kind, pc, run, work, lock, started, finished, own, abandoned,
                 recon, faults>>

-----------------------------------------------------------------------------
ReconcileStep(p) ==
  \/ acquire_profile_lock(p)
  \/ read_entries(p) \/ read_events(p) \/ read_claims(p)
  \/ AppendAbandonedRow(p) \/ AppendClosingEvent(p)

JobStep(p) ==
  \/ RecordStarted(p)
  \/ \E appended \in BOOLEAN : RunEnds(p, appended)
  \/ RecordFinished(p)
  \/ release_owned_work(p)

ClaimStep(p) == \E w \in Works : try_claim(p, w) \/ ClaimRefused(p, w)

Next ==
  \/ \E p \in Procs :
       \/ \E k \in Kinds : Start(p, k)
       \/ Die(p) \/ StrangerExits(p)
       \/ ReconcileStep(p) \/ ReconcileFails(p)
       \/ ClaimStep(p)
       \/ NextPass(p)
       \/ JobStep(p)
  \/ \E w \in Works : handle_claims_clear(w)

(* Processes run on and strangers end.  Nothing starts a loop by itself:   *)
(* gah-loop@.service has Restart=no.                                       *)
Fairness ==
  \A p \in Procs : /\ WF_vars(ReconcileStep(p) \/ NextPass(p))
                   /\ WF_vars(JobStep(p))
                   /\ WF_vars(kind[p] = "manual" /\ ClaimStep(p))
                   /\ WF_vars(StrangerExits(p))

Spec == Init /\ [][Next]_vars /\ Fairness

-----------------------------------------------------------------------------
(* Properties *)

(* A run whose process is still executing it is never closed as abandoned: *)
(* the profile lock covers loops and plain dispatches, and a manual        *)
(* worker's claim is taken before its start event and released after its   *)
(* terminal event, while reconciliation reads events before claims.  The   *)
(* one exception is a manual worker whose claim the operator cleared with  *)
(* `gah claims clear` while it ran.                                        *)
LiveRunNotAbandoned ==
  \A p \in Procs \ cleared :
    run[p] # NoRun => abandoned[run[p]] = 0 /\ run[p] \notin finished

(* Without the exception: clearing the claim of a live manual worker lets  *)
(* the next reconciliation close its run under it.                         *)
NoLiveRunAbandoned ==
  \A p \in Procs : run[p] # NoRun => abandoned[run[p]] = 0 /\ run[p] \notin finished

(* However often a reconciliation is cut short and repeated, a run gets at *)
(* most one "abandoned" row: the row is appended before the closing event, *)
(* and the next pass finds its session in the ledger.                      *)
AtMostOneAbandonedRow == \A r \in Runs : abandoned[r] <= 1

(* A run that reconciliation closed is in the ledger too: no death between *)
(* the two appends leaves a run closed in the event stream and missing     *)
(* from the routing and usage reports.  A run that closed itself may be    *)
(* missing, when its own append failed.                                    *)
ClosedOrphanHasRow ==
  [][\A p \in Procs, e \in orphans :
       AppendClosingEvent(p) /\ IsNext(e) => HasRow(e.run)]_vars

(* If the operator keeps starting a loop, every run whose process is gone  *)
(* is closed in the end, by the loop or by itself.                         *)
DeadRunsAreClosed ==
  []<>(\E p \in Procs : kind[p] = "loop") =>
    \A r \in Runs :
      ((\E e \in started : e.run = r) /\ (\A p \in Procs : run[p] # r))
        ~> r \in finished
=============================================================================
