------------------------- MODULE RunRecoveryProofs -------------------------
(***************************************************************************)
(* Proofs, for any number of processes, work items, runs and faults, that  *)
(* reconciliation never closes a run that is still executed under a claim  *)
(* or the lock, records a run as abandoned at most once, and closes no run *)
(* without a ledger row.                                                   *)
(***************************************************************************)
EXTENDS RunRecovery, TLAPS

-----------------------------------------------------------------------------
(* The inductive invariant *)

JobPhases == {"claimed", "run", "record", "release"}

\* Which process is where: every lock kind past its start holds the lock.
PhasesOK ==
  \A p \in Procs :
    /\ kind[p] = "none" => pc[p] = "off"
    /\ kind[p] = "stranger" => pc[p] = "start"
    /\ kind[p] = "manual" => pc[p] \in JobPhases \cup {"start"}
    /\ kind[p] \in LockKinds /\ pc[p] # "start" => lock = p
    /\ pc[p] \in {"run", "record"} => run[p] \in Runs

\* A process executes a run it started, and no other process does.
RunsOK ==
  /\ \A p \in Procs : run[p] # NoRun =>
       /\ pc[p] \in {"run", "record"}
       /\ [run |-> run[p], work |-> work[p]] \in started
  /\ \A p, q \in Procs : run[p] # NoRun /\ run[p] = run[q] => p = q
  /\ \A e, f \in started : e.run = f.run => e = f
  /\ \A r \in Runs : r \in finished \/ HasRow(r) => r \in Used

\* A manual worker's claim stands from before its start event until after
\* its terminal event, unless the operator cleared it.
ManualClaimed ==
  \A p \in Procs : kind[p] = "manual" /\ pc[p] \in JobPhases /\ p \notin cleared =>
    [work |-> work[p], pid |-> p, manual |-> TRUE] \in claims

\* Once the claims are read, no orphan is being executed under a claim.
OrphansDead ==
  \A q \in Procs : pc[q] \in {"close_row", "close_event"} =>
    \A e \in orphans, p \in Procs \ cleared : run[p] # e.run

(* What the lock's holder remembers of the ledger covers the rows there    *)
(* are, except for the orphan whose row it has just seen to.               *)
LedgerRead ==
  /\ \A r \in seen : HasRow(r)
  /\ \A q \in Procs :
       /\ pc[q] = "events" => \A r \in Runs : abandoned[r] > 0 => r \in seen
       /\ pc[q] \in {"claims", "close_row"} =>
            \A e \in orphans : abandoned[e.run] > 0 => e.run \in seen
       /\ pc[q] = "close_event" =>
            \A e \in orphans :
              /\ IsNext(e) => HasRow(e.run)
              /\ ~IsNext(e) /\ abandoned[e.run] > 0 => e.run \in seen

Inv ==
  /\ TypeOK /\ PhasesOK /\ RunsOK /\ ManualClaimed /\ OrphansDead /\ LedgerRead
  /\ LiveRunNotAbandoned /\ AtMostOneAbandonedRow

USE RunsAssumption

-----------------------------------------------------------------------------
(* A step either spends one of the faults left or none.                    *)
LEMMA FaultsType == TypeOK /\ (SpendFault \/ UNCHANGED faults) => faults' \in 0..Faults
BY DEF TypeOK, SpendFault

(* A process that ends leaves types and phases intact.                     *)
LEMMA GoneKeeps ==
  ASSUME TypeOK, PhasesOK, NEW p \in Procs, Gone(p), faults' \in 0..Faults,
         claims' \subseteq Claim, UNCHANGED <<started, finished, own, abandoned>>
  PROVE  TypeOK' /\ PhasesOK'
<1>1. TypeOK'
  BY DEF TypeOK, Gone, Goto, Kinds, Phases, recon, ReconPhases
<1>2. PhasesOK'
  BY DEF TypeOK, PhasesOK, Gone, Goto, LockKinds, recon
<1> QED BY <1>1, <1>2

(* Types and phases are preserved by every step.                           *)
LEMMA TypeStep == TypeOK /\ PhasesOK /\ [Next]_vars => TypeOK' /\ PhasesOK'
<1> SUFFICES ASSUME TypeOK, PhasesOK, [Next]_vars PROVE TypeOK' /\ PhasesOK'
  OBVIOUS
<1> USE DEF Goto, files, recon
<1>1. ASSUME NEW p \in Procs, NEW k \in Kinds, Start(p, k) PROVE TypeOK' /\ PhasesOK'
  <2>1. faults' \in 0..Faults
    BY <1>1, FaultsType DEF Start
  <2>2. TypeOK'
    BY <1>1, <2>1 DEF TypeOK, Start, Phases, ReconPhases
  <2>3. PhasesOK'
    BY <1>1 DEF PhasesOK, TypeOK, Start, LockKinds
  <2> QED BY <2>2, <2>3
<1>2. ASSUME NEW p \in Procs, Die(p) \/ StrangerExits(p) PROVE TypeOK' /\ PhasesOK'
  BY <1>2, FaultsType, GoneKeeps DEF TypeOK, Die, StrangerExits
<1>3. ASSUME NEW p \in Procs, acquire_profile_lock(p) PROVE TypeOK' /\ PhasesOK'
  <2>1. CASE lock = Nobody
    <3>1. TypeOK'
      BY <1>3, <2>1 DEF TypeOK, acquire_profile_lock, Phases
    <3>2. PhasesOK'
      BY <1>3, <2>1 DEF TypeOK, PhasesOK, acquire_profile_lock, LockKinds
    <3> QED BY <3>1, <3>2
  <2>2. CASE lock # Nobody
    BY <1>3, <2>2, GoneKeeps DEF TypeOK, acquire_profile_lock
  <2> QED BY <2>1, <2>2
<1>4. ASSUME NEW p \in Procs, read_entries(p) \/ read_events(p) \/ read_claims(p)
      PROVE TypeOK' /\ PhasesOK'
  <2>1. /\ pc[p] \in ReconPhases /\ lock = p
        /\ \E x \in {"events", "ready", "claims", "close_row"} : pc' = [pc EXCEPT ![p] = x]
        /\ orphans' \subseteq started /\ seen' \subseteq Runs
        /\ UNCHANGED <<kind, run, work, lock, files, cleared, faults>>
    BY <1>4 DEF TypeOK, read_entries, read_events, read_claims,
                orphaned_dispatch_runs, ReconPhases
  <2>2. TypeOK'
    BY <2>1 DEF TypeOK, Phases
  <2>3. PhasesOK'
    BY <2>1 DEF TypeOK, PhasesOK, ReconPhases, JobPhases
  <2> QED BY <2>2, <2>3
<1>5. ASSUME NEW p \in Procs, AppendAbandonedRow(p) \/ AppendClosingEvent(p)
      PROVE TypeOK' /\ PhasesOK'
  <2>1. /\ pc[p] \in ReconPhases /\ lock = p
        /\ \E x \in {"ready", "close_row", "close_event"} : pc' = [pc EXCEPT ![p] = x]
        /\ orphans' \subseteq started /\ finished' \subseteq Runs
        /\ abandoned' \in [Runs -> Nat]
        /\ UNCHANGED <<kind, run, work, lock, claims, started, own, seen, cleared, faults>>
    BY <1>5 DEF TypeOK, AppendAbandonedRow, AppendClosingEvent, ReconPhases
  <2>2. TypeOK'
    BY <2>1 DEF TypeOK, Phases
  <2>3. PhasesOK'
    BY <2>1 DEF TypeOK, PhasesOK, ReconPhases, JobPhases
  <2> QED BY <2>2, <2>3
<1>6. ASSUME NEW p \in Procs, ReconcileFails(p) PROVE TypeOK' /\ PhasesOK'
  <2>1. faults' \in 0..Faults /\ pc[p] \in ReconPhases /\ lock = p
    BY <1>6, FaultsType DEF ReconcileFails, TypeOK
  <2>2. CASE pc[p] = "claims" \/ kind[p] = "loop"
    <3>1. TypeOK'
      BY <1>6, <2>1, <2>2 DEF TypeOK, ReconcileFails, Phases
    <3>2. PhasesOK'
      BY <1>6, <2>1, <2>2 DEF TypeOK, PhasesOK, ReconcileFails, ReconPhases, JobPhases
    <3> QED BY <3>1, <3>2
  <2>3. CASE ~(pc[p] = "claims" \/ kind[p] = "loop")
    BY <1>6, <2>1, <2>3, GoneKeeps DEF TypeOK, ReconcileFails
  <2> QED BY <2>2, <2>3
<1>7. ASSUME NEW p \in Procs, NEW w \in Works, try_claim(p, w) PROVE TypeOK' /\ PhasesOK'
  <2>0. claims' \subseteq Claim
    <3>1. [work |-> w, pid |-> p, manual |-> kind[p] = "manual"] \in Claim
      BY Zenon DEF Claim
    <3> QED BY <1>7, <3>1 DEF TypeOK, try_claim
  <2>1. TypeOK'
    BY <1>7, <2>0 DEF TypeOK, try_claim, Phases, ReconPhases
  <2>2. PhasesOK'
    BY <1>7 DEF TypeOK, PhasesOK, try_claim, MayClaim, JobPhases, LockKinds
  <2> QED BY <2>1, <2>2
<1>8. ASSUME NEW p \in Procs, NEW w \in Works, ClaimRefused(p, w)
      PROVE TypeOK' /\ PhasesOK'
  BY <1>8, GoneKeeps DEF TypeOK, ClaimRefused
<1>9. ASSUME NEW p \in Procs, NextPass(p) PROVE TypeOK' /\ PhasesOK'
  <2>1. TypeOK'
    BY <1>9 DEF TypeOK, PhasesOK, NextPass, Phases, LockKinds
  <2>2. PhasesOK'
    BY <1>9 DEF TypeOK, PhasesOK, NextPass, LockKinds
  <2> QED BY <2>1, <2>2
<1>10. ASSUME NEW p \in Procs, RecordStarted(p) PROVE TypeOK' /\ PhasesOK'
  <2>1. faults' \in 0..Faults
    BY <1>10, FaultsType DEF RecordStarted
  <2>2. /\ pc[p] = "claimed" \/ (kind[p] = "dispatch" /\ pc[p] = "ready")
        /\ UNCHANGED <<kind, work, lock, claims, finished, own, abandoned, seen, orphans, cleared>>
    BY <1>10 DEF RecordStarted
  <2>3. CASE pc' = [pc EXCEPT ![p] = "release"] /\ UNCHANGED <<started, run>>
    <3>1. TypeOK'
      BY <2>1, <2>2, <2>3 DEF TypeOK, Phases, ReconPhases
    <3>2. PhasesOK'
      BY <2>2, <2>3 DEF TypeOK, PhasesOK, JobPhases, LockKinds
    <3> QED BY <3>1, <3>2
  <2>4. ASSUME NEW r \in Runs, pc' = [pc EXCEPT ![p] = "run"],
               started' = started \cup {[run |-> r, work |-> work[p]]},
               run' = [run EXCEPT ![p] = r]
        PROVE TypeOK' /\ PhasesOK'
    <3>1. TypeOK'
      BY <2>1, <2>2, <2>4 DEF TypeOK, Phases, ReconPhases
    <3>2. PhasesOK'
      BY <2>2, <2>4 DEF TypeOK, PhasesOK, JobPhases, LockKinds
    <3> QED BY <3>1, <3>2
  <2> QED BY <1>10, <2>3, <2>4 DEF RecordStarted
<1>11. ASSUME NEW p \in Procs, NEW a \in BOOLEAN, RunEnds(p, a)
       PROVE TypeOK' /\ PhasesOK'
  <2>1. TypeOK'
    BY <1>11 DEF TypeOK, PhasesOK, RunEnds, Phases, ReconPhases
  <2>2. PhasesOK'
    BY <1>11 DEF TypeOK, PhasesOK, RunEnds, JobPhases, LockKinds
  <2> QED BY <2>1, <2>2
<1>12. ASSUME NEW p \in Procs, RecordFinished(p) PROVE TypeOK' /\ PhasesOK'
  <2>1. faults' \in 0..Faults
    BY <1>12, FaultsType DEF RecordFinished
  <2>2. TypeOK'
    BY <1>12, <2>1 DEF TypeOK, PhasesOK, RecordFinished, Phases, ReconPhases
  <2>3. PhasesOK'
    BY <1>12 DEF TypeOK, PhasesOK, RecordFinished, JobPhases, LockKinds
  <2> QED BY <2>2, <2>3
<1>13. ASSUME NEW p \in Procs, release_owned_work(p) PROVE TypeOK' /\ PhasesOK'
  <2>1. claims' \subseteq Claim
    BY <1>13 DEF TypeOK, release_owned_work
  <2>2. CASE kind[p] = "loop"
    <3>1. TypeOK'
      BY <1>13, <2>1, <2>2 DEF TypeOK, PhasesOK, release_owned_work, Phases, LockKinds
    <3>2. PhasesOK'
      BY <1>13, <2>2 DEF TypeOK, PhasesOK, release_owned_work, LockKinds
    <3> QED BY <3>1, <3>2
  <2>3. CASE kind[p] # "loop"
    BY <1>13, <2>1, <2>3, GoneKeeps DEF TypeOK, release_owned_work
  <2> QED BY <2>2, <2>3
<1>14. CASE UNCHANGED vars
  BY <1>14 DEF vars, TypeOK, PhasesOK
<1>15. ASSUME NEW w \in Works, handle_claims_clear(w) PROVE TypeOK' /\ PhasesOK'
  BY <1>15 DEF handle_claims_clear, TypeOK, PhasesOK
<1> QED
  BY <1>1, <1>2, <1>3, <1>4, <1>5, <1>6, <1>7, <1>8, <1>9, <1>10, <1>11, <1>12,
     <1>13, <1>14, <1>15 DEF Next, ReconcileStep, ClaimStep, JobStep

-----------------------------------------------------------------------------
(* A run that is being executed has its start event.                       *)
LEMMA ExecutedRunUsed ==
  ASSUME RunsOK, NEW p \in Procs, run[p] # NoRun PROVE run[p] \in Used
<1>1. [run |-> run[p], work |-> work[p]] \in started
  BY DEF RunsOK
<1>2. [run |-> run[p], work |-> work[p]].run = run[p]
  OBVIOUS
<1> QED BY <1>1, <1>2, Zenon DEF Used

(* A process that ends, or a phase change outside of reconciliation that   *)
(* touches neither the ledger nor the runs, keeps what is known of runs.   *)
LEMMA GoneSafe ==
  ASSUME Inv, TypeOK', NEW p \in Procs, Gone(p),
         UNCHANGED <<started, finished, own, abandoned>>,
         \A c \in claims : c.pid # p => c \in claims'
  PROVE  RunsOK' /\ ManualClaimed' /\ OrphansDead' /\ LedgerRead'
         /\ LiveRunNotAbandoned'
<1> USE DEF Gone, Goto, recon, Inv
<1>1. RunsOK'
  BY DEF RunsOK, TypeOK, HasRow, Used
<1>2. ManualClaimed'
  BY DEF ManualClaimed, TypeOK
<1>3. OrphansDead'
  BY DEF OrphansDead, TypeOK, NoRun, Runs
<1>4. LedgerRead'
  <2>1. CASE UNCHANGED <<seen, orphans>>
    BY <2>1 DEF LedgerRead, TypeOK, HasRow, IsNext
  <2>2. CASE lock = p /\ seen' = {} /\ orphans' = {}
    <3>1. \A q \in Procs : q # p => pc'[q] \notin ReconPhases
      BY <2>2 DEF TypeOK
    <3> QED BY <2>2, <3>1 DEF LedgerRead, TypeOK, ReconPhases
  <2> QED BY <2>1, <2>2
<1>5. LiveRunNotAbandoned'
  BY DEF LiveRunNotAbandoned, TypeOK
<1> QED BY <1>1, <1>2, <1>3, <1>4, <1>5

(* A step of a process that stays outside of reconciliation, and changes   *)
(* neither runs nor ledger, keeps what is known of runs.                   *)
LEMMA QuietStep ==
  ASSUME Inv, TypeOK', NEW p \in Procs, NEW x \in {"start", "entries", "ready", "claimed", "release"},
         pc' = [pc EXCEPT ![p] = x], UNCHANGED <<run, started, finished, own, abandoned>>,
         pc[p] \notin {"run", "record"},
         \/ UNCHANGED recon
         \/ lock = p /\ seen' = {} /\ orphans' = {},
         \A q \in Procs : run[q] # NoRun => work'[q] = work[q], cleared' = cleared
  PROVE  RunsOK' /\ OrphansDead' /\ LedgerRead' /\ LiveRunNotAbandoned'
<1> USE DEF Inv, recon
<1>1. RunsOK'
  BY DEF RunsOK, TypeOK, HasRow, Used
<1>3. OrphansDead'
  BY DEF OrphansDead, TypeOK, NoRun, Runs
<1>4. LedgerRead'
  <2>1. CASE UNCHANGED <<seen, orphans>>
    BY <2>1 DEF LedgerRead, TypeOK, HasRow, IsNext
  <2>2. CASE lock = p /\ seen' = {} /\ orphans' = {}
    <3>1. \A q \in Procs : q # p => pc'[q] \notin ReconPhases
      BY <2>2 DEF TypeOK
    <3> QED BY <2>2, <3>1 DEF LedgerRead, TypeOK, ReconPhases
  <2> QED BY <2>1, <2>2
<1>5. LiveRunNotAbandoned'
  BY DEF LiveRunNotAbandoned, TypeOK
<1> QED BY <1>1, <1>3, <1>4, <1>5

(* The part of the invariant about runs, claims and the ledger is          *)
(* preserved by every step.                                                *)
LEMMA SafetyStep == Inv /\ [Next]_vars => Inv'
<1> DEFINE Known == /\ RunsOK /\ ManualClaimed /\ OrphansDead /\ LedgerRead
                    /\ LiveRunNotAbandoned /\ AtMostOneAbandonedRow
<1> SUFFICES ASSUME Inv, [Next]_vars PROVE Inv'
  OBVIOUS
<1>0. TypeOK' /\ PhasesOK'
  BY TypeStep DEF Inv
<1> USE DEF Goto, files, recon
<1>1. ASSUME NEW p \in Procs, NEW k \in Kinds, Start(p, k) PROVE Known'
  <2>1. RunsOK' /\ OrphansDead' /\ LedgerRead' /\ LiveRunNotAbandoned'
    <3>1. pc[p] = "off"
      BY <1>1 DEF Start, Inv, PhasesOK
    <3> QED BY <1>0, <1>1, <3>1, QuietStep DEF Start
  <2>2. ManualClaimed' /\ AtMostOneAbandonedRow'
    BY <1>1 DEF Start, Inv, TypeOK, ManualClaimed, AtMostOneAbandonedRow, JobPhases
  <2> QED BY <2>1, <2>2
<1>2. ASSUME NEW p \in Procs, Gone(p), UNCHANGED <<started, finished, own, abandoned>>,
             \A c \in claims : c.pid # p => c \in claims'
      PROVE Known'
  BY <1>0, <1>2, GoneSafe DEF Inv, AtMostOneAbandonedRow
<1>3. ASSUME NEW p \in Procs, acquire_profile_lock(p), lock = Nobody PROVE Known'
  <2>1. RunsOK' /\ OrphansDead' /\ LedgerRead' /\ LiveRunNotAbandoned'
    BY <1>0, <1>3, QuietStep DEF acquire_profile_lock
  <2>2. ManualClaimed' /\ AtMostOneAbandonedRow'
    BY <1>3 DEF acquire_profile_lock, Inv, TypeOK, ManualClaimed,
                AtMostOneAbandonedRow, JobPhases
  <2> QED BY <2>1, <2>2
<1>4. ASSUME NEW p \in Procs, read_entries(p) PROVE Known'
  <2>1. lock = p /\ \A q \in Procs : q # p => pc[q] \notin ReconPhases
    BY <1>4 DEF read_entries, Inv, TypeOK, ReconPhases
  <2>2. RunsOK' /\ ManualClaimed' /\ LiveRunNotAbandoned' /\ AtMostOneAbandonedRow'
    BY <1>4 DEF read_entries, Inv, TypeOK, RunsOK, ManualClaimed, HasRow, Used,
                LiveRunNotAbandoned, AtMostOneAbandonedRow, JobPhases
  <2>3. OrphansDead' /\ LedgerRead'
    BY <1>4, <2>1 DEF read_entries, Inv, TypeOK, OrphansDead, LedgerRead, HasRow,
                      ReconPhases
  <2> QED BY <2>2, <2>3
<1>5. ASSUME NEW p \in Procs, read_events(p) PROVE Known'
  <2>1. lock = p /\ \A q \in Procs : q # p => pc[q] \notin ReconPhases
    BY <1>5 DEF read_events, Inv, TypeOK, ReconPhases
  <2>2. RunsOK' /\ ManualClaimed' /\ LiveRunNotAbandoned' /\ AtMostOneAbandonedRow'
    BY <1>5 DEF read_events, Inv, TypeOK, RunsOK, ManualClaimed, HasRow, Used,
                LiveRunNotAbandoned, AtMostOneAbandonedRow, JobPhases
  <2>3. OrphansDead' /\ LedgerRead'
    BY <1>5, <2>1 DEF read_events, orphaned_dispatch_runs, Inv, TypeOK, OrphansDead,
                      LedgerRead, HasRow, ReconPhases
  <2> QED BY <2>2, <2>3
<1>6. ASSUME NEW p \in Procs, read_claims(p) PROVE Known'
  <2>1. lock = p /\ \A q \in Procs : q # p => pc[q] \notin ReconPhases
    BY <1>6 DEF read_claims, Inv, TypeOK, ReconPhases
  <2>2. RunsOK' /\ ManualClaimed' /\ LiveRunNotAbandoned' /\ AtMostOneAbandonedRow'
    BY <1>6 DEF read_claims, Inv, TypeOK, RunsOK, ManualClaimed, HasRow, Used,
                LiveRunNotAbandoned, AtMostOneAbandonedRow, JobPhases
  <2>3. LedgerRead'
    BY <1>6, <2>1 DEF read_claims, Inv, TypeOK, LedgerRead, HasRow, ReconPhases
  <2>4. ASSUME NEW e \in orphans, NEW q \in Procs \ cleared, run[q] = e.run
        PROVE e.work \in live_manual_work_ids
    <3>1. run[q] # NoRun /\ e \in started
      BY <2>4 DEF Inv, TypeOK, Runs, NoRun
    <3>2. pc[q] \in {"run", "record"} /\ [run |-> run[q], work |-> work[q]] \in started
      BY <3>1 DEF Inv, RunsOK
    <3>3. e.work = work[q]
      BY <2>4, <3>1, <3>2 DEF Inv, RunsOK
    <3>4. kind[q] = "manual"
      BY <1>6, <2>1, <3>2 DEF Inv, TypeOK, PhasesOK, Kinds, LockKinds, read_claims
    <3>5. [work |-> work[q], pid |-> q, manual |-> TRUE] \in claims
      BY <3>2, <3>4 DEF Inv, ManualClaimed, JobPhases
    <3> QED BY <3>3, <3>4, <3>5 DEF live_manual_work_ids, is_stale, is_process_alive
  <2>5. OrphansDead'
    BY <1>6, <2>1, <2>4 DEF read_claims, Inv, TypeOK, OrphansDead, ReconPhases
  <2> QED BY <2>2, <2>3, <2>5
<1>7. ASSUME NEW p \in Procs, AppendAbandonedRow(p) PROVE Known'
  <2>1. lock = p /\ \A q \in Procs : q # p => pc[q] \notin ReconPhases
    BY <1>7 DEF AppendAbandonedRow, Inv, TypeOK, ReconPhases
  <2> PICK e \in orphans :
        /\ IsNext(e)
        /\ abandoned' = IF e.run \in seen THEN abandoned
                        ELSE [abandoned EXCEPT ![e.run] = @ + 1]
    BY <1>7 DEF AppendAbandonedRow
  <2>2. /\ pc[p] = "close_row" /\ pc' = [pc EXCEPT ![p] = "close_event"]
        /\ UNCHANGED <<kind, run, work, lock, claims, started, finished, own,
                       seen, orphans, cleared, faults>>
    BY <1>7 DEF AppendAbandonedRow
  <2>3. e.run \in Runs /\ e.run \in Used /\ \A q \in Procs \ cleared : run[q] # e.run
    BY <2>2 DEF Inv, TypeOK, Used, OrphansDead
  <2>4. e.run \notin seen => abandoned[e.run] = 0
    BY <2>2, <2>3 DEF Inv, TypeOK, LedgerRead
  <2>5. \A f \in orphans : IsNext(f) => f = e
    BY DEF Inv, TypeOK, IsNext, RunsOK, Runs
  <2>6. RunsOK' /\ ManualClaimed' /\ OrphansDead'
    BY <2>1, <2>2, <2>3 DEF Inv, TypeOK, RunsOK, ManualClaimed, OrphansDead, HasRow,
                            Used, JobPhases
  <2>7. LiveRunNotAbandoned' /\ AtMostOneAbandonedRow'
    BY <2>2, <2>3, <2>4 DEF Inv, TypeOK, LiveRunNotAbandoned, AtMostOneAbandonedRow
  <2>8. \A r \in Runs : HasRow(r) => HasRow(r)'
    BY <2>2, <2>3 DEF Inv, TypeOK, HasRow
  <2>9. HasRow(e.run)'
    BY <2>2, <2>3, <2>8 DEF Inv, TypeOK, LedgerRead, HasRow
  <2>10. LedgerRead'
    BY <2>1, <2>2, <2>5, <2>8, <2>9 DEF Inv, TypeOK, LedgerRead, ReconPhases, IsNext
  <2> QED BY <2>6, <2>7, <2>10
<1>8. ASSUME NEW p \in Procs, AppendClosingEvent(p) PROVE Known'
  <2>1. lock = p /\ \A q \in Procs : q # p => pc[q] \notin ReconPhases
    BY <1>8 DEF AppendClosingEvent, Inv, TypeOK, ReconPhases
  <2> PICK e \in orphans :
        /\ IsNext(e)
        /\ finished' = finished \cup {e.run}
        /\ orphans' = orphans \ {e}
        /\ pc' = [pc EXCEPT ![p] = IF orphans = {e} THEN "ready" ELSE "close_row"]
    BY <1>8 DEF AppendClosingEvent
  <2>2. /\ pc[p] = "close_event"
        /\ UNCHANGED <<kind, run, work, lock, claims, started, own, abandoned, seen, cleared, faults>>
    BY <1>8 DEF AppendClosingEvent
  <2>3. e.run \in Runs /\ e.run \in Used /\ \A q \in Procs \ cleared : run[q] # e.run
    BY <2>2 DEF Inv, TypeOK, Used, OrphansDead
  <2>4. \A f \in orphans : IsNext(f) => f = e
    BY DEF Inv, TypeOK, IsNext, RunsOK, Runs
  <2>5. RunsOK' /\ ManualClaimed' /\ OrphansDead'
    BY <2>1, <2>2, <2>3 DEF Inv, TypeOK, RunsOK, ManualClaimed, OrphansDead, HasRow,
                            Used, JobPhases
  <2>6. LiveRunNotAbandoned' /\ AtMostOneAbandonedRow'
    BY <2>2, <2>3 DEF Inv, TypeOK, LiveRunNotAbandoned, AtMostOneAbandonedRow
  <2>7. LedgerRead'
    BY <2>1, <2>2, <2>4 DEF Inv, TypeOK, LedgerRead, ReconPhases, HasRow
  <2> QED BY <2>5, <2>6, <2>7
<1>9. ASSUME NEW p \in Procs, ReconcileFails(p), pc[p] = "claims" \/ kind[p] = "loop"
      PROVE Known'
  <2>1. lock = p /\ pc[p] \in ReconPhases
    BY <1>9 DEF ReconcileFails, Inv, TypeOK
  <2>2. RunsOK' /\ OrphansDead' /\ LedgerRead' /\ LiveRunNotAbandoned'
    BY <1>0, <1>9, <2>1, QuietStep DEF ReconcileFails, ReconPhases
  <2>3. ManualClaimed' /\ AtMostOneAbandonedRow'
    BY <1>9, <2>1 DEF ReconcileFails, Inv, TypeOK, ManualClaimed,
                      AtMostOneAbandonedRow, JobPhases, ReconPhases
  <2> QED BY <2>2, <2>3
<1>10. ASSUME NEW p \in Procs, NEW w \in Works, try_claim(p, w) PROVE Known'
  <2>1. pc[p] \in {"ready", "start"} /\ run[p] = NoRun
    BY <1>10 DEF try_claim, MayClaim, Inv, RunsOK
  <2>2. RunsOK' /\ OrphansDead' /\ LedgerRead' /\ LiveRunNotAbandoned'
    <3>1. \A q \in Procs : run[q] # NoRun => work'[q] = work[q]
      BY <1>10, <2>1 DEF try_claim, Inv, TypeOK
    <3> QED BY <1>0, <1>10, <2>1, <3>1, QuietStep DEF try_claim
  <2>3. ASSUME NEW q \in Procs, kind'[q] = "manual", pc'[q] \in JobPhases, q \notin cleared'
        PROVE [work |-> work'[q], pid |-> q, manual |-> TRUE] \in claims'
    <3>1. CASE q = p
      <4>1. kind[p] = "manual" /\ work'[p] = w
        BY <1>10, <2>3, <3>1 DEF try_claim, Inv, TypeOK
      <4>2. [work |-> w, pid |-> p, manual |-> kind[p] = "manual"] \in claims'
        BY <1>10, Zenon DEF try_claim
      <4>3. [work |-> w, pid |-> p, manual |-> kind[p] = "manual"]
              = [work |-> w, pid |-> p, manual |-> TRUE]
        BY <4>1, Zenon
      <4>4. [work |-> w, pid |-> p, manual |-> TRUE] \in claims'
        BY <4>2, <4>3, Zenon
      <4> QED BY <3>1, <4>1, <4>4
    <3>2. CASE q # p
      <4>1. kind[q] = "manual" /\ pc[q] \in JobPhases /\ q \notin cleared /\ work'[q] = work[q]
        BY <1>10, <2>3, <3>2 DEF try_claim, Inv, TypeOK
      <4>2. [work |-> work[q], pid |-> q, manual |-> TRUE] \in claims
        BY <4>1 DEF Inv, ManualClaimed
      <4>3. work[q] # w
        BY <1>10, <4>1, <4>2 DEF try_claim, is_stale, is_process_alive
      <4>4. {c \in claims : c.work # w} \subseteq claims'
        BY <1>10, Zenon DEF try_claim
      <4> QED BY <4>1, <4>2, <4>3, <4>4
    <3> QED BY <3>1, <3>2
  <2>4. ManualClaimed' /\ AtMostOneAbandonedRow'
    BY <1>10, <2>3 DEF try_claim, Inv, ManualClaimed, AtMostOneAbandonedRow
  <2> QED BY <2>2, <2>4
<1>11. ASSUME NEW p \in Procs, NextPass(p) PROVE Known'
  <2>1. RunsOK' /\ OrphansDead' /\ LedgerRead' /\ LiveRunNotAbandoned'
    BY <1>0, <1>11, QuietStep DEF NextPass
  <2>2. ManualClaimed' /\ AtMostOneAbandonedRow'
    BY <1>11 DEF NextPass, Inv, TypeOK, ManualClaimed, AtMostOneAbandonedRow, JobPhases
  <2> QED BY <2>1, <2>2
<1>12. ASSUME NEW p \in Procs, RecordStarted(p) PROVE Known'
  <2>1. /\ pc[p] = "claimed" \/ (kind[p] = "dispatch" /\ pc[p] = "ready")
        /\ UNCHANGED <<kind, work, lock, claims, finished, own, abandoned, seen, orphans, cleared>>
    BY <1>12 DEF RecordStarted
  <2>2. AtMostOneAbandonedRow'
    BY <2>1 DEF Inv, AtMostOneAbandonedRow
  <2>3. CASE pc' = [pc EXCEPT ![p] = "release"] /\ UNCHANGED <<started, run>>
    <3>1. RunsOK' /\ OrphansDead' /\ LedgerRead' /\ LiveRunNotAbandoned'
      BY <1>0, <2>1, <2>3, QuietStep
    <3>2. ManualClaimed'
      BY <2>1, <2>3 DEF Inv, TypeOK, ManualClaimed, JobPhases
    <3> QED BY <2>2, <3>1, <3>2
  <2>4. ASSUME NEW r \in Runs, Fresh(r), pc' = [pc EXCEPT ![p] = "run"],
               started' = started \cup {[run |-> r, work |-> work[p]]},
               run' = [run EXCEPT ![p] = r]
        PROVE Known'
    <3>1. r \notin Used /\ r \notin finished /\ ~HasRow(r)
      BY <2>4 DEF Fresh, Inv, RunsOK
    <3>2. \A q \in Procs : run[q] # NoRun => run[q] \in Used
      BY ExecutedRunUsed DEF Inv
    <3>3. \A q \in Procs : run'[q] # NoRun =>
            /\ pc'[q] \in {"run", "record"}
            /\ [run |-> run'[q], work |-> work'[q]] \in started'
      BY <2>1, <2>4 DEF Inv, TypeOK, RunsOK
    <3>4. \A q, o \in Procs : run'[q] # NoRun /\ run'[q] = run'[o] => q = o
      BY <2>4, <3>1, <3>2 DEF Inv, TypeOK, RunsOK, Runs, NoRun
    <3>5. \A e, f \in started' : e.run = f.run => e = f
      BY <2>4, <3>1 DEF Inv, RunsOK, Used
    <3>6. Used \subseteq Used'
      BY <2>4 DEF Used
    <3>7. \A q \in Runs : q \in finished' \/ HasRow(q)' => q \in Used'
      BY <2>1, <3>6 DEF Inv, RunsOK, HasRow
    <3>8. RunsOK'
      BY <3>3, <3>4, <3>5, <3>7 DEF RunsOK
    <3>9. ManualClaimed'
      BY <2>1, <2>4 DEF Inv, TypeOK, ManualClaimed, JobPhases
    <3>10. OrphansDead'
      <4>1. \A e \in orphans : e.run \in Used
        BY DEF Inv, TypeOK, Used
      <4> QED BY <2>1, <2>4, <3>1, <4>1 DEF Inv, TypeOK, OrphansDead
    <3>11. LedgerRead'
      BY <2>1, <2>4 DEF Inv, TypeOK, LedgerRead, HasRow, IsNext
    <3>12. LiveRunNotAbandoned'
      BY <2>1, <2>4, <3>1 DEF Inv, TypeOK, LiveRunNotAbandoned, HasRow
    <3> QED BY <2>2, <3>8, <3>9, <3>10, <3>11, <3>12
  <2> QED BY <1>12, <2>3, <2>4 DEF RecordStarted
<1>13. ASSUME NEW p \in Procs, NEW a \in BOOLEAN, RunEnds(p, a) PROVE Known'
  <2>1. run[p] \in Runs /\ run[p] # NoRun /\ run[p] \in Used
    BY <1>13, ExecutedRunUsed DEF RunEnds, Inv, PhasesOK, Runs, NoRun
  <2>2. \A r \in Runs : HasRow(r) => HasRow(r)'
    BY <1>13 DEF RunEnds, HasRow
  <2>3. RunsOK' /\ ManualClaimed' /\ OrphansDead'
    BY <1>13, <2>1 DEF RunEnds, Inv, TypeOK, RunsOK, ManualClaimed, OrphansDead,
                       HasRow, Used, JobPhases
  <2>4. LedgerRead'
    BY <1>13, <2>2 DEF RunEnds, Inv, TypeOK, LedgerRead, IsNext
  <2>5. LiveRunNotAbandoned' /\ AtMostOneAbandonedRow'
    BY <1>13 DEF RunEnds, Inv, TypeOK, LiveRunNotAbandoned, AtMostOneAbandonedRow
  <2> QED BY <2>3, <2>4, <2>5
<1>14. ASSUME NEW p \in Procs, RecordFinished(p) PROVE Known'
  <2>1. run[p] \in Runs /\ run[p] # NoRun /\ run[p] \in Used
    BY <1>14, ExecutedRunUsed DEF RecordFinished, Inv, PhasesOK, Runs, NoRun
  <2>2. RunsOK' /\ ManualClaimed' /\ OrphansDead'
    BY <1>14, <2>1 DEF RecordFinished, Inv, TypeOK, RunsOK, ManualClaimed, OrphansDead,
                       HasRow, Used, JobPhases, Runs, NoRun
  <2>3. LedgerRead'
    BY <1>14 DEF RecordFinished, Inv, TypeOK, LedgerRead, HasRow, IsNext
  <2>4. LiveRunNotAbandoned' /\ AtMostOneAbandonedRow'
    BY <1>14, <2>1 DEF RecordFinished, Inv, TypeOK, RunsOK, LiveRunNotAbandoned,
                       AtMostOneAbandonedRow
  <2> QED BY <2>2, <2>3, <2>4
<1>15. ASSUME NEW p \in Procs, release_owned_work(p), kind[p] = "loop" PROVE Known'
  <2>1. run[p] = NoRun
    BY <1>15 DEF release_owned_work, Inv, RunsOK
  <2>2. RunsOK' /\ OrphansDead' /\ LedgerRead' /\ LiveRunNotAbandoned'
    <3>1. \A q \in Procs : run[q] # NoRun => work'[q] = work[q]
      BY <1>15, <2>1 DEF release_owned_work, Inv, TypeOK
    <3> QED BY <1>0, <1>15, <3>1, QuietStep DEF release_owned_work
  <2>3. ManualClaimed' /\ AtMostOneAbandonedRow'
    BY <1>15 DEF release_owned_work, Inv, TypeOK, ManualClaimed, AtMostOneAbandonedRow
  <2> QED BY <2>2, <2>3
<1>16. ASSUME UNCHANGED vars PROVE Known'
  BY <1>16 DEF vars, Inv, TypeOK, RunsOK, ManualClaimed, OrphansDead, LedgerRead, HasRow,
               Used, IsNext, LiveRunNotAbandoned, AtMostOneAbandonedRow
<1>18. ASSUME NEW w \in Works, handle_claims_clear(w) PROVE Known'
  <2>1. /\ UNCHANGED <<kind, pc, run, work, lock, started, finished, own, abandoned, seen, orphans>>
        /\ cleared \subseteq cleared' /\ claims' = {c \in claims : c.work # w}
    BY <1>18 DEF handle_claims_clear
  <2>2. RunsOK' /\ LedgerRead' /\ AtMostOneAbandonedRow'
    BY <2>1 DEF Inv, RunsOK, LedgerRead, HasRow, Used, IsNext, AtMostOneAbandonedRow
  <2>3. OrphansDead' /\ LiveRunNotAbandoned'
    BY <2>1 DEF Inv, OrphansDead, LiveRunNotAbandoned
  <2>4. ASSUME NEW p \in Procs, kind[p] = "manual", pc[p] \in JobPhases, p \notin cleared'
        PROVE  [work |-> work[p], pid |-> p, manual |-> TRUE] \in claims'
    <3>1. [work |-> work[p], pid |-> p, manual |-> TRUE] \in claims
      BY <2>1, <2>4 DEF Inv, ManualClaimed
    <3>2. work[p] # w
      BY <1>18, <2>4, <3>1 DEF handle_claims_clear
    <3> QED BY <2>1, <3>1, <3>2
  <2>5. ManualClaimed'
    BY <2>1, <2>4 DEF ManualClaimed
  <2> QED BY <2>2, <2>3, <2>5
<1>17. Known'
  <2>1. ASSUME NEW p \in Procs, Die(p) \/ StrangerExits(p) PROVE Known'
    BY <1>2, <2>1 DEF Die, StrangerExits
  <2>2. ASSUME NEW p \in Procs, acquire_profile_lock(p) PROVE Known'
    BY <1>2, <1>3, <2>2 DEF acquire_profile_lock
  <2>3. ASSUME NEW p \in Procs, ReconcileFails(p) PROVE Known'
    BY <1>2, <1>9, <2>3 DEF ReconcileFails
  <2>4. ASSUME NEW p \in Procs, NEW w \in Works, ClaimRefused(p, w) PROVE Known'
    BY <1>2, <2>4 DEF ClaimRefused
  <2>5. ASSUME NEW p \in Procs, release_owned_work(p) PROVE Known'
    BY <1>2, <1>15, <2>5 DEF release_owned_work
  <2> QED
    BY <1>1, <1>4, <1>5, <1>6, <1>7, <1>8, <1>10, <1>11, <1>12, <1>13, <1>14, <1>16,
       <1>18, <2>1, <2>2, <2>3, <2>4, <2>5 DEF Next, ReconcileStep, ClaimStep, JobStep
<1> QED
  BY <1>0, <1>17 DEF Inv

(* The invariant holds initially.                                          *)
LEMMA InvInit == Init => Inv
BY DEF Init, Inv, TypeOK, PhasesOK, RunsOK, ManualClaimed, OrphansDead, LedgerRead,
       LiveRunNotAbandoned, AtMostOneAbandonedRow, HasRow, Used, IsNext, Runs, NoRun,
       Kinds, LockKinds, Phases, ReconPhases, JobPhases, Claim

-----------------------------------------------------------------------------
(* The files, the lock and the processes keep their types, and only the    *)
(* holder of the profile lock is ever inside a reconciliation.             *)
THEOREM RecoveryTypes == Spec => []TypeOK
<1>1. Inv => TypeOK
  BY DEF Inv
<1> QED
  BY <1>1, InvInit, SafetyStep, PTL DEF Spec

(* Reconciliation never closes a run whose process still executes it,      *)
(* unless the operator cleared the claim of that manual worker, and writes *)
(* at most one "abandoned" row for a run however often it is interrupted,  *)
(* for any number of processes, runs and faults.                           *)
THEOREM RecoverySafety == Spec => [](LiveRunNotAbandoned /\ AtMostOneAbandonedRow)
<1>1. Inv => LiveRunNotAbandoned /\ AtMostOneAbandonedRow
  BY DEF Inv
<1> QED
  BY <1>1, InvInit, SafetyStep, PTL DEF Spec

(* Whenever reconciliation appends a closing event, the run it closes has  *)
(* a ledger row already.                                                   *)
THEOREM ClosedOrphansInLedger == Spec => ClosedOrphanHasRow
<1>1. Inv /\ [Next]_vars =>
        [\A p \in Procs, e \in orphans :
           AppendClosingEvent(p) /\ IsNext(e) => HasRow(e.run)]_vars
  BY DEF Inv, LedgerRead, AppendClosingEvent
<1> QED
  BY <1>1, InvInit, SafetyStep, PTL DEF Spec, ClosedOrphanHasRow
=============================================================================
