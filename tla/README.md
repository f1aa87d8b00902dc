# TLA+ models of Parasaur (git-agent-harness)

Parasaur (`gah`) runs coding agents against repositories from several kinds of
processes at once: controller loops, manual workers, plain dispatches, updates,
other machines. Almost everything that can go wrong *between* those processes
is a question of **who owns a piece of work, and who decides that an owner is
dead**. The models start with those layers, because every other part of the
system relies on them, and go on to the parts that place and run work: the
loop's parallel batches, the server's session queue, fleet dispatch with the
GitLab event queue, and the approvals a run needs.

Paths below are relative to the repository (`src/work_claim.rs`,
`apps/server/src/...`).

## 1. Inventory

| Component | State | Operations | Talks to | Hard part |
|---|---|---|---|---|
| Node claim file (`src/work_claim.rs`, `cli/commands/claims.rs`) | JSON list of claims: scope, work id, host, pid, manual flag, time | claim, release, migrate V1, clear, reclaim | loops, manual workers, updates | reused pids, spellings of one id, another host's pids, operator commands on a live job |
| Admission and maintenance lock (`src/agents/state.rs`, `agents.rs`, `update.rs`) | one flock, shared or exclusive | admit, lock, idle check, install | claim file | order of lock, check and claim |
| Provider issue claim (`src/dispatch/issue_claim.rs`) | assignees and claim comments on GitHub; lease deadline in memory | stake, settle, renew, confirm, publish check | GitHub, people | non-atomic views, calls that fail after landing, crashes, deadlines |
| Run recovery (`src/controller/recovery.rs`, `events.rs`, `runtime/profile_lock.rs`) | event stream, ledger, profile lock | start, run, record, reconcile | claim file, ledger | three files read one after another, death between two appends |
| Central leases (`apps/server/src/claimsService.ts`, `src/central_claims.rs`) | lease map, its file, a renewal thread per dispatch | acquire, renew, release, sweep, load | HTTP between nodes | timeouts, late requests, failed saves, restarts |
| Ledger claims (`src/dispatch/claims.rs`) | claim rows folded over the ledger | duplicate check, append | ledger, central leases | check and append without a lock |
| Parallel batch and node capacity (`controller/runtime.rs`, `runtime/admission.rs`, `node_reprobe.rs`, `node_capacity.rs`) | scheduler, worker threads, locked lease files | fill, admit, defer, probe, refill, shut down | claim file, route slots, other controllers | waiting on each other, leases of threads that gave up, items given back |
| Controller decision (`src/controller/decision.rs`, `remediation.rs`) | none; folds MRs, tickets, ledger | next action | everything | loops of repeated actions |
| Routing, reservation, availability (`src/routing/`, `src/availability.rs`, `quota_store.rs`) | quota snapshots, cooldowns, route slots | choose a backend, reserve, cool down | ledger | stale snapshots, double reservation |
| External approvals (`src/ledger/approvals.rs`, `dispatch/external_approval_pause.rs`) | ledger rows folded into scopes, a hold on the item | request, grant, revoke, deny, inject, charge, pause, complete | operators, dispatch | rows appended from reads that are old |
| Dispatch workflows (`src/dispatch/`) | worktree, attempts | attempt, validate, publish | all claim layers | one step of several failing |
| Worktrees, runner, watchdog (`src/worktree.rs`, `runner/`, `watchdog.rs`) | directories, child processes | create, prune, kill, restart | dispatch | late output, kill races |
| Agent sessions (`apps/server/src/sessions/`, `gahCli.ts`) | a promise chain per profile, processes | start, stop, cancel, complete, clean up | fleet dispatch, processes | a stop while queued, a kill that is late or in vain |
| Fleet dispatch (`apps/server/src/fleetDispatch.ts`, `wsServer.ts`) | leases in memory and in a file, pending starts, sockets | start, join, reconcile, record, pin, release | nodes, sessions | starts that race, answers that are late or of another, stale write-back |
| GitLab event queue (`apps/server/src/integrations/gitlab/`) | event store: pending, dead letters, acknowledged | enqueue, replay, retry, recover, release | fleet dispatch, provider | a crash between reservation and outcome, two files |
| Registry, mutation safety (`apps/server/src/`) | node table, idempotency keys | heartbeat, replay | nodes | retries, lost answers |
| Manager chat (`apps/server/src/`) | chat sessions | send, hand off | providers | concurrent turns |
| Web, desktop, mobile apps; installer; provider adapters; reports | none of their own | | | sequential or pure I/O |

What makes the claim layers correct:

* one live owner per item, in each layer, under every spelling of its id;
* an owner that lives is not declared dead, an owner that died is, in the end;
* what a dead owner left open is closed once and in every durable record;
* a person's assignment beats every loop and is never undone by one;
* updates do not replace an agent CLI under a running job.

And the parts above them:

* work runs once, however many requests ask for it and wherever;
* what was accepted is not lost and not tried beyond its budget;
* running work fits the node, and whoever waits is answered;
* a stopped session does not start, a queued one does;
* a credential is used only under a grant in force, within its cap.

`PROJECT.json` lists the hazards at their lines and the property for each.

## 2. Plan

Done, in this order: `WorkClaims`, `IssueClaim`, `RunRecovery`,
`CentralClaims`; `ExclusiveClaim`, the abstract specification the three claim
layers implement; `SessionQueue`; `FleetDispatch` and `GitLabEvents` over it;
`ParallelLoop`; `Approvals`; then the proofs of section 5, which cover every
safety property that a passing run checks.

Left:

1. `LedgerClaims` (`dispatch/claims.rs`), the ledger fold and the window of the
   duplicate check; `Reservation` with availability and quota snapshots;
   `MutationSafety`; the node registry.
2. `DispatchLifecycle`: claims, runs, worktree and publication composed.

## 3. Modules

| Module | What it is |
|---|---|
| `WorkClaims`, `MCWorkClaims`, `WorkClaimsProofs` | node claim file, jobs, operator commands, updates |
| `IssueClaim`, `MCIssueClaim`, `IssueClaimProofs` | provider claim protocol on one issue or pull request |
| `RunRecovery`, `MCRunRecovery`, `RunRecoveryProofs` | event stream, ledger and reconciliation of dead runs |
| `CentralClaims`, `MCCentralClaims`, `CentralClaimsProofs` | lease server and its clients on one item |
| `ExclusiveClaim` | what each claim layer promises: one entitled owner at a time |
| `SessionQueue`, `MCSessionQueue`, `SessionQueueProofs` | the session queue of a profile and its processes |
| `FleetDispatch` | the coordinator that places work on nodes |
| `GitLabEvents`, `MCGitLabEvents`, `GitLabEventsProofs` | the event queue, composed with `FleetDispatch` |
| `ParallelLoop`, `MCParallelLoop`, `ParallelLoopProofs` | a parallel batch of the loop, node capacity, route slots |
| `Approvals`, `MCApprovals`, `ApprovalsProofs` | external approvals of one item, operator and dispatch |

Definitions keep the names of the functions they model; the map in
`PROJECT.json` gives the lines. Definitions marked "Mutant" are deliberately
wrong variants of the definition that follows them; no specification uses one.

### WorkClaims

`claims` is the file, `role` what each process id of each host runs, `attempts`
the jobs between `dispatch_admission` and their claim, `running` the jobs,
`disowned` those whose claim an operator removed, `maint` the exclusive side of
the admission lock. Every operation on the file holds its flock from read to
rename and is one step. Admission, claim, idle check and installation are
separate steps, and a process may exit between any two. A process id is reused
as soon as it is free, by any kind of process, also by one that has nothing to
do with gah. Work ids are records of spelling and number, and normalization is
a function on them; a V1 file may hold several spellings of one item.

### IssueClaim

`assignees`, `claims` and `prOpen` are the item on the provider; `claims` keeps
the latest claim comment of each login in the order of the comment ids. Each
`gh` call is one step, so a view is two steps and what it read first (`snap`)
may be old. `el` is the time since the operation read its clock (the code takes
`now` once). A failing call may or may not have been applied. Time is kept as
ages and remaining budgets that saturate, so the state space is finite while
behaviours are not. `MaxDelay` bounds the time a stake or settle takes; the
code does not enforce such a bound, and exclusion needs it to be shorter than
the verify window.

People assign and remove themselves and, for the loops in `Managed`, a loop's
login (`HandAssign`, `HandUnassign`). The code reads the assignees in `settle`
and in every renewal, so a loop that lost its login by hand stops then, not at
once, and a loop that is assigned again by hand while its comment is live wins
the item back. `touched` remembers the loops whose login a person changed since
they last assigned themselves; `LeaseExclusion` and `ImplementsClaim` speak of
the other loops (`Rightful`). A loop outside `Steady` may die at any step, and
nothing starts it again (`packaging/systemd/gah-loop@.service` has
`Restart=no`); a `Steady` loop stays up and comes back after every dispatch.

### RunRecovery

`started` and `finished` are the event stream, `own` and `abandoned` the ledger
rows, `claims` the claim file (by process id), `lock` the profile lock. A
reconciliation is four or more steps: `read_entries`, `read_events`,
`read_claims`, then a row and a closing event for each orphan. A process may
die between any two, an append may fail. `gah claims clear` removes the claim of
a manual worker at any moment and looks at nothing (`handle_claims_clear`); the
history variable `cleared` remembers those workers, whose runs
`LiveRunNotAbandoned` excepts: reconciliation takes such a run for dead while it
still executes. `gah claims reclaim` is left out here, since it removes only
claims that are stale.

### CentralClaims

`mem` and `disk` are the lease in the server's map and in its file, `pc` and
`wait` the call a node has in flight or its renewal's sleep, `answer` what the
server answered, `since` the age of a node's last successful call, `late` the
requests whose client gave up. Handlers are synchronous and one step each; a
call is three. `save` may fail after the map changed, the server may restart
from its file. `LateOps` says which calls may be handled late.

### ExclusiveClaim and its implementations

`holders` gives for each item the owners with authority over it. An owner takes
an item nobody holds (`Take`); any set of items may be lost at once (`Lose`: a
process dies, a lease lapses, an operator clears a claim). `WorkClaims`,
`IssueClaim` and `CentralClaims` each instantiate it (`Authority`) with what
counts as authority in their layer: a running job whose claim was not taken
away, a lease before its deadline (`ensure_held`) of a loop whose login nobody
changed by hand, a dispatch whose last
successful call is younger than the lease. `ImplementsClaim` says more than the
exclusion invariants: no step hands an item from one owner to another.

### SessionQueue

`previous` and `released` are the promise chain of a profile, `tail` the entry
of `profileDispatchTails`, `proc` the process tree of a session, `killing` the
stops that wait for `terminateProcessTree`. One step is one turn of the event loop;
`Quiet` makes pending microtasks come first. There are
three ways in which the code gives up the order of the queue: stopping the last
queued session deletes the map's entry, so that the next session waits for
nobody (`dropped`); a kill that is not confirmed releases the slot all the same
(`unkilled`); and the close of the direct `gah` child settles the promise and
releases the slot while the rest of its tree may run on, also while
`terminateProcessTree` still waits for the process group (`proc` is `"left"`).
What is left may be outside the group, as backends are (`setpgid` in
`runner/process.rs`), so a confirmed kill does not exclude it either.

### FleetDispatch and GitLabEvents

`leases` and `disk` are the lease store, `call` what each caller of the
coordinator awaits, `wire` the starts a remote node has not handled, `conn` the
sessions a transport with an open socket takes for running. What a caller does
between two awaits is one step: the promises of `pendingStarts` and
`pendingWorkStarts` are callers that have `joined` another. `reconcileLeases`
reads the leases (`Reconciles`), waits for the nodes it has to probe (`Probed`),
and then writes the leases back in one turn of the event loop, one file write
each (`ReconcileLease`), which ends with the cleanup and what `startSessionFresh`
does with the result (`reconcileLeases`). Nothing but a crash comes between the
writes of a turn (`Quiet`): a restart then finds some of the leases written and
others not. The sockets of a remote node that restarts close one by one
(`SocketCloses`). An upsert of several requests with one record, as the pins of
joined callers are, is one application of `Upsert` to their set. `mishap` is a history variable: it is set when the coordinator
loses sight of a session in a way the code cannot notice (the comment at its
declaration lists them); the properties that except such histories say so.

`GitLabEvents` extends it. `pending`, `deadLetters`, `acknowledged` and
`accepted` are the event store, whose writes are atomic and may fail; `current`
is the event the replay works on. Events and people are callers of the same
coordinator. Time is whether an entry's `retryAt` has passed.

### ParallelLoop

`sched`, `fill`, `suppressed`, `alternatives`, `executed`, `reprobe` and
`active` are the local variables of `run_parallel_once`; `w` are its worker
threads, `leases` those with a lock on a node capacity lease, `other` a worker
of another controller. Each item needs one or two actions, the last of which may
be a merge, so that follow-ups and lifecycle workers occur. The answer to an
admission request and its receipt are two steps. Whatever the node's pressure,
a request that fits may still be deferred. The reading of the claims and the
launch of a worker are one step; the release of a claim and the sending of the
result are one. Only an item with a work_id (`Tracked`) is ever excluded,
claimed or recorded as executed: `work_id` is an `Option`, and
`retain_unclaimed_work` keeps a merge request without one whatever runs, so that
two slots of a batch may take it up at once. The event of a node deferral may
fail to be appended (`DeferralUnrecorded`): the worker then ends as an error
while its action waits in `NodeCapacityReprobe`, and the next probe takes it up
again in spite of `refill_suppressed`. Attempts that can no longer be read
(after a shutdown, or once the refill is suppressed) are dropped to keep the
state space small.

### Approvals

`scope` is what `scope_states_from_entries` makes of the ledger: one record per
credential label and operation, changed by each appended row exactly as the
fold does. `run` is the dispatch in flight, whose every read and every append is
a step; operator commands, which validate and append under the ledger lock, are
one step each and come between any two. `hold` is the gate that keeps the item
from being selected. `launched`, `unpaid`, `lost` and `fresh` are history
variables for the properties.

What happens to a gap and to an attempt depends on the workflow (`run.mode`).
Improve and fix pause for a gap and hold the item; research and experiment take
it for an error of the backend; a review filters its environment and looks for
no gap. A charge follows an attempt on most paths (`BackendEnds`).
`AttemptUncharged` has the others, none of which is a fault: the success
of a profile without validation commands and contract (`improve.rs:1038`), a
validation timeout (1160), a graceful cancel (513), a conflict retry or terminal
conflict (844), and every attempt of research and experiment, whose entry lists
no attempts (`attempts.rs:248`). Which of them an improve dispatch takes is a
choice of the model. `CapHolds` and `SpentAfterSuccess` say what is left of the
cap and of the completion then: uncharged attempts are beyond the cap, and a
dispatch that charged nothing leaves its grant usable. That one dispatch of the
item runs at a time is assumed; a plain `gah dispatch` takes no claim
(`WorkClaims`), and two of them could each read the same count.

## 4. Runs

| Run | Expected | Shows |
|---|---|---|
| `claims_node` | pass | one host: `OwnedClaimUnique`, `JobExclusion`, `InstallExcludesClaimedJobs`, `ImplementsClaim` |
| `claims_hosts` | pass | two hosts: `ManualClaimNotTakenEarly` |
| `issue_claim` | pass | `LeaseExclusion`, `DeadlineWithinClaim`, `PersonTakesOver`, `PersonNeverRemoved`, `ImplementsClaim` |
| `issue_liveness` | pass | `AlwaysTakenAgain` |
| `recovery` | pass | `LiveRunNotAbandoned`, `AtMostOneAbandonedRow`, `ClosedOrphanHasRow`, `DeadRunsAreClosed` |
| `central` | pass | `FreshLeaseExclusive`, `WarnedInTime`, `ImplementsClaim`, `DeadNodeLapses` |
| `sessions` | pass | `SerializedUnlessCancelled`, `StoppedNeverStarts`, `EveryTurnComes` |
| `events` | pass | `OneSessionPerWork`, `NoEventSkipped`, `BudgetSurvives`, `NoPinLeft`, `ReceiptKept` |
| `events_liveness` | pass | `EventsSettle` |
| `parallel` | pass | `WithinBudget`, `OneWorkerPerItem`, `FailedNotRetried`, `BatchEnds` |
| `approvals` | pass | `CapHolds`, `ActiveOnlyByGrant`, `SpentAfterSuccess` |
| `approvals_grant` | violation | a grant that comes before the hold's row does not free the item |

`approvals_grant` checks a sentence of `docs/EXTERNAL_APPROVALS.md`, "A grant
makes the work item eligible for the next loop cycle". A paused dispatch raises
its requests and notifies the operator, and appends the row that holds the item
when it ends. A grant in between lies before that row, and only a later grant
lifts a hold; the scope is no longer pending, so a second grant is refused.

### Stated, and refuted by the code

These formulas read a sentence of the code's comments literally. TLC refutes
them when they are added to the `.cfg` named; they are kept because they mark
where the code stops short of what it says.

| Formula | Checked in | Why it fails |
|---|---|---|
| `RemoteClaimNotTakenEarly` | `WorkClaims_hosts.cfg` | `WorkClaim::is_stale` looks at the process id before the host: on a claim file shared by hosts, a loop's claim is stale wherever its id is free. |
| `NoJobDuringMaintenance` | `WorkClaims_node.cfg` | `gah update` takes the exclusive lock and looks at no claims; a plain `gah dispatch` takes neither lock nor claim. |
| `DeadLoopsLapse` | `IssueClaim_liveness.cfg`, `TargetKind = "pull_request"`, `Faults = 1` | "a loop that crashes stops renewing, and its claim lapses" (`IssueLease`). `stake` assigns, then posts. A loop that dies in between leaves an assignee without a comment, which other loops take for a hand assignment: the item is blocked until a person removes it. `AlwaysTakenAgain` excepts this case. |
| `AlwaysTakenAgain` | `IssueClaim_liveness.cfg`, `Managed = {a, b}`, `Steady = {a, b}` | two loops that are each assigned without a comment, for instance both by hand, take each other for a person and wait for ever. |
| `AlwaysTakenAgain` without its second disjunct | `IssueClaim_liveness.cfg` | the same as `DeadLoopsLapse`. |
| `LeaseExclusion` with `ensure_held` for `Rightful` | `IssueClaim.cfg` | a person removes the login of a loop that holds the item; another loop stakes and settles before the first one's next renewal. |
| `LeaseExclusion` | `IssueClaim.cfg`, `QuickRetry = TRUE` | `stake` returns at once when the live claim it sees is its own: a loop restarted within the verify window skips the rest of it. `issue_claim` assumes a pause of the window after a failure. |
| `LeaseExclusion` | `IssueClaim.cfg`, `MaxDelay = 2` | the verify window is shorter than a slow stake: one loop reads the issue before the other's claim is there, the other settles, and only then the first one's assignment and comment arrive. |
| `NoLiveRunAbandoned` | `RunRecovery.cfg` | `gah claims clear` removes the claim of a manual worker that runs, and reconciliation then closes its run. |
| `FreshLeaseExclusive` | `CentralClaims.cfg`, `"release"` in `LateOps` | a release carries only the node's id: handled after its client gave up and acquired again, it removes the new lease. |
| `ProfileSerialized` | `SessionQueue.cfg` | see `SessionQueue` above; `SerializedUnlessCancelled` shows that there is no fourth way. |
| `NoItemShared` | `ParallelLoop.cfg` | an item without a work_id is neither excluded nor claimed. |
| `ErrorStaysExcluded` | `ParallelLoop.cfg` | "Errors [...] stay excluded" (`has_follow_up_in_batch`): not the action of a worker whose deferral could not be recorded. |
| `CounterComplete` | `Approvals.cfg` | "The counter records completed backend attempts, including failed attempts" (`docs/EXTERNAL_APPROVALS.md:73`): not those of `AttemptUncharged`, so attempts exceed `max_requests`, and a dispatch that ended well may leave its grant usable. |
| `LeaseNamesItsWork` | `GitLabEvents.cfg`, `WorkOf <- OtherWork` | a transport that waits for its start takes the first `session.started` broadcast of the node as its answer, and the record of the other request is overwritten by `upsert`. |

Two more things `Approvals` shows: `raise_external_approval_request` tests for
the state `"granted"`, which no row has (they are `approved` and `consumed`), so
a gap that was read before a grant appends a request that replaces the grant;
and the row by which a dispatch ends its scopes also ends a grant the operator
gave since the read.

Each module states its `TypeOK`. The ones of `SessionQueue`, `ParallelLoop` and
`Approvals` are not listed in the runs: they are proved (section 5).

### Bounds

* `claims_node`: three process ids, one scope, one issue number in its six
  spellings, V1 claims of two of them. Two jobs and a third process (updater,
  stranger, successor) meet; a third item or scope does not interact.
  `claims_hosts`: two ids on each of two hosts.
* `issue_claim`: two loops, one of them preferred, one person, TTL 3, verify
  window 2, delay 1, on a pull request, and two faults: failed calls, crashes
  and changes by hand, where people also change the login of `a`. The run passes
  with `Managed = {b}` too, the preferred loop. TTL must exceed the window for a
  claim to survive it, and the window the delay; these are the smallest such
  values. Two loops suffice for a conflict; a third makes the state space too
  large.
* `issue_liveness`: TTL 2, window 1, no delay, an issue, two faults, one steady
  loop and one that may die for good and whose login people change.
* `recovery`: two process ids, one item, two runs, two faults. A run that died
  during a reconciliation, and the reconciliation after it, are two runs.
* `central`: two nodes, one of which may stop for good, a lease of three
  renewal intervals, a call timeout of one, two faults: a lapse is
  three failed renewals; a call that times out costs a fault and a refusal does
  not, so two timeouts and the refusal of a lease that lapsed meanwhile occur.
* `sessions`: three sessions, queued or manual, processes that may survive their
  signals. The third is the one that overtakes when the second is stopped.
* `events`: one event and one person for the same work, a local and a remote
  node, two sessions, two faults, two attempts, room for one dead letter.
  After a mishap, when only `TypeOK` and `BudgetSurvives` still say something,
  the search stops at the second fault (`Explored`); without that bound TLC
  finds no error either, in 5.7 million states.
  `events_liveness`: two events instead, one fault.
* `parallel`: two items, one with a work_id and a merge after its
  implementation, one a merge request without a work_id; two workers, memory for
  two agents or for one beside another controller's.
* `approvals`: one label under two operations (the ambiguous case), a dispatch
  of up to two attempts and a second dispatch, each of any workflow, three
  commands (the gate's own request makes a fourth), one fault; with four
  commands TLC finds no error either, in 10.8 million states.
  `approvals_grant`: two labels, two commands, none.

Symmetry is used only where no temporal property is checked that is sensitive
to it (the two runs of `WorkClaims`).
Deadlock checking is off where the system may stop: `recovery` (run ids are
used up and no process is left), `sessions`, `parallel` and `approvals` (the
bounded number of sessions, one batch, and bounded commands are over), `events`
(all sessions are used and nothing is pending).

### Fairness

* `IssueClaim`: dispatch and renewer threads run on (weak fairness of each
  thread's steps). Only a steady loop stakes again: it goes on to its next pass
  after every dispatch and does not die. The other loops may die, and nothing
  makes them come back. Time passes (strong fairness of the tick, which waits
  for a loop whose verify window ended), and the loops do not hold it up by
  staking in turn without a pause (`[]<>Quiet`). Failures and changes by hand
  are not fair and are bounded by `Faults`.
* `RunRecovery`: processes run on and a stranger's process ends. Nothing starts
  a loop by itself (`packaging/systemd/gah-loop@.service` has `Restart=no`, and
  the watchdog only reports), so `DeadRunsAreClosed` is conditional: it speaks
  of behaviours in which a loop runs again and again. `ReusePids = FALSE` in
  `recovery`: with reused ids, a loop that gets the id of a dead manual worker
  keeps that worker's run open for as long as it lives, and the property fails.
* `CentralClaims`: time passes, the server answers, a node acts on answers,
  dispatches end, and the steady node tries again.
* `SessionQueue`: microtasks run, dispatches end (gah has time limits of its
  own) and `terminateProcessTree` answers after its two waits. A process that
  survives its signals, and what a child leaves behind, need not end.
* `GitLabEvents`: calls are answered or time out, `retryAt` passes, the queue
  wakes every 30 s and takes each ready entry in turn (strong fairness of
  `begin`, since restarts and other entries come between). People, restarts and
  faults are not fair.
* `ParallelLoop`: scheduler and workers run on (each action has a time limit),
  each turn of the scheduler polls the mailbox, and a wait returns a result that
  is there rather than time out: strong fairness of the two. `BatchEnds` is
  conditional on the node's not refusing for ever: a probe that fits gives an
  item back each time, and TLC shows a batch that goes round without end when
  each request is then refused. It also rests on `Actions`: every item needs
  finitely many actions, or follow-ups alone would keep a batch going.

## 5. Proofs

All proofs hold for every value of the constants that satisfies the named
`ASSUME` of the module.

| Module | Theorem | Statement | Further assumption |
|---|---|---|---|
| `WorkClaims` | `TypeCorrect` | `[]TypeOK` | none |
| | `ClaimUniqueness` | `[]OwnedClaimUnique` | none, any number of hosts |
| | `ManualClaimKept` | `ManualClaimNotTakenEarly` | none, any number of hosts |
| | `NodeExclusion` | `[](JobExclusion /\ InstallExcludesClaimedJobs)` | `OneHost` |
| | `ClaimFileRefinement` | `ImplementsClaim` | `OneHost` |
| `IssueClaim` | `IssueTypes` | `[]TypeOK` | none |
| | `PersonKept` | `PersonNeverRemoved` | none |
| | `DeadlineHolds` | `[]DeadlineWithinClaim` | none |
| | `PersonWins` | `[]PersonTakesOver` | none |
| | `OneLease` | `[]LeaseExclusion` | `Verify > MaxDelay`, no `QuickRetry` (the property excepts `touched`) |
| | `IssueClaimRefinement` | `ImplementsClaim` | the same |
| `RunRecovery` | `RecoveryTypes` | `[]TypeOK` | none |
| | `RecoverySafety` | `[](LiveRunNotAbandoned /\ AtMostOneAbandonedRow)` | none, pid reuse included (the property excepts `cleared`) |
| | `ClosedOrphansInLedger` | `ClosedOrphanHasRow` | none |
| `CentralClaims` | `CentralTypes` | `[]TypeOK` | none |
| | `LapseWarning` | `[]WarnedInTime` | none |
| | `CentralExclusion` | `[]FreshLeaseExclusive` | no release is handled late |
| | `CentralRefinement` | `ImplementsClaim` | the same |
| `SessionQueue` | `SessionTypes` | `[]TypeOK` | none |
| | `NoStartAfterStop` | `StoppedNeverStarts` | none |
| | `QueueSerializes` | `[]SerializedUnlessCancelled` | none |
| `FleetDispatch`, | `EventsTyped` | `[]TypeOK` | none |
| `GitLabEvents` | `StoreLoads` | `[]StoreOK`, the store's part of `TypeOK` | none |
| | `AttemptsBounded` | `[]BudgetSurvives` | none |
| | `OneSession` | `[]OneSessionPerWork` | none (the property excepts `mishap`) |
| | `EventsNotSkipped` | `[]NoEventSkipped` | the same |
| | `PinsReleased` | `[]NoPinLeft` | the same |
| | `ReceiptsKept` | `ReceiptKept` | the same |
| | `LeasesOfTheirWork` | `[](mishap \/ LeaseNamesItsWork)` | none |
| `ParallelLoop` | `LoopTypes` | `[]TypeOK` | none |
| | `ItemsApart` | `[]OneWorkerPerItem` | none (the property is about items with a work_id) |
| | `ErrorsExcluded` | `FailedNotRetried` | the same |
| | `NodeFits` | `[]WithinBudget` | none |
| `Approvals` | `ApprovalTypes` | `[]TypeOK` | none |
| | `ActivationByGrant` | `ActiveOnlyByGrant` | none |
| | `CapRespected` | `[]CapHolds` | none (the property excepts uncharged attempts) |
| | `GrantSpent` | `SpentAfterSuccess` | none (it is about dispatches that charged) |

The further assumptions are needed: section 4, "Stated, and refuted by the
code", has the behaviour TLC finds without `OneHost`, without
`Verify > MaxDelay`, with `QuickRetry` and with late releases.

The arguments:

* `ClaimUniqueness` rests on `NormalUnique`, uniqueness as the code compares
  ids, which each file operation preserves, and on the lemma that two spellings
  of one item have one normal form.
* `NodeExclusion` needs `NodeInv`: a running job's process is alive in its role
  (`JobsAlive`), so a reused id cannot be a job's id; a job that was not
  disowned has a claim of its own (`JobsClaimed`); nobody is between admission
  and claim while the exclusive lock is held (`LockExcludesAdmission`). Two
  jobs on one item would have two claims on it. The idle check sees each
  job's claim as live because its owner lives on the same host, which is where
  `OneHost` enters; `RemoteClaimNotTakenEarly` shows that it is needed.
  `ClaimFileRefinement` follows step by step: a step that adds a job to an item
  takes its claim, so by `JobExclusion` after the step nobody else runs it, and
  no other step adds one.
* `ManualClaimKept` needs that the claim of a running manual worker carries the
  manual flag (`ManualMarked`), which is what makes the code look at its age
  and not at the process id, and that its process is alive.
* `PersonKept` needs that only loops are ever found stale (`Shape`).
  `DeadlineHolds` needs that the lease's deadline and the age of the comment add
  up to a TTL at most, and that between an edit and its confirmation the comment
  is no older than the renewal's clock (`Deadline`, `Confirming`): the renewal
  reads its clock before it edits. `PersonWins` accounts for time in the same
  way: what is left of a lease and the time a person has been assigned make no
  more than a TTL, and whoever saw no person began before the person came
  (`PersonLeft`, `PersonRenewal`, `PersonClaim`).
* `OneLease` is the main argument about `IssueClaim`. A loop that stakes may be
  blind to a claim that was posted after its view. While it is, what remains of
  the other's verify window outlasts the stake (`Window`; here `MaxDelay` has to
  be shorter than the window, and a loop that failed must wait it out before it
  stakes again). A loop about to judge has therefore seen every assigned loop
  (`Viewed`), so the holder of a lease goes before every assigned loop with a
  live claim (`First`): it is preferred, or its comment is older. All three are
  about loops whose login nobody changed by hand: a removal or an assignment
  reaches no view that was read before it (`TouchedStep`, `HandStep`). Two holders
  would each go before the other. `IssueClaimRefinement` adds that a step which
  gives a loop authority gives it to that loop alone.
* `RecoverySafety` needs that a manual worker's claim stands from before its
  start event until after its terminal event, unless the operator clears it
  (`ManualClaimed`), so an orphan
  read from the events whose run still executes is found claimed afterwards
  (`OrphansDead`), and that what the holder remembers of the ledger covers the
  rows there are (`LedgerRead`).
* `CentralExclusion` needs that map and file both hold the lease of a node at
  work (`WorkBacked`) and of a node whose answer is on its way
  (`AnswerBacked`), for as long as its last successful call entitles it to.
  `CentralRefinement` follows from the same invariant: the step that makes a
  node entitled leaves the map alone, and the map names every entitled node, so
  it holds one lease and no other node is entitled.
* `LapseWarning` accounts for the time since the last successful call by the
  failed attempts, each at most a sleep and a timeout long, and the phase of the
  renewal thread (`Accounted`).
* `QueueSerializes` reads the promise chain as sets: a session waits for another
  if every set that is closed under `previous` and holds the one holds the
  other. Unless an entry was dropped, every session that is not over is waited
  for by the later ones and by the tail (`Chain`); a session runs only when what
  it waits for is over (`Turn`); and only a kill that was not confirmed leaves a
  child without its slot (`Slots`). `NoStartAfterStop` needs that a queued
  session which was not cancelled is still reported as running (`Stopped`).
* `AttemptsBounded` needs that the dispatches of a key are covered by the
  attempts its entry counts (`Budget`), and that a key is in one of the store's
  lists at most, so that nothing but the owner's decision gives it a new entry
  (`StoreOK`). The coordinator enters only through the lemmas that none of its
  steps takes the queue's own call out of rest (`QueueRests`).
* `EventsTyped` needs `FleetInv`: leases in memory and in the file name started
  sessions, the requests of one session share its work and its state, and a
  lease is expired only when its session is gone (`Good`); what a call has still
  to write is part of a snapshot of such leases (`CallsOK`); only the queue's
  call retains its receipt, and for its current event (`CallsOwn`); at most one
  call is in its turn of writes and at most one asks for a work (`Alone`).
* The other five rest on `QueueInv /\ FleetInv /\ (mishap \/ Sound)`; a mishap
  stays one (`MishapStays`), so the argument is about steps without one. `Sound`
  says that every running session is known: an open lease names it or a call has
  its answer (`Tracked`); that a call which may start a session found no open
  lease of its work and a message under way is that of a waiting call
  (`StartFree`, `WireOK`);
  that what a turn of writes has still to write agrees with the leases
  (`TurnOK`), which is what a stale snapshot would break; and that a pinned lease
  is of an event that still needs it and the lease of a pending event is pinned
  (`ReceiptsOK`), in memory and in the file, because a restart takes the file
  for the memory. `OneSession` follows because
  a session starts only where no other of its work is tracked; `EventsNotSkipped`
  because a lease names a session of its own work (`WorkOK`, which is also
  `LeasesOfTheirWork`) and an event is completed on a lease alone; `ReceiptsKept`
  because no step drops a pinned lease (`CallPins`, `OtherPins`). All of them
  rest on one description of `upsert`, request by request (`Upserted`).
* `ItemsApart` needs more than the workers that are busy: the owner of an item
  is also one that ended well and may be followed up. Owners have different
  items (`Sole`), which are excluded and wait for nothing (`Owned`); what failed
  stays excluded (`Excluded`), which gives `ErrorsExcluded`; and an item that
  waits without being excluded can only be a merge (`Waits`). All of this is
  about items with a work_id; the others have no owner.
* `NodeFits` needs that what runs has a lease, also a lifecycle worker whose
  result was received before its thread ended (`Leased`), and that the leases
  fit (`Fit`). Since the workers' needs are of two sizes, sums are two
  cardinalities.
* `LoopTypes` needs that a scheduler that waits has an active worker, or a
  probe could give it an attempt beyond a limit of zero (`Counted`).
* `ActivationByGrant` needs what records the fold can make at all (`Sound`) and
  that nothing is completed while a dispatch charges (`ChargeOpen`).
  `CapRespected` needs that the attempts of a usable label are charged but for
  the one in flight and those that ended without a charge (`Owed`), and that
  between the two reads of an attempt there is room under the cap (`Armed`).
  `GrantSpent` needs that once the dispatch has read what to charge, every usable
  label that was not granted since is charged, or will be, and is found by the
  completion (`Spending`).

Only model-checked:

* The liveness properties `AlwaysTakenAgain`, `DeadRunsAreClosed`,
  `DeadNodeLapses`, `EveryTurnComes`, `EventsSettle` and `BatchEnds`: the proof
  system does not handle fairness.
* `GrantFreesItem`, which the code violates (section 4).

## 6. Not modelled

* The parts with status `not_modelled` in `PROJECT.json`, with their reasons.
  The models cover a small share of the repository's lines by design: most of
  it is command-line handling, prompts, reports, provider adapters, setup and
  user interfaces, sequential code without state of its own, for which tests
  say as much as a model would. What is modelled are the parts whose behaviour
  depends on the order in which several actors act.
* `SessionQueue`: output buffers and the deduplication of request ids, which
  `FleetDispatch` has. `FleetDispatch`: how a node is scored; a lease file that
  cannot be read (quarantine); the delay of a probe's answer; `reconcileLeases`
  awaits several remote nodes one after the other and writes the leases of each
  before it waits for the next, where the model waits for all of them once and
  writes in one turn; one profile. `GitLabEvents`:
  the expiry of receipts after 24 hours. `ParallelLoop`: what the controller
  decides among the candidates, the pressure measurements. `Approvals`: the pm
  workflow, which gets no environment and charges nothing; paid
  routes, malformed amounts and dates, labels that share a variable.
* Torn or corrupt files: each append and each rename is atomic.
* Clock skew between loops and the provider (`IssueClaim` and `CentralClaims`
  use one clock, as the code does).
* Publishing after the last lease check: `IssueClaim` has the phase, but no
  property forbids a takeover during it; the code cannot prevent one.
* A manual run that ends between reconciliation's read of the events and its
  read of the claims gets an "abandoned" row beside its own. The run is over,
  so `LiveRunNotAbandoned` holds; the ledger counts it twice.
* Hazards the code leaves open, which no property here can exclude: a plain
  dispatch under an update; calls of `stake` without a time limit; a remote
  session that runs on after its socket closed or after its start timed out; a
  failed write of the lease of a session that was started; a probe and a refusal
  that alternate for ever. The models contain each of them, and the properties
  that would be affected name it as their exception or condition.
* Renewal intervals of `IssueClaim`: a renewer may wake at any time, which
  includes the code's third of a TTL.
