---------------------------- MODULE SessionQueue ----------------------------
(***************************************************************************)
(* The agent sessions of one profile in the server                         *)
(* (apps/server/src/sessions/SessionManager.ts) and the `gah dispatch`     *)
(* processes behind them (runDispatchCancellable in gahCli.ts).  Sessions  *)
(* of a profile queue up as a chain of promises: each session awaits the   *)
(* tail of the one before it, and its own tail resolves when both its      *)
(* predecessor's tail and its own slot have.  A map holds the last tail.   *)
(* Extra ("manual") workers do not queue.                                  *)
(*                                                                         *)
(* One step is one turn of the event loop.  What the code does in          *)
(* microtasks of the same turn (a queued session that starts because its   *)
(* predecessor settled) comes before any other step: see Quiet.            *)
(***************************************************************************)
EXTENDS Naturals

CONSTANTS
  MaxSessions, \* number of sessions started
  Unkillable   \* may a process survive SIGTERM and SIGKILL?

ASSUME SessionsAssumption == MaxSessions \in Nat /\ Unkillable \in BOOLEAN

Sessions == 1..MaxSessions
Resolved == 0  \* Promise.resolve() as the predecessor; no entry in the map

VARIABLES
  status,    \* session.status; "absent" before it exists, "removed" after cleanup
  manual,    \* sessions of explicit extra workers
  previous,  \* whose tail each session awaits
  released,  \* sessions whose slot is released
  tail,      \* profileDispatchTails: the last tail of the profile
  proc,      \* the process tree of each session, see Trees
  active,    \* activeDispatches
  cancelled, \* cancelledSessions
  killing,   \* stops that wait for terminateProcessTree
  unkilled,  \* sessions whose kill could not be confirmed
  dropped    \* history: a stop removed the map's entry while its queue ran

vars == <<status, manual, previous, released, tail, proc, active, cancelled,
          killing, unkilled, dropped>>
queue == <<manual, previous>>

Statuses == {"absent", "running", "stopping", "stopped", "error", "removed"}

\* What runs of a session: the `gah` child with all it started ("alive"); only
\* processes it left behind ("left"), in its group or, like every backend
\* (setpgid), outside it; nothing any more, or nothing ever.
Running == {"alive", "left"}
Trees == Running \cup {"none", "queued", "gone", "skipped"}

(* The type invariant: the shape of the state; a session waits only for an *)
(* earlier one, and what is being killed is reported as stopping.           *)
TypeOK ==
  /\ status \in [Sessions -> Statuses]
  /\ previous \in [Sessions -> Sessions \cup {Resolved}]
  /\ \A s \in Sessions : previous[s] < s
  /\ proc \in [Sessions -> Trees]
  /\ \A S \in {manual, released, active, cancelled, killing, unkilled} :
       S \subseteq Sessions
  /\ \A s \in Sessions : s \in killing => status[s] = "stopping"
  /\ tail \in Sessions \cup {Resolved}
  /\ dropped \in BOOLEAN

Init ==
  /\ status = [s \in Sessions |-> "absent"]
  /\ previous = [s \in Sessions |-> Resolved]
  /\ proc = [s \in Sessions |-> "none"]
  /\ manual = {} /\ released = {} /\ active = {} /\ cancelled = {}
  /\ killing = {} /\ unkilled = {}
  /\ tail = Resolved
  /\ dropped = FALSE

-----------------------------------------------------------------------------
\* tail = previous.catch(...).then(() => slot): it resolves when its own slot is
\* released and so are those of the sessions it waits for, one after the other.
TailResolved(s) ==
  \/ s = Resolved
  \/ \E C \in SUBSET released :
       s \in C /\ \A x \in C : previous[x] \in C \cup {Resolved}

Ready(s) == proc[s] = "queued" /\ TailResolved(previous[s])

\* No microtask is pending.
Quiet == \A s \in Sessions : ~Ready(s)

WithoutTail(s) == IF tail = s THEN Resolved ELSE tail

Ended == {"stopping", "stopped", "error"}

-----------------------------------------------------------------------------
(* Starting *)

\* startSession: the session is reported as running at once, queued or not.
\* An unavailable provider throws before anything changes.
StartSession(s, m) ==
  /\ Quiet
  /\ status[s] = "absent" /\ \A t \in 1..(s - 1) : status[t] # "absent"
  /\ status' = [status EXCEPT ![s] = "running"]
  /\ active' = active \cup {s}
  /\ IF m
     THEN /\ manual' = manual \cup {s}
          /\ proc' = [proc EXCEPT ![s] = "alive"]
          /\ UNCHANGED <<previous, tail>>
     ELSE /\ previous' = [previous EXCEPT ![s] = tail]
          /\ tail' = s
          /\ proc' = [proc EXCEPT ![s] = "queued"]
          /\ UNCHANGED manual
  /\ UNCHANGED <<released, cancelled, killing, unkilled, dropped>>

\* Mutant: a queued session starts whether or not it was stopped.
StartsAnyway(s) ==
  /\ Ready(s)
  /\ proc' = [proc EXCEPT ![s] = "alive"]
  /\ cancelled' = cancelled \ {s}
  /\ UNCHANGED <<status, queue, released, tail, active, killing, unkilled,
                 dropped>>

\* Its turn has come: a session stopped meanwhile settles without a process.
startAfterPrevious(s) ==
  /\ Ready(s)
  /\ \/ /\ s \in cancelled
        /\ cancelled' = cancelled \ {s}
        /\ proc' = [proc EXCEPT ![s] = "skipped"]
        /\ released' = released \cup {s}
        /\ tail' = WithoutTail(s)
        /\ active' = active \ {s}
     \/ /\ s \notin cancelled
        /\ proc' = [proc EXCEPT ![s] = "alive"]
        /\ UNCHANGED <<cancelled, released, tail, active>>
  /\ UNCHANGED <<status, queue, killing, unkilled, dropped>>

-----------------------------------------------------------------------------
(* Ending *)

\* Releases the slot of a queued session; a manual one has none.
Release(s) ==
  IF s \in manual
  THEN UNCHANGED <<released, tail>>
  ELSE /\ released' = released \cup {s}
       /\ tail' = WithoutTail(s)

\* Mutant: the slot is not released when the process fails.
CompleteKeepsSlot(s, ok, rest) ==
  /\ Quiet
  /\ proc[s] = "alive"
  /\ proc' = [proc EXCEPT ![s] = rest]
  /\ IF ok THEN Release(s) ELSE UNCHANGED <<released, tail>>
  /\ active' = active \ {s}
  /\ status' = [status EXCEPT ![s] =
       IF @ # "running" THEN @ ELSE IF ok THEN "stopped" ELSE "error"]
  /\ UNCHANGED <<queue, cancelled, killing, unkilled, dropped>>

\* The child closes by itself or on a signal; the promise settles, the slot is
\* released and the status of a session nobody stopped becomes terminal.  The
\* close says nothing of the rest of the tree.
handleDispatchComplete(s, ok, rest) ==
  /\ Quiet
  /\ proc[s] = "alive"
  /\ proc' = [proc EXCEPT ![s] = rest]
  /\ Release(s)
  /\ active' = active \ {s}
  /\ status' = [status EXCEPT ![s] =
       IF @ \in Ended \cup {"removed"} THEN @
       ELSE IF ok THEN "stopped" ELSE "error"]
  /\ UNCHANGED <<queue, cancelled, killing, unkilled, dropped>>

\* What the child left behind ends.
TreeExits(s) ==
  /\ Quiet
  /\ proc[s] = "left"
  /\ proc' = [proc EXCEPT ![s] = "gone"]
  /\ UNCHANGED <<status, queue, released, tail, active, cancelled, killing,
                 unkilled, dropped>>

\* A stop of a session whose dispatch is active: a queued one is over at once,
\* a running one is signalled.  cancel() gives up the slot and the map's entry.
StopActive(s) ==
  /\ s \in active
  /\ active' = active \ {s}
  /\ IF proc[s] = "queued"
     THEN /\ status' = [status EXCEPT ![s] = "stopped"]
          /\ Release(s)
          /\ dropped' = (dropped \/ (tail = s /\ ~TailResolved(previous[s])))
          /\ UNCHANGED killing
     ELSE /\ status' = [status EXCEPT ![s] = "stopping"]
          /\ killing' = killing \cup {s}
          /\ UNCHANGED <<released, tail, dropped>>

\* stopSession.  "stopped" and "stopping" return early; "error" does not.
stopSession(s) ==
  /\ Quiet
  /\ status[s] \in {"running", "error"}
  /\ cancelled' = cancelled \cup {s}
  /\ \/ StopActive(s)
     \/ /\ s \notin active
        /\ status' = [status EXCEPT ![s] = "stopped"]
        /\ UNCHANGED <<released, tail, active, killing, dropped>>
  /\ UNCHANGED <<queue, proc, unkilled>>

\* Mutant: the slot is given up while the process is still being terminated.
ReleaseBeforeExit(s, confirmed) ==
  /\ Quiet
  /\ s \in killing
  /\ killing' = killing \ {s}
  /\ Release(s)
  /\ status' = [status EXCEPT ![s] = "stopped"]
  /\ UNCHANGED <<queue, proc, active, cancelled, unkilled, dropped>>

\* terminateProcessTree answers within its two five-second waits, well inside
\* the thirty seconds stopSession allows: child and group are gone, and
\* what is left is outside the group, or both signals were in vain.  The slot
\* is released in both cases.
CancelAnswers(s, confirmed) ==
  /\ Quiet
  /\ s \in killing
  /\ IF confirmed
     THEN proc[s] \in {"left", "gone"}
     ELSE Unkillable /\ proc[s] \in Running
  /\ killing' = killing \ {s}
  /\ unkilled' = IF confirmed THEN unkilled ELSE unkilled \cup {s}
  /\ Release(s)
  /\ status' = [status EXCEPT ![s] = IF confirmed THEN "stopped" ELSE "error"]
  /\ UNCHANGED <<queue, proc, active, cancelled, dropped>>

\* An hour after its end a session is forgotten.
cleanupFinishedSessions(s) ==
  /\ Quiet
  /\ status[s] \in {"stopped", "error"}
  /\ status' = [status EXCEPT ![s] = "removed"]
  /\ UNCHANGED <<queue, released, tail, proc, active, cancelled, killing,
                 unkilled, dropped>>

-----------------------------------------------------------------------------
\* What a child may leave behind.
Left == {"left", "gone"}

Next ==
  \E s \in Sessions :
    \/ \E m \in BOOLEAN : StartSession(s, m)
    \/ startAfterPrevious(s)
    \/ \E ok \in BOOLEAN, rest \in Left : handleDispatchComplete(s, ok, rest)
    \/ TreeExits(s)
    \/ stopSession(s)
    \/ \E confirmed \in BOOLEAN : CancelAnswers(s, confirmed)
    \/ cleanupFinishedSessions(s)

\* The event loop runs on, dispatches end by themselves (gah has a time limit
\* of its own) and terminateProcessTree answers.  Nothing makes a process end
\* that survives its signals, or what a child left behind.
Fairness ==
  \A s \in Sessions :
    /\ WF_vars(startAfterPrevious(s))
    /\ WF_vars(\E ok \in BOOLEAN, rest \in Left :
         /\ s \notin unkilled
         /\ Unkillable => s \notin killing
         /\ handleDispatchComplete(s, ok, rest))
    /\ WF_vars(\E confirmed \in BOOLEAN : CancelAnswers(s, confirmed))

Spec == Init /\ [][Next]_vars /\ Fairness

-----------------------------------------------------------------------------
Queued(s) == proc[s] \in Running /\ s \notin manual

(* startDispatchProcess says of its slot that "the profile stays serialized *)
(* for as long as this dispatch's process tree is alive" (SessionManager.ts *)
(* line 226): no two queued dispatches of a profile run at once.            *)
ProfileSerialized ==
  \A s, t \in Sessions : Queued(s) /\ Queued(t) => s = t

(* The three ways in which serialization is lost, and the only ones: the    *)
(* stop of the last queued session dropped the map's entry; a kill could    *)
(* not be confirmed and its slot was released all the same; the child       *)
(* closed and left processes behind, which releases the slot too, even      *)
(* while a stop still waits for the group.  In every other case what        *)
(* entered the queue first has ended when a later one runs.                 *)
SerializedUnlessCancelled ==
  ~dropped =>
    \A s \in Sessions \ unkilled, t \in Sessions :
      Queued(s) /\ Queued(t) /\ s < t => proc[s] = "left"

(* A session stopped while it was queued never starts, however long its     *)
(* turn takes to come and even if it was forgotten meanwhile (stopSession,  *)
(* cancelledSessions).                                                      *)
StoppedNeverStarts ==
  [][\A s \in Sessions :
       proc[s] = "queued" /\ proc'[s] = "alive" => status[s] = "running"]_vars

(* Stopping one session never drops another: every queued session gets its  *)
(* turn, whatever is stopped before it and whatever survives its signals.   *)
EveryTurnComes ==
  \A s \in Sessions : proc[s] = "queued" ~> proc[s] # "queued"
=============================================================================
