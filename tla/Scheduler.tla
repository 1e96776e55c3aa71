------------------------------ MODULE Scheduler ------------------------------
(***************************************************************************)
(* The run scheduler of one runtime socket (domain/scheduler.rs), with the *)
(* part of the message loop that drives it (ws/runtime.rs).                *)
(*                                                                         *)
(* A member of Run is one call of start_run: the debounced auto run of an  *)
(* edit, a run.request, or the first run after the dependencies have been  *)
(* installed.  It takes at most one trip through pc:                       *)
(*                                                                         *)
(*   unborn -> sleeping -> starting -> checked -> waiting -> ready ->      *)
(*   placed -> queued -> running -> draining -> telling -> cleanup ->      *)
(*   ended -> gone                                                         *)
(*                                                                         *)
(* with the exits aborted (the debounce task was aborted or found itself   *)
(* replaced), dropped (start_run returned early) and panicked ->           *)
(* resetting -> announcing -> gone (the runner unwound; the watchdog       *)
(* cleans up).  Tokens are identified by the run they belong to.           *)
(***************************************************************************)
EXTENDS Naturals, FiniteSets

CONSTANTS
  Run,          \* calls of start_run
  None,         \* the empty Option
  MaxVersion,   \* bound: the document is edited up to this version
  MaxEvents,    \* bound: events a runner has emitted and nobody forwarded
  Slots,        \* permits of RUN_SLOTS
  Kinds,        \* the kinds of start made, out of AllKinds
  ServeModes    \* the idle watchers a run may start with, out of AllModes

\* "auto" is a debounced edit, "request" and "live" a plain and an interactive
\* run.request, "deps" the run after the dependencies have been installed.
AllKinds == {"auto", "request", "live", "deps"}

\* The watcher is armed when the session's serve setting is on.
AllModes == {"off", "armed"}

ASSUME NoneAssumption  == None \notin Run
ASSUME BoundAssumption == MaxVersion \in Nat /\ MaxEvents \in Nat /\ Slots \in Nat
ASSUME KindsAssumption == Kinds \subseteq AllKinds /\ ServeModes \subseteq AllModes

VARIABLES
  version,      \* session.snapshot.version
  open,         \* the socket's message loop has not ended
  loop,         \* where the message loop is inside document_updated
  debounce,     \* Inner.debounce: the pending auto run
  cancelTok,    \* Inner.cancel: whose token the slot holds
  activeRun,    \* Inner.active_run
  finishedTok,  \* Inner.finished: whose token the slot holds
  liveInput,    \* Inner.live_input: the run whose sender the slot holds
  liveStdin,    \* Session.live_stdin: the run whose receiver it holds
  pc,           \* where each call of start_run and its run task are
  kind,         \* what each call is for
  ver,          \* the version each call was made for
  prev,         \* the superseded run each call waits for
  cancelled,    \* runs whose cancellation token has fired
  queue,        \* runner events the forwarder has not received
  fwd,          \* the forwarder: idle, or about to send what it checked
  watch,        \* the idle watcher of a serving run
  got,          \* the receiver a run's program took as its stdin
  outlived,     \* runs a newer one stopped waiting for (SUPERSEDED_GRACE)
  late          \* history: events a run sent when it was not the active run

doc   == <<version, open, loop>>
inner == <<debounce, cancelTok, activeRun, finishedTok, liveInput>>
calls == <<kind, ver, prev>>
task  == <<queue, fwd, watch, got>>
vars  == <<doc, inner, liveStdin, pc, calls, cancelled, task, outlived, late>>

Maybe    == Run \cup {None}
Emptied  == {"waiting", "ready", "placed"}   \* in start_run, slots emptied
Holding  == {"checked"} \cup Emptied         \* in start_run, `start` held
Task     == {"queued", "running", "draining", "telling", "cleanup"}
Unwound  == {"ended", "panicked"}            \* the watchdog has yet to wake
Finished == {"resetting", "announcing", "gone"}   \* `finished` has fired
Stages   == {"unborn", "sleeping", "aborted", "starting", "dropped"}
              \cup Holding \cup Task \cup Unwound \cup Finished

TypeOK ==
  /\ version \in Nat
  /\ open \in BOOLEAN
  /\ loop \in {"idle", "updated", "cleared"}
  /\ debounce \in Maybe /\ cancelTok \in Maybe /\ activeRun \in Maybe
  /\ finishedTok \in Maybe /\ liveInput \in Maybe /\ liveStdin \in Maybe
  /\ pc \in [Run -> Stages]
  /\ kind \in [Run -> AllKinds]
  /\ ver \in [Run -> Nat]
  /\ prev \in [Run -> Maybe]
  /\ cancelled \in SUBSET Run
  /\ queue \in [Run -> Nat]
  /\ fwd \in [Run -> {"idle", "sending"}]
  /\ watch \in [Run -> AllModes \cup {"stopping"}]
  /\ got \in [Run -> Maybe]
  /\ outlived \in SUBSET Run
  /\ late \in [Run -> Nat]

Init ==
  /\ version = 1
  /\ open = TRUE
  /\ loop = "idle"
  /\ debounce = None /\ cancelTok = None /\ activeRun = None
  /\ finishedTok = None /\ liveInput = None /\ liveStdin = None
  /\ pc = [r \in Run |-> "unborn"]
  /\ kind = [r \in Run |-> "auto"]
  /\ ver = [r \in Run |-> 0]
  /\ prev = [r \in Run |-> None]
  /\ cancelled = {}
  /\ queue = [r \in Run |-> 0]
  /\ fwd = [r \in Run |-> "idle"]
  /\ watch = [r \in Run |-> "off"]
  /\ got = [r \in Run |-> None]
  /\ outlived = {}
  /\ late = [r \in Run |-> 0]

-----------------------------------------------------------------------------
(* Shared steps.                                                           *)

Goto(r, stage) == pc' = [pc EXCEPT ![r] = stage]

\* pc once the pending auto run's task has been aborted: it never resumes from
\* the await it is suspended on.
Aborted == [q \in Run |-> IF q = debounce THEN "aborted" ELSE pc[q]]

\* The active run's token fires and the slots that describe it are emptied.
FireToken ==
  /\ cancelled' = cancelled \cup ({cancelTok} \ {None})
  /\ cancelTok' = None
  /\ activeRun' = None
  /\ liveInput' = None

\* cancel_internal: aborts the pending auto run and stops the active one.  It
\* leaves `finished` alone, for the next start to wait on.
CancelInternal ==
  /\ FireToken
  /\ debounce' = None
  /\ pc' = Aborted
  /\ UNCHANGED finishedTok

\* A new call of start_run, or the debounce task that will make one.
Request(r, how, stage) ==
  /\ how \in Kinds
  /\ pc[r] = "unborn"
  /\ Goto(r, stage)
  /\ kind' = [kind EXCEPT ![r] = how]
  /\ ver' = [ver EXCEPT ![r] = version]
  /\ UNCHANGED prev

\* The test both the forwarder and the run task make before they speak.
Current(r) == r \notin cancelled /\ activeRun = r /\ version = ver[r]

\* An event of run r is put on the outbox.
Speak(r) == late' = [late EXCEPT ![r] = IF activeRun = r THEN @ ELSE @ + 1]

-----------------------------------------------------------------------------
(* The message loop: one message at a time, each awaited to its end.       *)

\* A run.request is awaited inside the loop until start_run has returned.
LoopFree ==
  /\ open
  /\ loop = "idle"
  /\ \A r \in Run : kind[r] \in {"request", "live"}
                      => pc[r] \notin {"starting"} \cup Holding

\* The document changes: an accepted edit of a file whose language can run.
\* document_updated is called next.
Edit ==
  /\ LoopFree
  /\ version < MaxVersion
  /\ version' = version + 1
  /\ loop' = "updated"
  /\ UNCHANGED <<open, inner, liveStdin, pc, calls, cancelled, task, outlived, late>>

\* An accepted edit of a file whose language cannot run here: the client is
\* told Idle and the scheduler is not called at all.
EditWithoutRunner ==
  /\ LoopFree
  /\ version < MaxVersion
  /\ version' = version + 1
  /\ UNCHANGED <<open, loop, inner, liveStdin, pc, calls, cancelled, task, outlived, late>>

\* input.update with new text, or settings.update that switches serve: the
\* document stays, document_updated is called.
Touch ==
  /\ LoopFree
  /\ loop' = "updated"
  /\ UNCHANGED <<version, open, inner, liveStdin, pc, calls, cancelled, task, outlived, late>>

\* Mutation: the pending auto run of the previous edit is left pending.
DocumentCancelsOnlyTheRun ==
  /\ loop = "updated"
  /\ FireToken
  /\ loop' = "cleared"
  /\ UNCHANGED <<version, open, debounce, finishedTok, liveStdin, pc, calls, task,
                 outlived, late>>

\* document_updated, first half: whatever is pending or running is stopped.
DocumentCancels ==
  /\ loop = "updated"
  /\ CancelInternal
  /\ loop' = "cleared"
  /\ UNCHANGED <<version, open, liveStdin, calls, task, outlived, late>>

\* document_updated, second half: with auto_run off the client is told Idle;
\* otherwise a debounce task is spawned and becomes the pending one.
DocumentIdles ==
  /\ loop = "cleared"
  /\ loop' = "idle"
  /\ UNCHANGED <<version, open, inner, liveStdin, pc, calls, cancelled, task, outlived, late>>

DocumentSchedules(r) ==
  /\ loop = "cleared"
  /\ Request(r, "auto", "sleeping")
  /\ debounce' = r
  /\ loop' = "idle"
  /\ UNCHANGED <<version, open, cancelTok, activeRun, finishedTok, liveInput, liveStdin,
                 cancelled, task, outlived, late>>

\* run.request for the current version, plain or interactive.
RunRequest(r) ==
  /\ LoopFree
  /\ \E how \in {"request", "live"} : Request(r, how, "starting")
  /\ UNCHANGED <<doc, inner, liveStdin, cancelled, task, outlived, late>>

\* run.cancel: the Stop button.
RunCancel ==
  /\ LoopFree
  /\ CancelInternal
  /\ UNCHANGED <<doc, liveStdin, calls, task, outlived, late>>

\* stdin.write with eof: dropping the sender closes the program's stdin.
WriteEof ==
  /\ LoopFree
  /\ liveInput # None
  /\ liveInput' = None
  /\ UNCHANGED <<doc, debounce, cancelTok, activeRun, finishedTok, liveStdin, pc,
                 calls, cancelled, task, outlived, late>>

\* The socket ends: RunScheduler::close.
Close ==
  /\ LoopFree
  /\ open' = FALSE
  /\ CancelInternal
  /\ UNCHANGED <<version, loop, liveStdin, calls, task, outlived, late>>

\* install_then_run, once per session and outside the message loop: when the
\* packages have been gone through, the first run is requested, though the
\* socket may have closed during the last install.
DepsInstalled(r) ==
  /\ \A q \in Run : kind[q] # "deps"
  /\ Request(r, "deps", "starting")
  /\ UNCHANGED <<doc, inner, liveStdin, cancelled, task, outlived, late>>

-----------------------------------------------------------------------------
(* start_run.                                                              *)

\* Mutation: the firing task stays in the pending slot while it starts.
DebounceFiresInSlot(r) ==
  /\ pc[r] = "sleeping"
  /\ Goto(r, IF debounce = r THEN "starting" ELSE "aborted")
  /\ UNCHANGED <<doc, inner, liveStdin, calls, cancelled, task, outlived, late>>

\* The debounce has elapsed: the task leaves the pending slot and becomes the
\* run's start, or finds that it is no longer the pending one.
DebounceFires(r) ==
  /\ pc[r] = "sleeping"
  /\ IF debounce = r
     THEN debounce' = None /\ Goto(r, "starting")
     ELSE UNCHANGED debounce /\ Goto(r, "aborted")
  /\ UNCHANGED <<doc, cancelTok, activeRun, finishedTok, liveInput, liveStdin, calls,
                 cancelled, task, outlived, late>>

\* The start mutex is held from the version check to the spawn.
StartHeld == \E q \in Run : pc[q] \in Holding

\* The lock is taken, but the version has moved on: the lock is released.
StartRefused(r) ==
  /\ pc[r] = "starting"
  /\ ~StartHeld
  /\ version # ver[r]
  /\ Goto(r, "dropped")
  /\ UNCHANGED <<doc, inner, liveStdin, calls, cancelled, task, outlived, late>>

\* The lock is taken and the version is current.
StartAccepted(r) ==
  /\ pc[r] = "starting"
  /\ ~StartHeld
  /\ version = ver[r]
  /\ Goto(r, "checked")
  /\ UNCHANGED <<doc, inner, liveStdin, calls, cancelled, task, outlived, late>>

\* Mutation: the previous run is cancelled but not waited for.
SupersedeWithoutWaiting(r) ==
  /\ pc[r] = "checked"
  /\ FireToken
  /\ debounce' = None
  /\ pc' = [Aborted EXCEPT ![r] = IF r = debounce THEN "aborted" ELSE "ready"]
  /\ UNCHANGED <<doc, finishedTok, liveStdin, calls, task, outlived, late>>

\* cancel_internal, then the previous run's finished token is taken out of its
\* slot to be waited for.  (Were this task still the pending one, the call
\* would abort it.)  The document may have moved on since the version check.
Supersede(r) ==
  /\ pc[r] = "checked"
  /\ FireToken
  /\ debounce' = None
  /\ finishedTok' = None
  /\ prev' = [prev EXCEPT ![r] = finishedTok]
  /\ pc' = [Aborted EXCEPT ![r] = IF r = debounce THEN "aborted"
                                  ELSE IF finishedTok = None THEN "ready"
                                  ELSE "waiting"]
  /\ UNCHANGED <<doc, liveStdin, kind, ver, task, outlived, late>>

\* After the wait the version is looked at again: the edit this run was for
\* may have been replaced meanwhile.
WaitIsOver(r) ==
  /\ Goto(r, IF version = ver[r] THEN "ready" ELSE "dropped")
  /\ prev' = [prev EXCEPT ![r] = None]

\* Mutation: the token waited for is the one that cancels the previous run.
PreviousCancelled(r) ==
  /\ pc[r] = "waiting"
  /\ prev[r] \in cancelled \/ pc[prev[r]] \in Finished
  /\ WaitIsOver(r)
  /\ UNCHANGED <<doc, inner, liveStdin, kind, ver, cancelled, task, outlived, late>>

\* The previous run's watchdog has fired its finished token.
PreviousEnded(r) ==
  /\ pc[r] = "waiting"
  /\ pc[prev[r]] \in Finished
  /\ WaitIsOver(r)
  /\ UNCHANGED <<doc, inner, liveStdin, kind, ver, cancelled, task, outlived, late>>

\* SUPERSEDED_GRACE has elapsed with the previous run still alive.
GraceExpires(r) ==
  /\ pc[r] = "waiting"
  /\ pc[prev[r]] \notin Finished
  /\ outlived' = outlived \cup {prev[r]}
  /\ WaitIsOver(r)
  /\ UNCHANGED <<doc, inner, liveStdin, kind, ver, cancelled, task, late>>

\* Mutation: only an interactive run sets the slot.
PlaceInputIfLive(r) ==
  /\ pc[r] = "ready"
  /\ liveStdin' = IF kind[r] = "live" THEN r ELSE liveStdin
  /\ Goto(r, "placed")
  /\ UNCHANGED <<doc, inner, calls, cancelled, task, outlived, late>>

\* session.live_stdin is set for every run, to nothing for a plain one.
PlaceInput(r) ==
  /\ pc[r] = "ready"
  /\ liveStdin' = IF kind[r] = "live" THEN r ELSE None
  /\ Goto(r, "placed")
  /\ UNCHANGED <<doc, inner, calls, cancelled, task, outlived, late>>

\* The slots are filled, the run task is spawned (with the idle watcher when
\* the session serves) and the start lock is released.
Install(r) ==
  /\ pc[r] = "placed"
  /\ cancelTok' = r
  /\ activeRun' = r
  /\ finishedTok' = r
  /\ liveInput' = IF kind[r] = "live" THEN r ELSE None
  /\ \E mode \in ServeModes : watch' = [watch EXCEPT ![r] = mode]
  /\ Goto(r, "queued")
  /\ UNCHANGED <<doc, debounce, liveStdin, calls, cancelled, queue, fwd, got, outlived, late>>

-----------------------------------------------------------------------------
(* The run task, its forwarder, its watchdog and its idle watcher.         *)

\* The steps of a run's own task that touch nothing but its progress.
Progress(r, from, to) ==
  /\ pc[r] = from
  /\ Goto(r, to)
  /\ UNCHANGED <<doc, inner, liveStdin, calls, cancelled, task, outlived, late>>

AcquireSlot(r) ==
  /\ Cardinality({q \in Run : pc[q] = "running"}) < Slots
  /\ Progress(r, "queued", "running")

\* Cancelled while it waited for a slot: the runner is never called.
LeaveQueue(r) == r \in cancelled /\ Progress(r, "queued", "draining")

\* The runner returns: the program ended, timed out, failed to build, or the
\* runner noticed its token.
RunnerEnds(r) == Progress(r, "running", "draining")

\* The runner panics: the run task unwinds past all of its cleanup.
RunnerPanics(r) == Progress(r, "running", "panicked")

\* The runner reports a state, output, a probe, ...
Emit(r) ==
  /\ pc[r] = "running"
  /\ queue[r] < MaxEvents
  /\ queue' = [queue EXCEPT ![r] = @ + 1]
  /\ UNCHANGED <<doc, inner, liveStdin, pc, calls, cancelled, fwd, watch, got, outlived, late>>

\* Session::stdin, called as the user's program is started: a waiting live
\* receiver is taken out of the session.
TakeStdin(r) ==
  /\ pc[r] = "running"
  /\ liveStdin # None
  /\ got' = [got EXCEPT ![r] = liveStdin]
  /\ liveStdin' = None
  /\ UNCHANGED <<doc, inner, pc, calls, cancelled, queue, fwd, watch, outlived, late>>

\* Mutation: an event is forwarded without waiting for one.
ForwarderChecksEmpty(r) ==
  /\ fwd[r] = "idle"
  /\ pc[r] = "running"
  /\ queue' = [queue EXCEPT ![r] = @ - 1]
  /\ fwd' = [fwd EXCEPT ![r] = IF Current(r) THEN "sending" ELSE "idle"]
  /\ UNCHANGED <<doc, inner, liveStdin, pc, calls, cancelled, watch, got, outlived, late>>

\* The forwarder receives an event and decides, under the lock, whether the
\* run is still the one being shown; it sends only after letting go of it.
ForwarderChecks(r) ==
  /\ fwd[r] = "idle"
  /\ queue[r] > 0
  /\ queue' = [queue EXCEPT ![r] = @ - 1]
  /\ fwd' = [fwd EXCEPT ![r] = IF Current(r) THEN "sending" ELSE "idle"]
  /\ UNCHANGED <<doc, inner, liveStdin, pc, calls, cancelled, watch, got, outlived, late>>

ForwarderSends(r) ==
  /\ fwd[r] = "sending"
  /\ fwd' = [fwd EXCEPT ![r] = "idle"]
  /\ Speak(r)
  /\ UNCHANGED <<doc, inner, liveStdin, pc, calls, cancelled, queue, watch, got, outlived>>

\* Mutation: the result is decided on without waiting for the forwarder.
TaskChecksUndrained(r) ==
  Progress(r, "draining", IF Current(r) THEN "telling" ELSE "cleanup")

\* The forwarder is awaited to its end, then the run task makes the check that
\* decides whether its result is shown.
TaskChecks(r) ==
  /\ queue[r] = 0
  /\ fwd[r] = "idle"
  /\ Progress(r, "draining", IF Current(r) THEN "telling" ELSE "cleanup")

\* The terminal state and RunFinished, or the error of a run without result.
TaskTells(r) ==
  /\ pc[r] = "telling"
  /\ Goto(r, "cleanup")
  /\ Speak(r)
  /\ UNCHANGED <<doc, inner, liveStdin, calls, cancelled, task, outlived>>

\* Mutation: the slots are emptied whoever they belong to.
TaskCleansAnyones(r) ==
  /\ pc[r] = "cleanup"
  /\ cancelTok' = None /\ activeRun' = None /\ liveInput' = None
  /\ Goto(r, "ended")
  /\ UNCHANGED <<doc, debounce, finishedTok, liveStdin, calls, cancelled, task, outlived, late>>

\* The run empties the slots if they are still its own.
TaskCleans(r) ==
  /\ pc[r] = "cleanup"
  /\ IF activeRun = r
     THEN cancelTok' = None /\ activeRun' = None /\ liveInput' = None
     ELSE UNCHANGED <<cancelTok, activeRun, liveInput>>
  /\ Goto(r, "ended")
  /\ UNCHANGED <<doc, debounce, finishedTok, liveStdin, calls, cancelled, task, outlived, late>>

\* Mutation: the watchdog waits for the task only to clean up after a panic.
WatchdogWakesOnPanic(r) ==
  /\ pc[r] = "panicked"
  /\ Goto(r, "resetting")
  /\ watch' = [watch EXCEPT ![r] = IF @ = "armed" THEN "off" ELSE @]
  /\ UNCHANGED <<doc, inner, liveStdin, calls, cancelled, queue, fwd, got, outlived, late>>

\* The watchdog sees the task end, however it ended, and fires `finished`,
\* which the next start and the idle watcher wait for.
WatchdogWakes(r) ==
  /\ pc[r] \in Unwound
  /\ Goto(r, IF pc[r] = "panicked" THEN "resetting" ELSE "gone")
  /\ watch' = [watch EXCEPT ![r] = IF @ = "armed" THEN "off" ELSE @]
  /\ UNCHANGED <<doc, inner, liveStdin, calls, cancelled, queue, fwd, got, outlived, late>>

\* Mutation: the slots are freed and the client is not told.
WatchdogResetsSilently(r) ==
  /\ pc[r] = "resetting"
  /\ IF activeRun = r
     THEN activeRun' = None /\ cancelTok' = None
     ELSE UNCHANGED <<activeRun, cancelTok>>
  /\ Goto(r, "gone")
  /\ UNCHANGED <<doc, debounce, finishedTok, liveInput, liveStdin, calls, cancelled,
                 task, outlived, late>>

\* Mutation: only half of the pair is freed.
WatchdogKeepsToken(r) ==
  /\ pc[r] = "resetting"
  /\ activeRun' = IF activeRun = r THEN None ELSE activeRun
  /\ Goto(r, IF activeRun = r THEN "announcing" ELSE "gone")
  /\ UNCHANGED <<doc, debounce, cancelTok, finishedTok, liveInput, liveStdin, calls,
                 cancelled, task, outlived, late>>

\* After a panic the watchdog frees the slots the run still owns; the live
\* input stays where it is.
WatchdogResets(r) ==
  /\ pc[r] = "resetting"
  /\ IF activeRun = r
     THEN activeRun' = None /\ cancelTok' = None /\ Goto(r, "announcing")
     ELSE UNCHANGED <<activeRun, cancelTok>> /\ Goto(r, "gone")
  /\ UNCHANGED <<doc, debounce, finishedTok, liveInput, liveStdin, calls, cancelled,
                 task, outlived, late>>

\* The client is told Idle, and that the run crashed.
WatchdogTells(r) == Progress(r, "announcing", "gone")

\* Nobody has called the server for SERVER_IDLE_MS: the watcher looks, under
\* the lock, whether its run is the active one...
IdleNoticed(r) ==
  /\ watch[r] = "armed"
  /\ r \notin cancelled
  /\ watch' = [watch EXCEPT ![r] = IF activeRun = r THEN "stopping" ELSE "off"]
  /\ UNCHANGED <<doc, inner, liveStdin, pc, calls, cancelled, queue, fwd, got, outlived, late>>

\* ... lets go of it, and cancels whatever is active by then.
IdleStops(r) ==
  /\ watch[r] = "stopping"
  /\ watch' = [watch EXCEPT ![r] = "off"]
  /\ CancelInternal
  /\ UNCHANGED <<doc, liveStdin, calls, queue, fwd, got, outlived, late>>

-----------------------------------------------------------------------------

\* Everything has ended after the socket: nothing is left to do.
AtRest ==
  /\ ~open
  /\ \A r \in Run : /\ pc[r] \in {"unborn", "aborted", "dropped", "gone"}
                    /\ queue[r] = 0 /\ fwd[r] = "idle"
  /\ UNCHANGED vars

Loop ==
  \/ Edit \/ EditWithoutRunner \/ Touch
  \/ DocumentCancels \/ DocumentIdles
  \/ RunCancel \/ WriteEof \/ Close
  \/ \E r \in Run : DocumentSchedules(r) \/ RunRequest(r) \/ DepsInstalled(r)

Start(r) ==
  \/ DebounceFires(r) \/ StartRefused(r) \/ StartAccepted(r) \/ Supersede(r)
  \/ PreviousEnded(r) \/ GraceExpires(r) \/ PlaceInput(r) \/ Install(r)

\* The steps a run's task and watchdog owe; Emit, TakeStdin and RunnerPanics
\* are things the runner may do.
TaskSteps(r) ==
  \/ AcquireSlot(r) \/ LeaveQueue(r) \/ RunnerEnds(r)
  \/ TaskChecks(r) \/ TaskTells(r) \/ TaskCleans(r)
  \/ WatchdogWakes(r) \/ WatchdogResets(r) \/ WatchdogTells(r)

ForwarderSteps(r) == ForwarderChecks(r) \/ ForwarderSends(r)

Whims(r) == Emit(r) \/ TakeStdin(r) \/ RunnerPanics(r) \/ IdleNoticed(r) \/ IdleStops(r)

Next ==
  \/ Loop
  \/ \E r \in Run : Start(r) \/ TaskSteps(r) \/ ForwarderSteps(r) \/ Whims(r)
  \/ AtRest

Spec == Init /\ [][Next]_vars

\* What the runtime owes every task: a woken task runs, the grace timer fires,
\* the start mutex and the slot semaphore serve their waiters in order, and a
\* runner returns (its processes have deadlines).  Messages, events, panics
\* and idleness are nobody's obligation.
Fairness == \A r \in Run : /\ WF_vars(Start(r))
                           /\ WF_vars(TaskSteps(r))
                           /\ WF_vars(ForwarderSteps(r))

FairSpec == Spec /\ Fairness

-----------------------------------------------------------------------------
(* Properties.                                                             *)

\* r has been installed and its finished token has not fired: its runner may
\* still be writing the session's generated/ directory.
UsesGenerated(r) == pc[r] \in Task \cup Unwound

\* The scheduler keeps the promise of RunSlot: the active run is the one shown,
\* no run starts before generated/ is its own, and none comes back.
Busy  == {r \in Run : UsesGenerated(r)}
Begun == {r \in Run : pc[r] \in Task \cup Unwound \cup Finished}

Slot == INSTANCE RunSlot
          WITH shown <- activeRun, busy <- Busy, overdue <- outlived, begun <- Begun

ImplementsRunSlot == Slot!Spec

\* Two runs are never at work in generated/ together, unless the older one
\* ignored its token for the whole SUPERSEDED_GRACE (start_run waits for the
\* finished token of the run it supersedes before it installs itself).
GeneratedIsExclusive ==
  \A r, s \in Run :
    (r # s /\ UsesGenerated(r) /\ UsesGenerated(s)) => {r, s} \cap outlived # {}

\* A run whose task has not passed its cleanup can always be stopped: either
\* it has been cancelled already or the slots cancel_internal empties are its
\* own.  No start may overwrite the token of a run still going.
NoOrphanRun ==
  \A r \in Run : pc[r] \in Task
                   => r \in cancelled \/ (activeRun = r /\ cancelTok = r)

\* The active run's slots agree: its token sits beside it, has not fired, and
\* a run that has told its end and cleaned up is not active any more.
SlotsAgree ==
  /\ cancelTok = activeRun
  /\ activeRun # None => /\ activeRun \notin cancelled
                         /\ pc[activeRun] \in Task \cup {"panicked", "resetting"}

\* document_updated clears the pending auto run of the previous edit: no
\* debounce task is waiting to fire other than the one in the slot, and the
\* one in the slot has not begun its start (aborting it is safe).
OnePendingAutoRun ==
  \A r \in Run : pc[r] = "sleeping" <=> debounce = r

\* A plain run never reads what is typed for an interactive one: the receiver
\* a program takes from the session is its own run's (PlaceInput resets the
\* slot), unless the taker had been given up on.
InputReachesItsRun ==
  \A r \in Run : got[r] \in {None, r} \/ r \in outlived

\* The check-then-send of the forwarder lets at most one event of a run reach
\* the client once the run is no longer the active one: the forwarder is
\* drained before the terminal check, and every event is checked anew.
AtMostOneLateEvent == \A r \in Run : late[r] <= 1

\* A superseded or stopped run says nothing at all any more.  (The code does
\* not keep this: see the README.)
SupersededRunIsSilent == \A r \in Run : late[r] = 0

\* The live input slot belongs to the run being shown.  (The watchdog does
\* not keep this after a panic: see the README.)
LiveInputWhileItRuns == liveInput # None => activeRun = liveInput

\* An older start never clears the auto run of a newer document: only messages
\* and starts for the same version do.  (The code does not keep this: its
\* version check and its cancel_internal are separate awaits.  See the README.)
NewerEditSurvives ==
  [][\A r, s \in Run :
       (pc[r] = "sleeping" /\ pc'[r] = "aborted" /\ pc[s] = "checked" /\ pc'[s] # "checked")
         => ver[s] = ver[r]]_vars

\* Every installed run winds down, panics included, whatever was done to it:
\* the next start never needs to sit out its grace, and by SlotsAgree the slot
\* is free again.
RunsEnd == \A r \in Run : pc[r] = "queued" ~> pc[r] = "gone"

\* A start that has left the pending slot gets its run installed, however
\* slow the run it supersedes is to go, unless the document moved on: it
\* cannot be the victim of its own cancel_internal.
StartsTakePlace ==
  \A r \in Run : pc[r] = "starting"
                   ~> pc[r] \in Task \cup Unwound \/ version # ver[r]

\* The client hears how a run ended, unless the run was superseded or the
\* document moved on: nobody is left on Compiling forever.
RunsAreAnswered ==
  \A r \in Run : pc[r] = "queued"
                   ~> \/ pc[r] \in {"telling", "announcing"}
                      \/ r \in cancelled \/ version # ver[r]

=============================================================================
