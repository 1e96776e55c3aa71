--------------------------- MODULE SchedulerProofs ---------------------------
(***************************************************************************)
(* What Scheduler promises for every number of starts, versions, events    *)
(* and slots.  The safety properties of the runs are consequences of one   *)
(* inductive invariant, IInv, in two layers: Slots (who holds what) and    *)
(* Streams (what a run has been given and has said).                       *)
(***************************************************************************)
EXTENDS Scheduler, TLAPS

\* A start that waits, waits for a run.
WaitsForARun == \A r \in Run : pc[r] = "waiting" => prev[r] \in Run

Typed == TypeOK /\ WaitsForARun

\* Stages before start_run has installed the run.
Before == {"unborn", "sleeping", "aborted", "starting", "dropped"} \cup Holding

\* The start mutex: at most one start is between the lock and the spawn.
OneHolder ==
  \A r, s \in Run : pc[r] \in Holding /\ pc[s] \in Holding => r = s

\* From cancel_internal to the spawn, it and the take of `finished` have emptied
\* the slots, and nothing but the start fills them.
HolderFindsThemEmpty ==
  \A r \in Run : pc[r] \in Emptied
                   => cancelTok = None /\ activeRun = None /\ finishedTok = None

\* A run at work in generated/ is in the finished slot, waited for, or given
\* up on: its token is never lost.
Tracked ==
  \A r \in Run : UsesGenerated(r)
                   => \/ r \in outlived
                      \/ finishedTok = r
                      \/ \E s \in Run : pc[s] = "waiting" /\ prev[s] = r

\* The tokens in the finished slot, and those waited for, are of installed runs.
TokensAreOfRuns ==
  /\ finishedTok # None => pc[finishedTok] \notin Before
  /\ \A r \in Run : pc[r] = "waiting" => pc[prev[r]] \notin Before

\* Only an installed run can have been cancelled.
FreshUntilInstalled == \A r \in Run : pc[r] \in Before => r \notin cancelled

\* Between the halves of document_updated no auto run is pending.
ClearedIsEmpty == loop = "cleared" => debounce = None

SlotInv ==
  /\ OneHolder
  /\ HolderFindsThemEmpty
  /\ Tracked
  /\ TokensAreOfRuns
  /\ FreshUntilInstalled
  /\ ClearedIsEmpty
  /\ OnePendingAutoRun
  /\ SlotsAgree
  /\ NoOrphanRun

\* The receiver in the session is that of the run about to read it.
ReceiverIsItsOwn ==
  \A r \in Run : r \notin outlived /\ pc[r] \in {"placed", "queued", "running"}
                   => liveStdin \in {None, r}

\* Nothing is streamed before the run is installed, and all of it has been
\* when the result is told.
StreamIsDrained ==
  \A r \in Run : /\ pc[r] \in Before => queue[r] = 0 /\ fwd[r] = "idle" /\ late[r] = 0
                 /\ pc[r] = "telling" => queue[r] = 0 /\ fwd[r] = "idle"

\* A run that has spoken out of turn will not speak again.
LateIsLast ==
  \A r \in Run : late[r] # 0 => /\ activeRun # r
                                /\ fwd[r] = "idle"
                                /\ pc[r] # "telling"

StreamInv ==
  /\ InputReachesItsRun
  /\ ReceiverIsItsOwn
  /\ AtMostOneLateEvent
  /\ StreamIsDrained
  /\ LateIsLast

IInv == Typed /\ SlotInv /\ StreamInv

-----------------------------------------------------------------------------
(* Types.                                                                  *)

USE NoneAssumption, BoundAssumption, KindsAssumption
USE DEF doc, inner, calls, task, Maybe, Emptied, Holding, Task, Unwound, Finished, Stages,
        AllKinds, AllModes

\* Every step, message loop and tasks alike, keeps every variable in its type.
LEMMA TypeStep == Typed /\ [Next]_vars => Typed'
<1> SUFFICES ASSUME Typed, [Next]_vars PROVE Typed'
  OBVIOUS
<1> USE DEF Typed, TypeOK, WaitsForARun
<1>1. CASE Edit
  BY <1>1 DEF Edit
<1>2. CASE EditWithoutRunner
  BY <1>2 DEF EditWithoutRunner
<1>3. CASE Touch
  BY <1>3 DEF Touch
<1>4. CASE DocumentCancels
  BY <1>4 DEF DocumentCancels, CancelInternal, FireToken, Aborted
<1>5. CASE DocumentIdles
  BY <1>5 DEF DocumentIdles
<1>6. CASE RunCancel
  BY <1>6 DEF RunCancel, CancelInternal, FireToken, Aborted
<1>7. CASE WriteEof
  BY <1>7 DEF WriteEof
<1>8. CASE Close
  BY <1>8 DEF Close, CancelInternal, FireToken, Aborted
<1>9. ASSUME NEW r \in Run, DocumentSchedules(r) PROVE Typed'
  BY <1>9 DEF DocumentSchedules, Request, Goto
<1>10. ASSUME NEW r \in Run, RunRequest(r) PROVE Typed'
  BY <1>10 DEF RunRequest, Request, Goto
<1>11. ASSUME NEW r \in Run, DepsInstalled(r) PROVE Typed'
  BY <1>11 DEF DepsInstalled, Request, Goto
<1>12. ASSUME NEW r \in Run, DebounceFires(r) PROVE Typed'
  BY <1>12 DEF DebounceFires, Goto
<1>13. ASSUME NEW r \in Run, StartRefused(r) PROVE Typed'
  BY <1>13 DEF StartRefused, Goto
<1>14. ASSUME NEW r \in Run, StartAccepted(r) PROVE Typed'
  BY <1>14 DEF StartAccepted, Goto
<1>15. ASSUME NEW r \in Run, Supersede(r) PROVE Typed'
  BY <1>15 DEF Supersede, FireToken, Aborted
<1>16. ASSUME NEW r \in Run, PreviousEnded(r) PROVE Typed'
  BY <1>16 DEF PreviousEnded, WaitIsOver, Goto
<1>17. ASSUME NEW r \in Run, GraceExpires(r) PROVE Typed'
  BY <1>17 DEF GraceExpires, WaitIsOver, Goto
<1>18. ASSUME NEW r \in Run, PlaceInput(r) PROVE Typed'
  BY <1>18 DEF PlaceInput, Goto
<1>19. ASSUME NEW r \in Run, Install(r) PROVE Typed'
  BY <1>19 DEF Install, Goto
<1>20. ASSUME NEW r \in Run, AcquireSlot(r) PROVE Typed'
  BY <1>20 DEF AcquireSlot, Progress, Goto
<1>21. ASSUME NEW r \in Run, LeaveQueue(r) PROVE Typed'
  BY <1>21 DEF LeaveQueue, Progress, Goto
<1>22. ASSUME NEW r \in Run, RunnerEnds(r) PROVE Typed'
  BY <1>22 DEF RunnerEnds, Progress, Goto
<1>23. ASSUME NEW r \in Run, TaskChecks(r) PROVE Typed'
  BY <1>23 DEF TaskChecks, Progress, Goto, Current
<1>24. ASSUME NEW r \in Run, TaskTells(r) PROVE Typed'
  BY <1>24 DEF TaskTells, Goto, Speak
<1>25. ASSUME NEW r \in Run, TaskCleans(r) PROVE Typed'
  BY <1>25 DEF TaskCleans, Goto
<1>26. ASSUME NEW r \in Run, WatchdogWakes(r) PROVE Typed'
  BY <1>26 DEF WatchdogWakes, Goto
<1>27. ASSUME NEW r \in Run, WatchdogResets(r) PROVE Typed'
  BY <1>27 DEF WatchdogResets, Goto
<1>28. ASSUME NEW r \in Run, WatchdogTells(r) PROVE Typed'
  BY <1>28 DEF WatchdogTells, Progress, Goto
<1>29. ASSUME NEW r \in Run, ForwarderChecks(r) PROVE Typed'
  BY <1>29 DEF ForwarderChecks, Current
<1>30. ASSUME NEW r \in Run, ForwarderSends(r) PROVE Typed'
  BY <1>30 DEF ForwarderSends, Speak
<1>31. ASSUME NEW r \in Run, Emit(r) PROVE Typed'
  BY <1>31 DEF Emit
<1>32. ASSUME NEW r \in Run, TakeStdin(r) PROVE Typed'
  BY <1>32 DEF TakeStdin
<1>33. ASSUME NEW r \in Run, RunnerPanics(r) PROVE Typed'
  BY <1>33 DEF RunnerPanics, Progress, Goto
<1>34. ASSUME NEW r \in Run, IdleNoticed(r) PROVE Typed'
  BY <1>34 DEF IdleNoticed
<1>35. ASSUME NEW r \in Run, IdleStops(r) PROVE Typed'
  BY <1>35 DEF IdleStops, CancelInternal, FireToken, Aborted
<1>36. CASE AtRest \/ UNCHANGED vars
  BY <1>36 DEF AtRest, vars
<1> QED
  BY <1>1, <1>2, <1>3, <1>4, <1>5, <1>6, <1>7, <1>8, <1>9, <1>10, <1>11, <1>12,
     <1>13, <1>14, <1>15, <1>16, <1>17, <1>18, <1>19, <1>20, <1>21, <1>22, <1>23, <1>24, <1>25,
     <1>26, <1>27, <1>28, <1>29, <1>30, <1>31, <1>32, <1>33, <1>34, <1>35, <1>36
  DEF Next, Loop, Start, TaskSteps, ForwarderSteps, Whims

\* TypeOK holds in every reachable state, whatever the constants.
THEOREM TypeCorrect == Spec => []TypeOK
<1>1. Init => Typed
  BY DEF Init, Typed, TypeOK, WaitsForARun
<1>2. Typed /\ [Next]_vars => Typed'
  BY TypeStep
<1>3. Typed => TypeOK
  BY DEF Typed
<1> QED
  BY <1>1, <1>2, <1>3, PTL DEF Spec

-----------------------------------------------------------------------------
(* Who holds what.                                                         *)

\* Every step keeps the slots, tokens and stages in agreement.
LEMMA SlotStep == Typed /\ SlotInv /\ [Next]_vars => SlotInv'
<1> SUFFICES ASSUME Typed, SlotInv, [Next]_vars PROVE SlotInv'
  OBVIOUS
<1> USE DEF Typed, TypeOK, WaitsForARun, SlotInv, OneHolder, HolderFindsThemEmpty,
            Tracked, TokensAreOfRuns, FreshUntilInstalled, ClearedIsEmpty,
            OnePendingAutoRun, SlotsAgree, NoOrphanRun, UsesGenerated, Before
<1>1. CASE Edit
  BY <1>1 DEF Edit
<1>2. CASE EditWithoutRunner
  BY <1>2 DEF EditWithoutRunner
<1>3. CASE Touch
  BY <1>3 DEF Touch
<1>4. CASE DocumentCancels
  BY <1>4 DEF DocumentCancels, CancelInternal, FireToken, Aborted
<1>5. CASE DocumentIdles
  BY <1>5 DEF DocumentIdles
<1>6. CASE RunCancel
  BY <1>6 DEF RunCancel, CancelInternal, FireToken, Aborted
<1>7. CASE WriteEof
  BY <1>7 DEF WriteEof
<1>8. CASE Close
  BY <1>8 DEF Close, CancelInternal, FireToken, Aborted
<1>9. ASSUME NEW r \in Run, DocumentSchedules(r) PROVE SlotInv'
  BY <1>9 DEF DocumentSchedules, Request, Goto
<1>10. ASSUME NEW r \in Run, RunRequest(r) PROVE SlotInv'
  BY <1>10 DEF RunRequest, Request, Goto
<1>11. ASSUME NEW r \in Run, DepsInstalled(r) PROVE SlotInv'
  BY <1>11 DEF DepsInstalled, Request, Goto
<1>12. ASSUME NEW r \in Run, DebounceFires(r) PROVE SlotInv'
  BY <1>12 DEF DebounceFires, Goto
<1>13. ASSUME NEW r \in Run, StartRefused(r) PROVE SlotInv'
  BY <1>13 DEF StartRefused, Goto
<1>14. ASSUME NEW r \in Run, StartAccepted(r) PROVE SlotInv'
  BY <1>14 DEF StartAccepted, StartHeld, Goto
<1>15. ASSUME NEW r \in Run, Supersede(r) PROVE SlotInv'
  <2>1. debounce # r
    BY <1>15 DEF Supersede
  <2>2. \A q \in Run : pc'[q] = IF q = r THEN IF finishedTok = None THEN "ready" ELSE "waiting"
                               ELSE IF q = debounce THEN "aborted" ELSE pc[q]
    BY <1>15, <2>1 DEF Supersede, Aborted
  <2>3. \A q \in Run : pc'[q] \in Holding => q = r
    BY <1>15, <2>2 DEF Supersede
  <2>4. OneHolder'
    BY <2>3
  <2>5. HolderFindsThemEmpty'
    BY <1>15 DEF Supersede, FireToken
  <2>6. Tracked'
    <3> SUFFICES ASSUME NEW q \in Run, UsesGenerated(q)', q \notin outlived',
                        finishedTok' # q
                 PROVE  \E s \in Run : pc'[s] = "waiting" /\ prev'[s] = q
      OBVIOUS
    <3>1. UsesGenerated(q) /\ q \notin outlived
      BY <1>15, <2>2 DEF Supersede
    <3>2. finishedTok = q
      BY <1>15, <3>1 DEF Supersede
    <3> QED
      BY <1>15, <2>2, <3>2 DEF Supersede
  <2>7. TokensAreOfRuns' /\ FreshUntilInstalled'
    BY <1>15, <2>2 DEF Supersede, FireToken
  <2>8. ClearedIsEmpty' /\ OnePendingAutoRun'
    BY <1>15, <2>2 DEF Supersede
  <2>9. SlotsAgree' /\ NoOrphanRun'
    BY <1>15, <2>2 DEF Supersede, FireToken
  <2> QED
    BY <2>4, <2>5, <2>6, <2>7, <2>8, <2>9
<1>16. ASSUME NEW r \in Run, PreviousEnded(r) PROVE SlotInv'
  BY <1>16 DEF PreviousEnded, WaitIsOver, Goto
<1>17. ASSUME NEW r \in Run, GraceExpires(r) PROVE SlotInv'
  BY <1>17 DEF GraceExpires, WaitIsOver, Goto
<1>18. ASSUME NEW r \in Run, PlaceInput(r) PROVE SlotInv'
  BY <1>18 DEF PlaceInput, Goto
<1>19. ASSUME NEW r \in Run, Install(r) PROVE SlotInv'
  BY <1>19 DEF Install, Goto
<1>20. ASSUME NEW r \in Run, AcquireSlot(r) PROVE SlotInv'
  BY <1>20 DEF AcquireSlot, Progress, Goto
<1>21. ASSUME NEW r \in Run, LeaveQueue(r) PROVE SlotInv'
  BY <1>21 DEF LeaveQueue, Progress, Goto
<1>22. ASSUME NEW r \in Run, RunnerEnds(r) PROVE SlotInv'
  BY <1>22 DEF RunnerEnds, Progress, Goto
<1>23. ASSUME NEW r \in Run, TaskChecks(r) PROVE SlotInv'
  BY <1>23 DEF TaskChecks, Progress, Goto, Current
<1>24. ASSUME NEW r \in Run, TaskTells(r) PROVE SlotInv'
  BY <1>24 DEF TaskTells, Goto, Speak
<1>25. ASSUME NEW r \in Run, TaskCleans(r) PROVE SlotInv'
  BY <1>25 DEF TaskCleans, Goto
<1>26. ASSUME NEW r \in Run, WatchdogWakes(r) PROVE SlotInv'
  BY <1>26 DEF WatchdogWakes, Goto
<1>27. ASSUME NEW r \in Run, WatchdogResets(r) PROVE SlotInv'
  BY <1>27 DEF WatchdogResets, Goto
<1>28. ASSUME NEW r \in Run, WatchdogTells(r) PROVE SlotInv'
  BY <1>28 DEF WatchdogTells, Progress, Goto
<1>29. ASSUME NEW r \in Run, ForwarderChecks(r) PROVE SlotInv'
  BY <1>29 DEF ForwarderChecks, Current
<1>30. ASSUME NEW r \in Run, ForwarderSends(r) PROVE SlotInv'
  BY <1>30 DEF ForwarderSends, Speak
<1>31. ASSUME NEW r \in Run, Emit(r) PROVE SlotInv'
  BY <1>31 DEF Emit
<1>32. ASSUME NEW r \in Run, TakeStdin(r) PROVE SlotInv'
  BY <1>32 DEF TakeStdin
<1>33. ASSUME NEW r \in Run, RunnerPanics(r) PROVE SlotInv'
  BY <1>33 DEF RunnerPanics, Progress, Goto
<1>34. ASSUME NEW r \in Run, IdleNoticed(r) PROVE SlotInv'
  BY <1>34 DEF IdleNoticed
<1>35. ASSUME NEW r \in Run, IdleStops(r) PROVE SlotInv'
  BY <1>35 DEF IdleStops, CancelInternal, FireToken, Aborted
<1>36. CASE AtRest \/ UNCHANGED vars
  BY <1>36 DEF AtRest, vars
<1> QED
  BY <1>1, <1>2, <1>3, <1>4, <1>5, <1>6, <1>7, <1>8, <1>9, <1>10, <1>11, <1>12,
     <1>13, <1>14, <1>15, <1>16, <1>17, <1>18, <1>19, <1>20, <1>21, <1>22, <1>23, <1>24, <1>25,
     <1>26, <1>27, <1>28, <1>29, <1>30, <1>31, <1>32, <1>33, <1>34, <1>35, <1>36
  DEF Next, Loop, Start, TaskSteps, ForwarderSteps, Whims

-----------------------------------------------------------------------------
(* What a run is given and says.                                           *)

\* Every step keeps what a run has been given and has said in order; the events
\* of Inner's slots come from SlotInv.
LEMMA StreamStep == Typed /\ SlotInv /\ StreamInv /\ [Next]_vars => StreamInv'
<1> SUFFICES ASSUME Typed, SlotInv, StreamInv, [Next]_vars PROVE StreamInv'
  OBVIOUS
<1> USE DEF Typed, TypeOK, SlotInv, OneHolder, HolderFindsThemEmpty, Tracked,
            SlotsAgree, OnePendingAutoRun, UsesGenerated, Before, StreamInv,
            InputReachesItsRun, ReceiverIsItsOwn, AtMostOneLateEvent, StreamIsDrained,
            LateIsLast
<1>1. CASE Edit
  BY <1>1 DEF Edit
<1>2. CASE EditWithoutRunner
  BY <1>2 DEF EditWithoutRunner
<1>3. CASE Touch
  BY <1>3 DEF Touch
<1>4. CASE DocumentCancels
  BY <1>4 DEF DocumentCancels, CancelInternal, FireToken, Aborted
<1>5. CASE DocumentIdles
  BY <1>5 DEF DocumentIdles
<1>6. CASE RunCancel
  BY <1>6 DEF RunCancel, CancelInternal, FireToken, Aborted
<1>7. CASE WriteEof
  BY <1>7 DEF WriteEof
<1>8. CASE Close
  BY <1>8 DEF Close, CancelInternal, FireToken, Aborted
<1>9. ASSUME NEW r \in Run, DocumentSchedules(r) PROVE StreamInv'
  BY <1>9 DEF DocumentSchedules, Request, Goto
<1>10. ASSUME NEW r \in Run, RunRequest(r) PROVE StreamInv'
  BY <1>10 DEF RunRequest, Request, Goto
<1>11. ASSUME NEW r \in Run, DepsInstalled(r) PROVE StreamInv'
  BY <1>11 DEF DepsInstalled, Request, Goto
<1>12. ASSUME NEW r \in Run, DebounceFires(r) PROVE StreamInv'
  BY <1>12 DEF DebounceFires, Goto
<1>13. ASSUME NEW r \in Run, StartRefused(r) PROVE StreamInv'
  BY <1>13 DEF StartRefused, Goto
<1>14. ASSUME NEW r \in Run, StartAccepted(r) PROVE StreamInv'
  BY <1>14 DEF StartAccepted, Goto
<1>15. ASSUME NEW r \in Run, Supersede(r) PROVE StreamInv'
  BY <1>15 DEF Supersede, FireToken, Aborted
<1>16. ASSUME NEW r \in Run, PreviousEnded(r) PROVE StreamInv'
  BY <1>16 DEF PreviousEnded, WaitIsOver, Goto
<1>17. ASSUME NEW r \in Run, GraceExpires(r) PROVE StreamInv'
  BY <1>17 DEF GraceExpires, WaitIsOver, Goto
<1>18. ASSUME NEW r \in Run, PlaceInput(r) PROVE StreamInv'
  BY <1>18 DEF PlaceInput, Goto
<1>19. ASSUME NEW r \in Run, Install(r) PROVE StreamInv'
  BY <1>19 DEF Install, Goto
<1>20. ASSUME NEW r \in Run, AcquireSlot(r) PROVE StreamInv'
  BY <1>20 DEF AcquireSlot, Progress, Goto
<1>21. ASSUME NEW r \in Run, LeaveQueue(r) PROVE StreamInv'
  BY <1>21 DEF LeaveQueue, Progress, Goto
<1>22. ASSUME NEW r \in Run, RunnerEnds(r) PROVE StreamInv'
  BY <1>22 DEF RunnerEnds, Progress, Goto
<1>23. ASSUME NEW r \in Run, TaskChecks(r) PROVE StreamInv'
  BY <1>23 DEF TaskChecks, Progress, Goto, Current
<1>24. ASSUME NEW r \in Run, TaskTells(r) PROVE StreamInv'
  BY <1>24 DEF TaskTells, Goto, Speak
<1>25. ASSUME NEW r \in Run, TaskCleans(r) PROVE StreamInv'
  BY <1>25 DEF TaskCleans, Goto
<1>26. ASSUME NEW r \in Run, WatchdogWakes(r) PROVE StreamInv'
  BY <1>26 DEF WatchdogWakes, Goto
<1>27. ASSUME NEW r \in Run, WatchdogResets(r) PROVE StreamInv'
  BY <1>27 DEF WatchdogResets, Goto
<1>28. ASSUME NEW r \in Run, WatchdogTells(r) PROVE StreamInv'
  BY <1>28 DEF WatchdogTells, Progress, Goto
<1>29. ASSUME NEW r \in Run, ForwarderChecks(r) PROVE StreamInv'
  BY <1>29 DEF ForwarderChecks, Current
<1>30. ASSUME NEW r \in Run, ForwarderSends(r) PROVE StreamInv'
  BY <1>30 DEF ForwarderSends, Speak
<1>31. ASSUME NEW r \in Run, Emit(r) PROVE StreamInv'
  BY <1>31 DEF Emit
<1>32. ASSUME NEW r \in Run, TakeStdin(r) PROVE StreamInv'
  BY <1>32 DEF TakeStdin
<1>33. ASSUME NEW r \in Run, RunnerPanics(r) PROVE StreamInv'
  BY <1>33 DEF RunnerPanics, Progress, Goto
<1>34. ASSUME NEW r \in Run, IdleNoticed(r) PROVE StreamInv'
  BY <1>34 DEF IdleNoticed
<1>35. ASSUME NEW r \in Run, IdleStops(r) PROVE StreamInv'
  BY <1>35 DEF IdleStops, CancelInternal, FireToken, Aborted
<1>36. CASE AtRest \/ UNCHANGED vars
  BY <1>36 DEF AtRest, vars
<1> QED
  BY <1>1, <1>2, <1>3, <1>4, <1>5, <1>6, <1>7, <1>8, <1>9, <1>10, <1>11, <1>12,
     <1>13, <1>14, <1>15, <1>16, <1>17, <1>18, <1>19, <1>20, <1>21, <1>22, <1>23, <1>24, <1>25,
     <1>26, <1>27, <1>28, <1>29, <1>30, <1>31, <1>32, <1>33, <1>34, <1>35, <1>36
  DEF Next, Loop, Start, TaskSteps, ForwarderSteps, Whims

-----------------------------------------------------------------------------

\* The inductive invariant holds in every reachable state.
THEOREM Inductive == Spec => []IInv
<1>1. Init => IInv
  BY DEF Init, IInv, Typed, TypeOK, WaitsForARun, SlotInv, OneHolder, HolderFindsThemEmpty,
         Tracked, TokensAreOfRuns, UsesGenerated, FreshUntilInstalled, ClearedIsEmpty, OnePendingAutoRun,
         SlotsAgree, NoOrphanRun, StreamInv, InputReachesItsRun, ReceiverIsItsOwn,
         AtMostOneLateEvent, StreamIsDrained, LateIsLast, Before
<1>2. IInv /\ [Next]_vars => IInv'
  BY TypeStep, SlotStep, StreamStep DEF IInv
<1> QED
  BY <1>1, <1>2, PTL DEF Spec

\* start_run never puts a run beside one that has not wound down, unless that
\* one outlived its grace.
THEOREM Exclusion == Spec => []GeneratedIsExclusive
<1>1. IInv => GeneratedIsExclusive
  <2> SUFFICES ASSUME IInv, NEW r \in Run, NEW s \in Run, r # s,
                      UsesGenerated(r), UsesGenerated(s),
                      r \notin outlived, s \notin outlived
               PROVE  FALSE
    BY DEF GeneratedIsExclusive
  <2> USE DEF IInv, SlotInv, Tracked, HolderFindsThemEmpty, OneHolder
  <2>1. CASE finishedTok \in {r, s}
    BY <2>1
  <2>2. CASE finishedTok \notin {r, s}
    BY <2>2
  <2> QED
    BY <2>1, <2>2
<1> QED
  BY <1>1, Inductive, PTL

\* A run at work is cancelled, or cancel_internal would cancel it.
THEOREM Cancellable == Spec => []NoOrphanRun
<1>1. IInv => NoOrphanRun
  BY DEF IInv, SlotInv
<1> QED
  BY <1>1, Inductive, PTL

\* The slots of Inner describe one run, and one that is going.
THEOREM Agreement == Spec => []SlotsAgree
<1>1. IInv => SlotsAgree
  BY DEF IInv, SlotInv
<1> QED
  BY <1>1, Inductive, PTL

\* The debounce slot always holds the only auto run that may still fire.
THEOREM OnePending == Spec => []OnePendingAutoRun
<1>1. IInv => OnePendingAutoRun
  BY DEF IInv, SlotInv
<1> QED
  BY <1>1, Inductive, PTL

\* A program that was not given up on reads its own run's input.
THEOREM OwnInput == Spec => []InputReachesItsRun
<1>1. IInv => InputReachesItsRun
  BY DEF IInv, StreamInv
<1> QED
  BY <1>1, Inductive, PTL

\* A run sends at most one event after it has been superseded.
THEOREM OneLateEvent == Spec => []AtMostOneLateEvent
<1>1. IInv => AtMostOneLateEvent
  BY DEF IInv, StreamInv
<1> QED
  BY <1>1, Inductive, PTL

-----------------------------------------------------------------------------
(* The promise of RunSlot.                                                 *)

\* Every step of the scheduler is a step of RunSlot or leaves it alone.
LEMMA RefinementStep == IInv /\ [Next]_vars => [Slot!Next]_Slot!slot
<1> SUFFICES ASSUME IInv, [Next]_vars PROVE [Slot!Next]_Slot!slot
  OBVIOUS
<1> USE DEF IInv, Typed, TypeOK, WaitsForARun, SlotInv, OneHolder, HolderFindsThemEmpty,
            Tracked, TokensAreOfRuns, OnePendingAutoRun, UsesGenerated, Before,
            Busy, Begun, Slot!Next, Slot!slot
<1>1. CASE Edit
  BY <1>1 DEF Edit
<1>2. CASE EditWithoutRunner
  BY <1>2 DEF EditWithoutRunner
<1>3. CASE Touch
  BY <1>3 DEF Touch
<1>4. CASE DocumentCancels
  <2>1. Busy' = Busy /\ Begun' = Begun /\ outlived' = outlived
    BY <1>4 DEF DocumentCancels, CancelInternal, FireToken, Aborted
  <2>2. activeRun' \in {activeRun, None}
    BY <1>4 DEF DocumentCancels, CancelInternal, FireToken, Aborted
  <2> QED
    BY <2>1, <2>2 DEF Slot!Hide
<1>5. CASE DocumentIdles
  BY <1>5 DEF DocumentIdles
<1>6. CASE RunCancel
  <2>1. Busy' = Busy /\ Begun' = Begun /\ outlived' = outlived
    BY <1>6 DEF RunCancel, CancelInternal, FireToken, Aborted
  <2>2. activeRun' \in {activeRun, None}
    BY <1>6 DEF RunCancel, CancelInternal, FireToken, Aborted
  <2> QED
    BY <2>1, <2>2 DEF Slot!Hide
<1>7. CASE WriteEof
  BY <1>7 DEF WriteEof
<1>8. CASE Close
  <2>1. Busy' = Busy /\ Begun' = Begun /\ outlived' = outlived
    BY <1>8 DEF Close, CancelInternal, FireToken, Aborted
  <2>2. activeRun' \in {activeRun, None}
    BY <1>8 DEF Close, CancelInternal, FireToken, Aborted
  <2> QED
    BY <2>1, <2>2 DEF Slot!Hide
<1>9. ASSUME NEW r \in Run, DocumentSchedules(r) PROVE [Slot!Next]_Slot!slot
  BY <1>9 DEF DocumentSchedules, Request, Goto
<1>10. ASSUME NEW r \in Run, RunRequest(r) PROVE [Slot!Next]_Slot!slot
  BY <1>10 DEF RunRequest, Request, Goto
<1>11. ASSUME NEW r \in Run, DepsInstalled(r) PROVE [Slot!Next]_Slot!slot
  BY <1>11 DEF DepsInstalled, Request, Goto
<1>12. ASSUME NEW r \in Run, DebounceFires(r) PROVE [Slot!Next]_Slot!slot
  BY <1>12 DEF DebounceFires, Goto
<1>13. ASSUME NEW r \in Run, StartRefused(r) PROVE [Slot!Next]_Slot!slot
  BY <1>13 DEF StartRefused, Goto
<1>14. ASSUME NEW r \in Run, StartAccepted(r) PROVE [Slot!Next]_Slot!slot
  BY <1>14 DEF StartAccepted, Goto
<1>15. ASSUME NEW r \in Run, Supersede(r) PROVE [Slot!Next]_Slot!slot
  <2>1. Busy' = Busy /\ Begun' = Begun /\ outlived' = outlived
    BY <1>15 DEF Supersede, FireToken, Aborted
  <2>2. activeRun' \in {activeRun, None}
    BY <1>15 DEF Supersede, FireToken, Aborted
  <2> QED
    BY <2>1, <2>2 DEF Slot!Hide
<1>16. ASSUME NEW r \in Run, PreviousEnded(r) PROVE [Slot!Next]_Slot!slot
  BY <1>16 DEF PreviousEnded, WaitIsOver, Goto
<1>17. ASSUME NEW r \in Run, GraceExpires(r) PROVE [Slot!Next]_Slot!slot
  <2>1. prev[r] \in Busy /\ activeRun # prev[r]
    BY <1>17 DEF GraceExpires
  <2>2. Busy' = Busy /\ Begun' = Begun /\ activeRun' = activeRun
    BY <1>17 DEF GraceExpires, WaitIsOver, Goto
  <2>3. outlived' = outlived \cup {prev[r]}
    BY <1>17 DEF GraceExpires
  <2> QED
    BY <2>1, <2>2, <2>3 DEF Slot!GiveUp
<1>18. ASSUME NEW r \in Run, PlaceInput(r) PROVE [Slot!Next]_Slot!slot
  BY <1>18 DEF PlaceInput, Goto
<1>19. ASSUME NEW r \in Run, Install(r) PROVE [Slot!Next]_Slot!slot
  <2>1. Busy \subseteq outlived /\ r \notin Begun /\ activeRun = None
    BY <1>19 DEF Install
  <2>2. activeRun' = r /\ outlived' = outlived
    BY <1>19 DEF Install
  <2>3. Busy' = Busy \cup {r} /\ Begun' = Begun \cup {r}
    BY <1>19 DEF Install, Goto
  <2> QED
    BY <2>1, <2>2, <2>3 DEF Slot!Begin
<1>20. ASSUME NEW r \in Run, AcquireSlot(r) PROVE [Slot!Next]_Slot!slot
  BY <1>20 DEF AcquireSlot, Progress, Goto
<1>21. ASSUME NEW r \in Run, LeaveQueue(r) PROVE [Slot!Next]_Slot!slot
  BY <1>21 DEF LeaveQueue, Progress, Goto
<1>22. ASSUME NEW r \in Run, RunnerEnds(r) PROVE [Slot!Next]_Slot!slot
  BY <1>22 DEF RunnerEnds, Progress, Goto
<1>23. ASSUME NEW r \in Run, TaskChecks(r) PROVE [Slot!Next]_Slot!slot
  BY <1>23 DEF TaskChecks, Progress, Goto, Current
<1>24. ASSUME NEW r \in Run, TaskTells(r) PROVE [Slot!Next]_Slot!slot
  BY <1>24 DEF TaskTells, Goto, Speak
<1>25. ASSUME NEW r \in Run, TaskCleans(r) PROVE [Slot!Next]_Slot!slot
  <2>1. Busy' = Busy /\ Begun' = Begun /\ outlived' = outlived
    BY <1>25 DEF TaskCleans, Goto
  <2>2. activeRun' \in {activeRun, None}
    BY <1>25 DEF TaskCleans, Goto
  <2> QED
    BY <2>1, <2>2 DEF Slot!Hide
<1>26. ASSUME NEW r \in Run, WatchdogWakes(r) PROVE [Slot!Next]_Slot!slot
  <2>1. r \in Busy /\ Busy' = Busy \ {r} /\ Begun' = Begun
    BY <1>26 DEF WatchdogWakes, Goto
  <2>2. activeRun' = activeRun /\ outlived' = outlived
    BY <1>26 DEF WatchdogWakes
  <2> QED
    BY <2>1, <2>2 DEF Slot!Leave
<1>27. ASSUME NEW r \in Run, WatchdogResets(r) PROVE [Slot!Next]_Slot!slot
  <2>1. Busy' = Busy /\ Begun' = Begun /\ outlived' = outlived
    BY <1>27 DEF WatchdogResets, Goto
  <2>2. activeRun' \in {activeRun, None}
    BY <1>27 DEF WatchdogResets, Goto
  <2> QED
    BY <2>1, <2>2 DEF Slot!Hide
<1>28. ASSUME NEW r \in Run, WatchdogTells(r) PROVE [Slot!Next]_Slot!slot
  BY <1>28 DEF WatchdogTells, Progress, Goto
<1>29. ASSUME NEW r \in Run, ForwarderChecks(r) PROVE [Slot!Next]_Slot!slot
  BY <1>29 DEF ForwarderChecks, Current
<1>30. ASSUME NEW r \in Run, ForwarderSends(r) PROVE [Slot!Next]_Slot!slot
  BY <1>30 DEF ForwarderSends, Speak
<1>31. ASSUME NEW r \in Run, Emit(r) PROVE [Slot!Next]_Slot!slot
  BY <1>31 DEF Emit
<1>32. ASSUME NEW r \in Run, TakeStdin(r) PROVE [Slot!Next]_Slot!slot
  BY <1>32 DEF TakeStdin
<1>33. ASSUME NEW r \in Run, RunnerPanics(r) PROVE [Slot!Next]_Slot!slot
  BY <1>33 DEF RunnerPanics, Progress, Goto
<1>34. ASSUME NEW r \in Run, IdleNoticed(r) PROVE [Slot!Next]_Slot!slot
  BY <1>34 DEF IdleNoticed
<1>35. ASSUME NEW r \in Run, IdleStops(r) PROVE [Slot!Next]_Slot!slot
  <2>1. Busy' = Busy /\ Begun' = Begun /\ outlived' = outlived
    BY <1>35 DEF IdleStops, CancelInternal, FireToken, Aborted
  <2>2. activeRun' \in {activeRun, None}
    BY <1>35 DEF IdleStops, CancelInternal, FireToken, Aborted
  <2> QED
    BY <2>1, <2>2 DEF Slot!Hide
<1>36. CASE AtRest \/ UNCHANGED vars
  BY <1>36 DEF AtRest, vars
<1> QED
  BY <1>1, <1>2, <1>3, <1>4, <1>5, <1>6, <1>7, <1>8, <1>9, <1>10, <1>11, <1>12,
     <1>13, <1>14, <1>15, <1>16, <1>17, <1>18, <1>19, <1>20, <1>21, <1>22, <1>23, <1>24, <1>25,
     <1>26, <1>27, <1>28, <1>29, <1>30, <1>31, <1>32, <1>33, <1>34, <1>35, <1>36
  DEF Next, Loop, Start, TaskSteps, ForwarderSteps, Whims

\* The scheduler implements the abstract run slot: one run shown, generated/ to
\* itself but for runs given up on, and no run that has ended comes back.
THEOREM Refinement == Spec => ImplementsRunSlot
<1>1. Init => Slot!Init
  BY DEF Init, Slot!Init, Busy, Begun, UsesGenerated
<1>2. IInv /\ [Next]_vars => [Slot!Next]_Slot!slot
  BY RefinementStep
<1> QED
  BY <1>1, <1>2, Inductive, PTL DEF Spec, ImplementsRunSlot, Slot!Spec

=============================================================================
