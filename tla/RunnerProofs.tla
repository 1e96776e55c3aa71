---------------------------- MODULE RunnerProofs ----------------------------
(***************************************************************************)
(* What becomes of the processes of a run and what is said of it, for runs *)
(* of every kind and any number of output pipes.  A call that has returned *)
(* or was dropped has no leader (Sound, a property of each call by itself);*)
(* which calls may be under way follows from the stage of the runner       *)
(* (Staged); so that a runner that returns leaves none.  Of what a call    *)
(* ends with, and of what the caches hold, it follows who is to blame for  *)
(* a compile error (Blamed) and when tests are not summed up (Outcome).    *)
(***************************************************************************)
EXTENDS Runner, TLAPS

\* Told to stop by the run, the clock or a limit.
Stopped(s) == s.cancelled \/ s.timedOut \/ s.limit # None

\* A call between spawn and return has its leader's exit still to come.  While
\* it goes on it has a killer only if it was told to stop: the one that the end
\* of the drain arms finds the call finished.
Sound(s) ==
  /\ s.pc # "running" => s.leader # "alive"
  /\ s.exited => s.leader = "gone"
  /\ (s.pc \notin {"returned", "dropped"} /\ s.killer \in {"armed", "late"}) => Stopped(s)
  /\ s.stranger = "killed" => s.pc = "dropped" \/ Stopped(s)

CallsSound == call \in [Call -> CallState] /\ \A c \in Call : Sound(call[c])

\* The stages in which the runner waits for no call of its own.
Quiet == {"over", "file", "compile", "servers", "tests", "await", "deps"}

Fields == {"n", "load", "pc", "left", "diagnosed", "cached", "sound", "upgraded", "cargo",
           "verdict", "summed", "mishaps"}

Staged ==
  /\ Fields \subseteq DOMAIN run
  /\ Running(main) => run.pc \notin Quiet
  /\ Running(check) => run.pc = "program" /\ Lang = "ts"
  /\ Running(side) => run.pc # "over"
  /\ \A c \in Call \ {main, side, check} : ~Running(c)

RunnerInv == CallsSound /\ Staged

-----------------------------------------------------------------------------
(* What is said of a run.                                                  *)

\* Who is to blame for a compile error: the sources, a compiler that was
\* replaced in the middle, or what the run notes as its mishaps.
Blamed ==
  \/ run.load.source # "good" \/ run.upgraded
  \/ run.mishaps \cap {"tool", "disk", "misdated"} # {}
  \/ Lang = "zig" /\ run.load.tests = "ill"

\* A call is told to stop whenever it was cancelled, ran out of time or wrote
\* too much, and cancelled only with the run.
Told ==
  \A c \in Call :
    /\ Stopped(call[c]) => call[c].terminating
    /\ call[c].cancelled => token

\* How a compiler ends, as long as it is the call the runner waits for.
CompilerInv ==
  run.pc \in Compiles \cup {"instrument"} =>
    (call[main].code = "nonzero" => call[main].terminating \/ ~Works)

\* A header that carries a stamp is whole and of that compiler.
CacheInv ==
  /\ host \in [compiler : Nat, header : Nat, dated : Nat, place : Nat, packages : Nat]
  /\ {"pch", "stamp", "importcfg"} \subseteq DOMAIN cache
  /\ cache.stamp # None => cache.pch.whole /\ cache.pch.compiler = cache.stamp.compiler

\* A compiler is given inputs that are in order, unless the cache they are
\* from is known to be the suspect.
StageInv ==
  /\ run.sound \in BOOLEAN /\ run.cached \in BOOLEAN /\ run.upgraded \in BOOLEAN
  /\ run.diagnosed \in BOOLEAN /\ run.summed \in BOOLEAN
  /\ run.pc = "go compile" => run.sound \/ run.cached
  /\ run.diagnosed => run.load.source # "good" \/ "tool" \in run.mishaps
  /\ run.pc = "clang" => run.sound \/ run.upgraded \/ "misdated" \in run.mishaps
  /\ run.pc = "header" => /\ {"whole", "compiler"} \subseteq DOMAIN cache.pch
                          /\ cache.pch.compiler = host.compiler \/ run.upgraded
  /\ run.pc = "zig build" => Lang = "zig"

\* The stages of the tests, when the verdict is there already.
Late == {"tests", "await", "suite", "object", "link"}

VerdictInv ==
  /\ run.verdict \in {"succeeded", "abnormal exit"} => run.pc \in Late \cup {"over"}
  /\ run.verdict = "compile_error" => run.pc = "over" /\ Blamed
  /\ TestsAreSummed

SaidInv == Told /\ CompilerInv /\ CacheInv /\ StageInv /\ VerdictInv

FullInv == RunnerInv /\ SaidInv

-----------------------------------------------------------------------------
(* What a step of the runner does to its calls, and to its verdict.        *)

StartsMain ==
  /\ run.pc # "program"
  /\ \E s \in {Spawned, Unspawned} : call' = [call EXCEPT ![main] = s]
  /\ run'.pc \notin Quiet

DropsSide ==
  /\ ~Running(main) /\ ~Running(check)
  /\ call' = [call EXCEPT ![side] = Dropped(@)]
  /\ run'.pc = "over"

StartsNone ==
  /\ ~Running(main) /\ ~Running(check)
  /\ UNCHANGED call
  /\ run'.pc \in Quiet \ {"over"}

StartsChecked ==
  /\ run.pc # "program"
  /\ \E s, t \in {Spawned, Unspawned} :
       call' = [call EXCEPT ![main] = s, ![check] = IF Lang = "ts" THEN t ELSE @]
  /\ run'.pc = "program"

StartsSide ==
  /\ \E s \in {Spawned, Unspawned} : call' = [call EXCEPT ![side] = s]
  /\ run'.pc = run.pc /\ run'.sound = run.sound

StepEffect ==
  /\ run.pc # "over" /\ run'.load = run.load /\ Fields \subseteq DOMAIN run'
  /\ StartsMain \/ DropsSide \/ StartsNone \/ StartsChecked \/ StartsSide

\* The run goes on, ends, is given its verdict, or ends with it.
Outcome ==
  \/ /\ run'.pc # "over" /\ run'.verdict = run.verdict
     /\ run.pc \in Late => run'.pc \in Late
  \/ /\ run'.pc = "over"
     /\ run'.verdict \notin {"succeeded", "abnormal exit"}
     /\ run'.verdict = "compile_error" => Blamed'
  \/ run'.pc = "tests" /\ run'.verdict \in {"succeeded", "abnormal exit"}
  \/ /\ run'.pc = "over" /\ run.pc \in Late /\ run'.verdict = run.verdict
     /\ run'.summed \/ "unfound" \in run'.mishaps \/ ~HasTests \/ token

Proceeds == StepEffect /\ Outcome /\ StageInv'

-----------------------------------------------------------------------------
(* One call.                                                               *)

LEMMA NamesOfCalls ==
  /\ {main, side, check} \subseteq Call
  /\ main # side /\ main # check /\ side # check
  /\ None \notin Nat /\ None \notin Code /\ None \notin Stream
  /\ None \notin {"succeeded", "compile_error", "abnormal exit"}
  /\ None \notin [compiler : Nat, place : Nat]
BY RunnerAssumption DEF main, side, check

LEMMA CallValues ==
  /\ Idle \in CallState /\ Spawned \in CallState /\ Unspawned \in CallState
  /\ Sound(Idle) /\ Sound(Spawned) /\ Sound(Unspawned)
  /\ Idle.pc = "idle" /\ Spawned.pc = "running" /\ Unspawned.pc = "returned"
BY DEF Idle, Spawned, Unspawned, CallState, Sound

LEMMA DroppedSound ==
  ASSUME NEW s \in CallState, Sound(s)
  PROVE  Dropped(s) \in CallState /\ Sound(Dropped(s)) /\ Dropped(s).pc # "running"
<1> DEFINE v == IF s.code = None THEN "signal" ELSE s.code
<1>1. v \in Code \cup {None}
  BY DEF CallState, Code
<1>2. CASE s.pc = "running"
  <2>1. Dropped(s) = [s EXCEPT !.pc = "dropped", !.leader = "gone", !.code = v]
    BY <1>2 DEF Dropped
  <2> HIDE DEF v
  <2>2. Dropped(s) \in CallState
    BY <1>1, <2>1 DEF CallState
  <2>3. Sound(Dropped(s)) /\ Dropped(s).pc # "running"
    BY <1>2, <2>1 DEF CallState, Sound, Stopped
  <2> QED BY <2>2, <2>3
<1>3. CASE s.pc # "running"
  BY <1>3 DEF Dropped
<1> QED BY <1>2, <1>3

\* A call that goes on or returns as the loop does.
LEMMA SettleSound ==
  ASSUME NEW s \in CallState, Sound(s), s.pc = "running"
  PROVE  Settle(s) \in CallState /\ Sound(Settle(s))
BY DEF Settle, CallState, Sound, Stopped

LEMMA TerminateFields ==
  ASSUME NEW s \in CallState
  PROVE  /\ Terminate(s) \in CallState
         /\ Terminate(s).terminating /\ Terminate(s).cancelled = s.cancelled
         /\ Terminate(s).timedOut = s.timedOut /\ Terminate(s).limit = s.limit
         /\ Terminate(s).code = s.code /\ Terminate(s).pc = s.pc
         /\ Terminate(s).exited = s.exited /\ Terminate(s).leader = s.leader
         /\ Terminate(s).stranger = "killed" => s.stranger = "killed"
<1> DEFINE v == IF s.exited THEN "late" ELSE "armed"
           w == IF s.stranger = "there" THEN "told" ELSE s.stranger
<1>1. v \in {"none", "armed", "late", "over"}
  OBVIOUS
<1>2. w \in {"none", "there", "told", "killed"} /\ (w = "killed" => s.stranger = "killed")
  BY DEF CallState
<1>3. CASE s.terminating
  BY <1>3 DEF Terminate, CallState
<1>4. CASE ~s.terminating
  <2>1. Terminate(s) = [s EXCEPT !.terminating = TRUE, !.killer = v, !.stranger = w]
    BY <1>4 DEF Terminate
  <2> HIDE DEF v, w
  <2> QED BY <1>1, <1>2, <2>1 DEF CallState
<1> QED BY <1>3, <1>4

LEMMA TerminateSound ==
  ASSUME NEW s \in CallState, Sound(s), Stopped(s)
  PROVE  Terminate(s) \in CallState /\ Sound(Terminate(s)) /\ Terminate(s).pc = s.pc
BY TerminateFields DEF Sound, Stopped

\* The end of the drain tells the group to stop, and the call returns with it.
LEMMA DrainedSound ==
  ASSUME NEW s \in CallState, Sound(s), s.pc = "running", s.exited
  PROVE  LET u == Settle([Terminate(s) EXCEPT !.open = {}])
         IN  u \in CallState /\ Sound(u) /\ u.pc = "returned"
<1> DEFINE t == Terminate(s)
<1>1. /\ t \in CallState /\ t.exited /\ t.leader = s.leader /\ t.cancelled = s.cancelled
      /\ t.timedOut = s.timedOut /\ t.limit = s.limit /\ t.pc = s.pc
      /\ t.stranger = "killed" => s.stranger = "killed"
  BY TerminateFields
<1> HIDE DEF t
<1>2. Settle([t EXCEPT !.open = {}]) = [t EXCEPT !.open = {}, !.pc = "returned"]
  BY <1>1 DEF Settle, CallState
<1>3. s.leader = "gone" /\ (s.stranger = "killed" => s.pc = "dropped" \/ Stopped(s))
  BY DEF Sound
<1> DEFINE u == [t EXCEPT !.open = {}, !.pc = "returned"]
<1>4. /\ u \in CallState /\ u.pc = "returned" /\ u.leader = "gone"
      /\ Stopped(u) <=> Stopped(s)
      /\ u.stranger = t.stranger
  BY <1>1, <1>3 DEF CallState, Stopped
<1>5. Sound(u)
  <2> HIDE DEF u
  <2> QED BY <1>1, <1>3, <1>4 DEF Sound
<1> QED BY <1>2, <1>4, <1>5 DEF t

LEMMA StruckSound ==
  ASSUME NEW s \in CallState, Sound(s), s.pc # "returned", s.killer \in {"armed", "late"}
  PROVE  Struck(s) \in CallState /\ Sound(Struck(s)) /\ Struck(s).pc = s.pc
<1> DEFINE v == IF s.code = None THEN "signal" ELSE s.code
           w == IF s.stranger = "none" THEN "none" ELSE "killed"
<1>1. v \in Code \cup {None}
  BY DEF CallState, Code
<1>2. w \in {"none", "there", "told", "killed"}
  OBVIOUS
<1>3. Struck(s) = [s EXCEPT !.killer = "over", !.mates = "none",
                            !.leader = "gone", !.code = v, !.stranger = w]
  BY DEF Struck
<1> HIDE DEF v, w
<1>4. Struck(s) \in CallState
  BY <1>1, <1>2, <1>3 DEF CallState
<1>5. s.pc = "dropped" \/ Stopped(s)
  BY DEF Sound
<1>6. Sound(Struck(s)) /\ Struck(s).pc = s.pc
  BY <1>3, <1>5 DEF CallState, Sound, Stopped
<1> QED BY <1>4, <1>6

LEMMA EndedAloneSound ==
  ASSUME NEW s \in CallState, Sound(s), s.pc = "running", NEW code \in Code
  PROVE  EndedAlone(s, code) \in CallState /\ Sound(EndedAlone(s, code))
<1> DEFINE v == s.cancelled \/ token
           w == s.terminating \/ token
<1>1. v \in BOOLEAN /\ w \in BOOLEAN /\ (s.cancelled => v)
  OBVIOUS
<1>2. EndedAlone(s, code) =
        [s EXCEPT !.leader = "gone", !.code = code, !.exited = TRUE, !.open = {},
                  !.cancelled = v, !.terminating = w, !.killer = "none", !.pc = "returned"]
  BY Zenon DEF EndedAlone
<1> HIDE DEF v, w
<1>3. EndedAlone(s, code) \in CallState
  BY <1>1, <1>2 DEF CallState
<1>4. Sound(EndedAlone(s, code))
  BY <1>1, <1>2 DEF CallState, Sound, Stopped
<1> QED BY <1>3, <1>4

\* Whatever happens around a call leaves it sound, and under way only if it was.
LEMMA AroundSound ==
  ASSUME CallsSound, NEW c \in Call, Around(c)
  PROVE  CallsSound' /\ \A d \in Call : Running(d)' => Running(d)
<1> DEFINE s == call[c]
<1>0. s \in CallState /\ Sound(s)
  BY DEF CallsSound
<1>1. ASSUME NEW t \in CallState, Sound(t), call' = [call EXCEPT ![c] = t],
             t.pc = "running" => s.pc = "running"
      PROVE  CallsSound' /\ \A d \in Call : Running(d)' => Running(d)
  BY <1>1 DEF CallsSound, Running
<1>2. ASSUME NEW t \in CallState, Sound(t), Loop(c, t), t.pc = "running", s.pc = "running"
      PROVE  CallsSound' /\ \A d \in Call : Running(d)' => Running(d)
  BY <1>1, <1>2, SettleSound DEF Loop
<1>3. CASE Arms(c)
  <2>1. CASE SeesCancel(c)
    <3> DEFINE t == [s EXCEPT !.cancelled = TRUE]
    <3>1. t \in CallState /\ Sound(t) /\ Stopped(t) /\ t.pc = "running" /\ s.pc = "running"
      BY <1>0, <2>1 DEF SeesCancel, Running, CallState, Sound, Stopped
    <3>2. Loop(c, Terminate(t))
      BY <2>1 DEF SeesCancel
    <3> HIDE DEF t
    <3> QED BY <3>1, <3>2, <1>2, TerminateSound
  <2>2. CASE Deadline(c)
    <3> DEFINE t == [s EXCEPT !.timedOut = TRUE]
    <3>1. t \in CallState /\ Sound(t) /\ Stopped(t) /\ t.pc = "running" /\ s.pc = "running"
      BY <1>0, <2>2 DEF Deadline, Selects, Running, CallState, Sound, Stopped
    <3>2. Loop(c, Terminate(t))
      BY <2>2 DEF Deadline
    <3> HIDE DEF t
    <3> QED BY <3>1, <3>2, <1>2, TerminateSound
  <2>3. CASE Drain(c)
    <3> DEFINE u == Settle([Terminate(s) EXCEPT !.open = {}])
    <3>1. u \in CallState /\ Sound(u) /\ u.pc = "returned"
      BY <1>0, <2>3, DrainedSound DEF Drain, Selects, Running
    <3>2. call' = [call EXCEPT ![c] = u]
      BY <2>3 DEF Drain, Loop
    <3> HIDE DEF u
    <3> QED BY <3>1, <3>2, <1>1
  <2>4. CASE ReadsEof(c)
    <3>1. PICK p \in s.open : Loop(c, [s EXCEPT !.open = @ \ {p}])
      BY <2>4 DEF ReadsEof
    <3> DEFINE t == [s EXCEPT !.open = @ \ {p}]
    <3>2. t \in CallState /\ Sound(t) /\ t.pc = "running" /\ s.pc = "running"
      BY <1>0, <2>4 DEF ReadsEof, Selects, Running, CallState, Sound, Stopped
    <3> HIDE DEF t
    <3> QED BY <3>1, <3>2, <1>2 DEF t
  <2>5. CASE SeesExit(c)
    <3> DEFINE t == [s EXCEPT !.exited = TRUE]
    <3>1. t \in CallState /\ Sound(t) /\ t.pc = "running" /\ s.pc = "running"
      BY <1>0, <2>5 DEF SeesExit, Selects, Running, CallState, Sound, Stopped
    <3>2. Loop(c, t)
      BY <2>5 DEF SeesExit
    <3> HIDE DEF t
    <3> QED BY <3>1, <3>2, <1>2
  <2> QED BY <1>3, <2>1, <2>2, <2>3, <2>4, <2>5 DEF Arms
<1>4. CASE Kills(c)
  <2>1. CASE s.pc = "returned"
    <3> DEFINE t == [s EXCEPT !.killer = "over"]
    <3>1. t \in CallState /\ Sound(t) /\ t.pc = s.pc
      BY <1>0 DEF CallState, Sound, Stopped
    <3>2. call' = [call EXCEPT ![c] = t]
      BY <1>4, <2>1 DEF Kills, Returned
    <3> HIDE DEF t
    <3> QED BY <3>1, <3>2, <1>1
  <2>2. CASE s.pc # "returned"
    <3>1. call' = [call EXCEPT ![c] = Struck(s)]
      BY <1>4, <2>2 DEF Kills, Returned
    <3> QED BY <1>0, <1>4, <2>2, <3>1, <1>1, StruckSound DEF Kills
  <2> QED BY <2>1, <2>2
<1>5. CASE PassesLimit(c)
  <2>1. PICK p \in s.open : Loop(c, Terminate([s EXCEPT !.limit = p]))
    BY <1>5 DEF PassesLimit
  <2> DEFINE t == [s EXCEPT !.limit = p]
  <2>2. t \in CallState /\ Sound(t) /\ Stopped(t) /\ t.pc = "running" /\ s.pc = "running"
    BY <1>0, <1>5, NamesOfCalls DEF PassesLimit, Selects, Running, CallState, Sound, Stopped
  <2>3. Loop(c, Terminate(t))
    BY <2>1
  <2> HIDE DEF t
  <2> QED BY <2>2, <2>3, <1>2, TerminateSound
<1>6. ASSUME NEW code \in Code, Exits(c, code)
      PROVE  CallsSound' /\ \A d \in Call : Running(d)' => Running(d)
  <2> DEFINE t == [s EXCEPT !.leader = "gone", !.code = code]
  <2>1. t \in CallState /\ Sound(t) /\ t.pc = s.pc
    BY <1>0 DEF CallState, Sound, Stopped
  <2>2. call' = [call EXCEPT ![c] = t]
    BY <1>6 DEF Exits
  <2> HIDE DEF t
  <2> QED BY <2>1, <2>2, <1>1
<1>7. ASSUME NEW code \in Code, ExitsAlone(c, code)
      PROVE  CallsSound' /\ \A d \in Call : Running(d)' => Running(d)
  <2>1. s.pc = "running" /\ call' = [call EXCEPT ![c] = EndedAlone(s, code)]
    BY <1>7 DEF ExitsAlone, Running
  <2> QED BY <1>0, <2>1, <1>1, EndedAloneSound
<1>8. CASE Forks(c)
  <2>1. ASSUME NEW m \in {"holding", "silent"}, call' = [call EXCEPT ![c].mates = m]
        PROVE  CallsSound' /\ \A d \in Call : Running(d)' => Running(d)
    <3> DEFINE t == [s EXCEPT !.mates = m]
    <3>1. t \in CallState /\ Sound(t) /\ t.pc = s.pc
      BY <1>0 DEF CallState, Sound, Stopped
    <3>2. call' = [call EXCEPT ![c] = t]
      BY <2>1
    <3> HIDE DEF t
    <3> QED BY <3>1, <3>2, <1>1
  <2>2. ASSUME call' = [call EXCEPT ![c].escapee = TRUE]
        PROVE  CallsSound' /\ \A d \in Call : Running(d)' => Running(d)
    <3> DEFINE t == [s EXCEPT !.escapee = TRUE]
    <3>1. t \in CallState /\ Sound(t) /\ t.pc = s.pc
      BY <1>0 DEF CallState, Sound, Stopped
    <3>2. call' = [call EXCEPT ![c] = t]
      BY <2>2
    <3> HIDE DEF t
    <3> QED BY <3>1, <3>2, <1>1
  <2> QED BY <1>8, <2>1, <2>2 DEF Forks
<1>9. CASE DescendantEnds(c)
  <2> DEFINE t == [s EXCEPT !.mates = "none"]
             u == [s EXCEPT !.escapee = FALSE]
  <2>1. t \in CallState /\ Sound(t) /\ t.pc = s.pc
    BY <1>0 DEF CallState, Sound, Stopped
  <2>3. u \in CallState /\ Sound(u) /\ u.pc = s.pc
    BY <1>0 DEF CallState, Sound, Stopped
  <2>2. call' = [call EXCEPT ![c] = t] \/ call' = [call EXCEPT ![c] = u]
    BY <1>9 DEF DescendantEnds
  <2> HIDE DEF t, u
  <2> QED BY <2>1, <2>2, <2>3, <1>1
<1>10. CASE IdReused(c)
  <2> DEFINE t == [s EXCEPT !.stranger = "there"]
  <2>1. t \in CallState /\ Sound(t) /\ t.pc = s.pc
    BY <1>0, <1>10 DEF IdReused, CallState, Sound, Stopped
  <2>2. call' = [call EXCEPT ![c] = t]
    BY <1>10 DEF IdReused
  <2> HIDE DEF t
  <2> QED BY <2>1, <2>2, <1>1
<1> QED BY <1>3, <1>4, <1>5, <1>6, <1>7, <1>8, <1>9, <1>10 DEF Around

\* What an event around a call changes in it: it is told to stop, it ends.
Advances(c, s, t) ==
  /\ s.terminating => t.terminating
  /\ t.cancelled => s.cancelled \/ (token /\ t.terminating)
  /\ t.timedOut => s.timedOut \/ t.terminating
  /\ t.limit # s.limit => t.terminating
  /\ t.code # s.code =>
       \/ s.code = None /\ t.code = "signal"
       \/ s.leader = "alive" /\ (c = main /\ t.code = "nonzero" => EndsWith("nonzero"))

LEMMA SettleFields ==
  ASSUME NEW s \in CallState
  PROVE  /\ Settle(s).terminating = s.terminating /\ Settle(s).cancelled = s.cancelled
         /\ Settle(s).timedOut = s.timedOut /\ Settle(s).limit = s.limit
         /\ Settle(s).code = s.code
BY DEF Settle, CallState

LEMMA AroundAdvances ==
  ASSUME CallsSound, NEW c \in Call, Around(c)
  PROVE  /\ \A d \in Call \ {c} : call'[d] = call[d]
         /\ Advances(c, call[c], call'[c])
<1> DEFINE s == call[c]
           Goal == /\ \A d \in Call \ {c} : call'[d] = call[d]
                   /\ Advances(c, call[c], call'[c])
<1>0. s \in CallState /\ Sound(s) /\ call \in [Call -> CallState]
  BY DEF CallsSound
<1>1. ASSUME NEW t, Advances(c, s, t), call' = [call EXCEPT ![c] = t] PROVE Goal
  BY <1>0, <1>1
<1>2. ASSUME NEW t \in CallState, Advances(c, s, t), Loop(c, t) PROVE Goal
  <2>1. Advances(c, s, Settle(t))
    BY <1>2, SettleFields DEF Advances
  <2> QED BY <1>1, <1>2, <2>1 DEF Loop
<1>3. CASE Arms(c)
  <2>1. CASE SeesCancel(c)
    <3> DEFINE t == [s EXCEPT !.cancelled = TRUE]
    <3>1. t \in CallState /\ t.timedOut = s.timedOut /\ t.limit = s.limit /\ t.code = s.code
      BY <1>0 DEF CallState
    <3>2. token /\ Loop(c, Terminate(t))
      BY <2>1 DEF SeesCancel
    <3> HIDE DEF t
    <3>3. Advances(c, s, Terminate(t)) /\ Terminate(t) \in CallState
      BY <3>1, <3>2, TerminateFields DEF Advances
    <3> QED BY <3>2, <3>3, <1>2
  <2>2. CASE Deadline(c)
    <3> DEFINE t == [s EXCEPT !.timedOut = TRUE]
    <3>1. t \in CallState /\ t.cancelled = s.cancelled /\ t.limit = s.limit /\ t.code = s.code
      BY <1>0 DEF CallState
    <3>2. Loop(c, Terminate(t))
      BY <2>2 DEF Deadline
    <3> HIDE DEF t
    <3>3. Advances(c, s, Terminate(t)) /\ Terminate(t) \in CallState
      BY <3>1, TerminateFields DEF Advances
    <3> QED BY <3>2, <3>3, <1>2
  <2>3. CASE Drain(c)
    <3> DEFINE t == Terminate(s)
               u == [t EXCEPT !.open = {}]
    <3>1. t \in CallState /\ Advances(c, s, t)
      BY <1>0, TerminateFields DEF Advances
    <3>2. Loop(c, u)
      BY <2>3 DEF Drain
    <3> HIDE DEF t
    <3>3. u \in CallState /\ Advances(c, s, u)
      BY <3>1 DEF CallState, Advances
    <3> HIDE DEF u
    <3> QED BY <3>2, <3>3, <1>2
  <2>4. CASE ReadsEof(c)
    <3>1. PICK p \in s.open : Loop(c, [s EXCEPT !.open = @ \ {p}])
      BY <2>4 DEF ReadsEof
    <3> DEFINE t == [s EXCEPT !.open = @ \ {p}]
    <3>2. t \in CallState /\ Advances(c, s, t)
      BY <1>0 DEF CallState, Advances
    <3> HIDE DEF t
    <3> QED BY <3>1, <3>2, <1>2 DEF t
  <2>5. CASE SeesExit(c)
    <3> DEFINE t == [s EXCEPT !.exited = TRUE]
    <3>1. t \in CallState /\ Advances(c, s, t)
      BY <1>0 DEF CallState, Advances
    <3>2. Loop(c, t)
      BY <2>5 DEF SeesExit
    <3> HIDE DEF t
    <3> QED BY <3>1, <3>2, <1>2
  <2> QED BY <1>3, <2>1, <2>2, <2>3, <2>4, <2>5 DEF Arms
<1>4. CASE Kills(c)
  <2>1. CASE call' = [call EXCEPT ![c] = [s EXCEPT !.killer = "over"]]
    BY <1>0, <2>1 DEF CallState, Advances
  <2>2. CASE call' = [call EXCEPT ![c] = Struck(s)]
    <3>1. Advances(c, s, Struck(s))
      BY <1>0 DEF Struck, CallState, Advances
    <3> QED BY <1>1, <2>2, <3>1
  <2> QED BY <1>4, <2>1, <2>2 DEF Kills
<1>5. CASE PassesLimit(c)
  <2>1. PICK p \in s.open : Loop(c, Terminate([s EXCEPT !.limit = p]))
    BY <1>5 DEF PassesLimit
  <2> DEFINE t == [s EXCEPT !.limit = p]
  <2>2. t \in CallState /\ t.cancelled = s.cancelled /\ t.timedOut = s.timedOut /\ t.code = s.code
    BY <1>0 DEF CallState
  <2>3. Loop(c, Terminate(t))
    BY <2>1
  <2> HIDE DEF t
  <2>4. Advances(c, s, Terminate(t)) /\ Terminate(t) \in CallState
    BY <1>5, <2>2, TerminateFields DEF Advances
  <2> QED BY <2>3, <2>4, <1>2
<1>6. ASSUME NEW code \in Code, c = main => EndsWith(code), Exits(c, code)
      PROVE  Goal
  <2> DEFINE t == [s EXCEPT !.leader = "gone", !.code = code]
  <2>1. Advances(c, s, t)
    BY <1>0, <1>6 DEF CallState, Advances, Exits, Alive
  <2>2. call' = [call EXCEPT ![c] = t]
    BY <1>6 DEF Exits
  <2> HIDE DEF t
  <2> QED BY <2>1, <2>2, <1>1
<1>7. ASSUME NEW code \in Code, c = main => EndsWith(code), ExitsAlone(c, code)
      PROVE  Goal
  <2> DEFINE v == s.cancelled \/ token
             w == s.terminating \/ token
  <2>1. EndedAlone(s, code) =
          [s EXCEPT !.leader = "gone", !.code = code, !.exited = TRUE, !.open = {},
                    !.cancelled = v, !.terminating = w, !.killer = "none", !.pc = "returned"]
    BY Zenon DEF EndedAlone
  <2>2. s.leader = "alive" /\ call' = [call EXCEPT ![c] = EndedAlone(s, code)]
    BY <1>7 DEF ExitsAlone, Alive
  <2>3. /\ EndedAlone(s, code).cancelled = v /\ EndedAlone(s, code).terminating = w
        /\ EndedAlone(s, code).timedOut = s.timedOut /\ EndedAlone(s, code).limit = s.limit
        /\ EndedAlone(s, code).code = code
    <3> HIDE DEF v, w
    <3> QED BY <1>0, <2>1 DEF CallState
  <2>4. Advances(c, s, EndedAlone(s, code))
    BY <1>7, <2>2, <2>3 DEF Advances
  <2> QED BY <2>2, <2>4, <1>1
<1>8. CASE Forks(c) \/ DescendantEnds(c) \/ IdReused(c)
  <2> DEFINE Other(t) == /\ t.terminating = s.terminating /\ t.cancelled = s.cancelled
                         /\ t.timedOut = s.timedOut /\ t.limit = s.limit /\ t.code = s.code
  <2>1. ASSUME NEW m, call' = [call EXCEPT ![c].mates = m] PROVE Goal
    <3>1. Other([s EXCEPT !.mates = m])
      BY <1>0 DEF CallState
    <3> QED BY <1>1, <2>1, <3>1 DEF Advances
  <2>2. ASSUME NEW e, call' = [call EXCEPT ![c].escapee = e] PROVE Goal
    <3>1. Other([s EXCEPT !.escapee = e])
      BY <1>0 DEF CallState
    <3> QED BY <1>1, <2>2, <3>1 DEF Advances
  <2>3. ASSUME NEW e, call' = [call EXCEPT ![c].stranger = e] PROVE Goal
    <3>1. Other([s EXCEPT !.stranger = e])
      BY <1>0 DEF CallState
    <3> QED BY <1>1, <2>3, <3>1 DEF Advances
  <2> QED BY <1>8, <2>1, <2>2, <2>3 DEF Forks, DescendantEnds, IdReused
<1> QED BY <1>3, <1>4, <1>5, <1>6, <1>7, <1>8 DEF Around

-----------------------------------------------------------------------------
(* The runner: every step starts a call, returns, or does neither; and what *)
(* it says when it returns.                                                 *)

\* Between calls, and outside the program's stage, nothing is under way but
\* the background.
LEMMA Between ==
  ASSUME FullInv, run.pc # "program", run.pc \in Quiet \/ Returned(main)
  PROVE  ~Running(main) /\ ~Running(check)
BY DEF FullInv, RunnerInv, Staged, Running, Returned

LEMMA StartsProceeds ==
  ASSUME FullInv, NEW next, NEW s \in {Spawned, Unspawned}, Starts(next, s),
         run.pc \notin {"program", "over"}, Fields \subseteq DOMAIN next,
         next.load = run.load, next.verdict = run.verdict, next.pc \notin Quiet,
         run.pc \in Late => next.pc \in Late
  PROVE  StepEffect /\ Outcome
BY DEF Starts, StepEffect, StartsMain, Outcome, Quiet

LEMMA AtProceeds ==
  ASSUME FullInv, NEW stage, stage \notin Quiet \cup {"go compile", "clang", "header"},
         stage = "zig build" => Lang = "zig", run.pc \notin {"program", "over"},
         run.pc \in Late => stage \in Late, At(stage)
  PROVE  Proceeds
<1>1. PICK s \in {Spawned, Unspawned} : Starts([run EXCEPT !.pc = stage], s)
  BY DEF At
<1> DEFINE next == [run EXCEPT !.pc = stage]
<1>2. /\ Fields \subseteq DOMAIN next /\ next.load = run.load /\ next.pc = stage
      /\ next.verdict = run.verdict /\ next.sound = run.sound /\ next.cached = run.cached
      /\ next.upgraded = run.upgraded /\ next.diagnosed = run.diagnosed
      /\ next.summed = run.summed /\ next.mishaps = run.mishaps
  BY DEF FullInv, RunnerInv, Staged, Fields
<1>3. run' = next
  BY <1>1 DEF Starts
<1> HIDE DEF next
<1>4. StageInv'
  BY <1>2, <1>3 DEF FullInv, SaidInv, StageInv, Lang
<1>5. StepEffect /\ Outcome
  BY <1>1, <1>2, StartsProceeds DEF next
<1> QED BY <1>4, <1>5 DEF Proceeds

LEMMA ClangProceeds ==
  ASSUME FullInv, NEW sound \in BOOLEAN, sound \/ run.upgraded \/ "misdated" \in run.mishaps,
         run.pc \in {"compile", "header"}, AtWith("clang", sound)
  PROVE  Proceeds
<1> DEFINE next == [run EXCEPT !.pc = "clang", !.sound = sound]
<1>1. PICK s \in {Spawned, Unspawned} : Starts(next, s)
  BY DEF AtWith
<1>2. /\ Fields \subseteq DOMAIN next /\ next.load = run.load /\ next.pc = "clang"
      /\ next.verdict = run.verdict /\ next.sound = sound /\ next.cached = run.cached
      /\ next.upgraded = run.upgraded /\ next.diagnosed = run.diagnosed
      /\ next.summed = run.summed /\ next.mishaps = run.mishaps
  BY DEF FullInv, RunnerInv, Staged, Fields
<1>3. run' = next
  BY <1>1 DEF Starts
<1> HIDE DEF next
<1>4. StageInv'
  BY <1>2, <1>3 DEF FullInv, SaidInv, StageInv, Lang
<1>5. StepEffect /\ Outcome
  BY <1>1, <1>2, StartsProceeds DEF Quiet, Late
<1> QED BY <1>4, <1>5 DEF Proceeds

LEMMA GoCompileProceeds ==
  ASSUME FullInv, NEW cached \in BOOLEAN, NEW sound \in BOOLEAN, sound \/ cached,
         run.pc \in {"compile", "go list"}, NEW s \in {Spawned, Unspawned},
         Starts([run EXCEPT !.pc = "go compile", !.cached = cached, !.sound = sound], s)
  PROVE  Proceeds
<1> DEFINE next == [run EXCEPT !.pc = "go compile", !.cached = cached, !.sound = sound]
<1>2. /\ Fields \subseteq DOMAIN next /\ next.load = run.load /\ next.pc = "go compile"
      /\ next.verdict = run.verdict /\ next.sound = sound /\ next.cached = cached
      /\ next.upgraded = run.upgraded /\ next.diagnosed = run.diagnosed
      /\ next.summed = run.summed /\ next.mishaps = run.mishaps
  BY DEF FullInv, RunnerInv, Staged, Fields
<1>3. run' = next /\ Starts(next, s)
  BY DEF Starts
<1> HIDE DEF next
<1>4. StageInv'
  BY <1>2, <1>3 DEF FullInv, SaidInv, StageInv, Lang
<1>5. StepEffect /\ Outcome
  BY <1>2, <1>3, StartsProceeds DEF Quiet, Late
<1> QED BY <1>4, <1>5 DEF Proceeds

LEMMA EndsAfterProceeds ==
  ASSUME FullInv, NEW v, NEW m, EndsAfter(v, m), run.pc # "over",
         ~Running(main), ~Running(check), v \notin {"succeeded", "abnormal exit"},
         v = "compile_error" => Blamed \/ m \cap {"tool", "disk", "misdated"} # {}
  PROVE  Proceeds
<1> DEFINE w == run.mishaps \cup m
<1>1. run' = [run EXCEPT !.pc = "over", !.verdict = v, !.mishaps = w]
  BY DEF EndsAfter
<1>2. run.mishaps \subseteq w /\ m \subseteq w
  OBVIOUS
<1> HIDE DEF w
<1>3. /\ Fields \subseteq DOMAIN run' /\ run'.load = run.load /\ run'.pc = "over"
      /\ run'.verdict = v /\ run'.sound = run.sound /\ run'.cached = run.cached
      /\ run'.upgraded = run.upgraded /\ run'.diagnosed = run.diagnosed
      /\ run'.summed = run.summed /\ run'.mishaps = w
  BY <1>1 DEF FullInv, RunnerInv, Staged, Fields
<1>4. StageInv'
  BY <1>2, <1>3 DEF FullInv, SaidInv, StageInv, Lang
<1>5. StepEffect
  BY <1>3 DEF StepEffect, DropsSide, EndsAfter
<1>6. v = "compile_error" => Blamed'
  BY <1>2, <1>3 DEF Blamed, Lang
<1> QED BY <1>3, <1>4, <1>5, <1>6 DEF Proceeds, Outcome

LEMMA EndsProceeds ==
  ASSUME FullInv, NEW v, Ends(v), run.pc # "over", ~Running(main), ~Running(check),
         v \notin {"succeeded", "abnormal exit"}, v = "compile_error" => Blamed
  PROVE  Proceeds
BY EndsAfterProceeds DEF Ends

LEMMA FinishesProceeds ==
  ASSUME FullInv, NEW b \in BOOLEAN, Finishes(b), run.pc \in Late,
         ~Running(main), ~Running(check), b \/ ~HasTests \/ token
  PROVE  Proceeds
<1> DEFINE w == run.summed \/ b
<1>1. run' = [run EXCEPT !.pc = "over", !.summed = w]
  BY DEF Finishes
<1>2. w \in BOOLEAN /\ (b => w)
  BY DEF FullInv, SaidInv, StageInv
<1> HIDE DEF w
<1>3. /\ Fields \subseteq DOMAIN run' /\ run'.load = run.load /\ run'.pc = "over"
      /\ run'.verdict = run.verdict /\ run'.sound = run.sound /\ run'.cached = run.cached
      /\ run'.upgraded = run.upgraded /\ run'.diagnosed = run.diagnosed
      /\ run'.summed = w /\ run'.mishaps = run.mishaps
  BY <1>1 DEF FullInv, RunnerInv, Staged, Fields
<1>4. StageInv'
  BY <1>2, <1>3 DEF FullInv, SaidInv, StageInv, Lang
<1>5. StepEffect
  BY <1>3 DEF StepEffect, DropsSide, Finishes, Late
<1> QED BY <1>2, <1>3, <1>4, <1>5 DEF Proceeds, Outcome

LEMMA NoBinaryProceeds ==
  ASSUME FullInv, FindsNoBinary, run.pc \in Late, ~Running(main), ~Running(check)
  PROVE  Proceeds
<1> DEFINE w == run.mishaps \cup {"unfound"}
<1>1. run' = [run EXCEPT !.pc = "over", !.mishaps = w]
  BY DEF FindsNoBinary
<1>2. run.mishaps \subseteq w /\ "unfound" \in w
  OBVIOUS
<1> HIDE DEF w
<1>3. /\ Fields \subseteq DOMAIN run' /\ run'.load = run.load /\ run'.pc = "over"
      /\ run'.verdict = run.verdict /\ run'.sound = run.sound /\ run'.cached = run.cached
      /\ run'.upgraded = run.upgraded /\ run'.diagnosed = run.diagnosed
      /\ run'.summed = run.summed /\ run'.mishaps = w
  BY <1>1 DEF FullInv, RunnerInv, Staged, Fields
<1>4. StageInv'
  BY <1>2, <1>3 DEF FullInv, SaidInv, StageInv, Lang
<1>5. StepEffect
  BY <1>3 DEF StepEffect, DropsSide, FindsNoBinary, Late
<1> QED BY <1>2, <1>3, <1>4, <1>5 DEF Proceeds, Outcome

LEMMA MovesProceeds ==
  ASSUME FullInv, NEW stage, Moves(stage), stage \in Quiet \ {"over"}, run.pc # "over",
         run.pc \in Late => stage \in Late, ~Running(main), ~Running(check)
  PROVE  Proceeds
<1>1. run' = [run EXCEPT !.pc = stage] /\ UNCHANGED call
  BY DEF Moves
<1>2. /\ Fields \subseteq DOMAIN run' /\ run'.load = run.load /\ run'.pc = stage
      /\ run'.verdict = run.verdict /\ run'.sound = run.sound /\ run'.cached = run.cached
      /\ run'.upgraded = run.upgraded /\ run'.diagnosed = run.diagnosed
      /\ run'.summed = run.summed /\ run'.mishaps = run.mishaps
  BY <1>1 DEF FullInv, RunnerInv, Staged, Fields
<1>3. StageInv'
  BY <1>2 DEF FullInv, SaidInv, StageInv, Lang, Quiet
<1> QED BY <1>1, <1>2, <1>3 DEF Proceeds, Outcome, StepEffect, StartsNone

\* A tool that was told to stop, or whose exit is not known, is noted.
LEMMA UndoneGives ==
  call[main].terminating \/ ExitCode(main) = None => Undone(main) = {"tool"}
BY DEF Undone

\* A compiler that says no is right, unless it was not itself.
LEMMA CompiledProceeds ==
  ASSUME FullInv, run.pc \in (Compiles \ {"header"}) \cup {"go link"}, Returned(main), Compiled,
         run.pc = "go compile" => run.sound \/ call[main].terminating,
         run.pc = "go link" => ExitCode(main) = "zero" \/ call[main].terminating
  PROVE  Proceeds
<1>0. run.pc \notin {"program", "over"} /\ run.pc \notin Late
  BY DEF Compiles, Late
<1>1. ~Running(main) /\ ~Running(check)
  BY <1>0, Between
<1>2. CASE At("program")
  BY <1>0, <1>2, AtProceeds DEF Quiet
<1>3. CASE Ends("cancelled")
  BY <1>0, <1>1, <1>3, EndsProceeds
<1>4. CASE /\ EndsAfter("compile_error", Undone(main))
           /\ ExitCode(main) # "zero" \/ call[main].limit # None
  <2>1. call[main].code \in Code \cup {None}
    BY NamesOfCalls DEF FullInv, RunnerInv, CallsSound, CallState
  <2>2. call[main].limit # None => call[main].terminating
    BY NamesOfCalls DEF FullInv, SaidInv, Told, Stopped
  <2>3. CASE call[main].terminating \/ ExitCode(main) = None
    <3>1. Undone(main) \cap {"tool", "disk", "misdated"} # {}
      BY <2>3, UndoneGives
    <3> QED BY <1>0, <1>1, <1>4, <3>1, EndsAfterProceeds
  <2>4. CASE ~call[main].terminating /\ ExitCode(main) # None
    <3>1. call[main].code = "nonzero"
      BY <1>4, <2>1, <2>2, <2>4 DEF ExitCode, Code
    <3>2. run.pc \in Compiles \ {"header"} /\ (run.pc = "go compile" => run.sound)
      BY <2>4, <3>1 DEF ExitCode
    <3>3. ~Works
      BY <2>4, <3>1, <3>2 DEF FullInv, SaidInv, CompilerInv
    <3>4. run.pc = "clang" => run.sound \/ run.upgraded \/ "misdated" \in run.mishaps
      BY DEF FullInv, SaidInv, StageInv
    <3>5. run.pc = "zig build" => Lang = "zig"
      BY DEF FullInv, SaidInv, StageInv
    <3>6. Blamed
      BY <3>2, <3>3, <3>4, <3>5 DEF Works, Blamed, Compiles
    <3> QED BY <1>0, <1>1, <1>4, <3>6, EndsAfterProceeds
  <2> QED BY <2>3, <2>4
<1> QED BY <1>2, <1>3, <1>4 DEF Compiled

LEMMA FilesProceed ==
  ASSUME FullInv, InstrumentFiles
  PROVE  Proceeds
<1>1. ASSUME NEW failed \in BOOLEAN, NEW m, run' = Recorded(failed, m), UNCHANGED call,
             run.pc \in {"file", "instrument"}, ~Running(main), ~Running(check),
             failed => run.load.source # "good" \/ "tool" \in m
      PROVE  Proceeds
  <2> DEFINE w == run.diagnosed \/ failed
             x == run.mishaps \cup m
  <2>1. run' = [run EXCEPT !.pc = "file", !.left = run.left - 1, !.diagnosed = w, !.mishaps = x]
    BY <1>1 DEF Recorded
  <2>2. w \in BOOLEAN /\ (w => run.diagnosed \/ failed)
    OBVIOUS
  <2>x. run.mishaps \subseteq x /\ m \subseteq x
    OBVIOUS
  <2> HIDE DEF w, x
  <2>3. /\ Fields \subseteq DOMAIN run' /\ run'.load = run.load /\ run'.pc = "file"
        /\ run'.verdict = run.verdict /\ run'.sound = run.sound /\ run'.cached = run.cached
        /\ run'.upgraded = run.upgraded /\ run'.diagnosed = w
        /\ run'.summed = run.summed /\ run'.mishaps = x
    BY <2>1 DEF FullInv, RunnerInv, Staged, Fields
  <2>4. StageInv'
    BY <1>1, <2>2, <2>x, <2>3 DEF FullInv, SaidInv, StageInv, Lang
  <2> QED BY <1>1, <2>3, <2>4 DEF Proceeds, Outcome, StepEffect, StartsNone, Quiet, Late
<1>2. CASE FileByWorker
  <2>1. ~Running(main) /\ ~Running(check)
    BY <1>2, Between DEF FileByWorker, Quiet
  <2>2. CASE token
    BY <1>2, <2>1, <2>2, EndsProceeds DEF FileByWorker
  <2>3. CASE ~token
    BY <1>1, <1>2, <2>1, <2>3 DEF FileByWorker
  <2> QED BY <2>2, <2>3
<1>3. CASE FileByCommand
  BY <1>3, AtProceeds DEF FileByCommand, Quiet, Late
<1>4. CASE FileDone
  <2>1. ~Running(main) /\ ~Running(check)
    BY <1>4, Between DEF FileDone, Gone
  <2>2. CASE Superseded
    BY <1>4, <2>1, <2>2, EndsProceeds DEF FileDone, Gone
  <2>3. CASE ~Superseded
    <3> DEFINE failed == ExitCode(main) # "zero" \/ run.load.source = "unparsable"
    <3>1. run.pc = "instrument" /\ run' = Recorded(failed, Undone(main)) /\ UNCHANGED call
      BY <1>4, <2>3 DEF FileDone, Gone
    <3>2. call[main].code \in Code \cup {None}
      BY NamesOfCalls DEF FullInv, RunnerInv, CallsSound, CallState
    <3>3. ~Works => run.load.source # "good"
      BY <3>1 DEF Works, Compiles
    <3>4. call[main].code = "nonzero" => call[main].terminating \/ ~Works
      BY <3>1 DEF FullInv, SaidInv, CompilerInv
    <3>5. failed => run.load.source # "good" \/ "tool" \in Undone(main)
      BY <3>2, <3>3, <3>4, UndoneGives DEF ExitCode, Code
    <3>6. failed \in BOOLEAN
      OBVIOUS
    <3> HIDE DEF failed
    <3> QED BY <1>1, <2>1, <3>1, <3>5, <3>6
  <2> QED BY <2>2, <2>3
<1>5. CASE Published
  <2>1. ~Running(main) /\ ~Running(check)
    BY <1>5, Between DEF Published, Quiet
  <2>2. CASE run.diagnosed /\ Ends("compile_error")
    <3>1. Blamed
      BY <2>2 DEF Blamed, FullInv, SaidInv, StageInv
    <3> QED BY <1>5, <2>1, <2>2, <3>1, EndsProceeds DEF Published
  <2>3. CASE Moves("compile")
    BY <1>5, <2>1, <2>3, MovesProceeds DEF Published, Quiet, Late
  <2> QED BY <1>5, <2>2, <2>3 DEF Published
<1>6. CASE RootNotWritten
  <2>1. ~Running(main) /\ ~Running(check)
    BY <1>6, Between DEF RootNotWritten, Quiet
  <2> QED BY <1>6, <2>1, EndsAfterProceeds DEF RootNotWritten
<1> QED BY <1>2, <1>3, <1>4, <1>5, <1>6 DEF InstrumentFiles

LEMMA RustProceeds ==
  ASSUME FullInv, RustCompiles \/ RustTestBuild
  PROVE  Proceeds
<1>1. CASE run.pc = "compile" /\ At(IF run.load.direct THEN "rustc" ELSE "cargo")
  <2>1. At("rustc") \/ At("cargo")
    BY <1>1
  <2> QED BY <1>1, <2>1, AtProceeds DEF Quiet, Late
<1>2. CASE Gone("rustc") /\ (At("cargo") \/ Compiled)
  BY <1>2, AtProceeds, CompiledProceeds DEF Gone, Quiet, Late, Compiles
<1>3. CASE Gone("cargo") /\ Compiled
  BY <1>3, CompiledProceeds DEF Gone, Compiles
<1>4. CASE RustTestBuild
  <2>1. run' = [run EXCEPT !.cargo = TRUE]
    BY <1>4 DEF RustTestBuild
  <2>2. /\ Fields \subseteq DOMAIN run' /\ run'.load = run.load /\ run'.pc = run.pc
        /\ run'.verdict = run.verdict /\ run'.sound = run.sound /\ run'.cached = run.cached
        /\ run'.upgraded = run.upgraded /\ run'.diagnosed = run.diagnosed
        /\ run'.summed = run.summed /\ run'.mishaps = run.mishaps
    BY <2>1 DEF FullInv, RunnerInv, Staged, Fields
  <2>3. StageInv'
    BY <1>4, <2>2 DEF FullInv, SaidInv, StageInv, Lang, RustTestBuild
  <2> QED BY <1>4, <2>2, <2>3 DEF Proceeds, Outcome, StepEffect, StartsSide, RustTestBuild
<1> QED BY <1>1, <1>2, <1>3, <1>4 DEF RustCompiles

LEMMA GoProceeds ==
  ASSUME FullInv, GoCompiles
  PROVE  Proceeds
<1>0. ASSUME GoBuild, run.pc \in {"compile", "go list", "go compile", "go link"} PROVE Proceeds
  BY <1>0, AtProceeds DEF GoBuild, Quiet, Late
<1>k. call[main].cancelled \/ call[main].timedOut => call[main].terminating
  BY NamesOfCalls DEF FullInv, SaidInv, Told, Stopped
<1>1. CASE run.pc = "compile"
  <2>1. CASE GoBuild
    BY <1>0, <1>1, <2>1
  <2>2. CASE At("go list")
    BY <1>1, <2>2, AtProceeds DEF Quiet, Late
  <2>3. ASSUME NEW s \in {Spawned, Unspawned},
               Starts([run EXCEPT !.pc = "go compile", !.cached = TRUE,
                                  !.sound = cache.importcfg = host.packages], s)
        PROVE  Proceeds
    BY <1>1, <2>3, GoCompileProceeds
  <2> QED BY <1>1, <2>1, <2>2, <2>3 DEF GoCompiles, Gone
<1>2. CASE Gone("go list")
  <2>1. CASE GoBuild
    BY <1>0, <1>2, <2>1 DEF Gone
  <2>2. ASSUME NEW s \in {Spawned, Unspawned},
               Starts([run EXCEPT !.pc = "go compile", !.cached = FALSE, !.sound = TRUE], s)
        PROVE  Proceeds
    BY <1>2, <2>2, GoCompileProceeds DEF Gone
  <2> QED BY <1>2, <2>1, <2>2 DEF GoCompiles, Gone
<1>3. CASE Gone("go compile") /\ GoCompileDone
  <2>1. CASE GoBuild
    BY <1>0, <1>3, <2>1 DEF Gone
  <2>2. CASE At("go link")
    BY <1>3, <2>2, AtProceeds DEF Gone, Quiet, Late
  <2>3. CASE Compiled /\ (call[main].cancelled \/ call[main].timedOut)
    BY <1>3, <1>k, <2>3, CompiledProceeds DEF Gone, Compiles
  <2>4. CASE Compiled /\ ~(run.cached /\ ~run.sound)
    <3>1. run.sound
      BY <1>3, <2>4 DEF Gone, FullInv, SaidInv, StageInv
    <3> QED BY <1>3, <2>4, <3>1, CompiledProceeds DEF Gone, Compiles
  <2> QED BY <1>3, <2>1, <2>2, <2>3, <2>4 DEF GoCompileDone
<1>4. CASE Gone("go link") /\ GoLinkDone
  <2>1. CASE GoBuild
    BY <1>0, <1>4, <2>1 DEF Gone
  <2>2. CASE Compiled /\ (ExitCode(main) = "zero" \/ call[main].cancelled \/ call[main].timedOut)
    BY <1>4, <1>k, <2>2, CompiledProceeds DEF Gone
  <2> QED BY <1>4, <2>1, <2>2 DEF GoLinkDone
<1>5. CASE Gone("go build") /\ Compiled
  BY <1>5, CompiledProceeds DEF Gone, Compiles
<1> QED BY <1>1, <1>2, <1>3, <1>4, <1>5 DEF GoCompiles

LEMMA CProceeds ==
  ASSUME FullInv, CCompiles
  PROVE  Proceeds
<1>1. CASE HeaderKept
  <2> DEFINE x == IF Misdated THEN run.mishaps \cup {"misdated"} ELSE run.mishaps
             w == PchWorks
             next == [run EXCEPT !.pc = "clang", !.sound = w, !.mishaps = x]
  <2>1. PICK s \in {Spawned, Unspawned} : Starts(next, s)
    BY <1>1 DEF HeaderKept
  <2>2. run.pc = "compile" /\ PchIsFresh
    BY <1>1 DEF HeaderKept
  <2>3. w \/ "misdated" \in x
    <3>1. cache.stamp = Stamp /\ Stamp.compiler = host.compiler
      BY <2>2 DEF PchIsFresh, Stamp
    <3>2. Stamp \in [compiler : Nat, place : Nat]
      BY DEF Stamp, FullInv, SaidInv, CacheInv
    <3>3. cache.pch.whole /\ cache.pch.compiler = host.compiler
      BY <3>1, <3>2, NamesOfCalls DEF FullInv, SaidInv, CacheInv
    <3> QED BY <2>2, <3>1, <3>3 DEF PchIsFresh, PchWorks, Misdated
  <2>4. run.mishaps \subseteq x
    OBVIOUS
  <2>5. w \in BOOLEAN
    BY DEF PchWorks
  <2> HIDE DEF x, w
  <2>6. /\ Fields \subseteq DOMAIN next /\ next.load = run.load /\ next.pc = "clang"
        /\ next.verdict = run.verdict /\ next.sound = w /\ next.cached = run.cached
        /\ next.upgraded = run.upgraded /\ next.diagnosed = run.diagnosed
        /\ next.summed = run.summed /\ next.mishaps = x
    BY DEF FullInv, RunnerInv, Staged, Fields
  <2>7. run' = next
    BY <2>1 DEF Starts
  <2> HIDE DEF next
  <2>8. StageInv'
    BY <2>3, <2>4, <2>5, <2>6, <2>7 DEF FullInv, SaidInv, StageInv, Lang
  <2>9. StepEffect /\ Outcome
    BY <2>1, <2>2, <2>6, StartsProceeds DEF Quiet, Late
  <2> QED BY <2>8, <2>9 DEF Proceeds
<1>2. CASE /\ run.pc = "compile" /\ At("header") /\ UNCHANGED host
           /\ cache' = [cache EXCEPT !.stamp = None, !.pch = Unbuilt]
  <2> DEFINE next == [run EXCEPT !.pc = "header"]
  <2>1. PICK s \in {Spawned, Unspawned} : Starts(next, s)
    BY <1>2 DEF At
  <2>2. /\ Fields \subseteq DOMAIN next /\ next.load = run.load /\ next.pc = "header"
        /\ next.verdict = run.verdict /\ next.sound = run.sound /\ next.cached = run.cached
        /\ next.upgraded = run.upgraded /\ next.diagnosed = run.diagnosed
        /\ next.summed = run.summed /\ next.mishaps = run.mishaps
    BY DEF FullInv, RunnerInv, Staged, Fields
  <2>3. run' = next
    BY <2>1 DEF Starts
  <2>4. {"whole", "compiler"} \subseteq DOMAIN cache'.pch /\ cache'.pch.compiler = host'.compiler
    BY <1>2 DEF FullInv, SaidInv, CacheInv, Unbuilt
  <2> HIDE DEF next
  <2>5. StageInv'
    BY <2>2, <2>3, <2>4 DEF FullInv, SaidInv, StageInv, Lang
  <2>6. StepEffect /\ Outcome
    BY <1>2, <2>1, <2>2, StartsProceeds DEF Quiet, Late
  <2> QED BY <2>5, <2>6 DEF Proceeds
<1>3. CASE Gone("header") /\ AtWith("clang", cache.pch.compiler = host.compiler)
  <2>1. (cache.pch.compiler = host.compiler) \/ run.upgraded
    BY <1>3 DEF Gone, FullInv, SaidInv, StageInv
  <2> QED BY <1>3, <2>1, ClangProceeds DEF Gone
<1>4. CASE (run.pc = "compile" \/ Gone("header")) /\ AtWith("clang", TRUE)
  BY <1>4, ClangProceeds DEF Gone
<1>5. CASE Gone("clang") /\ Compiled
  BY <1>5, CompiledProceeds DEF Gone, Compiles
<1> QED BY <1>1, <1>2, <1>3, <1>4, <1>5 DEF CCompiles, Header

LEMMA ZigProceeds ==
  ASSUME FullInv, ZigCompiles
  PROVE  Proceeds
<1>0. Lang = "zig"
  BY DEF ZigCompiles
<1>1. CASE run.pc = "compile"
  <2>1. Moves("servers") \/ At("zig build")
    BY <1>1 DEF ZigCompiles, Gone, ZigBuild
  <2>2. ~Running(main) /\ ~Running(check)
    BY <1>1, Between DEF Quiet
  <2> QED BY <1>0, <1>1, <2>1, <2>2, MovesProceeds, AtProceeds DEF Quiet, Late
<1>2. CASE run.pc = "servers"
  <2>2. ~Running(main) /\ ~Running(check)
    BY <1>2, Between DEF Quiet
  <2>3. CASE Ends("cancelled") \/ At("zig build") \/ At("program")
    BY <1>0, <1>2, <2>2, <2>3, EndsProceeds, AtProceeds DEF Quiet, Late
  <2>4. ASSUME NEW a \in ServerAnswers, Truthful(a), None \notin {a.program, a.tests},
               ~(a.program = "built" /\ a.tests = "built"), Ends("compile_error")
        PROVE  Proceeds
    <3>1. a.program = "failed" \/ a.tests = "failed"
      BY <2>4 DEF ServerAnswers
    <3>2. Blamed
      BY <1>0, <2>4, <3>1 DEF Truthful, Blamed
    <3> QED BY <1>2, <2>2, <2>4, <3>2, EndsProceeds
  <2> QED BY <1>2, <2>3, <2>4 DEF ZigCompiles, Gone, ZigBuild
<1>3. CASE Gone("zig build") /\ Compiled
  BY <1>3, CompiledProceeds DEF Gone, Compiles
<1> QED BY <1>1, <1>2, <1>3 DEF ZigCompiles

LEMMA InterpretedProceeds ==
  ASSUME FullInv, Interpreted
  PROVE  Proceeds
<1>1. PICK s, t \in {Spawned, Unspawned} :
        call' = [call EXCEPT ![main] = s, ![check] = IF Lang = "ts" THEN t ELSE @]
  BY DEF Interpreted
<1>2. run.pc = "compile" /\ run' = [run EXCEPT !.pc = "program"]
  BY DEF Interpreted
<1>3. /\ Fields \subseteq DOMAIN run' /\ run'.load = run.load /\ run'.pc = "program"
      /\ run'.verdict = run.verdict /\ run'.sound = run.sound /\ run'.cached = run.cached
      /\ run'.upgraded = run.upgraded /\ run'.diagnosed = run.diagnosed
      /\ run'.summed = run.summed /\ run'.mishaps = run.mishaps
  BY <1>2 DEF FullInv, RunnerInv, Staged, Fields
<1>4. StageInv'
  BY <1>3 DEF FullInv, SaidInv, StageInv, Lang
<1> QED BY <1>1, <1>2, <1>3, <1>4 DEF Proceeds, Outcome, StepEffect, StartsChecked, Late

\* classify_execution: the program's end is the verdict, or the end of the run.
LEMMA ProgramProceeds ==
  ASSUME FullInv, ProgramEnds
  PROVE  Proceeds
<1>1. Classified /\ run.pc = "program" /\ Returned(main) /\ (Lang = "ts" => Returned(check))
  BY DEF ProgramEnds, RustProgram, GoProgram, CProgram, ZigProgram, TsProgram, PyProgram, Gone
<1>2. ~Running(main) /\ ~Running(check)
  BY <1>1 DEF FullInv, RunnerInv, Staged, Running, Returned
<1>3. CASE \E v \in {"cancelled", "timed_out", "limit exceeded"} : Ends(v)
  BY <1>1, <1>2, <1>3, EndsProceeds
<1>4. CASE Kept
  <2> DEFINE v == IF ExitCode(main) = "zero" THEN "succeeded" ELSE "abnormal exit"
  <2>1. run' = [run EXCEPT !.pc = "tests", !.verdict = v] /\ UNCHANGED call
    BY <1>4 DEF Kept
  <2>2. v \in {"succeeded", "abnormal exit"}
    OBVIOUS
  <2> HIDE DEF v
  <2>3. /\ Fields \subseteq DOMAIN run' /\ run'.load = run.load /\ run'.pc = "tests"
        /\ run'.verdict = v /\ run'.sound = run.sound /\ run'.cached = run.cached
        /\ run'.upgraded = run.upgraded /\ run'.diagnosed = run.diagnosed
        /\ run'.summed = run.summed /\ run'.mishaps = run.mishaps
    BY <2>1 DEF FullInv, RunnerInv, Staged, Fields
  <2>4. StageInv'
    BY <2>3 DEF FullInv, SaidInv, StageInv, Lang
  <2> QED BY <1>1, <1>2, <2>1, <2>2, <2>3, <2>4 DEF Proceeds, Outcome, StepEffect, StartsNone, Quiet
<1> QED BY <1>1, <1>3, <1>4 DEF Classified

LEMMA TestsProceed ==
  ASSUME FullInv, RustTests \/ AwaitedTests \/ RunnerTests \/ CTests
  PROVE  Proceeds
<1>0. Superseded => token
  BY NamesOfCalls DEF Superseded, FullInv, SaidInv, Told
<1>k. call[side].cancelled => token
  BY NamesOfCalls DEF FullInv, SaidInv, Told
<1>1. ASSUME NEW stage \in {"suite", "object", "link"}, At(stage), run.pc \in Late PROVE Proceeds
  BY <1>1, AtProceeds DEF Quiet, Late
<1>2. ASSUME NEW n, CompilesObject(n), run.pc \in Late PROVE Proceeds
  <2> DEFINE next == [run EXCEPT !.pc = "object", !.left = n]
  <2>1. PICK s \in {Spawned, Unspawned} : Starts(next, s)
    BY <1>2 DEF CompilesObject
  <2>2. /\ Fields \subseteq DOMAIN next /\ next.load = run.load /\ next.pc = "object"
        /\ next.verdict = run.verdict /\ next.sound = run.sound /\ next.cached = run.cached
        /\ next.upgraded = run.upgraded /\ next.diagnosed = run.diagnosed
        /\ next.summed = run.summed /\ next.mishaps = run.mishaps
    BY DEF FullInv, RunnerInv, Staged, Fields
  <2>3. run' = next
    BY <2>1 DEF Starts
  <2> HIDE DEF next
  <2>4. StageInv'
    BY <2>2, <2>3 DEF FullInv, SaidInv, StageInv, Lang
  <2>5. StepEffect /\ Outcome
    BY <1>2, <2>1, <2>2, StartsProceeds DEF Quiet, Late
  <2> QED BY <2>4, <2>5 DEF Proceeds
<1>3. ASSUME NEW b \in BOOLEAN, Finishes(b), run.pc \in Late, b \/ ~HasTests \/ token,
             run.pc \in {"tests", "await"} \/ Returned(main)
      PROVE  Proceeds
  BY <1>3, Between, FinishesProceeds DEF Quiet, Late
<1>4. CASE NoTests
  BY <1>3, <1>4 DEF NoTests, Late
<1>5. CASE Moves("await") /\ run.pc = "tests"
  BY <1>5, Between, MovesProceeds DEF Quiet, Late
<1>6. CASE Gone("suite") /\ Finishes(~Superseded)
  BY <1>0, <1>3, <1>6 DEF Gone, Late
<1>7. CASE RustTests
  <2>1. CASE run.pc = "await" /\ (call[side].cancelled \/ token) /\ Finishes(FALSE)
    BY <1>3, <1>k, <2>1 DEF Late
  <2>2. CASE run.pc = "await" /\ (Finishes(TRUE) \/ At("suite"))
    BY <1>1, <1>3, <2>2 DEF Late
  <2>3. CASE run.pc = "await" /\ FindsNoBinary
    BY <2>3, Between, NoBinaryProceeds DEF Quiet, Late
  <2> QED BY <1>4, <1>5, <1>6, <1>7, <2>1, <2>2, <2>3 DEF RustTests
<1>8. CASE AwaitedTests
  <2>1. CASE run.pc = "await" /\ Finishes(~call[side].cancelled /\ ~token)
    <3> DEFINE b == ~call[side].cancelled /\ ~token
    <3>1. b \in BOOLEAN /\ (b \/ token)
      BY <1>k
    <3> HIDE DEF b
    <3> QED BY <1>3, <2>1, <3>1 DEF Late, b
  <2> QED BY <1>4, <1>5, <1>8, <2>1 DEF AwaitedTests
<1>9. CASE RunnerTests
  BY <1>1, <1>4, <1>6, <1>9 DEF RunnerTests, Tested, Late
<1>10. CASE CTests
  <2>1. CASE run.pc = "tests" /\ CompilesObject(run.load.files)
    BY <1>2, <2>1 DEF Late
  <2>2. CASE CTestsBuilt
    <3>1. CASE Gone("object") /\ CompilesObject(run.left - 1)
      BY <1>2, <3>1 DEF Gone, Late
    <3>2. CASE (Gone("object") \/ Gone("link")) /\ (At("link") \/ At("suite"))
      BY <1>1, <3>2 DEF Gone, Late
    <3> QED BY <2>2, <3>1, <3>2 DEF CTestsBuilt
  <2>3. CASE CTestsNotBuilt
    BY <1>0, <1>3, <2>3 DEF CTestsNotBuilt, Gone, Late
  <2> QED BY <1>4, <1>6, <1>10, <2>1, <2>2, <2>3 DEF CTests
<1> QED BY <1>7, <1>8, <1>9, <1>10

\* A dependency command, whatever came of it, is no verdict on the sources.
LEMMA DependenciesProceed ==
  ASSUME FullInv, Dependencies
  PROVE  Proceeds
<1>1. CASE DepsEdits
  <2>1. PICK v \in DepsState \cup {None} : Ends(v)
    BY <1>1 DEF DepsEdits
  <2>2. v \notin {"succeeded", "abnormal exit", "compile_error"}
    BY NamesOfCalls DEF DepsState
  <2>3. ~Running(main) /\ ~Running(check)
    BY <1>1, Between DEF DepsEdits, Quiet
  <2> QED BY <1>1, <2>1, <2>2, <2>3, EndsProceeds DEF DepsEdits
<1>2. CASE DepsCommand
  <2>1. At("add") \/ At("remove")
    BY <1>2 DEF DepsCommand
  <2> QED BY <1>2, <2>1, AtProceeds DEF DepsCommand, Quiet, Late
<1>3. CASE DepsFetch
  BY <1>3, AtProceeds DEF DepsFetch, Gone, Quiet, Late
<1>4. CASE DepsDone
  <2>1. run.pc \in {"add", "remove", "fetch"} /\ Returned(main)
    BY <1>4 DEF DepsDone, Gone
  <2>2. ~Running(main) /\ ~Running(check)
    BY <2>1, Between
  <2> QED BY <1>4, <2>1, <2>2, EndsProceeds DEF DepsDone
<1> QED BY <1>1, <1>2, <1>3, <1>4 DEF Dependencies

LEMMA StepsProceed ==
  ASSUME FullInv, Steps
  PROVE  Proceeds
BY FilesProceed, RustProceeds, GoProceeds, CProceeds, ZigProceeds, InterpretedProceeds,
   ProgramProceeds, TestsProceed, DependenciesProceed DEF Steps

-----------------------------------------------------------------------------
(* The invariants.                                                         *)

\* Calls that are replaced are replaced by sound ones.
LEMMA EffectSound ==
  ASSUME RunnerInv, StepEffect
  PROVE  CallsSound'
<1>1. {main, side, check} \subseteq Call
  BY NamesOfCalls
<1>2. call \in [Call -> CallState] /\ \A c \in Call : Sound(call[c])
  BY DEF RunnerInv, CallsSound
<1>3. CASE StartsMain
  BY <1>1, <1>2, <1>3, CallValues DEF StartsMain, CallsSound
<1>4. CASE DropsSide
  <2>1. Dropped(call[side]) \in CallState /\ Sound(Dropped(call[side]))
    BY <1>1, <1>2, DroppedSound
  <2> QED BY <1>1, <1>2, <1>4, <2>1 DEF DropsSide, CallsSound
<1>5. CASE StartsNone
  BY <1>2, <1>5 DEF StartsNone, CallsSound
<1>6. CASE StartsChecked
  <2>1. PICK s, u \in {Spawned, Unspawned} :
          call' = [call EXCEPT ![main] = s, ![check] = IF Lang = "ts" THEN u ELSE @]
    BY <1>6 DEF StartsChecked
  <2>2. PICK t \in CallState : Sound(t) /\ call' = [call EXCEPT ![main] = s, ![check] = t]
    <3>1. CASE Lang = "ts"
      BY <2>1, <3>1, CallValues
    <3>2. CASE Lang # "ts"
      BY <1>1, <1>2, <2>1, <3>2, NamesOfCalls
    <3> QED BY <3>1, <3>2
  <2> QED BY <1>1, <1>2, <2>2, CallValues DEF CallsSound
<1>7. CASE StartsSide
  BY <1>1, <1>2, <1>7, CallValues DEF StartsSide, CallsSound
<1> QED BY <1>3, <1>4, <1>5, <1>6, <1>7 DEF StepEffect

LEMMA EffectStaged ==
  ASSUME RunnerInv, StepEffect
  PROVE  Staged'
<1>1. {main, side, check} \subseteq Call /\ main # side /\ main # check /\ side # check
  BY NamesOfCalls
<1>2. /\ call \in [Call -> CallState] /\ \A c \in Call : Sound(call[c])
      /\ Staged
  BY DEF RunnerInv, CallsSound
<1>3. Lang' = Lang /\ Fields \subseteq DOMAIN run' /\ run.pc # "over"
  BY DEF StepEffect, Lang
<1>4. CASE StartsMain
  <2>1. \A c \in Call \ {main} : Running(c)' => Running(c)
    BY <1>1, <1>2, <1>4 DEF StartsMain, Running
  <2>2. ~Running(check)
    BY <1>2, <1>4 DEF StartsMain, Staged
  <2> QED BY <1>1, <1>2, <1>3, <1>4, <2>1, <2>2 DEF Staged, StartsMain, Quiet
<1>5. CASE DropsSide
  <2>1. ~Running(side)'
    BY <1>1, <1>2, <1>5, DroppedSound DEF DropsSide, Running
  <2>2. \A c \in Call \ {side} : Running(c)' => Running(c)
    BY <1>1, <1>2, <1>5 DEF DropsSide, Running
  <2> QED BY <1>1, <1>2, <1>3, <1>5, <2>1, <2>2 DEF Staged, DropsSide
<1>6. CASE StartsNone
  BY <1>2, <1>3, <1>6 DEF Staged, StartsNone, Running
<1>7. CASE StartsChecked
  <2>1. PICK s, t \in {Spawned, Unspawned} :
          call' = [call EXCEPT ![main] = s, ![check] = IF Lang = "ts" THEN t ELSE @]
    BY <1>7 DEF StartsChecked
  <2>2. \A c \in Call \ {main, check} : Running(c)' => Running(c)
    BY <1>1, <1>2, <2>1 DEF Running
  <2>3. Lang # "ts" => (Running(check)' => Running(check))
    BY <1>1, <1>2, <2>1 DEF Running
  <2>4. ~Running(check)
    BY <1>2, <1>7 DEF StartsChecked, Staged
  <2> QED BY <1>1, <1>2, <1>3, <1>7, <2>2, <2>3, <2>4 DEF Staged, StartsChecked, Quiet
<1>8. CASE StartsSide
  <2>1. \A c \in Call \ {side} : Running(c)' => Running(c)
    BY <1>1, <1>2, <1>8 DEF StartsSide, Running
  <2> QED BY <1>1, <1>2, <1>3, <1>8, <2>1 DEF Staged, StartsSide
<1> QED BY <1>4, <1>5, <1>6, <1>7, <1>8 DEF StepEffect

LEMMA StepsKeepToken == Steps => UNCHANGED token
BY DEF Steps, InstrumentFiles, RustCompiles, RustTestBuild, GoCompiles, CCompiles, ZigCompiles,
       Interpreted, ProgramEnds, RustTests, AwaitedTests, RunnerTests, CTests, Dependencies

\* The caches: a step that is not Go's or C's leaves them alone, Go's only
\* forgets or replaces its own, and C stamps what it has built.
LEMMA StepsKeepCache ==
  ASSUME FullInv, Steps
  PROVE  CacheInv'
<1>1. CASE UNCHANGED <<cache, host>>
  BY <1>1 DEF FullInv, SaidInv, CacheInv
<1>2. CASE GoCompiles
  <2>1. UNCHANGED host /\ (UNCHANGED cache \/ \E v : cache' = [cache EXCEPT !.importcfg = v])
    BY <1>2 DEF GoCompiles, GoCompileDone, GoLinkDone
  <2> QED BY <2>1 DEF FullInv, SaidInv, CacheInv
<1>3. CASE CCompiles
  <2>1. UNCHANGED host
    BY <1>3 DEF CCompiles
  <2>2. CASE UNCHANGED cache
    BY <1>1, <2>1, <2>2
  <2>3. CASE cache' = [cache EXCEPT !.stamp = None, !.pch = Unbuilt]
    BY <2>1, <2>3 DEF FullInv, SaidInv, CacheInv
  <2>4. ASSUME NEW stamp \in {None, [compiler |-> cache.pch.compiler, place |-> host.place]},
               run.pc = "header", cache' = [cache EXCEPT !.pch.whole = TRUE, !.stamp = stamp]
        PROVE  CacheInv'
    <3>1. {"whole", "compiler"} \subseteq DOMAIN cache.pch
      BY <2>4 DEF FullInv, SaidInv, StageInv
    <3>2. /\ cache'.pch = [cache.pch EXCEPT !.whole = TRUE]
          /\ cache'.stamp = stamp /\ DOMAIN cache' = DOMAIN cache
      BY <2>4 DEF FullInv, SaidInv, CacheInv
    <3>3. stamp # None => stamp.compiler = cache.pch.compiler
      BY <2>4
    <3> QED BY <2>1, <3>1, <3>2, <3>3 DEF FullInv, SaidInv, CacheInv
  <2> QED BY <1>3, <2>2, <2>3, <2>4 DEF CCompiles, Header, HeaderKept, Gone
<1> QED BY <1>1, <1>2, <1>3 DEF Steps, InstrumentFiles, RustCompiles, RustTestBuild, ZigCompiles,
       Interpreted, ProgramEnds, RustTests, AwaitedTests, RunnerTests, CTests, Dependencies

LEMMA DroppedFields ==
  ASSUME NEW s \in CallState
  PROVE  /\ Dropped(s).cancelled = s.cancelled /\ Dropped(s).timedOut = s.timedOut
         /\ Dropped(s).terminating = s.terminating /\ Dropped(s).limit = s.limit
BY DEF Dropped, CallState

LEMMA NewCalls ==
  ASSUME NEW s \in {Idle, Spawned, Unspawned}
  PROVE  ~s.cancelled /\ ~s.timedOut /\ s.limit = None /\ s.code = None
<1>1. CASE s = Idle
  BY <1>1 DEF Idle
<1>2. CASE s = Spawned
  BY <1>2 DEF Idle, Spawned
<1>3. CASE s = Unspawned
  BY <1>3 DEF Idle, Unspawned
<1> QED BY <1>1, <1>2, <1>3

LEMMA StepsKeepSaid ==
  ASSUME FullInv, Steps
  PROVE  SaidInv'
<1>1. StepEffect /\ Outcome /\ StageInv' /\ CacheInv' /\ UNCHANGED token
  BY StepsProceed, StepsKeepCache, StepsKeepToken DEF Proceeds
<1>2. call \in [Call -> CallState] /\ {main, side, check} \subseteq Call
      /\ main # side /\ main # check /\ side # check
  BY NamesOfCalls DEF FullInv, RunnerInv, CallsSound
<1>3. \A c \in Call : call'[c] \in {call[c], Dropped(call[c]), Spawned, Unspawned}
  <2>1. CASE StartsMain \/ StartsSide \/ StartsNone \/ DropsSide
    BY <1>2, <2>1 DEF StartsMain, StartsSide, StartsNone, DropsSide
  <2>2. CASE StartsChecked
    <3>1. PICK s, t \in {Spawned, Unspawned} :
            call' = [call EXCEPT ![main] = s, ![check] = IF Lang = "ts" THEN t ELSE @]
      BY <2>2 DEF StartsChecked
    <3>2. call'[main] = s /\ call'[check] \in {t, call[check]}
      BY <1>2, <3>1
    <3>3. \A c \in Call \ {main, check} : call'[c] = call[c]
      BY <1>2, <3>1
    <3> QED BY <1>2, <3>2, <3>3
  <2> QED BY <1>1, <2>1, <2>2 DEF StepEffect
<1>4. Told'
  <2> SUFFICES ASSUME NEW c \in Call
               PROVE  /\ Stopped(call'[c]) => call'[c].terminating
                      /\ call'[c].cancelled => token'
    BY DEF Told
  <2>1. CASE call'[c] \in {call[c], Dropped(call[c])}
    BY <1>1, <1>2, <2>1, DroppedFields DEF FullInv, SaidInv, Told, Stopped
  <2>2. CASE call'[c] \in {Spawned, Unspawned}
    BY <2>2, NewCalls DEF Stopped
  <2> QED BY <1>3, <2>1, <2>2
<1>5. CompilerInv'
  <2> SUFFICES ASSUME run'.pc \in Compiles \cup {"instrument"}
               PROVE  call'[main].code = "nonzero" => call'[main].terminating \/ ~Works'
    BY DEF CompilerInv
  <2>1. CASE StartsMain
    <3>1. call'[main] \in {Spawned, Unspawned}
      BY <1>2, <2>1 DEF StartsMain
    <3> QED BY <3>1, NewCalls, NamesOfCalls DEF Code
  <2>2. CASE StartsSide
    <3>1. call'[main] = call[main] /\ run'.pc = run.pc
      BY <1>2, <2>2 DEF StartsSide
    <3>2. Works' = Works
      BY <1>1, <2>2 DEF StartsSide, StepEffect, Works
    <3> QED BY <3>1, <3>2 DEF FullInv, SaidInv, CompilerInv
  <2> QED BY <1>1, <2>1, <2>2 DEF StepEffect, DropsSide, StartsNone, StartsChecked, Quiet, Compiles
<1>6. VerdictInv'
  <2>1. run.pc # "over" /\ run'.load = run.load
    BY <1>1 DEF StepEffect
  <2>2. run.verdict # "compile_error"
        /\ (run.verdict \in {"succeeded", "abnormal exit"} => run.pc \in Late)
    BY <2>1 DEF FullInv, SaidInv, VerdictInv
  <2> QED BY <1>1, <2>1, <2>2 DEF Outcome, VerdictInv, TestsAreSummed, HasTests, Late
<1> QED BY <1>1, <1>4, <1>5, <1>6 DEF SaidInv

LEMMA AroundKeeps ==
  ASSUME FullInv, NEW c \in Call, Around(c)
  PROVE  FullInv'
<1>1. CallsSound' /\ \A d \in Call : Running(d)' => Running(d)
  BY AroundSound DEF FullInv, RunnerInv
<1>2. UNCHANGED <<token, run, cache, host>>
  BY DEF Around
<1>3. {main, side, check} \subseteq Call
  BY NamesOfCalls
<1>4. RunnerInv'
  BY <1>1, <1>2, <1>3 DEF FullInv, RunnerInv, Staged, Lang
<1>5. (\A d \in Call \ {c} : call'[d] = call[d]) /\ Advances(c, call[c], call'[c])
  BY AroundAdvances DEF FullInv, RunnerInv
<1>6. Told'
  BY <1>2, <1>5 DEF FullInv, SaidInv, Told, Stopped, Advances
<1>7. Works' = Works
  BY <1>2 DEF Works
<1>8. CompilerInv'
  <2>1. CASE c # main
    BY <1>2, <1>3, <1>5, <1>7, <2>1 DEF FullInv, SaidInv, CompilerInv
  <2>2. CASE c = main
    <3>1. run.pc \in Compiles \cup {"instrument"} /\ call'[main].code = "nonzero"
            /\ call[main].code # "nonzero" => call[main].terminating \/ ~Works
      BY <1>5, <2>2 DEF Advances, EndsWith
    <3>2. call[main].terminating => call'[main].terminating
      BY <1>5, <2>2 DEF Advances
    <3> QED BY <1>2, <1>7, <3>1, <3>2 DEF FullInv, SaidInv, CompilerInv
  <2> QED BY <2>1, <2>2
<1>9. Blamed => Blamed'
  BY <1>2 DEF Blamed, Lang
<1>10. VerdictInv'
  BY <1>2, <1>9 DEF FullInv, SaidInv, VerdictInv, TestsAreSummed, HasTests
<1>11. CacheInv' /\ StageInv'
  BY <1>2 DEF FullInv, SaidInv, CacheInv, StageInv, Lang
<1> QED BY <1>4, <1>6, <1>8, <1>10, <1>11 DEF FullInv, SaidInv

\* A run begins with calls that are new, and nothing is said of it yet.
LEMMA BeginsKeep ==
  ASSUME FullInv, Begins \/ DepsBegins
  PROVE  FullInv'
<1>1. {main, side, check} \subseteq Call /\ main # side /\ main # check /\ side # check
  BY NamesOfCalls
<1>2. /\ Fields \subseteq DOMAIN run' /\ run'.pc \in {"file", "deps"} /\ run'.verdict = None
      /\ run'.upgraded \in BOOLEAN /\ run'.diagnosed \in BOOLEAN /\ run'.summed \in BOOLEAN
      /\ run'.sound \in BOOLEAN /\ run'.cached \in BOOLEAN
      /\ run'.diagnosed => run'.load.source # "good" \/ "tool" \in run'.mishaps
  BY DEF Begins, DepsBegins, FullInv, RunnerInv, Staged, SaidInv, StageInv, Fields
<1>3. CallsSound' /\ (\A c \in Call \ {side} : ~Running(c)') /\ Told'
  <2>1. CASE Begins
    <3>1. PICK s \in {Spawned, Unspawned} : call' = Background(s)
      BY <2>1 DEF Begins
    <3>2. /\ call' = [c \in Call |-> call'[c]]
          /\ call'[side] \in {Idle, Spawned, Unspawned}
          /\ \A c \in Call \ {side} : call'[c] = Idle
      BY <1>1, <3>1 DEF Background
    <3>3. CallsSound'
      BY <1>1, <3>2, CallValues DEF CallsSound
    <3>4. \A c \in Call \ {side} : ~Running(c)'
      BY <3>2, CallValues DEF Running
    <3>5. Told'
      BY <1>1, <3>2, NewCalls DEF Told, Stopped
    <3> QED BY <3>3, <3>4, <3>5
  <2>2. CASE DepsBegins
    <3>1. UNCHANGED <<call, token>> /\ run.pc = "over"
      BY <2>2 DEF DepsBegins
    <3> QED BY <1>1, <3>1 DEF FullInv, RunnerInv, CallsSound, Staged, Quiet, Running, SaidInv, Told
  <2> QED BY <2>1, <2>2
<1>4. Staged'
  BY <1>1, <1>2, <1>3 DEF Staged
<1>5. CompilerInv' /\ StageInv'
  BY <1>2 DEF CompilerInv, StageInv, Compiles
<1>6. CacheInv'
  BY DEF Begins, DepsBegins, FullInv, SaidInv, CacheInv
<1>7. VerdictInv'
  BY <1>2, NamesOfCalls DEF VerdictInv, TestsAreSummed
<1> QED BY <1>3, <1>4, <1>5, <1>6, <1>7 DEF FullInv, RunnerInv, SaidInv

LEMMA UpgradesKeep ==
  ASSUME FullInv, Upgrades
  PROVE  FullInv'
<1> DEFINE w == run.upgraded \/ Going
<1>1. run' = [run EXCEPT !.upgraded = w] /\ UNCHANGED <<call, token, cache>>
  BY DEF Upgrades
<1>2. w \in BOOLEAN /\ (run.upgraded => w) /\ (Going => w)
  BY DEF FullInv, SaidInv, StageInv, Going
<1>3. host' \in [compiler : Nat, header : Nat, dated : Nat, place : Nat, packages : Nat]
  <2>1. host \in [compiler : Nat, header : Nat, dated : Nat, place : Nat, packages : Nat]
    BY DEF FullInv, SaidInv, CacheInv
  <2>2. CASE HeaderReplaced
    <3>1. PICK d \in {0, Now + 1}, q \in {host.place, host.place + 1} :
            host' = [host EXCEPT !.header = host.header + 1, !.dated = d, !.place = q]
      BY <2>2 DEF HeaderReplaced
    <3>2. d \in Nat /\ q \in Nat /\ host.header + 1 \in Nat
      BY <2>1, <3>1 DEF Now
    <3> DEFINE h == host.header + 1
    <3>3. h \in Nat /\ host' = [host EXCEPT !.header = h, !.dated = d, !.place = q]
      BY <3>1, <3>2
    <3> HIDE DEF h
    <3> QED BY <2>1, <3>2, <3>3
  <2> QED BY <2>1, <2>2 DEF Upgrades
<1> HIDE DEF w
<1>4. /\ Fields \subseteq DOMAIN run' /\ run'.load = run.load /\ run'.pc = run.pc
      /\ run'.verdict = run.verdict /\ run'.sound = run.sound /\ run'.cached = run.cached
      /\ run'.upgraded = w /\ run'.diagnosed = run.diagnosed /\ run'.summed = run.summed /\ run'.mishaps = run.mishaps
  BY <1>1 DEF FullInv, RunnerInv, Staged, Fields
<1>5. RunnerInv'
  BY <1>1, <1>4 DEF FullInv, RunnerInv, CallsSound, Staged, Running, Lang
<1>6. Told'
  BY <1>1 DEF FullInv, SaidInv, Told
<1>7. Works' = Works
  BY <1>4 DEF Works
<1>8. CompilerInv'
  BY <1>1, <1>4, <1>7 DEF FullInv, SaidInv, CompilerInv
<1>9. CacheInv'
  BY <1>1, <1>3 DEF FullInv, SaidInv, CacheInv
<1>10. StageInv'
  BY <1>1, <1>2, <1>4 DEF FullInv, SaidInv, StageInv, Lang, Going
<1>11. Blamed => Blamed'
  BY <1>1, <1>2, <1>4 DEF Blamed, Lang
<1>12. VerdictInv'
  BY <1>1, <1>4, <1>11 DEF FullInv, SaidInv, VerdictInv, TestsAreSummed, HasTests
<1> QED BY <1>5, <1>6, <1>8, <1>9, <1>10, <1>12 DEF FullInv, SaidInv

LEMMA RunnerKeeps == FullInv /\ [RunnerNext]_rvars => FullInv'
<1> SUFFICES ASSUME FullInv, [RunnerNext]_rvars PROVE FullInv'
  OBVIOUS
<1>1. CASE Begins \/ DepsBegins
  BY <1>1, BeginsKeep
<1>2. CASE Steps
  <2>1. RunnerInv'
    BY <1>2, StepsProceed, EffectSound, EffectStaged DEF FullInv, RunnerInv, Proceeds
  <2> QED BY <1>2, <2>1, StepsKeepSaid DEF FullInv
<1>3. CASE Cancels
  <2>1. token' = TRUE /\ UNCHANGED <<call, run, cache, host>>
    BY <1>3 DEF Cancels
  <2>2. RunnerInv'
    BY <2>1 DEF FullInv, RunnerInv, CallsSound, Staged, Running, Lang
  <2>3. Told' /\ CompilerInv' /\ CacheInv' /\ StageInv'
    BY <2>1 DEF FullInv, SaidInv, Told, CompilerInv, CacheInv, StageInv, Works, Lang
  <2>4. VerdictInv'
    BY <2>1 DEF FullInv, SaidInv, VerdictInv, TestsAreSummed, Blamed, Lang
  <2> QED BY <2>2, <2>3, <2>4 DEF FullInv, SaidInv
<1>4. CASE Upgrades
  BY <1>4, UpgradesKeep
<1>5. ASSUME NEW c \in Call, Around(c) PROVE FullInv'
  BY <1>5, AroundKeeps
<1>6. CASE UNCHANGED rvars
  <2>1. UNCHANGED <<call, token, run, cache, host>>
    BY <1>6 DEF rvars
  <2>2. RunnerInv'
    BY <2>1 DEF FullInv, RunnerInv, CallsSound, Staged, Running, Lang
  <2>3. Told' /\ CompilerInv' /\ CacheInv' /\ StageInv'
    BY <2>1 DEF FullInv, SaidInv, Told, CompilerInv, CacheInv, StageInv, Works, Lang
  <2>4. VerdictInv'
    BY <2>1 DEF FullInv, SaidInv, VerdictInv, TestsAreSummed, HasTests, Blamed, Lang
  <2> QED BY <2>2, <2>3, <2>4 DEF FullInv, SaidInv
<1> QED BY <1>1, <1>2, <1>3, <1>4, <1>5, <1>6 DEF RunnerNext

LEMMA RunnerStarts == RunnerInit => FullInv
<1> SUFFICES ASSUME RunnerInit PROVE FullInv
  OBVIOUS
<1>1. call = [c \in Call |-> Idle]
  BY DEF RunnerInit
<1>2. {main, side, check} \subseteq Call
  BY NamesOfCalls
<1>3. Fields \subseteq DOMAIN run /\ run.pc = "over" /\ run.verdict = None
  BY DEF RunnerInit, Fields
<1>4. \A c \in Call : ~Running(c)
  BY <1>1, CallValues DEF Running
<1>5. CallsSound
  BY <1>1, CallValues DEF CallsSound
<1>6. RunnerInv
  BY <1>2, <1>3, <1>4, <1>5 DEF RunnerInv, Staged
<1>7. Told
  BY <1>1, NewCalls DEF Told, Stopped
<1>8. CompilerInv /\ StageInv
  BY <1>3 DEF RunnerInit, CompilerInv, StageInv, Compiles
<1>9. CacheInv
  BY DEF RunnerInit, CacheInv
<1>10. VerdictInv
  BY <1>3, NamesOfCalls DEF VerdictInv, TestsAreSummed
<1> QED BY <1>6, <1>7, <1>8, <1>9, <1>10 DEF FullInv, SaidInv

-----------------------------------------------------------------------------
(* What runs promise, whatever their kind.                                 *)

\* The calls of a run are in step with the stage of its runner, and none that
\* has returned or was dropped has a leader (run_inner, the runners); the caches
\* are what their stamps say; and what is said of the run has its reason.
THEOREM RunnerInvariant == RunnerSpec => []FullInv
BY RunnerStarts, RunnerKeeps, PTL DEF RunnerSpec

\* A runner that returns, in any language and on any path, leaves no leader of
\* a process group: LeadersEndWithTheRun, for any number of calls and pipes.
THEOREM NoLeaderIsLeft == RunnerSpec => []LeadersEndWithTheRun
<1>1. FullInv => LeadersEndWithTheRun
  <2> SUFFICES ASSUME FullInv, run.pc = "over", NEW c \in Call PROVE ~Alive(c)
    BY DEF LeadersEndWithTheRun
  <2>1. ~Running(c)
    BY DEF FullInv, RunnerInv, Staged, Quiet
  <2> QED BY <2>1 DEF FullInv, RunnerInv, CallsSound, Sound, Running, Alive
<1> QED BY <1>1, RunnerInvariant, PTL

\* Although a leader's number is given away once it has been waited for, and
\* signalled when the drain is over, a call that ends by itself kills nobody by
\* it (kill_group, `finished'): StrangersAreSpared.
THEOREM CallsThatEndKillNobody == RunnerSpec => []StrangersAreSpared
<1>1. FullInv => StrangersAreSpared
  BY DEF FullInv, RunnerInv, CallsSound, Sound, Stopped, StrangersAreSpared
<1> QED BY <1>1, RunnerInvariant, PTL

\* No fast path of any runner (rustc without cargo, Go's kept configuration,
\* the precompiled header, Zig's servers) makes a compile error of sources that
\* are good, for any number of runs and of upgrades in between, unless the last
\* tool did not come to an answer, a file could not be written, or a header was
\* replaced by one of an earlier date: CompileErrorIsTheSources.
THEOREM FastPathsAreHonest == RunnerSpec => []CompileErrorIsTheSources
<1>1. FullInv => CompileErrorIsTheSources
  BY DEF FullInv, SaidInv, VerdictInv, Blamed, CompileErrorIsTheSources
<1> QED BY <1>1, RunnerInvariant, PTL

\* A run with tests that was not stopped sums them up in every language,
\* wherever building or running them failed, unless cargo names no binary of
\* the tests it built: TestsAreSummed.
THEOREM EveryRunSumsItsTests == RunnerSpec => []TestsAreSummed
<1>1. FullInv => TestsAreSummed
  BY DEF FullInv, SaidInv, VerdictInv
<1> QED BY <1>1, RunnerInvariant, PTL
=============================================================================
