------------------------------ MODULE Supervisor ------------------------------
(***************************************************************************)
(* One child process from start to finish (exec/supervisor.rs, run_inner): *)
(* a select loop over the cancel token, the deadline, the drain window,    *)
(* the output pipes and the exit of the child, the first that is ready in  *)
(* that order; and a killer task that outlives the call.  `call' holds the *)
(* calls that are under way side by side and, with each, the processes it  *)
(* started: the leader of a process group, the others of the group, and    *)
(* one that left the group (setsid).                                       *)
(***************************************************************************)
EXTENDS Naturals, FiniteSets

CONSTANTS
  Call,     \* calls of run() that may be under way at once
  Stream,   \* the output pipes: stdout, stderr, fd 3
  None

VARIABLES
  call,     \* [Call -> what run_inner holds, and its processes]
  token     \* the run's CancellationToken has been cancelled

Code == {"zero", "nonzero", "signal"}

CallState ==
  [pc : {"idle", "running", "returned", "dropped"},
   leader : {"none", "alive", "gone"}, code : Code \cup {None},
   mates : {"none", "holding", "silent"},    \* the rest of the group
   escapee : BOOLEAN,                        \* holds a pipe, out of reach
   open : SUBSET Stream, limit : Stream \cup {None},
   exited : BOOLEAN, cancelled : BOOLEAN, timedOut : BOOLEAN, terminating : BOOLEAN,
   killer : {"none", "armed", "late", "over"},
   stranger : {"none", "there", "told", "killed"}]   \* who has the id now

Idle ==
  [pc |-> "idle", leader |-> "none", code |-> None, mates |-> "none", escapee |-> FALSE,
   open |-> {}, limit |-> None, exited |-> FALSE, cancelled |-> FALSE, timedOut |-> FALSE,
   terminating |-> FALSE, killer |-> "none", stranger |-> "none"]

\* A child that was spawned, and one that could not be (no such program, no
\* probe pipe, no sandbox): no exit code, nothing else set.
Spawned == [Idle EXCEPT !.pc = "running", !.leader = "alive", !.open = Stream]
Unspawned == [Idle EXCEPT !.pc = "returned"]

Running(c)  == call[c].pc = "running"
Returned(c) == call[c].pc = "returned"
ExitCode(c) == IF call[c].code = "signal" THEN None ELSE call[c].code

(***************************************************************************)
(* The processes.                                                          *)
(***************************************************************************)
Alive(c) == call[c].leader = "alive"

Exits(c, code) ==
  /\ Alive(c)
  /\ call' = [call EXCEPT ![c].leader = "gone", ![c].code = code]

\* A child that leaves nothing behind: its exit and the end of its pipes come
\* together, after the token if that was cancelled; nothing is left to kill.
EndedAlone(s, code) ==
  [s EXCEPT !.leader = "gone", !.code = code, !.exited = TRUE, !.open = {},
            !.cancelled = @ \/ token, !.terminating = @ \/ token,
            !.killer = "none", !.pc = "returned"]

ExitsAlone(c, code) ==
  /\ Running(c) /\ Alive(c)
  /\ call' = [call EXCEPT ![c] = EndedAlone(call[c], code)]

\* A descendant in the group, with or without the pipes, or out of it.
Forks(c) ==
  /\ Running(c) /\ Alive(c) /\ call[c].mates = "none" /\ ~call[c].escapee
  /\ \/ \E m \in {"holding", "silent"} : call' = [call EXCEPT ![c].mates = m]
     \/ call' = [call EXCEPT ![c].escapee = TRUE]

DescendantEnds(c) ==
  \/ call[c].mates # "none" /\ call' = [call EXCEPT ![c].mates = "none"]
  \/ call[c].escapee /\ call' = [call EXCEPT ![c].escapee = FALSE]

\* The leader has been waited for and no process of the group is left: the
\* system may give the id away again, to a group that is a stranger to us.
IdReused(c) ==
  /\ call[c].leader = "gone" /\ (call[c].exited \/ call[c].pc = "dropped")
  /\ call[c].mates = "none" /\ call[c].stranger = "none"
  /\ call' = [call EXCEPT ![c].stranger = "there"]

(***************************************************************************)
(* The select loop.  The arm of the token comes before all others.         *)
(***************************************************************************)
Selects(c) == Running(c) /\ (token => call[c].cancelled)

\* Mutation: SIGTERM, and nothing after it.
TerminateOnce(s) == [s EXCEPT !.terminating = TRUE]

\* terminate(): SIGTERM to the group, once, by number; and the killer armed.
Terminate(s) ==
  IF s.terminating THEN s
  ELSE [s EXCEPT !.terminating = TRUE, !.killer = IF s.exited THEN "late" ELSE "armed",
                 !.stranger = IF @ = "there" THEN "told" ELSE @]

\* The loop ends once the child has exited and every pipe is done: the flag
\* `finished' that the killer reads is set with the return.
Settle(s) ==
  IF s.exited /\ s.open = {} THEN [s EXCEPT !.pc = "returned"] ELSE s

Loop(c, s) == call' = [call EXCEPT ![c] = Settle(s)]

SeesCancel(c) ==
  /\ Running(c) /\ token /\ ~call[c].cancelled
  /\ Loop(c, Terminate([call[c] EXCEPT !.cancelled = TRUE]))

Deadline(c) ==
  /\ Selects(c) /\ ~call[c].timedOut /\ ~call[c].terminating
  /\ Loop(c, Terminate([call[c] EXCEPT !.timedOut = TRUE]))

\* Mutation: a drain window shorter than the killer's wait.
DrainAtOnce(c) ==
  /\ Selects(c) /\ call[c].exited
  /\ Loop(c, [Terminate(call[c]) EXCEPT !.open = {}])

\* DESCENDANT_DRAIN_MS after the exit.  It is longer than the killer's wait:
\* a killer armed before the exit has struck by then.
Drain(c) ==
  /\ Selects(c) /\ call[c].exited /\ call[c].killer # "armed"
  /\ Loop(c, [Terminate(call[c]) EXCEPT !.open = {}])

Holders(c) == Alive(c) \/ call[c].mates = "holding" \/ call[c].escapee

ReadsEof(c) ==
  /\ Selects(c) /\ ~Holders(c)
  /\ \E s \in call[c].open : Loop(c, [call[c] EXCEPT !.open = @ \ {s}])

\* A read that passes the byte limit of the pipe, once per pipe.
PassesLimit(c) ==
  /\ Selects(c) /\ Holders(c) /\ call[c].limit = None
  /\ \E s \in call[c].open : Loop(c, Terminate([call[c] EXCEPT !.limit = s]))

SeesExit(c) ==
  /\ Selects(c) /\ call[c].leader = "gone" /\ ~call[c].exited
  /\ Loop(c, [call[c] EXCEPT !.exited = TRUE])

\* SIGKILL to the group, by number: whoever has the number now.
Struck(s) ==
  [s EXCEPT !.killer = "over", !.mates = "none",
            !.leader = "gone", !.code = IF @ = None THEN "signal" ELSE @,
            !.stranger = IF @ = "none" THEN "none" ELSE "killed"]

\* Mutation: `finished' is not looked at.
KillsAnyway(c) ==
  /\ call[c].killer \in {"armed", "late"}
  /\ call' = [call EXCEPT ![c] = Struck(call[c])]

\* The killer, 250 ms after SIGTERM, unless the call has finished.
Kills(c) ==
  /\ call[c].killer \in {"armed", "late"}
  /\ call' = [call EXCEPT ![c] =
       IF Returned(c) THEN [call[c] EXCEPT !.killer = "over"] ELSE Struck(call[c])]

\* Mutation: without kill_on_drop.
DroppedOnly(s) == IF s.pc = "running" THEN [s EXCEPT !.pc = "dropped"] ELSE s

\* The future is dropped (its task aborted): kill_on_drop reaches the leader.
Dropped(s) ==
  IF s.pc = "running"
  THEN [s EXCEPT !.pc = "dropped", !.leader = "gone", !.code = IF @ = None THEN "signal" ELSE @]
  ELSE s

-----------------------------------------------------------------------------
\* What the loop does by itself, whatever is written on the pipes.
Arms(c) ==
  SeesCancel(c) \/ Deadline(c) \/ Drain(c) \/ ReadsEof(c) \/ SeesExit(c)
=============================================================================
