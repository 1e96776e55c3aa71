------------------------------- MODULE Workers -------------------------------
(***************************************************************************)
(* The long-lived helper processes of a session: instrumenter workers      *)
(* (languages/instrument_worker.rs, JSON lines with ids, shared or one per *)
(* session) and Zig compile servers (languages/zig/compile_server.rs, a    *)
(* binary stream without ids).  A table maps keys to slots; a slot holds a *)
(* process and is locked for a whole exchange.  Forgetting a session takes *)
(* the slots out of the table while requests may hold them; a process is   *)
(* killed when the last holder of its slot lets go (kill_on_drop).         *)
(***************************************************************************)
EXTENDS Naturals, Sequences, FiniteSets

CONSTANTS
  Shared,      \* keys of the workers all sessions share
  Own,         \* keys of the session's instrumenter workers
  Zig,         \* keys of its compile servers: program, tests
  Request,     \* requests of its runs, at most one exchange each
  Confinement, \* sandboxes a request may come with
  MaxProcs,    \* bound: processes started, numbered as they are
  Null

VARIABLES
  table,       \* [Key -> the slot under this key, or Null]
  holds,       \* [slot -> its process, or Null]
  lock,        \* [slot -> who holds its lock, or Null]
  unused,      \* slots whose process has been idle for IDLE
  proc,        \* [process -> its sandbox, its state, the requests it has yet to answer]
  request,     \* [Request -> where it is]
  forgetting,  \* forget: the slots it has taken from the table and not emptied
  reaping,     \* reap_idle: the slots it has still to look at
  needsLibc,   \* the session is in NEEDS_LIBC
  forgotten    \* the session has been forgotten

wvars == <<table, holds, lock, unused, proc, request, forgetting, reaping, needsLibc, forgotten>>

Key  == Shared \cup Own \cup Zig
\* A key has one slot until the session is forgotten, and may get another.
Slot == Key \X {1, 2}
Proc == 1..MaxProcs
Forget == "forget"

Waiting(r) == request[r].pc \in {"slot", "locked", "sent"}
\* Somebody can still reach the slot: the table, a request, forget or the reaper.
Reachable(n) ==
  \/ table[n[1]] = n
  \/ \E r \in Request : Waiting(r) /\ request[r].slot = n
  \/ n \in forgetting \/ n \in reaping

\* A process runs while a slot that can be reached holds it and it has not died.
Running(p) == proc[p].up /\ \E n \in Slot : holds[n] = p /\ Reachable(n)

WorkersTypeOK ==
  /\ table \in [Key -> Slot \cup {Null}]
  /\ holds \in [Slot -> Proc \cup {Null}]
  /\ lock \in [Slot -> Request \cup {Null}]
  /\ unused \subseteq Slot /\ forgetting \subseteq Slot /\ reaping \subseteq Slot
  /\ proc \in [Proc -> [up : BOOLEAN, born : BOOLEAN, conf : Confinement \cup {Null},
                        pipe : Seq(Request)]]
  /\ request \in [Request ->
       [pc : {"new", "slot", "locked", "sent", "done"}, slot : Slot \cup {Null},
        conf : Confinement \cup {Null}, got : Request \cup {"nothing", "cli", Null}]]
  /\ needsLibc \in BOOLEAN /\ forgotten \in BOOLEAN

WorkersInit ==
  /\ table = [k \in Key |-> Null]
  /\ holds = [n \in Slot |-> Null] /\ lock = [n \in Slot |-> Null]
  /\ unused = {} /\ forgetting = {} /\ reaping = {}
  /\ proc = [p \in Proc |-> [up |-> FALSE, born |-> FALSE, conf |-> Null, pipe |-> <<>>]]
  /\ request = [r \in Request |-> [pc |-> "new", slot |-> Null, conf |-> Null, got |-> "nothing"]]
  /\ needsLibc = FALSE /\ forgotten = FALSE

KeyOf(r) == request[r].slot[1]
Held(r)  == holds[request[r].slot]

(***************************************************************************)
(* A request: the slot found or made, locked, filled, used.                *)
(***************************************************************************)
\* A compile server is not asked when the session is known to need libc.
FindSlot(r, k, c) ==
  LET n == IF table[k] # Null THEN table[k]
           ELSE <<k, IF forgotten THEN 2 ELSE 1>>
  IN
  /\ request[r].pc = "new" /\ (k \in Zig => ~needsLibc)
  /\ table' = [table EXCEPT ![k] = n]
  /\ request' = [request EXCEPT ![r].pc = "slot", ![r].slot = n,
                                ![r].conf = IF k \in Shared THEN Null ELSE c]
  /\ UNCHANGED <<holds, lock, unused, proc, forgetting, reaping, needsLibc, forgotten>>

\* Mutation: the process in the slot is used as it is found.
LockSlotAsFound(r) ==
  /\ request[r].pc = "slot" /\ lock[request[r].slot] = Null
  /\ lock' = [lock EXCEPT ![request[r].slot] = r]
  /\ request' = [request EXCEPT ![r].pc = "locked"]
  /\ UNCHANGED <<table, holds, unused, proc, forgetting, reaping, needsLibc, forgotten>>

\* The lock is got; a process under another sandbox is not this request's.
LockSlot(r) ==
  LET n == request[r].slot IN
  /\ request[r].pc = "slot" /\ lock[n] = Null
  /\ lock' = [lock EXCEPT ![n] = r]
  /\ holds' = IF holds[n] # Null /\ proc[holds[n]].conf # request[r].conf
              THEN [holds EXCEPT ![n] = Null] ELSE holds
  /\ request' = [request EXCEPT ![r].pc = "locked"]
  /\ UNCHANGED <<table, unused, proc, forgetting, reaping, needsLibc, forgotten>>

Return(r, got) ==
  /\ request' = [request EXCEPT ![r].pc = "done", ![r].got = got]
  /\ lock' = [lock EXCEPT ![request[r].slot] = Null]

\* What the empty slot is filled with, or that it cannot be.
SpawnWorker(r) ==
  /\ request[r].pc = "locked" /\ Held(r) = Null
  /\ \E p \in Proc :
       /\ ~proc[p].born /\ \A q \in 1..(p - 1) : proc[q].born
       /\ proc' = [proc EXCEPT ![p] = [up |-> TRUE, born |-> TRUE,
                                       conf |-> request[r].conf, pipe |-> <<>>]]
       /\ holds' = [holds EXCEPT ![request[r].slot] = p]
  /\ UNCHANGED <<table, lock, unused, request, forgetting, reaping, needsLibc, forgotten>>

SpawnFails(r) ==
  /\ request[r].pc = "locked" /\ Held(r) = Null
  /\ Return(r, "cli")
  /\ UNCHANGED <<table, holds, unused, proc, forgetting, reaping, needsLibc, forgotten>>

\* The request is written; a process that has died takes it as well.
Send(r) ==
  /\ request[r].pc = "locked" /\ Held(r) # Null
  /\ proc' = [proc EXCEPT ![Held(r)].pipe = Append(@, r)]
  /\ unused' = unused \ {request[r].slot}
  /\ request' = [request EXCEPT ![r].pc = "sent"]
  /\ UNCHANGED <<table, holds, lock, forgetting, reaping, needsLibc, forgotten>>

Answered(r) == Held(r) # Null /\ proc[Held(r)].up /\ proc[Held(r)].pipe # <<>>

\* A worker's answer is read: one with another id is an error.
ReadWorker(r) ==
  LET p == Held(r) IN
  /\ request[r].pc = "sent" /\ KeyOf(r) \notin Zig /\ Answered(r)
  /\ proc' = [proc EXCEPT ![p].pipe = Tail(@)]
  /\ IF Head(proc[p].pipe) = r
     THEN Return(r, r) /\ UNCHANGED holds
     ELSE Return(r, "cli") /\ holds' = [holds EXCEPT ![request[r].slot] = Null]
  /\ UNCHANGED <<table, unused, forgetting, reaping, needsLibc, forgotten>>

\* A compile server's answer is whatever comes next.
ReadServer(r) ==
  LET p == Held(r) IN
  /\ request[r].pc = "sent" /\ KeyOf(r) \in Zig /\ Answered(r)
  /\ proc' = [proc EXCEPT ![p].pipe = Tail(@)]
  /\ Return(r, Head(proc[p].pipe))
  /\ UNCHANGED <<table, holds, unused, forgetting, reaping, needsLibc, forgotten>>

\* The program wants libc: remembered, the server stopped, the classic build.
WantsLibc(r) ==
  /\ request[r].pc = "sent" /\ KeyOf(r) \in Zig /\ Answered(r)
  /\ needsLibc' = TRUE
  /\ holds' = [holds EXCEPT ![request[r].slot] = Null]
  /\ Return(r, "cli")
  /\ UNCHANGED <<table, unused, proc, forgetting, reaping, forgotten>>

\* A crash, a malformed answer, the timeout: the process is dropped.
ExchangeFails(r) ==
  /\ request[r].pc = "sent"
  /\ holds' = [holds EXCEPT ![request[r].slot] = Null]
  /\ Return(r, "cli")
  /\ UNCHANGED <<table, unused, proc, forgetting, reaping, needsLibc, forgotten>>

\* Mutation: a cancelled update leaves the server for the next.
CancelKeepsServer(r) ==
  /\ request[r].pc = "sent" /\ KeyOf(r) \in Zig
  /\ Return(r, Null)
  /\ UNCHANGED <<table, holds, unused, proc, forgetting, reaping, needsLibc, forgotten>>

\* The run is cancelled mid-update: the stream cannot be taken up again.
CancelUpdate(r) ==
  /\ request[r].pc = "sent" /\ KeyOf(r) \in Zig
  /\ holds' = [holds EXCEPT ![request[r].slot] = Null]
  /\ Return(r, Null)
  /\ UNCHANGED <<table, unused, proc, forgetting, reaping, needsLibc, forgotten>>

Dies(p) ==
  /\ Running(p)
  /\ proc' = [proc EXCEPT ![p].up = FALSE]
  /\ UNCHANGED <<table, holds, lock, unused, request, forgetting, reaping, needsLibc, forgotten>>

(***************************************************************************)
(* forget and reap_idle.                                                   *)
(***************************************************************************)
\* The session's slots leave the table; a worker's goes with its last
\* holder, a compile server's is waited for and emptied.
ForgetSession ==
  /\ ~forgotten /\ forgotten' = TRUE
  /\ table' = [k \in Key |-> IF k \in Shared THEN table[k] ELSE Null]
  /\ forgetting' = {table[k] : k \in {z \in Zig : table[z] # Null}}
  /\ needsLibc' = FALSE
  /\ UNCHANGED <<holds, lock, unused, proc, request, reaping>>

EmptyForgotten(n) ==
  /\ n \in forgetting /\ lock[n] = Null
  /\ holds' = [holds EXCEPT ![n] = Null]
  /\ forgetting' = forgetting \ {n}
  /\ UNCHANGED <<table, lock, unused, proc, request, reaping, needsLibc, forgotten>>

\* IDLE goes by without a request for this slot.
GoesUnused(n) ==
  /\ table[n[1]] = n /\ holds[n] # Null /\ n \notin unused /\ lock[n] = Null
  /\ unused' = unused \cup {n}
  /\ UNCHANGED <<table, holds, lock, proc, request, forgetting, reaping, needsLibc, forgotten>>

\* Mutation: the reaper's filter is the wrong way round.
ReapsShared ==
  /\ reaping = {}
  /\ reaping' = {table[k] : k \in {s \in Shared : table[s] # Null}}
  /\ reaping' # {}
  /\ UNCHANGED <<table, holds, lock, unused, proc, request, forgetting, needsLibc, forgotten>>

ReapStarts ==
  /\ reaping = {}
  /\ reaping' = {table[k] : k \in {s \in Own \cup Zig : table[s] # Null}}
  /\ reaping' # {}
  /\ UNCHANGED <<table, holds, lock, unused, proc, request, forgetting, needsLibc, forgotten>>

\* try_lock: a slot that is busy is not idle.
ReapSlot(n) ==
  /\ n \in reaping /\ reaping' = reaping \ {n}
  /\ IF lock[n] = Null /\ n \in unused
     THEN holds' = [holds EXCEPT ![n] = Null] /\ unused' = unused \ {n}
     ELSE UNCHANGED <<holds, unused>>
  /\ UNCHANGED <<table, lock, proc, request, forgetting, needsLibc, forgotten>>

-----------------------------------------------------------------------------
Exchange(r) ==
  \/ LockSlot(r) \/ SpawnWorker(r) \/ SpawnFails(r) \/ Send(r)
  \/ ReadWorker(r) \/ ReadServer(r) \/ WantsLibc(r) \/ ExchangeFails(r) \/ CancelUpdate(r)

WorkersInternal ==
  \/ \E r \in Request : Exchange(r)
  \/ \E p \in Proc : Dies(p)
  \/ \E n \in Slot : EmptyForgotten(n) \/ GoesUnused(n) \/ ReapSlot(n)
  \/ ReapStarts

Asked == \E r \in Request, k \in Key, c \in Confinement : FindSlot(r, k, c)

WorkersNext == WorkersInternal \/ Asked \/ ForgetSession
WorkersSpec == WorkersInit /\ [][WorkersNext]_wvars

\* Exchanges end (their timeouts see to it), locks are handed on, the reaper
\* comes round every 30 s and IDLE passes.
WorkersFairness ==
  /\ \A r \in Request : WF_wvars(Exchange(r))
  /\ \A n \in Slot : WF_wvars(EmptyForgotten(n)) /\ WF_wvars(ReapSlot(n)) /\ WF_wvars(GoesUnused(n))
  /\ WF_wvars(ReapStarts)

-----------------------------------------------------------------------------
\* A run is never given another request's answer: not after a timeout, not
\* after a cancelled update, not over a crash and a new process.
AnswerIsOwn ==
  \A r \in Request : request[r].got \in Request => request[r].got = r

\* What answers a request runs in the sandbox the request came with, also
\* when the session's settings changed while another request was waiting.
RightConfinement ==
  \A r \in Request :
    request[r].pc = "sent" /\ Held(r) # Null => proc[Held(r)].conf = request[r].conf

\* The process a request is waiting for is not taken from under it by the
\* reaper or by the session's end.
BusyIsSpared ==
  \A r \in Request : request[r].pc = "sent" => Held(r) # Null
=============================================================================
