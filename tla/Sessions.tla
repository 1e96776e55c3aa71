------------------------------ MODULE Sessions ------------------------------
(***************************************************************************)
(* The life of a session (apps/server-rs/src/domain/session.rs, the socket *)
(* handler of ws/runtime.rs, the routes that create one): created over     *)
(* several awaits and published last, held by at most one runtime socket,  *)
(* kept for a grace after the socket drops, destroyed with its directory;  *)
(* and the sweep that removes the directories sessions left behind.        *)
(*                                                                         *)
(* Every step is what one task does between two awaits on shared state.    *)
(* Time is a day counter of one bit per directory: `cold' holds the        *)
(* directories whose own mtime is older than STALE_AFTER_MS.               *)
(***************************************************************************)
EXTENDS Naturals, FiniteSets

CONSTANTS
  Id,          \* session ids, each created at most once
  Persistent,  \* those backed by a workspace: their directory outlives them
  Socket,      \* runtime sockets, in any order, for any session
  Port,        \* ports a session's server may listen on
  None,
  MaxStops     \* bound: how often the server stops or crashes

ASSUME SessionsAssumption ==
  /\ Persistent \subseteq Id
  /\ Port # {}
  /\ None \notin Id \cup Port
  /\ MaxStops \in Nat

VARIABLES
  up,          \* the process runs
  stops,       \* how often it has stopped
  made,        \* [Id -> stage of SessionManager::create and its route]
  port,        \* [Id -> http_port]
  sessions,    \* the keys of SessionManager.sessions
  dirs,        \* session directories on disk
  cold,        \* those not touched for a day
  connected,   \* [Id -> Session.runtime_connected]
  generation,  \* [Id -> Session.attach_generation]
  socket,      \* [Socket -> handle_runtime's task]
  sweep,       \* the sweep under way: the ids it spares, or None
  closing,     \* SessionManager::close under way: the ids left, or None
  overlapped,  \* history: pairs of sessions created at the same time
  late         \* history: sessions attached to after their fate was decided

disk  == <<dirs, cold>>
life  == <<made, port, sessions, overlapped>>
held  == <<connected, generation, socket, late>>
svars == <<up, stops, life, disk, held, sweep, closing>>

Idle == [pc |-> "unused", of |-> None, gen |-> 0]
InFlight == {i \in Id : made[i] \in {"port", "staged"}}

SessionsTypeOK ==
  /\ up \in BOOLEAN /\ stops \in 0..MaxStops
  /\ made \in [Id -> {"new", "port", "staged", "listed", "answered", "failed"}]
  /\ port \in [Id -> Port \cup {None}]
  /\ sessions \subseteq Id /\ dirs \subseteq Id /\ cold \subseteq dirs
  /\ connected \in [Id -> BOOLEAN] /\ generation \in [Id -> Nat]
  /\ socket \in [Socket ->
       [pc : {"unused", "asked", "swapped", "open", "grace", "doomed",
              "forget", "remove", "rmdir", "over"},
        of : Id \cup {None}, gen : Nat]]
  /\ sweep \in {None} \cup SUBSET Id /\ closing \in {None} \cup SUBSET Id
  /\ overlapped \subseteq SUBSET Id /\ late \subseteq Id

SessionsInit ==
  /\ up = TRUE /\ stops = 0
  /\ made = [i \in Id |-> "new"] /\ port = [i \in Id |-> None]
  /\ sessions = {} /\ dirs = {} /\ cold = {}
  /\ connected = [i \in Id |-> FALSE] /\ generation = [i \in Id |-> 0]
  /\ socket = [k \in Socket |-> Idle]
  /\ sweep = None /\ closing = None /\ overlapped = {} /\ late = {}

(***************************************************************************)
(* Creation.                                                               *)
(***************************************************************************)
\* Mutation: the ports in use are not looked at.
AnyPort == Port

\* Ports of the sessions in the map; one another program holds is not free
\* either, which only narrows the choice.  With none free the first is taken.
FreePorts == Port \ {port[j] : j \in sessions}

ChoosePort(i) ==
  /\ up /\ made[i] = "new"
  /\ \E p \in (IF FreePorts = {} THEN Port ELSE FreePorts) : port' = [port EXCEPT ![i] = p]
  /\ made' = [made EXCEPT ![i] = "port"]
  /\ overlapped' = overlapped \cup {{i, j} : j \in InFlight}
  /\ UNCHANGED <<up, stops, sessions, disk, held, sweep, closing>>

\* The directories: fresh for a scratch session, there already for a workspace.
MakeDirectories(i) ==
  /\ up /\ made[i] = "port"
  /\ made' = [made EXCEPT ![i] = "staged"]
  /\ dirs' = dirs \cup {i} /\ cold' = cold \ {i}
  /\ UNCHANGED <<up, stops, port, sessions, overlapped, held, sweep, closing>>

\* Toolchains probed, languages scaffolded, sources written or read back:
\* then, and only then, the session is put in the map.
Publish(i) ==
  /\ up /\ made[i] = "staged"
  /\ made' = [made EXCEPT ![i] = "listed"]
  /\ sessions' = sessions \cup {i}
  /\ UNCHANGED <<up, stops, port, overlapped, disk, held, sweep, closing>>

\* An error on the way leaves the directory, if it was made, behind.
CreateFails(i) ==
  /\ up /\ made[i] \in {"port", "staged"}
  /\ made' = [made EXCEPT ![i] = "failed"]
  /\ UNCHANGED <<up, stops, port, sessions, overlapped, disk, held, sweep, closing>>

\* SessionManager::destroy in one go: the session leaves the map, a scratch
\* one with its directory.
Gone(i) ==
  /\ sessions' = sessions \ {i}
  /\ dirs' = IF i \in sessions \ Persistent THEN dirs \ {i} ELSE dirs
  /\ cold' = cold \cap dirs'

\* The recovered files and the input are put in place before the client
\* hears of the session; files that do not fit cost it the session.
Answer(i) ==
  /\ up /\ made[i] = "listed" /\ i \in sessions
  /\ made' = [made EXCEPT ![i] = "answered"]
  /\ UNCHANGED <<up, stops, port, sessions, overlapped, disk, held, sweep, closing>>

RestoreFails(i) ==
  /\ up /\ made[i] = "listed"
  /\ made' = [made EXCEPT ![i] = "failed"]
  /\ Gone(i)
  /\ UNCHANGED <<up, stops, port, overlapped, held, sweep, closing>>

(***************************************************************************)
(* The runtime socket: authenticated by the route, served later.           *)
(***************************************************************************)
Ask(k, i) ==
  /\ up /\ socket[k].pc = "unused"
  /\ i \in sessions /\ made[i] = "answered"
  /\ socket' = [socket EXCEPT ![k] = [pc |-> "asked", of |-> i, gen |-> 0]]
  /\ UNCHANGED <<up, stops, life, disk, connected, generation, late, sweep, closing>>

\* runtime_connected.swap(true): the second socket is refused.
Swap(k) ==
  LET i == socket[k].of IN
  /\ up /\ socket[k].pc = "asked"
  /\ connected' = [connected EXCEPT ![i] = TRUE]
  /\ socket' = [socket EXCEPT ![k].pc = IF connected[i] THEN "over" ELSE "swapped"]
  /\ UNCHANGED <<up, stops, life, disk, generation, late, sweep, closing>>

\* The session's end is decided: its grace is over, or the server is closing.
Decided(i) ==
  \/ i \notin sessions
  \/ closing # None
  \/ \E k \in Socket : socket[k].of = i /\ socket[k].pc \in {"doomed", "forget", "remove"}

\* Mutation: the generation before this attach is taken for its own.
AttachKeepsOldGeneration(k) ==
  LET i == socket[k].of IN
  /\ up /\ socket[k].pc = "swapped"
  /\ generation' = [generation EXCEPT ![i] = @ + 1]
  /\ socket' = [socket EXCEPT ![k].pc = "open", ![k].gen = generation[i]]
  /\ late' = IF Decided(i) THEN late \cup {i} ELSE late
  /\ UNCHANGED <<up, stops, life, disk, connected, sweep, closing>>

Attach(k) ==
  LET i == socket[k].of IN
  /\ up /\ socket[k].pc = "swapped"
  /\ generation' = [generation EXCEPT ![i] = @ + 1]
  /\ socket' = [socket EXCEPT ![k].pc = "open", ![k].gen = generation[i] + 1]
  /\ late' = IF Decided(i) THEN late \cup {i} ELSE late
  /\ UNCHANGED <<up, stops, life, disk, connected, sweep, closing>>

\* The stream ends: scheduler closed, dependencies cancelled, the workspace
\* left, the tasks aborted, and last the flag.  Then the grace task sleeps.
Drop(k) ==
  /\ up /\ socket[k].pc = "open"
  /\ connected' = [connected EXCEPT ![socket[k].of] = FALSE]
  /\ socket' = [socket EXCEPT ![k].pc = "grace"]
  /\ UNCHANGED <<up, stops, life, disk, generation, late, sweep, closing>>

\* Mutation: the grace over, nothing is compared.
CompareNothing(k) ==
  /\ up /\ socket[k].pc = "grace"
  /\ socket' = [socket EXCEPT ![k].pc = "doomed"]
  /\ UNCHANGED <<up, stops, life, disk, connected, generation, late, sweep, closing>>

\* RECONNECT_GRACE is over: has anything attached since?
Compare(k) ==
  /\ up /\ socket[k].pc = "grace"
  /\ socket' = [socket EXCEPT ![k].pc =
       IF generation[socket[k].of] = socket[k].gen THEN "doomed" ELSE "over"]
  /\ UNCHANGED <<up, stops, life, disk, connected, generation, late, sweep, closing>>

\* lsp_registry.close_session, then the compile servers and the workers.
CloseServers(k) ==
  /\ up /\ socket[k].pc = "doomed"
  /\ socket' = [socket EXCEPT ![k].pc = "forget"]
  /\ UNCHANGED <<up, stops, life, disk, connected, generation, late, sweep, closing>>

ForgetWorkers(k) ==
  /\ up /\ socket[k].pc = "forget"
  /\ socket' = [socket EXCEPT ![k].pc = "remove"]
  /\ UNCHANGED <<up, stops, life, disk, connected, generation, late, sweep, closing>>

RemoveSession(k) ==
  LET i == socket[k].of IN
  /\ up /\ socket[k].pc = "remove"
  /\ sessions' = sessions \ {i}
  /\ socket' = [socket EXCEPT ![k].pc =
       IF i \in sessions \ Persistent THEN "rmdir" ELSE "over"]
  /\ UNCHANGED <<up, stops, made, port, overlapped, disk, connected, generation, late, sweep, closing>>

RemoveDirectory(k) ==
  /\ up /\ socket[k].pc = "rmdir"
  /\ dirs' = dirs \ {socket[k].of} /\ cold' = cold \ {socket[k].of}
  /\ socket' = [socket EXCEPT ![k].pc = "over"]
  /\ UNCHANGED <<up, stops, life, connected, generation, late, sweep, closing>>

(***************************************************************************)
(* The sweep, at start-up and every hour.                                  *)
(***************************************************************************)
\* Mutation: the hourly sweep spares nothing, like the one at start-up.
SweepSparesNothing ==
  /\ up /\ sweep = None
  /\ sweep' = {}
  /\ UNCHANGED <<up, stops, life, disk, held, closing>>

SweepStarts ==
  /\ up /\ sweep = None
  /\ sweep' = sessions
  /\ UNCHANGED <<up, stops, life, disk, held, closing>>

\* Mutation: a directory whose creation failed is left alone.
StaleOnceListed == {i \in cold \ Persistent : made[i] # "failed"} \ sweep

Stale == (cold \ Persistent) \ sweep

SweepRemoves(i) ==
  /\ up /\ sweep # None /\ i \in Stale
  /\ dirs' = dirs \ {i} /\ cold' = cold \ {i}
  /\ UNCHANGED <<up, stops, life, held, sweep, closing>>

SweepEnds ==
  /\ up /\ sweep # None /\ Stale = {}
  /\ sweep' = None
  /\ UNCHANGED <<up, stops, life, disk, held, closing>>

\* A day goes by without a write in any of these directories themselves: not
\* while a creation or a sweep, which take seconds, is under way.
DayPasses ==
  /\ dirs # cold /\ sweep = None /\ InFlight = {}
  /\ cold' = dirs
  /\ UNCHANGED <<up, stops, life, dirs, held, sweep, closing>>

(***************************************************************************)
(* Shutdown, crash, restart.                                               *)
(***************************************************************************)
CloseStarts ==
  /\ up /\ closing = None /\ stops < MaxStops
  /\ closing' = sessions
  /\ late' = late \cup {i \in Id : connected[i]}
  /\ UNCHANGED <<up, stops, life, disk, connected, generation, socket, sweep>>

CloseDestroys(i) ==
  /\ up /\ closing # None /\ i \in closing
  /\ Gone(i)
  /\ closing' = closing \ {i}
  /\ UNCHANGED <<up, stops, made, port, overlapped, held, sweep>>

\* The process is gone and its memory with it; the disk is what it was.
Stops ==
  /\ up' = FALSE /\ stops' = stops + 1
  /\ sessions' = {}
  /\ made' = [i \in Id |-> IF made[i] = "new" THEN "new" ELSE "failed"]
  /\ connected' = [i \in Id |-> FALSE]
  /\ socket' = [k \in Socket |-> IF socket[k].pc = "unused" THEN Idle ELSE [Idle EXCEPT !.pc = "over"]]
  /\ sweep' = None /\ closing' = None
  /\ UNCHANGED <<port, overlapped, disk, generation, late>>

Exit  == up /\ closing = {} /\ stops < MaxStops /\ Stops
Crash == up /\ stops < MaxStops /\ Stops

\* initialize(): the root is made and swept with nothing to spare.
Restart ==
  /\ ~up
  /\ up' = TRUE /\ sweep' = {}
  /\ UNCHANGED <<stops, life, disk, held, closing>>

-----------------------------------------------------------------------------
Creation(i) ==
  \/ MakeDirectories(i) \/ Publish(i) \/ CreateFails(i) \/ Answer(i) \/ RestoreFails(i)
TearsDown(k) ==
  \/ Compare(k) \/ CloseServers(k) \/ ForgetWorkers(k) \/ RemoveSession(k) \/ RemoveDirectory(k)
Sweep == SweepStarts \/ SweepEnds \/ \E i \in Id : SweepRemoves(i)
Serving(k) == Swap(k) \/ Attach(k)

SessionsNext ==
  \/ \E i \in Id : ChoosePort(i) \/ Creation(i) \/ CloseDestroys(i)
  \/ \E k \in Socket, i \in Id : Ask(k, i)
  \/ \E k \in Socket : Serving(k) \/ Drop(k) \/ TearsDown(k)
  \/ Sweep \/ DayPasses
  \/ CloseStarts \/ Exit \/ Crash \/ Restart

SessionsSpec == SessionsInit /\ [][SessionsNext]_svars

\* Tasks the runtime polls make progress; a sleep ends; days go by; a server
\* that is down is started again.  Clients owe nothing.
TaskFairness ==
  /\ \A i \in Id : WF_svars(Creation(i)) /\ WF_svars(CloseDestroys(i))
  /\ \A k \in Socket : WF_svars(Serving(k)) /\ WF_svars(TearsDown(k))
  /\ WF_svars(Exit) /\ WF_svars(Restart)

TimeFairness ==
  /\ WF_svars(SweepStarts) /\ WF_svars(SweepEnds)
  /\ \A i \in Id : WF_svars(SweepRemoves(i))
  /\ SF_svars(DayPasses)

SessionsFairSpec == SessionsSpec /\ TaskFairness /\ TimeFairness

-----------------------------------------------------------------------------
\* A session somebody may use has its directory: neither the sweep, whose
\* ages are of the root directory alone, nor the teardown of an earlier
\* socket takes it away (sweep_stale's `keep', the generation comparison).
LiveKeepsDirectory == sessions \subseteq dirs

\* A socket that attached before its session's end was decided keeps the
\* session, however many sockets came and went before it.
SocketKeepsItsSession ==
  \A k \in Socket :
    socket[k].pc = "open" /\ socket[k].of \notin late => socket[k].of \in sessions

\* At most one socket serves a session (runtime_connected).
OneSocketPerSession ==
  \A k, l \in Socket :
    k # l /\ socket[k].pc \in {"swapped", "open"} /\ socket[l].pc \in {"swapped", "open"}
      => socket[k].of # socket[l].of

\* Two live sessions share a port only if they were created at the same time.
PortsDistinct ==
  \A i, j \in sessions : i # j /\ port[i] = port[j] => {i, j} \in overlapped

\* The directory of a scratch session that is no more, or never came to be,
\* is removed in the end: by the teardown, or a day later by the sweep.
DiskIsReclaimed ==
  \A i \in Id \ Persistent :
    (i \in dirs /\ i \notin sessions /\ i \notin InFlight) ~> (i \notin dirs)

\* A session everyone has left is destroyed, unless somebody comes back.
AbandonedIsDestroyed ==
  \A i \in Id :
    (i \in sessions /\ generation[i] > 0 /\ ~connected[i])
      ~> (i \notin sessions \/ connected[i])
=============================================================================
