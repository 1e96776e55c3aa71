------------------------------ MODULE Teardown ------------------------------
(***************************************************************************)
(* Sessions and the helper processes of one of them, composed: the runs    *)
(* of a session that a socket has been attached to ask for workers and     *)
(* compile servers, also while they wind down, and whatever destroys the   *)
(* session (the end of the grace, shutdown, a recovery that fails) forgets *)
(* them.  `load' is the traffic of a behaviour, chosen in the initial      *)
(* state: the sessions, sockets, requests and keys in use, and whether      *)
(* sockets drop, days go by and the server stops.                          *)
(***************************************************************************)
EXTENDS Sessions, Sequences

CONSTANTS
  Owner,                                  \* the session the helpers belong to
  Shared, Own, Zig, Request, Confinement, MaxProcs,
  Loads                                   \* [ids, sockets, requests, keys, drops, days, stops]

ASSUME TeardownAssumption ==
  /\ None \notin Request \cup 1..MaxProcs \cup (Shared \cup Own \cup Zig) \X {1, 2}
  /\ "cli" \notin Request /\ "nothing" \notin Request
  /\ \A l \in Loads :
       /\ l.ids \subseteq Id /\ l.sockets \subseteq Socket
       /\ l.requests \subseteq Request /\ l.keys \subseteq Shared \cup Own \cup Zig

VARIABLES
  table, holds, lock, unused, proc, request, forgetting, reaping, needsLibc, forgotten,
  load

W == INSTANCE Workers WITH Null <- None

wvars == <<table, holds, lock, unused, proc, request, forgetting, reaping, needsLibc, forgotten>>
vars  == <<svars, wvars, load>>

Init == SessionsInit /\ W!WorkersInit /\ load \in Loads

\* destroy() starts with both forgets.
Forgets(i) ==
  IF i = Owner /\ ~forgotten THEN W!ForgetSession ELSE UNCHANGED wvars

\* A run of the session may still be winding down when the session is gone.
RunAsks ==
  /\ up /\ generation[Owner] > 0
  /\ \E r \in load.requests, k \in load.keys, c \in Confinement : W!FindSlot(r, k, c)

Creates(i) == ChoosePort(i) \/ MakeDirectories(i) \/ Publish(i) \/ CreateFails(i) \/ Answer(i)
Leaves(k)  == Compare(k) \/ CloseServers(k) \/ RemoveSession(k) \/ RemoveDirectory(k)

Next ==
  /\ UNCHANGED load
  /\ \/ /\ \/ \E i \in load.ids : Creates(i)
           \/ \E k \in load.sockets, i \in load.ids : Ask(k, i)
           \/ \E k \in load.sockets : Serving(k) \/ Leaves(k) \/ (load.drops /\ Drop(k))
           \/ load.days /\ (Sweep \/ DayPasses)
           \/ load.stops /\ (CloseStarts \/ Exit \/ Crash \/ Restart)
        /\ UNCHANGED wvars
     \/ \E i \in load.ids : (RestoreFails(i) \/ CloseDestroys(i)) /\ Forgets(i)
     \/ \E k \in load.sockets : ForgetWorkers(k) /\ Forgets(socket[k].of)
     \/ (RunAsks \/ W!WorkersInternal) /\ UNCHANGED svars

Spec == Init /\ [][Next]_vars
FairSpec ==
  /\ Spec /\ TaskFairness /\ W!WorkersFairness
  /\ load.days => TimeFairness

TypeOK == SessionsTypeOK /\ W!WorkersTypeOK

\* (sweep, destroy) The directory of a session that is no more is removed in
\* the end, as long as days go by.
DiskIsReclaimedInTime == load.days => DiskIsReclaimed

\* (instrument_worker.rs, compile_server.rs) A run is never given another
\* request's answer: not after a timeout, a cancelled update, or a crash.
AnswerIsOwn == W!AnswerIsOwn

\* (WorkerSpec, Server.key) What answers a request runs in the sandbox the
\* request came with, also when settings change while it waits for the lock.
RightConfinement == W!RightConfinement

\* (SessionManager::destroy, forget, reap_idle) A session that has been
\* destroyed ends up without a helper process for good, even if a run that
\* was winding down had one started afterwards.
DestroyedHasNoHelper ==
  (Owner \notin sessions /\ made[Owner] = "answered")
    ~> [](\A n \in (Own \cup Zig) \X {1, 2} : W!Reachable(n) => holds[n] = None)
=============================================================================
