------------------------------ MODULE LspProxy ------------------------------
(***************************************************************************)
(* The language servers of one session and language                        *)
(* (apps/server-rs/src/ws/lsp.rs): the registry and its idle reaper, the   *)
(* proxies, the editor sockets that attach to them, the servers and the    *)
(* watcher each start leaves behind.  A proxy's state is read and written  *)
(* under its lock, one critical section to a step; between two sections    *)
(* every other task may run.                                               *)
(***************************************************************************)
EXTENDS Naturals, FiniteSets

CONSTANTS
  Editor,      \* editor sockets
  MaxProxies,  \* bound: proxies, one in the registry at a time
  MaxServers,  \* bound: server processes, numbered as they are spawned
  Nil

VARIABLES
  registry,    \* the proxy under this session and language, or Nil
  proxy,       \* [Proxy -> ProxyState]
  editor,      \* [Editor -> AttachState], one call of attach each
  start,       \* [Starter -> StartState], start_impl, called by an attach or a watcher
  watcher,     \* [Server -> WatcherState], the exit watcher its start has spawned
  server,      \* [Server -> the process]
  killer,      \* the SIGKILLs that close() has put off: <<proxy, pid>>
  overlap,     \* history: proxies two starts ran in at the same time
  raced        \* history: proxies closed with an attach or a start under way

lvars == <<registry, proxy, editor, start, watcher, server, killer, overlap, raced>>

Proxy  == 1..MaxProxies
Server == 1..MaxServers

ASSUME LspAssumption ==
  /\ MaxProxies \in Nat /\ MaxServers \in Nat
  /\ IsFiniteSet(Editor) /\ Editor \cap Server = {}
  /\ Nil \notin Nat \cup Editor

\* Calls to start_impl are named after the attach, or the dead server, they are for.
Starter == Editor \cup Server

NewProxy ==
  [stdin |-> Nil, socket |-> Nil, pump |-> Nil, child |-> Nil, pid |-> Nil,
   restarts |-> 0, closing |-> FALSE, stale |-> FALSE]
NoStart == [pc |-> "no", in |-> Nil, server |-> Nil]

ProxyState ==
  [stdin : Server \cup {Nil}, socket : Editor \cup {Nil}, pump : Editor \cup {Nil},
   child : Server \cup {Nil}, pid : Server \cup {Nil},
   restarts : Nat, closing : BOOLEAN, stale : BOOLEAN]
AttachState == [pc : {"idle", "found", "start", "swap", "done"}, in : Proxy \cup {Nil}]
StartState ==
  [pc : {"no", "spawn", "stdin", "child"}, in : Proxy \cup {Nil}, server : Server \cup {Nil}]
WatcherState ==
  [pc : {"no", "take", "wait", "reaped", "over"}, in : Proxy \cup {Nil}, child : Server \cup {Nil}]

LspTypeOK ==
  /\ registry \in Proxy \cup {Nil}
  /\ proxy \in [Proxy -> ProxyState]
  /\ editor \in [Editor -> AttachState]
  /\ start \in [Starter -> StartState]
  /\ watcher \in [Server -> WatcherState]
  /\ server \in [Server -> {"unborn", "running", "exited", "reaped"}]
  /\ killer \subseteq Proxy \X Server
  /\ overlap \subseteq Proxy /\ raced \subseteq Proxy

LspInit ==
  /\ registry = Nil
  /\ proxy = [p \in Proxy |-> NewProxy]
  /\ editor = [e \in Editor |-> [pc |-> "idle", in |-> Nil]]
  /\ start = [t \in Starter |-> NoStart]
  /\ watcher = [s \in Server |-> [pc |-> "no", in |-> Nil, child |-> Nil]]
  /\ server = [s \in Server |-> "unborn"]
  /\ killer = {} /\ overlap = {} /\ raced = {}

Alive(s) == server[s] = "running"
Starting(p) == {t \in Starter : start[t].in = p}
\* Attaches that have the proxy in hand and are not through with it.
Attaching(p) == {e \in Editor : editor[e].in = p /\ editor[e].pc \in {"found", "start", "swap"}}

(***************************************************************************)
(* Attach.                                                                 *)
(***************************************************************************)
\* The registry's entry, made if there is none.
Lookup(e) ==
  LET used == {p \in Proxy : proxy[p] # NewProxy \/ Attaching(p) # {}} IN
  /\ editor[e].pc = "idle"
  /\ \E p \in Proxy :
       /\ IF registry # Nil THEN p = registry
          ELSE p \notin used /\ 1..(p - 1) \subseteq used
       /\ registry' = p
       /\ editor' = [editor EXCEPT ![e] = [pc |-> "found", in |-> p]]
  /\ UNCHANGED <<proxy, start, watcher, server, killer, overlap, raced>>

BeginStart(t, p) ==
  /\ start' = [start EXCEPT ![t] = [pc |-> "spawn", in |-> p, server |-> Nil]]
  /\ overlap' = IF Starting(p) # {} THEN overlap \cup {p} ELSE overlap

\* Mutation: only the child is looked at, which the watcher has taken.
NoteSocketByChild(e) ==
  LET p == editor[e].in IN
  /\ editor[e].pc = "found"
  /\ proxy' = [proxy EXCEPT ![p].socket = e, ![p].stale = FALSE]
  /\ IF proxy[p].child = Nil
     THEN /\ BeginStart(e, p)
          /\ editor' = [editor EXCEPT ![e].pc = "start"]
     ELSE /\ editor' = [editor EXCEPT ![e].pc = "swap"]
          /\ UNCHANGED <<start, overlap>>
  /\ UNCHANGED <<registry, watcher, server, killer, raced>>

\* The socket is noted and whether a server is needed read under one lock;
\* the start comes after it.
NoteSocket(e) ==
  LET p == editor[e].in IN
  /\ editor[e].pc = "found"
  /\ proxy' = [proxy EXCEPT ![p].socket = e, ![p].stale = FALSE]
  /\ IF proxy[p].child = Nil /\ proxy[p].stdin = Nil
     THEN /\ BeginStart(e, p)
          /\ editor' = [editor EXCEPT ![e].pc = "start"]
     ELSE /\ editor' = [editor EXCEPT ![e].pc = "swap"]
          /\ UNCHANGED <<start, overlap>>
  /\ UNCHANGED <<registry, watcher, server, killer, raced>>

\* Mutation: the socket noted before the start is taken to be still there.
SwapPumpOnly(e) ==
  LET p == editor[e].in IN
  /\ editor[e].pc = "swap"
  /\ proxy' = [proxy EXCEPT ![p].pump = e]
  /\ editor' = [editor EXCEPT ![e].pc = "done"]
  /\ UNCHANGED <<registry, start, watcher, server, killer, overlap, raced>>

\* Socket and pump change together; the previous socket's pump is aborted.
SwapPump(e) ==
  LET p == editor[e].in IN
  /\ editor[e].pc = "swap"
  /\ proxy' = [proxy EXCEPT ![p].socket = e, ![p].pump = e]
  /\ editor' = [editor EXCEPT ![e].pc = "done"]
  /\ UNCHANGED <<registry, start, watcher, server, killer, overlap, raced>>

\* A message from the editor, or ten minutes without one.
Use(e) ==
  LET p == editor[e].in IN
  /\ editor[e].pc = "done" /\ proxy[p].pump = e /\ proxy[p].stale
  /\ proxy' = [proxy EXCEPT ![p].stale = FALSE]
  /\ UNCHANGED <<registry, editor, start, watcher, server, killer, overlap, raced>>

GoesStale(p) ==
  /\ registry = p /\ ~proxy[p].stale /\ Attaching(p) = {} /\ Starting(p) = {}
  /\ proxy' = [proxy EXCEPT ![p].stale = TRUE]
  /\ UNCHANGED <<registry, editor, start, watcher, server, killer, overlap, raced>>

(***************************************************************************)
(* start_impl: the process, its stdin, the watcher.                        *)
(***************************************************************************)
EndStart(t) ==
  /\ start' = [start EXCEPT ![t] = NoStart]
  /\ editor' = IF t \in Editor THEN [editor EXCEPT ![t].pc = "swap"] ELSE editor

Spawn(t, s) ==
  /\ start[t].pc = "spawn"
  /\ server[s] = "unborn" /\ \A r \in 1..(s - 1) : server[r] # "unborn"
  /\ server' = [server EXCEPT ![s] = "running"]
  /\ start' = [start EXCEPT ![t].pc = "stdin", ![t].server = s]
  /\ UNCHANGED <<registry, proxy, editor, watcher, killer, overlap, raced>>

\* Not installed, or no process to be had: the editor is told.
SpawnFails(t) ==
  /\ start[t].pc = "spawn"
  /\ EndStart(t)
  /\ UNCHANGED <<registry, proxy, watcher, server, killer, overlap, raced>>

SetStdin(t) ==
  LET p == start[t].in IN
  /\ start[t].pc = "stdin"
  /\ proxy' = [proxy EXCEPT ![p].stdin = start[t].server]
  /\ start' = [start EXCEPT ![t].pc = "child"]
  /\ UNCHANGED <<registry, editor, watcher, server, killer, overlap, raced>>

\* A Child dropped is killed (kill_on_drop): the one overwritten here, too.
SetChild(t) ==
  LET p == start[t].in
      s == start[t].server
      old == proxy[p].child
  IN
  /\ start[t].pc = "child"
  /\ proxy' = [proxy EXCEPT ![p].child = s, ![p].pid = s]
  /\ server' = IF old # Nil /\ Alive(old) THEN [server EXCEPT ![old] = "exited"] ELSE server
  /\ watcher' = [watcher EXCEPT ![s] = [pc |-> "take", in |-> p, child |-> Nil]]
  /\ EndStart(t)
  /\ UNCHANGED <<registry, killer, overlap, raced>>

(***************************************************************************)
(* The exit watcher: it takes whatever child is there.                     *)
(***************************************************************************)
TakeChild(s) ==
  LET p == watcher[s].in IN
  /\ watcher[s].pc = "take"
  /\ watcher' = [watcher EXCEPT ![s].pc = IF proxy[p].child = Nil THEN "over" ELSE "wait",
                                ![s].child = proxy[p].child]
  /\ proxy' = [proxy EXCEPT ![p].child = Nil]
  /\ UNCHANGED <<registry, editor, start, server, killer, overlap, raced>>

\* wait() returns and has reaped the process before the lock is asked for.
Reap(s) ==
  /\ watcher[s].pc = "wait" /\ server[watcher[s].child] = "exited"
  /\ server' = [server EXCEPT ![watcher[s].child] = "reaped"]
  /\ watcher' = [watcher EXCEPT ![s].pc = "reaped"]
  /\ UNCHANGED <<registry, proxy, editor, start, killer, overlap, raced>>

\* Mutation: exits are not counted.
AfterExitUncounted(s) ==
  LET p == watcher[s].in IN
  /\ watcher[s].pc = "reaped"
  /\ watcher' = [watcher EXCEPT ![s].pc = "over"]
  /\ proxy' = [proxy EXCEPT ![p].stdin = Nil, ![p].pid = Nil]
  /\ IF ~proxy[p].closing /\ proxy[p].restarts = 0
     THEN BeginStart(s, p)
     ELSE UNCHANGED <<start, overlap>>
  /\ UNCHANGED <<registry, editor, server, killer, raced>>

Counted(p) == proxy[p].restarts + IF proxy[p].closing THEN 0 ELSE 1

\* The state is cleared; unless the proxy is closing, the first exit starts
\* a new server, any later one only tells the editor.
AfterExit(s) ==
  LET p == watcher[s].in IN
  /\ watcher[s].pc = "reaped"
  /\ watcher' = [watcher EXCEPT ![s].pc = "over"]
  /\ proxy' = [proxy EXCEPT ![p].stdin = Nil, ![p].pid = Nil,
                            ![p].restarts = Counted(p)]
  /\ IF ~proxy[p].closing /\ proxy[p].restarts = 0
     THEN BeginStart(s, p)
     ELSE UNCHANGED <<start, overlap>>
  /\ UNCHANGED <<registry, editor, server, killer, raced>>

\* A server crashes, or leaves because it was told to, or its stdin was closed.
ServerExits(s) ==
  /\ Alive(s)
  /\ server' = [server EXCEPT ![s] = "exited"]
  /\ UNCHANGED <<registry, proxy, editor, start, watcher, killer, overlap, raced>>


\* shutdown and exit are written, the tasks aborted, an untaken child killed,
\* the pid sent SIGTERM and noted for SIGKILL 500 ms later.  A server may
\* ignore everything but the last.
Close(p) ==
  LET kid == proxy[p].child IN
  /\ registry = p /\ registry' = Nil
  /\ proxy' = [proxy EXCEPT ![p].closing = TRUE, ![p].pump = Nil, ![p].child = Nil,
                            ![p].stdin = Nil, ![p].socket = Nil]
  /\ server' = IF kid # Nil /\ Alive(kid) THEN [server EXCEPT ![kid] = "exited"] ELSE server
  /\ killer' = IF proxy[p].pid = Nil THEN killer ELSE killer \cup {<<p, proxy[p].pid>>}
  /\ raced' = IF Attaching(p) # {} \/ Starting(p) # {} THEN raced \cup {p} ELSE raced
  /\ UNCHANGED <<editor, start, watcher, overlap>>

ReapIdle(p) == registry = p /\ proxy[p].stale /\ Close(p)

\* With nothing registered there is nothing to close.
CloseSession ==
  \/ registry = Nil /\ UNCHANGED lvars
  \/ \E p \in Proxy : Close(p)

\* The pid is signalled only while the proxy still holds it.
Kill(p, s) ==
  /\ <<p, s>> \in killer
  /\ killer' = killer \ {<<p, s>>}
  /\ server' = IF proxy[p].pid = s /\ Alive(s) THEN [server EXCEPT ![s] = "exited"] ELSE server
  /\ UNCHANGED <<registry, proxy, editor, start, watcher, overlap, raced>>

-----------------------------------------------------------------------------
Attach(e) == Lookup(e) \/ NoteSocket(e) \/ SwapPump(e)
Start(t) == SpawnFails(t) \/ SetStdin(t) \/ SetChild(t) \/ \E s \in Server : Spawn(t, s)
Watch(s) == TakeChild(s) \/ Reap(s) \/ AfterExit(s)

LspInternal ==
  \/ \E e \in Editor : NoteSocket(e) \/ SwapPump(e) \/ Use(e)
  \/ \E t \in Starter : Start(t)
  \/ \E s \in Server : Watch(s) \/ ServerExits(s)
  \/ \E p \in Proxy : GoesStale(p) \/ ReapIdle(p)
  \/ \E p \in Proxy, s \in Server : Kill(p, s)

LspNext == LspInternal \/ CloseSession \/ \E e \in Editor : Lookup(e)

LspSpec == LspInit /\ [][LspNext]_lvars

\* Tasks run on, the 500 ms end; a server may run for ever.
LspFairness ==
  /\ \A e \in Editor : WF_lvars(NoteSocket(e) \/ SwapPump(e))
  /\ \A t \in Starter : WF_lvars(Start(t))
  /\ \A s \in Server : WF_lvars(Watch(s))
  /\ \A p \in Proxy, s \in Server : WF_lvars(Kill(p, s))

LspFairSpec == LspSpec /\ LspFairness

-----------------------------------------------------------------------------
\* At most one process serves a proxy, restarts included, unless two starts
\* overlapped in it (needs_start is read under a lock the start is not) or it
\* was closed under one.
OneServer ==
  \A s, r \in Server :
    Alive(s) /\ Alive(r) /\ s # r /\ watcher[s].in = watcher[r].in
      => watcher[s].in \in overlap \cup raced \cup {Nil}

\* The editor whose frames reach the server is the one that gets its answers,
\* whatever order the attaches ended in.
AnswersGoToThePump ==
  \A p \in Proxy :
    Attaching(p) = {} => proxy[p].socket = proxy[p].pump

\* A server that keeps crashing is started again once, and then once for
\* every editor that attaches: never in a loop.
NoRestartLoop ==
  \A p \in Proxy :
    Cardinality({s \in Server : watcher[s].in = p})
      <= 1 + Cardinality({e \in Editor : editor[e].in = p})

=============================================================================
