----------------------------- MODULE LspProofs -----------------------------
(***************************************************************************)
(* What the proxies of LspProxy owe their editors, for any editors and     *)
(* servers: one server at a time, answers to the editor that is heard, and *)
(* no restart loop.  LspInv says of a proxy whose starts never overlapped  *)
(* that a start or a watcher is all that goes on in it; Budget counts.     *)
(***************************************************************************)
EXTENDS LspProxy, FiniteSetTheorems, TLAPS

Watching(s) == watcher[s].pc \in {"take", "wait", "reaped"}

\* Proxies the code does not promise one server for.
Excused(p) == p \in overlap \cup raced

\* Who is starting what: an attach only while it waits for its start, a
\* watcher only after its end; the process of a start has no watcher yet.
StartsSound ==
  \A t \in Starter :
    /\ start[t].pc = "no" <=> start[t].in = Nil
    /\ start[t].pc \in {"stdin", "child"} <=> start[t].server # Nil
    /\ start[t].in # Nil /\ t \in Editor =>
         editor[t].pc = "start" /\ editor[t].in = start[t].in
    /\ start[t].in # Nil /\ t \in Server =>
         watcher[t].pc = "over" /\ proxy[start[t].in].restarts > 0
    /\ start[t].server # Nil =>
         /\ watcher[start[t].server].pc = "no" /\ server[start[t].server] # "unborn"
         /\ \A u \in Starter : start[u].server = start[t].server => u = t

WatchersSound ==
  \A s \in Server :
    /\ watcher[s].pc = "no" <=> watcher[s].in = Nil
    /\ server[s] = "unborn" => watcher[s].pc = "no"

\* What an attach has in hand is a proxy, registered or closed since; the
\* registered one is open.
AttachesSound ==
  /\ \A e \in Editor : editor[e].pc = "idle" <=> editor[e].in = Nil
  /\ \A p \in Proxy :
       /\ registry = p => ~proxy[p].closing
       /\ proxy[p].closing /\ ~Excused(p) => Attaching(p) = {} /\ Starting(p) = {}

\* One start, or one watcher, and the watcher's child is its own server.
OneAtATime(p) ==
  /\ \A t, u \in Starter : start[t].in = p /\ start[u].in = p => t = u
  /\ \A s, r \in Server :
       watcher[s].in = p /\ watcher[r].in = p /\ Watching(s) /\ Watching(r) => s = r
  /\ \A t \in Starter, s \in Server : ~(start[t].in = p /\ watcher[s].in = p /\ Watching(s))
  /\ \A t \in Starter :
       start[t].in = p /\ start[t].pc = "child" => proxy[p].stdin = start[t].server
  /\ proxy[p].child # Nil =>
       watcher[proxy[p].child].in = p /\ watcher[proxy[p].child].pc = "take"

OneStart == \A p \in Proxy : ~Excused(p) => OneAtATime(p)

Owns(s, p) ==
  /\ Watching(s) /\ ~proxy[p].closing => proxy[p].stdin = s
  /\ watcher[s].pc = "take" => proxy[p].child = s \/ ~Alive(s)
  /\ watcher[s].pc \in {"wait", "reaped"} => watcher[s].child = s
  /\ watcher[s].pc \in {"reaped", "over"} => ~Alive(s)

OwnChild ==
  \A s \in Server, p \in Proxy : watcher[s].in = p /\ ~Excused(p) => Owns(s, p)

LspInv ==
  /\ LspTypeOK /\ StartsSound /\ WatchersSound /\ AttachesSound /\ OneStart /\ OwnChild
  /\ AnswersGoToThePump

\* The servers of a proxy: those its attaches have started, and the restart.
Served(p) == {s \in Server : watcher[s].in = p}
Through(p) == {e \in Editor : editor[e].in = p /\ editor[e].pc \in {"swap", "done"}}
Restarting(p) == {s \in Server : start[s].in = p}
Restarted(p) == IF proxy[p].restarts > 0 /\ Restarting(p) = {} THEN 1 ELSE 0

Budget ==
  \A p \in Proxy :
    /\ Cardinality(Served(p)) <= Cardinality(Through(p)) + Restarted(p)
    /\ \A s, r \in Restarting(p) : s = r

LEMMA Names ==
  /\ Nil \notin Server /\ Nil \notin Proxy /\ Nil \notin Editor /\ Nil \notin Starter
  /\ Editor \cap Server = {} /\ Editor \subseteq Starter /\ Server \subseteq Starter
BY LspAssumption DEF Server, Proxy, Starter

\* What a task has in hand is a proxy, what it has spawned a process.
LEMMA InHand ==
  ASSUME LspInv
  PROVE  /\ \A e \in Editor : editor[e].pc # "idle" => editor[e].in \in Proxy
         /\ \A t \in Starter : start[t].pc # "no" => start[t].in \in Proxy
         /\ \A t \in Starter : start[t].pc \in {"stdin", "child"} => start[t].server \in Server
         /\ \A s \in Server : watcher[s].pc # "no" => watcher[s].in \in Proxy
BY DEF LspInv, LspTypeOK, AttachesSound, StartsSound, WatchersSound, AttachState, StartState,
   WatcherState

LEMMA LookupKeeps ==
  ASSUME LspInv, NEW e \in Editor, Lookup(e)
  PROVE  LspInv'
<1> USE Names
<1>1. LspTypeOK'
  <2>1. registry' \in Proxy \cup {Nil}
    BY DEF LspInv, LspTypeOK, Lookup
  <2>2. editor' \in [Editor -> AttachState]
    BY DEF LspInv, LspTypeOK, AttachState, Lookup
  <2> QED BY <2>1, <2>2 DEF LspInv, LspTypeOK, Lookup
<1>2. StartsSound'
  BY DEF LspInv, LspTypeOK, AttachState, StartsSound, Lookup
<1>3. WatchersSound'
  BY DEF LspInv, WatchersSound, Lookup
<1>4. AttachesSound'
  BY DEF LspInv, LspTypeOK, AttachState, AttachesSound, Attaching, Starting, Excused, Lookup, NewProxy
<1>5. OneStart'
  BY DEF LspInv, OneStart, OneAtATime, Watching, Excused, Lookup
<1>6. OwnChild'
  BY DEF LspInv, OwnChild, Owns, Watching, Excused, Alive, Lookup
<1>7. AnswersGoToThePump'
  BY DEF LspInv, LspTypeOK, AttachState, AnswersGoToThePump, Attaching, Lookup
<1> QED BY <1>1, <1>2, <1>3, <1>4, <1>5, <1>6, <1>7 DEF LspInv

LEMMA NoteSocketKeeps ==
  ASSUME LspInv, NEW e \in Editor, NoteSocket(e)
  PROVE  LspInv'
<1> USE Names
<1> DEFINE p == editor[e].in
           needed == proxy[p].child = Nil /\ proxy[p].stdin = Nil
<1>0. p \in Proxy
  BY InHand DEF NoteSocket
<1>1. LspTypeOK'
  <2>1. proxy' \in [Proxy -> ProxyState]
    <3>1. proxy[p] \in ProxyState
      BY <1>0 DEF LspInv, LspTypeOK
    <3>2. [proxy[p] EXCEPT !.socket = e, !.stale = FALSE] \in ProxyState
      BY <3>1 DEF ProxyState
    <3>3. proxy' = [proxy EXCEPT ![p] = [proxy[p] EXCEPT !.socket = e, !.stale = FALSE]]
      BY DEF NoteSocket
    <3> QED BY <3>2, <3>3, <1>0 DEF LspInv, LspTypeOK
  <2>2. editor' \in [Editor -> AttachState]
    BY DEF LspInv, LspTypeOK, AttachState, NoteSocket, BeginStart
  <2>3. start' \in [Starter -> StartState]
    BY <1>0 DEF LspInv, LspTypeOK, StartState, NoteSocket, BeginStart, NoStart
  <2>4. overlap' \subseteq Proxy
    BY <1>0 DEF LspInv, LspTypeOK, ProxyState, NoteSocket, BeginStart
  <2> QED BY <2>1, <2>2, <2>3, <2>4 DEF LspInv, LspTypeOK, NoteSocket, BeginStart
<1>2. \A q \in Proxy :
        /\ proxy'[q].child = proxy[q].child /\ proxy'[q].stdin = proxy[q].stdin
        /\ proxy'[q].restarts = proxy[q].restarts /\ proxy'[q].closing = proxy[q].closing
        /\ proxy'[q].pump = proxy[q].pump
        /\ q # p => proxy'[q].socket = proxy[q].socket
  BY <1>0 DEF LspInv, LspTypeOK, ProxyState, NoteSocket
<1>3. /\ \A f \in Editor : editor'[f].in = editor[f].in /\ (f # e => editor'[f].pc = editor[f].pc)
      /\ editor[e].pc = "found"
      /\ editor'[e].pc = IF needed THEN "start" ELSE "swap"
  BY DEF LspInv, LspTypeOK, AttachState, NoteSocket
<1>4. /\ \A u \in Starter : u # e => start'[u] = start[u]
      /\ start[e].in = Nil /\ start[e].pc = "no" /\ start[e].server = Nil
      /\ needed => start'[e].pc = "spawn" /\ start'[e].in = p /\ start'[e].server = Nil
      /\ ~needed => start'[e] = start[e]
  <2>1. start[e].in = Nil /\ start[e].pc = "no" /\ start[e].server = Nil
    BY <1>3 DEF LspInv, LspTypeOK, StartState, StartsSound
  <2> QED BY <2>1, <1>0 DEF LspInv, LspTypeOK, NoteSocket, BeginStart
<1>5. /\ registry' = registry /\ watcher' = watcher /\ server' = server /\ raced' = raced
      /\ overlap' = IF needed /\ Starting(p) # {} THEN overlap \cup {p} ELSE overlap
  BY DEF NoteSocket, BeginStart
<1>6. \A q \in Proxy : Attaching(q)' = Attaching(q)
  BY <1>3 DEF Attaching
<1>7. ~Excused(p) => ~proxy[p].closing
  BY <1>0, <1>3 DEF LspInv, AttachesSound, Attaching
<1>8. StartsSound'
  <2>1. StartsSound
    BY DEF LspInv
  <2>2. \A t \in Server : start'[t] = start[t]
    BY <1>4
  <2>3. \A t \in Starter : start[t].in \in Proxy \cup {Nil}
    BY DEF LspInv, LspTypeOK, StartState
  <2>4. \A t \in Starter : start'[t].server = start[t].server
    BY <1>4
  <2> QED BY <2>1, <2>2, <2>3, <2>4, <1>0, <1>2, <1>3, <1>4, <1>5 DEF StartsSound
<1>9. WatchersSound'
  BY <1>5 DEF LspInv, WatchersSound
<1>10. AttachesSound'
  <2>1. \A q \in Proxy : q # p => Starting(q)' = Starting(q)
    BY <1>4 DEF Starting
  <2> QED BY <2>1, <1>2, <1>3, <1>5, <1>6, <1>7 DEF LspInv, AttachesSound, Excused
<1>11. OneStart'
  <2>1. ASSUME NEW q \in Proxy, ~Excused(q)' PROVE OneAtATime(q)'
    <3>1. ~Excused(q) /\ OneAtATime(q)
      BY <2>1, <1>5 DEF LspInv, OneStart, Excused
    <3>2. CASE q = p /\ needed
      <4>1. Starting(p) = {}
        BY <2>1, <3>2, <1>0, <1>5 DEF Excused
      <4>2. \A u \in Starter : start'[u].in = p => u = e
        BY <4>1, <1>4 DEF Starting
      <4>3. \A s \in Server : watcher[s].in = p => ~Watching(s)
        BY <3>1, <3>2, <1>0, <1>7 DEF LspInv, OwnChild, Owns
      <4> QED BY <3>1, <3>2, <4>2, <4>3, <1>2, <1>4, <1>5 DEF OneAtATime, Watching
    <3>3. CASE ~(q = p /\ needed)
      BY <3>1, <3>3, <1>2, <1>4, <1>5 DEF OneAtATime, Watching
    <3> QED BY <3>2, <3>3
  <2> QED BY <2>1 DEF OneStart
<1>12. OwnChild'
  BY <1>2, <1>5 DEF LspInv, OwnChild, Owns, Excused, Watching, Alive
<1>13. AnswersGoToThePump'
  BY <1>2, <1>3, <1>6 DEF LspInv, AnswersGoToThePump, Attaching
<1> QED BY <1>1, <1>8, <1>9, <1>10, <1>11, <1>12, <1>13 DEF LspInv

LEMMA SwapPumpKeeps ==
  ASSUME LspInv, NEW e \in Editor, SwapPump(e)
  PROVE  LspInv'
<1> USE Names
<1> DEFINE p == editor[e].in
<1>0. p \in Proxy
  BY InHand DEF SwapPump
<1>1. LspTypeOK'
  <2>1. proxy' \in [Proxy -> ProxyState]
    <3>1. proxy[p] \in ProxyState
      BY <1>0 DEF LspInv, LspTypeOK
    <3>2. [proxy[p] EXCEPT !.socket = e, !.pump = e] \in ProxyState
      BY <3>1 DEF ProxyState
    <3>3. proxy' = [proxy EXCEPT ![p] = [proxy[p] EXCEPT !.socket = e, !.pump = e]]
      BY DEF SwapPump
    <3> QED BY <3>2, <3>3, <1>0 DEF LspInv, LspTypeOK
  <2>2. editor' \in [Editor -> AttachState]
    BY DEF LspInv, LspTypeOK, AttachState, SwapPump
  <2> QED BY <2>1, <2>2 DEF LspInv, LspTypeOK, SwapPump
<1>2. \A q \in Proxy :
        /\ proxy'[q].child = proxy[q].child /\ proxy'[q].stdin = proxy[q].stdin
        /\ proxy'[q].restarts = proxy[q].restarts /\ proxy'[q].closing = proxy[q].closing
        /\ q # p => proxy'[q].socket = proxy[q].socket /\ proxy'[q].pump = proxy[q].pump
        /\ q = p => proxy'[q].socket = e /\ proxy'[q].pump = e
  BY <1>0 DEF LspInv, LspTypeOK, ProxyState, SwapPump
<1>3. /\ \A f \in Editor : editor'[f].in = editor[f].in /\ (f # e => editor'[f].pc = editor[f].pc)
      /\ editor[e].pc = "swap" /\ editor'[e].pc = "done"
  BY DEF LspInv, LspTypeOK, AttachState, SwapPump
<1>4. UNCHANGED <<registry, start, watcher, server, overlap, raced>>
  BY DEF SwapPump
<1>5. StartsSound'
  <2>1. \A t \in Starter : start[t].in \in Proxy \cup {Nil}
    BY DEF LspInv, LspTypeOK, StartState
  <2> QED BY <2>1, <1>2, <1>3, <1>4 DEF LspInv, StartsSound
<1>6. WatchersSound'
  BY <1>4 DEF LspInv, WatchersSound
<1>7. AttachesSound'
  BY <1>2, <1>3, <1>4 DEF LspInv, AttachesSound, Attaching, Starting, Excused
<1>8. OneStart'
  BY <1>2, <1>4 DEF LspInv, OneStart, OneAtATime, Watching, Excused
<1>9. OwnChild'
  BY <1>2, <1>4 DEF LspInv, OwnChild, Owns, Excused, Watching, Alive
<1>10. AnswersGoToThePump'
  BY <1>2, <1>3 DEF LspInv, AnswersGoToThePump, Attaching
<1> QED BY <1>1, <1>5, <1>6, <1>7, <1>8, <1>9, <1>10 DEF LspInv

LEMMA UseKeeps ==
  ASSUME LspInv, NEW e \in Editor, Use(e)
  PROVE  LspInv'
<1> USE Names
<1>0. editor[e].in \in Proxy
  BY InHand DEF Use
<1>1. LspTypeOK'
  <2>1. proxy' \in [Proxy -> ProxyState]
    <3> DEFINE p == editor[e].in
    <3>1. proxy[p] \in ProxyState
      BY <1>0 DEF LspInv, LspTypeOK
    <3>2. [proxy[p] EXCEPT !.stale = FALSE] \in ProxyState
      BY <3>1 DEF ProxyState
    <3>3. proxy' = [proxy EXCEPT ![p] = [proxy[p] EXCEPT !.stale = FALSE]]
      BY DEF Use
    <3> QED BY <3>2, <3>3, <1>0 DEF LspInv, LspTypeOK
  <2> QED BY <2>1 DEF LspInv, LspTypeOK, Use
<1>2. \A r \in Proxy :
        /\ proxy'[r].child = proxy[r].child /\ proxy'[r].stdin = proxy[r].stdin
        /\ proxy'[r].restarts = proxy[r].restarts /\ proxy'[r].closing = proxy[r].closing
        /\ proxy'[r].pump = proxy[r].pump /\ proxy'[r].socket = proxy[r].socket
  BY <1>0 DEF LspInv, LspTypeOK, ProxyState, Use
<1>3. UNCHANGED <<registry, editor, start, watcher, server, overlap, raced>>
  BY DEF Use
<1>4. StartsSound'
  <2>1. \A t \in Starter : start[t].in \in Proxy \cup {Nil}
    BY DEF LspInv, LspTypeOK, StartState
  <2> QED BY <2>1, <1>2, <1>3 DEF LspInv, StartsSound
<1>5. WatchersSound' /\ AttachesSound'
  BY <1>2, <1>3 DEF LspInv, WatchersSound, AttachesSound, Attaching, Starting, Excused
<1>6. OneStart' /\ OwnChild'
  BY <1>2, <1>3 DEF LspInv, OneStart, OneAtATime, OwnChild, Owns, Watching, Excused, Alive
<1>7. AnswersGoToThePump'
  BY <1>2, <1>3 DEF LspInv, AnswersGoToThePump, Attaching
<1> QED BY <1>1, <1>4, <1>5, <1>6, <1>7 DEF LspInv

LEMMA GoesStaleKeeps ==
  ASSUME LspInv, NEW q \in Proxy, GoesStale(q)
  PROVE  LspInv'
<1> USE Names
<1>1. LspTypeOK'
  <2>1. proxy' \in [Proxy -> ProxyState]
    <3>1. proxy[q] \in ProxyState
      BY DEF LspInv, LspTypeOK
    <3>2. [proxy[q] EXCEPT !.stale = TRUE] \in ProxyState
      BY <3>1 DEF ProxyState
    <3>3. proxy' = [proxy EXCEPT ![q] = [proxy[q] EXCEPT !.stale = TRUE]]
      BY DEF GoesStale
    <3> QED BY <3>2, <3>3 DEF LspInv, LspTypeOK
  <2> QED BY <2>1 DEF LspInv, LspTypeOK, GoesStale
<1>2. \A r \in Proxy :
        /\ proxy'[r].child = proxy[r].child /\ proxy'[r].stdin = proxy[r].stdin
        /\ proxy'[r].restarts = proxy[r].restarts /\ proxy'[r].closing = proxy[r].closing
        /\ proxy'[r].pump = proxy[r].pump /\ proxy'[r].socket = proxy[r].socket
  BY DEF LspInv, LspTypeOK, ProxyState, GoesStale
<1>3. UNCHANGED <<registry, editor, start, watcher, server, overlap, raced>>
  BY DEF GoesStale
<1>4. StartsSound'
  <2>1. \A t \in Starter : start[t].in \in Proxy \cup {Nil}
    BY DEF LspInv, LspTypeOK, StartState
  <2> QED BY <2>1, <1>2, <1>3 DEF LspInv, StartsSound
<1>5. WatchersSound' /\ AttachesSound'
  BY <1>2, <1>3 DEF LspInv, WatchersSound, AttachesSound, Attaching, Starting, Excused
<1>6. OneStart' /\ OwnChild'
  BY <1>2, <1>3 DEF LspInv, OneStart, OneAtATime, OwnChild, Owns, Watching, Excused, Alive
<1>7. AnswersGoToThePump'
  BY <1>2, <1>3 DEF LspInv, AnswersGoToThePump, Attaching
<1> QED BY <1>1, <1>4, <1>5, <1>6, <1>7 DEF LspInv

LEMMA SpawnKeeps ==
  ASSUME LspInv, NEW t \in Starter, NEW s \in Server, Spawn(t, s)
  PROVE  LspInv'
<1> USE Names
<1>0. start[t].in \in Proxy
  BY InHand DEF Spawn
<1>1. LspTypeOK'
  <2>1. server' \in [Server -> {"unborn", "running", "exited", "reaped"}]
    BY DEF LspInv, LspTypeOK, Spawn
  <2>2. start' \in [Starter -> StartState]
    <3>1. [start[t] EXCEPT !.pc = "stdin", !.server = s] \in StartState
      BY DEF LspInv, LspTypeOK, StartState
    <3>2. start' = [start EXCEPT ![t] = [start[t] EXCEPT !.pc = "stdin", !.server = s]]
      BY DEF Spawn
    <3> QED BY <3>1, <3>2 DEF LspInv, LspTypeOK
  <2> QED BY <2>1, <2>2 DEF LspInv, LspTypeOK, Spawn
<1>2. /\ \A u \in Starter : start'[u].in = start[u].in /\ (u # t => start'[u] = start[u])
      /\ start[t].pc = "spawn" /\ start'[t].pc = "stdin" /\ start'[t].server = s
  BY DEF LspInv, LspTypeOK, StartState, Spawn
<1>3. /\ UNCHANGED <<registry, proxy, editor, watcher, overlap, raced>>
      /\ server[s] = "unborn" /\ server'[s] = "running"
      /\ \A r \in Server : r # s => server'[r] = server[r]
  BY DEF LspInv, LspTypeOK, Spawn
<1>4. StartsSound'
  <2>1. \A u \in Starter : start[u].server \in Server \cup {Nil} /\ start[u].server # s
    BY <1>3 DEF LspInv, LspTypeOK, StartState, StartsSound
  <2>2. watcher[s].pc = "no" /\ StartsSound
    BY <1>3 DEF LspInv, WatchersSound
  <2> QED BY <2>1, <2>2, <1>2, <1>3 DEF StartsSound
<1>5. WatchersSound' /\ AttachesSound'
  BY <1>2, <1>3 DEF LspInv, WatchersSound, AttachesSound, Attaching, Starting, Excused
<1>6. OneStart'
  <2>1. \A u \in Starter : start'[u].pc = "child" => start'[u] = start[u]
    BY <1>2
  <2> QED BY <2>1, <1>2, <1>3 DEF LspInv, OneStart, OneAtATime, Watching, Excused
<1>7. OwnChild'
  <2>1. \A r \in Server : watcher[r].in # Nil => Alive(r)' = Alive(r)
    BY <1>3 DEF LspInv, WatchersSound, Alive
  <2> QED BY <2>1, <1>3 DEF LspInv, OwnChild, Owns, Watching, Excused
<1>8. AnswersGoToThePump'
  BY <1>3 DEF LspInv, AnswersGoToThePump, Attaching
<1> QED BY <1>1, <1>4, <1>5, <1>6, <1>7, <1>8 DEF LspInv

LEMMA SpawnFailsKeeps ==
  ASSUME LspInv, NEW t \in Starter, SpawnFails(t)
  PROVE  LspInv'
<1> USE Names
<1>0. start[t].in \in Proxy
  BY InHand DEF SpawnFails, EndStart
<1>1. LspTypeOK'
  <2>1. editor' \in [Editor -> AttachState]
    BY DEF LspInv, LspTypeOK, AttachState, SpawnFails, EndStart
  <2>2. start' \in [Starter -> StartState]
    BY DEF LspInv, LspTypeOK, StartState, SpawnFails, EndStart, NoStart
  <2> QED BY <2>1, <2>2 DEF LspInv, LspTypeOK, SpawnFails, EndStart
<1>2. start'[t] = NoStart /\ \A u \in Starter : u # t => start'[u] = start[u]
  BY DEF LspInv, LspTypeOK, SpawnFails, EndStart
<1>3. UNCHANGED <<registry, proxy, watcher, server, overlap, raced>>
  BY DEF SpawnFails
<1>4. \A e \in Editor :
        /\ editor'[e].in = editor[e].in
        /\ e # t => editor'[e].pc = editor[e].pc
        /\ e = t => editor[e].pc = "start" /\ editor'[e].pc = "swap"
  BY <1>0 DEF LspInv, LspTypeOK, AttachState, StartsSound, SpawnFails, EndStart
<1>5. \A q \in Proxy : Attaching(q)' = Attaching(q) /\ Starting(q)' \subseteq Starting(q)
  BY <1>2, <1>4 DEF Attaching, Starting, NoStart
<1>6. StartsSound'
  <2>1. StartsSound
    BY DEF LspInv
  <2> QED BY <2>1, <1>2, <1>3, <1>4 DEF StartsSound, NoStart
<1>7. WatchersSound'
  BY <1>3 DEF LspInv, WatchersSound
<1>8. AttachesSound'
  BY <1>3, <1>4, <1>5 DEF LspInv, AttachesSound, Excused
<1>9. OneStart'
  <2>1. \A u \in Starter : start'[u].in \in Proxy => start'[u] = start[u]
    BY <1>2 DEF NoStart
  <2> QED BY <2>1, <1>3 DEF LspInv, OneStart, OneAtATime, Watching, Excused
<1>10. OwnChild'
  BY <1>3 DEF LspInv, OwnChild, Owns, Watching, Excused, Alive
<1>11. AnswersGoToThePump'
  BY <1>3, <1>5 DEF LspInv, AnswersGoToThePump
<1> QED BY <1>1, <1>6, <1>7, <1>8, <1>9, <1>10, <1>11 DEF LspInv

LEMMA SetStdinKeeps ==
  ASSUME LspInv, NEW t \in Starter, SetStdin(t)
  PROVE  LspInv'
<1> USE Names
<1> DEFINE p == start[t].in
<1>0. p \in Proxy
  BY InHand DEF SetStdin
<1>1. LspTypeOK'
  <2>1. proxy' \in [Proxy -> ProxyState]
    BY InHand, <1>0 DEF LspInv, LspTypeOK, ProxyState, SetStdin
  <2>2. start' \in [Starter -> StartState]
    BY DEF LspInv, LspTypeOK, StartState, SetStdin, NoStart
  <2> QED BY <2>1, <2>2 DEF LspInv, LspTypeOK, SetStdin
<1>2. \A q \in Proxy :
        /\ q # p => proxy'[q].stdin = proxy[q].stdin
        /\ proxy'[p].stdin = start[t].server /\ proxy'[q].child = proxy[q].child
        /\ proxy'[q].restarts = proxy[q].restarts /\ proxy'[q].closing = proxy[q].closing
        /\ proxy'[q].pump = proxy[q].pump /\ proxy'[q].socket = proxy[q].socket
  BY <1>0 DEF LspInv, LspTypeOK, ProxyState, SetStdin
<1>3. /\ start[t].pc = "stdin" /\ start'[t].pc = "child"
      /\ \A u \in Starter : start'[u].in = start[u].in /\ start'[u].server = start[u].server
      /\ \A u \in Starter : u # t => start'[u].pc = start[u].pc
  BY DEF LspInv, LspTypeOK, StartState, SetStdin
<1>4. UNCHANGED <<registry, editor, watcher, server, overlap, raced>>
  BY DEF SetStdin
<1>5. StartsSound'
  <2>1. \A u \in Starter : start[u].in \in Proxy \cup {Nil}
    BY DEF LspInv, LspTypeOK, StartState
  <2>2. StartsSound
    BY DEF LspInv
  <2> QED BY <2>1, <2>2, <1>2, <1>3, <1>4 DEF StartsSound
<1>6. WatchersSound' /\ AttachesSound'
  BY <1>2, <1>3, <1>4 DEF LspInv, WatchersSound, AttachesSound, Attaching, Starting, Excused
<1>7. OneStart'
  BY <1>0, <1>2, <1>3, <1>4 DEF LspInv, OneStart, OneAtATime, Watching, Excused
<1>8. OwnChild'
  <2>1. ~Excused(p) => \A s \in Server : watcher[s].in = p => ~Watching(s)
    BY <1>0 DEF LspInv, OneStart, OneAtATime
  <2> QED BY <2>1, <1>2, <1>4 DEF LspInv, OwnChild, Owns, Watching, Excused, Alive
<1>9. AnswersGoToThePump'
  BY <1>2, <1>4 DEF LspInv, AnswersGoToThePump, Attaching
<1> QED BY <1>1, <1>5, <1>6, <1>7, <1>8, <1>9 DEF LspInv

LEMMA SetChildKeeps ==
  ASSUME LspInv, NEW t \in Starter, SetChild(t)
  PROVE  LspInv'
<1> USE Names
<1> DEFINE p == start[t].in
           s == start[t].server
<1>0. p \in Proxy /\ s \in Server
  BY InHand DEF SetChild
<1>1. LspTypeOK'
  <2>1. server' \in [Server -> {"unborn", "running", "exited", "reaped"}]
    BY DEF LspInv, LspTypeOK, SetChild, EndStart
  <2>2. proxy' \in [Proxy -> ProxyState]
    <3>1. proxy[p] \in ProxyState
      BY <1>0 DEF LspInv, LspTypeOK
    <3>2. [proxy[p] EXCEPT !.child = start[t].server, !.pid = start[t].server] \in ProxyState
      BY <3>1, InHand DEF ProxyState, SetChild
    <3>3. proxy' = [proxy EXCEPT ![p] =
                      [proxy[p] EXCEPT !.child = start[t].server, !.pid = start[t].server]]
      BY DEF SetChild
    <3> QED BY <3>2, <3>3, <1>0 DEF LspInv, LspTypeOK
  <2>3. editor' \in [Editor -> AttachState]
    BY DEF LspInv, LspTypeOK, AttachState, SetChild, EndStart
  <2>4. start' \in [Starter -> StartState]
    BY DEF LspInv, LspTypeOK, StartState, SetChild, EndStart, NoStart
  <2>5. watcher' \in [Server -> WatcherState]
    BY <1>0 DEF LspInv, LspTypeOK, WatcherState, ProxyState, SetChild, EndStart
  <2> QED BY <2>1, <2>2, <2>3, <2>4, <2>5 DEF LspInv, LspTypeOK, SetChild, EndStart
<1>2. \A q \in Proxy :
        /\ q # p => proxy'[q].child = proxy[q].child
        /\ proxy'[p].child = s
        /\ proxy'[q].stdin = proxy[q].stdin /\ proxy'[q].closing = proxy[q].closing
        /\ proxy'[q].restarts = proxy[q].restarts
        /\ proxy'[q].pump = proxy[q].pump /\ proxy'[q].socket = proxy[q].socket
  BY <1>0 DEF LspInv, LspTypeOK, ProxyState, SetChild
<1>3. /\ start[t].pc = "child" /\ start'[t] = NoStart
      /\ \A u \in Starter : u # t => start'[u] = start[u]
  BY DEF LspInv, LspTypeOK, SetChild, EndStart
<1>4. /\ watcher[s].pc = "no" /\ watcher[s].in = Nil /\ server[s] # "unborn"
      /\ watcher'[s] = [pc |-> "take", in |-> p, child |-> Nil]
      /\ \A r \in Server : r # s => watcher'[r] = watcher[r]
  BY <1>0, <1>3 DEF LspInv, LspTypeOK, SetChild, StartsSound, WatchersSound
<1>5. \A r \in Server : server'[r] # "unborn" <=> server[r] # "unborn"
  BY DEF LspInv, LspTypeOK, SetChild, Alive
<1>6. /\ \A r \in Server : Alive(r)' => Alive(r)
      /\ registry' = registry /\ overlap' = overlap /\ raced' = raced
  BY DEF LspInv, LspTypeOK, SetChild, Alive
<1>7. \A f \in Editor :
        /\ editor'[f].in = editor[f].in
        /\ f # t => editor'[f].pc = editor[f].pc
        /\ f = t => editor[f].pc = "start" /\ editor'[f].pc = "swap"
  BY <1>0 DEF LspInv, LspTypeOK, AttachState, StartsSound, SetChild, EndStart
<1>8. \A q \in Proxy : Attaching(q)' = Attaching(q)
  BY <1>7 DEF Attaching
<1>9. StartsSound'
  <2>1. \A u \in Starter : u # t => start[u].server # s
    BY <1>0, <1>3 DEF LspInv, StartsSound
  <2>2. \A u \in Starter : start[u].in \in Proxy \cup {Nil} /\ start[u].server \in Server \cup {Nil}
    BY DEF LspInv, LspTypeOK, StartState
  <2> QED BY <2>1, <2>2, <1>0, <1>2, <1>3, <1>4, <1>5, <1>7 DEF LspInv, StartsSound, NoStart
<1>10. WatchersSound'
  BY <1>0, <1>4, <1>5 DEF LspInv, WatchersSound
<1>11. AttachesSound'
  <2>1. \A q \in Proxy : Starting(q)' \subseteq Starting(q)
    BY <1>3 DEF Starting, NoStart
  <2> QED BY <2>1, <1>2, <1>6, <1>7, <1>8 DEF LspInv, AttachesSound, Excused
<1>12. OneStart'
  <2>1. ASSUME NEW q \in Proxy, ~Excused(q)' PROVE OneAtATime(q)'
    <3>1. ~Excused(q) /\ OneAtATime(q)
      BY <2>1, <1>6 DEF LspInv, OneStart, Excused
    <3>2. CASE q = p
      <4>1. \A r \in Server : watcher[r].in = p => ~Watching(r)
        BY <3>1, <3>2, <1>0 DEF OneAtATime
      <4>2. \A u \in Starter : start'[u].in # p
        BY <3>1, <3>2, <1>0, <1>3 DEF OneAtATime, NoStart
      <4> QED BY <3>2, <4>1, <4>2, <1>0, <1>2, <1>4 DEF OneAtATime, Watching
    <3>3. CASE q # p
      <4>1. \A u \in Starter : start'[u].in = q => start'[u] = start[u]
        BY <1>3 DEF NoStart
      <4>2. proxy[q].child # Nil => proxy[q].child \in Server /\ proxy[q].child # s
        BY <3>1, <1>0, <1>4 DEF LspInv, LspTypeOK, ProxyState, OneAtATime
      <4> QED BY <3>1, <3>3, <4>1, <4>2, <1>0, <1>2, <1>3, <1>4 DEF OneAtATime, Watching, NoStart
    <3> QED BY <3>2, <3>3
  <2> QED BY <2>1 DEF OneStart
<1>13. OwnChild'
  <2>1. ASSUME NEW r \in Server, NEW q \in Proxy, watcher'[r].in = q, ~Excused(q)'
        PROVE  Owns(r, q)'
    <3>1. ~Excused(q)
      BY <2>1, <1>6 DEF Excused
    <3>2. CASE r = s
      <4>1. q = p
        BY <2>1, <3>2, <1>4
      <4>2. proxy[p].stdin = s
        BY <3>1, <4>1, <1>3 DEF LspInv, OneStart, OneAtATime
      <4> QED BY <3>2, <4>1, <4>2, <1>0, <1>2, <1>4 DEF Owns
    <3>3. CASE r # s
      <4>1. watcher'[r] = watcher[r] /\ Owns(r, q)
        BY <2>1, <3>1, <3>3, <1>4 DEF LspInv, OwnChild
      <4>2. q = p => ~Watching(r)
        BY <3>1, <4>1, <2>1, <1>0 DEF LspInv, OneStart, OneAtATime
      <4> QED BY <4>1, <4>2, <1>2, <1>6 DEF Owns, Watching
    <3> QED BY <3>2, <3>3
  <2> QED BY <2>1 DEF OwnChild
<1>14. AnswersGoToThePump'
  BY <1>2, <1>8 DEF LspInv, AnswersGoToThePump
<1> QED BY <1>1, <1>9, <1>10, <1>11, <1>12, <1>13, <1>14 DEF LspInv

LEMMA TakeChildKeeps ==
  ASSUME LspInv, NEW s \in Server, TakeChild(s)
  PROVE  LspInv'
<1> USE Names
<1> DEFINE p == watcher[s].in
           end == IF proxy[p].child = Nil THEN "over" ELSE "wait"
<1>0. p \in Proxy
  BY InHand DEF TakeChild
<1>1. LspTypeOK'
  <2>1. proxy' \in [Proxy -> ProxyState]
    <3>1. proxy[p] \in ProxyState
      BY <1>0 DEF LspInv, LspTypeOK
    <3>2. [proxy[p] EXCEPT !.child = Nil] \in ProxyState
      BY <3>1 DEF ProxyState
    <3>3. proxy' = [proxy EXCEPT ![p] = [proxy[p] EXCEPT !.child = Nil]]
      BY DEF TakeChild
    <3> QED BY <3>2, <3>3, <1>0 DEF LspInv, LspTypeOK
  <2>2. watcher' \in [Server -> WatcherState]
    <3>1. watcher[s] \in WatcherState /\ proxy[p].child \in Server \cup {Nil} /\ end \in {"over", "wait"}
      BY <1>0 DEF LspInv, LspTypeOK, ProxyState
    <3> HIDE DEF end
    <3>2. [watcher[s] EXCEPT !.pc = end, !.child = proxy[p].child] \in WatcherState
      BY <3>1 DEF WatcherState
    <3>3. watcher' = [watcher EXCEPT ![s] =
                        [watcher[s] EXCEPT !.pc = end, !.child = proxy[p].child]]
      BY DEF TakeChild, end
    <3> QED BY <3>2, <3>3 DEF LspInv, LspTypeOK
  <2> QED BY <2>1, <2>2 DEF LspInv, LspTypeOK, TakeChild
<1>2. \A q \in Proxy :
        /\ q # p => proxy'[q].child = proxy[q].child
        /\ proxy'[p].child = Nil
        /\ proxy'[q].stdin = proxy[q].stdin /\ proxy'[q].closing = proxy[q].closing
        /\ proxy'[q].restarts = proxy[q].restarts
        /\ proxy'[q].pump = proxy[q].pump /\ proxy'[q].socket = proxy[q].socket
  BY <1>0 DEF LspInv, LspTypeOK, ProxyState, TakeChild
<1>3. /\ watcher[s].pc = "take" /\ watcher'[s].pc = end
      /\ watcher'[s].child = proxy[p].child
      /\ \A r \in Server : watcher'[r].in = watcher[r].in
      /\ \A r \in Server : r # s => watcher'[r] = watcher[r]
  BY <1>0 DEF LspInv, LspTypeOK, WatcherState, TakeChild
<1>4. UNCHANGED <<registry, editor, start, server, overlap, raced>>
  BY DEF TakeChild
<1>5. StartsSound'
  <2>1. \A t \in Starter : start[t].in \in Proxy \cup {Nil} /\ start[t].server \in Server \cup {Nil}
    BY DEF LspInv, LspTypeOK, StartState
  <2>2. \A r \in Server : watcher[r].pc \in {"no", "over"} => watcher'[r] = watcher[r]
    BY <1>3
  <2>3. StartsSound
    BY DEF LspInv
  <2> QED BY <2>1, <2>2, <2>3, <1>2, <1>4 DEF StartsSound
<1>6. WatchersSound'
  <2>1. watcher'[s].pc # "no"
    BY <1>3
  <2> QED BY <2>1, <1>3, <1>4 DEF LspInv, WatchersSound
<1>7. AttachesSound'
  BY <1>2, <1>4 DEF LspInv, AttachesSound, Attaching, Starting, Excused
<1>8. OneStart'
  <2>1. ASSUME NEW q \in Proxy, ~Excused(q)' PROVE OneAtATime(q)'
    <3>1. ~Excused(q) /\ OneAtATime(q)
      BY <2>1, <1>4 DEF LspInv, OneStart, Excused
    <3>2. \A r \in Server : Watching(r)' => Watching(r)
      BY <1>3 DEF Watching
    <3>3. q # p /\ proxy[q].child # Nil => watcher'[proxy[q].child] = watcher[proxy[q].child]
      <4>1. proxy[q].child \in Server \cup {Nil}
        BY DEF LspInv, LspTypeOK, ProxyState
      <4> QED BY <4>1, <3>1, <1>3 DEF OneAtATime
    <3> QED BY <3>1, <3>2, <3>3, <1>2, <1>3, <1>4 DEF OneAtATime
  <2> QED BY <2>1 DEF OneStart
<1>9. OwnChild'
  <2>1. ASSUME NEW r \in Server, NEW q \in Proxy, watcher'[r].in = q, ~Excused(q)'
        PROVE  Owns(r, q)'
    <3>1. ~Excused(q) /\ Owns(r, q) /\ watcher[r].in = q
      BY <2>1, <1>3, <1>4 DEF LspInv, OwnChild, Excused
    <3>2. CASE r = s
      <4>1. q = p /\ (proxy[p].child = s \/ ~Alive(s)) /\ (~proxy[p].closing => proxy[p].stdin = s)
        BY <3>1, <3>2, <1>3 DEF Owns, Watching
      <4>2. proxy[p].child # Nil => proxy[p].child = s
        <5>1. proxy[p].child \in Server \cup {Nil}
          BY <1>0 DEF LspInv, LspTypeOK, ProxyState
        <5>2. OneAtATime(p)
          BY <3>1, <4>1, <1>0 DEF LspInv, OneStart
        <5> QED BY <5>1, <5>2, <1>3 DEF OneAtATime, Watching
      <4> QED BY <3>2, <4>1, <4>2, <1>2, <1>3, <1>4 DEF Owns, Watching, Alive
    <3>3. CASE r # s
      <4>1. watcher'[r] = watcher[r]
        BY <3>3, <1>3
      <4>2. q = p => watcher[r].pc # "take"
        BY <3>1, <3>3, <1>0, <1>3 DEF LspInv, OneStart, OneAtATime, Watching
      <4> QED BY <3>1, <4>1, <4>2, <1>2, <1>4 DEF Owns, Watching, Alive
    <3> QED BY <3>2, <3>3
  <2> QED BY <2>1 DEF OwnChild
<1>10. AnswersGoToThePump'
  BY <1>2, <1>4 DEF LspInv, AnswersGoToThePump, Attaching
<1> QED BY <1>1, <1>5, <1>6, <1>7, <1>8, <1>9, <1>10 DEF LspInv

LEMMA ReapKeeps ==
  ASSUME LspInv, NEW s \in Server, Reap(s)
  PROVE  LspInv'
<1> USE Names
<1>0. watcher[s].in \in Proxy
  BY InHand DEF Reap
<1>1. LspTypeOK'
  <2>1. server' \in [Server -> {"unborn", "running", "exited", "reaped"}]
    BY DEF LspInv, LspTypeOK, Reap
  <2>2. watcher' \in [Server -> WatcherState]
    BY DEF LspInv, LspTypeOK, WatcherState, ProxyState, Reap
  <2> QED BY <2>1, <2>2 DEF LspInv, LspTypeOK, Reap
<1>2. /\ watcher[s].pc = "wait" /\ watcher'[s].pc = "reaped"
      /\ \A r \in Server : watcher'[r].in = watcher[r].in /\ watcher'[r].child = watcher[r].child
      /\ \A r \in Server : r # s => watcher'[r].pc = watcher[r].pc
  BY DEF LspInv, LspTypeOK, WatcherState, Reap
<1>3. /\ UNCHANGED <<registry, proxy, editor, start, overlap, raced>>
      /\ \A r \in Server : (server'[r] = "unborn" <=> server[r] = "unborn") /\ (Alive(r)' => Alive(r))
  BY DEF LspInv, LspTypeOK, WatcherState, Reap, Alive
<1>4. StartsSound'
  <2>1. \A t \in Starter : start[t].server \in Server \cup {Nil}
    BY DEF LspInv, LspTypeOK, StartState
  <2>2. StartsSound
    BY DEF LspInv
  <2> QED BY <2>1, <2>2, <1>2, <1>3 DEF StartsSound
<1>5. WatchersSound' /\ AttachesSound'
  BY <1>2, <1>3 DEF LspInv, WatchersSound, AttachesSound, Attaching, Starting, Excused
<1>6. OneStart'
  <2>1. ASSUME NEW q \in Proxy, ~Excused(q) PROVE OneAtATime(q)'
    <3>1. OneAtATime(q)
      BY <2>1 DEF LspInv, OneStart
    <3>2. \A r \in Server : Watching(r)' <=> Watching(r)
      BY <1>2 DEF Watching
    <3>3. proxy[q].child # Nil => proxy[q].child \in Server /\ proxy[q].child # s
      BY <3>1, <1>2 DEF LspInv, LspTypeOK, ProxyState, OneAtATime
    <3> QED BY <3>1, <3>2, <3>3, <1>2, <1>3 DEF OneAtATime
  <2> QED BY <2>1, <1>3 DEF OneStart, Excused
<1>7. OwnChild'
  <2>1. ASSUME NEW r \in Server, NEW q \in Proxy, watcher[r].in = q, ~Excused(q)
        PROVE  Owns(r, q)'
    <3>1. Owns(r, q)
      BY <2>1 DEF LspInv, OwnChild
    <3>2. CASE r = s
      <4>1. watcher[s].child = s /\ ~Alive(s)
        BY <3>1, <3>2, <1>2 DEF Owns, Reap, Alive
      <4> QED BY <3>1, <3>2, <4>1, <1>2, <1>3 DEF Owns, Watching
    <3>3. CASE r # s
      BY <3>1, <3>3, <1>2, <1>3 DEF Owns, Watching
    <3> QED BY <3>2, <3>3
  <2> QED BY <2>1, <1>2, <1>3 DEF OwnChild, Excused
<1>8. AnswersGoToThePump'
  BY <1>3 DEF LspInv, AnswersGoToThePump, Attaching
<1> QED BY <1>1, <1>4, <1>5, <1>6, <1>7, <1>8 DEF LspInv

LEMMA AfterExitKeeps ==
  ASSUME LspInv, NEW s \in Server, AfterExit(s)
  PROVE  LspInv'
<1> USE Names
<1> DEFINE p == watcher[s].in
           again == ~proxy[p].closing /\ proxy[p].restarts = 0
<1>0. p \in Proxy
  BY InHand DEF AfterExit
<1>a. Counted(p) \in Nat /\ (again => Counted(p) > 0) /\ Counted(p) >= proxy[p].restarts
  BY <1>0 DEF LspInv, LspTypeOK, ProxyState, Counted
<1>1. LspTypeOK'
  <2>1. proxy' \in [Proxy -> ProxyState]
    <3>1. proxy[p] \in ProxyState
      BY <1>0 DEF LspInv, LspTypeOK
    <3>2. [proxy[p] EXCEPT !.stdin = Nil, !.pid = Nil, !.restarts = Counted(p)] \in ProxyState
      BY <3>1, <1>a DEF ProxyState
    <3>3. proxy' = [proxy EXCEPT ![p] =
                      [proxy[p] EXCEPT !.stdin = Nil, !.pid = Nil, !.restarts = Counted(p)]]
      BY DEF AfterExit
    <3> QED BY <3>2, <3>3, <1>0 DEF LspInv, LspTypeOK
  <2>2. start' \in [Starter -> StartState]
    <3>1. [pc |-> "spawn", in |-> p, server |-> Nil] \in StartState
      BY <1>0 DEF StartState
    <3>2. start' = start \/ start' = [start EXCEPT ![s] = [pc |-> "spawn", in |-> p, server |-> Nil]]
      BY DEF AfterExit, BeginStart
    <3> QED BY <3>1, <3>2 DEF LspInv, LspTypeOK
  <2>3. watcher' \in [Server -> WatcherState]
    <3>1. [watcher[s] EXCEPT !.pc = "over"] \in WatcherState
      BY DEF LspInv, LspTypeOK, WatcherState
    <3>2. watcher' = [watcher EXCEPT ![s] = [watcher[s] EXCEPT !.pc = "over"]]
      BY DEF AfterExit
    <3> QED BY <3>1, <3>2 DEF LspInv, LspTypeOK
  <2>4. UNCHANGED <<registry, editor, server, killer, raced>> /\ overlap' \subseteq Proxy
    BY <1>0 DEF LspInv, LspTypeOK, AfterExit, BeginStart
  <2> QED BY <2>1, <2>2, <2>3, <2>4 DEF LspInv, LspTypeOK
<1>2. \A q \in Proxy :
        /\ q # p => proxy'[q] = proxy[q]
        /\ proxy'[p].stdin = Nil /\ proxy'[p].restarts = Counted(p)
        /\ proxy'[q].child = proxy[q].child /\ proxy'[q].closing = proxy[q].closing
        /\ proxy'[q].pump = proxy[q].pump /\ proxy'[q].socket = proxy[q].socket
  BY <1>0 DEF LspInv, LspTypeOK, ProxyState, AfterExit
<1>3. /\ watcher[s].pc = "reaped" /\ watcher'[s].pc = "over"
      /\ \A r \in Server : watcher'[r].in = watcher[r].in /\ watcher'[r].child = watcher[r].child
      /\ \A r \in Server : r # s => watcher'[r] = watcher[r]
  BY DEF LspInv, LspTypeOK, WatcherState, AfterExit
<1>4. /\ \A u \in Starter : u # s => start'[u] = start[u]
      /\ start[s].in = Nil /\ start[s].pc = "no" /\ start[s].server = Nil
      /\ again => start'[s].pc = "spawn" /\ start'[s].in = p /\ start'[s].server = Nil
      /\ ~again => start'[s] = start[s]
  <2>1. start[s].in = Nil /\ start[s].pc = "no" /\ start[s].server = Nil
    BY <1>3 DEF LspInv, LspTypeOK, StartState, StartsSound
  <2> QED BY <2>1, <1>0 DEF LspInv, LspTypeOK, AfterExit, BeginStart
<1>5. /\ UNCHANGED <<registry, editor, server, raced>>
      /\ overlap' = IF again /\ Starting(p) # {} THEN overlap \cup {p} ELSE overlap
  BY DEF AfterExit, BeginStart
<1>6. StartsSound'
  <2>1. \A t \in Starter : start[t].in \in Proxy \cup {Nil} /\ start[t].server \in Server \cup {Nil}
    BY DEF LspInv, LspTypeOK, StartState
  <2>2. \A t \in Starter : start'[t].server = start[t].server
    BY <1>4
  <2>3. \A q \in Proxy : proxy[q].restarts > 0 => proxy'[q].restarts > 0
    BY <1>0, <1>a, <1>2 DEF LspInv, LspTypeOK, ProxyState
  <2>4. \A r \in Server : watcher[r].pc \in {"no", "over"} => watcher'[r] = watcher[r]
    BY <1>3
  <2>5. StartsSound
    BY DEF LspInv
  <2>6. \A t \in Editor : start'[t] = start[t]
    BY <1>4
  <2>7. again => proxy'[p].restarts > 0
    BY <1>0, <1>a, <1>2
  <2> QED BY <2>1, <2>2, <2>3, <2>4, <2>5, <2>6, <2>7, <1>0, <1>3, <1>4, <1>5 DEF StartsSound
<1>7. WatchersSound'
  BY <1>3, <1>5 DEF LspInv, WatchersSound
<1>8. AttachesSound'
  <2>1. \A q \in Proxy : (q # p \/ ~again) => Starting(q)' = Starting(q)
    BY <1>4 DEF Starting
  <2>2. \A q \in Proxy : Attaching(q)' = Attaching(q)
    BY <1>5 DEF Attaching
  <2> QED BY <2>1, <2>2, <1>2, <1>5 DEF LspInv, AttachesSound, Excused
<1>9. OneStart'
  <2>1. ASSUME NEW q \in Proxy, ~Excused(q)' PROVE OneAtATime(q)'
    <3>1. ~Excused(q) /\ OneAtATime(q)
      BY <2>1, <1>5 DEF LspInv, OneStart, Excused
    <3>2. \A r \in Server : (Watching(r)' <=> Watching(r) /\ r # s)
      BY <1>3 DEF Watching
    <3>3. proxy[q].child # Nil => proxy[q].child \in Server /\ proxy[q].child # s
      BY <3>1, <1>3 DEF LspInv, LspTypeOK, ProxyState, OneAtATime
    <3>4. CASE q = p
      <4>1. \A r \in Server : watcher'[r].in = p => ~Watching(r)'
        BY <3>1, <3>2, <3>4, <1>3 DEF OneAtATime, Watching
      <4>2. \A u \in Starter : start'[u].in = p => u = s /\ start'[u].pc # "child"
        BY <3>1, <3>4, <1>3, <1>4 DEF OneAtATime, Watching
      <4> QED BY <3>1, <3>3, <3>4, <4>1, <4>2, <1>2, <1>3 DEF OneAtATime
    <3>5. CASE q # p
      <4>1. \A u \in Starter : start'[u].in = q => start'[u] = start[u]
        BY <3>5, <1>4
      <4> QED BY <3>1, <3>2, <3>3, <3>5, <4>1, <1>2, <1>3, <1>4 DEF OneAtATime
    <3> QED BY <3>4, <3>5
  <2> QED BY <2>1 DEF OneStart
<1>10. OwnChild'
  <2>1. ASSUME NEW r \in Server, NEW q \in Proxy, watcher'[r].in = q, ~Excused(q)'
        PROVE  Owns(r, q)'
    <3>1. ~Excused(q) /\ Owns(r, q) /\ watcher[r].in = q
      BY <2>1, <1>3, <1>5 DEF LspInv, OwnChild, Excused
    <3>2. CASE r = s
      BY <3>1, <3>2, <1>3, <1>5 DEF Owns, Watching, Alive
    <3>3. CASE r # s
      <4>1. watcher'[r] = watcher[r]
        BY <3>3, <1>3
      <4>2. q = p => ~Watching(r)
        BY <3>1, <3>3, <1>0, <1>3 DEF LspInv, OneStart, OneAtATime, Watching
      <4> QED BY <3>1, <4>1, <4>2, <1>2, <1>5 DEF Owns, Watching, Alive
    <3> QED BY <3>2, <3>3
  <2> QED BY <2>1 DEF OwnChild
<1>11. AnswersGoToThePump'
  BY <1>2, <1>5 DEF LspInv, AnswersGoToThePump, Attaching
<1> QED BY <1>1, <1>6, <1>7, <1>8, <1>9, <1>10, <1>11 DEF LspInv

LEMMA ServerExitsKeeps ==
  ASSUME LspInv, NEW s \in Server, ServerExits(s)
  PROVE  LspInv'
<1> USE Names
<1>1. LspTypeOK'
  <2>1. server' \in [Server -> {"unborn", "running", "exited", "reaped"}]
    BY DEF LspInv, LspTypeOK, ServerExits
  <2> QED BY <2>1 DEF LspInv, LspTypeOK, ServerExits
<1>2. StartsSound'
  BY DEF LspInv, LspTypeOK, StartState, StartsSound, ServerExits, Alive
<1>3. WatchersSound'
  BY DEF LspInv, WatchersSound, LspTypeOK, ServerExits
<1>4. AttachesSound'
  BY DEF LspInv, AttachesSound, Attaching, Starting, Excused, ServerExits
<1>5. OneStart'
  BY DEF LspInv, OneStart, OneAtATime, Watching, Excused, ServerExits
<1>6. OwnChild'
  <2>1. \A r \in Server : Alive(r)' => Alive(r)
    BY DEF LspInv, LspTypeOK, ServerExits, Alive
  <2> QED BY <2>1 DEF LspInv, OwnChild, Owns, Watching, Excused, ServerExits
<1>7. AnswersGoToThePump'
  BY DEF LspInv, AnswersGoToThePump, Attaching, ServerExits
<1> QED BY <1>1, <1>2, <1>3, <1>4, <1>5, <1>6, <1>7 DEF LspInv

LEMMA CloseKeeps ==
  ASSUME LspInv, NEW q \in Proxy, Close(q)
  PROVE  LspInv'
<1> USE Names
<1>1. LspTypeOK'
  <2>1. registry' \in Proxy \cup {Nil}
    BY DEF LspInv, LspTypeOK, Close
  <2>2. server' \in [Server -> {"unborn", "running", "exited", "reaped"}]
    BY DEF LspInv, LspTypeOK, Close
  <2>3. proxy' \in [Proxy -> ProxyState]
    <3> DEFINE closed == [proxy[q] EXCEPT !.closing = TRUE, !.pump = Nil, !.child = Nil,
                                          !.stdin = Nil, !.socket = Nil]
    <3>1. proxy[q] \in ProxyState
      BY DEF LspInv, LspTypeOK
    <3>2. closed \in ProxyState
      BY <3>1 DEF ProxyState
    <3>3. proxy' = [proxy EXCEPT ![q] = closed]
      BY DEF Close
    <3> QED BY <3>2, <3>3 DEF LspInv, LspTypeOK
  <2>4. killer' \subseteq Proxy \X Server /\ raced' \subseteq Proxy
    BY DEF LspInv, LspTypeOK, ProxyState, Close
  <2> QED BY <2>1, <2>2, <2>3, <2>4 DEF LspInv, LspTypeOK, Close
<1>2. \A p \in Proxy :
        /\ p # q => proxy'[p] = proxy[p]
        /\ p = q => /\ proxy'[p].closing /\ proxy'[p].child = Nil
                    /\ proxy'[p].pump = Nil /\ proxy'[p].socket = Nil
        /\ proxy'[p].restarts = proxy[p].restarts
  BY DEF LspInv, LspTypeOK, ProxyState, Close
<1>3. /\ UNCHANGED <<editor, start, watcher, overlap>>
      /\ registry = q /\ registry' = Nil
      /\ raced' = IF Attaching(q) # {} \/ Starting(q) # {} THEN raced \cup {q} ELSE raced
  BY DEF Close
<1>4. /\ \A s \in Server : (server'[s] = "unborn" <=> server[s] = "unborn") /\ (Alive(s)' => Alive(s))
      /\ \A s \in Server : proxy[q].child = s => ~Alive(s)'
  BY DEF LspInv, LspTypeOK, ProxyState, Close, Alive
<1>5. StartsSound'
  <2>1. \A t \in Starter : start[t].in \in Proxy \cup {Nil} /\ start[t].server \in Server \cup {Nil}
    BY DEF LspInv, LspTypeOK, StartState
  <2>2. StartsSound
    BY DEF LspInv
  <2> QED BY <2>1, <2>2, <1>2, <1>3, <1>4 DEF StartsSound
<1>6. WatchersSound'
  BY <1>3, <1>4 DEF LspInv, WatchersSound
<1>7. AttachesSound'
  BY <1>2, <1>3 DEF LspInv, AttachesSound, Attaching, Starting, Excused
<1>8. OneStart'
  <2>1. ASSUME NEW p \in Proxy, ~Excused(p)' PROVE OneAtATime(p)'
    <3>1. OneAtATime(p)
      BY <2>1, <1>3 DEF LspInv, OneStart, Excused
    <3>2. CASE p = q
      <4>1. Starting(q) = {}
        BY <2>1, <3>2, <1>3 DEF Excused
      <4> QED BY <3>1, <3>2, <4>1, <1>2, <1>3 DEF OneAtATime, Starting, Watching
    <3>3. CASE p # q
      BY <3>1, <3>3, <1>2, <1>3 DEF OneAtATime, Watching
    <3> QED BY <3>2, <3>3
  <2> QED BY <2>1 DEF OneStart
<1>9. OwnChild'
  <2>1. ASSUME NEW s \in Server, NEW p \in Proxy, watcher[s].in = p, ~Excused(p)'
        PROVE  Owns(s, p)'
    <3>1. Owns(s, p)
      BY <2>1, <1>3 DEF LspInv, OwnChild, Excused
    <3>2. CASE p = q
      <4>1. proxy'[q].closing /\ watcher'[s] = watcher[s]
        BY <1>2, <1>3
      <4>2. watcher[s].pc = "take" => ~Alive(s)'
        BY <3>1, <3>2, <1>4, Names DEF Owns
      <4> QED BY <3>1, <3>2, <4>1, <4>2, <1>4 DEF Owns
    <3>3. CASE p # q
      BY <3>1, <3>3, <1>2, <1>3, <1>4 DEF Owns, Watching
    <3> QED BY <3>2, <3>3
  <2> QED BY <2>1, <1>3 DEF OwnChild
<1>10. AnswersGoToThePump'
  BY <1>2, <1>3 DEF LspInv, AnswersGoToThePump, Attaching
<1> QED BY <1>1, <1>5, <1>6, <1>7, <1>8, <1>9, <1>10 DEF LspInv

LEMMA KillKeeps ==
  ASSUME LspInv, NEW q \in Proxy, NEW s \in Server, Kill(q, s)
  PROVE  LspInv'
<1> USE Names
<1>1. LspTypeOK'
  <2>1. server' \in [Server -> {"unborn", "running", "exited", "reaped"}]
    BY DEF LspInv, LspTypeOK, Kill
  <2>2. killer' \subseteq Proxy \X Server
    BY DEF LspInv, LspTypeOK, ProxyState, Kill
  <2> QED BY <2>1, <2>2 DEF LspInv, LspTypeOK, Kill
<1>2. StartsSound'
  BY DEF LspInv, LspTypeOK, StartState, StartsSound, Kill, Alive
<1>3. WatchersSound'
  BY DEF LspInv, WatchersSound, LspTypeOK, Kill
<1>4. AttachesSound'
  BY DEF LspInv, AttachesSound, Attaching, Starting, Excused, Kill
<1>5. OneStart'
  BY DEF LspInv, OneStart, OneAtATime, Watching, Excused, Kill
<1>6. OwnChild'
  <2>1. \A r \in Server : Alive(r)' => Alive(r)
    BY DEF LspInv, LspTypeOK, Kill, Alive
  <2> QED BY <2>1 DEF LspInv, OwnChild, Owns, Watching, Excused, Kill
<1>7. AnswersGoToThePump'
  BY DEF LspInv, AnswersGoToThePump, Attaching, Kill
<1> QED BY <1>1, <1>2, <1>3, <1>4, <1>5, <1>6, <1>7 DEF LspInv

LEMMA LspInitKeeps == LspInit => LspInv
<1> SUFFICES ASSUME LspInit PROVE LspInv
  OBVIOUS
<1> USE Names DEF LspInit
<1>1. LspTypeOK
  BY DEF LspTypeOK, ProxyState, AttachState, StartState, WatcherState, NewProxy, NoStart
<1>2. StartsSound /\ WatchersSound
  BY DEF StartsSound, WatchersSound, NoStart
<1>3. AttachesSound
  BY DEF AttachesSound, NewProxy
<1>4. OneStart /\ OwnChild
  BY DEF OneStart, OneAtATime, OwnChild, Watching, NewProxy, NoStart
<1>5. AnswersGoToThePump
  BY DEF AnswersGoToThePump, NewProxy
<1> QED BY <1>1, <1>2, <1>3, <1>4, <1>5 DEF LspInv

LEMMA LspStepKeeps == LspInv /\ [LspNext]_lvars => LspInv'
<1> SUFFICES ASSUME LspInv, [LspNext]_lvars PROVE LspInv'
  OBVIOUS
<1>1. ASSUME NEW e \in Editor, Lookup(e) \/ NoteSocket(e) \/ SwapPump(e) \/ Use(e) PROVE LspInv'
  BY <1>1, LookupKeeps, NoteSocketKeeps, SwapPumpKeeps, UseKeeps
<1>2. ASSUME NEW t \in Starter, Start(t) PROVE LspInv'
  BY <1>2, SpawnKeeps, SpawnFailsKeeps, SetStdinKeeps, SetChildKeeps DEF Start
<1>3. ASSUME NEW s \in Server, Watch(s) \/ ServerExits(s) PROVE LspInv'
  BY <1>3, TakeChildKeeps, ReapKeeps, AfterExitKeeps, ServerExitsKeeps DEF Watch
<1>4. ASSUME NEW p \in Proxy, GoesStale(p) \/ Close(p) PROVE LspInv'
  BY <1>4, GoesStaleKeeps, CloseKeeps
<1>5. ASSUME NEW p \in Proxy, NEW s \in Server, Kill(p, s) PROVE LspInv'
  BY <1>5, KillKeeps
<1>6. CASE UNCHANGED lvars
  BY <1>6 DEF lvars, LspInv, LspTypeOK, StartsSound, WatchersSound, AttachesSound, OneStart,
     OneAtATime, OwnChild, Owns, Watching, Excused, Attaching, Starting, Alive, AnswersGoToThePump
<1> QED BY <1>1, <1>2, <1>3, <1>4, <1>5, <1>6 DEF LspNext, LspInternal, CloseSession, ReapIdle

\* (attach, start_impl, close) The inductive invariant of the proxies: who is
\* starting what, and that in a proxy no two starts overlapped in, and that
\* was not closed under one, a single start or watcher goes on.
THEOREM LspInvariant == LspSpec => []LspInv
BY LspInitKeeps, LspStepKeeps, PTL DEF LspSpec

\* (needs_start, start_impl, the exit watcher) At most one process serves a
\* proxy, whatever crashes, unless starts overlapped in it or it was closed
\* under one: the two ways the code leaves open.
THEOREM OneServerAtATime == LspSpec => []OneServer
<1>1. LspInv => OneServer
  <2> SUFFICES ASSUME LspInv, NEW s \in Server, NEW r \in Server, Alive(s), Alive(r), s # r,
                      watcher[s].in = watcher[r].in, watcher[s].in # Nil, ~Excused(watcher[s].in)
               PROVE  FALSE
    BY DEF OneServer, Excused
  <2>1. watcher[s].pc # "no" /\ watcher[r].pc # "no"
    BY DEF LspInv, WatchersSound
  <2>2. watcher[s].in \in Proxy
    BY <2>1, InHand
  <2>3. watcher[s].pc # "over" /\ watcher[r].pc # "over"
    BY <2>2 DEF LspInv, OwnChild, Owns
  <2>4. Watching(s) /\ Watching(r)
    BY <2>1, <2>3 DEF LspInv, LspTypeOK, WatcherState, Watching
  <2> QED BY <2>2, <2>4 DEF LspInv, OneStart, OneAtATime
<1> QED BY <1>1, LspInvariant, PTL

\* (attach) When no attach is half way, the editor whose frames reach the
\* server is the one that hears it, however many attached in whatever order.
THEOREM PumpAndSocketAgree == LspSpec => []AnswersGoToThePump
<1>1. LspInv => AnswersGoToThePump
  BY DEF LspInv
<1> QED BY <1>1, LspInvariant, PTL

-----------------------------------------------------------------------------
LEMMA Finite ==
  /\ IsFiniteSet(Editor) /\ IsFiniteSet(Server)
  /\ \A p : IsFiniteSet(Served(p)) /\ IsFiniteSet(Through(p))
  /\ \A p : Cardinality(Served(p)) \in Nat /\ Cardinality(Through(p)) \in Nat
<1>1. IsFiniteSet(Editor)
  BY LspAssumption
<1>2. IsFiniteSet(Server)
  BY LspAssumption, FS_Interval DEF Server
<1>3. ASSUME NEW p PROVE IsFiniteSet(Served(p)) /\ IsFiniteSet(Through(p))
  BY <1>1, <1>2, FS_Subset DEF Served, Through
<1> QED BY <1>1, <1>2, <1>3, FS_CardinalityType

\* A proxy has no more servers and at least as many starts to its account.
LEMMA BudgetHeld ==
  ASSUME LspTypeOK, LspTypeOK', NEW p \in Proxy,
         Cardinality(Served(p)) <= Cardinality(Through(p)) + Restarted(p),
         Served(p)' = Served(p), Through(p) \subseteq Through(p)', Restarted(p)' >= Restarted(p)
  PROVE  Cardinality(Served(p)') <= Cardinality(Through(p)') + Restarted(p)'
<1>1. IsFiniteSet(Through(p)')
  <2>1. IsFiniteSet(Editor)
    BY Finite
  <2> QED BY <2>1, FS_Subset DEF Through
<1>2. Cardinality(Through(p)) <= Cardinality(Through(p)')
  BY <1>1, FS_Subset
<1>3. Cardinality(Served(p)) \in Nat /\ Cardinality(Through(p)) \in Nat /\ Cardinality(Through(p)') \in Nat
  BY <1>1, Finite, FS_CardinalityType
<1>4. Restarted(p) \in 0..1 /\ Restarted(p)' \in 0..1
  BY DEF Restarted
<1> QED BY <1>2, <1>3, <1>4

\* Steps that neither give a proxy a server nor count an exit.
LEMMA BudgetUntouched ==
  ASSUME LspTypeOK, LspTypeOK', Budget,
         \A s \in Server : watcher'[s].in = watcher[s].in /\ start'[s].in = start[s].in,
         \A e \in Editor : editor[e].pc \in {"swap", "done"} =>
                             editor'[e].pc \in {"swap", "done"} /\ editor'[e].in = editor[e].in,
         \A p \in Proxy : proxy'[p].restarts = proxy[p].restarts
  PROVE  Budget'
<1>1. ASSUME NEW p \in Proxy
      PROVE  /\ Cardinality(Served(p)') <= Cardinality(Through(p)') + Restarted(p)'
             /\ \A s, r \in Restarting(p)' : s = r
  <2>1. Served(p)' = Served(p) /\ Restarting(p)' = Restarting(p) /\ Through(p) \subseteq Through(p)'
    BY DEF Served, Restarting, Through
  <2>2. Restarted(p)' = Restarted(p) /\ Restarted(p) \in 0..1
    BY <2>1 DEF Restarted
  <2> QED BY <2>1, <2>2, BudgetHeld DEF Budget
<1> QED BY <1>1 DEF Budget

\* A server more, and an attach that has had its start.
LEMMA BudgetSetChild ==
  ASSUME LspInv, LspInv', Budget, NEW t \in Starter, SetChild(t)
  PROVE  Budget'
<1> USE Names
<1> DEFINE p == start[t].in
           n == start[t].server
<1>0. p \in Proxy /\ n \in Server
  BY InHand DEF SetChild
<1>1. /\ watcher[n].in = Nil /\ watcher'[n].in = p
      /\ \A r \in Server : r # n => watcher'[r].in = watcher[r].in
  BY <1>0 DEF LspInv, LspTypeOK, SetChild, StartsSound, WatchersSound
<1>2. /\ \A u \in Starter : u # t => start'[u] = start[u]
      /\ start'[t].in = Nil
      /\ \A q \in Proxy : proxy'[q].restarts = proxy[q].restarts
  BY <1>0 DEF LspInv, LspTypeOK, ProxyState, SetChild, EndStart, NoStart
<1>3. \A e \in Editor :
        /\ editor'[e].in = editor[e].in
        /\ e # t => editor'[e].pc = editor[e].pc
        /\ e = t => editor[e].pc = "start" /\ editor'[e].pc = "swap" /\ editor[e].in = p
  BY <1>0 DEF LspInv, LspTypeOK, AttachState, StartsSound, SetChild, EndStart
<1>4. ASSUME NEW q \in Proxy, q # p
      PROVE  /\ Cardinality(Served(q)') <= Cardinality(Through(q)') + Restarted(q)'
             /\ \A s, r \in Restarting(q)' : s = r
  <2>1. Served(q)' = Served(q)
    BY <1>1, <1>4 DEF Served
  <2>2. Through(q) \subseteq Through(q)'
    BY <1>3, <1>4 DEF Through
  <2>3. Restarting(q)' = Restarting(q)
    BY <1>2, <1>4 DEF Restarting
  <2>4. Restarted(q)' = Restarted(q) /\ Restarted(q) \in 0..1
    BY <2>3, <1>2 DEF Restarted
  <2> QED BY <2>1, <2>2, <2>3, <2>4, BudgetHeld DEF Budget, LspInv
<1>5. ASSUME NEW q \in Proxy, q = p
      PROVE  /\ Cardinality(Served(q)') <= Cardinality(Through(q)') + Restarted(q)'
             /\ \A s, r \in Restarting(q)' : s = r
  <2>1. Served(q)' = Served(q) \cup {n} /\ n \notin Served(q)
    BY <1>0, <1>5, <1>1 DEF Served
  <2>2. Cardinality(Served(q)') = Cardinality(Served(q)) + 1
    BY <2>1, Finite, FS_AddElement
  <2>3. CASE t \in Editor
    <3>1. Through(q)' = Through(q) \cup {t} /\ t \notin Through(q)
      BY <2>3, <1>3, <1>5 DEF Through
    <3>2. Cardinality(Through(q)') = Cardinality(Through(q)) + 1
      BY <3>1, Finite, FS_AddElement
    <3>3. Restarting(q)' = Restarting(q)
      BY <2>3, <1>2 DEF Restarting
    <3>4. Restarted(q)' = Restarted(q) /\ Restarted(q) \in 0..1
      BY <3>3, <1>0, <1>5, <1>2 DEF Restarted
    <3> QED BY <2>2, <3>2, <3>3, <3>4, <1>0, <1>5, Finite DEF Budget
  <2>4. CASE t \in Server
    <3>1. Through(q)' = Through(q)
      BY <2>4, <1>3, <1>5 DEF Through
    <3>2. t \in Restarting(q) /\ proxy[q].restarts > 0
      BY <2>4, <1>0, <1>5 DEF Restarting, LspInv, StartsSound
    <3>3. Restarting(q)' = {}
      BY <3>2, <1>0, <1>5, <1>2 DEF Restarting, Budget
    <3>4. Restarted(q)' = 1 /\ Restarted(q) = 0
      BY <3>2, <3>3, <1>0, <1>5, <1>2 DEF Restarted
    <3> QED BY <2>2, <3>1, <3>3, <3>4, <1>0, <1>5, Finite DEF Budget
  <2> QED BY <2>3, <2>4 DEF Starter
<1> QED BY <1>4, <1>5 DEF Budget

LEMMA BudgetSpawnFails ==
  ASSUME LspInv, LspInv', Budget, NEW t \in Starter, SpawnFails(t)
  PROVE  Budget'
<1> USE Names
<1>1. /\ \A u \in Starter : u # t => start'[u] = start[u]
      /\ start'[t].in = Nil
      /\ UNCHANGED <<proxy, watcher>>
  BY DEF LspInv, LspTypeOK, SpawnFails, EndStart, NoStart
<1>2. \A e \in Editor :
        /\ editor'[e].in = editor[e].in
        /\ editor[e].pc \in {"swap", "done"} => editor'[e].pc \in {"swap", "done"}
  BY DEF LspInv, LspTypeOK, AttachState, SpawnFails, EndStart
<1>3. ASSUME NEW p \in Proxy
      PROVE  /\ Cardinality(Served(p)') <= Cardinality(Through(p)') + Restarted(p)'
             /\ \A s, r \in Restarting(p)' : s = r
  <2>1. Served(p)' = Served(p) /\ Through(p) \subseteq Through(p)'
    BY <1>1, <1>2 DEF Served, Through
  <2>2. Restarting(p)' \subseteq Restarting(p)
    BY <1>1 DEF Restarting
  <2>3. Restarted(p)' >= Restarted(p)
    BY <2>2, <1>1 DEF Restarted
  <2> QED BY <2>1, <2>2, <2>3, BudgetHeld DEF Budget, LspInv
<1> QED BY <1>3 DEF Budget

\* The one exit that is answered with a start is the first that is counted.
LEMMA BudgetAfterExit ==
  ASSUME LspInv, LspInv', Budget, NEW n \in Server, AfterExit(n)
  PROVE  Budget'
<1> USE Names
<1> DEFINE p == watcher[n].in
           again == ~proxy[p].closing /\ proxy[p].restarts = 0
<1>0. p \in Proxy
  BY InHand DEF AfterExit
<1>1. /\ \A q \in Proxy : q # p => proxy'[q].restarts = proxy[q].restarts
      /\ proxy'[p].restarts \in Nat /\ proxy[p].restarts \in Nat
      /\ proxy[p].restarts > 0 => proxy'[p].restarts > 0
  <2>1. proxy'[p].restarts = Counted(p)
    BY <1>0 DEF LspInv, LspTypeOK, ProxyState, AfterExit
  <2>2. Counted(p) \in Nat /\ proxy[p].restarts \in Nat /\ Counted(p) >= proxy[p].restarts
    BY <1>0 DEF LspInv, LspTypeOK, ProxyState, Counted
  <2>3. \A q \in Proxy : q # p => proxy'[q].restarts = proxy[q].restarts
    BY <1>0 DEF LspInv, LspTypeOK, ProxyState, AfterExit
  <2> QED BY <2>1, <2>2, <2>3
<1>2. /\ \A r \in Server : watcher'[r].in = watcher[r].in
      /\ UNCHANGED editor
  BY DEF LspInv, LspTypeOK, WatcherState, AfterExit
<1>3. /\ \A u \in Server : u # n => start'[u] = start[u]
      /\ start[n].in = Nil
      /\ ~again => start'[n] = start[n]
      /\ again => start'[n].in = p
  <2>1. start[n].in = Nil
    BY DEF LspInv, StartsSound, AfterExit
  <2> QED BY <2>1, <1>0 DEF LspInv, LspTypeOK, AfterExit, BeginStart
<1>4. ASSUME NEW q \in Proxy
      PROVE  /\ Cardinality(Served(q)') <= Cardinality(Through(q)') + Restarted(q)'
             /\ \A s, r \in Restarting(q)' : s = r
  <2>1. Served(q)' = Served(q) /\ Through(q)' = Through(q)
    BY <1>2 DEF Served, Through
  <2>2. CASE q = p /\ again
    <3>1. Restarting(q) = {}
      BY <2>2, <1>1 DEF Restarting, LspInv, StartsSound
    <3>2. Restarting(q)' = {n}
      BY <3>1, <2>2, <1>3 DEF Restarting
    <3>3. Restarted(q) = 0 /\ Restarted(q)' = 0
      BY <3>2, <2>2, <1>1 DEF Restarted
    <3> QED BY <2>1, <2>2, <3>2, <3>3, BudgetHeld DEF Budget, LspInv
  <2>3. CASE ~(q = p /\ again)
    <3>1. Restarting(q)' = Restarting(q)
      BY <2>3, <1>3 DEF Restarting
    <3>2. proxy[q].restarts > 0 => proxy'[q].restarts > 0
      BY <1>1
    <3>3. Restarted(q)' >= Restarted(q)
      BY <3>1, <3>2 DEF Restarted
    <3> QED BY <2>1, <3>1, <3>3, BudgetHeld DEF Budget, LspInv
  <2> QED BY <2>2, <2>3
<1> QED BY <1>4 DEF Budget

LEMMA BudgetStep == LspInv /\ LspInv' /\ Budget /\ [LspNext]_lvars => Budget'
<1> SUFFICES ASSUME LspInv, LspInv', Budget, [LspNext]_lvars PROVE Budget'
  OBVIOUS
<1> USE Names
<1>1. LspTypeOK /\ LspTypeOK'
  BY DEF LspInv
<1>2. ASSUME NEW e \in Editor, Lookup(e) PROVE Budget'
  <2>1. \A f \in Editor : editor[f].pc \in {"swap", "done"} => editor'[f] = editor[f]
    BY <1>1, <1>2 DEF LspTypeOK, AttachState, Lookup
  <2> QED BY <2>1, <1>1, <1>2, BudgetUntouched DEF Lookup
<1>3. ASSUME NEW e \in Editor, NoteSocket(e) PROVE Budget'
  <2>1. \A f \in Editor : editor[f].pc \in {"swap", "done"} => editor'[f] = editor[f]
    BY <1>1, <1>3 DEF LspTypeOK, AttachState, NoteSocket
  <2>2. \A s \in Server : start'[s] = start[s]
    BY <1>1, <1>3 DEF LspTypeOK, NoteSocket, BeginStart
  <2>3. \A q \in Proxy : proxy'[q].restarts = proxy[q].restarts
    BY <1>1, <1>3 DEF LspTypeOK, ProxyState, NoteSocket
  <2>4. watcher' = watcher
    BY <1>3 DEF NoteSocket
  <2> QED BY <2>1, <2>2, <2>3, <2>4, <1>1, BudgetUntouched
<1>4. ASSUME NEW e \in Editor, SwapPump(e) \/ Use(e) PROVE Budget'
  <2>1. \A f \in Editor : editor[f].pc \in {"swap", "done"} =>
                            editor'[f].pc \in {"swap", "done"} /\ editor'[f].in = editor[f].in
    BY <1>1, <1>4 DEF LspTypeOK, AttachState, SwapPump, Use
  <2>2. \A q \in Proxy : proxy'[q].restarts = proxy[q].restarts
    BY <1>1, <1>4 DEF LspTypeOK, ProxyState, SwapPump, Use
  <2>3. UNCHANGED <<watcher, start>>
    BY <1>4 DEF SwapPump, Use
  <2> QED BY <2>1, <2>2, <2>3, <1>1, BudgetUntouched
<1>5. ASSUME NEW t \in Starter, NEW n \in Server, Spawn(t, n) PROVE Budget'
  <2>1. \A s \in Server : start'[s].in = start[s].in
    BY <1>1, <1>5 DEF LspTypeOK, StartState, Spawn
  <2> QED BY <2>1, <1>1, <1>5, BudgetUntouched DEF Spawn
<1>6. ASSUME NEW t \in Starter, SetStdin(t) PROVE Budget'
  <2>1. \A s \in Server : start'[s].in = start[s].in
    BY <1>1, <1>6 DEF LspTypeOK, StartState, SetStdin
  <2>2. \A q \in Proxy : proxy'[q].restarts = proxy[q].restarts
    BY <1>1, <1>6 DEF LspTypeOK, ProxyState, SetStdin
  <2> QED BY <2>1, <2>2, <1>1, <1>6, BudgetUntouched DEF SetStdin
<1>7. ASSUME NEW n \in Server, TakeChild(n) \/ Reap(n) \/ ServerExits(n) PROVE Budget'
  <2>1. \A s \in Server : watcher'[s].in = watcher[s].in
    BY <1>1, <1>7 DEF LspTypeOK, WatcherState, TakeChild, Reap, ServerExits
  <2>2. \A q \in Proxy : proxy'[q].restarts = proxy[q].restarts
    BY <1>1, <1>7 DEF LspTypeOK, ProxyState, TakeChild, Reap, ServerExits
  <2>3. UNCHANGED <<editor, start>>
    BY <1>7 DEF TakeChild, Reap, ServerExits
  <2> QED BY <2>1, <2>2, <2>3, <1>1, BudgetUntouched
<1>8. ASSUME NEW p \in Proxy, GoesStale(p) \/ Close(p) PROVE Budget'
  <2>1. \A q \in Proxy : proxy'[q].restarts = proxy[q].restarts
    BY <1>1, <1>8 DEF LspTypeOK, ProxyState, GoesStale, Close
  <2>2. UNCHANGED <<editor, start, watcher>>
    BY <1>8 DEF GoesStale, Close
  <2> QED BY <2>1, <2>2, <1>1, BudgetUntouched
<1>9. ASSUME NEW p \in Proxy, NEW n \in Server, Kill(p, n) PROVE Budget'
  BY <1>1, <1>9, BudgetUntouched DEF Kill
<1>10. CASE UNCHANGED lvars
  BY <1>1, <1>10, BudgetUntouched DEF lvars
<1> QED
  BY <1>2, <1>3, <1>4, <1>5, <1>6, <1>7, <1>8, <1>9, <1>10, BudgetSetChild, BudgetSpawnFails,
     BudgetAfterExit
  DEF LspNext, LspInternal, CloseSession, ReapIdle, Start, Watch

\* (AfterExit's restarts, attach) A proxy's servers are the starts of its
\* attaches and one restart, however often they crash: for any number of
\* editors and servers, with any closes in between.
THEOREM ServersAreAskedFor == LspSpec => []NoRestartLoop
<1>1. LspInit => Budget
  <2> SUFFICES ASSUME LspInit, NEW p \in Proxy
               PROVE  /\ Cardinality(Served(p)) <= Cardinality(Through(p)) + Restarted(p)
                      /\ \A s, r \in Restarting(p) : s = r
    BY DEF Budget
  <2>1. Served(p) = {} /\ Restarting(p) = {}
    BY Names DEF LspInit, Served, Restarting, NoStart
  <2>2. Cardinality(Served(p)) = 0
    BY <2>1, FS_EmptySet
  <2>3. Restarted(p) \in 0..1
    BY DEF Restarted
  <2> QED BY <2>1, <2>2, <2>3, Finite
<1>2. LspInv /\ LspInv' /\ Budget /\ [LspNext]_lvars => Budget'
  BY BudgetStep
<1>3. Budget => NoRestartLoop
  <2> SUFFICES ASSUME Budget, NEW p \in Proxy
               PROVE  Cardinality(Served(p)) <= 1 + Cardinality({e \in Editor : editor[e].in = p})
    BY DEF NoRestartLoop, Served
  <2> DEFINE attached == {e \in Editor : editor[e].in = p}
  <2>1. Through(p) \subseteq attached /\ IsFiniteSet(attached)
    BY Finite, FS_Subset DEF Through
  <2>2. Cardinality(Through(p)) <= Cardinality(attached) /\ Cardinality(attached) \in Nat
    BY <2>1, FS_Subset, FS_CardinalityType
  <2>3. Restarted(p) \in 0..1
    BY DEF Restarted
  <2> HIDE DEF attached
  <2>4. Cardinality(Served(p)) <= 1 + Cardinality(attached)
    BY <2>2, <2>3, Finite DEF Budget
  <2> QED BY <2>4 DEF attached
<1> QED BY <1>1, <1>2, <1>3, LspInvariant, PTL DEF LspSpec
=============================================================================
