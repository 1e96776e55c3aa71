--------------------------- MODULE SharedWorkspace ---------------------------
(***************************************************************************)
(* Sessions that share one persistent workspace: the revision protocol     *)
(* (domain/collab.rs), the message handler and the change forwarder of     *)
(* each runtime socket (ws/runtime.rs), the source store (session.rs) and  *)
(* the client that shows the files (App.tsx, useRuntimeEvents.ts,          *)
(* useRuntimeSocket.ts, useProjectFiles.ts).                               *)
(*                                                                         *)
(* A client has one session and one socket, which stays up.  A text is     *)
(* named by the write that made it, <<client, version>>, so two texts are  *)
(* equal only if they are the same write.  A session's version check       *)
(* (assert_version) cannot fail here: a socket delivers in order and each  *)
(* client numbers its writes upwards.                                      *)
(***************************************************************************)
EXTENDS Naturals, Sequences, FiniteSets

CONSTANTS
  Client,       \* the sessions, one per connected client
  Path,         \* the file names in use
  Entry,        \* the entry file: never renamed or deleted
  Initial,      \* the files the workspace starts with
  Absent,       \* what a path without a file maps to
  None,         \* the empty Option
  Ops,          \* the kinds of write made, out of AllOps
  Early,        \* whether a user writes before the join announcement arrives
  Batching,     \* whether several events may reach a client between renders
  MaxVersion,   \* bound: a client's writes are numbered up to this version
  MaxWrites,    \* bound: writes made by all the clients together
  Backlog       \* BACKLOG: changes the broadcast channel keeps for a receiver

AllOps == {"update", "create", "rename", "delete", "reset"}

ASSUME NoneAssumption == None \notin Client /\ None \notin Nat
ASSUME FileAssumption ==
  /\ Entry \in Initial /\ Initial \subseteq Path
  /\ Absent \notin (Client \cup {None}) \X Nat
ASSUME InputAssumption ==
  Ops \subseteq AllOps /\ Early \in BOOLEAN /\ Batching \in BOOLEAN
ASSUME BoundAssumption ==
  MaxVersion \in Nat /\ MaxWrites \in Nat /\ Backlog \in Nat

VARIABLES
  revision,     \* State.revisions of the workspace
  writer,       \* State.writers: who made the last writes
  start,        \* State.writers: the revision that suffix of writes began at
  log,          \* history: the write behind each revision, and the files after it
  lock,         \* who holds the workspace's edit lock across handler steps
  stage,        \* where each session's handle_message is
  disk,         \* the source tree of the workspace
  catalog,      \* Session.snapshot.files
  conn,         \* how far each client has come in connecting
  chan,         \* changes each session's forwarder has not received
  toClient,     \* events sent to each client and not yet handled
  toServer,     \* writes sent by each client, the head being handled
  screen,       \* the client's files (filesRef)
  rev,          \* the client's revisionRef
  ver,          \* the client's versionRef
  unsaved,      \* the client's unacknowledgedRef
  remote,       \* the client's remoteEdit, recorded and not yet applied
  skipped,      \* history: files where a peer's edit was left off the screen
  clean         \* history: nothing has disturbed the client so far

store  == <<revision, writer, start, log, disk>>
server == <<lock, stage, catalog, conn, chan>>
shown  == <<screen, rev, remote, skipped>>
made   == <<ver, unsaved>>
vars   == <<store, server, toClient, toServer, shown, made, clean>>

Text    == (Client \cup {None}) \X Nat
Files   == [Path -> Text \cup {Absent}]
Heard   == Nat \cup {None}
Nothing == [path |-> None, text |-> Absent]

\* A write on its way to the server.  `seen` and `blind` are history: the files
\* the user saw when it was made, and whether it is the first write of its file
\* since a peer's edit of it was left off the screen.
Write == [op : AllOps, path : Path, to : Path, text : Text, version : Nat,
          base : Heard, seen : Files, blind : BOOLEAN]

\* What the history keeps of a revision.
Entered == [by : Client, write : Write, files : Files]

Change == [type : {"document"}, origin : Client, path : Path, text : Text,
           revision : Nat]
            \cup [type : {"files"}, origin : Client]

Event == [type : {"changed"}, path : Path, text : Text, revision : Nat]
           \cup [type : {"ack"}, revision : Nat]
           \cup [type : {"project"}, files : Files, revision : Nat]
           \cup [type : {"files"}, files : Files, version : Nat]
           \cup [type : {"conflict"}, revision : Nat]
           \cup [type : {"saved"}, version : Nat]

TypeOK ==
  /\ revision \in Nat /\ start \in Nat
  /\ writer \in Client \cup {None}
  /\ log \in Seq(Entered)
  /\ lock \in Client \cup {None}
  /\ stage \in [Client -> {"idle", "checked", "stored"}]
  /\ disk \in Files
  /\ catalog \in [Client -> Files]
  /\ conn \in [Client -> {"away", "opened", "subscribed", "joined"}]
  /\ chan \in [Client -> Seq(Change)]
  /\ toClient \in [Client -> Seq(Event)]
  /\ toServer \in [Client -> Seq(Write)]
  /\ screen \in [Client -> Files]
  /\ rev \in [Client -> Heard]
  /\ ver \in [Client -> Nat]
  /\ unsaved \in [Client -> SUBSET Write]
  /\ remote \in [Client -> [path : Path, text : Text] \cup {Nothing}]
  /\ skipped \in [Client -> SUBSET Path]
  /\ clean \in [Client -> BOOLEAN]

FirstFiles == [p \in Path |-> IF p \in Initial THEN <<None, 0>> ELSE Absent]

Init ==
  /\ revision = 0 /\ start = 0 /\ writer = None /\ log = <<>>
  /\ lock = None
  /\ stage = [c \in Client |-> "idle"]
  /\ disk = FirstFiles
  /\ catalog = [c \in Client |-> FirstFiles]
  /\ conn = [c \in Client |-> "away"]
  /\ chan = [c \in Client |-> <<>>]
  /\ toClient = [c \in Client |-> <<>>]
  /\ toServer = [c \in Client |-> <<>>]
  /\ screen = [c \in Client |-> FirstFiles]
  /\ rev = [c \in Client |-> None]
  /\ ver = [c \in Client |-> 1]
  /\ unsaved = [c \in Client |-> {}]
  /\ remote = [c \in Client |-> Nothing]
  /\ skipped = [c \in Client |-> {}]
  /\ clean = [c \in Client |-> TRUE]

-----------------------------------------------------------------------------
(* What a write does to a set of files.                                    *)

\* Whether the store takes the write; the client refuses the same ones before
\* it applies them to its own files.
Fits(w, files) ==
  CASE w.op = "update" -> files[w.path] # Absent
    [] w.op = "create" -> files[w.path] = Absent
    [] w.op = "rename" -> /\ w.path # Entry
                          /\ files[w.path] # Absent /\ files[w.to] = Absent
    [] w.op = "delete" -> w.path # Entry /\ files[w.path] # Absent
    [] w.op = "reset"  -> TRUE

\* Mutation: a delete blanks the file's entry in place of removing it.
AppliedInPlace(w, files) ==
  CASE w.op \in {"update", "create"} -> [files EXCEPT ![w.path] = w.text]
    [] w.op = "rename" -> [files EXCEPT ![w.to] = files[w.path], ![w.path] = Absent]
    [] w.op = "delete" -> [files EXCEPT ![w.path] = None]
    [] w.op = "reset"  -> [p \in Path |-> IF p = Entry THEN w.text ELSE Absent]

\* The files once the write has been made.  A reset leaves the scaffold's entry.
Applied(w, files) ==
  CASE w.op \in {"update", "create"} -> [files EXCEPT ![w.path] = w.text]
    [] w.op = "rename" -> [files EXCEPT ![w.to] = files[w.path], ![w.path] = Absent]
    [] w.op = "delete" -> [files EXCEPT ![w.path] = Absent]
    [] w.op = "reset"  -> [p \in Path |-> IF p = Entry THEN w.text ELSE Absent]

\* The paths a queued write names (item.path, item.newPath).
Named(w) ==
  CASE w.op = "reset"  -> {}
    [] w.op = "rename" -> {w.path, w.to}
    [] OTHER           -> {w.path}

-----------------------------------------------------------------------------
(* The server.                                                             *)

Send(c, events) == toClient' = [toClient EXCEPT ![c] = @ \o events]

\* A receiver that is Backlog changes behind loses its oldest one (Lagged).
Delivered(c, change) ==
  LET q == Append(chan[c], change)
  IN  CASE conn[c] \in {"away", "opened"} -> chan[c]
        [] Len(q) > Backlog               -> Tail(q)
        [] OTHER                          -> q

Loses(c) ==
  /\ conn[c] \in {"subscribed", "joined"}
  /\ Len(chan[c]) >= Backlog
  /\ Backlog > 0 => Head(chan[c]).origin # c

Broadcast(change) ==
  /\ chan' = [c \in Client |-> Delivered(c, change)]
  /\ clean' = [c \in Client |-> clean[c] /\ ~Loses(c)]

\* The HTTP request that creates the session reads the files without the lock.
Open(c) ==
  /\ conn[c] = "away"
  /\ conn' = [conn EXCEPT ![c] = "opened"]
  /\ catalog' = [catalog EXCEPT ![c] = disk]
  /\ screen' = [screen EXCEPT ![c] = disk]
  /\ UNCHANGED <<store, lock, stage, chan, toClient, toServer, rev, remote,
                 skipped, made, clean>>

\* The socket subscribes before it reads anything.
Subscribe(c) ==
  /\ conn[c] = "opened"
  /\ conn' = [conn EXCEPT ![c] = "subscribed"]
  /\ UNCHANGED <<store, lock, stage, catalog, chan, toClient, toServer, shown,
                 made, clean>>

\* Mutation: joining announces the files the session was created with.
JoinWithoutRefresh(c) ==
  /\ conn[c] = "subscribed"
  /\ lock = None
  /\ conn' = [conn EXCEPT ![c] = "joined"]
  /\ Send(c, <<[type |-> "ack", revision |-> revision],
               [type |-> "project", files |-> catalog[c], revision |-> revision]>>)
  /\ UNCHANGED <<store, lock, stage, catalog, chan, toServer, shown, made, clean>>

\* Under the lock: the revision, then the files that go with it.
Join(c) ==
  /\ conn[c] = "subscribed"
  /\ lock = None
  /\ conn' = [conn EXCEPT ![c] = "joined"]
  /\ catalog' = [catalog EXCEPT ![c] = disk]
  /\ Send(c, <<[type |-> "ack", revision |-> revision],
               [type |-> "project", files |-> disk, revision |-> revision]>>)
  /\ UNCHANGED <<store, lock, stage, chan, toServer, shown, made, clean>>

\* Mutation: the suffix of writes since `start` is taken for the session's own.
BaseOfAnyWriter(c, base) ==
  \/ base = None
  \/ base \in Nat /\ base = revision
  \/ base \in Nat /\ base < revision /\ base >= start

\* writer_base_ok: the base is current, or only this session wrote since.
WriterBaseOk(c, base) ==
  \/ base = None
  \/ base \in Nat /\ base = revision
  \/ base \in Nat /\ base < revision /\ writer = c /\ base >= start

\* Mutation: handle_message does not wait for the edit lock.
TakesUnlocked(c) ==
  /\ conn[c] = "joined" /\ stage[c] = "idle"
  /\ toServer[c] # <<>>

\* handle_message takes the lock for the write at the head of the socket.
Takes(c) ==
  /\ conn[c] = "joined" /\ stage[c] = "idle"
  /\ toServer[c] # <<>>
  /\ lock = None

Refuse(c) ==
  /\ Takes(c)
  /\ ~WriterBaseOk(c, Head(toServer[c]).base)
  /\ Send(c, <<[type |-> "conflict", revision |-> revision]>>)
  /\ toServer' = [toServer EXCEPT ![c] = Tail(@)]
  /\ clean' = [clean EXCEPT ![c] = FALSE]
  /\ UNCHANGED <<store, server, shown, made>>

\* The base is good: the catalog is read again before it is checked against.
Admit(c) ==
  /\ Takes(c)
  /\ WriterBaseOk(c, Head(toServer[c]).base)
  /\ lock' = c
  /\ stage' = [stage EXCEPT ![c] = "checked"]
  /\ catalog' = [catalog EXCEPT ![c] = disk]
  /\ UNCHANGED <<store, conn, chan, toClient, toServer, shown, made, clean>>

\* Mutation: the lock is let go of before the write is recorded.
StoreAndUnlock(c) ==
  LET w == Head(toServer[c]) IN
  /\ stage[c] = "checked"
  /\ Fits(w, catalog[c])
  /\ disk' = Applied(w, disk)
  /\ catalog' = [catalog EXCEPT ![c] = Applied(w, @)]
  /\ stage' = [stage EXCEPT ![c] = "stored"]
  /\ lock' = None
  /\ IF w.op = "update"
       THEN UNCHANGED toClient
       ELSE Send(c, <<[type |-> "files", files |-> Applied(w, catalog[c]),
                       version |-> w.version]>>)
  /\ UNCHANGED <<revision, writer, start, log, conn, chan, toServer, shown,
                 made, clean>>

\* The source tree and the catalog change; a client that changed the set of
\* files is sent the new one.
Store(c) ==
  LET w == Head(toServer[c]) IN
  /\ stage[c] = "checked"
  /\ Fits(w, catalog[c])
  /\ disk' = Applied(w, disk)
  /\ catalog' = [catalog EXCEPT ![c] = Applied(w, @)]
  /\ stage' = [stage EXCEPT ![c] = "stored"]
  /\ IF w.op = "update"
       THEN UNCHANGED toClient
       ELSE Send(c, <<[type |-> "files", files |-> Applied(w, catalog[c]),
                       version |-> w.version]>>)
  /\ UNCHANGED <<revision, writer, start, log, lock, conn, chan, toServer,
                 shown, made, clean>>

\* The store refuses: the message is dropped with an error and nothing is
\* recorded.
StoreFails(c) ==
  /\ stage[c] = "checked"
  /\ ~Fits(Head(toServer[c]), catalog[c])
  /\ stage' = [stage EXCEPT ![c] = "idle"]
  /\ lock' = None
  /\ toServer' = [toServer EXCEPT ![c] = Tail(@)]
  /\ clean' = [clean EXCEPT ![c] = FALSE]
  /\ UNCHANGED <<store, catalog, conn, chan, toClient, shown, made>>

\* advance, under the collab's own mutex.
Advance(c) ==
  /\ revision' = revision + 1
  /\ log' = Append(log, [by |-> c, write |-> Head(toServer[c]), files |-> disk])
  /\ writer' = c
  /\ start' = IF writer = c THEN start ELSE revision

\* record_edit or record_files, then the acknowledgements; the lock is dropped.
Record(c) ==
  LET w == Head(toServer[c]) IN
  /\ stage[c] = "stored"
  /\ WriterBaseOk(c, w.base)
  /\ Advance(c)
  /\ Broadcast(IF w.op = "update"
                 THEN [type |-> "document", origin |-> c, path |-> w.path,
                       text |-> w.text, revision |-> revision + 1]
                 ELSE [type |-> "files", origin |-> c])
  /\ Send(c, <<[type |-> "ack", revision |-> revision + 1],
               [type |-> "saved", version |-> w.version]>>)
  /\ stage' = [stage EXCEPT ![c] = "idle"]
  /\ lock' = None
  /\ toServer' = [toServer EXCEPT ![c] = Tail(@)]
  /\ UNCHANGED <<disk, catalog, conn, shown, made>>

\* The forwarder receives a change.
Receives(c) ==
  /\ conn[c] = "joined" /\ chan[c] # <<>>
  /\ chan' = [chan EXCEPT ![c] = Tail(@)]

\* Its own echo is skipped.
ForwardEcho(c) ==
  /\ Receives(c)
  /\ Head(chan[c]).origin = c
  /\ UNCHANGED <<store, lock, stage, catalog, conn, toClient, toServer, shown,
                 made, clean>>

\* A peer's edit goes out as it was recorded, without the lock.
ForwardDocument(c) ==
  LET change == Head(chan[c]) IN
  /\ Receives(c)
  /\ change.origin # c /\ change.type = "document"
  /\ Send(c, <<[type |-> "changed", path |-> change.path, text |-> change.text,
                revision |-> change.revision]>>)
  /\ UNCHANGED <<store, lock, stage, catalog, conn, toServer, shown, made, clean>>

\* A peer's file operation goes out as the files and the revision of now, read
\* under the lock.
ForwardFiles(c) ==
  /\ Receives(c)
  /\ Head(chan[c]).origin # c /\ Head(chan[c]).type = "files"
  /\ lock = None
  /\ catalog' = [catalog EXCEPT ![c] = disk]
  /\ Send(c, <<[type |-> "project", files |-> disk, revision |-> revision]>>)
  /\ UNCHANGED <<store, lock, stage, conn, toServer, shown, made, clean>>

Handle(c) == Refuse(c) \/ Admit(c) \/ Store(c) \/ StoreFails(c) \/ Record(c)
Forward(c) == ForwardEcho(c) \/ ForwardDocument(c) \/ ForwardFiles(c)
Connect(c) == Open(c) \/ Subscribe(c) \/ Join(c)

-----------------------------------------------------------------------------
(* The client.                                                             *)

\* The shell has applied what it was given, unless events may be batched.
Rendered(c) == Batching \/ remote[c] = Nothing

\* A write overruns what the client cannot see yet: a peer's edit that is not
\* rendered, the files its own reset will bring, or the files of a revision it
\* has heard (joining announces the revision first).
Overruns(c) ==
  \/ remote[c] # Nothing
  \/ \E w \in unsaved[c] : w.op = "reset"
  \/ \E i \in DOMAIN toClient[c] :
       toClient[c][i].type = "project" /\ toClient[c][i].revision = rev[c]

\* The client makes a write: applied to its own files at once (a reset is not),
\* numbered, given the revision last heard, remembered and sent.
Make(c, op, p, to) ==
  LET w == [op |-> op, path |-> p, to |-> to, text |-> <<c, ver[c] + 1>>,
            version |-> ver[c] + 1, base |-> rev[c], seen |-> screen[c],
            blind |-> p \in skipped[c]]
  IN
  /\ op \in Ops
  /\ conn[c] # "away" /\ Rendered(c)
  /\ Early \/ rev[c] # None
  /\ ver[c] < MaxVersion
  /\ Fits(w, screen[c])
  /\ ver' = [ver EXCEPT ![c] = w.version]
  /\ screen' = [screen EXCEPT ![c] = IF op = "reset" THEN @ ELSE Applied(w, @)]
  /\ unsaved' = [unsaved EXCEPT ![c] = @ \cup {w}]
  /\ toServer' = [toServer EXCEPT ![c] = Append(@, w)]
  /\ skipped' = [skipped EXCEPT ![c] = @ \ {p}]
  /\ clean' = [clean EXCEPT ![c] = @ /\ rev[c] # None /\ ~Overruns(c)]
  /\ UNCHANGED <<store, server, toClient, rev, remote>>

Update(c) == \E p \in Path : Make(c, "update", p, p)
Create(c) == \E p \in Path : Make(c, "create", p, p)
Rename(c) == \E p, to \in Path : Make(c, "rename", p, to)
Delete(c) == \E p \in Path : Make(c, "delete", p, p)
Reset(c)  == Make(c, "reset", Entry, Entry)

\* An event is handled in the order it was sent.
NextEvent(c) ==
  /\ toClient[c] # <<>> /\ Rendered(c)
  /\ toClient' = [toClient EXCEPT ![c] = Tail(@)]

\* Mutation: no event is too old.
NeverStale(c, event) == FALSE

\* Older than what the client has heard: dropped.
Stale(c, event) == rev[c] # None /\ event.revision < rev[c]

HearStale(c) ==
  LET event == Head(toClient[c]) IN
  /\ NextEvent(c)
  /\ event.type \in {"changed", "ack", "project"} /\ Stale(c, event)
  /\ UNCHANGED <<store, server, toServer, shown, made, clean>>

HearRevision(c) ==
  LET event == Head(toClient[c]) IN
  /\ NextEvent(c)
  /\ \/ event.type = "ack" /\ ~Stale(c, event)
     \/ event.type = "conflict"
  /\ rev' = [rev EXCEPT ![c] = event.revision]
  /\ UNCHANGED <<store, server, toServer, screen, remote, skipped, made, clean>>

\* A peer's edit is recorded for the shell; one the shell has not applied yet
\* is overwritten.  One the client's files have brought before is not stale,
\* and may put back a text the user has written over since.
HearChanged(c) ==
  LET event == Head(toClient[c]) IN
  /\ NextEvent(c)
  /\ event.type = "changed" /\ ~Stale(c, event)
  /\ rev' = [rev EXCEPT ![c] = event.revision]
  /\ remote' = [remote EXCEPT ![c] = [path |-> event.path, text |-> event.text]]
  /\ clean' = [clean EXCEPT ![c] =
       /\ @ /\ remote[c] = Nothing
       /\ event.revision = rev[c] => screen[c][event.path] \in {event.text, Absent}]
  /\ UNCHANGED <<store, server, toServer, screen, skipped, made>>

\* Mutation: a peer's files replace unsaved ones too.
HearProjectUnmerged(c) ==
  LET event == Head(toClient[c]) IN
  /\ NextEvent(c)
  /\ event.type = "project" /\ ~Stale(c, event)
  /\ rev' = [rev EXCEPT ![c] = event.revision]
  /\ screen' = [screen EXCEPT ![c] = event.files]
  /\ skipped' = [skipped EXCEPT ![c] = {}]
  /\ clean' = [clean EXCEPT ![c] = @ /\ remote[c] = Nothing]
  /\ UNCHANGED <<store, server, toServer, remote, made>>

\* The workspace's files replace the client's own, except where it has writes
\* the server has not acknowledged.
HearProject(c) ==
  LET event == Head(toClient[c])
      dirty == UNION {Named(w) : w \in unsaved[c]}
  IN
  /\ NextEvent(c)
  /\ event.type = "project" /\ ~Stale(c, event)
  /\ rev' = [rev EXCEPT ![c] = event.revision]
  /\ screen' = [screen EXCEPT ![c] =
       [p \in Path |-> IF p \in dirty THEN @[p] ELSE event.files[p]]]
  /\ skipped' = [skipped EXCEPT ![c] = @ \cap dirty]
  /\ clean' = [clean EXCEPT ![c] = @ /\ remote[c] = Nothing]
  /\ UNCHANGED <<store, server, toServer, remote, made>>

\* Mutation: the answer to a file operation is taken whatever was written since.
HearFilesOfAnyVersion(c) ==
  LET event == Head(toClient[c]) IN
  /\ NextEvent(c)
  /\ event.type = "files"
  /\ screen' = [screen EXCEPT ![c] = event.files]
  /\ skipped' = [skipped EXCEPT ![c] = {}]
  /\ clean' = [clean EXCEPT ![c] = @ /\ remote[c] = Nothing]
  /\ UNCHANGED <<store, server, toServer, rev, remote, made>>

\* The answer to the client's own file operation, if it is its latest write.
HearFiles(c) ==
  LET event == Head(toClient[c]) IN
  /\ NextEvent(c)
  /\ event.type = "files"
  /\ IF event.version = ver[c]
       THEN /\ screen' = [screen EXCEPT ![c] = event.files]
            /\ skipped' = [skipped EXCEPT ![c] = {}]
       ELSE UNCHANGED <<screen, skipped>>
  /\ clean' = [clean EXCEPT ![c] = @ /\ remote[c] = Nothing]
  /\ UNCHANGED <<store, server, toServer, rev, remote, made>>

\* The write is saved, and with an update the earlier ones of its file.
HearSaved(c) ==
  LET event == Head(toClient[c])
      saved == {w \in unsaved[c] : w.version = event.version}
      older(w) == \E s \in saved : /\ w.version < s.version /\ w.path = s.path
                                   /\ w.op = "update" /\ s.op = "update"
  IN
  /\ NextEvent(c)
  /\ event.type = "saved"
  /\ unsaved' = [unsaved EXCEPT ![c] = {w \in @ : w \notin saved /\ ~older(w)}]
  /\ UNCHANGED <<store, server, toServer, shown, ver, clean>>

\* The shell applies a peer's edit to the file, if there is one.
ShowRemote(c) ==
  LET p == remote[c].path IN
  /\ remote[c] # Nothing
  /\ remote' = [remote EXCEPT ![c] = Nothing]
  /\ screen' = [screen EXCEPT ![c][p] = IF @ = Absent THEN Absent ELSE remote[c].text]
  /\ skipped' = [skipped EXCEPT ![c] = @ \ {p}]
  /\ UNCHANGED <<store, server, toClient, toServer, rev, made, clean>>

\* Or leaves it out, because the caret is in that file.
SkipRemote(c) ==
  LET p == remote[c].path IN
  /\ remote[c] # Nothing /\ screen[c][p] # Absent
  /\ remote' = [remote EXCEPT ![c] = Nothing]
  /\ IF screen[c][p] = remote[c].text
       THEN UNCHANGED <<skipped, clean>>
       ELSE /\ skipped' = [skipped EXCEPT ![c] = @ \cup {p}]
            /\ clean' = [clean EXCEPT ![c] = FALSE]
  /\ UNCHANGED <<store, server, toClient, toServer, screen, rev, made>>

\* Bound: the users make no more than MaxWrites writes (versions start at 1).
WritesMade == UNION {{c} \X (2..ver[c]) : c \in Client}

UserWrites(c) ==
  /\ Cardinality(WritesMade) < MaxWrites
  /\ Update(c) \/ Create(c) \/ Rename(c) \/ Delete(c) \/ Reset(c)

Hear(c) ==
  \/ HearStale(c) \/ HearRevision(c) \/ HearChanged(c)
  \/ HearProject(c) \/ HearFiles(c) \/ HearSaved(c)

Next == \E c \in Client :
  \/ Connect(c) \/ Handle(c) \/ Forward(c)
  \/ UserWrites(c) \/ Hear(c) \/ ShowRemote(c) \/ SkipRemote(c)

Spec == Init /\ [][Next]_vars

-----------------------------------------------------------------------------
(* Properties.                                                             *)

Admitted(c) == stage[c] # "idle"

\* docs/protocols.md: "Consecutive writes from one session may share the last
\* acknowledged base revision; they cannot cross an intervening peer write."
\* From its check until it is recorded, every revision after the base of the
\* write being handled is the writer's own.
NoPeerCrossed ==
  \A c \in Client : Admitted(c) /\ Head(toServer[c]).base # None =>
    \A r \in 1..revision : r > Head(toServer[c]).base => log[r].by = c

\* Nobody else is between check and record, so the second check in `advance`
\* passes: a stored write is always recorded and announced ("Workspace revision
\* changed while locked" is never said).
StoredIsRecorded ==
  \A c \in Client : stage[c] = "stored" => WriterBaseOk(c, Head(toServer[c]).base)

\* What the revisions are for: the write of an undisturbed client is made to the
\* very files its user saw when making it.
NoBlindOverwrite ==
  \A c \in Client :
    stage[c] = "checked" /\ clean[c] => disk = Head(toServer[c]).seen

\* Nothing is on its way to or from the client.
Quiet(c) ==
  /\ conn[c] = "joined" /\ lock = None /\ remote[c] = Nothing
  /\ chan[c] = <<>> /\ toClient[c] = <<>> /\ toServer[c] = <<>>

\* The lock, the order of the outbox, the revision gate and the merge of
\* unsaved files together: once all has been delivered, an undisturbed client
\* shows what is on disk, and has nothing left unsaved.
UndisturbedConverges ==
  \A c \in Client : Quiet(c) /\ clean[c] => screen[c] = disk /\ unsaved[c] = {}

\* A client's revision never moves back, though conflicts are taken as they
\* come and peers' edits are forwarded without the lock.
RevisionNeverFalls ==
  [][\A c \in Client : rev[c] # None => rev'[c] # None /\ rev'[c] >= rev[c]]_vars

\* App.tsx, of an edit left out because the caret is in its file: "their next
\* write is refused by the server anyway".
NextWriteIsRefused ==
  \A c \in Client : Admitted(c) => ~Head(toServer[c]).blind

\* collab.rs, WorkspaceChange::Document: "One session accepted an edit; every
\* other session in the workspace should show it" -- unless the user's own text
\* stands in that file, or the user has been told.
EveryEditIsShown ==
  \A c \in Client, p \in Path :
    Quiet(c) /\ disk[p] # Absent /\ disk[p][1] # c /\ p \notin skipped[c] =>
      \/ screen[c][p] = disk[p]
      \/ screen[c][p] # Absent /\ screen[c][p][1] = c
=============================================================================
