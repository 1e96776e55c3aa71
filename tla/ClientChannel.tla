---------------------------- MODULE ClientChannel ----------------------------
(***************************************************************************)
(* The browser's side of the runtime channel: what it queues while the     *)
(* socket is away, what it holds as unacknowledged, what it shows, and how *)
(* it replaces a session that has expired                                  *)
(* (apps/web/src/features/runtime/useRuntimeSocket.ts, useRuntimeEvents.ts *)
(* and features/session/useSessionLifecycle.ts).  A socket may close with  *)
(* any suffix of what was sent to it unread.  Other devices write to the   *)
(* workspace only while this one has no session; edits that meet are the   *)
(* subject of SharedWorkspace.  A text is named by the version of the edit *)
(* that wrote it, and a new file's by 0.                                   *)
(***************************************************************************)
EXTENDS Naturals, Sequences, FiniteSets

CONSTANTS
  Path, Entry,
  Initial,     \* the files a session starts with: every language's entry
  Absent,
  Foreign,     \* another device's text
  Ops,         \* bound: the versions at which the user makes each operation
  Big,         \* versions whose text exceeds MAX_SOURCE_BYTES
  QueueLimit,  \* QUEUE_LIMIT: 256 in the code
  MaxVersion   \* bound on versionRef

\* A workspace starts with its entry file, and there is room in the queue.
ClientConstants ==
  /\ Initial \subseteq Path /\ Entry \in Initial
  /\ Absent \notin Nat /\ Foreign \notin Nat /\ Absent # Foreign
  /\ QueueLimit \in Nat \ {0} /\ MaxVersion \in Nat \ {0}
ASSUME ClientAssumption == ClientConstants

VARIABLES
  shared,      \* the session has a workspace
  files,       \* filesRef: the screen
  version,     \* versionRef
  unacked,     \* unacknowledgedRef
  pending,     \* pendingRef
  socket,      \* "connecting", "open" or "closed" (the retry timer is armed)
  retried,     \* retryRef > 0
  recovery,    \* recoverSession, the files it has captured and their version
  up, down,    \* in flight on this socket
  server,      \* the session at the server
  carried,     \* history: updates that were unacknowledged when their file was renamed
  overtaken    \* history: what the session lacks is no longer held as unacknowledged

cvars == <<shared, files, version, unacked, pending, socket, retried,
           recovery, up, down, server, carried, overtaken>>

Text  == 0..MaxVersion \cup {Foreign}
Files == [Path -> Text \cup {Absent}]
Started  == [p \in Path |-> IF p \in Initial THEN 0 ELSE Absent]
Scaffold == [p \in Path |-> IF p = Entry THEN 0 ELSE Absent]
NoRecovery == [pc |-> "no", unsaved |-> FALSE, files |-> Started, version |-> 1]
Messages ==
  [type : {"update", "create", "rename", "delete", "reset"},
   path : Path, to : Path, text : Text, version : 1..MaxVersion]
Events ==
  [type : {"saved"}, version : 1..MaxVersion]
    \cup [type : {"files"}, version : 1..MaxVersion, files : Files, reset : BOOLEAN]
    \cup [type : {"project"}, files : Files]

ClientTypeOK ==
  /\ shared \in BOOLEAN /\ files \in Files /\ version \in 1..MaxVersion
  /\ unacked \subseteq Messages
  /\ pending \in Seq(Messages) /\ Len(pending) <= QueueLimit
  /\ socket \in {"connecting", "open", "closed"} /\ retried \in BOOLEAN
  /\ recovery \in [pc : {"no", "copy", "create"}, unsaved : BOOLEAN, files : Files,
                   version : 1..MaxVersion]
  /\ up \in Seq(Messages) /\ down \in Seq(Events)
  /\ server \in [live : BOOLEAN, version : 1..MaxVersion, files : Files, initial : Text]
  /\ carried \subseteq Messages /\ overtaken \in BOOLEAN

ClientInit ==
  /\ shared \in BOOLEAN
  /\ files = Started /\ version = 1
  /\ unacked = {} /\ pending = <<>>
  /\ socket = "connecting" /\ retried = FALSE
  /\ recovery = NoRecovery
  /\ up = <<>> /\ down = <<>>
  /\ server = [live |-> TRUE, version |-> 1, files |-> Started, initial |-> 0]
  /\ carried = {} /\ overtaken = FALSE

Message(type, path, to, text) ==
  [type |-> type, path |-> path, to |-> to, text |-> text, version |-> version + 1]
Removed(q, i) == SubSeq(q, 1, i - 1) \o SubSeq(q, i + 1, Len(q))

(***************************************************************************)
(* sendRuntime.                                                            *)
(***************************************************************************)
Oversized(m) == m.type = "update" /\ m.text \in Big

\* The queued update m replaces: the last of the same file, in the suffix of updates.
Replaced(q, m) ==
  {i \in 1..Len(q) :
     /\ m.type = "update" /\ q[i].path = m.path
     /\ \A j \in i..Len(q) : q[j].type = "update" /\ (j > i => q[j].path # m.path)}

\* At the limit the oldest message goes.
Queued(q, m) ==
  LET rest == IF Replaced(q, m) = {} THEN q
              ELSE Removed(q, CHOOSE i \in Replaced(q, m) : TRUE) IN
  Append(IF Len(rest) >= QueueLimit THEN Tail(rest) ELSE rest, m)

Sends(m) ==
  LET queues   == ~Oversized(m) /\ socket # "open"
      replaced == IF queues THEN {pending[i] : i \in Replaced(pending, m)} ELSE {} IN
  /\ version' = m.version
  /\ carried' = carried \cup {u \in unacked : m.type = "rename" /\ u.type = "update" /\ u.path = m.path}
  /\ unacked' = (unacked \ replaced) \cup {m}
  /\ pending' = IF queues THEN Queued(pending, m) ELSE pending
  /\ up' = IF ~Oversized(m) /\ socket = "open" THEN Append(up, m) ELSE up
  /\ UNCHANGED <<shared, socket, retried, recovery, down, server, overtaken>>

May(op) == version < MaxVersion /\ version + 1 \in Ops[op]

\* The editor is read-only while a session is being replaced; the file tree is not.
Edit(p) ==
  /\ May("update") /\ recovery.pc = "no" /\ files[p] # Absent
  /\ files' = [files EXCEPT ![p] = version + 1]
  /\ Sends(Message("update", p, p, version + 1))

Create(p) ==
  /\ May("create") /\ files[p] = Absent
  /\ files' = [files EXCEPT ![p] = 0]
  /\ Sends(Message("create", p, p, 0))

\* The message names the two files only; its text here is what the screen moves.
Rename(p, q) ==
  /\ May("rename") /\ p # Entry /\ files[p] # Absent /\ files[q] = Absent
  /\ files' = [files EXCEPT ![p] = Absent, ![q] = files[p]]
  /\ Sends(Message("rename", p, q, files[p]))

Delete(p) ==
  /\ May("delete") /\ p # Entry /\ files[p] # Absent
  /\ files' = [files EXCEPT ![p] = Absent]
  /\ Sends(Message("delete", p, p, 0))

\* The screen waits for the server's catalog.
Reset ==
  /\ May("reset") /\ files' = files
  /\ Sends(Message("reset", Entry, Entry, 0))

(***************************************************************************)
(* The session at the server: one message of the socket at a time.         *)
(***************************************************************************)
Refused(m) ==
  \/ m.version <= server.version
  \/ m.type \in {"update", "rename", "delete"} /\ server.files[m.path] = Absent
  \/ m.type = "create" /\ server.files[m.path] # Absent
  \/ m.type = "rename" /\ server.files[m.to] # Absent

Applied(m) ==
  CASE m.type \in {"update", "create"} -> [server.files EXCEPT ![m.path] = m.text]
    [] m.type = "rename" -> [server.files EXCEPT ![m.path] = Absent, ![m.to] = server.files[m.path]]
    [] m.type = "delete" -> [server.files EXCEPT ![m.path] = Absent]
    [] m.type = "reset"  -> Scaffold

\* Only a change to the set of files is answered with the catalog.
ServerHandles ==
  /\ server.live /\ up # <<>>
  /\ up' = Tail(up)
  /\ LET m == Head(up)
         saved == [type |-> "saved", version |-> m.version]
         catalog == [type |-> "files", version |-> m.version, files |-> Applied(m),
                     reset |-> m.type = "reset"] IN
     IF Refused(m) THEN UNCHANGED <<server, down>>
     ELSE /\ server' = [server EXCEPT !.version = m.version, !.files = Applied(m)]
          /\ down' = down \o (IF m.type = "update" THEN <<saved>> ELSE <<catalog, saved>>)
  /\ UNCHANGED <<shared, files, version, unacked, pending, socket, retried, recovery, carried, overtaken>>

(***************************************************************************)
(* What the client makes of the answers.                                   *)
(***************************************************************************)
\* Mutation: an acknowledgement settles everything before it.
SettledUpTo(v) == {m \in unacked : m.version <= v}

\* An acknowledged update also settles the older updates of its file.
Settled(v) ==
  {m \in unacked :
     \/ m.version = v
     \/ /\ m.type = "update" /\ m.version < v
        /\ \E a \in unacked : a.version = v /\ a.type = "update" /\ a.path = m.path}

Dirty == {m.path : m \in {x \in unacked : x.type # "reset"}}
           \cup {m.to : m \in {x \in unacked : x.type = "rename"}}

Receive ==
  /\ socket = "open" /\ down # <<>>
  /\ down' = Tail(down)
  /\ LET e == Head(down) IN
     \/ /\ e.type = "saved"
        /\ unacked' = unacked \ Settled(e.version)
        /\ overtaken' = (overtaken \/ \E m \in carried \cap Settled(e.version) : m.version # e.version)
        /\ UNCHANGED files
     \/ /\ e.type = "files"
        /\ files' = IF e.version = version THEN e.files ELSE files
        /\ overtaken' = (overtaken \/ (e.reset /\ e.version # version))
        /\ UNCHANGED unacked
     \/ /\ e.type = "project"
        /\ files' = [p \in Path |-> IF p \in Dirty THEN files[p] ELSE e.files[p]]
        /\ UNCHANGED <<unacked, overtaken>>
  /\ UNCHANGED <<shared, version, pending, socket, retried, recovery, up, server, carried>>

(***************************************************************************)
(* Connections.                                                            *)
(***************************************************************************)
\* On a scratch session the screen's entry file is pushed after the queue.
PushesEntry ==
  /\ ~shared
  /\ \A i \in 1..Len(pending) : ~(pending[i].type = "update" /\ pending[i].path = Entry)
  /\ retried \/ files[Entry] # server.initial

\* Mutation: the entry file goes ahead of the queue.
ReplayedAfter(push) == IF Oversized(push) THEN pending ELSE <<push>> \o pending

Replayed(push) == IF Oversized(push) THEN pending ELSE Append(pending, push)

Open ==
  /\ socket = "connecting" /\ server.live
  /\ socket' = "open" /\ retried' = FALSE /\ pending' = <<>>
  /\ LET push == Message("update", Entry, Entry, files[Entry]) IN
     IF PushesEntry
     THEN /\ version < MaxVersion
          /\ version' = version + 1
          /\ unacked' = unacked \cup {push}
          /\ up' = Replayed(push)
     ELSE up' = pending /\ UNCHANGED <<version, unacked>>
  /\ down' = IF shared THEN <<[type |-> "project", files |-> server.files]>> ELSE <<>>
  /\ UNCHANGED <<shared, files, recovery, server, carried, overtaken>>

\* The close event; what was in flight is lost.
Close ==
  /\ socket \in {"connecting", "open"}
  /\ socket' = "closed" /\ retried' = TRUE
  /\ up' = <<>> /\ down' = <<>>
  /\ UNCHANGED <<shared, files, version, unacked, pending, recovery, server, carried, overtaken>>

Reconnects == socket' = "connecting" /\ UNCHANGED <<retried, pending, up, down>>

\* The retry timer asks for the session; it is there, or nobody answers.
Retry ==
  /\ socket = "closed" /\ recovery.pc = "no"
  /\ Reconnects
  /\ UNCHANGED <<shared, files, version, unacked, recovery, server, carried, overtaken>>

\* The session has outlived its grace, or the server has restarted.
Expire ==
  /\ server.live /\ socket # "open"
  /\ server' = [server EXCEPT !.live = FALSE]
  /\ UNCHANGED <<shared, files, version, unacked, pending, socket, retried, recovery, up, down, carried, overtaken>>

ForeignWrite ==
  /\ shared /\ ~server.live
  /\ server' = [server EXCEPT !.files[Entry] = Foreign]
  /\ UNCHANGED <<shared, files, version, unacked, pending, socket, retried, recovery, up, down, carried, overtaken>>

(***************************************************************************)
(* recoverSession.                                                         *)
(***************************************************************************)
CopiesFirst(unsaved) == shared /\ unsaved

\* Mutation: unsaved is what is still queued.
RecoverWhatIsQueued ==
  /\ socket = "closed" /\ recovery.pc = "no" /\ ~server.live
  /\ LET unsaved == pending # <<>> IN
     recovery' = [pc |-> IF CopiesFirst(unsaved) THEN "copy" ELSE "create",
                  unsaved |-> unsaved, files |-> files, version |-> version]
  /\ UNCHANGED <<shared, files, version, unacked, pending, socket, retried, up, down, server, carried, overtaken>>

\* The timer is told 404.
Recover ==
  /\ socket = "closed" /\ recovery.pc = "no" /\ ~server.live
  /\ LET unsaved == unacked # {} IN
     recovery' = [pc |-> IF CopiesFirst(unsaved) THEN "copy" ELSE "create",
                  unsaved |-> unsaved, files |-> files, version |-> version]
  /\ UNCHANGED <<shared, files, version, unacked, pending, socket, retried, up, down, server, carried, overtaken>>

CopySaved ==
  /\ recovery.pc = "copy"
  /\ recovery' = [recovery EXCEPT !.pc = "create"]
  /\ UNCHANGED <<shared, files, version, unacked, pending, socket, retried, up, down, server, carried, overtaken>>

\* Either request fails: the mirror is left as it is and the socket is retried.
RecoveryFails ==
  /\ recovery.pc # "no" /\ recovery' = NoRecovery
  /\ Reconnects
  /\ UNCHANGED <<shared, files, version, unacked, server, carried, overtaken>>

\* What the new session holds: the copy, the files sent with the request,
\* or the workspace as it is now.
Restored == IF shared /\ ~CopiesFirst(recovery.unsaved) THEN server.files ELSE recovery.files

Adopt ==
  /\ recovery.pc = "create"
  /\ recovery' = NoRecovery
  /\ files' = Restored
  /\ server' = [live |-> TRUE, version |-> 1, files |-> Restored, initial |-> Restored[Entry]]
  /\ version' = 1 /\ unacked' = {} /\ pending' = <<>>
  /\ socket' = "connecting" /\ retried' = FALSE
  /\ carried' = {} /\ overtaken' = FALSE
  /\ UNCHANGED <<shared, up, down>>

UserActs ==
  \/ \E p \in Path : Edit(p) \/ Create(p) \/ Delete(p) \/ \E q \in Path : Rename(p, q)
  \/ Reset

ClientNext ==
  \/ UserActs
  \/ ServerHandles \/ Receive
  \/ Open \/ Close \/ Retry
  \/ Expire \/ ForeignWrite
  \/ Recover \/ CopySaved \/ RecoveryFails \/ Adopt

ClientSpec == ClientInit /\ [][ClientNext]_cvars

(***************************************************************************)
(* Properties.                                                             *)
(***************************************************************************)
\* Over any sequence of disconnections, coalescing, replays and entry pushes,
\* what a socket carries is in ascending version order and ahead of the
\* session's version: the server never refuses the user's work as regressive.
SentInOrder ==
  server.live =>
    /\ \A i \in 1..Len(up) : up[i].version > server.version
    /\ \A i, j \in 1..Len(up) : i < j => up[i].version < up[j].version

\* With nothing under way, a screen that differs from the session has
\* something unacknowledged, which is what recoverSession takes to mean
\* unsaved work.  (Not so when an edit overtakes a reset's catalog, or when an
\* update settles one that was lost and whose text a rename has since moved.)
UnsavedIsKnown ==
  (/\ server.live /\ socket = "open" /\ up = <<>> /\ down = <<>>
   /\ unacked = {} /\ ~overtaken) => files = server.files

\* Unless the file tree was used meanwhile, a recovery leaves on screen, and
\* gives to the new session, everything that had not been acknowledged.
RecoveryKeepsTheWork ==
  [][(/\ recovery.pc = "create" /\ recovery'.pc = "no" /\ server'.live
      /\ version = recovery.version /\ (unacked # {} \/ ~shared))
       => files' = files /\ server'.files = files]_cvars

\* useRuntimeSocket.ts:221 merges the join's catalog so that it "must not
\* throw away our unconfirmed local work": the last unacknowledged edit of a
\* file is on screen.
UnconfirmedIsShown ==
  \A m \in unacked :
    (m.type = "update" /\ \A x \in unacked : x.path = m.path => x.version <= m.version)
      => files[m.path] = m.text
=============================================================================
