---------------------------- MODULE ClientProofs ----------------------------
(***************************************************************************)
(* What a client promises for any files, any limit of the queue and any    *)
(* sequence of disconnections.  First the order of what it sends: versions *)
(* are counted up by the client alone, the queue is filled only while no   *)
(* socket is open and is emptied into the next one (Ordered, Exclusive),   *)
(* and what coalescing and the limit take out leaves the rest in order.    *)
(* Then that it knows of its unsaved work (UnsavedInv), and that a         *)
(* recovery keeps that work (Captured).                                    *)
(***************************************************************************)
EXTENDS ClientChannel, SequenceTheorems, WellFoundedInduction, TLAPS

\* An entry file is pushed as it is on screen.
Content == Text \cup {Absent}
Sent ==
  [type : {"update", "create", "rename", "delete", "reset"},
   path : Path, to : Path, text : Content, version : Nat]
Heard ==
  [type : {"saved"}, version : Nat]
    \cup [type : {"files"}, version : Nat, files : Files, reset : BOOLEAN]
    \cup [type : {"project"}, files : Files]

Typed ==
  /\ files \in Files /\ version \in Nat
  /\ pending \in Seq(Sent) /\ up \in Seq(Sent) /\ down \in Seq(Heard)
  /\ socket \in {"connecting", "open", "closed"}
  /\ recovery \in [pc : {"no", "copy", "create"}, unsaved : BOOLEAN, files : Files, version : Nat]
  /\ server \in [live : BOOLEAN, version : Nat, files : Files, initial : Content]

\* Ascending, above what the server has and up to what the client has reached.
Ordered(q, low, high) ==
  /\ \A i \in 1..Len(q) : low < q[i].version /\ q[i].version <= high
  /\ \A i, j \in 1..Len(q) : i < j => q[i].version < q[j].version

\* The queue and the wire are not used at the same time.
Exclusive ==
  /\ socket # "open" => up = <<>>
  /\ socket = "open" => pending = <<>>
  /\ recovery.pc # "no" => socket = "closed"

Numbered ==
  /\ server.version <= version
  /\ Ordered(pending, server.version, version)
  /\ Ordered(up, server.version, version)

ClientInv == Typed /\ Exclusive /\ Numbered

-----------------------------------------------------------------------------
(* Sequences of messages.                                                  *)

LEMMA OrderedEmpty == ASSUME NEW low, NEW high PROVE Ordered(<<>>, low, high)
BY DEF Ordered

LEMMA VersionsAreNumbers ==
  ASSUME NEW q \in Seq(Sent)
  PROVE  \A i \in 1..Len(q) : q[i].version \in Nat
<1> SUFFICES ASSUME NEW i \in 1..Len(q) PROVE q[i].version \in Nat
  OBVIOUS
<1>1. q[i] \in Sent
  BY ElementOfSeq
<1> QED BY <1>1 DEF Sent

LEMMA OrderedHigher ==
  ASSUME NEW q \in Seq(Sent), NEW low \in Nat, NEW high \in Nat, NEW top \in Nat,
         high <= top, Ordered(q, low, high)
  PROVE  Ordered(q, low, top)
<1>1. \A i \in 1..Len(q) : q[i].version \in Nat
  BY VersionsAreNumbers
<1> QED BY <1>1 DEF Ordered

\* The next message is above all that are queued.
LEMMA OrderedAppend ==
  ASSUME NEW q \in Seq(Sent), NEW m \in Sent, NEW low \in Nat, NEW high \in Nat,
         Ordered(q, low, high), low <= high, m.version = high + 1
  PROVE  Append(q, m) \in Seq(Sent) /\ Ordered(Append(q, m), low, high + 1)
<1> DEFINE s == Append(q, m)
<1>1. /\ s \in Seq(Sent) /\ Len(s) = Len(q) + 1 /\ Len(q) \in Nat
      /\ \A i \in 1..Len(q) : s[i] = q[i]
      /\ s[Len(q) + 1] = m
  BY AppendProperties, LenProperties
<1>2. \A i \in 1..Len(q) : q[i].version \in Nat
  BY VersionsAreNumbers
<1> HIDE DEF s
<1> QED BY <1>1, <1>2 DEF Ordered

\* The first message taken off, and seen by the server.
LEMMA OrderedTail ==
  ASSUME NEW q \in Seq(Sent), NEW low \in Nat, NEW high \in Nat,
         Ordered(q, low, high), q # <<>>
  PROVE  /\ Head(q) \in Sent /\ Tail(q) \in Seq(Sent)
         /\ low < Head(q).version /\ Head(q).version <= high
         /\ Ordered(Tail(q), low, high) /\ Ordered(Tail(q), Head(q).version, high)
<1> DEFINE t == Tail(q)
<1>1. /\ Head(q) \in Sent /\ t \in Seq(Sent) /\ Len(t) = Len(q) - 1
      /\ \A i \in 1..Len(t) : t[i] = q[i + 1]
  BY HeadTailProperties
<1>2. Len(q) \in Nat /\ Len(q) >= 1 /\ Head(q) = q[1]
  BY EmptySeq, LenProperties
<1>3. \A i \in 1..Len(q) : q[i].version \in Nat
  BY VersionsAreNumbers
<1> HIDE DEF t
<1>4. \A i \in 1..Len(t) : i \in 1..Len(q) /\ i + 1 \in 1..Len(q) /\ t[i] = q[i + 1]
  BY <1>1, <1>2
<1>5. \A i \in 1..Len(t) : q[1].version < t[i].version
  BY <1>2, <1>4 DEF Ordered
<1>6. \A i \in 1..Len(t) : low < t[i].version /\ t[i].version <= high
  BY <1>4 DEF Ordered
<1>7. \A i, j \in 1..Len(t) : i < j => t[i].version < t[j].version
  <2> SUFFICES ASSUME NEW i \in 1..Len(t), NEW j \in 1..Len(t), i < j
               PROVE  t[i].version < t[j].version
    OBVIOUS
  <2>1. i + 1 \in 1..Len(q) /\ j + 1 \in 1..Len(q) /\ i + 1 < j + 1
    BY <1>4, <1>2
  <2> QED BY <2>1, <1>4 DEF Ordered
<1>8. 1 \in 1..Len(q)
  BY <1>2
<1> QED BY <1>1, <1>2, <1>5, <1>6, <1>7, <1>8 DEF Ordered, t

\* A message taken out of the middle.
LEMMA RemovedIs ==
  ASSUME NEW q \in Seq(Sent), NEW k \in 1..Len(q)
  PROVE  /\ Removed(q, k) \in Seq(Sent) /\ Len(Removed(q, k)) = Len(q) - 1
         /\ \A i \in 1..Len(Removed(q, k)) : Removed(q, k)[i] = IF i < k THEN q[i] ELSE q[i + 1]
<1> DEFINE a == SubSeq(q, 1, k - 1)
           b == SubSeq(q, k + 1, Len(q))
           s == a \o b
<1>0. Len(q) \in Nat /\ k \in Nat /\ k >= 1 /\ k <= Len(q)
  BY LenProperties
<1>1. a \in Seq(Sent) /\ Len(a) = k - 1 /\ \A i \in 1..(k - 1) : a[i] = q[i]
  <2>1. \A i \in 1..(k - 1) : q[i] \in Sent
    BY <1>0
  <2>2. /\ a \in Seq(Sent) /\ Len(a) = IF 1 <= k - 1 THEN (k - 1) - 1 + 1 ELSE 0
        /\ \A i \in 1..((k - 1) - 1 + 1) : a[i] = q[1 + i - 1]
    BY <1>0, <2>1, SubSeqProperties
  <2> HIDE DEF a
  <2> QED BY <1>0, <2>2
<1>2. /\ b \in Seq(Sent) /\ Len(b) = Len(q) - k
      /\ \A i \in 1..(Len(q) - k) : b[i] = q[k + i]
  <2>1. \A i \in (k + 1)..Len(q) : q[i] \in Sent
    BY <1>0
  <2>2. /\ b \in Seq(Sent)
        /\ Len(b) = IF k + 1 <= Len(q) THEN Len(q) - (k + 1) + 1 ELSE 0
        /\ \A i \in 1..(Len(q) - (k + 1) + 1) : b[i] = q[(k + 1) + i - 1]
    BY <1>0, <2>1, SubSeqProperties
  <2> HIDE DEF b
  <2> QED BY <1>0, <2>2
<1> HIDE DEF a, b
<1>3. /\ s \in Seq(Sent) /\ Len(s) = Len(q) - 1
      /\ \A i \in 1..Len(s) : s[i] = IF i <= k - 1 THEN a[i] ELSE b[i - (k - 1)]
  <2>1. /\ s \in Seq(Sent) /\ Len(s) = Len(a) + Len(b)
        /\ \A i \in 1..Len(a) + Len(b) : s[i] = IF i <= Len(a) THEN a[i] ELSE b[i - Len(a)]
    BY <1>1, <1>2, ConcatProperties
  <2> HIDE DEF s
  <2>2. Len(s) = Len(q) - 1
    BY <1>0, <1>1, <1>2, <2>1
  <2> QED BY <1>0, <1>1, <1>2, <2>1, <2>2
<1> HIDE DEF s
<1>4. \A i \in 1..Len(s) : s[i] = IF i < k THEN q[i] ELSE q[i + 1]
  <2> SUFFICES ASSUME NEW i \in 1..Len(s) PROVE s[i] = IF i < k THEN q[i] ELSE q[i + 1]
    OBVIOUS
  <2>1. CASE i < k
    BY <1>0, <1>1, <1>3, <2>1
  <2>2. CASE ~(i < k)
    <3>1. i - (k - 1) \in 1..(Len(q) - k) /\ k + (i - (k - 1)) = i + 1
      BY <1>0, <1>3, <2>2
    <3> QED BY <1>0, <1>2, <1>3, <2>2, <3>1
  <2> QED BY <2>1, <2>2
<1> QED BY <1>3, <1>4 DEF s, a, b, Removed

LEMMA OrderedRemoved ==
  ASSUME NEW q \in Seq(Sent), NEW low \in Nat, NEW high \in Nat,
         Ordered(q, low, high), NEW k \in 1..Len(q)
  PROVE  Removed(q, k) \in Seq(Sent) /\ Ordered(Removed(q, k), low, high)
<1> DEFINE s == Removed(q, k)
<1>0. Len(q) \in Nat /\ k \in Nat /\ k >= 1 /\ k <= Len(q)
  BY LenProperties
<1>3. s \in Seq(Sent) /\ Len(s) = Len(q) - 1
  BY RemovedIs
<1>4. \A i \in 1..Len(s) : s[i] = IF i < k THEN q[i] ELSE q[i + 1]
  BY RemovedIs
<1> HIDE DEF s
<1>5. \A i \in 1..Len(s) : i \in 1..Len(q) /\ i + 1 \in 1..Len(q)
  BY <1>0, <1>3
<1>6. \A i \in 1..Len(s) : low < s[i].version /\ s[i].version <= high
  BY <1>4, <1>5 DEF Ordered
<1>7. \A i, j \in 1..Len(s) : i < j => s[i].version < s[j].version
  <2> SUFFICES ASSUME NEW i \in 1..Len(s), NEW j \in 1..Len(s), i < j
               PROVE  s[i].version < s[j].version
    OBVIOUS
  <2> DEFINE x == IF i < k THEN i ELSE i + 1
             y == IF j < k THEN j ELSE j + 1
  <2>1. x \in 1..Len(q) /\ y \in 1..Len(q) /\ x < y /\ s[i] = q[x] /\ s[j] = q[y]
    BY <1>0, <1>4, <1>5
  <2> HIDE DEF x, y
  <2> QED BY <2>1 DEF Ordered
<1> QED BY <1>3, <1>6, <1>7 DEF Ordered, s

\* What sendRuntime makes of its queue: the update it replaces taken out, the
\* oldest dropped at the limit, the new message last.
LEMMA OrderedQueued ==
  ASSUME ClientConstants, NEW q \in Seq(Sent), NEW m \in Sent,
         NEW low \in Nat, NEW high \in Nat,
         Ordered(q, low, high), low <= high, m.version = high + 1
  PROVE  Queued(q, m) \in Seq(Sent) /\ Ordered(Queued(q, m), low, high + 1)
<1> DEFINE rest == IF Replaced(q, m) = {} THEN q
                   ELSE Removed(q, CHOOSE i \in Replaced(q, m) : TRUE)
           kept == IF Len(rest) >= QueueLimit THEN Tail(rest) ELSE rest
<1>1. rest \in Seq(Sent) /\ Ordered(rest, low, high)
  <2>1. CASE Replaced(q, m) = {}
    BY <2>1
  <2>2. CASE Replaced(q, m) # {}
    <3>1. PICK k : k = CHOOSE i \in Replaced(q, m) : TRUE
      OBVIOUS
    <3>2. k \in Replaced(q, m)
      BY <2>2, <3>1
    <3>3. k \in 1..Len(q)
      BY <3>2 DEF Replaced
    <3>4. rest = Removed(q, k)
      BY <2>2, <3>1
    <3> QED BY <3>3, <3>4, OrderedRemoved
  <2> QED BY <2>1, <2>2
<1> HIDE DEF rest
<1>2. kept \in Seq(Sent) /\ Ordered(kept, low, high)
  <2>1. CASE Len(rest) >= QueueLimit
    <3>1. rest # <<>>
      BY <2>1 DEF ClientConstants
    <3> QED BY <1>1, <2>1, <3>1, OrderedTail
  <2>2. CASE ~(Len(rest) >= QueueLimit)
    BY <1>1, <2>2
  <2> QED BY <2>1, <2>2
<1> HIDE DEF kept
<1>3. Queued(q, m) = Append(kept, m)
  BY DEF Queued, kept, rest
<1> QED BY <1>2, <1>3, OrderedAppend

-----------------------------------------------------------------------------
(* The invariant.                                                          *)

LEMMA MessageSent ==
  ASSUME Typed, NEW type \in {"update", "create", "rename", "delete", "reset"},
         NEW p \in Path, NEW q \in Path, NEW text \in Content
  PROVE  /\ Message(type, p, q, text) \in Sent
         /\ Message(type, p, q, text).version = version + 1
BY DEF Message, Sent, Typed

\* Whatever the user does goes to the queue or to the wire, last.
LEMMA SendsKeep ==
  ASSUME ClientConstants, ClientInv, NEW m \in Sent, m.version = version + 1,
         files' \in Files, Sends(m)
  PROVE  ClientInv'
<1> USE DEF ClientInv
<1>1. /\ version' = version + 1 /\ version \in Nat /\ server.version \in Nat
      /\ server.version <= version /\ pending \in Seq(Sent) /\ up \in Seq(Sent)
      /\ UNCHANGED <<socket, recovery, down, server>>
  BY DEF Sends, Typed, Numbered
<1>2. pending' \in Seq(Sent) /\ Ordered(pending', server.version, version')
  <2>1. CASE pending' = pending
    BY <1>1, <2>1, OrderedHigher DEF Numbered
  <2>2. CASE pending' = Queued(pending, m)
    BY <1>1, <2>2, OrderedQueued DEF Numbered
  <2> QED BY <2>1, <2>2 DEF Sends
<1>3. up' \in Seq(Sent) /\ Ordered(up', server.version, version')
  <2>1. CASE up' = up
    BY <1>1, <2>1, OrderedHigher DEF Numbered
  <2>2. CASE up' = Append(up, m)
    BY <1>1, <2>2, OrderedAppend DEF Numbered
  <2> QED BY <2>1, <2>2 DEF Sends
<1>4. (socket # "open" => up' = up) /\ (socket = "open" => pending' = pending)
  BY DEF Sends
<1>5. Typed'
  BY <1>1, <1>2, <1>3 DEF Typed
<1>6. Exclusive'
  BY <1>1, <1>4 DEF Exclusive
<1>7. Numbered'
  BY <1>1, <1>2, <1>3 DEF Numbered
<1> QED BY <1>5, <1>6, <1>7

\* The user's edits and file operations.
LEMMA UserActsKeep ==
  ASSUME ClientConstants, ClientInv, UserActs
  PROVE  ClientInv'
<1> DEFINE Kinds == {"update", "create", "rename", "delete", "reset"}
<1>0. Typed /\ version \in Nat /\ MaxVersion \in Nat /\ files \in Files /\ 0 \in Content /\ Absent \in Content
  BY DEF ClientInv, Typed, ClientConstants, Content, Text
<1>1. ASSUME NEW p \in Path, Edit(p) PROVE ClientInv'
  <2>1. version + 1 \in Content
    BY <1>0, <1>1 DEF Edit, May, Content, Text
  <2>2. files' \in Files
    BY <1>0, <1>1, <2>1 DEF Edit, Files, Content
  <2> QED BY <1>0, <1>1, <2>1, <2>2, MessageSent, SendsKeep DEF Edit
<1>2. ASSUME NEW p \in Path, Create(p) PROVE ClientInv'
  <2>1. files' \in Files
    BY <1>0, <1>2 DEF Create, Files, Content
  <2> QED BY <1>0, <1>2, <2>1, MessageSent, SendsKeep DEF Create
<1>3. ASSUME NEW p \in Path, Delete(p) PROVE ClientInv'
  <2>1. files' \in Files
    BY <1>0, <1>3 DEF Delete, Files, Content
  <2> QED BY <1>0, <1>3, <2>1, MessageSent, SendsKeep DEF Delete
<1>4. ASSUME NEW p \in Path, NEW q \in Path, Rename(p, q) PROVE ClientInv'
  <2>1. files' \in Files
    BY <1>0, <1>4 DEF Rename, Files, Content
  <2>2. files[p] \in Content
    BY <1>0 DEF Files, Content
  <2> QED BY <1>0, <1>4, <2>1, <2>2, MessageSent, SendsKeep DEF Rename
<1>5. ASSUME Reset PROVE ClientInv'
  BY <1>0, <1>5, MessageSent, SendsKeep DEF Reset, ClientConstants
<1> QED BY <1>1, <1>2, <1>3, <1>4, <1>5 DEF UserActs

LEMMA AppliedTyped ==
  ASSUME ClientConstants, Typed, NEW m \in Sent
  PROVE  Applied(m) \in Files
<1>1. server.files \in Files /\ 0 \in Content /\ Absent \in Content
  BY DEF Typed, Content, Text, ClientConstants
<1>2. m.type \in {"update", "create", "rename", "delete", "reset"} /\ m.text \in Content
      /\ m.path \in Path /\ m.to \in Path
  BY DEF Sent
<1>3. CASE m.type \in {"update", "create"}
  BY <1>1, <1>2, <1>3 DEF Applied, Files, Content
<1>4. CASE m.type = "rename"
  BY <1>1, <1>2, <1>4 DEF Applied, Files, Content
<1>5. CASE m.type = "delete"
  BY <1>1, <1>2, <1>5 DEF Applied, Files, Content
<1>6. CASE m.type = "reset"
  BY <1>1, <1>2, <1>6 DEF Applied, Files, Content, Scaffold
<1> QED BY <1>2, <1>3, <1>4, <1>5, <1>6

\* The server takes the first message: what follows is above it.
LEMMA ServerKeeps ==
  ASSUME ClientConstants, ClientInv, ServerHandles
  PROVE  ClientInv'
<1> DEFINE m == Head(up)
           saved == [type |-> "saved", version |-> m.version]
           catalog == [type |-> "files", version |-> m.version, files |-> Applied(m),
                       reset |-> m.type = "reset"]
<1>0. Typed /\ Exclusive /\ Numbered /\ up # <<>> /\ up' = Tail(up)
      /\ UNCHANGED <<files, version, pending, socket, recovery>>
  BY DEF ServerHandles, ClientInv
<1>1. /\ version \in Nat /\ server.version \in Nat /\ up \in Seq(Sent) /\ server.version <= version
      /\ Ordered(up, server.version, version)
  BY <1>0 DEF Typed, Numbered
<1>2. /\ m \in Sent /\ Tail(up) \in Seq(Sent) /\ server.version < m.version /\ m.version <= version
      /\ Ordered(Tail(up), server.version, version) /\ Ordered(Tail(up), m.version, version)
  BY <1>0, <1>1, OrderedTail
<1>3. m.version \in Nat
  BY <1>2 DEF Sent
<1>4. Applied(m) \in Files
  BY <1>0, <1>2, AppliedTyped
<1>5. socket = "open" /\ pending = <<>>
  BY <1>0 DEF Exclusive, Typed
<1>6. Exclusive'
  BY <1>0, <1>5 DEF Exclusive
<1>7. CASE UNCHANGED <<server, down>>
  BY <1>0, <1>1, <1>2, <1>6, <1>7 DEF ClientInv, Typed, Numbered
<1>8. CASE /\ server' = [server EXCEPT !.version = m.version, !.files = Applied(m)]
           /\ down' = down \o (IF m.type = "update" THEN <<saved>> ELSE <<catalog, saved>>)
  <2>1. saved \in Heard /\ catalog \in Heard
    BY <1>3, <1>4 DEF Heard
  <2> HIDE DEF saved, catalog
  <2>2. <<saved>> \in Seq(Heard) /\ <<catalog, saved>> \in Seq(Heard)
    BY <2>1
  <2>3. down' \in Seq(Heard)
    BY <1>0, <1>8, <2>2, ConcatProperties DEF Typed
  <2>4. /\ server' \in [live : BOOLEAN, version : Nat, files : Files, initial : Content]
        /\ server'.version = m.version
    BY <1>0, <1>3, <1>4, <1>8 DEF Typed
  <2>5. Typed'
    BY <1>0, <1>2, <2>3, <2>4 DEF Typed
  <2>6. Numbered'
    BY <1>0, <1>2, <1>5, <2>4, OrderedEmpty DEF Numbered
  <2> QED BY <1>6, <2>5, <2>6 DEF ClientInv
<1> QED BY <1>7, <1>8 DEF ServerHandles

\* An answer changes the screen, never what is sent.
LEMMA ReceiveKeeps ==
  ASSUME ClientConstants, ClientInv, Receive
  PROVE  ClientInv'
<1> DEFINE e == Head(down)
<1>0. Typed /\ Exclusive /\ Numbered /\ down # <<>> /\ down' = Tail(down)
      /\ UNCHANGED <<version, pending, socket, recovery, up, server>>
  BY DEF Receive, ClientInv
<1>1. e \in Heard /\ Tail(down) \in Seq(Heard)
  BY <1>0, HeadTailProperties DEF Typed
<1>2. files' \in Files
  <2>0. files \in Files
    BY <1>0 DEF Typed
  <2>1. CASE e.type = "saved"
    BY <2>0, <2>1 DEF Receive
  <2>2. CASE e.type = "files"
    <3>1. e.files \in Files
      BY <1>1, <2>2 DEF Heard
    <3> QED BY <2>0, <2>2, <3>1 DEF Receive
  <2>3. CASE e.type = "project"
    <3>1. e.files \in Files
      BY <1>1, <2>3 DEF Heard
    <3>2. files' = [p \in Path |-> IF p \in Dirty THEN files[p] ELSE e.files[p]]
      BY <2>3 DEF Receive
    <3> HIDE DEF e
    <3> QED BY <2>0, <3>1, <3>2 DEF Files
  <2> QED BY <2>1, <2>2, <2>3 DEF Receive
<1>3. Typed'
  BY <1>0, <1>1, <1>2 DEF Typed
<1> QED BY <1>0, <1>3 DEF ClientInv, Exclusive, Numbered

\* The queue becomes the wire, with the entry file behind it.
LEMMA OpenKeeps ==
  ASSUME ClientConstants, ClientInv, Open
  PROVE  ClientInv'
<1> DEFINE push == Message("update", Entry, Entry, files[Entry])
<1>0. Typed /\ Exclusive /\ Numbered /\ socket' = "open" /\ pending' = <<>>
      /\ socket = "connecting" /\ UNCHANGED <<files, recovery, server>>
  BY DEF Open, ClientInv
<1>1. /\ version \in Nat /\ server.version \in Nat /\ pending \in Seq(Sent)
      /\ server.version <= version /\ Ordered(pending, server.version, version)
      /\ files \in Files /\ server.files \in Files
  BY <1>0 DEF Typed, Numbered
<1>2. push \in Sent /\ push.version = version + 1
  BY <1>0, <1>1, MessageSent DEF Files, Content, ClientConstants
<1> HIDE DEF push
<1>3. /\ version' \in Nat /\ version <= version'
      /\ up' \in Seq(Sent) /\ Ordered(up', server.version, version')
  <2>1. CASE PushesEntry
    <3>1. version' = version + 1 /\ up' \in {pending, Append(pending, push)}
      BY <2>1 DEF Open, Replayed, push
    <3>2. /\ pending \in Seq(Sent) /\ Ordered(pending, server.version, version + 1)
          /\ Append(pending, push) \in Seq(Sent)
          /\ Ordered(Append(pending, push), server.version, version + 1)
      BY <1>1, <1>2, OrderedAppend, OrderedHigher
    <3>3. version' \in Nat /\ version <= version'
      BY <1>1, <3>1
    <3>4. CASE up' = pending
      BY <3>1, <3>2, <3>3, <3>4
    <3>5. CASE up' = Append(pending, push)
      BY <3>1, <3>2, <3>3, <3>5
    <3> QED BY <3>1, <3>3, <3>4, <3>5
  <2>2. CASE ~PushesEntry
    BY <1>1, <2>2 DEF Open
  <2> QED BY <2>1, <2>2
<1>4. down' \in Seq(Heard)
  <2>1. [type |-> "project", files |-> server.files] \in Heard
    BY <1>1 DEF Heard
  <2>2. \/ down' = <<[type |-> "project", files |-> server.files]>>
        \/ down' = <<>>
    BY DEF Open
  <2>3. <<[type |-> "project", files |-> server.files]>> \in Seq(Heard)
    BY <2>1
  <2> QED BY <2>2, <2>3, EmptySeq
<1>5. <<>> \in Seq(Sent)
  BY EmptySeq
<1>6. Typed'
  BY <1>0, <1>3, <1>4, <1>5 DEF Typed
<1>7. Exclusive'
  BY <1>0 DEF Exclusive
<1>8. Numbered'
  BY <1>0, <1>1, <1>3, OrderedEmpty DEF Numbered
<1> QED BY <1>6, <1>7, <1>8 DEF ClientInv

\* The socket and the session come and go between messages.
LEMMA ConnectionsKeep ==
  ASSUME ClientConstants, ClientInv, Close \/ Retry \/ Expire \/ ForeignWrite
  PROVE  ClientInv'
<1>0. Typed /\ Exclusive /\ Numbered /\ <<>> \in Seq(Sent) /\ <<>> \in Seq(Heard)
  BY EmptySeq DEF ClientInv
<1>1. CASE Close
  <2>1. socket' = "closed" /\ up' = <<>> /\ down' = <<>>
        /\ UNCHANGED <<files, version, pending, recovery, server>>
    BY <1>1 DEF Close
  <2>2. Typed'
    BY <1>0, <2>1 DEF Typed
  <2> QED BY <1>0, <2>1, <2>2, OrderedEmpty DEF ClientInv, Exclusive, Numbered
<1>2. CASE Retry
  <2>1. socket = "closed" /\ recovery.pc = "no" /\ socket' = "connecting"
        /\ UNCHANGED <<files, version, pending, recovery, up, down, server>>
    BY <1>2 DEF Retry, Reconnects
  <2>2. Typed'
    BY <1>0, <2>1 DEF Typed
  <2> QED BY <1>0, <2>1, <2>2 DEF ClientInv, Exclusive, Numbered
<1>3. CASE Expire \/ ForeignWrite
  <2>1. UNCHANGED <<files, version, pending, socket, recovery, up, down>>
    BY <1>3 DEF Expire, ForeignWrite
  <2>2. /\ server' \in [live : BOOLEAN, version : Nat, files : Files, initial : Content]
        /\ server'.version = server.version
    <3>1. CASE Expire
      BY <1>0, <3>1 DEF Expire, Typed
    <3>2. CASE ForeignWrite
      <4>1. [server.files EXCEPT ![Entry] = Foreign] \in Files
        BY <1>0 DEF Typed, Files, Text
      <4> QED BY <1>0, <3>2, <4>1 DEF ForeignWrite, Typed
    <3> QED BY <1>3, <3>1, <3>2
  <2>3. Typed'
    BY <1>0, <2>1, <2>2 DEF Typed
  <2> QED BY <1>0, <2>1, <2>2, <2>3 DEF ClientInv, Exclusive, Numbered
<1> QED BY <1>1, <1>2, <1>3

\* recoverSession: a new session starts with nothing queued and counts from one.
LEMMA RecoveryKeeps ==
  ASSUME ClientConstants, ClientInv, Recover \/ CopySaved \/ RecoveryFails \/ Adopt
  PROVE  ClientInv'
<1>0. Typed /\ Exclusive /\ Numbered /\ <<>> \in Seq(Sent)
  BY EmptySeq DEF ClientInv
<1>1. CASE Recover
  <2>1. socket = "closed" /\ UNCHANGED <<files, version, pending, socket, up, down, server>>
    BY <1>1 DEF Recover
  <2>2. recovery' \in [pc : {"no", "copy", "create"}, unsaved : BOOLEAN, files : Files, version : Nat]
    BY <1>0, <1>1 DEF Recover, Typed
  <2>3. Typed'
    BY <1>0, <2>1, <2>2 DEF Typed
  <2> QED BY <1>0, <2>1, <2>3 DEF ClientInv, Exclusive, Numbered
<1>2. CASE CopySaved
  <2>1. recovery.pc # "no" /\ UNCHANGED <<files, version, pending, socket, up, down, server>>
    BY <1>2 DEF CopySaved
  <2>2. recovery' \in [pc : {"no", "copy", "create"}, unsaved : BOOLEAN, files : Files, version : Nat]
    BY <1>0, <1>2 DEF CopySaved, Typed
  <2>3. Typed'
    BY <1>0, <2>1, <2>2 DEF Typed
  <2> QED BY <1>0, <2>1, <2>3 DEF ClientInv, Exclusive, Numbered
<1>3. CASE RecoveryFails
  <2>1. /\ recovery.pc # "no" /\ recovery' = NoRecovery /\ socket' = "connecting"
        /\ UNCHANGED <<files, version, pending, up, down, server>>
    BY <1>3 DEF RecoveryFails, Reconnects
  <2>2. Started \in Files
    BY DEF Started, Files, Text, ClientConstants
  <2>3. /\ recovery' \in [pc : {"no", "copy", "create"}, unsaved : BOOLEAN, files : Files, version : Nat]
        /\ recovery'.pc = "no"
    BY <2>1, <2>2 DEF NoRecovery
  <2>4. Typed'
    BY <1>0, <2>1, <2>3 DEF Typed
  <2> QED BY <1>0, <2>1, <2>3, <2>4 DEF ClientInv, Exclusive, Numbered
<1>4. CASE Adopt
  <2>1. /\ recovery.pc = "create" /\ recovery' = NoRecovery /\ files' = Restored
        /\ server' = [live |-> TRUE, version |-> 1, files |-> Restored, initial |-> Restored[Entry]]
        /\ version' = 1 /\ pending' = <<>> /\ socket' = "connecting" /\ UNCHANGED <<up, down>>
    BY <1>4 DEF Adopt
  <2>2. Restored \in Files
    BY <1>0 DEF Restored, Typed
  <2>3. Restored[Entry] \in Content
    BY <2>2 DEF Files, Content, ClientConstants
  <2>4. Started \in Files
    BY DEF Started, Files, Text, ClientConstants
  <2>5. /\ recovery' \in [pc : {"no", "copy", "create"}, unsaved : BOOLEAN, files : Files, version : Nat]
        /\ recovery'.pc = "no"
    BY <2>1, <2>4 DEF NoRecovery
  <2>6. up = <<>>
    BY <1>0, <2>1 DEF Exclusive
  <2>7. Typed'
    BY <1>0, <2>1, <2>2, <2>3, <2>5 DEF Typed
  <2>8. server'.version = 1
    BY <2>1
  <2>9. Numbered'
    BY <2>1, <2>6, <2>8, OrderedEmpty DEF Numbered
  <2>10. Exclusive'
    BY <2>1, <2>5, <2>6 DEF Exclusive
  <2> QED BY <2>7, <2>9, <2>10 DEF ClientInv
<1> QED BY <1>1, <1>2, <1>3, <1>4

-----------------------------------------------------------------------------
(* What the client is known for, whatever the constants.                   *)

LEMMA ClientStarts == ClientConstants /\ ClientInit => ClientInv
<1> SUFFICES ASSUME ClientConstants, ClientInit PROVE ClientInv
  OBVIOUS
<1>1. Started \in Files
  BY DEF Started, Files, Text, ClientConstants
<1>2. 0 \in Content /\ <<>> \in Seq(Sent) /\ <<>> \in Seq(Heard)
  BY EmptySeq DEF Content, Text, ClientConstants
<1>3. Typed
  BY <1>1, <1>2 DEF ClientInit, Typed, NoRecovery
<1>4. Exclusive
  BY DEF ClientInit, Exclusive, NoRecovery
<1>5. server.version = 1 /\ version = 1 /\ pending = <<>> /\ up = <<>>
  BY DEF ClientInit
<1>6. Numbered
  BY <1>5, OrderedEmpty DEF Numbered
<1> QED BY <1>3, <1>4, <1>6 DEF ClientInv

LEMMA ClientSteps == ClientConstants /\ ClientInv /\ [ClientNext]_cvars => ClientInv'
<1> SUFFICES ASSUME ClientConstants, ClientInv, [ClientNext]_cvars PROVE ClientInv'
  OBVIOUS
<1>1. CASE UserActs
  BY <1>1, UserActsKeep
<1>2. CASE ServerHandles
  BY <1>2, ServerKeeps
<1>3. CASE Receive
  BY <1>3, ReceiveKeeps
<1>4. CASE Open
  BY <1>4, OpenKeeps
<1>5. CASE Close \/ Retry \/ Expire \/ ForeignWrite
  BY <1>5, ConnectionsKeep
<1>6. CASE Recover \/ CopySaved \/ RecoveryFails \/ Adopt
  BY <1>6, RecoveryKeeps
<1>7. CASE UNCHANGED cvars
  BY <1>7 DEF cvars, ClientInv, Typed, Exclusive, Numbered
<1> QED BY <1>1, <1>2, <1>3, <1>4, <1>5, <1>6, <1>7 DEF ClientNext

\* The queue and the wire are in order and above what the server has, and are
\* never both in use (sendRuntime, the open handler, recoverSession).
THEOREM ClientInvariant == ClientSpec => []ClientInv
<1>1. ClientInit => ClientInv
  BY ClientAssumption, ClientStarts
<1>2. ClientInv /\ [ClientNext]_cvars => ClientInv'
  BY ClientAssumption, ClientSteps
<1> QED BY <1>1, <1>2, PTL DEF ClientSpec

\* No sequence of disconnections, replays and recoveries makes the server
\* refuse a message for its version (assert_version): SentInOrder, for any
\* limit of the queue, any number of files and any bound on versions.
THEOREM MessagesAreSentInOrder == ClientSpec => []SentInOrder
<1>1. ClientInv => SentInOrder
  BY DEF ClientInv, Numbered, Ordered, SentInOrder
<1> QED BY <1>1, ClientInvariant, PTL

-----------------------------------------------------------------------------
(***************************************************************************)
(* What is unsaved is known.  The screen and the session are compared file *)
(* by file: a file nothing under way touches is the same in both, and what *)
(* each message under way expects of a file is what the one before it, or  *)
(* the session, leaves there (Lane).  Updates that were lost on the way,   *)
(* and are still held as unacknowledged, may make the difference.          *)
(***************************************************************************)
Elements(q) == {q[i] : i \in 1..Len(q)}

\* What this connection carries, or the next one will.
Flight == Elements(IF socket = "open" THEN up ELSE pending)

Touches(m) == IF m.type = "reset" THEN {} ELSE {m.path, m.to}

\* The file p on the screen, once m is made.
Leaves(m, p) ==
  IF m.type = "delete" \/ (m.type = "rename" /\ p = m.path) THEN Absent ELSE m.text

\* The file p of the session is as the screen was when m was made.
Expects(m, p, x) ==
  IF m.type \in {"update", "delete"} THEN x # Absent
  ELSE IF m.type = "rename" /\ p = m.path THEN x = m.text
  ELSE x = Absent

SameThere(x, y) == x = Absent <=> y = Absent

First(F, m, p) == p \in Touches(m) /\ \A n \in F : p \in Touches(n) => m.version <= n.version
Final(F, m, p) == p \in Touches(m) /\ \A n \in F : p \in Touches(n) => n.version <= m.version
Follow(F, m, n, p) ==
  /\ p \in Touches(m) /\ p \in Touches(n) /\ m.version < n.version
  /\ \A o \in F : p \in Touches(o) => o.version <= m.version \/ n.version <= o.version

\* The file is x on screen and y at the session, F is under way, L is lost.
Rest(F, x, y, L, p) ==
  (\A m \in F : p \notin Touches(m))
    => SameThere(x, y) /\ (x = y \/ \E u \in L : u.path = p)
Starts(F, y, p)  == \A m \in F : First(F, m, p) => Expects(m, p, y)
Follows(F, p)    == \A m, n \in F : Follow(F, m, n, p) => Expects(n, p, Leaves(m, p))
Ends(F, x, L, p) ==
  \A m \in F : Final(F, m, p) =>
    /\ SameThere(x, Leaves(m, p))
    /\ x = Leaves(m, p) \/ \E u \in L : u.path = p /\ m.version < u.version
Lane(F, x, y, L, p) ==
  Rest(F, x, y, L, p) /\ Starts(F, y, p) /\ Follows(F, p) /\ Ends(F, x, L, p)

\* The versions acknowledged by what is on its way here.
Savings(d) == {d[i].version : i \in {j \in 1..Len(d) : d[j].type = "saved"}}

\* Neither under way nor acknowledged, and of those the updates that no later
\* acknowledgement settles.
Lost  == {m \in unacked : m \notin Flight /\ m.version \notin Savings(down)}
Loose == {m \in unacked : /\ m.type = "update" /\ m \notin Flight
                          /\ \A v \in Savings(down) : m \notin Settled(v)}

\* A file operation that was lost stays unacknowledged, and so does an update
\* whose text has moved: the client knows of unsaved work from here on.
Stuck == \E m \in Lost : m.type # "update" \/ m \in carried

Resetting ==
  \/ \E m \in Flight : m.type = "reset"
  \/ \E i \in 1..Len(down) : down[i].type = "files" /\ down[i].reset

Comparable == server.live /\ ~overtaken /\ ~Stuck /\ ~Resetting

Wellformed(m) ==
  /\ m.type # "rename" => m.to = m.path
  /\ m.type \in {"update", "create", "rename"} => m.text # Absent
  /\ m.type \in {"create", "delete", "rename"} => m.path # Entry /\ m.to # Entry
  /\ m.type = "rename" => m.path # m.to

\* Everything under way is held as unacknowledged, under a version of its own.
Held ==
  /\ unacked \subseteq Sent /\ Flight \subseteq unacked
  /\ \A m \in unacked : m.version <= version /\ Wellformed(m)
  /\ \A m, n \in unacked : m.version = n.version => m = n
  /\ \A m, n \in Flight :
       (m.version < n.version /\ m.type = "update" /\ n.type = "rename" /\ n.path = m.path)
         => m \in carried
  /\ socket = "open" => server.live
  /\ socket # "open" => down = <<>>

\* The project comes first; a catalog is ahead of its acknowledgement, and the
\* one with the session's version has the session's files.
Answers ==
  \A i \in 1..Len(down) :
    /\ down[i].type = "project" => i = 1
    /\ down[i].type # "project" => down[i].version <= server.version
    /\ down[i].type = "files" =>
         /\ down[i].version = server.version => down[i].files = server.files
         /\ \E m \in unacked : /\ m.version = down[i].version /\ m.type # "update"
                               /\ down[i].reset => m.type = "reset"
         /\ \A j \in 1..Len(down) :
              (down[j].type = "saved" /\ down[j].version = down[i].version) => i < j

EntryStays ==
  /\ files[Entry] # Absent /\ server.files[Entry] # Absent /\ recovery.files[Entry] # Absent
  /\ \A i \in 1..Len(down) : down[i].type # "saved" => down[i].files[Entry] # Absent

Joined ==
  \A i \in 1..Len(down) : down[i].type = "project" =>
    \A p \in Path : p \notin Dirty => down[i].files[p] = server.files[p]

Agreement ==
  Comparable =>
    Joined /\ \A p \in Path : Lane(Flight, files[p], server.files[p], Loose, p)

UnsavedInv == ClientInv /\ Held /\ Answers /\ EntryStays /\ Agreement

-----------------------------------------------------------------------------
(* The lane of one file, whatever happens to the messages under way.       *)

LEMMA LaneOfNothing ==
  ASSUME NEW x, NEW L, NEW p PROVE Lane({}, x, x, L, p)
BY DEF Lane, Rest, Starts, Follows, Ends, SameThere

\* More is lost.
LEMMA LaneLosesMore ==
  ASSUME NEW F, NEW x, NEW y, NEW L, NEW M, NEW p, Lane(F, x, y, L, p), L \subseteq M
  PROVE  Lane(F, x, y, M, p)
<1>1. Rest(F, x, y, M, p)
  BY DEF Lane, Rest
<1>2. Ends(F, x, M, p)
  BY DEF Lane, Ends
<1> QED BY <1>1, <1>2 DEF Lane

\* The screen is the session's where nothing is under way.
LEMMA LaneOfSession ==
  ASSUME NEW F, NEW y, NEW L, NEW p, \A m \in F : p \notin Touches(m)
  PROVE  Lane(F, y, y, L, p)
BY DEF Lane, Rest, Starts, Follows, Ends, SameThere, First, Final, Follow

\* A message is added behind all others.
LEMMA LaneTakes ==
  ASSUME NEW F, NEW x, NEW y, NEW L, NEW p, Lane(F, x, y, L, p),
         NEW m, \A n \in F : n.version \in Nat /\ n.version < m.version, m.version \in Nat,
         NEW z,
         p \in Touches(m) => Expects(m, p, x) /\ z = Leaves(m, p),
         p \notin Touches(m) => z = x,
         m.type = "rename" => \A u \in L : u.path # m.path
  PROVE  Lane(F \cup {m}, z, y, L, p)
<1> DEFINE G == F \cup {m}
<1>1. CASE p \notin Touches(m)
  <2>1. \A n \in F : /\ First(G, n, p) => First(F, n, p)
                     /\ Final(G, n, p) => Final(F, n, p)
    BY DEF First, Final
  <2>2. \A n, o \in F : Follow(G, n, o, p) => Follow(F, n, o, p)
    BY DEF Follow
  <2>3. ~First(G, m, p) /\ ~Final(G, m, p) /\ \A n : ~Follow(G, n, m, p) /\ ~Follow(G, m, n, p)
    BY <1>1 DEF First, Final, Follow
  <2>4. Rest(G, z, y, L, p)
    BY <1>1 DEF Lane, Rest
  <2>5. Starts(G, y, p)
    BY <2>1, <2>3 DEF Lane, Starts
  <2>6. Follows(G, p)
    BY <2>2, <2>3 DEF Lane, Follows
  <2>7. Ends(G, z, L, p)
    BY <1>1, <2>1, <2>3 DEF Lane, Ends
  <2> QED BY <2>4, <2>5, <2>6, <2>7 DEF Lane
<1>2. CASE p \in Touches(m)
  <2>1. Rest(G, z, y, L, p)
    BY <1>2 DEF Rest
  <2>2. Starts(G, y, p)
    <3> SUFFICES ASSUME NEW n \in G, First(G, n, p) PROVE Expects(n, p, y)
      BY DEF Starts
    <3>1. CASE n \in F
      BY <3>1 DEF Lane, Starts, First
    <3>2. CASE n = m /\ n \notin F
      <4>1. \A o \in F : p \notin Touches(o)
        BY <3>2 DEF First
      <4>2. SameThere(x, y) /\ (x = y \/ \E u \in L : u.path = p)
        BY <4>1 DEF Lane, Rest
      <4> QED BY <1>2, <3>2, <4>2 DEF Expects, SameThere
    <3> QED BY <3>1, <3>2
  <2>3. Follows(G, p)
    <3> SUFFICES ASSUME NEW n \in G, NEW o \in G, Follow(G, n, o, p)
                 PROVE  Expects(o, p, Leaves(n, p))
      BY DEF Follows
    <3>1. CASE n \in F /\ o \in F
      BY <3>1 DEF Lane, Follows, Follow
    <3>2. CASE n \in F /\ o = m
      <4>1. Final(F, n, p)
        BY <3>2 DEF Follow, Final
      <4>2. SameThere(x, Leaves(n, p)) /\ (x = Leaves(n, p) \/ \E u \in L : u.path = p)
        BY <3>2, <4>1 DEF Lane, Ends
      <4> QED BY <1>2, <3>2, <4>2 DEF Expects, SameThere
    <3>3. CASE n = m
      BY <3>3 DEF Follow
    <3> QED BY <3>1, <3>2, <3>3
  <2>4. Ends(G, z, L, p)
    <3> SUFFICES ASSUME NEW n \in G, Final(G, n, p)
                 PROVE  /\ SameThere(z, Leaves(n, p))
                        /\ z = Leaves(n, p) \/ \E u \in L : u.path = p /\ n.version < u.version
      BY DEF Ends
    <3>1. n = m
      BY <1>2 DEF Final
    <3> QED BY <1>2, <3>1 DEF SameThere
  <2> QED BY <2>1, <2>2, <2>3, <2>4 DEF Lane
<1> QED BY <1>1, <1>2

\* An edit is made that is not sent.
LEMMA LanePassedBy ==
  ASSUME NEW F, NEW x, NEW y, NEW L, NEW p, Lane(F, x, y, L, p),
         NEW m, m.path = p, \A n \in F : n.version < m.version,
         NEW z, x # Absent, z # Absent
  PROVE  Lane(F, z, y, L \cup {m}, p)
<1>1. Rest(F, z, y, L \cup {m}, p)
  BY DEF Lane, Rest, SameThere
<1>2. Ends(F, z, L \cup {m}, p)
  BY DEF Lane, Ends, SameThere
<1> QED BY <1>1, <1>2 DEF Lane

\* An update is lost, and no rename behind it counts on it.
LEMMA LaneLoses ==
  ASSUME NEW F, NEW x, NEW y, NEW L, NEW p, Lane(F, x, y, L, p),
         \A n \in F : n.version \in Nat,
         \A n, o \in F : n.version = o.version => n = o,
         \A n \in F : Wellformed(n),
         NEW h \in F, h.type = "update",
         \A n \in F : (h.version < n.version /\ n.type = "rename") => n.path # h.path
  PROVE  Lane(F \ {h}, x, y, L \cup {h}, p)
<1> DEFINE G == F \ {h}
<1>0. Touches(h) = {h.path} /\ h.text # Absent
  BY DEF Touches, Wellformed
<1>1. CASE p # h.path
  <2>0. p \notin Touches(h)
    BY <1>0, <1>1
  <2>1. \A n \in G : /\ First(G, n, p) => First(F, n, p)
                     /\ Final(G, n, p) => Final(F, n, p)
    BY <2>0 DEF First, Final
  <2>2. \A n, o \in G : Follow(G, n, o, p) => Follow(F, n, o, p)
    BY <2>0 DEF Follow
  <2>3. Rest(G, x, y, L \cup {h}, p)
    BY <2>0 DEF Lane, Rest
  <2>4. Starts(G, y, p)
    BY <2>1 DEF Lane, Starts
  <2>5. Follows(G, p)
    BY <2>2 DEF Lane, Follows
  <2>6. Ends(G, x, L \cup {h}, p)
    BY <2>1 DEF Lane, Ends
  <2> QED BY <2>3, <2>4, <2>5, <2>6 DEF Lane
<1>2. CASE p = h.path
  <2>0. p \in Touches(h) /\ Leaves(h, p) = h.text /\ \A z : Expects(h, p, z) => z # Absent
    BY <1>0, <1>2 DEF Leaves, Expects
  \* What follows an update supposes a file.
  <2>1. ASSUME NEW n \in G, h.version < n.version, p \in Touches(n), Expects(n, p, h.text),
               NEW z, z # Absent
        PROVE  Expects(n, p, z)
    BY <1>0, <1>2, <2>1 DEF Expects
  <2>2. Rest(G, x, y, L \cup {h}, p)
    <3> SUFFICES ASSUME \A n \in G : p \notin Touches(n)
                 PROVE  SameThere(x, y) /\ (x = y \/ \E u \in L \cup {h} : u.path = p)
      BY DEF Rest
    <3>1. First(F, h, p) /\ Final(F, h, p)
      BY <2>0 DEF First, Final
    <3>2. y # Absent
      BY <2>0, <3>1 DEF Lane, Starts
    <3>3. x # Absent
      BY <1>0, <2>0, <3>1 DEF Lane, Ends, SameThere
    <3> QED BY <1>2, <3>2, <3>3 DEF SameThere
  <2>3. Starts(G, y, p)
    <3> SUFFICES ASSUME NEW n \in G, First(G, n, p) PROVE Expects(n, p, y)
      BY DEF Starts
    <3>1. CASE n.version < h.version
      <4>1. First(F, n, p)
        BY <3>1 DEF First
      <4> QED BY <4>1 DEF Lane, Starts
    <3>2. CASE h.version < n.version
      <4>1. First(F, h, p)
        BY <2>0, <3>2 DEF First
      <4>2. Follow(F, h, n, p)
        BY <2>0, <3>2 DEF First, Follow
      <4>3. y # Absent
        BY <2>0, <4>1 DEF Lane, Starts
      <4>4. Expects(n, p, h.text)
        BY <2>0, <4>2 DEF Lane, Follows
      <4>5. p \in Touches(n)
        BY DEF First
      <4> QED BY <2>1, <3>2, <4>3, <4>4, <4>5
    <3> QED BY <3>1, <3>2
  <2>4. Follows(G, p)
    <3> SUFFICES ASSUME NEW n \in G, NEW o \in G, Follow(G, n, o, p)
                 PROVE  Expects(o, p, Leaves(n, p))
      BY DEF Follows
    <3>1. CASE n.version < h.version /\ h.version < o.version
      <4>1. Follow(F, n, h, p) /\ Follow(F, h, o, p) /\ p \in Touches(o)
        BY <2>0, <3>1 DEF Follow
      <4>2. Leaves(n, p) # Absent
        BY <2>0, <4>1 DEF Lane, Follows
      <4>3. Expects(o, p, h.text)
        BY <2>0, <4>1 DEF Lane, Follows
      <4> QED BY <2>1, <3>1, <4>1, <4>2, <4>3
    <3>2. CASE ~(n.version < h.version /\ h.version < o.version)
      <4>1. Follow(F, n, o, p)
        BY <3>2 DEF Follow
      <4> QED BY <4>1 DEF Lane, Follows
    <3> QED BY <3>1, <3>2
  <2>5. Ends(G, x, L \cup {h}, p)
    <3> SUFFICES ASSUME NEW n \in G, Final(G, n, p)
                 PROVE  /\ SameThere(x, Leaves(n, p))
                        /\ \/ x = Leaves(n, p)
                           \/ \E u \in L \cup {h} : u.path = p /\ n.version < u.version
      BY DEF Ends
    <3>1. CASE h.version < n.version
      <4>1. Final(F, n, p)
        BY <3>1 DEF Final
      <4> QED BY <4>1 DEF Lane, Ends
    <3>2. CASE n.version < h.version
      <4>1. Final(F, h, p) /\ Follow(F, n, h, p)
        BY <2>0, <3>2 DEF Final, Follow
      <4>2. Leaves(n, p) # Absent
        BY <2>0, <4>1 DEF Lane, Follows
      <4>3. x # Absent
        BY <1>0, <2>0, <4>1 DEF Lane, Ends, SameThere
      <4> QED BY <1>2, <3>2, <4>2, <4>3 DEF SameThere
    <3> QED BY <3>1, <3>2
  <2> QED BY <2>2, <2>3, <2>4, <2>5 DEF Lane
<1> QED BY <1>1, <1>2

\* The session takes the first message, which settles the lost updates it
\* replaces.
LEMMA LaneAdvances ==
  ASSUME NEW F, NEW x, NEW y, NEW L, NEW p, Lane(F, x, y, L, p),
         \A n \in F : n.version \in Nat,
         NEW h \in F, \A n \in F : h.version <= n.version,
         \A n \in F : n.version = h.version => n = h,
         NEW z,
         p \in Touches(h) => z = Leaves(h, p),
         p \notin Touches(h) => z = y,
         \A u \in L : u.version \in Nat,
         NEW M, \A u \in L : (p \in Touches(h) => h.version < u.version) /\ u.path = p => u \in M
  PROVE  Lane(F \ {h}, x, z, M, p)
<1> DEFINE G == F \ {h}
<1>0. \A n \in G : h.version < n.version
  OBVIOUS
<1>1. CASE p \notin Touches(h)
  <2>1. \A n \in G : /\ First(G, n, p) => First(F, n, p)
                     /\ Final(G, n, p) => Final(F, n, p)
    BY <1>1 DEF First, Final
  <2>2. \A n, o \in G : Follow(G, n, o, p) => Follow(F, n, o, p)
    BY <1>1 DEF Follow
  <2>3. Rest(G, x, z, M, p)
    BY <1>1 DEF Lane, Rest
  <2>4. Starts(G, z, p)
    BY <1>1, <2>1 DEF Lane, Starts
  <2>5. Follows(G, p)
    BY <2>2 DEF Lane, Follows
  <2>6. Ends(G, x, M, p)
    BY <1>1, <2>1 DEF Lane, Ends
  <2> QED BY <2>3, <2>4, <2>5, <2>6 DEF Lane
<1>2. CASE p \in Touches(h)
  <2>1. Rest(G, x, z, M, p)
    <3> SUFFICES ASSUME \A n \in G : p \notin Touches(n)
                 PROVE  SameThere(x, z) /\ (x = z \/ \E u \in M : u.path = p)
      BY DEF Rest
    <3>1. Final(F, h, p)
      BY <1>2 DEF Final
    <3> QED BY <1>2, <3>1 DEF Lane, Ends
  <2>2. Starts(G, z, p)
    <3> SUFFICES ASSUME NEW n \in G, First(G, n, p) PROVE Expects(n, p, z)
      BY DEF Starts
    <3>1. Follow(F, h, n, p)
      BY <1>0, <1>2 DEF First, Follow
    <3> QED BY <1>2, <3>1 DEF Lane, Follows
  <2>3. Follows(G, p)
    <3> SUFFICES ASSUME NEW n \in G, NEW o \in G, Follow(G, n, o, p)
                 PROVE  Expects(o, p, Leaves(n, p))
      BY DEF Follows
    <3>1. Follow(F, n, o, p)
      BY <1>0 DEF Follow
    <3> QED BY <3>1 DEF Lane, Follows
  <2>4. Ends(G, x, M, p)
    <3> SUFFICES ASSUME NEW n \in G, Final(G, n, p)
                 PROVE  /\ SameThere(x, Leaves(n, p))
                        /\ x = Leaves(n, p) \/ \E u \in M : u.path = p /\ n.version < u.version
      BY DEF Ends
    <3>1. Final(F, n, p)
      BY <1>0 DEF Final
    <3>2. SameThere(x, Leaves(n, p)) /\ (x = Leaves(n, p) \/ \E u \in L : u.path = p /\ n.version < u.version)
      BY <3>1 DEF Lane, Ends
    <3> QED BY <1>0, <3>2
  <2> QED BY <2>1, <2>2, <2>3, <2>4 DEF Lane
<1> QED BY <1>1, <1>2

\* Lost updates that make no difference to this file are left out: those of
\* other files, and all of them when its last message is the screen's.
LEMMA LaneForgets ==
  ASSUME NEW F, NEW x, NEW y, NEW L, NEW p, Lane(F, x, y, L, p), NEW M,
         \/ \A u \in L : u.path = p => u \in M
         \/ \E m \in F : /\ p \in Touches(m) /\ x = Leaves(m, p)
                         /\ \A n \in F : n # m => n.version < m.version
                         /\ \A n \in F : n.version \in Nat
  PROVE  Lane(F, x, y, M, p)
<1>1. CASE \A u \in L : u.path = p => u \in M
  <2>1. Rest(F, x, y, M, p)
    BY <1>1 DEF Lane, Rest
  <2>2. Ends(F, x, M, p)
    BY <1>1 DEF Lane, Ends
  <2> QED BY <2>1, <2>2 DEF Lane
<1>2. ASSUME NEW m \in F, p \in Touches(m), x = Leaves(m, p),
             \A n \in F : n # m => n.version < m.version, \A n \in F : n.version \in Nat
      PROVE  Lane(F, x, y, M, p)
  <2>1. Rest(F, x, y, M, p)
    BY <1>2 DEF Rest
  <2>2. \A n \in F : Final(F, n, p) => n = m
    <3> SUFFICES ASSUME NEW n \in F, Final(F, n, p), n # m PROVE FALSE
      OBVIOUS
    <3>1. m.version <= n.version /\ n.version < m.version
      BY <1>2 DEF Final
    <3> QED BY <1>2, <3>1
  <2>3. Ends(F, x, M, p)
    BY <1>2, <2>2 DEF Ends, SameThere
  <2> QED BY <2>1, <2>3 DEF Lane
<1> QED BY <1>1, <1>2

-----------------------------------------------------------------------------
(* Queues and wires as sets of messages, and the answers as sets of        *)
(* versions.                                                               *)

LEMMA ElementsAre ==
  ASSUME NEW q \in Seq(Sent)
  PROVE  /\ Elements(q) \subseteq Sent
         /\ \A m \in Elements(q) : m.version \in Nat
         /\ Elements(<<>>) = {}
<1>1. \A i \in 1..Len(q) : q[i] \in Sent
  BY ElementOfSeq
<1> QED BY <1>1 DEF Elements, Sent

LEMMA ElementsOrdered ==
  ASSUME NEW q \in Seq(Sent), NEW low \in Nat, NEW high \in Nat, Ordered(q, low, high)
  PROVE  /\ \A m \in Elements(q) : low < m.version /\ m.version <= high
         /\ \A m, n \in Elements(q) : m.version = n.version => m = n
<1>1. \A i \in 1..Len(q) : q[i].version \in Nat
  BY VersionsAreNumbers
<1>2. ASSUME NEW i \in 1..Len(q), NEW j \in 1..Len(q), q[i].version = q[j].version
      PROVE  q[i] = q[j]
  <2>1. ~(i < j) /\ ~(j < i)
    BY <1>1, <1>2 DEF Ordered
  <2> QED BY <2>1, LenProperties
<1> QED BY <1>1, <1>2 DEF Ordered, Elements

LEMMA ElementsAppend ==
  ASSUME NEW q \in Seq(Sent), NEW m \in Sent
  PROVE  Elements(Append(q, m)) = Elements(q) \cup {m}
<1> DEFINE s == Append(q, m)
<1>1. /\ Len(s) = Len(q) + 1 /\ Len(q) \in Nat
      /\ \A i \in 1..Len(q) : s[i] = q[i]
      /\ s[Len(q) + 1] = m
  BY AppendProperties, LenProperties
<1> HIDE DEF s
<1>2. \A i \in 1..Len(s) : i \in 1..Len(q) \/ i = Len(q) + 1
  BY <1>1
<1>3. \A i \in 1..Len(q) : i \in 1..Len(s)
  BY <1>1
<1>4. Len(q) + 1 \in 1..Len(s)
  BY <1>1
<1>5. Elements(s) = Elements(q) \cup {m}
  BY <1>1, <1>2, <1>3, <1>4 DEF Elements
<1> QED BY <1>5 DEF s

\* A message taken out, wherever it was.
LEMMA ElementsWithout ==
  ASSUME NEW q \in Seq(Sent), NEW s, NEW low \in Nat, NEW high \in Nat,
         NEW k \in Nat, k \in 1..Len(q), Ordered(q, low, high), Len(s) = Len(q) - 1,
         \A i \in 1..Len(s) : s[i] = IF i < k THEN q[i] ELSE q[i + 1]
  PROVE  Elements(s) = Elements(q) \ {q[k]}
<1>0. Len(q) \in Nat /\ k \in Nat /\ 1 <= k /\ k <= Len(q)
  BY LenProperties
<1>1. \A i \in 1..Len(q) : q[i].version \in Nat
  BY VersionsAreNumbers
<1>2. \A i, j \in 1..Len(q) : i # j => q[i] # q[j]
  <2> SUFFICES ASSUME NEW i \in 1..Len(q), NEW j \in 1..Len(q), i < j
               PROVE  q[i] # q[j]
    BY <1>0
  <2> QED BY <1>1 DEF Ordered
<1>3. Elements(s) \subseteq Elements(q) \ {q[k]}
  <2> SUFFICES ASSUME NEW i \in 1..Len(s) PROVE s[i] \in Elements(q) /\ s[i] # q[k]
    BY DEF Elements
  <2> DEFINE x == IF i < k THEN i ELSE i + 1
  <2>1. x \in 1..Len(q) /\ x # k /\ s[i] = q[x]
    BY <1>0
  <2> HIDE DEF x
  <2> QED BY <1>2, <2>1 DEF Elements
<1>4. Elements(q) \ {q[k]} \subseteq Elements(s)
  <2> SUFFICES ASSUME NEW i \in 1..Len(q), i # k PROVE q[i] \in Elements(s)
    BY DEF Elements
  <2> DEFINE x == IF i < k THEN i ELSE i - 1
  <2>1. x \in 1..Len(s) /\ s[x] = q[i]
    BY <1>0
  <2> HIDE DEF x
  <2> QED BY <2>1 DEF Elements
<1> QED BY <1>3, <1>4

LEMMA ElementsTail ==
  ASSUME NEW q \in Seq(Sent), NEW low \in Nat, NEW high \in Nat, Ordered(q, low, high), q # <<>>
  PROVE  /\ Head(q) \in Elements(q) /\ Elements(Tail(q)) = Elements(q) \ {Head(q)}
         /\ \A m \in Elements(q) : Head(q).version <= m.version
<1> DEFINE t == Tail(q)
<1>1. /\ t \in Seq(Sent) /\ Len(t) = Len(q) - 1
      /\ \A i \in 1..Len(t) : t[i] = q[i + 1]
  BY HeadTailProperties
<1>2. Len(q) \in Nat /\ Len(q) >= 1 /\ Head(q) = q[1] /\ 1 \in 1..Len(q)
  BY EmptySeq, LenProperties
<1> HIDE DEF t
<1>3. \A i \in 1..Len(t) : t[i] = IF i < 1 THEN q[i] ELSE q[i + 1]
  BY <1>1, <1>2
<1>4. Elements(t) = Elements(q) \ {q[1]}
  BY <1>1, <1>2, <1>3, ElementsWithout
<1>5. \A i \in 1..Len(q) : q[i].version \in Nat
  BY VersionsAreNumbers
<1>6. \A i \in 1..Len(q) : i = 1 \/ 1 < i
  BY <1>2
<1>7. \A i \in 1..Len(q) : q[1].version <= q[i].version
  BY <1>2, <1>5, <1>6 DEF Ordered
<1> QED BY <1>2, <1>4, <1>7 DEF Elements, t

LEMMA ElementsRemoved ==
  ASSUME NEW q \in Seq(Sent), NEW low \in Nat, NEW high \in Nat, Ordered(q, low, high),
         NEW k \in 1..Len(q)
  PROVE  Elements(Removed(q, k)) = Elements(q) \ {q[k]}
<1> DEFINE s == Removed(q, k)
<1>1. Len(s) = Len(q) - 1
  BY RemovedIs
<1>3. \A i \in 1..Len(s) : s[i] = IF i < k THEN q[i] ELSE q[i + 1]
  BY RemovedIs
<1> HIDE DEF s
<1>4. k \in Nat /\ k \in 1..Len(q) /\ q \in Seq(Sent) /\ low \in Nat /\ high \in Nat /\ Ordered(q, low, high)
  OBVIOUS
<1>2. Elements(s) = Elements(q) \ {q[k]}
  BY <1>1, <1>3, <1>4, ElementsWithout, SMTT(60)
<1> QED BY <1>2 DEF s

\* The queue is ordered while it is rebuilt, so what is left of it is known:
\* the message replaced and the one dropped at the limit are gone.
LEMMA ElementsQueued ==
  ASSUME ClientConstants, NEW q \in Seq(Sent), NEW m \in Sent,
         NEW low \in Nat, NEW high \in Nat, Ordered(q, low, high)
  PROVE  \E r, h \in SUBSET Elements(q) :
           /\ r = {q[i] : i \in Replaced(q, m)}
           /\ Elements(Queued(q, m)) = ((Elements(q) \ r) \ h) \cup {m}
           /\ \A a, b \in r : a = b
           /\ \A a, b \in h : a = b
<1> DEFINE R    == Replaced(q, m)
           rest == IF R = {} THEN q ELSE Removed(q, CHOOSE i \in R : TRUE)
           kept == IF Len(rest) >= QueueLimit THEN Tail(rest) ELSE rest
           r    == {q[i] : i \in R}
<1>1. \A i, j \in R : i = j
  <2>0. Len(q) \in Nat /\ R \subseteq 1..Len(q)
    BY LenProperties DEF Replaced
  <2> SUFFICES ASSUME NEW i \in R, NEW j \in R, i < j PROVE FALSE
    BY <2>0
  <2>1. i \in 1..Len(q) /\ j \in 1..Len(q) /\ q[i].path = m.path /\ q[j].path = m.path
        /\ \A x \in i..Len(q) : x > i => q[x].path # m.path
    BY DEF Replaced
  <2>2. j \in i..Len(q) /\ j > i
    BY <2>0
  <2> QED BY <2>1, <2>2
<1>2. R \subseteq 1..Len(q)
  BY DEF Replaced
<1> HIDE DEF R
<1>3. rest \in Seq(Sent) /\ Ordered(rest, low, high) /\ Elements(rest) = Elements(q) \ r
  <2>1. CASE R = {}
    BY <2>1
  <2>2. CASE R # {}
    <3>1. PICK k : k = CHOOSE i \in R : TRUE
      OBVIOUS
    <3>2. k \in R /\ k \in 1..Len(q)
      BY <1>2, <2>2, <3>1
    <3>3. rest = Removed(q, k) /\ r = {q[k]}
      BY <1>1, <2>2, <3>1, <3>2
    <3> QED BY <3>2, <3>3, OrderedRemoved, ElementsRemoved
  <2> QED BY <2>1, <2>2
<1> HIDE DEF rest
<1>4. \E h \in SUBSET Elements(rest) :
        kept \in Seq(Sent) /\ Elements(kept) = Elements(rest) \ h /\ \A a, b \in h : a = b
  <2>1. CASE Len(rest) >= QueueLimit
    <3>1. rest # <<>>
      BY <2>1 DEF ClientConstants
    <3>2. /\ Tail(rest) \in Seq(Sent) /\ Head(rest) \in Elements(rest)
          /\ Elements(Tail(rest)) = Elements(rest) \ {Head(rest)}
      BY <1>3, <3>1, OrderedTail, ElementsTail
    <3>3. {Head(rest)} \in SUBSET Elements(rest) /\ \A a, b \in {Head(rest)} : a = b
      BY <3>2
    <3> QED BY <2>1, <3>2, <3>3
  <2>2. CASE ~(Len(rest) >= QueueLimit)
    <3>1. {} \in SUBSET Elements(rest) /\ Elements(rest) = Elements(rest) \ {}
      OBVIOUS
    <3> QED BY <1>3, <2>2, <3>1
  <2> QED BY <2>1, <2>2
<1>5. Queued(q, m) = Append(kept, m)
  BY DEF Queued, kept, rest, R
<1> HIDE DEF kept
<1>6. PICK h \in SUBSET Elements(rest) :
        kept \in Seq(Sent) /\ Elements(kept) = Elements(rest) \ h /\ \A a, b \in h : a = b
  BY <1>4
<1>7. Elements(Queued(q, m)) = ((Elements(q) \ r) \ h) \cup {m}
  BY <1>3, <1>5, <1>6, ElementsAppend
<1>8. r \in SUBSET Elements(q) /\ h \in SUBSET Elements(q) /\ \A a, b \in r : a = b
  BY <1>1, <1>2, <1>3, <1>6 DEF Elements
<1> QED BY <1>6, <1>7, <1>8 DEF R

\* Answers: nothing, one taken, some added.
LEMMA SavingsAre ==
  ASSUME NEW d
  PROVE  \A v : v \in Savings(d) <=> \E i \in 1..Len(d) : d[i].type = "saved" /\ d[i].version = v
BY DEF Savings

LEMMA SavingsTail ==
  ASSUME NEW d \in Seq(Heard), d # <<>>
  PROVE  /\ Savings(Tail(d)) \subseteq Savings(d)
         /\ Head(d).type = "saved" =>
              Head(d).version \in Savings(d) /\ Savings(d) \subseteq Savings(Tail(d)) \cup {Head(d).version}
         /\ Head(d).type # "saved" => Savings(Tail(d)) = Savings(d)
<1> DEFINE t == Tail(d)
<1>1. t \in Seq(Heard) /\ Len(t) = Len(d) - 1 /\ \A i \in 1..Len(t) : t[i] = d[i + 1]
  BY HeadTailProperties
<1>2. Len(d) \in Nat /\ Len(d) >= 1 /\ Head(d) = d[1] /\ 1 \in 1..Len(d)
  BY EmptySeq, LenProperties
<1> HIDE DEF t
<1>3. \A i \in 1..Len(t) : i + 1 \in 1..Len(d) /\ t[i] = d[i + 1]
  BY <1>1, <1>2
<1>4. \A i \in 1..Len(d) : i = 1 \/ (i - 1 \in 1..Len(t) /\ t[i - 1] = d[i])
  BY <1>1, <1>2
<1>5. Savings(t) \subseteq Savings(d)
  <2> SUFFICES ASSUME NEW v \in Savings(t) PROVE v \in Savings(d)
    OBVIOUS
  <2>1. PICK i \in 1..Len(t) : t[i].type = "saved" /\ t[i].version = v
    BY SavingsAre
  <2> QED BY <1>3, <2>1, SavingsAre
<1>6. ASSUME NEW v \in Savings(d)
      PROVE  v \in Savings(t) \/ (Head(d).type = "saved" /\ v = Head(d).version)
  <2>1. PICK i \in 1..Len(d) : d[i].type = "saved" /\ d[i].version = v
    BY SavingsAre
  <2>2. CASE i = 1
    BY <1>2, <2>1, <2>2
  <2>3. CASE i - 1 \in 1..Len(t) /\ t[i - 1] = d[i]
    BY <2>1, <2>3, SavingsAre
  <2> QED BY <1>4, <2>2, <2>3
<1>7. Head(d).type = "saved" => Head(d).version \in Savings(d)
  BY <1>2, SavingsAre
<1> QED BY <1>5, <1>6, <1>7 DEF t

LEMMA SavingsConcat ==
  ASSUME NEW d \in Seq(Heard), NEW e \in Seq(Heard)
  PROVE  Savings(d \o e) = Savings(d) \cup Savings(e)
<1> DEFINE s == d \o e
<1>1. /\ Len(s) = Len(d) + Len(e) /\ Len(d) \in Nat /\ Len(e) \in Nat
      /\ \A i \in 1..(Len(d) + Len(e)) : s[i] = IF i <= Len(d) THEN d[i] ELSE e[i - Len(d)]
  BY ConcatProperties, LenProperties
<1> HIDE DEF s
<1>2. \A i \in 1..Len(d) : i \in 1..Len(s) /\ s[i] = d[i]
  BY <1>1
<1>3. ASSUME NEW i \in 1..Len(e)
      PROVE  Len(d) + i \in 1..Len(s) /\ s[Len(d) + i] = e[i]
  <2>1. Len(d) + i \in 1..(Len(d) + Len(e)) /\ ~(Len(d) + i <= Len(d)) /\ (Len(d) + i) - Len(d) = i
    BY <1>1
  <2> QED BY <1>1, <2>1
<1>4. ASSUME NEW i \in 1..Len(s)
      PROVE  \/ i \in 1..Len(d) /\ s[i] = d[i]
             \/ i - Len(d) \in 1..Len(e) /\ s[i] = e[i - Len(d)]
  <2>1. CASE i <= Len(d)
    BY <1>1, <2>1
  <2>2. CASE ~(i <= Len(d))
    BY <1>1, <2>2
  <2> QED BY <2>1, <2>2
<1>5. Savings(s) = Savings(d) \cup Savings(e)
  <2>1. ASSUME NEW v \in Savings(s) PROVE v \in Savings(d) \cup Savings(e)
    <3>1. PICK i \in 1..Len(s) : s[i].type = "saved" /\ s[i].version = v
      BY <2>1, SavingsAre
    <3> QED BY <1>4, <3>1, SavingsAre
  <2>2. ASSUME NEW v \in Savings(d) PROVE v \in Savings(s)
    <3>1. PICK i \in 1..Len(d) : d[i].type = "saved" /\ d[i].version = v
      BY <2>2, SavingsAre
    <3> QED BY <1>2, <3>1, SavingsAre
  <2>3. ASSUME NEW v \in Savings(e) PROVE v \in Savings(s)
    <3>1. PICK i \in 1..Len(e) : e[i].type = "saved" /\ e[i].version = v
      BY <2>3, SavingsAre
    <3> QED BY <1>3, <3>1, SavingsAre
  <2> QED BY <2>1, <2>2, <2>3
<1> QED BY <1>5 DEF s

-----------------------------------------------------------------------------
(* What is under way, what is lost and what is answered.                   *)

LEMMA FlightIs ==
  ASSUME ClientInv
  PROVE  /\ Flight \subseteq Sent
         /\ \A m \in Flight : m.version \in Nat /\ server.version < m.version /\ m.version <= version
         /\ \A m, n \in Flight : m.version = n.version => m = n
<1> DEFINE q == IF socket = "open" THEN up ELSE pending
<1>1. q \in Seq(Sent) /\ version \in Nat /\ server.version \in Nat /\ Ordered(q, server.version, version)
  BY DEF ClientInv, Typed, Numbered
<1> HIDE DEF q
<1>2. /\ Elements(q) \subseteq Sent
      /\ \A m \in Elements(q) : m.version \in Nat /\ server.version < m.version /\ m.version <= version
      /\ \A m, n \in Elements(q) : m.version = n.version => m = n
  BY <1>1, ElementsAre, ElementsOrdered
<1> QED BY <1>2 DEF Flight, q

LEMMA SavedAreBelow ==
  ASSUME ClientInv, Answers
  PROVE  \A v \in Savings(down) : v \in Nat /\ v <= server.version
<1> SUFFICES ASSUME NEW v \in Savings(down) PROVE v \in Nat /\ v <= server.version
  OBVIOUS
<1>1. PICK i \in 1..Len(down) : down[i].type = "saved" /\ down[i].version = v
  BY SavingsAre
<1>2. down[i] \in Heard
  BY ElementOfSeq DEF ClientInv, Typed
<1>3. v \in Nat
  BY <1>1, <1>2 DEF Heard
<1> QED BY <1>1, <1>3 DEF Answers

LEMMA LooseAreLost ==
  /\ Loose \subseteq Lost /\ \A u \in Loose : u \in unacked /\ u.type = "update"
<1>1. \A u \in unacked : u \in Settled(u.version)
  BY DEF Settled
<1> QED BY <1>1 DEF Loose, Lost

\* The client makes a message m: it goes behind the others, or it is an edit
\* that is not sent (a is empty).  In the queue it may replace an update (r),
\* or push out the oldest message (h).
LEMMA FlightTakes ==
  ASSUME ClientInv, Held, Answers, Agreement,
         NEW m \in Sent, m.version = version + 1, Wellformed(m),
         NEW r \in SUBSET Flight, NEW h \in SUBSET Flight, NEW a \in SUBSET {m},
         \A u \in r : /\ u.type = "update" /\ u.path = m.path /\ m.type = "update" /\ a = {m}
                      /\ \A n \in Flight : u.version < n.version => n.type = "update",
         \A u, w \in r : u = w,
         \A u, w \in h : u = w,
         a = {} => m.type = "update" /\ h = {},
         Flight' = ((Flight \ r) \ h) \cup a,
         unacked' = (unacked \ r) \cup {m},
         Savings(down') = Savings(down),
         (\E i \in 1..Len(down) : down[i].type = "files" /\ down[i].reset)
           => (\E i \in 1..Len(down') : down'[i].type = "files" /\ down'[i].reset),
         UNCHANGED <<server, overtaken>>,
         carried \subseteq carried',
         m.type = "rename" => \A u \in unacked : u.type = "update" /\ u.path = m.path => u \in carried',
         \A p \in Path : /\ p \in Touches(m) => Expects(m, p, files[p]) /\ files'[p] = Leaves(m, p)
                         /\ p \notin Touches(m) => files'[p] = files[p],
         Comparable'
  PROVE  Comparable /\ \A p \in Path : Lane(Flight', files'[p], server'.files[p], Loose', p)
<1>0. /\ version \in Nat /\ Flight \subseteq unacked /\ unacked \subseteq Sent
      /\ \A u \in unacked : u.version <= version /\ u.version \in Nat /\ Wellformed(u) /\ u # m
  BY DEF ClientInv, Typed, Held, Sent
<1>1. \A u \in Flight : u.version \in Nat /\ server.version < u.version
  BY FlightIs
<1>2. \A v \in Savings(down) : v \in Nat /\ v <= server.version
  BY SavedAreBelow
<1>3. server.version \in Nat /\ server.version <= version
  BY DEF ClientInv, Typed, Numbered
<1>4. server'.live /\ ~overtaken' /\ ~Stuck' /\ ~Resetting'
  BY DEF Comparable
\* What was lost stays lost, and so is what the limit drops.
<1>5. ASSUME NEW u \in Lost PROVE u \in Lost'
  <2>1. u \in unacked /\ u \notin Flight /\ u.version \notin Savings(down)
    BY <1>5 DEF Lost
  <2>2. u \in unacked' /\ u \notin Flight'
    BY <1>0, <2>1
  <2> QED BY <2>1, <2>2 DEF Lost
<1>6. ASSUME NEW u \in h \ r PROVE u \in Lost'
  <2>1. u \in unacked' /\ u \notin Flight'
    BY <1>0, <1>6
  <2>2. u.version \notin Savings(down)
    BY <1>1, <1>2, <1>3, <1>6
  <2> QED BY <2>1, <2>2 DEF Lost
<1>7. \A u \in Lost' : u.type = "update" /\ u \notin carried'
  BY <1>4 DEF Stuck
<1>8. Comparable
  <2>1. ~Stuck
    BY <1>5, <1>7 DEF Stuck
  <2>2. ~Resetting
    <3> SUFFICES ASSUME NEW u \in Flight, u.type = "reset" PROVE FALSE
      BY <1>4 DEF Resetting
    <3>1. u \notin r
      OBVIOUS
    <3>2. u \notin h
      BY <1>6, <1>7, <3>1
    <3>3. u \in Flight'
      BY <3>1, <3>2
    <3> QED BY <1>4, <3>3 DEF Resetting
  <2> QED BY <1>4, <2>1, <2>2 DEF Comparable
<1>9. \A p \in Path : Lane(Flight, files[p], server.files[p], Loose, p)
  BY <1>8 DEF Agreement
<1>10. /\ \A n \in Flight : Wellformed(n) /\ n.version \in Nat
       /\ \A n, o \in Flight : n.version = o.version => n = o
  BY <1>0, FlightIs
<1>11. ASSUME NEW p \in Path
       PROVE  Lane(Flight \ r, files[p], server.files[p], Loose \cup r, p)
  <2>1. CASE r = {}
    <3>1. Flight \ r = Flight /\ Loose \cup r = Loose
      BY <2>1
    <3> QED BY <1>9, <3>1
  <2>2. ASSUME NEW u \in r
        PROVE  Lane(Flight \ r, files[p], server.files[p], Loose \cup r, p)
    <3>1. r = {u} /\ u \in Flight /\ u.type = "update"
      BY <2>2
    <3>2. \A n \in Flight : (u.version < n.version /\ n.type = "rename") => n.path # u.path
      BY <2>2
    <3>3. Lane(Flight \ {u}, files[p], server.files[p], Loose \cup {u}, p)
      BY <1>9, <1>10, <3>1, <3>2, LaneLoses
    <3> QED BY <3>1, <3>3
  <2> QED BY <2>1, <2>2
<1>12. ASSUME NEW p \in Path
       PROVE  Lane((Flight \ r) \ h, files[p], server.files[p], (Loose \cup r) \cup (h \ r), p)
  <2> DEFINE F == Flight \ r
             L == Loose \cup r
  <2>0. Lane(F, files[p], server.files[p], L, p)
    BY <1>11
  <2>1. CASE h \ r = {}
    <3>1. F \ h = F /\ L \cup (h \ r) = L
      BY <2>1
    <3> QED BY <2>0, <3>1
  <2>2. ASSUME NEW u \in h \ r
        PROVE  Lane(F \ h, files[p], server.files[p], L \cup (h \ r), p)
    <3>1. F \ h = F \ {u} /\ h \ r = {u} /\ u \in F
      BY <2>2
    <3>2. u.type = "update" /\ u \notin carried'
      BY <1>6, <1>7, <2>2
    <3>3. \A n \in F : (u.version < n.version /\ n.type = "rename") => n.path # u.path
      BY <3>1, <3>2 DEF Held
    <3>4. /\ \A n \in F : Wellformed(n) /\ n.version \in Nat
          /\ \A n, o \in F : n.version = o.version => n = o
      BY <1>10
    <3> HIDE DEF F, L
    <3>5. Lane(F \ {u}, files[p], server.files[p], L \cup {u}, p)
      BY <2>0, <3>1, <3>2, <3>3, <3>4, LaneLoses
    <3> QED BY <3>1, <3>5
  <2> QED BY <2>1, <2>2
<1>13. \A u \in (Loose \cup (h \ r)) : u \in Loose'
  <2> SUFFICES ASSUME NEW u \in (Loose \cup (h \ r)) PROVE u \in Loose'
    OBVIOUS
  <2>1. u \in Lost' /\ u.type = "update" /\ u \in unacked
    BY <1>0, <1>5, <1>6, <1>7, LooseAreLost
  <2>2. \A v \in Savings(down) : u \notin Settled(v)
    <3>1. CASE u \in Loose
      BY <3>1 DEF Loose
    <3>2. CASE u \in h \ r
      BY <1>1, <1>2, <1>3, <3>2 DEF Settled
    <3> QED BY <3>1, <3>2
  <2>3. \A v \in Savings(down) : u \notin Settled(v)'
    <3> SUFFICES ASSUME NEW v \in Savings(down), u \in Settled(v)' PROVE FALSE
      OBVIOUS
    <3>1. v # m.version
      BY <1>0, <1>2, <1>3
    <3>2. u \in Settled(v)
      BY <2>1, <3>1 DEF Settled
    <3> QED BY <2>2, <3>2
  <2> QED BY <2>1, <2>3 DEF Loose, Lost
<1> SUFFICES ASSUME NEW p \in Path
             PROVE  Lane(Flight', files'[p], server.files[p], Loose', p)
  BY <1>8
<1> DEFINE G == (Flight \ r) \ h
           L == (Loose \cup r) \cup (h \ r)
<1>14. Lane(G, files[p], server.files[p], L, p) /\ Flight' = G \cup a
  BY <1>12
<1>15. \A n \in G : n.version \in Nat /\ n.version < m.version
  BY <1>0, <1>1
<1>16. \A u \in L : u \in r \/ u \in Loose'
  BY <1>13
<1>17. m.version \in Nat
  BY <1>0
<1>18. CASE a = {m}
  <2>1. m.type = "rename" => \A u \in L : u.path # m.path
    <3> SUFFICES ASSUME m.type = "rename", NEW u \in L, u.path = m.path PROVE FALSE
      OBVIOUS
    <3>1. u \notin r
      OBVIOUS
    <3>2. u \in unacked /\ u.type = "update" /\ u \in Lost'
      BY <1>0, <1>5, <1>6, <1>7, <3>1, LooseAreLost
    <3> QED BY <1>7, <3>2
  <2>2. Flight' = G \cup {m}
    BY <1>14, <1>18
  <2> HIDE DEF G, L
  <2>3. Lane(G \cup {m}, files'[p], server.files[p], L, p)
    <3>1. CASE p \in Touches(m)
      BY <1>14, <1>15, <1>17, <2>1, <3>1, LaneTakes
    <3>2. CASE p \notin Touches(m)
      BY <1>14, <1>15, <1>17, <2>1, <3>2, LaneTakes
    <3> QED BY <3>1, <3>2
  <2>4. CASE p \in Touches(m)
    <3>1. m \in G \cup {m} /\ files'[p] = Leaves(m, p)
      BY <2>4
    <3>2. \A n \in G \cup {m} : (n # m => n.version < m.version) /\ n.version \in Nat
      BY <1>15, <1>17
    <3>3. Lane(G \cup {m}, files'[p], server.files[p], Loose', p)
      BY <2>3, <2>4, <3>1, <3>2, LaneForgets
    <3> QED BY <2>2, <3>3
  <2>5. CASE p \notin Touches(m)
    <3>1. \A u \in L : u.path = p => u \in Loose'
      BY <1>16, <2>5 DEF Touches
    <3>2. Lane(G \cup {m}, files'[p], server.files[p], Loose', p)
      BY <2>3, <3>1, LaneForgets
    <3> QED BY <2>2, <3>2
  <2> QED BY <2>4, <2>5
<1>19. CASE a = {}
  <2>1. r = {} /\ h = {} /\ m.type = "update" /\ Flight' = G
    BY <1>14, <1>19
  <2>2. m \in Loose'
    <3>1. m \in unacked' /\ m \notin Flight'
      BY <1>0, <2>1
    <3>2. \A v \in Savings(down) : m \notin Settled(v)'
      BY <1>0, <1>2, <1>3 DEF Settled
    <3> QED BY <2>1, <3>1, <3>2 DEF Loose
  <2>3. L \subseteq Loose'
    BY <1>16, <2>1
  <2> HIDE DEF G, L
  <2>4. CASE p \in Touches(m)
    <3>1. m.path = p /\ files[p] # Absent /\ files'[p] # Absent
      BY <2>1, <2>4 DEF Touches, Wellformed, Expects, Leaves
    <3>2. \A n \in G : n.version < m.version
      BY <1>15
    <3>3. Lane(G, files'[p], server.files[p], L \cup {m}, p)
      BY <1>14, <3>1, <3>2, LanePassedBy
    <3>4. L \cup {m} \subseteq Loose'
      BY <2>2, <2>3
    <3>5. Lane(G, files'[p], server.files[p], Loose', p)
      BY <3>3, <3>4, LaneLosesMore
    <3> QED BY <2>1, <3>5
  <2>5. CASE p \notin Touches(m)
    BY <1>14, <2>1, <2>3, <2>5, LaneLosesMore
  <2> QED BY <2>4, <2>5
<1> QED BY <1>18, <1>19

\* A message was made, as FlightTakes supposes it.
Took(m, r, h, a) ==
  /\ \A u \in r : /\ u.type = "update" /\ u.path = m.path /\ m.type = "update" /\ a = {m}
                  /\ \A n \in Flight : u.version < n.version => n.type = "update"
  /\ \A u, w \in r : u = w
  /\ \A u, w \in h : u = w
  /\ a = {} => m.type = "update" /\ h = {}
  /\ Flight' = ((Flight \ r) \ h) \cup a
  /\ unacked' = (unacked \ r) \cup {m}

LEMMA SendsTake ==
  ASSUME ClientConstants, ClientInv, NEW m \in Sent, Sends(m)
  PROVE  \E r, h \in SUBSET Flight, a \in SUBSET {m} : Took(m, r, h, a)
<1>0. /\ version \in Nat /\ server.version \in Nat /\ pending \in Seq(Sent) /\ up \in Seq(Sent)
      /\ Ordered(pending, server.version, version) /\ Ordered(up, server.version, version)
      /\ socket' = socket
  BY DEF ClientInv, Typed, Numbered, Sends
<1>1. CASE ~Oversized(m) /\ socket # "open"
  <2>1. /\ unacked' = (unacked \ {pending[i] : i \in Replaced(pending, m)}) \cup {m}
        /\ pending' = Queued(pending, m)
    BY <1>1 DEF Sends
  <2>2. Flight = Elements(pending) /\ Flight' = Elements(Queued(pending, m))
    BY <1>0, <1>1, <2>1 DEF Flight
  <2>3. PICK r, h \in SUBSET Elements(pending) :
          /\ r = {pending[i] : i \in Replaced(pending, m)}
          /\ Elements(Queued(pending, m)) = ((Elements(pending) \ r) \ h) \cup {m}
          /\ \A u, w \in r : u = w
          /\ \A u, w \in h : u = w
    BY <1>0, ElementsQueued
  <2>4. ASSUME NEW u \in r
        PROVE  /\ u.type = "update" /\ u.path = m.path /\ m.type = "update"
               /\ \A n \in Flight : u.version < n.version => n.type = "update"
    <3>1. PICK i \in 1..Len(pending) : i \in Replaced(pending, m) /\ u = pending[i]
      BY <2>3, <2>4 DEF Replaced
    <3>2. /\ m.type = "update" /\ u.path = m.path
          /\ \A j \in i..Len(pending) : pending[j].type = "update"
      BY <3>1 DEF Replaced
    <3>3. Len(pending) \in Nat /\ i \in i..Len(pending)
      BY <1>0, LenProperties
    <3>4. ASSUME NEW j \in 1..Len(pending), u.version < pending[j].version
          PROVE  pending[j].type = "update"
      <4>1. CASE j < i
        <5>1. pending[j].version < pending[i].version
          BY <1>0, <4>1 DEF Ordered
        <5>2. pending[j].version \in Nat /\ pending[i].version \in Nat
          BY <1>0, VersionsAreNumbers
        <5> QED BY <3>1, <3>4, <5>1, <5>2
      <4>2. CASE ~(j < i)
        <5>1. j \in i..Len(pending)
          BY <3>3, <4>2
        <5> QED BY <3>2, <5>1
      <4> QED BY <4>1, <4>2
    <3> QED BY <2>2, <3>1, <3>2, <3>3, <3>4 DEF Elements
  <2>5. Took(m, r, h, {m})
    BY <2>1, <2>2, <2>3, <2>4 DEF Took
  <2> QED BY <2>2, <2>3, <2>5
<1>2. CASE ~Oversized(m) /\ socket = "open"
  <2>1. unacked' = unacked \cup {m} /\ up' = Append(up, m)
    BY <1>2 DEF Sends
  <2>2. Flight = Elements(up) /\ Flight' = Elements(up) \cup {m}
    BY <1>0, <1>2, <2>1, ElementsAppend DEF Flight
  <2>3. Took(m, {}, {}, {m})
    BY <2>1, <2>2 DEF Took
  <2>4. {} \in SUBSET Flight /\ {m} \in SUBSET {m}
    OBVIOUS
  <2> QED BY <2>3, <2>4
<1>3. CASE Oversized(m)
  <2>1. unacked' = unacked \cup {m} /\ up' = up /\ pending' = pending
    BY <1>3 DEF Sends
  <2>2. Flight' = Flight
    BY <1>0, <2>1 DEF Flight
  <2>3. Took(m, {}, {}, {})
    BY <1>3, <2>1, <2>2 DEF Took, Oversized
  <2>4. {} \in SUBSET Flight /\ {} \in SUBSET {m}
    OBVIOUS
  <2> QED BY <2>3, <2>4
<1> QED BY <1>1, <1>2, <1>3

LEMMA HeldTakes ==
  ASSUME ClientInv, Held, NEW m \in Sent, m.version = version + 1, Wellformed(m),
         NEW r \in SUBSET Flight, NEW h \in SUBSET Flight, NEW a \in SUBSET {m}, Took(m, r, h, a),
         version' = version + 1, carried \subseteq carried',
         m.type = "rename" => \A u \in unacked : u.type = "update" /\ u.path = m.path => u \in carried',
         socket' = "open" => server'.live,
         socket' # "open" => down' = <<>>
  PROVE  Held'
<1>0. /\ version \in Nat /\ Flight \subseteq unacked /\ unacked \subseteq Sent
      /\ \A u \in unacked : u.version <= version /\ u.version \in Nat /\ Wellformed(u)
      /\ \A u, w \in unacked : u.version = w.version => u = w
  BY DEF ClientInv, Typed, Held, Sent
<1>1. /\ Flight' = ((Flight \ r) \ h) \cup a /\ unacked' = (unacked \ r) \cup {m}
  BY DEF Took
<1>2. unacked' \subseteq Sent /\ Flight' \subseteq unacked'
  BY <1>0, <1>1
<1>3. \A u \in unacked' : u.version <= version' /\ Wellformed(u)
  BY <1>0, <1>1
<1>4. \A u, w \in unacked' : u.version = w.version => u = w
  <2>1. \A u \in unacked : u.version # m.version
    BY <1>0
  <2> QED BY <1>0, <1>1, <2>1
<1>5. ASSUME NEW u \in Flight', NEW w \in Flight', u.version < w.version,
             u.type = "update", w.type = "rename", w.path = u.path
      PROVE  u \in carried'
  <2>1. CASE w = m
    <3>1. u \in unacked
      BY <1>0, <1>1, <1>5, <2>1
    <3> QED BY <1>5, <2>1, <3>1
  <2>2. CASE w # m
    <3>1. w \in Flight /\ w \in unacked
      BY <1>0, <1>1, <2>2
    <3>2. u \in Flight
      BY <1>0, <1>1, <1>5, <3>1
    <3> QED BY <1>5, <3>1, <3>2 DEF Held
  <2> QED BY <2>1, <2>2
<1> QED BY <1>2, <1>3, <1>4, <1>5 DEF Held, Wellformed

\* Whatever the user makes of the files, and by whatever way it goes.
LEMMA SendsKeepUnsaved ==
  ASSUME ClientConstants, UnsavedInv, NEW m \in Sent, m.version = version + 1, Wellformed(m),
         files' \in Files, Sends(m), files'[Entry] # Absent,
         \A p \in Path : /\ p \in Touches(m) => Expects(m, p, files[p]) /\ files'[p] = Leaves(m, p)
                         /\ p \notin Touches(m) => files'[p] = files[p]
  PROVE  UnsavedInv'
<1>0. ClientInv /\ Held /\ Answers /\ EntryStays /\ Agreement
  BY DEF UnsavedInv
<1>1. ClientInv'
  BY <1>0, SendsKeep
<1>2. /\ version' = version + 1
      /\ UNCHANGED <<socket, recovery, down, server, overtaken>>
      /\ carried \subseteq carried'
      /\ m.type = "rename" => \A u \in unacked : u.type = "update" /\ u.path = m.path => u \in carried'
  BY DEF Sends
<1>3. PICK r, h \in SUBSET Flight, a \in SUBSET {m} : Took(m, r, h, a)
  BY <1>0, SendsTake
<1>4. Held'
  BY <1>0, <1>2, <1>3, HeldTakes DEF Held
<1>5. Answers'
  <2> SUFFICES ASSUME NEW i \in 1..Len(down), down[i].type = "files"
               PROVE  \E u \in unacked' : /\ u.version = down[i].version /\ u.type # "update"
                                          /\ down[i].reset => u.type = "reset"
    BY <1>0, <1>2 DEF Answers
  <2>1. PICK u \in unacked : /\ u.version = down[i].version /\ u.type # "update"
                             /\ down[i].reset => u.type = "reset"
    BY <1>0 DEF Answers
  <2>2. u \in unacked'
    BY <1>3, <2>1 DEF Took
  <2> QED BY <2>1, <2>2
<1>6. EntryStays'
  BY <1>0, <1>2 DEF EntryStays
<1>7. ASSUME Comparable' PROVE Joined' /\ \A p \in Path : Lane(Flight', files'[p], server'.files[p], Loose', p)
  <2>1. Comparable /\ \A p \in Path : Lane(Flight', files'[p], server'.files[p], Loose', p)
    <3>1. Savings(down') = Savings(down)
      BY <1>2
    <3>2. /\ \A u \in r : /\ u.type = "update" /\ u.path = m.path /\ m.type = "update" /\ a = {m}
                          /\ \A n \in Flight : u.version < n.version => n.type = "update"
          /\ \A u, w \in r : u = w
          /\ \A u, w \in h : u = w
          /\ a = {} => m.type = "update" /\ h = {}
          /\ Flight' = ((Flight \ r) \ h) \cup a
          /\ unacked' = (unacked \ r) \cup {m}
      BY <1>3 DEF Took
    <3>3. (\E i \in 1..Len(down) : down[i].type = "files" /\ down[i].reset)
            => (\E i \in 1..Len(down') : down'[i].type = "files" /\ down'[i].reset)
      BY <1>2
    <3>4. UNCHANGED <<server, overtaken>> /\ carried \subseteq carried'
      BY <1>2
    <3>5. m.type = "rename" => \A u \in unacked : u.type = "update" /\ u.path = m.path => u \in carried'
      BY <1>2
    <3> QED BY <1>0, <1>7, <3>1, <3>2, <3>3, <3>4, <3>5, FlightTakes
  <2>2. Dirty \subseteq Dirty'
    <3>1. ASSUME NEW u \in unacked, u.type # "reset"
          PROVE  u.path \in Dirty' /\ (u.type = "rename" => u.to \in Dirty')
      <4>1. CASE u \in r
        BY <1>3, <4>1 DEF Dirty, Took
      <4>2. CASE u \notin r
        BY <1>3, <3>1, <4>2 DEF Dirty, Took
      <4> QED BY <4>1, <4>2
    <3> QED BY <3>1 DEF Dirty
  <2>3. Joined'
    BY <1>0, <1>2, <2>1, <2>2 DEF Agreement, Joined
  <2> QED BY <2>1, <2>3
<1>8. Agreement'
  BY <1>7 DEF Agreement
<1> QED BY <1>1, <1>4, <1>5, <1>6, <1>8 DEF UnsavedInv

LEMMA UserActsKeepUnsaved ==
  ASSUME ClientConstants, UnsavedInv, UserActs
  PROVE  UnsavedInv'
<1>0. /\ Typed /\ EntryStays /\ version \in Nat /\ files \in Files
      /\ 0 \in Content /\ Absent \in Content /\ Absent \notin Nat /\ MaxVersion \in Nat
      /\ files[Entry] # Absent /\ Entry \in Path
  BY DEF UnsavedInv, ClientInv, EntryStays, Typed, ClientConstants, Content, Text
<1>1. ASSUME NEW p \in Path, Edit(p) PROVE UnsavedInv'
  <2> DEFINE m == Message("update", p, p, version + 1)
  <2>1. version + 1 \in Content /\ version + 1 # Absent
    BY <1>0, <1>1 DEF Edit, May, Content, Text
  <2>2. /\ files' \in Files /\ files'[p] = version + 1
        /\ \A q \in Path : q # p => files'[q] = files[q]
    BY <1>0, <1>1, <2>1 DEF Edit, Files, Content
  <2>3. m \in Sent /\ m.version = version + 1 /\ Sends(m)
    BY <1>0, <1>1, <2>1, MessageSent DEF Edit
  <2>4. m.type = "update" /\ m.path = p /\ m.to = p /\ m.text = version + 1
    BY DEF Message
  <2> HIDE DEF m
  <2>5. Wellformed(m)
    BY <2>1, <2>4 DEF Wellformed
  <2>6. \A q \in Path : /\ q \in Touches(m) => Expects(m, q, files[q]) /\ files'[q] = Leaves(m, q)
                        /\ q \notin Touches(m) => files'[q] = files[q]
    BY <1>1, <2>2, <2>4 DEF Edit, Touches, Expects, Leaves
  <2>7. files'[Entry] # Absent
    BY <1>0, <2>1, <2>2
  <2> QED BY <2>2, <2>3, <2>5, <2>6, <2>7, SendsKeepUnsaved
<1>2. ASSUME NEW p \in Path, Create(p) PROVE UnsavedInv'
  <2> DEFINE m == Message("create", p, p, 0)
  <2>1. /\ files' \in Files /\ files'[p] = 0 /\ p # Entry
        /\ \A q \in Path : q # p => files'[q] = files[q]
    BY <1>0, <1>2 DEF Create, Files, Content
  <2>2. m \in Sent /\ m.version = version + 1 /\ Sends(m)
    BY <1>0, <1>2, MessageSent DEF Create
  <2>3. m.type = "create" /\ m.path = p /\ m.to = p /\ m.text = 0
    BY DEF Message
  <2> HIDE DEF m
  <2>4. Wellformed(m)
    BY <1>0, <2>1, <2>3 DEF Wellformed
  <2>5. \A q \in Path : /\ q \in Touches(m) => Expects(m, q, files[q]) /\ files'[q] = Leaves(m, q)
                        /\ q \notin Touches(m) => files'[q] = files[q]
    BY <1>2, <2>1, <2>3 DEF Create, Touches, Expects, Leaves
  <2> QED BY <1>0, <2>1, <2>2, <2>4, <2>5, SendsKeepUnsaved
<1>3. ASSUME NEW p \in Path, Delete(p) PROVE UnsavedInv'
  <2> DEFINE m == Message("delete", p, p, 0)
  <2>1. /\ files' \in Files /\ files'[p] = Absent /\ p # Entry
        /\ \A q \in Path : q # p => files'[q] = files[q]
    BY <1>0, <1>3 DEF Delete, Files, Content
  <2>2. m \in Sent /\ m.version = version + 1 /\ Sends(m)
    BY <1>0, <1>3, MessageSent DEF Delete
  <2>3. m.type = "delete" /\ m.path = p /\ m.to = p
    BY DEF Message
  <2> HIDE DEF m
  <2>4. Wellformed(m)
    BY <2>1, <2>3 DEF Wellformed
  <2>5. \A q \in Path : /\ q \in Touches(m) => Expects(m, q, files[q]) /\ files'[q] = Leaves(m, q)
                        /\ q \notin Touches(m) => files'[q] = files[q]
    BY <1>3, <2>1, <2>3 DEF Delete, Touches, Expects, Leaves
  <2> QED BY <1>0, <2>1, <2>2, <2>4, <2>5, SendsKeepUnsaved
<1>4. ASSUME NEW p \in Path, NEW q \in Path, Rename(p, q) PROVE UnsavedInv'
  <2> DEFINE m == Message("rename", p, q, files[p])
  <2>0. files[p] \in Content /\ files[p] # Absent /\ files[q] = Absent /\ p # q /\ p # Entry /\ q # Entry
    BY <1>0, <1>4 DEF Rename, Files, Content
  <2>1. /\ files' \in Files /\ files'[p] = Absent /\ files'[q] = files[p]
        /\ \A x \in Path : x # p /\ x # q => files'[x] = files[x]
    BY <1>0, <1>4, <2>0 DEF Rename, Files, Content
  <2>2. m \in Sent /\ m.version = version + 1 /\ Sends(m)
    BY <1>0, <1>4, <2>0, MessageSent DEF Rename
  <2>3. m.type = "rename" /\ m.path = p /\ m.to = q /\ m.text = files[p]
    BY DEF Message
  <2> HIDE DEF m
  <2>4. Wellformed(m)
    BY <2>0, <2>3 DEF Wellformed
  <2>5. \A x \in Path : /\ x \in Touches(m) => Expects(m, x, files[x]) /\ files'[x] = Leaves(m, x)
                        /\ x \notin Touches(m) => files'[x] = files[x]
    BY <2>0, <2>1, <2>3 DEF Touches, Expects, Leaves
  <2> QED BY <1>0, <2>0, <2>1, <2>2, <2>4, <2>5, SendsKeepUnsaved
<1>5. ASSUME Reset PROVE UnsavedInv'
  <2> DEFINE m == Message("reset", Entry, Entry, 0)
  <2>1. files' = files
    BY <1>5 DEF Reset
  <2>2. m \in Sent /\ m.version = version + 1 /\ Sends(m)
    BY <1>0, <1>5, MessageSent DEF Reset
  <2>3. m.type = "reset" /\ m.path = Entry /\ m.to = Entry
    BY DEF Message
  <2> HIDE DEF m
  <2>4. Wellformed(m) /\ \A x \in Path : x \notin Touches(m)
    BY <2>3 DEF Wellformed, Touches
  <2> QED BY <1>0, <2>1, <2>2, <2>4, SendsKeepUnsaved
<1> QED BY <1>1, <1>2, <1>3, <1>4, <1>5 DEF UserActs

-----------------------------------------------------------------------------
(* The session takes a message.                                            *)

LEMMA AppliedIs ==
  ASSUME Typed, NEW m \in Sent, Wellformed(m), m.type # "reset", NEW p \in Path
  PROVE  /\ p \notin Touches(m) => Applied(m)[p] = server.files[p]
         /\ p \in Touches(m) =>
              Applied(m)[p] = IF m.type = "rename" /\ p = m.to THEN server.files[m.path] ELSE Leaves(m, p)
<1>1. server.files \in Files /\ m.path \in Path /\ m.to \in Path
      /\ m.type \in {"update", "create", "rename", "delete"}
  BY DEF Typed, Sent
<1>2. CASE m.type \in {"update", "create"}
  BY <1>1, <1>2 DEF Applied, Files, Touches, Leaves, Wellformed
<1>3. CASE m.type = "rename"
  BY <1>1, <1>3 DEF Applied, Files, Touches, Leaves, Wellformed
<1>4. CASE m.type = "delete"
  BY <1>1, <1>4 DEF Applied, Files, Touches, Leaves, Wellformed
<1> QED BY <1>1, <1>2, <1>3, <1>4

\* The entry file is never the one that goes.
LEMMA AppliedKeepsEntry ==
  ASSUME ClientConstants, Typed, NEW m \in Sent, Wellformed(m), ~Refused(m), server.files[Entry] # Absent
  PROVE  Applied(m)[Entry] # Absent
<1>0. Entry \in Path /\ Absent \notin Nat /\ server.files \in Files
  BY DEF ClientConstants, Typed
<1>1. CASE m.type = "reset"
  BY <1>0, <1>1 DEF Applied, Scaffold
<1>2. CASE m.type # "reset"
  BY <1>0, <1>2, AppliedIs DEF Touches, Leaves, Wellformed, Sent
<1> QED BY <1>1, <1>2

\* The answers to a message, behind those already on their way.
LEMMA DownGrows ==
  ASSUME NEW d \in Seq(Heard), NEW s \in Heard, NEW c \in Heard, NEW one \in BOOLEAN, NEW t,
         one => t = d \o <<s>>, ~one => t = d \o <<c, s>>
  PROVE  /\ Len(d) \in Nat
         /\ \A i \in 1..Len(t) :
              \/ i \in 1..Len(d) /\ t[i] = d[i]
              \/ i = Len(d) + 1 /\ one /\ t[i] = s
              \/ i = Len(d) + 1 /\ ~one /\ t[i] = c
              \/ i = Len(d) + 2 /\ ~one /\ t[i] = s
         /\ \A i \in 1..Len(d) : i \in 1..Len(t) /\ t[i] = d[i]
         /\ ~one => Len(d) + 1 \in 1..Len(t) /\ t[Len(d) + 1] = c
         /\ s.type = "saved" /\ c.type # "saved" => Savings(t) = Savings(d) \cup {s.version}
<1> DEFINE e == IF one THEN <<s>> ELSE <<c, s>>
<1>1. /\ e \in Seq(Heard) /\ Len(e) = IF one THEN 1 ELSE 2
      /\ e[1] = IF one THEN s ELSE c
      /\ ~one => e[2] = s
  OBVIOUS
<1>2. t = d \o e
  OBVIOUS
<1> HIDE DEF e
<1>3. /\ Len(t) = Len(d) + Len(e) /\ Len(d) \in Nat
      /\ \A i \in 1..(Len(d) + Len(e)) : t[i] = IF i <= Len(d) THEN d[i] ELSE e[i - Len(d)]
  BY <1>1, <1>2, ConcatProperties, LenProperties
<1>4. ASSUME NEW i \in 1..Len(t)
      PROVE  \/ i \in 1..Len(d) /\ t[i] = d[i]
             \/ i = Len(d) + 1 /\ one /\ t[i] = s
             \/ i = Len(d) + 1 /\ ~one /\ t[i] = c
             \/ i = Len(d) + 2 /\ ~one /\ t[i] = s
  <2>1. CASE i <= Len(d)
    BY <1>3, <2>1
  <2>2. CASE i = Len(d) + 1
    <3>1. t[i] = e[1]
      BY <1>3, <2>2
    <3> QED BY <1>1, <2>2, <3>1
  <2>3. CASE i = Len(d) + 2
    <3>1. t[i] = e[2] /\ ~one
      BY <1>1, <1>3, <2>3
    <3> QED BY <1>1, <2>3, <3>1
  <2>4. i <= Len(d) \/ i = Len(d) + 1 \/ i = Len(d) + 2
    BY <1>1, <1>3
  <2> QED BY <2>1, <2>2, <2>3, <2>4
<1>5. \A i \in 1..Len(d) : i \in 1..Len(t) /\ t[i] = d[i]
  BY <1>1, <1>3
<1>6. ~one => Len(d) + 1 \in 1..Len(t) /\ t[Len(d) + 1] = c
  BY <1>1, <1>3
<1>7. ASSUME s.type = "saved", c.type # "saved" PROVE Savings(t) = Savings(d) \cup {s.version}
  <2>1. Savings(t) = Savings(d) \cup Savings(e)
    BY <1>1, <1>2, SavingsConcat
  <2>2. Savings(e) = {s.version}
    <3>1. \A i \in 1..Len(e) : e[i].type = "saved" => e[i] = s
      BY <1>1, <1>7
    <3>2. \E i \in 1..Len(e) : e[i] = s
      BY <1>1
    <3> QED BY <1>7, <3>1, <3>2, SavingsAre
  <2> QED BY <2>1, <2>2
<1> QED BY <1>3, <1>4, <1>5, <1>6, <1>7

\* While the screen and the session can be compared, nothing is refused.
LEMMA NothingIsRefused ==
  ASSUME ClientInv, Held, Agreement, Comparable, NEW m \in Flight,
         \A n \in Flight : m.version <= n.version
  PROVE  ~Refused(m) /\ \A p \in Path : p \in Touches(m) => Expects(m, p, server.files[p])
<1>1. m \in Sent /\ Wellformed(m) /\ m.type # "reset" /\ server.version < m.version /\ m.version \in Nat
  BY FlightIs DEF Held, Comparable, Resetting
<1>2. ASSUME NEW p \in Path, p \in Touches(m) PROVE Expects(m, p, server.files[p])
  <2>1. First(Flight, m, p)
    BY <1>2 DEF First
  <2> QED BY <2>1 DEF Agreement, Lane, Starts
<1>3. m.path \in Path /\ m.to \in Path /\ m.path \in Touches(m) /\ m.to \in Touches(m)
  BY <1>1 DEF Sent, Touches
<1>4. server.version \in Nat
  BY DEF ClientInv, Typed
<1> QED BY <1>1, <1>2, <1>3, <1>4 DEF Refused, Expects, Wellformed

LEMMA ServerKeepsUnsaved ==
  ASSUME ClientConstants, UnsavedInv, ServerHandles
  PROVE  UnsavedInv'
<1> DEFINE saved   == [type |-> "saved", version |-> Head(up).version]
           catalog == [type |-> "files", version |-> Head(up).version, files |-> Applied(Head(up)),
                       reset |-> Head(up).type = "reset"]
<1>0. ClientInv /\ Held /\ Answers /\ EntryStays /\ Agreement
  BY DEF UnsavedInv
<1>1. ClientInv'
  BY <1>0, ServerKeeps
<1>2. /\ up # <<>> /\ up' = Tail(up) /\ server.live
      /\ UNCHANGED <<files, version, unacked, socket, recovery, carried, overtaken>>
  BY DEF ServerHandles
<1>3. /\ socket = "open" /\ up \in Seq(Sent) /\ server.version \in Nat /\ version \in Nat
      /\ Ordered(up, server.version, version) /\ Typed
  BY <1>0, <1>2 DEF ClientInv, Typed, Exclusive, Numbered
<1>4. PICK m : m = Head(up)
  OBVIOUS
<1>5. /\ m \in Flight /\ Flight' = Flight \ {m} /\ \A n \in Flight : m.version <= n.version
  BY <1>2, <1>3, <1>4, ElementsTail DEF Flight
<1>6. /\ m \in Sent /\ m \in unacked /\ Wellformed(m) /\ m.version \in Nat
      /\ server.version < m.version /\ m.version <= version
      /\ \A n \in Flight : n.version = m.version => n = m
      /\ \A n \in unacked : n.version = m.version => n = m
      /\ Flight \subseteq unacked /\ unacked \subseteq Sent
      /\ \A n \in unacked : n.version \in Nat
  BY <1>0, <1>5, FlightIs DEF Held, Sent
<1>7. \A v \in Savings(down) : v \in Nat /\ v <= server.version
  BY <1>0, SavedAreBelow
<1>8. CASE Refused(m)
  <2>1. UNCHANGED <<server, down>>
    BY <1>4, <1>8 DEF ServerHandles
  <2>2. Held'
    BY <1>0, <1>2, <1>5, <2>1 DEF Held, Wellformed
  <2>3. Answers' /\ EntryStays'
    BY <1>0, <1>2, <2>1 DEF Answers, EntryStays
  <2>4. ASSUME Comparable' PROVE FALSE
    <3>1. Lost \subseteq Lost' /\ m \in Lost'
      BY <1>2, <1>3, <1>5, <1>6, <1>7, <2>1 DEF Lost
    <3>2. ~Stuck
      BY <1>2, <2>4, <3>1 DEF Comparable, Stuck
    <3>3. m.type # "reset"
      BY <2>4, <3>1 DEF Comparable, Stuck
    <3>4. ~Resetting
      BY <1>5, <2>1, <2>4, <3>3 DEF Comparable, Resetting
    <3>5. Comparable
      BY <1>2, <2>1, <2>4, <3>2, <3>4 DEF Comparable
    <3> QED BY <1>0, <1>5, <1>8, <3>5, NothingIsRefused
  <2>5. Agreement'
    BY <2>4 DEF Agreement
  <2> QED BY <1>1, <2>2, <2>3, <2>5 DEF UnsavedInv
<1>9. CASE ~Refused(m)
  <2>1. /\ server' = [server EXCEPT !.version = m.version, !.files = Applied(m)]
        /\ down' = down \o (IF m.type = "update" THEN <<saved>> ELSE <<catalog, saved>>)
    BY <1>4, <1>9 DEF ServerHandles
  <2>2. /\ server'.version = m.version /\ server'.files = Applied(m) /\ server'.live = server.live
    BY <1>3, <2>1 DEF Typed
  <2>3. Applied(m) \in Files
    BY <1>3, <1>6, AppliedTyped
  <2>4. /\ saved \in Heard /\ catalog \in Heard /\ saved.type = "saved" /\ saved.version = m.version
        /\ catalog.type = "files" /\ catalog.version = m.version /\ catalog.files = Applied(m)
        /\ catalog.reset = (m.type = "reset")
    BY <1>4, <1>6, <2>3 DEF Heard
  <2> HIDE DEF saved, catalog
  <2>5. PICK one \in BOOLEAN : one = (m.type = "update")
    OBVIOUS
  <2>6. /\ Len(down) \in Nat
        /\ \A i \in 1..Len(down') :
              \/ i \in 1..Len(down) /\ down'[i] = down[i]
              \/ i = Len(down) + 1 /\ one /\ down'[i] = saved
              \/ i = Len(down) + 1 /\ ~one /\ down'[i] = catalog
              \/ i = Len(down) + 2 /\ ~one /\ down'[i] = saved
        /\ \A i \in 1..Len(down) : i \in 1..Len(down') /\ down'[i] = down[i]
        /\ ~one => Len(down) + 1 \in 1..Len(down') /\ down'[Len(down) + 1] = catalog
        /\ Savings(down') = Savings(down) \cup {m.version}
    <3>1. down \in Seq(Heard)
      BY <1>3 DEF Typed
    <3>2. down' = down \o (IF one THEN <<saved>> ELSE <<catalog, saved>>)
      BY <2>1, <2>5
    <3>3. saved.type = "saved" /\ catalog.type # "saved"
      BY <2>4
    <3>4. saved \in Heard /\ catalog \in Heard
      BY <2>4
    <3> DEFINE t == down'
    <3>5. (one => t = down \o <<saved>>) /\ (~one => t = down \o <<catalog, saved>>)
      BY <3>2
    <3> HIDE DEF t
    <3>6. /\ Len(down) \in Nat
          /\ \A i \in 1..Len(t) :
                \/ i \in 1..Len(down) /\ t[i] = down[i]
                \/ i = Len(down) + 1 /\ one /\ t[i] = saved
                \/ i = Len(down) + 1 /\ ~one /\ t[i] = catalog
                \/ i = Len(down) + 2 /\ ~one /\ t[i] = saved
          /\ \A i \in 1..Len(down) : i \in 1..Len(t) /\ t[i] = down[i]
          /\ ~one => Len(down) + 1 \in 1..Len(t) /\ t[Len(down) + 1] = catalog
          /\ Savings(t) = Savings(down) \cup {saved.version}
      BY <3>1, <3>3, <3>4, <3>5, DownGrows, Z3T(60)
    <3> QED BY <2>4, <3>6 DEF t
  <2>7. Held'
    BY <1>0, <1>2, <1>3, <1>5, <2>2 DEF Held, Wellformed
  <2>8. Answers'
    <3>0. server.version < server'.version
      BY <1>6, <2>2
    <3> SUFFICES ASSUME NEW i \in 1..Len(down')
                 PROVE  /\ down'[i].type = "project" => i = 1
                        /\ down'[i].type # "project" => down'[i].version <= server'.version
                        /\ down'[i].type = "files" =>
                             /\ down'[i].version = server'.version => down'[i].files = server'.files
                             /\ \E u \in unacked' :
                                  /\ u.version = down'[i].version /\ u.type # "update"
                                  /\ down'[i].reset => u.type = "reset"
                             /\ \A j \in 1..Len(down') :
                                  (down'[j].type = "saved" /\ down'[j].version = down'[i].version) => i < j
      BY DEF Answers
    <3>1. CASE i \in 1..Len(down) /\ down'[i] = down[i]
      <4>1. down[i] \in Heard
        BY <1>3, <3>1, ElementOfSeq DEF Typed
      <4>2. down[i].type # "project" => down[i].version \in Nat /\ down[i].version <= server.version
        BY <1>0, <3>1, <4>1 DEF Answers, Heard
      <4>3. ASSUME down[i].type = "files", NEW j \in 1..Len(down'),
                   down'[j].type = "saved", down'[j].version = down[i].version
            PROVE  i < j
        <5>1. CASE j \in 1..Len(down) /\ down'[j] = down[j]
          BY <1>0, <3>1, <4>3, <5>1 DEF Answers
        <5>2. CASE j = Len(down) + 1 \/ j = Len(down) + 2
          BY <2>6, <3>1, <5>2
        <5> QED BY <2>6, <5>1, <5>2
      <4>4. down[i].type # "project" => down[i].version < server'.version
        BY <1>3, <1>6, <2>2, <4>2
      <4> QED BY <1>0, <1>2, <1>6, <2>2, <3>1, <4>2, <4>3, <4>4 DEF Answers
    <3>2. CASE down'[i] = saved
      BY <1>6, <2>2, <2>4, <3>2
    <3>3. CASE i = Len(down) + 1 /\ ~one /\ down'[i] = catalog
      <4>1. ASSUME NEW j \in 1..Len(down'), down'[j].type = "saved", down'[j].version = m.version
            PROVE  i < j
        <5>1. CASE j \in 1..Len(down) /\ down'[j] = down[j]
          <6>1. m.version \in Savings(down)
            BY <4>1, <5>1, SavingsAre
          <6> QED BY <1>3, <1>6, <1>7, <6>1
        <5>2. CASE j = Len(down) + 1
          BY <2>4, <3>3, <4>1, <5>2
        <5>3. CASE j = Len(down) + 2
          BY <2>6, <3>3, <5>3
        <5> QED BY <2>6, <5>1, <5>2, <5>3
      <4>2. m \in unacked' /\ m.type # "update"
        BY <1>2, <1>6, <2>5, <3>3
      <4> QED BY <1>6, <2>2, <2>4, <3>3, <4>1, <4>2
    <3> QED BY <2>6, <3>1, <3>2, <3>3
  <2>9. EntryStays'
    <3>1. Applied(m)[Entry] # Absent
      BY <1>0, <1>3, <1>6, <1>9, AppliedKeepsEntry DEF EntryStays
    <3>2. \A i \in 1..Len(down') : down'[i].type # "saved" => down'[i].files[Entry] # Absent
      BY <1>0, <2>4, <2>6, <3>1 DEF EntryStays
    <3> QED BY <1>0, <1>2, <2>2, <3>1, <3>2 DEF EntryStays
  <2>10. ASSUME Comparable'
         PROVE  Joined' /\ \A p \in Path : Lane(Flight', files'[p], server'.files[p], Loose', p)
    <3>1. Lost \subseteq Lost'
      BY <1>2, <1>5, <1>6, <2>6 DEF Lost
    <3>2. ~Stuck
      BY <1>2, <2>10, <3>1 DEF Comparable, Stuck
    <3>3. m.type # "reset"
      BY <2>4, <2>5, <2>6, <2>10 DEF Comparable, Resetting
    <3>4. ~Resetting
      BY <1>5, <2>6, <2>10, <3>3 DEF Comparable, Resetting
    <3>5. Comparable
      BY <1>2, <2>10, <3>2, <3>4 DEF Comparable
    <3>6. \A p \in Path : p \in Touches(m) => Expects(m, p, server.files[p])
      BY <1>0, <1>5, <3>5, NothingIsRefused
    <3>7. ASSUME NEW p \in Path
          PROVE  /\ p \notin Touches(m) => Applied(m)[p] = server.files[p]
                 /\ p \in Touches(m) => Applied(m)[p] = Leaves(m, p)
      <4>1. m.path \in Path /\ m.path \in Touches(m)
        BY <1>6, <3>3 DEF Touches, Sent
      <4>2. m.type = "rename" => server.files[m.path] = m.text
        BY <3>6, <4>1 DEF Expects
      <4>3. m.type = "rename" => Leaves(m, m.to) = m.text
        BY <1>6 DEF Leaves, Wellformed
      <4> QED BY <1>3, <1>6, <3>3, <4>2, <4>3, AppliedIs
    <3>8. Dirty' = Dirty
      BY <1>2 DEF Dirty
    <3>9. Joined'
      <4> SUFFICES ASSUME NEW i \in 1..Len(down'), down'[i].type = "project",
                          NEW p \in Path, p \notin Dirty
                   PROVE  down'[i].files[p] = Applied(m)[p]
        BY <2>2, <3>8 DEF Joined
      <4>1. i \in 1..Len(down) /\ down'[i] = down[i]
        BY <2>4, <2>6
      <4>2. p \notin Touches(m)
        BY <1>6, <3>3 DEF Touches, Dirty, Wellformed
      <4>3. down[i].files[p] = server.files[p]
        BY <1>0, <3>5, <4>1 DEF Agreement, Joined
      <4> QED BY <3>7, <4>1, <4>2, <4>3
    <3>10. ASSUME NEW p \in Path PROVE Lane(Flight', files'[p], server'.files[p], Loose', p)
      <4>1. ASSUME NEW u \in Loose, p \in Touches(m) => m.version < u.version, u.path = p
            PROVE  u \in Loose'
        <5>1. u \in unacked /\ u.type = "update" /\ u \notin Flight /\ u \notin Flight' /\ u # m
              /\ u.version \in Nat /\ u.version # m.version
          BY <1>5, <1>6 DEF Loose
        <5>2. \A v \in Savings(down) : u \notin Settled(v)
          BY DEF Loose
        <5>3. u \notin Settled(m.version)
          <6> SUFFICES ASSUME u \in Settled(m.version) PROVE FALSE
            OBVIOUS
          <6>1. PICK a \in unacked : a.version = m.version /\ a.path = u.path /\ u.version < m.version
            BY <5>1 DEF Settled
          <6>2. m.path = p
            BY <1>6, <4>1, <6>1
          <6>3. p \in Touches(m)
            BY <3>3, <6>2 DEF Touches
          <6> QED BY <1>6, <4>1, <5>1, <6>1, <6>3
        <5>4. \A v : Settled(v)' = Settled(v)
          BY <1>2 DEF Settled
        <5> QED BY <1>2, <2>6, <5>1, <5>2, <5>3, <5>4 DEF Loose
      <4>2. Lane(Flight, files[p], server.files[p], Loose, p)
        BY <1>0, <3>5 DEF Agreement
      <4>3. \A n \in Flight : n.version \in Nat
        BY <1>6
      <4>4. \A u \in Loose : u.version \in Nat
        BY <1>6 DEF Loose
      <4>5. \A u \in Loose : (p \in Touches(m) => m.version < u.version) /\ u.path = p => u \in Loose'
        BY <4>1
      <4>6. Lane(Flight \ {m}, files[p], Applied(m)[p], Loose', p)
        BY <1>5, <1>6, <3>7, <4>2, <4>3, <4>4, <4>5, LaneAdvances
      <4> QED BY <1>2, <1>5, <2>2, <4>6
    <3> QED BY <3>9, <3>10
  <2>11. Agreement'
    BY <2>10 DEF Agreement
  <2> QED BY <1>1, <2>7, <2>8, <2>9, <2>11 DEF UnsavedInv
<1> QED BY <1>8, <1>9

-----------------------------------------------------------------------------
(* A connection closes with everything on it.                              *)

\* The first message of a file and the last: versions are numbers.
LEMMA HasLeast ==
  ASSUME NEW S, S \subseteq Nat, S # {}
  PROVE  \E x \in S : \A y \in S : x <= y
<1> DEFINE R == {ss \in Nat \X Nat : ss[1] < ss[2]}
<1>1. OpToRel(<, Nat) = R
  BY DEF OpToRel
<1>2. IsWellFoundedOn(R, Nat)
  BY <1>1, NatLessThanWellFounded
<1>3. \A x, y \in Nat : <<x, y>> \in R <=> x < y
  OBVIOUS
<1> HIDE DEF R
<1>4. PICK x \in S : \A y \in S : <<y, x>> \notin R
  BY <1>2, WFMin
<1>5. ASSUME NEW y \in S PROVE x <= y
  <2>1. x \in Nat /\ y \in Nat /\ <<y, x>> \notin R
    BY <1>4
  <2>2. ~(y < x)
    BY <1>3, <2>1
  <2> QED BY <2>1, <2>2
<1> QED BY <1>5

LEMMA HasGreatest ==
  ASSUME NEW S, S \subseteq Nat, S # {}, NEW b \in Nat, \A x \in S : x <= b
  PROVE  \E x \in S : \A y \in S : y <= x
<1> DEFINE D == {d \in Nat : \E x \in S : d = b - x}
<1>1. D \subseteq Nat /\ D # {}
  <2>1. PICK x \in S : TRUE
    OBVIOUS
  <2>2. b - x \in D
    BY <2>1
  <2> QED BY <2>2
<1>2. PICK d \in D : \A e \in D : d <= e
  BY <1>1, HasLeast
<1>3. PICK x \in S : d = b - x
  OBVIOUS
<1>4. ASSUME NEW y \in S PROVE y <= x
  <2>1. b - y \in D /\ d <= b - y /\ x \in Nat /\ y \in Nat
    BY <1>2
  <2> QED BY <1>3, <2>1
<1> QED BY <1>4
\* Updates are lost, all of them.
LEMMA LaneLosesAll ==
  ASSUME NEW F, NEW x, NEW y, NEW L, NEW p, Lane(F, x, y, L, p), NEW b \in Nat,
         \A n \in F : /\ n.version \in Nat /\ n.version <= b
                      /\ n.type = "update" /\ Wellformed(n),
         NEW M, L \subseteq M, F \subseteq M
  PROVE  Lane({}, x, y, M, p)
<1> DEFINE T == {n \in F : p \in Touches(n)}
           V == {v \in Nat : \E n \in T : n.version = v}
<1>1. CASE T = {}
  BY <1>1 DEF Lane, Rest, Starts, Follows, Ends
<1>2. CASE T # {}
  <2>1. V \subseteq Nat /\ V # {} /\ \A v \in V : v <= b
    BY <1>2
  <2>2. PICK n \in T : First(F, n, p)
    <3>1. PICK v \in V : \A w \in V : v <= w
      BY <2>1, HasLeast
    <3>2. PICK n \in T : n.version = v
      OBVIOUS
    <3> QED BY <3>1, <3>2 DEF First
  <2>3. PICK o \in T : Final(F, o, p)
    <3>1. PICK v \in V : \A w \in V : w <= v
      BY <2>1, HasGreatest
    <3>2. PICK o \in T : o.version = v
      OBVIOUS
    <3> QED BY <3>1, <3>2 DEF Final
  <2>4. y # Absent
    BY <2>2 DEF Lane, Starts, Expects
  <2>5. SameThere(x, Leaves(o, p))
    BY <2>3 DEF Lane, Ends
  <2>6. Leaves(o, p) # Absent
    BY <2>3 DEF Leaves, Wellformed
  <2>7. o.path = p /\ o \in M
    BY <2>3 DEF Touches, Wellformed
  <2> QED BY <2>4, <2>5, <2>6, <2>7 DEF Lane, Rest, Starts, Follows, Ends, SameThere
<1> QED BY <1>1, <1>2

-----------------------------------------------------------------------------
(* The client takes an answer.                                             *)

LEMMA ReceiveKeepsUnsaved ==
  ASSUME ClientConstants, UnsavedInv, Receive
  PROVE  UnsavedInv'
<1>0. ClientInv /\ Held /\ Answers /\ EntryStays /\ Agreement
  BY DEF UnsavedInv
<1>1. ClientInv'
  BY <1>0, ReceiveKeeps
<1>2. /\ socket = "open" /\ down # <<>> /\ down' = Tail(down)
      /\ UNCHANGED <<version, pending, socket, recovery, up, server, carried>>
  BY DEF Receive
<1>3. /\ down \in Seq(Heard) /\ files \in Files /\ version \in Nat /\ server.version \in Nat
      /\ server.files \in Files /\ server.version <= version /\ Entry \in Path
  BY <1>0 DEF ClientInv, Typed, Numbered, ClientConstants
<1>4. PICK e : e = Head(down)
  OBVIOUS
<1>5. /\ e = down[1] /\ 1 \in 1..Len(down) /\ e \in Heard
      /\ \A i \in 1..Len(down') : i + 1 \in 1..Len(down) /\ i + 1 # 1 /\ down'[i] = down[i + 1]
      /\ \A i \in 1..Len(down) : i # 1 => i - 1 \in 1..Len(down') /\ down'[i - 1] = down[i]
  BY <1>2, <1>3, <1>4
<1>6. Flight' = Flight
  BY <1>2 DEF Flight
<1>7. /\ Flight \subseteq unacked /\ unacked \subseteq Sent
      /\ \A m \in unacked : m.version \in Nat /\ m.version <= version /\ Wellformed(m)
      /\ \A m \in Flight : server.version < m.version
  BY <1>0, FlightIs DEF Held, Sent
<1>8. \A v \in Savings(down) : v \in Nat /\ v <= server.version
  BY <1>0, SavedAreBelow
<1>9. \A i \in 1..Len(down') : down'[i].type # "project"
  BY <1>0, <1>5 DEF Answers
<1>10. Joined'
  BY <1>9 DEF Joined
<1>11. CASE e.type = "saved"
  <2>1. /\ unacked' = unacked \ Settled(e.version) /\ files' = files
        /\ overtaken' = (overtaken \/ \E m \in carried \cap Settled(e.version) : m.version # e.version)
    BY <1>4, <1>11 DEF Receive
  <2>2. /\ Savings(down') \subseteq Savings(down) /\ e.version \in Savings(down)
        /\ Savings(down) \subseteq Savings(down') \cup {e.version}
    BY <1>2, <1>3, <1>4, <1>11, SavingsTail
  <2>3. e.version \in Nat /\ e.version <= server.version
    BY <1>8, <2>2
  <2>4. \A m \in Settled(e.version) : m \in unacked /\ (m.version = e.version \/ (m.type = "update" /\ m.version < e.version))
    BY DEF Settled
  <2>5. Flight \subseteq unacked'
    BY <1>3, <1>7, <2>1, <2>3, <2>4
  <2>6. Held'
    BY <1>0, <1>2, <1>6, <2>1, <2>5 DEF Held, Wellformed
  <2>7. Answers'
    <3> SUFFICES ASSUME NEW i \in 1..Len(down')
                 PROVE  /\ down'[i].type = "project" => i = 1
                        /\ down'[i].type # "project" => down'[i].version <= server'.version
                        /\ down'[i].type = "files" =>
                             /\ down'[i].version = server'.version => down'[i].files = server'.files
                             /\ \E u \in unacked' :
                                  /\ u.version = down'[i].version /\ u.type # "update"
                                  /\ down'[i].reset => u.type = "reset"
                             /\ \A j \in 1..Len(down') :
                                  (down'[j].type = "saved" /\ down'[j].version = down'[i].version) => i < j
      BY DEF Answers
    <3>1. i + 1 \in 1..Len(down) /\ down'[i] = down[i + 1]
      BY <1>5
    <3>2. ASSUME down'[i].type = "files"
          PROVE  \E u \in unacked' : /\ u.version = down'[i].version /\ u.type # "update"
                                     /\ down'[i].reset => u.type = "reset"
      <4>1. PICK u \in unacked : /\ u.version = down'[i].version /\ u.type # "update"
                                 /\ down'[i].reset => u.type = "reset"
        BY <1>0, <3>1, <3>2 DEF Answers
      <4>2. down[i + 1].version # down[1].version
        <5> SUFFICES ASSUME down[i + 1].version = down[1].version PROVE FALSE
          OBVIOUS
        <5>1. i + 1 < 1
          BY <1>0, <1>5, <1>11, <3>1, <3>2 DEF Answers
        <5> QED BY <5>1
      <4>3. u \notin Settled(e.version)
        BY <1>5, <2>4, <3>1, <4>1, <4>2
      <4> QED BY <2>1, <4>1, <4>3
    <3>3. ASSUME down'[i].type = "files", NEW j \in 1..Len(down'),
                 down'[j].type = "saved", down'[j].version = down'[i].version
          PROVE  i < j
      <4>1. j + 1 \in 1..Len(down) /\ down'[j] = down[j + 1]
        BY <1>5
      <4>2. i + 1 < j + 1
        BY <1>0, <3>1, <3>3, <4>1 DEF Answers
      <4> QED BY <4>2
    <3> QED BY <1>0, <1>2, <1>9, <3>1, <3>2, <3>3 DEF Answers
  <2>8. EntryStays'
    BY <1>0, <1>2, <1>5, <2>1 DEF EntryStays
  <2>9. ASSUME Comparable' PROVE \A p \in Path : Lane(Flight', files'[p], server'.files[p], Loose', p)
    <3>1. ~overtaken /\ \A m \in carried \cap Settled(e.version) : m.version = e.version
      BY <2>1, <2>9 DEF Comparable
    <3>2. ~Stuck
      <4> SUFFICES ASSUME NEW m \in Lost, m.type # "update" \/ m \in carried PROVE FALSE
        BY DEF Stuck
      <4>1. m \in unacked /\ m \notin Flight /\ m.version \notin Savings(down)
        BY DEF Lost
      <4>2. m \notin Settled(e.version)
        BY <2>2, <2>4, <3>1, <4>1
      <4>3. m \in Lost'
        BY <1>6, <2>1, <2>2, <4>1, <4>2 DEF Lost
      <4> QED BY <1>2, <2>9, <4>3 DEF Comparable, Stuck
    <3>3. ~Resetting
      BY <1>5, <1>6, <1>11, <2>9 DEF Comparable, Resetting
    <3>4. Comparable
      BY <1>2, <2>9, <3>1, <3>2, <3>3 DEF Comparable
    <3>5. Loose \subseteq Loose'
      <4> SUFFICES ASSUME NEW u \in Loose PROVE u \in Loose'
        OBVIOUS
      <4>1. u \in unacked /\ u.type = "update" /\ u \notin Flight /\ \A v \in Savings(down) : u \notin Settled(v)
        BY DEF Loose
      <4>2. \A v : Settled(v)' \subseteq Settled(v)
        BY <2>1 DEF Settled
      <4> QED BY <1>6, <2>1, <2>2, <4>1, <4>2 DEF Loose
    <3> QED BY <1>0, <1>2, <1>6, <2>1, <3>4, <3>5, LaneLosesMore DEF Agreement
  <2> QED BY <1>1, <1>10, <2>6, <2>7, <2>8, <2>9 DEF UnsavedInv, Agreement
<1>12. CASE e.type # "saved"
  <2>1. unacked' = unacked
    BY <1>4, <1>12 DEF Receive
  <2>2. Savings(down') = Savings(down)
    BY <1>2, <1>3, <1>4, <1>12, SavingsTail
  <2>3. Lost' = Lost /\ Stuck' = Stuck
    BY <1>2, <1>6, <2>1, <2>2 DEF Lost, Stuck
  <2>4. Loose' = Loose
    BY <1>6, <2>1, <2>2 DEF Loose, Settled
  <2>5. Held'
    BY <1>0, <1>2, <1>6, <2>1 DEF Held, Wellformed
  <2>6. Answers'
    <3> SUFFICES ASSUME NEW i \in 1..Len(down')
                 PROVE  /\ down'[i].type = "project" => i = 1
                        /\ down'[i].type # "project" => down'[i].version <= server'.version
                        /\ down'[i].type = "files" =>
                             /\ down'[i].version = server'.version => down'[i].files = server'.files
                             /\ \E u \in unacked' :
                                  /\ u.version = down'[i].version /\ u.type # "update"
                                  /\ down'[i].reset => u.type = "reset"
                             /\ \A j \in 1..Len(down') :
                                  (down'[j].type = "saved" /\ down'[j].version = down'[i].version) => i < j
      BY DEF Answers
    <3>1. i + 1 \in 1..Len(down) /\ down'[i] = down[i + 1]
      BY <1>5
    <3>2. ASSUME down'[i].type = "files", NEW j \in 1..Len(down'),
                 down'[j].type = "saved", down'[j].version = down'[i].version
          PROVE  i < j
      <4>1. j + 1 \in 1..Len(down) /\ down'[j] = down[j + 1]
        BY <1>5
      <4>2. i + 1 < j + 1
        BY <1>0, <3>1, <3>2, <4>1 DEF Answers
      <4> QED BY <4>2
    <3> QED BY <1>0, <1>2, <1>9, <2>1, <3>1, <3>2 DEF Answers
  <2>7. files'[Entry] # Absent
    <3>1. e.files[Entry] # Absent /\ files[Entry] # Absent
      BY <1>0, <1>5, <1>12 DEF EntryStays
    <3> QED BY <1>3, <1>4, <1>12, <3>1 DEF Receive, Files
  <2>8. EntryStays'
    BY <1>0, <1>2, <1>5, <2>7 DEF EntryStays
  <2>9. ASSUME Comparable' PROVE \A p \in Path : Lane(Flight', files'[p], server'.files[p], Loose', p)
    <3>1. CASE e.type = "files"
      <4>1. /\ files' = IF e.version = version THEN e.files ELSE files
            /\ overtaken' = (overtaken \/ (e.reset /\ e.version # version))
        BY <1>4, <3>1 DEF Receive
      <4>2. CASE e.version = version
        <5>1. version <= server.version /\ (e.version = server.version => e.files = server.files)
          BY <1>0, <1>5, <3>1, <4>2 DEF Answers
        <5>2. e.files = server.files
          BY <1>3, <4>2, <5>1
        <5>3. Flight = {}
          BY <1>3, <1>7, <5>1
        <5> QED BY <1>2, <1>6, <4>1, <4>2, <5>2, <5>3, LaneOfNothing
      <4>3. CASE e.version # version
        <5>1. ~overtaken /\ ~e.reset /\ files' = files
          BY <2>9, <4>1, <4>3 DEF Comparable
        <5>2. ~Resetting
          BY <1>5, <1>6, <2>9, <5>1 DEF Comparable, Resetting
        <5>3. Comparable
          BY <1>2, <2>3, <2>9, <5>1, <5>2 DEF Comparable
        <5> QED BY <1>0, <1>2, <1>6, <2>4, <5>1, <5>3 DEF Agreement
      <4> QED BY <4>2, <4>3
    <3>2. CASE e.type = "project"
      <4>1. /\ files' = [p \in Path |-> IF p \in Dirty THEN files[p] ELSE e.files[p]]
            /\ overtaken' = overtaken
        BY <1>4, <3>2 DEF Receive
      <4>2. ~Resetting
        BY <1>5, <1>6, <2>9, <3>2 DEF Comparable, Resetting
      <4>3. Comparable
        BY <1>2, <2>3, <2>9, <4>1, <4>2 DEF Comparable
      <4>4. ASSUME NEW p \in Path PROVE Lane(Flight', files'[p], server'.files[p], Loose', p)
        <5>1. CASE p \in Dirty
          BY <1>0, <1>2, <1>6, <2>4, <4>1, <4>3, <5>1 DEF Agreement
        <5>2. CASE p \notin Dirty
          <6>1. files'[p] = server.files[p]
            BY <1>0, <1>5, <3>2, <4>1, <4>3, <5>2 DEF Agreement, Joined
          <6>2. \A m \in Flight : p \notin Touches(m)
            BY <1>7, <5>2 DEF Dirty, Touches, Wellformed
          <6> QED BY <1>2, <1>6, <6>1, <6>2, LaneOfSession
        <5> QED BY <5>1, <5>2
      <4> QED BY <4>4
    <3> QED BY <1>5, <1>12, <3>1, <3>2 DEF Heard
  <2> QED BY <1>1, <1>10, <2>5, <2>6, <2>8, <2>9 DEF UnsavedInv, Agreement
<1> QED BY <1>11, <1>12

-----------------------------------------------------------------------------
(* Connections.                                                            *)

\* What a new connection is told: the session's files, or nothing.
LEMMA JoinTold ==
  ASSUME NEW d, NEW f, d = <<[type |-> "project", files |-> f]>> \/ d = <<>>
  PROVE  /\ \A i \in 1..Len(d) : i = 1 /\ d[i].type = "project" /\ d[i].files = f
         /\ Savings(d) = {}
<1>1. \A i \in 1..Len(d) : i = 1 /\ d[i].type = "project" /\ d[i].files = f
  <2>1. CASE d = <<[type |-> "project", files |-> f]>>
    BY <2>1
  <2>2. CASE d = <<>>
    BY <2>2
  <2> QED BY <2>1, <2>2
<1> QED BY <1>1 DEF Savings

LEMMA OpenKeepsUnsaved ==
  ASSUME ClientConstants, UnsavedInv, Open
  PROVE  UnsavedInv'
<1>0. ClientInv /\ Held /\ Answers /\ EntryStays /\ Agreement
  BY DEF UnsavedInv
<1>1. ClientInv'
  BY <1>0, OpenKeeps
<1>2. /\ socket = "connecting" /\ socket' = "open" /\ server.live
      /\ UNCHANGED <<files, recovery, server, carried, overtaken>>
      /\ down' = IF shared THEN <<[type |-> "project", files |-> server.files]>> ELSE <<>>
  BY DEF Open
<1>3. /\ down = <<>> /\ Typed /\ Entry \in Path /\ files[Entry] # Absent /\ files[Entry] \in Content
      /\ pending \in Seq(Sent)
  BY <1>0, <1>2 DEF Held, ClientInv, ClientConstants, Typed, EntryStays, Files, Content
<1>4. /\ \A i \in 1..Len(down') : i = 1 /\ down'[i].type = "project" /\ down'[i].files = server.files
      /\ Savings(down') = {}
  BY <1>2, JoinTold
<1>5. (\A i \in 1..Len(down) : FALSE) /\ Savings(down) = {}
  BY <1>3 DEF Savings
<1>6. Answers' /\ EntryStays' /\ Joined'
  BY <1>0, <1>2, <1>4 DEF Answers, EntryStays, Joined
<1>7. CASE PushesEntry
  <2> DEFINE push == Message("update", Entry, Entry, files[Entry])
  <2>1. /\ version' = version + 1 /\ unacked' = unacked \cup {push}
        /\ up' = IF Oversized(push) THEN pending ELSE Append(pending, push)
    BY <1>7 DEF Open, Replayed
  <2>2. PICK m \in Sent : m = push /\ m.version = version + 1
    BY <1>3, MessageSent
  <2>3. m.type = "update" /\ m.path = Entry /\ m.to = Entry /\ m.text = files[Entry]
    BY <2>2 DEF Message
  <2>4. Wellformed(m)
    BY <1>3, <2>3 DEF Wellformed
  <2>5. PICK a \in SUBSET {m} : Took(m, {}, {}, a)
    <3>1. Flight = Elements(pending) /\ Flight' = Elements(up')
      BY <1>2 DEF Flight
    <3>2. CASE Oversized(m)
      <4>1. Flight' = Flight /\ unacked' = unacked \cup {m}
        BY <2>1, <2>2, <3>1, <3>2
      <4>2. Took(m, {}, {}, {})
        BY <2>3, <4>1 DEF Took
      <4>3. {} \in SUBSET {m}
        OBVIOUS
      <4> QED BY <4>2, <4>3
    <3>3. CASE ~Oversized(m)
      <4>1. Flight' = Flight \cup {m} /\ unacked' = unacked \cup {m}
        BY <1>3, <2>1, <2>2, <3>1, <3>3, ElementsAppend
      <4>2. Took(m, {}, {}, {m})
        BY <4>1 DEF Took
      <4>3. {m} \in SUBSET {m}
        OBVIOUS
      <4> QED BY <4>2, <4>3
    <3> QED BY <3>2, <3>3
  <2>6. Held'
    <3>1. {} \in SUBSET Flight /\ carried \subseteq carried' /\ m.type # "rename"
      BY <1>2, <2>3
    <3>2. (socket' = "open" => server'.live) /\ (socket' # "open" => down' = <<>>)
      BY <1>2
    <3> QED BY <1>0, <2>1, <2>2, <2>4, <2>5, <3>1, <3>2, HeldTakes
  <2>7. ASSUME Comparable' PROVE \A p \in Path : Lane(Flight', files'[p], server'.files[p], Loose', p)
    <3> DEFINE none == {}
    <3>1. none \in SUBSET Flight
      OBVIOUS
    <3>2. /\ \A u \in none : /\ u.type = "update" /\ u.path = m.path /\ m.type = "update" /\ a = {m}
                             /\ \A n \in Flight : u.version < n.version => n.type = "update"
          /\ \A u, w \in none : u = w
          /\ a = {} => m.type = "update" /\ none = {}
          /\ Flight' = ((Flight \ none) \ none) \cup a
          /\ unacked' = (unacked \ none) \cup {m}
      BY <2>5 DEF Took
    <3>3. Savings(down') = Savings(down)
      BY <1>4, <1>5
    <3>4. (\E i \in 1..Len(down) : down[i].type = "files" /\ down[i].reset)
            => (\E i \in 1..Len(down') : down'[i].type = "files" /\ down'[i].reset)
      BY <1>5
    <3>5. UNCHANGED <<server, overtaken>> /\ carried \subseteq carried'
      BY <1>2
    <3>6. m.type = "rename" => \A u \in unacked : u.type = "update" /\ u.path = m.path => u \in carried'
      BY <2>3
    <3>7. \A p \in Path : /\ p \in Touches(m) => Expects(m, p, files[p]) /\ files'[p] = Leaves(m, p)
                          /\ p \notin Touches(m) => files'[p] = files[p]
      BY <1>2, <1>3, <2>3 DEF Touches, Expects, Leaves
    <3> HIDE DEF none
    <3> QED BY <1>0, <2>2, <2>4, <2>7, <3>1, <3>2, <3>3, <3>4, <3>5, <3>6, <3>7, FlightTakes
  <2> QED BY <1>1, <1>6, <2>6, <2>7 DEF UnsavedInv, Agreement
<1>8. CASE ~PushesEntry
  <2>1. up' = pending /\ version' = version /\ unacked' = unacked
    BY <1>8 DEF Open
  <2>2. Flight' = Flight
    BY <1>2, <2>1 DEF Flight
  <2>3. Held'
    BY <1>0, <1>2, <2>1, <2>2 DEF Held, Wellformed
  <2>4. Lost' = Lost /\ Stuck' = Stuck /\ Loose' = Loose
    BY <1>2, <1>4, <1>5, <2>1, <2>2 DEF Lost, Stuck, Loose
  <2>5. Comparable' => Comparable
    BY <1>2, <1>5, <2>2, <2>4 DEF Comparable, Resetting
  <2> QED BY <1>0, <1>1, <1>2, <1>6, <2>2, <2>3, <2>4, <2>5 DEF UnsavedInv, Agreement
<1> QED BY <1>7, <1>8

LEMMA CloseKeepsUnsaved ==
  ASSUME ClientConstants, UnsavedInv, Close, socket = "open"
  PROVE  UnsavedInv'
<1>0. ClientInv /\ Held /\ Answers /\ EntryStays /\ Agreement
  BY DEF UnsavedInv
<1>1. ClientInv'
  BY <1>0, ConnectionsKeep
<1>2. /\ socket' = "closed" /\ down' = <<>>
      /\ UNCHANGED <<files, version, unacked, pending, recovery, server, carried, overtaken>>
  BY DEF Close
<1>3. Flight' = {} /\ Savings(down') = {} /\ version \in Nat
  <2>1. pending = <<>>
    BY <1>0 DEF ClientInv, Exclusive
  <2> QED BY <1>0, <1>2, <2>1 DEF Flight, Elements, Savings, ClientInv, Typed
<1>4. Held' /\ Answers' /\ EntryStays' /\ Joined'
  <2>1. Held'
    BY <1>0, <1>2, <1>3 DEF Held, Wellformed
  <2>2. \A i \in 1..Len(down') : FALSE
    BY <1>2
  <2> QED BY <1>0, <1>2, <2>1, <2>2 DEF Answers, EntryStays, Joined
<1>5. ASSUME Comparable' PROVE \A p \in Path : Lane(Flight', files'[p], server'.files[p], Loose', p)
  <2>1. Lost' = unacked
    BY <1>2, <1>3 DEF Lost
  <2>2. \A m \in unacked : m.type = "update" /\ m \notin carried
    BY <1>2, <1>5, <2>1 DEF Comparable, Stuck
  <2>3. ~Stuck
    BY <2>2 DEF Stuck, Lost
  <2>4. ~Resetting
    BY <1>0, <2>2 DEF Resetting, Held, Answers
  <2>5. Comparable
    BY <1>2, <1>5, <2>3, <2>4 DEF Comparable
  <2>6. Loose' = unacked
    BY <1>2, <1>3, <2>2 DEF Loose
  <2>7. Loose \subseteq Loose' /\ Flight \subseteq Loose'
    BY <1>0, <2>6 DEF Loose, Held
  <2>8. \A n \in Flight : /\ n.version \in Nat /\ n.version <= version
                          /\ n.type = "update" /\ Wellformed(n)
    BY <1>0, <2>2, FlightIs DEF Held
  <2>9. ASSUME NEW p \in Path PROVE Lane({}, files[p], server.files[p], Loose', p)
    <3>1. Lane(Flight, files[p], server.files[p], Loose, p)
      BY <1>0, <2>5 DEF Agreement
    <3> QED BY <1>3, <2>7, <2>8, <3>1, LaneLosesAll
  <2> QED BY <1>2, <1>3, <2>9
<1> QED BY <1>1, <1>4, <1>5 DEF UnsavedInv, Agreement

\* No connection is open, and what it would carry stays as it is.
LEMMA QuietKeepsUnsaved ==
  ASSUME UnsavedInv, ClientInv', socket # "open", socket' # "open",
         UNCHANGED <<files, version, unacked, pending, carried, overtaken>>, down' = <<>>,
         server' = server \/ ~server'.live,
         server'.files[Entry] # Absent, recovery'.files[Entry] # Absent
  PROVE  UnsavedInv'
<1>0. Held /\ EntryStays /\ Agreement
  BY DEF UnsavedInv
<1>1. Flight' = Flight /\ down' = down
  BY <1>0 DEF Flight, Held
<1>2. Held'
  BY <1>0, <1>1 DEF Held, Wellformed
<1>3. \A i \in 1..Len(down') : FALSE
  OBVIOUS
<1>4. Answers' /\ EntryStays'
  BY <1>0, <1>3 DEF Answers, EntryStays
<1>5. Lost' = Lost /\ Loose' = Loose /\ Stuck' = Stuck
  BY <1>1 DEF Lost, Loose, Stuck, Settled
<1>6. Agreement'
  <2>1. CASE server' = server
    <3>1. Comparable' => Comparable
      BY <1>1, <1>5, <2>1 DEF Comparable, Resetting
    <3> QED BY <1>0, <1>1, <1>3, <1>5, <2>1, <3>1 DEF Agreement, Joined
  <2>2. CASE ~server'.live
    BY <2>2 DEF Agreement, Comparable
  <2> QED BY <2>1, <2>2
<1> QED BY <1>2, <1>4, <1>6 DEF UnsavedInv

LEMMA ConnectionsKeepUnsaved ==
  ASSUME ClientConstants, UnsavedInv, Close \/ Retry \/ Expire \/ ForeignWrite
  PROVE  UnsavedInv'
<1>0. /\ ClientInv /\ Held /\ EntryStays /\ Typed
      /\ Entry \in Path /\ Foreign # Absent
  BY DEF UnsavedInv, ClientConstants, ClientInv
<1>1. ClientInv'
  BY <1>0, ConnectionsKeep
<1>2. CASE Close /\ socket = "open"
  BY <1>2, CloseKeepsUnsaved
<1>3. CASE (Close /\ socket # "open") \/ Retry
  <2>1. /\ socket # "open" /\ socket' # "open" /\ down' = <<>>
        /\ UNCHANGED <<files, version, unacked, pending, server, recovery, carried, overtaken>>
    BY <1>0, <1>3 DEF Close, Retry, Reconnects, Held
  <2>2. server'.files[Entry] # Absent /\ recovery'.files[Entry] # Absent
    BY <1>0, <2>1 DEF EntryStays
  <2> QED BY <1>1, <2>1, <2>2, QuietKeepsUnsaved
<1>4. CASE Expire
  <2>1. /\ socket # "open" /\ UNCHANGED <<files, version, unacked, pending, socket, down, recovery, carried, overtaken>>
        /\ server' = [server EXCEPT !.live = FALSE]
    BY <1>4 DEF Expire
  <2>2. ~server'.live /\ server'.files = server.files /\ down' = <<>>
    BY <1>0, <2>1 DEF Typed, Held
  <2>3. server'.files[Entry] # Absent /\ recovery'.files[Entry] # Absent
    BY <1>0, <2>1, <2>2 DEF EntryStays
  <2> QED BY <1>1, <2>1, <2>2, <2>3, QuietKeepsUnsaved
<1>5. CASE ForeignWrite
  <2>1. /\ ~server.live /\ UNCHANGED <<files, version, unacked, pending, socket, down, recovery, carried, overtaken>>
        /\ server' = [server EXCEPT !.files[Entry] = Foreign]
    BY <1>5 DEF ForeignWrite
  <2>2. ~server'.live /\ server'.files[Entry] = Foreign /\ socket # "open" /\ down' = <<>>
    BY <1>0, <2>1 DEF Typed, Held, Files
  <2>3. server'.files[Entry] # Absent /\ recovery'.files[Entry] # Absent
    BY <1>0, <2>1, <2>2 DEF EntryStays
  <2> QED BY <1>1, <2>1, <2>2, <2>3, QuietKeepsUnsaved
<1> QED BY <1>2, <1>3, <1>4, <1>5

LEMMA RecoveryKeepsUnsaved ==
  ASSUME ClientConstants, UnsavedInv, Recover \/ CopySaved \/ RecoveryFails \/ Adopt
  PROVE  UnsavedInv'
<1>0. /\ ClientInv /\ Held /\ EntryStays /\ Typed /\ Exclusive
      /\ Entry \in Path /\ Started[Entry] # Absent
  BY DEF UnsavedInv, ClientConstants, ClientInv, Started
<1>1. ClientInv'
  BY <1>0, RecoveryKeeps
<1>2. socket = "closed" /\ down = <<>>
  BY <1>0 DEF Recover, CopySaved, RecoveryFails, Adopt, Exclusive, Held
<1>3. CASE Recover \/ CopySaved \/ RecoveryFails
  <2>1. /\ socket' # "open" /\ down' = <<>>
        /\ UNCHANGED <<files, version, unacked, pending, server, carried, overtaken>>
    BY <1>2, <1>3 DEF Recover, CopySaved, RecoveryFails, Reconnects
  <2>2. recovery'.files[Entry] # Absent
    <3>1. CASE Recover
      BY <1>0, <3>1 DEF Recover, EntryStays
    <3>2. CASE CopySaved
      BY <1>0, <3>2 DEF CopySaved, EntryStays, Typed
    <3>3. CASE RecoveryFails
      BY <1>0, <3>3 DEF RecoveryFails, NoRecovery
    <3> QED BY <1>3, <3>1, <3>2, <3>3
  <2>3. server'.files[Entry] # Absent /\ socket # "open"
    BY <1>0, <1>2, <2>1 DEF EntryStays
  <2> QED BY <1>1, <2>1, <2>2, <2>3, QuietKeepsUnsaved
<1>4. CASE Adopt
  <2>1. /\ recovery' = NoRecovery /\ files' = Restored
        /\ server' = [live |-> TRUE, version |-> 1, files |-> Restored, initial |-> Restored[Entry]]
        /\ unacked' = {} /\ pending' = <<>> /\ socket' = "connecting" /\ down' = <<>>
    BY <1>2, <1>4 DEF Adopt
  <2>2. Flight' = {} /\ server'.files = Restored /\ recovery'.files = Started
    BY <2>1 DEF Flight, Elements, NoRecovery
  <2>3. Restored[Entry] # Absent
    BY <1>0 DEF Restored, EntryStays
  <2>4. \A i \in 1..Len(down') : FALSE
    BY <2>1
  <2>5. Held' /\ Answers' /\ EntryStays' /\ Joined'
    BY <1>0, <2>1, <2>2, <2>3, <2>4 DEF Held, Answers, EntryStays, Joined
  <2>6. \A p \in Path : Lane(Flight', files'[p], server'.files[p], Loose', p)
    BY <2>1, <2>2, LaneOfNothing
  <2> QED BY <1>1, <2>5, <2>6 DEF UnsavedInv, Agreement
<1> QED BY <1>3, <1>4

LEMMA UnsavedStarts == ClientConstants /\ ClientInit => UnsavedInv
<1> SUFFICES ASSUME ClientConstants, ClientInit PROVE UnsavedInv
  OBVIOUS
<1>1. ClientInv
  BY ClientStarts
<1>2. /\ files = Started /\ server.files = Started /\ recovery.files = Started
      /\ unacked = {} /\ socket = "connecting" /\ Flight = {} /\ down = <<>>
  BY DEF ClientInit, NoRecovery, Flight, Elements
<1>3. Started[Entry] # Absent
  BY DEF Started, ClientConstants
<1>4. \A i \in 1..Len(down) : FALSE
  BY <1>2
<1>5. Held /\ Answers /\ EntryStays /\ Joined
  BY <1>2, <1>3, <1>4 DEF Held, Answers, EntryStays, Joined
<1>6. \A p \in Path : Lane(Flight, files[p], server.files[p], Loose, p)
  BY <1>2, LaneOfNothing
<1> QED BY <1>1, <1>5, <1>6 DEF UnsavedInv, Agreement

LEMMA UnsavedSteps == ClientConstants /\ UnsavedInv /\ [ClientNext]_cvars => UnsavedInv'
<1> SUFFICES ASSUME ClientConstants, UnsavedInv, [ClientNext]_cvars PROVE UnsavedInv'
  OBVIOUS
<1>1. CASE UserActs
  BY <1>1, UserActsKeepUnsaved
<1>2. CASE ServerHandles
  BY <1>2, ServerKeepsUnsaved
<1>3. CASE Receive
  BY <1>3, ReceiveKeepsUnsaved
<1>4. CASE Open
  BY <1>4, OpenKeepsUnsaved
<1>5. CASE Close \/ Retry \/ Expire \/ ForeignWrite
  BY <1>5, ConnectionsKeepUnsaved
<1>6. CASE Recover \/ CopySaved \/ RecoveryFails \/ Adopt
  BY <1>6, RecoveryKeepsUnsaved
<1>7. CASE UNCHANGED cvars
  <2>0. ClientInv /\ Held /\ Answers /\ EntryStays /\ Agreement
    BY DEF UnsavedInv
  <2>1. UNCHANGED <<files, version, unacked, pending, socket, recovery, up, down, server, carried, overtaken>>
    BY <1>7 DEF cvars
  <2>2. ClientInv'
    BY <2>0, <2>1 DEF ClientInv, Typed, Exclusive, Numbered
  <2>3. Flight' = Flight /\ Dirty' = Dirty
    BY <2>1 DEF Flight, Dirty
  <2>4. Held' /\ Answers' /\ EntryStays'
    BY <2>0, <2>1, <2>3 DEF Held, Wellformed, Answers, EntryStays
  <2>5. Lost' = Lost /\ Loose' = Loose /\ Stuck' = Stuck /\ Resetting' = Resetting
    BY <2>1, <2>3 DEF Lost, Loose, Stuck, Settled, Resetting
  <2>6. Agreement'
    BY <2>0, <2>1, <2>3, <2>5 DEF Agreement, Comparable, Joined
  <2> QED BY <2>2, <2>4, <2>6 DEF UnsavedInv
<1> QED BY <1>1, <1>2, <1>3, <1>4, <1>5, <1>6, <1>7 DEF ClientNext

\* While the screen and the session can be compared, each file of the screen
\* is the session's with the messages under way and the updates lost applied
\* to it (sendRuntime, the message handlers, the open and close handlers).
THEOREM UnsavedInvariant == ClientSpec => []UnsavedInv
<1>1. ClientInit => UnsavedInv
  BY ClientAssumption, UnsavedStarts
<1>2. UnsavedInv /\ [ClientNext]_cvars => UnsavedInv'
  BY ClientAssumption, UnsavedSteps
<1> QED BY <1>1, <1>2, PTL DEF ClientSpec

\* A client that holds nothing unacknowledged shows what the session has:
\* recoverSession may take the empty unacknowledgedRef for "nothing unsaved".
\* For any number of files, versions and disconnections.
THEOREM UnsavedWorkIsKnown == ClientSpec => []UnsavedIsKnown
<1>1. UnsavedInv => UnsavedIsKnown
  <2> SUFFICES ASSUME UnsavedInv, server.live, socket = "open", up = <<>>, down = <<>>,
                      unacked = {}, ~overtaken
               PROVE  files = server.files
    BY DEF UnsavedIsKnown
  <2>1. Flight = {} /\ Lost = {} /\ Loose = {}
    BY DEF Flight, Elements, Lost, Loose
  <2>2. \A i \in 1..Len(down) : FALSE
    OBVIOUS
  <2>3. Comparable
    BY <2>1, <2>2 DEF Comparable, Stuck, Resetting
  <2>4. \A p \in Path : files[p] = server.files[p]
    BY <2>1, <2>3 DEF UnsavedInv, Agreement, Lane, Rest
  <2>5. files \in Files /\ server.files \in Files
    BY DEF UnsavedInv, ClientInv, Typed
  <2> QED BY <2>4, <2>5 DEF Files
<1> QED BY <1>1, UnsavedInvariant, PTL

-----------------------------------------------------------------------------
(* A recovery keeps the work it found.                                     *)

\* While a session is being replaced there is none, and until the file tree is
\* used what was captured is what is there.
Captured ==
  recovery.pc # "no" =>
    /\ ~server.live /\ recovery.version <= version
    /\ version = recovery.version =>
         files = recovery.files /\ recovery.unsaved = (unacked # {})

LEMMA CapturedSteps ==
  ASSUME ClientConstants, ClientInv, Captured, [ClientNext]_cvars
  PROVE  Captured'
<1>0. /\ Typed /\ Exclusive /\ version \in Nat /\ recovery.version \in Nat
      /\ recovery \in [pc : {"no", "copy", "create"}, unsaved : BOOLEAN, files : Files, version : Nat]
  BY DEF ClientInv, Typed
<1>1. CASE UserActs
  <2>1. version' = version + 1 /\ UNCHANGED <<recovery, server>>
    BY <1>1 DEF UserActs, Edit, Create, Delete, Rename, Reset, Sends, Message
  <2> QED BY <1>0, <2>1 DEF Captured
<1>2. CASE ServerHandles \/ Receive \/ Open
  <2>1. recovery.pc = "no" /\ recovery' = recovery
    BY <1>0, <1>2 DEF ServerHandles, Receive, Open, Exclusive
  <2> QED BY <2>1 DEF Captured
<1>3. CASE Close \/ Retry
  BY <1>3 DEF Close, Retry, Captured
<1>4. CASE Expire \/ ForeignWrite
  <2>1. UNCHANGED <<files, version, unacked, recovery>> /\ (recovery.pc # "no" => ~server'.live)
    BY <1>0, <1>4 DEF Expire, ForeignWrite, Captured, Typed
  <2> QED BY <2>1 DEF Captured
<1>5. CASE Recover
  BY <1>0, <1>5 DEF Recover, Captured
<1>6. CASE CopySaved
  <2>1. /\ recovery.pc # "no" /\ UNCHANGED <<files, version, unacked, server>>
        /\ recovery'.version = recovery.version /\ recovery'.files = recovery.files
        /\ recovery'.unsaved = recovery.unsaved
    BY <1>0, <1>6 DEF CopySaved
  <2> QED BY <2>1 DEF Captured
<1>7. CASE RecoveryFails \/ Adopt
  BY <1>7 DEF RecoveryFails, Adopt, NoRecovery, Captured
<1>8. CASE UNCHANGED cvars
  BY <1>8 DEF cvars, Captured
<1> QED BY <1>1, <1>2, <1>3, <1>4, <1>5, <1>6, <1>7, <1>8 DEF ClientNext

\* Everything unacknowledged, and on a scratch session everything shown, is on
\* screen and in the new session once recoverSession has replaced the old one.
THEOREM RecoveriesKeepTheWork == ClientSpec => RecoveryKeepsTheWork
<1>1. ClientInit => Captured
  BY DEF ClientInit, NoRecovery, Captured
<1>2. ClientInv /\ Captured /\ [ClientNext]_cvars => Captured'
  BY ClientAssumption, CapturedSteps
<1>3. ClientInv /\ Captured /\ [ClientNext]_cvars =>
        [(/\ recovery.pc = "create" /\ recovery'.pc = "no" /\ server'.live
          /\ version = recovery.version /\ (unacked # {} \/ ~shared))
           => files' = files /\ server'.files = files]_cvars
  <2> SUFFICES ASSUME ClientInv, Captured, ClientNext,
                      recovery.pc = "create", recovery'.pc = "no", server'.live,
                      version = recovery.version, unacked # {} \/ ~shared
               PROVE  files' = files /\ server'.files = files
    OBVIOUS
  <2>1. ~server.live /\ files = recovery.files /\ recovery.unsaved = (unacked # {})
    BY DEF Captured
  <2>2. Adopt
    <3>1. recovery' # recovery /\ server' # server
      BY <2>1
    <3> QED BY <3>1 DEF ClientNext, UserActs, Edit, Create, Delete, Rename, Reset, Sends,
                        ServerHandles, Receive, Open, Close, Retry, Expire, ForeignWrite,
                        Recover, CopySaved, RecoveryFails
  <2>3. Restored = files
    BY <2>1 DEF Restored, CopiesFirst
  <2> QED BY <2>2, <2>3 DEF Adopt
<1> QED BY <1>1, <1>2, <1>3, ClientInvariant, PTL DEF ClientSpec, RecoveryKeepsTheWork
=============================================================================
