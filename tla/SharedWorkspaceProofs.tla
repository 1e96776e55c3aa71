------------------------ MODULE SharedWorkspaceProofs ------------------------
(***************************************************************************)
(* What SharedWorkspace promises for any number of sessions, paths and     *)
(* writes, in two parts.                                                   *)
(*                                                                         *)
(* The revision protocol, whatever is lost to a full channel: the argument *)
(* is the edit lock (LockInv), the suffix of writes that State.writers     *)
(* stands for (SuffixInv) and the order of the revisions sent to each      *)
(* client (HeardInv).                                                      *)
(*                                                                         *)
(* What an undisturbed client sees: its next write is made to the files    *)
(* its user saw (NoBlindOverwrite), and once all has been delivered it     *)
(* shows what is on disk and has nothing unsaved (UndisturbedConverges).   *)
(* The argument follows a revision from the store to the screen.           *)
(* HistoryInv says what the log, the disk and the version numbers are to   *)
(* each other; ToldInv what each event on its way to a client tells it;    *)
(* ChanInv what each change on its way to a forwarder carries; ResetInv    *)
(* how a reset's files stand to the files sent before them; and SyncInv    *)
(* that an undisturbed client is apart, is joining, is about to be         *)
(* refused, or shows some revision with its own later writes made to it.   *)
(***************************************************************************)
EXTENDS SharedWorkspace, TLAPS

\* A handler between its check and its record holds the lock, has its write at
\* the head of the socket, and the base it checked is still good.
LockInv ==
  \A c \in Client : Admitted(c) =>
    /\ lock = c
    /\ toServer[c] # <<>>
    /\ WriterBaseOk(c, Head(toServer[c]).base)

\* State.writers tells who made every write after `start`.
SuffixInv ==
  /\ Len(log) = revision
  /\ writer # None => \A r \in 1..revision : r > start => log[r].by = writer

IInv == TypeOK /\ LockInv /\ SuffixInv

\* An event that tells its client a revision.
Dated(e) == e.type \in {"changed", "ack", "project", "conflict"}

\* One that was sent under the edit lock, with the revision of that moment.
OfItsTime(e) == e.type \in {"ack", "project", "conflict"}

\* What is on its way to a client that has heard `heard`, at revision `now`:
\* nothing tells of the future, and what was sent under the lock is not older
\* than what was heard or than anything sent before it.
InOrder(q, heard, now) ==
  /\ heard # None => heard <= now
  /\ \A i \in 1..Len(q) : Dated(q[i]) => q[i].revision <= now
  /\ \A i \in 1..Len(q) : OfItsTime(q[i]) =>
       /\ heard # None => heard <= q[i].revision
       /\ \A j \in 1..i : Dated(q[j]) => q[j].revision <= q[i].revision

\* The changes on their way to a forwarder carry revisions that were made.
Made(q, now) ==
  \A i \in 1..Len(q) : q[i].type = "document" => q[i].revision <= now

HeardInv ==
  \A c \in Client : InOrder(toClient[c], rev[c], revision) /\ Made(chan[c], revision)

-----------------------------------------------------------------------------
(* Types.                                                                  *)

LEMMA Queues ==
  ASSUME NEW S, NEW q \in Seq(S), q # <<>>
  PROVE  /\ Head(q) \in S /\ Tail(q) \in Seq(S)
         /\ \A x \in S : Append(q, x) # <<>> /\ Head(Append(q, x)) = Head(q)
BY SMT

LEMMA Singles ==
  ASSUME NEW S, NEW x \in S, NEW y \in S
  PROVE  <<x>> \in Seq(S) /\ <<x, y>> \in Seq(S)
BY SMT

LEMMA Events ==
  ASSUME NEW n \in Nat
  PROVE  /\ [type |-> "ack", revision |-> n] \in Event
         /\ [type |-> "conflict", revision |-> n] \in Event
         /\ [type |-> "saved", version |-> n] \in Event
         /\ \A f \in Files :
              /\ [type |-> "project", files |-> f, revision |-> n] \in Event
              /\ [type |-> "files", files |-> f, version |-> n] \in Event
         /\ \A p \in Path, t \in Text :
              [type |-> "changed", path |-> p, text |-> t, revision |-> n] \in Event
BY DEF Event

LEMMA EventParts ==
  ASSUME NEW e \in Event
  PROVE  /\ e.type \in {"changed", "ack", "project", "conflict"} => e.revision \in Nat
         /\ e.type \in {"project", "files"} => e.files \in Files
         /\ e.type = "changed" => e.path \in Path /\ e.text \in Text
BY DEF Event

LEMMA Changes ==
  ASSUME NEW c \in Client
  PROVE  /\ [type |-> "files", origin |-> c] \in Change
         /\ \A p \in Path, t \in Text, n \in Nat :
              [type |-> "document", origin |-> c, path |-> p, text |-> t,
               revision |-> n] \in Change
BY DEF Change

LEMMA ChangeParts ==
  ASSUME NEW d \in Change, d.type = "document"
  PROVE  d.path \in Path /\ d.text \in Text /\ d.revision \in Nat
BY DEF Change

LEMMA WriteParts ==
  ASSUME NEW w \in Write
  PROVE  /\ w.op \in AllOps /\ w.path \in Path /\ w.to \in Path
         /\ w.text \in Text /\ w.version \in Nat
BY DEF Write

LEMMA AppliedType ==
  ASSUME NEW w \in Write, NEW files \in Files
  PROVE  Applied(w, files) \in Files
BY DEF Applied, Write, Files, AllOps

LEMMA Sent ==
  ASSUME TypeOK, NEW c \in Client, NEW events \in Seq(Event), Send(c, events)
  PROVE  toClient' \in [Client -> Seq(Event)]
BY DEF TypeOK, Send

LEMMA Given ==
  ASSUME TypeOK, NEW c \in Client, NextEvent(c)
  PROVE  /\ Head(toClient[c]) \in Event
         /\ toClient' \in [Client -> Seq(Event)]
<1>1. toClient[c] \in Seq(Event) /\ toClient[c] # <<>>
  BY DEF TypeOK, NextEvent
<1>2. Head(toClient[c]) \in Event /\ Tail(toClient[c]) \in Seq(Event)
  BY <1>1, Queues
<1> QED
  BY <1>2 DEF TypeOK, NextEvent

LEMMA Taken ==
  ASSUME TypeOK, NEW c \in Client, toServer[c] # <<>>
  PROVE  Head(toServer[c]) \in Write /\ Tail(toServer[c]) \in Seq(Write)
<1>1. toServer[c] \in Seq(Write)
  BY DEF TypeOK
<1> QED
  BY <1>1, Queues

LEMMA OpenType ==
  ASSUME TypeOK, NEW c \in Client, Open(c)
  PROVE  TypeOK'
BY DEF Open, TypeOK, store, server, shown, made

LEMMA SubscribeType ==
  ASSUME TypeOK, NEW c \in Client, Subscribe(c)
  PROVE  TypeOK'
BY DEF Subscribe, TypeOK, store, server, shown, made

LEMMA JoinType ==
  ASSUME TypeOK, NEW c \in Client, Join(c)
  PROVE  TypeOK'
<1>1. toClient' \in [Client -> Seq(Event)]
  <2> DEFINE e == [type |-> "ack", revision |-> revision]
             f == [type |-> "project", files |-> disk, revision |-> revision]
  <2>1. e \in Event /\ f \in Event
    BY Events DEF TypeOK
  <2>2. Send(c, <<e, f>>)
    BY DEF Join
  <2> HIDE DEF e, f
  <2> QED
    BY <2>1, <2>2, Singles, Sent
<1> QED
  BY <1>1 DEF Join, TypeOK, store, server, shown, made

LEMMA RefuseType ==
  ASSUME TypeOK, NEW c \in Client, Refuse(c)
  PROVE  TypeOK'
<1>1. toClient' \in [Client -> Seq(Event)]
  <2> DEFINE e == [type |-> "conflict", revision |-> revision]
  <2>1. e \in Event
    BY Events DEF TypeOK
  <2>2. Send(c, <<e>>)
    BY DEF Refuse
  <2> HIDE DEF e
  <2> QED
    BY <2>1, <2>2, Singles, Sent
<1>2. toServer' \in [Client -> Seq(Write)]
  BY Taken DEF Refuse, Takes, TypeOK
<1> QED
  BY <1>1, <1>2 DEF Refuse, TypeOK, store, server, shown, made

LEMMA AdmitType ==
  ASSUME TypeOK, NEW c \in Client, Admit(c)
  PROVE  TypeOK'
BY DEF Admit, Takes, TypeOK, store, server, shown, made

LEMMA StoreType ==
  ASSUME TypeOK, LockInv, NEW c \in Client, Store(c)
  PROVE  TypeOK'
<1> DEFINE w == Head(toServer[c])
<1>1. w \in Write /\ Tail(toServer[c]) \in Seq(Write)
  BY Taken DEF LockInv, Admitted, Store
<1>2. Applied(w, disk) \in Files /\ Applied(w, catalog[c]) \in Files
  BY <1>1, AppliedType DEF TypeOK
<1>3. toClient' \in [Client -> Seq(Event)]
  <2> DEFINE e == [type |-> "files", files |-> Applied(w, catalog[c]),
                   version |-> w.version]
  <2>1. e \in Event
    BY <1>1, <1>2, WriteParts, Events
  <2>2. w.op # "update" => Send(c, <<e>>)
    BY DEF Store
  <2>3. w.op = "update" => toClient' = toClient
    BY DEF Store
  <2> HIDE DEF e
  <2> QED
    BY <2>1, <2>2, <2>3, Singles, Sent DEF TypeOK
<1> QED
  BY <1>1, <1>2, <1>3 DEF Store, TypeOK, store, server, shown, made

LEMMA StoreFailsType ==
  ASSUME TypeOK, LockInv, NEW c \in Client, StoreFails(c)
  PROVE  TypeOK'
<1> DEFINE w == Head(toServer[c])
<1>1. w \in Write /\ Tail(toServer[c]) \in Seq(Write)
  BY Taken DEF LockInv, Admitted, StoreFails
<1> QED
  BY <1>1 DEF StoreFails, TypeOK, store, server, shown, made

LEMMA RecordType ==
  ASSUME TypeOK, LockInv, NEW c \in Client, Record(c)
  PROVE  TypeOK'
<1> DEFINE w == Head(toServer[c])
<1>1. w \in Write /\ Tail(toServer[c]) \in Seq(Write)
  BY Taken DEF LockInv, Admitted, Record
<1>2. /\ revision' \in Nat /\ start' \in Nat
      /\ writer' \in Client \cup {None} /\ log' \in Seq(Entered)
  <2> DEFINE entry == [by |-> c, write |-> w, files |-> disk]
  <2>1. entry \in Entered
    BY <1>1 DEF Entered, TypeOK
  <2>2. log' = Append(log, entry) /\ log \in Seq(Entered)
    BY DEF Record, Advance, TypeOK
  <2> HIDE DEF entry
  <2>3. log' \in Seq(Entered)
    BY <2>1, <2>2
  <2> QED
    BY <2>3 DEF Record, Advance, TypeOK
<1>3. toClient' \in [Client -> Seq(Event)]
  <2> DEFINE e == [type |-> "ack", revision |-> revision + 1]
             f == [type |-> "saved", version |-> w.version]
  <2>1. e \in Event /\ f \in Event
    <3>1. w.version \in Nat /\ revision + 1 \in Nat
      BY <1>1, WriteParts DEF TypeOK
    <3> HIDE DEF w
    <3> QED
      BY <3>1, Events
  <2>2. Send(c, <<e, f>>)
    BY DEF Record
  <2> HIDE DEF e, f
  <2> QED
    BY <2>1, <2>2, Singles, Sent
<1>4. chan' \in [Client -> Seq(Change)] /\ clean' \in [Client -> BOOLEAN]
  <2> DEFINE change == IF w.op = "update"
                 THEN [type |-> "document", origin |-> c, path |-> w.path,
                       text |-> w.text, revision |-> revision + 1]
                 ELSE [type |-> "files", origin |-> c]
  <2>1. change \in Change
    <3>1. w.path \in Path /\ w.text \in Text /\ revision + 1 \in Nat
      BY <1>1, WriteParts DEF TypeOK
    <3> HIDE DEF w
    <3> QED
      BY <3>1, Changes
  <2> HIDE DEF change
  <2>2. ASSUME NEW d \in Client PROVE Delivered(d, change) \in Seq(Change)
    <3> DEFINE q == Append(chan[d], change)
    <3>1. chan[d] \in Seq(Change)
      BY DEF TypeOK
    <3>2. q \in Seq(Change) /\ q # <<>>
      BY <2>1, <3>1
    <3>3. Tail(q) \in Seq(Change)
      BY <3>2, Queues
    <3> QED
      BY <3>1, <3>2, <3>3 DEF Delivered
  <2>3. Broadcast(change)
    BY DEF Record, change
  <2>4. \A d \in Client : (clean[d] /\ ~Loses(d)) \in BOOLEAN
    OBVIOUS
  <2>5. chan' = [d \in Client |-> Delivered(d, change)]
        /\ clean' = [d \in Client |-> clean[d] /\ ~Loses(d)]
    BY <2>3 DEF Broadcast
  <2>6. chan' \in [Client -> Seq(Change)]
    BY <2>2, <2>5
  <2>7. clean' \in [Client -> BOOLEAN]
    BY <2>4, <2>5, Zenon
  <2> QED
    BY <2>6, <2>7
<1> QED
  BY <1>1, <1>2, <1>3, <1>4 DEF Record, TypeOK, store, server, shown, made

LEMMA Received ==
  ASSUME TypeOK, NEW c \in Client, Receives(c)
  PROVE  Head(chan[c]) \in Change /\ chan' \in [Client -> Seq(Change)]
<1>1. chan[c] \in Seq(Change) /\ chan[c] # <<>>
  BY DEF TypeOK, Receives
<1>2. Head(chan[c]) \in Change /\ Tail(chan[c]) \in Seq(Change)
  BY <1>1, Queues
<1> QED
  BY <1>2 DEF TypeOK, Receives

LEMMA ForwardEchoType ==
  ASSUME TypeOK, NEW c \in Client, ForwardEcho(c)
  PROVE  TypeOK'
<1>1. Head(chan[c]) \in Change /\ chan' \in [Client -> Seq(Change)]
  BY Received DEF ForwardEcho
<1> QED
  BY <1>1 DEF ForwardEcho, TypeOK, store, server, shown, made

LEMMA ForwardDocumentType ==
  ASSUME TypeOK, NEW c \in Client, ForwardDocument(c)
  PROVE  TypeOK'
<1>1. Head(chan[c]) \in Change /\ chan' \in [Client -> Seq(Change)]
  BY Received DEF ForwardDocument
<1>2. toClient' \in [Client -> Seq(Event)]
  <2> DEFINE d == Head(chan[c])
  <2>1. d.path \in Path /\ d.text \in Text /\ d.revision \in Nat
    BY <1>1, ChangeParts DEF ForwardDocument
  <2> DEFINE e == [type |-> "changed", path |-> d.path, text |-> d.text,
                   revision |-> d.revision]
  <2>2. e \in Event
    BY <2>1, Events
  <2>3. Send(c, <<e>>)
    BY DEF ForwardDocument
  <2> HIDE DEF e
  <2> QED
    BY <2>2, <2>3, Singles, Sent
<1> QED
  BY <1>1, <1>2 DEF ForwardDocument, TypeOK, store, server, shown, made

LEMMA ForwardFilesType ==
  ASSUME TypeOK, NEW c \in Client, ForwardFiles(c)
  PROVE  TypeOK'
<1>1. Head(chan[c]) \in Change /\ chan' \in [Client -> Seq(Change)]
  BY Received DEF ForwardFiles
<1>2. toClient' \in [Client -> Seq(Event)]
  <2> DEFINE e == [type |-> "project", files |-> disk, revision |-> revision]
  <2>1. e \in Event
    BY Events DEF TypeOK
  <2>2. Send(c, <<e>>)
    BY DEF ForwardFiles
  <2> HIDE DEF e
  <2> QED
    BY <2>1, <2>2, Singles, Sent
<1> QED
  BY <1>1, <1>2 DEF ForwardFiles, TypeOK, store, server, shown, made

\* What a client makes is a well-formed write.
LEMMA MadeWrite ==
  ASSUME TypeOK, NEW c \in Client, NEW op, NEW p \in Path, NEW to \in Path,
         Make(c, op, p, to)
  PROVE  [op |-> op, path |-> p, to |-> to, text |-> <<c, ver[c] + 1>>,
          version |-> ver[c] + 1, base |-> rev[c], seen |-> screen[c],
          blind |-> p \in skipped[c]] \in Write
<1>1. op \in AllOps /\ ver[c] + 1 \in Nat /\ rev[c] \in Heard
  BY InputAssumption DEF Make, TypeOK
<1>2. <<c, ver[c] + 1>> \in Text /\ screen[c] \in Files
  BY <1>1 DEF TypeOK, Text
<1> QED
  BY <1>1, <1>2 DEF Write

LEMMA MakeType ==
  ASSUME TypeOK, NEW c \in Client, NEW op, NEW p \in Path, NEW to \in Path,
         Make(c, op, p, to)
  PROVE  TypeOK'
<1> DEFINE w == [op |-> op, path |-> p, to |-> to, text |-> <<c, ver[c] + 1>>,
                 version |-> ver[c] + 1, base |-> rev[c], seen |-> screen[c],
                 blind |-> p \in skipped[c]]
<1>1. w \in Write
  BY MadeWrite
<1>2. screen[c] \in Files /\ Applied(w, screen[c]) \in Files
  BY <1>1, AppliedType DEF TypeOK
<1>3. /\ ver' = [ver EXCEPT ![c] = w.version]
      /\ screen' = [screen EXCEPT ![c] = IF op = "reset" THEN @ ELSE Applied(w, @)]
      /\ unsaved' = [unsaved EXCEPT ![c] = @ \cup {w}]
      /\ toServer' = [toServer EXCEPT ![c] = Append(@, w)]
      /\ skipped' = [skipped EXCEPT ![c] = @ \ {p}]
  BY DEF Make
<1>4. w.version \in Nat
  BY <1>1, WriteParts
<1> HIDE DEF w
<1>5. /\ ver' \in [Client -> Nat]
      /\ screen' \in [Client -> Files]
      /\ unsaved' \in [Client -> SUBSET Write]
      /\ toServer' \in [Client -> Seq(Write)]
      /\ skipped' \in [Client -> SUBSET Path]
  BY <1>1, <1>2, <1>3, <1>4 DEF TypeOK
<1>6. clean' \in [Client -> BOOLEAN]
  BY DEF Make, TypeOK
<1> QED
  BY <1>5, <1>6 DEF Make, TypeOK, store, server, shown, made

LEMMA HearStaleType ==
  ASSUME TypeOK, NEW c \in Client, HearStale(c)
  PROVE  TypeOK'
<1>1. Head(toClient[c]) \in Event /\ toClient' \in [Client -> Seq(Event)]
  BY Given DEF HearStale
<1> QED
  BY <1>1 DEF HearStale, TypeOK, store, server, shown, made

LEMMA HearRevisionType ==
  ASSUME TypeOK, NEW c \in Client, HearRevision(c)
  PROVE  TypeOK'
<1>1. Head(toClient[c]) \in Event /\ toClient' \in [Client -> Seq(Event)]
  BY Given DEF HearRevision
<1>2. rev' \in [Client -> Heard]
  BY <1>1, EventParts DEF HearRevision, TypeOK, Heard
<1> QED
  BY <1>1, <1>2 DEF HearRevision, TypeOK, store, server, shown, made

LEMMA HearChangedType ==
  ASSUME TypeOK, NEW c \in Client, HearChanged(c)
  PROVE  TypeOK'
<1>1. Head(toClient[c]) \in Event /\ toClient' \in [Client -> Seq(Event)]
  BY Given DEF HearChanged
<1>2. rev' \in [Client -> Heard]
  BY <1>1, EventParts DEF HearChanged, TypeOK, Heard
<1>3. remote' \in [Client -> [path : Path, text : Text] \cup {Nothing}]
  BY <1>1, EventParts DEF HearChanged, TypeOK
<1>4. clean' \in [Client -> BOOLEAN]
  BY DEF HearChanged, TypeOK
<1> QED
  BY <1>1, <1>2, <1>3, <1>4 DEF HearChanged, TypeOK, store, server, shown, made

LEMMA HearProjectType ==
  ASSUME TypeOK, NEW c \in Client, HearProject(c)
  PROVE  TypeOK'
<1>1. Head(toClient[c]) \in Event /\ toClient' \in [Client -> Seq(Event)]
  BY Given DEF HearProject
<1>2. rev' \in [Client -> Heard]
  BY <1>1, EventParts DEF HearProject, TypeOK, Heard
<1>3. screen' \in [Client -> Files]
  <2> DEFINE event == Head(toClient[c])
             dirty == UNION {Named(w) : w \in unsaved[c]}
             merged == [p \in Path |-> IF p \in dirty THEN screen[c][p]
                                                      ELSE event.files[p]]
  <2>1. event.files \in Files /\ screen[c] \in Files
    BY <1>1, EventParts DEF HearProject, TypeOK
  <2>2. merged \in Files
    BY <2>1 DEF Files
  <2>3. screen' = [screen EXCEPT ![c] = merged]
    BY DEF HearProject
  <2> HIDE DEF merged
  <2> QED
    BY <2>2, <2>3 DEF TypeOK
<1>4. skipped' \in [Client -> SUBSET Path]
  BY DEF HearProject, TypeOK
<1>5. clean' \in [Client -> BOOLEAN]
  BY DEF HearProject, TypeOK
<1> QED
  BY <1>1, <1>2, <1>3, <1>4, <1>5 DEF HearProject, TypeOK, store, server, shown, made

LEMMA HearFilesType ==
  ASSUME TypeOK, NEW c \in Client, HearFiles(c)
  PROVE  TypeOK'
<1>1. Head(toClient[c]) \in Event /\ toClient' \in [Client -> Seq(Event)]
  BY Given DEF HearFiles
<1>2. screen' \in [Client -> Files] /\ skipped' \in [Client -> SUBSET Path]
  BY <1>1, EventParts DEF HearFiles, TypeOK
<1>3. clean' \in [Client -> BOOLEAN]
  BY DEF HearFiles, TypeOK
<1> QED
  BY <1>1, <1>2, <1>3 DEF HearFiles, TypeOK, store, server, shown, made

LEMMA HearSavedType ==
  ASSUME TypeOK, NEW c \in Client, HearSaved(c)
  PROVE  TypeOK'
<1>1. Head(toClient[c]) \in Event /\ toClient' \in [Client -> Seq(Event)]
  BY Given DEF HearSaved
<1>2. unsaved' \in [Client -> SUBSET Write]
  BY DEF HearSaved, TypeOK
<1> QED
  BY <1>1, <1>2 DEF HearSaved, TypeOK, store, server, shown, made

LEMMA ShowRemoteType ==
  ASSUME TypeOK, NEW c \in Client, ShowRemote(c)
  PROVE  TypeOK'
<1>1. remote[c] \in [path : Path, text : Text]
  BY DEF ShowRemote, TypeOK
<1>2. screen' \in [Client -> Files] /\ skipped' \in [Client -> SUBSET Path]
  BY <1>1 DEF ShowRemote, TypeOK, Files
<1>3. remote' \in [Client -> [path : Path, text : Text] \cup {Nothing}]
  BY DEF ShowRemote, TypeOK
<1> QED
  BY <1>2, <1>3 DEF ShowRemote, TypeOK, store, server, shown, made

LEMMA SkipRemoteType ==
  ASSUME TypeOK, NEW c \in Client, SkipRemote(c)
  PROVE  TypeOK'
<1>1. remote[c] \in [path : Path, text : Text]
  BY DEF SkipRemote, TypeOK
<1>2. skipped' \in [Client -> SUBSET Path]
  <2> DEFINE p == remote[c].path
  <2>1. p \in Path
    BY <1>1
  <2>2. \/ skipped' = skipped
        \/ skipped' = [skipped EXCEPT ![c] = @ \cup {p}]
    BY DEF SkipRemote
  <2> HIDE DEF p
  <2>3. skipped[c] \cup {p} \in SUBSET Path
    BY <2>1 DEF TypeOK
  <2> QED
    BY <2>2, <2>3 DEF TypeOK
<1>3. clean' \in [Client -> BOOLEAN]
  BY DEF SkipRemote, TypeOK
<1>4. remote' \in [Client -> [path : Path, text : Text] \cup {Nothing}]
  BY DEF SkipRemote, TypeOK
<1> QED
  BY <1>2, <1>3, <1>4 DEF SkipRemote, TypeOK, store, server, shown, made

LEMMA TypeStep ==
  ASSUME TypeOK, LockInv, [Next]_vars
  PROVE  TypeOK'
<1>1. CASE UNCHANGED vars
  BY <1>1 DEF TypeOK, vars, store, server, shown, made
<1>2. ASSUME NEW c \in Client, Connect(c) PROVE TypeOK'
  BY <1>2, OpenType, SubscribeType, JoinType DEF Connect
<1>3. ASSUME NEW c \in Client, Handle(c) PROVE TypeOK'
  BY <1>3, RefuseType, AdmitType, StoreType, StoreFailsType, RecordType DEF Handle
<1>4. ASSUME NEW c \in Client, Forward(c) PROVE TypeOK'
  BY <1>4, ForwardEchoType, ForwardDocumentType, ForwardFilesType DEF Forward
<1>5. ASSUME NEW c \in Client, UserWrites(c) PROVE TypeOK'
  <2>1. Entry \in Path
    BY FileAssumption
  <2> QED
    BY <1>5, <2>1, MakeType DEF UserWrites, Update, Create, Rename, Delete, Reset
<1>6. ASSUME NEW c \in Client, Hear(c) PROVE TypeOK'
  BY <1>6, HearStaleType, HearRevisionType, HearChangedType, HearProjectType,
     HearFilesType, HearSavedType DEF Hear
<1> QED
  BY <1>1, <1>2, <1>3, <1>4, <1>5, <1>6, ShowRemoteType, SkipRemoteType DEF Next

-----------------------------------------------------------------------------
(* The lock and the suffix of writes.                                      *)

\* Only the handler and the user's writes touch what the two invariants are about.
LEMMA Untouched ==
  ASSUME LockInv, SuffixInv,
         UNCHANGED <<revision, writer, start, log, lock, stage, toServer>>
  PROVE  LockInv' /\ SuffixInv'
BY DEF LockInv, SuffixInv, Admitted, WriterBaseOk

\* Nobody is at work while the lock is free; only its holder is while it is not.
LEMMA OneAtWork ==
  ASSUME LockInv, NEW c \in Client, lock = None \/ lock = c
  PROVE  \A d \in Client : d # c => ~Admitted(d)
BY NoneAssumption DEF LockInv

LEMMA HandleStep ==
  ASSUME TypeOK, LockInv, SuffixInv, NEW c \in Client, Handle(c)
  PROVE  LockInv' /\ SuffixInv'
<1> USE DEF Admitted
<1>1. CASE Refuse(c)
  <2>1. /\ UNCHANGED <<revision, writer, start, log, lock, stage>>
        /\ \A d \in Client : d # c => toServer'[d] = toServer[d]
        /\ stage[c] = "idle"
    BY <1>1 DEF Refuse, Takes, store, server, TypeOK
  <2> QED
    BY <2>1 DEF LockInv, SuffixInv, WriterBaseOk
<1>2. CASE Admit(c)
  <2>1. /\ UNCHANGED <<revision, writer, start, log, toServer>>
        /\ lock = None /\ lock' = c
        /\ \A d \in Client : d # c => stage'[d] = stage[d]
        /\ toServer[c] # <<>> /\ WriterBaseOk(c, Head(toServer[c]).base)
    BY <1>2 DEF Admit, Takes, store, TypeOK
  <2>2. \A d \in Client : d # c => ~Admitted(d)
    BY <2>1, OneAtWork
  <2> QED
    BY <2>1, <2>2 DEF LockInv, SuffixInv, WriterBaseOk
<1>3. CASE Store(c)
  <2>1. /\ UNCHANGED <<revision, writer, start, log, lock, toServer>>
        /\ \A d \in Client : d # c => stage'[d] = stage[d]
        /\ stage[c] = "checked"
    BY <1>3 DEF Store, TypeOK
  <2> QED
    BY <2>1 DEF LockInv, SuffixInv, WriterBaseOk
<1>4. CASE StoreFails(c)
  <2>1. /\ UNCHANGED <<revision, writer, start, log>>
        /\ \A d \in Client : d # c => stage'[d] = stage[d]
        /\ stage[c] = "checked" /\ stage'[c] = "idle"
    BY <1>4 DEF StoreFails, store, TypeOK
  <2>2. \A d \in Client : d # c => ~Admitted(d)
    BY <2>1, OneAtWork DEF LockInv
  <2> QED
    BY <2>1, <2>2 DEF LockInv, SuffixInv
<1>5. CASE Record(c)
  <2>1. /\ Advance(c)
        /\ \A d \in Client : d # c => stage'[d] = stage[d]
        /\ stage[c] = "stored" /\ stage'[c] = "idle"
    BY <1>5 DEF Record, TypeOK
  <2>2. \A d \in Client : d # c => ~Admitted(d)
    BY <2>1, OneAtWork DEF LockInv
  <2>3. LockInv'
    BY <2>1, <2>2 DEF LockInv
  <2>4. /\ Len(log') = revision'
        /\ log'[revision + 1].by = c
        /\ \A r \in 1..revision : log'[r] = log[r]
    <3>1. log \in Seq(Entered) /\ Len(log) = revision /\ revision \in Nat
      BY DEF SuffixInv, TypeOK
    <3>2. /\ log' = Append(log, [by |-> c, write |-> Head(toServer[c]), files |-> disk])
          /\ revision' = revision + 1
      BY <2>1 DEF Advance
    <3> QED
      BY <3>1, <3>2
  <2>5. \A r \in 1..revision' : r > start' => log'[r].by = c
    <3>1. CASE writer = c
      BY <2>1, <2>4, <3>1, NoneAssumption DEF Advance, SuffixInv, TypeOK
    <3>2. CASE writer # c
      BY <2>1, <2>4, <3>2 DEF Advance, TypeOK
    <3> QED
      BY <3>1, <3>2
  <2> QED
    BY <2>1, <2>3, <2>4, <2>5 DEF SuffixInv, Advance
<1> QED
  BY <1>1, <1>2, <1>3, <1>4, <1>5 DEF Handle

\* A write is added behind the one being handled.
LEMMA MakeStep ==
  ASSUME TypeOK, LockInv, SuffixInv, NEW c \in Client,
         NEW op, NEW p \in Path, NEW to \in Path, Make(c, op, p, to)
  PROVE  LockInv' /\ SuffixInv'
<1>1. PICK w \in Write : toServer' = [toServer EXCEPT ![c] = Append(@, w)]
  BY MadeWrite DEF Make
<1>2. UNCHANGED <<revision, writer, start, log, lock, stage>>
  BY DEF Make, store, server
<1>3. \A d \in Client : toServer[d] # <<>> =>
        toServer'[d] # <<>> /\ Head(toServer'[d]) = Head(toServer[d])
  <2> SUFFICES ASSUME NEW d \in Client, toServer[d] # <<>>
               PROVE  toServer'[d] # <<>> /\ Head(toServer'[d]) = Head(toServer[d])
    OBVIOUS
  <2>1. toServer[d] \in Seq(Write)
    BY DEF TypeOK
  <2>2. toServer'[d] \in {toServer[d], Append(toServer[d], w)}
    BY <1>1 DEF TypeOK
  <2>3. /\ Append(toServer[d], w) # <<>>
        /\ Head(Append(toServer[d], w)) = Head(toServer[d])
    BY <2>1, Queues
  <2> QED
    BY <2>2, <2>3
<1> QED
  BY <1>2, <1>3 DEF LockInv, SuffixInv, Admitted, WriterBaseOk

LEMMA ProtocolStep ==
  ASSUME TypeOK, LockInv, SuffixInv, [Next]_vars
  PROVE  LockInv' /\ SuffixInv'
<1>1. CASE UNCHANGED vars
  BY <1>1, Untouched DEF vars, store, server
<1>2. ASSUME NEW c \in Client, Connect(c) PROVE LockInv' /\ SuffixInv'
  BY <1>2, Untouched DEF Connect, Open, Subscribe, Join, store
<1>3. ASSUME NEW c \in Client, Forward(c) PROVE LockInv' /\ SuffixInv'
  BY <1>3, Untouched DEF Forward, ForwardEcho, ForwardDocument, ForwardFiles, store
<1>4. ASSUME NEW c \in Client, UserWrites(c) PROVE LockInv' /\ SuffixInv'
  <2>1. Entry \in Path
    BY FileAssumption
  <2> QED
    BY <1>4, <2>1, MakeStep DEF UserWrites, Update, Create, Rename, Delete, Reset
<1>5. ASSUME NEW c \in Client, Hear(c) \/ ShowRemote(c) \/ SkipRemote(c)
      PROVE LockInv' /\ SuffixInv'
  BY <1>5, Untouched DEF Hear, HearStale, HearRevision, HearChanged, HearProject,
     HearFiles, HearSaved, ShowRemote, SkipRemote, store, server
<1> QED
  BY <1>1, <1>2, <1>3, <1>4, <1>5, HandleStep DEF Next

-----------------------------------------------------------------------------
(* The revisions a client is told.                                         *)

\* An event of now, put behind the others.
LEMMA SentLater ==
  ASSUME NEW q \in Seq(Event), NEW heard, NEW now \in Nat, NEW e \in Event,
         InOrder(q, heard, now),
         Dated(e) => e.revision <= now,
         OfItsTime(e) => e.revision = now
  PROVE  InOrder(Append(q, e), heard, now)
<1> DEFINE r == Append(q, e)
<1>1. /\ Len(q) \in Nat /\ Len(r) = Len(q) + 1
      /\ \A i \in 1..Len(q) : r[i] = q[i]
      /\ r[Len(q) + 1] = e
  OBVIOUS
<1> HIDE DEF r
<1>2. \A i \in 1..Len(r) : i \in 1..Len(q) \/ i = Len(q) + 1
  BY <1>1
<1>3. \A i \in 1..Len(r) : Dated(r[i]) => r[i].revision <= now
  BY <1>1, <1>2 DEF InOrder
<1>4. ASSUME NEW i \in 1..Len(r), OfItsTime(r[i])
      PROVE  /\ heard # None => heard <= r[i].revision
             /\ \A j \in 1..i : Dated(r[j]) => r[j].revision <= r[i].revision
  <2>1. CASE i \in 1..Len(q)
    <3>1. OfItsTime(q[i]) /\ r[i] = q[i]
      BY <1>1, <1>4, <2>1
    <3>2. \A j \in 1..i : j \in 1..Len(q) /\ r[j] = q[j]
      BY <1>1, <2>1
    <3> QED
      BY <2>1, <3>1, <3>2 DEF InOrder
  <2>2. CASE i = Len(q) + 1
    <3>1. r[i].revision = now
      BY <1>1, <1>4, <2>2
    <3>2. \A j \in 1..i : j \in 1..Len(r)
      BY <1>1, <2>2
    <3> QED
      BY <1>3, <3>1, <3>2 DEF InOrder
  <2> QED
    BY <1>2, <2>1, <2>2
<1>5. heard # None => heard <= now
  BY DEF InOrder
<1>6. InOrder(r, heard, now)
  BY <1>3, <1>4, <1>5 DEF InOrder
<1> QED
  BY <1>6 DEF r

\* The workspace moves on while events are under way.
LEMMA MovedOn ==
  ASSUME NEW q \in Seq(Event), NEW heard \in Heard, NEW now \in Nat,
         NEW later \in Nat, now <= later, InOrder(q, heard, now)
  PROVE  InOrder(q, heard, later)
<1>1. heard # None => heard \in Nat /\ heard <= later
  BY DEF InOrder, Heard
<1>2. ASSUME NEW i \in 1..Len(q), Dated(q[i]) PROVE q[i].revision <= later
  <2>1. q[i] \in Event
    OBVIOUS
  <2>2. q[i].revision \in Nat
    BY <1>2, <2>1, EventParts DEF Dated
  <2>3. q[i].revision <= now
    BY <1>2 DEF InOrder
  <2> QED
    BY <2>2, <2>3
<1> QED
  BY <1>1, <1>2 DEF InOrder

\* The client handles the oldest event, and may take its revision.
LEMMA HeardNext ==
  ASSUME NEW q \in Seq(Event), q # <<>>, NEW heard, NEW now \in Nat,
         NEW next, InOrder(q, heard, now),
         next = heard \/ (Dated(Head(q)) /\ next = Head(q).revision)
  PROVE  InOrder(Tail(q), next, now)
<1> DEFINE t == Tail(q)
<1>1. /\ Len(q) \in Nat /\ Len(q) >= 1 /\ Len(t) = Len(q) - 1 /\ Head(q) = q[1]
      /\ \A i \in 1..Len(t) : t[i] = q[i + 1]
  OBVIOUS
<1> HIDE DEF t
<1>2. \A i \in 1..Len(t) : i + 1 \in 1..Len(q)
  BY <1>1
<1>3. next # None => next <= now
  <2>1. 1 \in 1..Len(q)
    BY <1>1
  <2> QED
    BY <1>1, <2>1 DEF InOrder
<1>4. \A i \in 1..Len(t) : Dated(t[i]) => t[i].revision <= now
  BY <1>1, <1>2 DEF InOrder
<1>5. ASSUME NEW i \in 1..Len(t), OfItsTime(t[i])
      PROVE  /\ next # None => next <= t[i].revision
             /\ \A j \in 1..i : Dated(t[j]) => t[j].revision <= t[i].revision
  <2>1. t[i] = q[i + 1] /\ i + 1 \in 1..Len(q)
    BY <1>1, <1>2
  <2>2. /\ heard # None => heard <= t[i].revision
        /\ \A j \in 1..(i + 1) : Dated(q[j]) => q[j].revision <= t[i].revision
    BY <1>5, <2>1 DEF InOrder
  <2>3. 1 \in 1..(i + 1) /\ \A j \in 1..i : j + 1 \in 1..(i + 1) /\ t[j] = q[j + 1]
    BY <1>1
  <2> QED
    BY <1>1, <2>2, <2>3
<1>6. InOrder(t, next, now)
  BY <1>3, <1>4, <1>5 DEF InOrder
<1> QED
  BY <1>6 DEF t

\* The channel of a forwarder: a change is added, or the oldest one lost.
LEMMA MadeAppend ==
  ASSUME NEW q \in Seq(Change), NEW x \in Change, NEW now \in Nat, Made(q, now),
         x.type = "document" => x.revision = now + 1
  PROVE  Made(q, now + 1) /\ Made(Append(q, x), now + 1)
<1> DEFINE r == Append(q, x)
<1>1. /\ Len(q) \in Nat /\ Len(r) = Len(q) + 1
      /\ \A i \in 1..Len(q) : r[i] = q[i]
      /\ r[Len(q) + 1] = x
  OBVIOUS
<1>2. ASSUME NEW i \in 1..Len(q), q[i].type = "document"
      PROVE  q[i].revision <= now + 1
  <2>1. q[i].revision \in Nat
    BY <1>2, ChangeParts
  <2>2. q[i].revision <= now
    BY <1>2 DEF Made
  <2> QED
    BY <2>1, <2>2
<1> HIDE DEF r
<1>3. Made(r, now + 1)
  <2> SUFFICES ASSUME NEW i \in 1..Len(r), r[i].type = "document"
               PROVE  r[i].revision <= now + 1
    BY DEF Made
  <2>1. CASE i \in 1..Len(q)
    BY <1>1, <1>2, <2>1
  <2>2. CASE i = Len(q) + 1
    BY <1>1, <2>2
  <2> QED
    BY <1>1, <2>1, <2>2
<1> QED
  BY <1>2, <1>3 DEF Made, r

LEMMA MadeTail ==
  ASSUME NEW q \in Seq(Change), q # <<>>, NEW now \in Nat, Made(q, now)
  PROVE  /\ Made(Tail(q), now)
         /\ Head(q).type = "document" => Head(q).revision <= now
<1> DEFINE t == Tail(q)
<1>1. /\ Len(q) \in Nat /\ Len(q) >= 1 /\ Len(t) = Len(q) - 1 /\ Head(q) = q[1]
      /\ \A i \in 1..Len(t) : t[i] = q[i + 1]
  OBVIOUS
<1> HIDE DEF t
<1>2. 1 \in 1..Len(q) /\ \A i \in 1..Len(t) : i + 1 \in 1..Len(q)
  BY <1>1
<1>3. Made(t, now)
  BY <1>1, <1>2 DEF Made
<1> QED
  BY <1>1, <1>2, <1>3 DEF Made, t

\* An event that may be sent at a revision.
Timely(e, now) ==
  /\ e \in Event
  /\ Dated(e) => e.revision <= now
  /\ OfItsTime(e) => e.revision = now

LEMMA ToldOne ==
  ASSUME TypeOK, HeardInv, NEW c \in Client, NEW e, Timely(e, revision),
         Send(c, <<e>>), UNCHANGED <<rev, revision>>
  PROVE  \A d \in Client : InOrder(toClient'[d], rev'[d], revision')
<1> SUFFICES ASSUME NEW d \in Client
             PROVE  InOrder(toClient'[d], rev[d], revision)
  OBVIOUS
<1>1. toClient[d] \in Seq(Event) /\ revision \in Nat /\ e \in Event
  BY DEF TypeOK, Timely
<1>2. InOrder(toClient[d], rev[d], revision)
  BY DEF HeardInv
<1>3. InOrder(Append(toClient[d], e), rev[d], revision)
  BY <1>1, <1>2, SentLater DEF Timely
<1>4. Append(toClient[d], e) = toClient[d] \o <<e>>
  BY <1>1
<1>5. toClient'[d] \in {toClient[d], toClient[d] \o <<e>>}
  BY DEF Send, TypeOK
<1> QED
  BY <1>2, <1>3, <1>4, <1>5

LEMMA ToldTwo ==
  ASSUME TypeOK, HeardInv, NEW c \in Client, NEW e, NEW f, revision' \in Nat,
         revision <= revision', Timely(e, revision'), Timely(f, revision'),
         Send(c, <<e, f>>), rev' = rev
  PROVE  \A d \in Client : InOrder(toClient'[d], rev'[d], revision')
<1> SUFFICES ASSUME NEW d \in Client
             PROVE  InOrder(toClient'[d], rev[d], revision')
  OBVIOUS
<1>1. /\ toClient[d] \in Seq(Event) /\ revision \in Nat /\ rev[d] \in Heard
      /\ e \in Event /\ f \in Event
  BY DEF TypeOK, Timely
<1>2. InOrder(toClient[d], rev[d], revision')
  BY <1>1, MovedOn DEF HeardInv
<1>3. InOrder(Append(toClient[d], e), rev[d], revision')
  BY <1>1, <1>2, SentLater DEF Timely
<1>4. Append(toClient[d], e) \in Seq(Event)
  BY <1>1
<1>5. InOrder(Append(Append(toClient[d], e), f), rev[d], revision')
  BY <1>1, <1>3, <1>4, SentLater DEF Timely
<1>6. Append(Append(toClient[d], e), f) = toClient[d] \o <<e, f>>
  BY <1>1
<1>7. toClient'[d] \in {toClient[d], toClient[d] \o <<e, f>>}
  BY DEF Send, TypeOK
<1> QED
  BY <1>2, <1>5, <1>6, <1>7

LEMMA StillMade ==
  ASSUME HeardInv, UNCHANGED <<chan, revision>>
  PROVE  \A d \in Client : Made(chan'[d], revision')
BY DEF HeardInv

LEMMA ReceivedMade ==
  ASSUME TypeOK, HeardInv, NEW c \in Client, Receives(c), revision' = revision
  PROVE  /\ \A d \in Client : Made(chan'[d], revision')
         /\ Head(chan[c]).type = "document" => Head(chan[c]).revision <= revision
<1>1. /\ chan[c] \in Seq(Change) /\ chan[c] # <<>> /\ revision \in Nat
      /\ Made(chan[c], revision)
  BY DEF Receives, TypeOK, HeardInv
<1>2. /\ Made(Tail(chan[c]), revision)
      /\ Head(chan[c]).type = "document" => Head(chan[c]).revision <= revision
  BY <1>1, MadeTail
<1>3. \A d \in Client : chan'[d] = IF d = c THEN Tail(chan[c]) ELSE chan[d]
  BY DEF Receives, TypeOK
<1> QED
  BY <1>2, <1>3 DEF HeardInv

LEMMA RecordHeard ==
  ASSUME TypeOK, LockInv, HeardInv, NEW c \in Client, Record(c)
  PROVE  HeardInv'
<1> DEFINE w == Head(toServer[c])
<1>1. w \in Write
  BY Taken DEF LockInv, Admitted, Record
<1>2. revision \in Nat /\ revision' = revision + 1 /\ rev' = rev
  BY DEF Record, Advance, TypeOK, shown
<1>3. w.path \in Path /\ w.text \in Text /\ w.version \in Nat
  BY <1>1, WriteParts
<1>4. \A d \in Client : InOrder(toClient'[d], rev'[d], revision')
  <2> DEFINE e == [type |-> "ack", revision |-> revision + 1]
             f == [type |-> "saved", version |-> w.version]
  <2>1. Timely(e, revision')
    <3>1. revision + 1 \in Nat /\ revision' = revision + 1
      BY <1>2
    <3>2. e \in Event
      BY <3>1, Events
    <3> QED
      BY <3>1, <3>2 DEF Timely
  <2>2. Timely(f, revision')
    <3> HIDE DEF w
    <3> QED
      BY <1>3, Events DEF Timely, Dated, OfItsTime
  <2>3. Send(c, <<e, f>>)
    BY DEF Record
  <2>4. revision' \in Nat /\ revision <= revision'
    BY <1>2
  <2> HIDE DEF e, f, w
  <2> QED
    BY <1>2, <2>1, <2>2, <2>3, <2>4, ToldTwo
<1>5. \A d \in Client : Made(chan'[d], revision')
  <2> DEFINE change == IF w.op = "update"
                 THEN [type |-> "document", origin |-> c, path |-> w.path,
                       text |-> w.text, revision |-> revision + 1]
                 ELSE [type |-> "files", origin |-> c]
  <2>1. /\ change \in Change
        /\ change.type = "document" => change.revision = revision + 1
    <3> HIDE DEF w
    <3>1. revision + 1 \in Nat
      BY <1>2
    <3> QED
      BY <1>3, <3>1, Changes
  <2>2. chan' = [d \in Client |-> Delivered(d, change)]
    BY DEF Record, Broadcast
  <2> HIDE DEF change
  <2> SUFFICES ASSUME NEW d \in Client
               PROVE  Made(Delivered(d, change), revision + 1)
    BY <1>2, <2>2
  <2> DEFINE q == Append(chan[d], change)
  <2>3. chan[d] \in Seq(Change) /\ Made(chan[d], revision)
    BY DEF TypeOK, HeardInv
  <2>4. Made(chan[d], revision + 1) /\ Made(q, revision + 1)
    BY <1>2, <2>1, <2>3, MadeAppend
  <2>5. q \in Seq(Change) /\ q # <<>>
    BY <2>1, <2>3
  <2>6. Made(Tail(q), revision + 1)
    <3>1. revision + 1 \in Nat
      BY <1>2
    <3> HIDE DEF q
    <3> QED
      BY <2>4, <2>5, <3>1, MadeTail
  <2> QED
    BY <2>4, <2>6 DEF Delivered
<1> QED
  BY <1>4, <1>5 DEF HeardInv

\* What an event handler leaves when it takes the revision of the event, or not.
LEMMA GivenHeard ==
  ASSUME TypeOK, HeardInv, NEW c \in Client, NextEvent(c),
         UNCHANGED <<chan, revision>>,
         \/ rev' = rev
         \/ /\ Dated(Head(toClient[c]))
            /\ rev' = [rev EXCEPT ![c] = Head(toClient[c]).revision]
  PROVE  HeardInv'
<1>1. /\ toClient[c] \in Seq(Event) /\ toClient[c] # <<>> /\ revision \in Nat
      /\ InOrder(toClient[c], rev[c], revision)
  BY DEF TypeOK, NextEvent, HeardInv
<1>2. \/ rev'[c] = rev[c]
      \/ Dated(Head(toClient[c])) /\ rev'[c] = Head(toClient[c]).revision
  BY DEF TypeOK
<1>3. InOrder(Tail(toClient[c]), rev'[c], revision)
  BY <1>1, <1>2, HeardNext
<1>4. \A d \in Client : /\ d = c => toClient'[d] = Tail(toClient[c])
                        /\ d # c => toClient'[d] = toClient[d] /\ rev'[d] = rev[d]
  BY DEF NextEvent, TypeOK
<1> QED
  BY <1>3, <1>4 DEF HeardInv

LEMMA HeardStep ==
  ASSUME TypeOK, LockInv, HeardInv, [Next]_vars
  PROVE  HeardInv'
<1> USE DEF Dated
<1>1. CASE UNCHANGED vars
  BY <1>1 DEF HeardInv, vars, store, server, shown
<1>2. ASSUME NEW c \in Client, Open(c) \/ Subscribe(c) \/ Admit(c) \/ StoreFails(c)
                               \/ UserWrites(c) \/ ShowRemote(c) \/ SkipRemote(c)
      PROVE  HeardInv'
  <2>1. UNCHANGED <<revision, chan, toClient, rev>>
    BY <1>2 DEF Open, Subscribe, Admit, StoreFails, UserWrites, Update, Create,
       Rename, Delete, Reset, Make, ShowRemote, SkipRemote, store, server, shown
  <2> QED
    BY <2>1 DEF HeardInv
<1>3. ASSUME NEW c \in Client, Join(c) PROVE HeardInv'
  <2> DEFINE e == [type |-> "ack", revision |-> revision]
             f == [type |-> "project", files |-> disk, revision |-> revision]
  <2>1. revision \in Nat /\ disk \in Files /\ UNCHANGED <<revision, chan, rev>>
    BY <1>3 DEF Join, TypeOK, store, shown
  <2>2. Timely(e, revision) /\ Timely(f, revision)
    <3>1. e \in Event /\ f \in Event
      BY <2>1, Events
    <3> QED
      BY <2>1, <3>1 DEF Timely
  <2>3. Send(c, <<e, f>>)
    BY <1>3 DEF Join
  <2> HIDE DEF e, f
  <2>4. \A d \in Client : InOrder(toClient'[d], rev'[d], revision')
    BY <2>1, <2>2, <2>3, ToldTwo
  <2> QED
    BY <2>1, <2>4, StillMade DEF HeardInv
<1>4. ASSUME NEW c \in Client, Refuse(c) PROVE HeardInv'
  <2> DEFINE e == [type |-> "conflict", revision |-> revision]
  <2>1. revision \in Nat /\ UNCHANGED <<revision, chan, rev>>
    BY <1>4 DEF Refuse, TypeOK, store, server, shown
  <2>2. Timely(e, revision)
    <3>1. e \in Event
      BY <2>1, Events
    <3> QED
      BY <2>1, <3>1 DEF Timely
  <2>3. Send(c, <<e>>)
    BY <1>4 DEF Refuse
  <2> HIDE DEF e
  <2>4. \A d \in Client : InOrder(toClient'[d], rev'[d], revision')
    BY <2>1, <2>2, <2>3, ToldOne
  <2> QED
    BY <2>1, <2>4, StillMade DEF HeardInv
<1>5. ASSUME NEW c \in Client, Store(c) PROVE HeardInv'
  <2> DEFINE w == Head(toServer[c])
             e == [type |-> "files", files |-> Applied(w, catalog[c]),
                   version |-> w.version]
  <2>1. UNCHANGED <<revision, chan, rev>>
    BY <1>5 DEF Store, store, shown
  <2>2. Timely(e, revision)
    <3>1. w \in Write /\ catalog[c] \in Files
      BY <1>5, Taken DEF LockInv, Admitted, Store, TypeOK
    <3>2. Applied(w, catalog[c]) \in Files /\ w.version \in Nat
      BY <3>1, AppliedType, WriteParts
    <3>3. e \in Event
      BY <3>2, Events
    <3> QED
      BY <3>3 DEF Timely, OfItsTime
  <2>3. Send(c, <<e>>) \/ toClient' = toClient
    BY <1>5 DEF Store
  <2> HIDE DEF e
  <2>4. \A d \in Client : InOrder(toClient'[d], rev'[d], revision')
    BY <2>1, <2>2, <2>3, ToldOne DEF HeardInv
  <2> QED
    BY <2>1, <2>4, StillMade DEF HeardInv
<1>6. ASSUME NEW c \in Client, ForwardEcho(c) PROVE HeardInv'
  <2>1. Receives(c) /\ UNCHANGED <<revision, toClient, rev>>
    BY <1>6 DEF ForwardEcho, store, shown
  <2> QED
    BY <2>1, ReceivedMade DEF HeardInv
<1>7. ASSUME NEW c \in Client, ForwardDocument(c) PROVE HeardInv'
  <2> DEFINE x == Head(chan[c])
             e == [type |-> "changed", path |-> x.path, text |-> x.text,
                   revision |-> x.revision]
  <2>1. /\ Receives(c) /\ UNCHANGED <<revision, rev>>
        /\ x.type = "document" /\ Send(c, <<e>>)
    BY <1>7 DEF ForwardDocument, store, shown
  <2>2. (\A d \in Client : Made(chan'[d], revision')) /\ x.revision <= revision
    BY <2>1, ReceivedMade
  <2>3. Timely(e, revision)
    <3>1. x.path \in Path /\ x.text \in Text /\ x.revision \in Nat
      BY <2>1, Received, ChangeParts
    <3>2. e \in Event
      BY <3>1, Events
    <3> QED
      BY <2>2, <3>2 DEF Timely, OfItsTime
  <2> HIDE DEF e, x
  <2>4. \A d \in Client : InOrder(toClient'[d], rev'[d], revision')
    BY <2>1, <2>3, ToldOne
  <2> QED
    BY <2>2, <2>4 DEF HeardInv
<1>8. ASSUME NEW c \in Client, ForwardFiles(c) PROVE HeardInv'
  <2> DEFINE e == [type |-> "project", files |-> disk, revision |-> revision]
  <2>1. /\ Receives(c) /\ UNCHANGED <<revision, rev>> /\ Send(c, <<e>>)
        /\ revision \in Nat /\ disk \in Files
    BY <1>8 DEF ForwardFiles, TypeOK, store, shown
  <2>2. \A d \in Client : Made(chan'[d], revision')
    BY <2>1, ReceivedMade
  <2>3. Timely(e, revision)
    <3>1. e \in Event
      BY <2>1, Events
    <3> QED
      BY <2>1, <3>1 DEF Timely
  <2> HIDE DEF e
  <2>4. \A d \in Client : InOrder(toClient'[d], rev'[d], revision')
    BY <2>1, <2>3, ToldOne
  <2> QED
    BY <2>2, <2>4 DEF HeardInv
<1>9. ASSUME NEW c \in Client, Hear(c) PROVE HeardInv'
  <2>1. NextEvent(c) /\ UNCHANGED <<chan, revision>>
    BY <1>9 DEF Hear, HearStale, HearRevision, HearChanged, HearProject,
       HearFiles, HearSaved, store, server
  <2>2. \/ rev' = rev
        \/ /\ Dated(Head(toClient[c]))
           /\ rev' = [rev EXCEPT ![c] = Head(toClient[c]).revision]
    BY <1>9 DEF Hear, HearStale, HearRevision, HearChanged, HearProject,
       HearFiles, HearSaved, shown
  <2> QED
    BY <2>1, <2>2, GivenHeard
<1> QED
  BY <1>1, <1>2, <1>3, <1>4, <1>5, <1>6, <1>7, <1>8, <1>9, RecordHeard
     DEF Next, Connect, Handle, Forward

\* A client moves to a revision it is not behind of.
LEMMA NeverBack ==
  ASSUME TypeOK, HeardInv, [Next]_vars
  PROVE  \A c \in Client : rev[c] # None => rev'[c] # None /\ rev'[c] >= rev[c]
<1> SUFFICES ASSUME NEW c \in Client, rev[c] # None
             PROVE  rev'[c] # None /\ rev'[c] >= rev[c]
  OBVIOUS
<1>1. rev[c] \in Nat
  BY DEF TypeOK, Heard
<1>2. CASE rev'[c] = rev[c]
  BY <1>1, <1>2
<1>3. ASSUME NEW d \in Client, HearRevision(d) \/ HearChanged(d) \/ HearProject(d)
      PROVE  rev'[c] # None /\ rev'[c] >= rev[c]
  <2> DEFINE e == Head(toClient[d])
  <2>1. /\ NextEvent(d) /\ rev' = [rev EXCEPT ![d] = e.revision]
        /\ e.type = "conflict" \/ (Dated(e) /\ ~Stale(d, e))
    BY <1>3 DEF HearRevision, HearChanged, HearProject, Dated
  <2>2. e.revision \in Nat
    BY <2>1, Given, EventParts DEF Dated
  <2>3. CASE d # c
    BY <1>1, <2>1, <2>3 DEF TypeOK
  <2>4. CASE d = c
    <3>1. rev'[c] = e.revision
      BY <2>1, <2>4 DEF TypeOK
    <3>2. CASE ~Stale(d, e)
      BY <1>1, <2>2, <2>4, <3>1, <3>2, NoneAssumption DEF Stale
    <3>3. CASE e.type = "conflict"
      <4>1. /\ toClient[c] \in Seq(Event) /\ toClient[c] # <<>>
            /\ InOrder(toClient[c], rev[c], revision)
        BY <2>1, <2>4 DEF TypeOK, NextEvent, HeardInv
      <4>2. 1 \in 1..Len(toClient[c]) /\ e = toClient[c][1]
        BY <2>4, <4>1
      <4>3. rev[c] <= e.revision
        BY <3>3, <4>1, <4>2 DEF InOrder, OfItsTime
      <4> QED
        BY <1>1, <2>2, <3>1, <4>3, NoneAssumption
    <3> QED
      BY <2>1, <3>2, <3>3
  <2> QED
    BY <2>3, <2>4
<1>4. \/ rev' = rev
      \/ \E d \in Client : HearRevision(d) \/ HearChanged(d) \/ HearProject(d)
  <2>1. ASSUME NEW d \in Client, Connect(d) \/ Forward(d) PROVE rev' = rev
    BY <2>1 DEF Connect, Open, Subscribe, Join, Forward, ForwardEcho,
       ForwardDocument, ForwardFiles, shown
  <2>2. ASSUME NEW d \in Client, Handle(d) PROVE rev' = rev
    BY <2>2 DEF Handle, Refuse, Admit, Store, StoreFails, Record, shown
  <2>3. ASSUME NEW d \in Client,
               UserWrites(d) \/ ShowRemote(d) \/ SkipRemote(d) PROVE rev' = rev
    BY <2>3 DEF UserWrites, Update, Create, Rename, Delete, Reset, Make,
       ShowRemote, SkipRemote
  <2>4. ASSUME NEW d \in Client, HearStale(d) \/ HearFiles(d) \/ HearSaved(d)
        PROVE rev' = rev
    BY <2>4 DEF HearStale, HearFiles, HearSaved, shown
  <2>5. UNCHANGED vars => rev' = rev
    BY DEF vars, shown
  <2> QED
    BY <2>1, <2>2, <2>3, <2>4, <2>5 DEF Next, Hear
<1> QED
  BY <1>2, <1>3, <1>4

LEMMA InitInv ==
  ASSUME Init
  PROVE  IInv
<1>1. FirstFiles \in Files
  BY DEF FirstFiles, Files, Text
<1>2. TypeOK
  BY <1>1 DEF Init, TypeOK, Heard
<1>3. LockInv /\ SuffixInv
  BY DEF Init, LockInv, SuffixInv, Admitted
<1> QED
  BY <1>2, <1>3 DEF IInv

-----------------------------------------------------------------------------
(* Theorems.                                                               *)

\* The inductive invariant of the revision protocol: handlers work one at a
\* time on a base that stays good, and State.writers tells the truth.
THEOREM WorkspaceInductive == Spec => []IInv
<1>1. IInv /\ [Next]_vars => IInv'
  BY TypeStep, ProtocolStep DEF IInv
<1> QED
  BY InitInv, <1>1, PTL DEF Spec

\* Every variable keeps its type: what is queued for the server and the clients
\* is well formed whatever the order in which it is handled.
THEOREM WorkspaceTypeCorrect == Spec => []TypeOK
<1>1. IInv => TypeOK
  BY DEF IInv
<1> QED
  BY <1>1, WorkspaceInductive, PTL

\* An accepted write never crosses a peer's: every revision after its base is
\* the writer's own (docs/protocols.md; check_writer_base and advance).
THEOREM OwnSuffix == Spec => []NoPeerCrossed
<1>1. IInv => NoPeerCrossed
  <2> SUFFICES ASSUME IInv, NEW c \in Client, Admitted(c),
                      Head(toServer[c]).base # None,
                      NEW r \in 1..revision, r > Head(toServer[c]).base
               PROVE  log[r].by = c
    BY DEF NoPeerCrossed
  <2> DEFINE base == Head(toServer[c]).base
  <2>1. WriterBaseOk(c, base) /\ revision \in Nat /\ start \in Nat
    BY DEF IInv, LockInv, TypeOK
  <2>2. base \in Nat /\ base < revision /\ writer = c /\ base >= start
    <3> HIDE DEF base
    <3>1. base # None /\ r > base
      BY DEF base
    <3> QED
      BY <2>1, <3>1 DEF WriterBaseOk
  <2>3. r > start
    <3> HIDE DEF base
    <3>1. r > base
      BY DEF base
    <3> QED
      BY <2>1, <2>2, <3>1
  <2> QED
    BY <2>2, <2>3, NoneAssumption DEF IInv, SuffixInv
<1> QED
  BY <1>1, WorkspaceInductive, PTL

\* What has been written to the source tree is always recorded and announced:
\* the second check in `advance` cannot fail while the edit lock is held.
THEOREM RecordSucceeds == Spec => []StoredIsRecorded
<1>1. IInv => StoredIsRecorded
  BY DEF IInv, LockInv, StoredIsRecorded, Admitted
<1> QED
  BY <1>1, WorkspaceInductive, PTL

\* The revisions on their way to a client are in the order a client can trust:
\* none is ahead of the workspace, and what was sent under the edit lock -- an
\* acknowledgement, the workspace's files, a conflict -- is not older than what
\* was sent before it or what the client has heard (useRuntimeEvents.ts takes a
\* conflict as it comes, and drops the others by that comparison).
THEOREM RevisionsAreInOrder == Spec => []HeardInv
<1>1. Init => HeardInv
  BY DEF Init, HeardInv, InOrder, Made
<1>2. IInv /\ HeardInv /\ [Next]_vars => HeardInv'
  BY HeardStep DEF IInv
<1> QED
  BY <1>1, <1>2, WorkspaceInductive, PTL DEF Spec

\* The revision a client holds never moves back, though a conflict is taken
\* without the comparison that guards the other events (useRuntimeEvents.ts)
\* and peers' edits are forwarded without the edit lock.
THEOREM RevisionsOnlyRise == Spec => RevisionNeverFalls
<1>1. IInv /\ HeardInv /\ [Next]_vars =>
        [\A c \in Client : rev[c] # None => rev'[c] # None /\ rev'[c] >= rev[c]]_vars
  BY NeverBack DEF IInv
<1> QED
  BY <1>1, WorkspaceInductive, RevisionsAreInOrder, PTL DEF Spec, RevisionNeverFalls

-----------------------------------------------------------------------------
(* What an undisturbed client sees.                                        *)

\* The files of the workspace at a revision.
At(r) == IF r = 0 THEN FirstFiles ELSE log[r].files

\* The files the user saw, once the write had been made to them.
After(w) == Applied(w, w.seen)

\* What a write may change.
Touched(w) == IF w.op = "reset" THEN Path ELSE Named(w)

Own(c, r) == r \in 1..revision /\ log[r].by = c

\* What is on disk is the last revision, or one write further while its author
\* is between storing and recording it.
DiskInv ==
  /\ (\A c \in Client : stage[c] # "stored") => disk = At(revision)
  /\ \A c \in Client :
       /\ stage[c] = "checked" => catalog[c] = disk
       /\ stage[c] = "stored" => /\ disk = Applied(Head(toServer[c]), At(revision))
                                 /\ Fits(Head(toServer[c]), At(revision))

\* Every revision is the one before it and its write.
LogInv ==
  \A r \in 1..revision :
    /\ log[r].files = Applied(log[r].write, At(r - 1))
    /\ Fits(log[r].write, At(r - 1))

\* A client's writes are numbered upwards, and handled in that order.
VersionInv ==
  \A c \in Client :
    /\ \A i \in DOMAIN toServer[c] :
         /\ toServer[c][i].version <= ver[c]
         /\ \A j \in DOMAIN toServer[c] :
              i < j => toServer[c][i].version < toServer[c][j].version
         /\ \A r \in 1..revision :
              Own(c, r) => log[r].write.version < toServer[c][i].version
    /\ \A r \in 1..revision : Own(c, r) =>
         /\ log[r].write.version <= ver[c]
         /\ \A s \in 1..revision :
              Own(c, s) /\ r < s => log[r].write.version < log[s].write.version

\* Before it has joined a client is sent nothing and nothing of it is handled.
JoinInv ==
  \A c \in Client : conn[c] # "joined" =>
    /\ toClient[c] = <<>> /\ rev[c] = None /\ stage[c] = "idle"
    /\ \A r \in 1..revision : ~Own(c, r)

\* The same of a log: whose a revision is, and the files it left.
By(L, c, r) == r \in 1..Len(L) /\ L[r].by = c
FilesAt(L, r) == IF r = 0 THEN FirstFiles ELSE L[r].files

\* An edit, as it was recorded.
IsEdit(e, L) ==
  /\ e.revision \in 1..Len(L) /\ L[e.revision].write.op = "update"
  /\ e.path = L[e.revision].write.path /\ e.text = L[e.revision].write.text

IsAck(e, L, c, r) == e.type = "ack" /\ e.revision = r /\ By(L, c, r)

\* The answer to the write that is stored and not yet recorded.
Storing(c) ==
  IF stage[c] = "stored"
    THEN {[version |-> Head(toServer[c]).version, files |-> disk]} ELSE {}

\* What event i of queue q tells a client that has heard `heard`.
Tells(q, i, heard, c, storing, L) ==
  LET e == q[i] IN
  /\ e.type = "changed" => IsEdit(e, L) /\ ~By(L, c, e.revision)
  /\ e.type = "project" => e.revision \in 0..Len(L) /\ e.files = FilesAt(L, e.revision)
  /\ e.type = "ack" =>
       \/ /\ By(L, c, e.revision)
          /\ heard # None => heard < e.revision
          /\ \A j \in DOMAIN q : j < i /\ Dated(q[j]) => q[j].revision < e.revision
       \/ /\ ~By(L, c, e.revision) /\ i + 1 \in DOMAIN q
          /\ q[i + 1].type = "project" /\ q[i + 1].revision = e.revision
  /\ e.type = "saved" => \E r \in 1..Len(L) :
       /\ By(L, c, r) /\ L[r].write.version = e.version
       /\ \/ i = 1 /\ heard # None /\ r <= heard
          \/ i - 1 \in DOMAIN q /\ IsAck(q[i - 1], L, c, r)
  /\ e.type = "files" =>
       \/ \E x \in storing : x.version = e.version /\ x.files = e.files
       \/ \E j \in DOMAIN q, r \in 1..Len(L) :
            /\ i < j /\ IsAck(q[j], L, c, r)
            /\ L[r].write.version = e.version /\ e.files = L[r].files

ToldInv ==
  \A c \in Client : \A i \in DOMAIN toClient[c] :
    Tells(toClient[c], i, rev[c], c, Storing(c), log)

\* What a forwarder has not received is as it was recorded.
ChanInv ==
  \A c \in Client : \A i \in DOMAIN chan[c] :
    chan[c][i].type = "document" =>
      IsEdit(chan[c][i], log) /\ By(log, chan[c][i].origin, chan[c][i].revision)

IsFiles(e, v) == e.type = "files" /\ e.version = v

\* The reset that is stored and not yet recorded.
Resetting(c) ==
  IF stage[c] = "stored" /\ Head(toServer[c]).op = "reset"
    THEN {Head(toServer[c]).version} ELSE {}

\* Files that were sent before a reset was acknowledged were sent before the
\* files it brings.
Precedes(q, i, c, resetting, L) ==
  q[i].type = "project" =>
    /\ \A v \in resetting : \E k \in DOMAIN q : i < k /\ IsFiles(q[k], v)
    /\ \A j \in DOMAIN q, r \in 1..Len(L) :
         i < j /\ IsAck(q[j], L, c, r) /\ L[r].write.op = "reset" =>
           \E k \in DOMAIN q : i < k /\ IsFiles(q[k], L[r].write.version)

ResetInv ==
  \A c \in Client : \A i \in DOMAIN toClient[c] :
    Precedes(toClient[c], i, c, Resetting(c), log)

\* An undisturbed client has been refused nothing, and has written on a revision.
CleanInv ==
  \A c \in Client : clean[c] =>
    /\ \A i \in DOMAIN toClient[c] : toClient[c][i].type # "conflict"
    /\ \A i \in DOMAIN toServer[c] : toServer[c][i].base \in 0..revision

-----------------------------------------------------------------------------
(* Where an undisturbed client stands.                                     *)

\* A revision that some event still under way brings to the client, before
\* any edit that is newer.
Newer(e, r) == e.type = "changed" /\ e.revision > r
NewerChange(x, c, r) == x.type = "document" /\ x.origin # c /\ x.revision > r
Brings(e, r) ==
  \/ e.type = "changed" /\ e.revision = r
  \/ e.type = "project" /\ e.revision >= r
BringsChange(x, c, r) ==
  x.origin # c /\ (x.type = "document" => x.revision = r)

DueIn(q, ch, c, r) ==
  \/ \E i \in DOMAIN q :
       Brings(q[i], r) /\ \A j \in DOMAIN q : j < i => ~Newer(q[j], r)
  \/ /\ \A j \in DOMAIN q : ~Newer(q[j], r)
     /\ \E i \in DOMAIN ch :
          /\ BringsChange(ch[i], c, r)
          /\ \A j \in DOMAIN ch : j < i => ~NewerChange(ch[j], c, r)

Due(c, r) == DueIn(toClient[c], chan[c], c, r)

\* A peer wrote after the base of the client's oldest write: it will be refused.
Crossed(c) ==
  /\ toServer[c] # <<>>
  /\ \E r \in 1..revision : Head(toServer[c]).base \in Nat
                              /\ r > Head(toServer[c]).base /\ ~Own(c, r)

\* The client's files once the shell has applied what it was given.
Showing(c) ==
  IF remote[c] = Nothing THEN screen[c]
  ELSE [screen[c] EXCEPT ![remote[c].path] = IF @ = Absent THEN Absent ELSE remote[c].text]

\* The client's files once its own writes are in the workspace.
Expected(c, m) ==
  IF toServer[c] = <<>> THEN At(m) ELSE After(toServer[c][Len(toServer[c])])

\* The files a reset brings have not come yet.
ResetDue(c) ==
  \E w \in unsaved[c] :
    /\ w.op = "reset"
    /\ \/ \E i \in DOMAIN toServer[c] : toServer[c][i] = w /\ ~(i = 1 /\ stage[c] = "stored")
       \/ \E i \in DOMAIN toClient[c] : IsFiles(toClient[c][i], w.version)

\* The client is not connected, and has not written.
Apart(c) ==
  /\ conn[c] # "joined"
  /\ toServer[c] = <<>> /\ unsaved[c] = {} /\ remote[c] = Nothing

\* The files of the revision it joined at are on their way.
Joining(c) ==
  /\ conn[c] = "joined"
  /\ toServer[c] = <<>> /\ unsaved[c] = {} /\ remote[c] = Nothing
  /\ \E i \in DOMAIN toClient[c] :
       LET e == toClient[c][i] IN
       /\ e.type = "project"
       /\ \/ i = 1 /\ rev[c] = e.revision
          \/ /\ i = 2 /\ rev[c] = None
             /\ toClient[c][1].type = "ack" /\ toClient[c][1].revision = e.revision
       /\ \A j \in DOMAIN toClient[c] :
            j > i /\ toClient[c][j].type = "ack" => Own(c, toClient[c][j].revision)
       /\ \A r \in 1..revision : r > e.revision => ~Own(c, r) /\ Due(c, r)

\* All it will be told is accepted is its own.
Acked(c) ==
  \A i \in DOMAIN toClient[c] :
    toClient[c][i].type = "ack" => Own(c, toClient[c][i].revision)

\* The revisions a client has not heard of and shows already are its own, and
\* their acknowledgements are on their way.
Unheard(c, m) ==
  \A r \in 1..revision : rev[c] < r /\ r <= m =>
    /\ Own(c, r) /\ log[r].write \in unsaved[c]
    /\ \E i \in DOMAIN toClient[c] : IsAck(toClient[c][i], log, c, r)

\* The later ones are its peers', and on their way.
Coming(c, m) ==
  \A r \in 1..revision : m < r => ~Own(c, r) /\ Due(c, r)

\* Its writes follow one another, and follow the workspace.
Chained(c) ==
  \A i \in DOMAIN toServer[c] :
    /\ toServer[c][i] \in unsaved[c]
    /\ toServer[c][i].seen = IF i = 1 THEN At(revision) ELSE After(toServer[c][i - 1])

\* Every unsaved write is on its way to the server, or its answer on the way back.
Answered(c) ==
  \A w \in unsaved[c] :
    /\ w.op = "reset" => w.version = ver[c]
    /\ \/ \E i \in DOMAIN toServer[c] : toServer[c][i] = w
       \/ \E i \in DOMAIN toClient[c] :
            toClient[c][i].type = "saved" /\ toClient[c][i].version = w.version

\* What no later write touches is as an earlier revision, or write, left it.
KeepsFrom(c, m, k, p) ==
  /\ rev[c] <= k /\ k <= m
  /\ \A r \in 1..revision : k < r /\ r <= m => p \notin Touched(log[r].write)
  /\ \A i \in DOMAIN toServer[c] : p \notin Touched(toServer[c][i])

Keeps(c, m) ==
  /\ \A k \in 0..revision, p \in Path :
       KeepsFrom(c, m, k, p) => Expected(c, m)[p] = At(k)[p]
  /\ \A i \in DOMAIN toServer[c], p \in Path :
       (\A j \in DOMAIN toServer[c] : i < j => p \notin Touched(toServer[c][j]))
       => Expected(c, m)[p] = After(toServer[c][i])[p]

\* What a client shows is revision m and its own writes that are not part of it.
FollowsTo(c, m) ==
  /\ conn[c] = "joined" /\ rev[c] # None /\ rev[c] <= m /\ m <= revision
  /\ toServer[c] # <<>> => m = revision
  /\ Acked(c) /\ Unheard(c, m) /\ Coming(c, m) /\ Chained(c) /\ Answered(c)
  /\ ResetDue(c) \/ Showing(c) = Expected(c, m)
  /\ Keeps(c, m)

Follows(c) == \E m \in 0..revision : FollowsTo(c, m)

Synced(c) == Apart(c) \/ Joining(c) \/ Crossed(c) \/ Follows(c)

SyncInv == \A c \in Client : clean[c] => Synced(c)

HistoryInv == DiskInv /\ LogInv /\ VersionInv /\ JoinInv /\ CleanInv

Core == TypeOK /\ LockInv /\ SuffixInv /\ HeardInv

\* A step of one client, its session and its socket.
Step(c) ==
  \/ Connect(c) \/ Handle(c) \/ Forward(c)
  \/ UserWrites(c) \/ Hear(c) \/ ShowRemote(c) \/ SkipRemote(c)

USE DEF Step

-----------------------------------------------------------------------------
(* Queues and the log.                                                     *)

LEMMA TailParts ==
  ASSUME NEW S, NEW q \in Seq(S), q # <<>>
  PROVE  /\ Tail(q) \in Seq(S) /\ Len(q) \in Nat /\ Len(q) >= 1
         /\ Len(Tail(q)) = Len(q) - 1 /\ DOMAIN q = 1..Len(q)
         /\ DOMAIN Tail(q) = 1..(Len(q) - 1)
         /\ Head(q) = q[1] /\ q[1] \in S /\ 1 \in DOMAIN q
         /\ \A i \in DOMAIN Tail(q) : /\ i \in Nat /\ i >= 1 /\ i + 1 \in DOMAIN q
                                      /\ Tail(q)[i] = q[i + 1] /\ q[i + 1] \in S
         /\ \A i \in DOMAIN q : i \in Nat /\ i >= 1 /\ (i # 1 => i - 1 \in DOMAIN Tail(q))
         /\ Tail(q) # <<>> => Head(Tail(q)) = q[2] /\ 2 \in DOMAIN q
<1>1. /\ Tail(q) \in Seq(S) /\ Len(q) \in Nat /\ Len(q) >= 1
      /\ Len(Tail(q)) = Len(q) - 1 /\ DOMAIN q = 1..Len(q)
      /\ DOMAIN Tail(q) = 1..(Len(q) - 1)
      /\ Head(q) = q[1] /\ q[1] \in S /\ 1 \in DOMAIN q
  OBVIOUS
<1>2. \A i \in DOMAIN Tail(q) : /\ i \in Nat /\ i >= 1 /\ i + 1 \in DOMAIN q
                                 /\ Tail(q)[i] = q[i + 1] /\ q[i + 1] \in S
  OBVIOUS
<1>3. \A i \in DOMAIN q : i \in Nat /\ i >= 1 /\ (i # 1 => i - 1 \in DOMAIN Tail(q))
  BY <1>1
<1>4. ASSUME Tail(q) # <<>> PROVE Head(Tail(q)) = q[2] /\ 2 \in DOMAIN q
  <2> DEFINE t == Tail(q)
  <2>1. t \in Seq(S) /\ t # <<>>
    BY <1>1, <1>4
  <2> HIDE DEF t
  <2>2. 1 \in DOMAIN t /\ Head(t) = t[1]
    BY <2>1
  <2> QED
    BY <1>2, <2>2 DEF t
<1> QED
  BY <1>1, <1>2, <1>3, <1>4

LEMMA AppendParts ==
  ASSUME NEW S, NEW q \in Seq(S), NEW x \in S
  PROVE  /\ Append(q, x) \in Seq(S) /\ Len(q) \in Nat
         /\ Len(Append(q, x)) = Len(q) + 1 /\ DOMAIN q = 1..Len(q)
         /\ DOMAIN Append(q, x) = 1..(Len(q) + 1)
         /\ Append(q, x)[Len(q) + 1] = x
         /\ \A i \in DOMAIN q : Append(q, x)[i] = q[i] /\ i \in DOMAIN Append(q, x)
                                /\ i \in Nat /\ i < Len(q) + 1
         /\ \A i \in DOMAIN Append(q, x) : i \in DOMAIN q \/ i = Len(q) + 1
         /\ Append(q, x) # <<>> /\ q \o <<x>> = Append(q, x)
         /\ q # <<>> => Head(Append(q, x)) = Head(q)
OBVIOUS

LEMMA EmptyQueue ==
  ASSUME NEW S, NEW q \in Seq(S)
  PROVE  /\ q = <<>> <=> DOMAIN q = {}
         /\ q # <<>> => 1 \in DOMAIN q /\ Head(q) = q[1]
         /\ DOMAIN q = 1..Len(q) /\ Len(q) \in Nat
OBVIOUS

LEMMA TailShift ==
  ASSUME NEW S, NEW q \in Seq(S), q # <<>>
  PROVE  /\ \A i \in DOMAIN q : i # 1 => i - 1 \in DOMAIN Tail(q) /\ Tail(q)[i - 1] = q[i]
         /\ Tail(q) = <<>> => Len(q) = 1
         /\ Tail(q) # <<>> => Tail(q)[Len(Tail(q))] = q[Len(q)]
<1> DEFINE t == Tail(q)
<1>1. /\ t \in Seq(S) /\ Len(q) \in Nat /\ Len(q) >= 1 /\ Len(t) = Len(q) - 1
      /\ \A i \in DOMAIN t : t[i] = q[i + 1]
      /\ \A i \in DOMAIN q : i \in Nat /\ (i # 1 => i - 1 \in DOMAIN t)
  BY TailParts
<1>2. (t = <<>> <=> DOMAIN t = {}) /\ DOMAIN t = 1..Len(t)
  BY <1>1, EmptyQueue
<1> HIDE DEF t
<1>3. \A i \in DOMAIN q : i # 1 => i - 1 \in DOMAIN t /\ t[i - 1] = q[i]
  <2> SUFFICES ASSUME NEW i \in DOMAIN q, i # 1 PROVE i - 1 \in DOMAIN t /\ t[i - 1] = q[i]
    OBVIOUS
  <2>1. i - 1 \in DOMAIN t /\ i - 1 + 1 = i
    BY <1>1
  <2> QED
    BY <1>1, <2>1
<1>4. t = <<>> => Len(q) = 1
  BY <1>1, <1>2
<1>5. ASSUME t # <<>> PROVE t[Len(t)] = q[Len(q)]
  <2>1. Len(t) \in DOMAIN t
    BY <1>1, <1>2, <1>5
  <2>2. Len(t) + 1 = Len(q)
    BY <1>1
  <2> QED
    BY <1>1, <2>1, <2>2
<1> QED
  BY <1>3, <1>4, <1>5 DEF t

\* The log only grows, and only by Record.
LEMMA LogGrows ==
  ASSUME Core, NEW c \in Client, Record(c)
  PROVE  /\ revision \in Nat /\ revision' = revision + 1
         /\ \A r \in 1..revision : log'[r] = log[r]
         /\ log'[revision + 1] = [by |-> c, write |-> Head(toServer[c]), files |-> disk]
<1>1. log \in Seq(Entered) /\ Len(log) = revision /\ revision \in Nat
  BY DEF Core, TypeOK, SuffixInv
<1>2. /\ log' = Append(log, [by |-> c, write |-> Head(toServer[c]), files |-> disk])
      /\ revision' = revision + 1
  BY DEF Record, Advance
<1> QED
  BY <1>1, <1>2

LEMMA LogStays ==
  ASSUME NEW c \in Client,
         \/ Connect(c) \/ Refuse(c) \/ Admit(c) \/ Store(c) \/ StoreFails(c) \/ Forward(c)
         \/ UserWrites(c) \/ Hear(c) \/ ShowRemote(c) \/ SkipRemote(c)
  PROVE  UNCHANGED <<revision, log>>
<1>1. CASE Connect(c) \/ Forward(c)
  BY <1>1 DEF Connect, Open, Subscribe, Join, Forward, ForwardEcho, ForwardDocument,
     ForwardFiles, store
<1>2. CASE Refuse(c) \/ Admit(c) \/ Store(c) \/ StoreFails(c)
  BY <1>2 DEF Refuse, Admit, Store, StoreFails, store
<1>3. CASE UserWrites(c) \/ ShowRemote(c) \/ SkipRemote(c)
  BY <1>3 DEF UserWrites, Update, Create, Rename, Delete, Reset, Make, ShowRemote,
     SkipRemote, store
<1>4. CASE Hear(c)
  BY <1>4 DEF Hear, HearStale, HearRevision, HearChanged, HearProject, HearFiles,
     HearSaved, store
<1> QED
  BY <1>1, <1>2, <1>3, <1>4

LEMMA LogEntries ==
  ASSUME Core, NEW r \in 1..revision
  PROVE  /\ log[r] \in Entered /\ log[r].by \in Client /\ log[r].write \in Write
         /\ log[r].files \in Files
<1>1. log \in Seq(Entered) /\ Len(log) = revision /\ revision \in Nat
  BY DEF Core, TypeOK, SuffixInv
<1>2. log[r] \in Entered
  BY <1>1
<1> QED
  BY <1>2 DEF Entered

LEMMA AtFiles ==
  ASSUME Core, NEW r \in 0..revision
  PROVE  At(r) \in Files
<1>1. FirstFiles \in Files
  BY DEF FirstFiles, Files, Text
<1>2. r # 0 => r \in 1..revision
  BY DEF Core, TypeOK
<1> QED
  BY <1>1, <1>2, LogEntries DEF At

LEMMA OthersIdle ==
  ASSUME Core, NEW c \in Client, lock = None \/ Admitted(c)
  PROVE  \A d \in Client : d # c => stage[d] = "idle" /\ ~Admitted(d)
BY OneAtWork DEF Core, LockInv, Admitted

LEMMA HeadStays ==
  ASSUME Core, NEW c \in Client,
         \/ UserWrites(c)
         \/ UNCHANGED toServer
  PROVE  \A d \in Client : toServer[d] # <<>> =>
           toServer'[d] # <<>> /\ Head(toServer'[d]) = Head(toServer[d])
<1>1. CASE UNCHANGED toServer
  BY <1>1
<1>2. ASSUME NEW op, NEW p \in Path, NEW to \in Path, Make(c, op, p, to)
      PROVE  \A d \in Client : toServer[d] # <<>> =>
               toServer'[d] # <<>> /\ Head(toServer'[d]) = Head(toServer[d])
  <2>0. TypeOK
    BY DEF Core
  <2>1. PICK w \in Write : toServer' = [toServer EXCEPT ![c] = Append(@, w)]
    BY <1>2, <2>0, MadeWrite DEF Make
  <2> SUFFICES ASSUME NEW d \in Client, toServer[d] # <<>>
               PROVE  toServer'[d] # <<>> /\ Head(toServer'[d]) = Head(toServer[d])
    OBVIOUS
  <2>2. toServer[d] \in Seq(Write) /\ toServer'[d] \in {toServer[d], Append(toServer[d], w)}
    BY <2>0, <2>1 DEF TypeOK
  <2> QED
    BY <2>2, AppendParts
<1>3. Entry \in Path
  BY FileAssumption
<1> QED
  BY <1>1, <1>2, <1>3 DEF UserWrites, Update, Create, Rename, Delete, Reset

-----------------------------------------------------------------------------
(* The disk, the log and the numbers of the writes.                        *)

LEMMA DiskFrame ==
  ASSUME Core, DiskInv, UNCHANGED <<revision, log, disk, stage>>,
         \A d \in Client : /\ stage[d] = "checked" => catalog'[d] \in {catalog[d], disk}
                           /\ stage[d] = "stored" => Head(toServer'[d]) = Head(toServer[d])
  PROVE  DiskInv'
BY DEF DiskInv, At

LEMMA DiskStep ==
  ASSUME Core, DiskInv, JoinInv, NEW c \in Client,
         Step(c)
  PROVE  DiskInv'
<1>0. TypeOK
  BY DEF Core
<1>1. CASE Connect(c)
  <2>1. UNCHANGED <<revision, log, disk, stage, toServer>>
    BY <1>1 DEF Connect, Open, Subscribe, Join, store
  <2>2. conn[c] # "joined"
    BY <1>1 DEF Connect, Open, Subscribe, Join
  <2>3. stage[c] = "idle"
    BY <2>2 DEF JoinInv
  <2>4. \A d \in Client : d # c => catalog'[d] = catalog[d]
    BY <1>0, <1>1 DEF Connect, Open, Subscribe, Join, TypeOK
  <2> QED
    BY <2>1, <2>3, <2>4, DiskFrame
<1>2. CASE Forward(c)
  <2>1. UNCHANGED <<revision, log, disk, stage, toServer>>
    BY <1>2 DEF Forward, ForwardEcho, ForwardDocument, ForwardFiles, store
  <2>2. \A d \in Client : catalog'[d] \in {catalog[d], disk}
    BY <1>0, <1>2 DEF Forward, ForwardEcho, ForwardDocument, ForwardFiles, TypeOK
  <2> QED
    BY <2>1, <2>2, DiskFrame
<1>3. CASE UserWrites(c) \/ Hear(c) \/ ShowRemote(c) \/ SkipRemote(c)
  <2>1. UNCHANGED <<revision, log, disk, stage, catalog>>
    <3>1. CASE UserWrites(c) \/ ShowRemote(c) \/ SkipRemote(c)
      BY <3>1 DEF UserWrites, Update, Create, Rename, Delete, Reset, Make,
         ShowRemote, SkipRemote, store, server
    <3>2. CASE Hear(c)
      BY <3>2 DEF Hear, HearStale, HearRevision, HearChanged, HearProject, HearFiles,
         HearSaved, store, server
    <3> QED
      BY <1>3, <3>1, <3>2
  <2>2. UserWrites(c) \/ UNCHANGED toServer
    BY <1>3 DEF Hear, HearStale, HearRevision, HearChanged, HearProject, HearFiles,
       HearSaved, ShowRemote, SkipRemote
  <2>3. \A d \in Client : stage[d] = "stored" => Head(toServer'[d]) = Head(toServer[d])
    BY <2>2, HeadStays DEF Core, LockInv, Admitted
  <2> QED
    BY <2>1, <2>3, DiskFrame
<1>4. CASE Refuse(c)
  <2>1. /\ UNCHANGED <<revision, log, disk, stage, catalog>> /\ stage[c] = "idle"
        /\ \A d \in Client : d # c => toServer'[d] = toServer[d]
    BY <1>0, <1>4 DEF Refuse, Takes, store, server, TypeOK
  <2> QED
    BY <2>1, DiskFrame
<1>5. CASE Admit(c)
  <2>1. /\ UNCHANGED <<revision, log, disk, toServer>> /\ lock = None
        /\ stage[c] = "idle" /\ stage'[c] = "checked" /\ catalog'[c] = disk
        /\ \A d \in Client : d # c => stage'[d] = stage[d]
    BY <1>0, <1>5 DEF Admit, Takes, store, TypeOK
  <2>2. \A d \in Client : d # c => stage[d] = "idle"
    BY <2>1, OthersIdle
  <2> QED
    BY <2>1, <2>2 DEF DiskInv, At
<1>6. CASE Store(c)
  <2> DEFINE w == Head(toServer[c])
  <2>1. /\ UNCHANGED <<revision, log, toServer>>
        /\ stage[c] = "checked" /\ stage'[c] = "stored"
        /\ Fits(w, catalog[c]) /\ disk' = Applied(w, disk)
        /\ \A d \in Client : d # c => stage'[d] = stage[d]
    BY <1>0, <1>6 DEF Store, TypeOK
  <2>2. \A d \in Client : d # c => stage[d] = "idle"
    BY <2>1, OthersIdle DEF Admitted
  <2>3. catalog[c] = disk /\ disk = At(revision)
    BY <2>1, <2>2 DEF DiskInv
  <2> QED
    BY <2>1, <2>2, <2>3 DEF DiskInv, At
<1>7. CASE StoreFails(c)
  <2>1. /\ UNCHANGED <<revision, log, disk>>
        /\ stage[c] = "checked" /\ stage'[c] = "idle"
        /\ \A d \in Client : d # c => stage'[d] = stage[d]
    BY <1>0, <1>7 DEF StoreFails, store, TypeOK
  <2>2. \A d \in Client : d # c => stage[d] = "idle"
    BY <2>1, OthersIdle DEF Admitted
  <2> QED
    BY <2>1, <2>2 DEF DiskInv, At
<1>8. CASE Record(c)
  <2>1. /\ stage[c] = "stored" /\ stage'[c] = "idle" /\ disk' = disk
        /\ \A d \in Client : d # c => stage'[d] = stage[d]
    BY <1>0, <1>8 DEF Record, TypeOK
  <2>2. \A d \in Client : d # c => stage[d] = "idle"
    BY <2>1, OthersIdle DEF Admitted
  <2>3. At(revision)' = disk
    <3>1. /\ revision' = revision + 1 /\ revision' # 0
          /\ log'[revision + 1] = [by |-> c, write |-> Head(toServer[c]), files |-> disk]
      BY <1>8, LogGrows
    <3> QED
      BY <3>1 DEF At
  <2> QED
    BY <2>1, <2>2, <2>3 DEF DiskInv
<1> QED
  BY <1>1, <1>2, <1>3, <1>4, <1>5, <1>6, <1>7, <1>8 DEF Handle

LEMMA LogStep ==
  ASSUME Core, DiskInv, LogInv, NEW c \in Client, Record(c)
  PROVE  LogInv'
<1>1. /\ revision \in Nat /\ revision' = revision + 1
      /\ \A r \in 1..revision : log'[r] = log[r]
      /\ log'[revision + 1] = [by |-> c, write |-> Head(toServer[c]), files |-> disk]
  BY LogGrows
<1>2. \A r \in 0..revision : At(r)' = At(r)
  BY <1>1 DEF At
<1>3. disk = Applied(Head(toServer[c]), At(revision)) /\ Fits(Head(toServer[c]), At(revision))
  BY DEF DiskInv, Record
<1>4. ASSUME NEW r \in 1..revision'
      PROVE  /\ log'[r].files = Applied(log'[r].write, At(r - 1)')
             /\ Fits(log'[r].write, At(r - 1)')
  <2>1. CASE r \in 1..revision
    <3>1. r - 1 \in 0..revision
      BY <1>1, <2>1
    <3> QED
      BY <1>1, <1>2, <2>1, <3>1 DEF LogInv
  <2>2. CASE r = revision + 1
    <3>1. At(r - 1)' = At(revision)
      BY <1>1, <1>2, <2>2
    <3> QED
      BY <1>1, <1>3, <2>2, <3>1
  <2> QED
    BY <1>1, <2>1, <2>2
<1> QED
  BY <1>4 DEF LogInv, Applied, Fits

\* What the version numbers say of one client's queue, log and counter.
Numbered(q, top, c) ==
  /\ \A i \in DOMAIN q :
       /\ q[i].version <= top
       /\ \A j \in DOMAIN q : i < j => q[i].version < q[j].version
       /\ \A r \in 1..revision : Own(c, r) => log[r].write.version < q[i].version
  /\ \A r \in 1..revision : Own(c, r) =>
       /\ log[r].write.version <= top
       /\ \A s \in 1..revision :
            Own(c, s) /\ r < s => log[r].write.version < log[s].write.version

LEMMA VersionIsNumbered ==
  VersionInv <=> \A c \in Client : Numbered(toServer[c], ver[c], c)
BY DEF VersionInv, Numbered

LEMMA NumberedTail ==
  ASSUME NEW c \in Client, NEW q \in Seq(Write), q # <<>>, NEW top, Numbered(q, top, c)
  PROVE  Numbered(Tail(q), top, c)
<1>1. /\ \A i \in DOMAIN Tail(q) : /\ i \in Nat /\ i + 1 \in DOMAIN q
                                   /\ Tail(q)[i] = q[i + 1]
  BY TailParts
<1>2. \A i, j \in DOMAIN Tail(q) : i < j => i + 1 < j + 1
  BY <1>1
<1> QED
  BY <1>1, <1>2 DEF Numbered

LEMMA NumberedAppend ==
  ASSUME NEW c \in Client, NEW q \in Seq(Write), NEW top \in Nat, NEW w \in Write,
         Core, Numbered(q, top, c), w.version = top + 1
  PROVE  Numbered(Append(q, w), top + 1, c)
<1> DEFINE n == Append(q, w)
<1>1. /\ Len(q) \in Nat
      /\ \A i \in DOMAIN q : n[i] = q[i] /\ i \in Nat /\ i < Len(q) + 1
      /\ \A i \in DOMAIN n : i \in DOMAIN q \/ i = Len(q) + 1
      /\ n[Len(q) + 1] = w
  BY AppendParts
<1>2. \A i \in DOMAIN q : q[i].version \in Nat
  <2>1. \A i \in DOMAIN q : q[i] \in Write
    OBVIOUS
  <2> QED
    BY <2>1, WriteParts
<1>3. \A r \in 1..revision : log[r].write.version \in Nat
  BY LogEntries, WriteParts
<1> HIDE DEF n
<1>4. \A r \in 1..revision : Own(c, r) =>
        log[r].write.version <= top + 1 /\ log[r].write.version < w.version
  BY <1>3 DEF Numbered
<1>5. ASSUME NEW i \in DOMAIN n
      PROVE  /\ n[i].version <= top + 1
             /\ \A j \in DOMAIN n : i < j => n[i].version < n[j].version
             /\ \A r \in 1..revision : Own(c, r) => log[r].write.version < n[i].version
  <2>1. CASE i \in DOMAIN q
    <3>1. n[i] = q[i] /\ q[i].version \in Nat /\ q[i].version <= top
      BY <1>1, <1>2, <2>1 DEF Numbered
    <3>2. \A j \in DOMAIN n : i < j => n[i].version < n[j].version
      BY <1>1, <2>1, <3>1 DEF Numbered
    <3> QED
      BY <2>1, <3>1, <3>2 DEF Numbered
  <2>2. CASE i = Len(q) + 1
    <3>1. \A j \in DOMAIN n : ~(i < j)
      BY <1>1, <2>2
    <3> QED
      BY <1>1, <1>4, <2>2, <3>1
  <2> QED
    BY <1>1, <2>1, <2>2
<1>6. Numbered(n, top + 1, c)
  BY <1>4, <1>5 DEF Numbered
<1> QED
  BY <1>6 DEF n

\* What a user's write does to the counter and the queue.
LEMMA MakeParts ==
  ASSUME Core, NEW c \in Client, UserWrites(c)
  PROVE  \E op \in AllOps, p \in Path, to \in Path, w \in Write :
           /\ w = [op |-> op, path |-> p, to |-> to, text |-> <<c, ver[c] + 1>>,
                   version |-> ver[c] + 1, base |-> rev[c], seen |-> screen[c],
                   blind |-> p \in skipped[c]]
           /\ Make(c, op, p, to)
           /\ toServer' = [toServer EXCEPT ![c] = Append(@, w)]
           /\ ver' = [ver EXCEPT ![c] = @ + 1]
           /\ unsaved' = [unsaved EXCEPT ![c] = @ \cup {w}]
           /\ screen' = [screen EXCEPT ![c] = IF op = "reset" THEN @ ELSE Applied(w, @)]
<1>1. TypeOK /\ Entry \in Path /\ Ops \subseteq AllOps
  BY FileAssumption, InputAssumption DEF Core
<1>2. PICK op \in AllOps, p \in Path, to \in Path : Make(c, op, p, to)
  <2>1. Update(c) => \E p \in Path : Make(c, "update", p, p)
    BY DEF Update
  <2>2. Create(c) => \E p \in Path : Make(c, "create", p, p)
    BY DEF Create
  <2>3. Rename(c) => \E p, to \in Path : Make(c, "rename", p, to)
    BY DEF Rename
  <2>4. Delete(c) => \E p \in Path : Make(c, "delete", p, p)
    BY DEF Delete
  <2>5. Reset(c) => Make(c, "reset", Entry, Entry)
    BY DEF Reset
  <2>6. {"update", "create", "rename", "delete", "reset"} = AllOps
    BY DEF AllOps
  <2> QED
    BY <1>1, <2>1, <2>2, <2>3, <2>4, <2>5, <2>6 DEF UserWrites
<1> DEFINE w == [op |-> op, path |-> p, to |-> to, text |-> <<c, ver[c] + 1>>,
                 version |-> ver[c] + 1, base |-> rev[c], seen |-> screen[c],
                 blind |-> p \in skipped[c]]
<1>4. w \in Write
  BY <1>1, <1>2, MadeWrite
<1>5. /\ toServer' = [toServer EXCEPT ![c] = Append(@, w)]
      /\ ver' = [ver EXCEPT ![c] = w.version]
      /\ unsaved' = [unsaved EXCEPT ![c] = @ \cup {w}]
      /\ screen' = [screen EXCEPT ![c] = IF op = "reset" THEN @ ELSE Applied(w, @)]
  BY <1>2 DEF Make
<1>6. w.version = ver[c] + 1
  OBVIOUS
<1>7. ver' = [ver EXCEPT ![c] = @ + 1]
  BY <1>5, <1>6
<1> QED
  BY <1>2, <1>4, <1>5, <1>7

LEMMA VersionStep ==
  ASSUME Core, JoinInv, VersionInv, NEW c \in Client,
         Step(c)
  PROVE  VersionInv'
<1>0. TypeOK
  BY DEF Core
<1> SUFFICES ASSUME NEW d \in Client PROVE Numbered(toServer[d], ver[d], d)'
  BY DEF VersionInv, Numbered
<1>a. Numbered(toServer[d], ver[d], d) /\ toServer[d] \in Seq(Write) /\ ver[d] \in Nat
  BY <1>0, VersionIsNumbered DEF TypeOK
<1>1. CASE Connect(c) \/ Forward(c) \/ Hear(c) \/ ShowRemote(c) \/ SkipRemote(c)
           \/ Admit(c) \/ Store(c)
  <2>1. UNCHANGED <<revision, log>>
    BY <1>1, LogStays
  <2>2. UNCHANGED <<toServer, ver>>
    <3>1. CASE Connect(c) \/ Forward(c) \/ Admit(c) \/ Store(c)
      BY <3>1 DEF Connect, Open, Subscribe, Join, Forward, ForwardEcho,
         ForwardDocument, ForwardFiles, Admit, Store, made
    <3>2. CASE Hear(c) \/ ShowRemote(c) \/ SkipRemote(c)
      BY <3>2 DEF Hear, HearStale, HearRevision, HearChanged, HearProject, HearFiles,
         HearSaved, ShowRemote, SkipRemote, made
    <3> QED
      BY <1>1, <3>1, <3>2
  <2> QED
    BY <1>a, <2>1, <2>2 DEF Numbered, Own
<1>2. CASE Refuse(c) \/ StoreFails(c)
  <2>1. UNCHANGED <<revision, log>>
    BY <1>2, LogStays
  <2>2. /\ toServer[c] # <<>> /\ ver' = ver
        /\ toServer' = [toServer EXCEPT ![c] = Tail(@)]
    BY <1>2 DEF Refuse, Takes, StoreFails, made, Core, LockInv, Admitted
  <2>3. toServer'[d] \in {toServer[d], Tail(toServer[d])} /\ (d # c => toServer'[d] = toServer[d])
    BY <1>0, <2>2 DEF TypeOK
  <2>4. Numbered(toServer'[d], ver[d], d)
    BY <1>a, <2>2, <2>3, NumberedTail
  <2> QED
    BY <2>1, <2>2, <2>4 DEF Numbered, Own
<1>3. CASE UserWrites(c)
  <2>1. UNCHANGED <<revision, log>>
    BY <1>3, LogStays
  <2>2. PICK w \in Write : /\ w.version = ver[c] + 1
                           /\ toServer' = [toServer EXCEPT ![c] = Append(@, w)]
                           /\ ver' = [ver EXCEPT ![c] = @ + 1]
    BY <1>3, MakeParts
  <2>3. /\ d = c => toServer'[d] = Append(toServer[d], w) /\ ver'[d] = ver[d] + 1
        /\ d # c => toServer'[d] = toServer[d] /\ ver'[d] = ver[d]
    BY <1>0, <2>2 DEF TypeOK
  <2>4. Numbered(toServer'[d], ver'[d], d)
    BY <1>a, <2>2, <2>3, NumberedAppend
  <2> QED
    BY <2>1, <2>4 DEF Numbered, Own
<1>4. CASE Record(c)
  <2> DEFINE w == Head(toServer[c])
  <2>1. /\ revision \in Nat /\ revision' = revision + 1
        /\ \A r \in 1..revision : log'[r] = log[r]
        /\ log'[revision + 1] = [by |-> c, write |-> w, files |-> disk]
    BY <1>4, LogGrows
  <2>2. /\ toServer[c] # <<>> /\ ver' = ver
        /\ toServer' = [toServer EXCEPT ![c] = Tail(@)]
    BY <1>4 DEF Record, made, Core, LockInv, Admitted
  <2>3. CASE d # c
    <3>1. \A r \in 1..revision' : Own(d, r)' => r \in 1..revision /\ Own(d, r) /\ log'[r] = log[r]
      BY <2>1, <2>3 DEF Own
    <3>2. toServer'[d] = toServer[d] /\ ver'[d] = ver[d]
      BY <1>0, <2>2, <2>3 DEF TypeOK
    <3> QED
      BY <1>a, <3>1, <3>2 DEF Numbered
  <2>4. CASE d = c
    <3>1. toServer'[c] = Tail(toServer[c]) /\ ver'[c] = ver[c] /\ toServer[c] \in Seq(Write)
      BY <1>0, <2>2 DEF TypeOK
    <3>2. Numbered(Tail(toServer[c]), ver[c], c)
      BY <1>a, <2>2, <2>4, <3>1, NumberedTail
    <3>3. /\ w = toServer[c][1] /\ 1 \in DOMAIN toServer[c]
          /\ \A i \in DOMAIN Tail(toServer[c]) :
               /\ i + 1 \in DOMAIN toServer[c] /\ 1 < i + 1
               /\ Tail(toServer[c])[i] = toServer[c][i + 1]
      BY <2>2, <3>1, TailParts
    <3>4. /\ \A i \in DOMAIN Tail(toServer[c]) : w.version < Tail(toServer[c])[i].version
          /\ w.version <= ver[c]
          /\ \A r \in 1..revision : Own(c, r) => log[r].write.version < w.version
      BY <1>a, <2>4, <3>3 DEF Numbered
    <3>5. \A r \in 1..revision : Own(c, r)' <=> Own(c, r)
      BY <2>1 DEF Own
    <3>6. \A r \in 1..revision' : r \in 1..revision \/ r = revision + 1
      BY <2>1
    <3>7. log'[revision + 1].write = w
      BY <2>1
    <3> HIDE DEF w
    <3>8. \A r \in 1..revision' : Own(c, r)' =>
             /\ log'[r].write.version <= ver[c]
             /\ \A i \in DOMAIN Tail(toServer[c]) :
                  log'[r].write.version < Tail(toServer[c])[i].version
      BY <2>1, <3>2, <3>4, <3>5, <3>6, <3>7 DEF Numbered
    <3>9. \A r, s \in 1..revision' : Own(c, r)' /\ Own(c, s)' /\ r < s =>
             log'[r].write.version < log'[s].write.version
      <4> SUFFICES ASSUME NEW r \in 1..revision', NEW s \in 1..revision',
                          Own(c, r)', Own(c, s)', r < s
                   PROVE  log'[r].write.version < log'[s].write.version
        OBVIOUS
      <4>1. r \in 1..revision /\ Own(c, r) /\ log'[r] = log[r]
        BY <2>1, <3>5, <3>6
      <4>2. CASE s \in 1..revision
        BY <2>1, <3>2, <3>5, <4>1, <4>2 DEF Numbered
      <4>3. CASE s = revision + 1
        BY <3>4, <3>7, <4>1, <4>3
      <4> QED
        BY <3>6, <4>2, <4>3
    <3> QED
      BY <2>4, <3>1, <3>2, <3>8, <3>9 DEF Numbered
  <2> QED
    BY <2>3, <2>4
<1> QED
  BY <1>1, <1>2, <1>3, <1>4 DEF Handle

LEMMA JoinStep ==
  ASSUME Core, JoinInv, NEW c \in Client,
         Step(c)
  PROVE  JoinInv'
<1>0. TypeOK
  BY DEF Core
<1>1. CASE Record(c)
  <2>1. /\ stage[c] # "idle" /\ conn' = conn /\ rev' = rev
        /\ \A d \in Client : d # c => stage'[d] = stage[d] /\ toClient'[d] = toClient[d]
    BY <1>0, <1>1 DEF Record, Send, shown, TypeOK
  <2>2. conn[c] = "joined"
    BY <2>1 DEF JoinInv
  <2>3. \A d \in Client : d # c => \A r \in 1..revision' : Own(d, r)' => Own(d, r) /\ r \in 1..revision
    <3>1. /\ revision \in Nat /\ revision' = revision + 1
          /\ \A r \in 1..revision : log'[r] = log[r]
          /\ log'[revision + 1] = [by |-> c, write |-> Head(toServer[c]), files |-> disk]
      BY <1>1, LogGrows
    <3> QED
      BY <3>1 DEF Own
  <2> QED
    BY <2>1, <2>2, <2>3 DEF JoinInv
<1>2. CASE ~Record(c)
  <2>0. UNCHANGED <<revision, log>>
    BY <1>2, LogStays DEF Handle
  <2>1. \A d \in Client : d # c => /\ toClient'[d] = toClient[d] /\ rev'[d] = rev[d]
                                   /\ stage'[d] = stage[d] /\ conn'[d] = conn[d]
    <3>1. CASE Connect(c)
      BY <1>0, <3>1 DEF Connect, Open, Subscribe, Join, Send, shown, TypeOK
    <3>2. CASE Handle(c)
      BY <1>0, <1>2, <3>2 DEF Handle, Refuse, Admit, Store, StoreFails, Send, server,
         shown, TypeOK
    <3>3. CASE Forward(c)
      BY <1>0, <3>3 DEF Forward, ForwardEcho, ForwardDocument, ForwardFiles, Send,
         shown, TypeOK
    <3>4. CASE UserWrites(c) \/ ShowRemote(c) \/ SkipRemote(c)
      BY <3>4 DEF UserWrites, Update, Create, Rename, Delete, Reset, Make,
         ShowRemote, SkipRemote, server
    <3>5. CASE Hear(c)
      BY <1>0, <3>5 DEF Hear, HearStale, HearRevision, HearChanged, HearProject,
         HearFiles, HearSaved, NextEvent, server, shown, TypeOK
    <3> QED
      BY <3>1, <3>2, <3>3, <3>4, <3>5
  <2>2. conn'[c] # "joined" => /\ conn[c] # "joined" /\ toClient'[c] = toClient[c]
                               /\ rev'[c] = rev[c] /\ stage'[c] = stage[c]
    <3>1. CASE Connect(c)
      BY <1>0, <3>1 DEF Connect, Open, Subscribe, Join, shown, TypeOK
    <3>2. CASE Handle(c)
      BY <1>0, <1>2, <3>2 DEF Handle, Refuse, Admit, Store, StoreFails, Takes, server,
         JoinInv, TypeOK
    <3>3. CASE Forward(c)
      BY <3>3 DEF Forward, ForwardEcho, ForwardDocument, ForwardFiles, Receives
    <3>4. CASE UserWrites(c) \/ ShowRemote(c) \/ SkipRemote(c)
      BY <3>4 DEF UserWrites, Update, Create, Rename, Delete, Reset, Make,
         ShowRemote, SkipRemote, server
    <3>5. CASE Hear(c)
      BY <3>5 DEF Hear, HearStale, HearRevision, HearChanged, HearProject,
         HearFiles, HearSaved, NextEvent, server, JoinInv
    <3> QED
      BY <3>1, <3>2, <3>3, <3>4, <3>5
  <2> QED
    BY <2>0, <2>1, <2>2 DEF JoinInv, Own
<1> QED
  BY <1>1, <1>2

\* A client that has not been disturbed after a step was not before it.
LEMMA CleanFalls ==
  ASSUME Core, NEW c \in Client,
         Step(c)
  PROVE  \A d \in Client : clean'[d] => clean[d]
<1>0. TypeOK
  BY DEF Core
<1>1. CASE Connect(c) \/ Forward(c)
  BY <1>1 DEF Connect, Open, Subscribe, Join, Forward, ForwardEcho, ForwardDocument,
     ForwardFiles
<1>2. CASE Refuse(c) \/ Admit(c) \/ Store(c) \/ StoreFails(c)
  BY <1>0, <1>2 DEF Refuse, Admit, Store, StoreFails, TypeOK
<1>3. CASE Record(c)
  <2>1. clean' = [d \in Client |-> clean[d] /\ ~Loses(d)]
    BY <1>3 DEF Record, Broadcast
  <2> QED
    BY <2>1
<1>4. CASE UserWrites(c)
  <2>1. \E x : clean' = [clean EXCEPT ![c] = @ /\ x]
    <3>1. PICK op, p, to : Make(c, op, p, to)
      BY <1>4, MakeParts
    <3> QED
      BY <3>1 DEF Make
  <2> QED
    BY <1>0, <2>1, Zenon DEF TypeOK
<1>5. CASE ShowRemote(c) \/ SkipRemote(c)
  BY <1>0, <1>5 DEF ShowRemote, SkipRemote, TypeOK
<1>6. CASE Hear(c)
  BY <1>0, <1>6 DEF Hear, HearStale, HearRevision, HearChanged, HearProject, HearFiles,
     HearSaved, TypeOK
<1> QED
  BY <1>1, <1>2, <1>3, <1>4, <1>5, <1>6 DEF Handle

LEMMA AppendTwo ==
  ASSUME NEW S, NEW q \in Seq(S), NEW x \in S, NEW y \in S
  PROVE  LET n == q \o <<x, y>> IN
         /\ n \in Seq(S) /\ Len(q) \in Nat /\ Len(n) = Len(q) + 2
         /\ DOMAIN q = 1..Len(q) /\ DOMAIN n = 1..(Len(q) + 2)
         /\ n[Len(q) + 1] = x /\ n[Len(q) + 2] = y
         /\ \A i \in DOMAIN q : n[i] = q[i] /\ i \in DOMAIN n
                                /\ i \in Nat /\ i < Len(q) + 1
         /\ \A i \in DOMAIN n : i \in DOMAIN q \/ i = Len(q) + 1 \/ i = Len(q) + 2
OBVIOUS

\* What each step sends.
LEMMA JoinSends ==
  ASSUME Core, JoinInv, NEW c \in Client, Join(c)
  PROVE  /\ [type |-> "ack", revision |-> revision] \in Event
         /\ [type |-> "project", files |-> disk, revision |-> revision] \in Event
         /\ toClient[c] = <<>> /\ rev[c] = None /\ stage[c] = "idle"
         /\ toClient'[c] = <<[type |-> "ack", revision |-> revision],
                [type |-> "project", files |-> disk, revision |-> revision]>>
         /\ \A d \in Client : d # c => toClient'[d] = toClient[d]
<1>1. TypeOK /\ revision \in Nat /\ disk \in Files
  BY DEF Core, TypeOK
<1>2. toClient[c] = <<>> /\ rev[c] = None /\ stage[c] = "idle"
  BY DEF Join, JoinInv
<1>3. toClient' = [toClient EXCEPT ![c] = @ \o <<[type |-> "ack", revision |-> revision],
                [type |-> "project", files |-> disk, revision |-> revision]>>]
  BY DEF Join, Send
<1> DEFINE e == [type |-> "ack", revision |-> revision]
           f == [type |-> "project", files |-> disk, revision |-> revision]
<1>4. e \in Event /\ f \in Event
  BY <1>1, Events
<1> HIDE DEF e, f
<1>5. <<>> \o <<e, f>> = <<e, f>>
  BY <1>4
<1>6. toClient' = [toClient EXCEPT ![c] = @ \o <<e, f>>]
  BY <1>3 DEF e, f
<1>7. toClient'[c] = <<e, f>> /\ \A d \in Client : d # c => toClient'[d] = toClient[d]
  BY <1>1, <1>2, <1>5, <1>6 DEF TypeOK
<1> QED
  BY <1>2, <1>4, <1>7 DEF e, f

LEMMA SendsOne ==
  ASSUME Core, NEW c \in Client, NEW e \in Event, Send(c, <<e>>)
  PROVE  /\ toClient[c] \in Seq(Event) /\ toClient'[c] = Append(toClient[c], e)
         /\ \A d \in Client : d # c => toClient'[d] = toClient[d]
<1>1. TypeOK /\ toClient[c] \in Seq(Event)
  BY DEF Core, TypeOK
<1>2. toClient[c] \o <<e>> = Append(toClient[c], e)
  BY <1>1, AppendParts
<1> QED
  BY <1>1, <1>2 DEF Send, TypeOK

LEMMA RefuseSends ==
  ASSUME Core, NEW c \in Client, Refuse(c)
  PROVE  \A d \in Client : d # c => toClient'[d] = toClient[d]
BY DEF Refuse, Send, Core, TypeOK

LEMMA StoreSends ==
  ASSUME Core, NEW c \in Client, Store(c)
  PROVE  /\ toClient[c] \in Seq(Event)
         /\ \A d \in Client : d # c => toClient'[d] = toClient[d]
         /\ LET w == Head(toServer[c])
                e == [type |-> "files", files |-> Applied(w, catalog[c]),
                      version |-> w.version]
            IN  /\ e \in Event
                /\ w.op = "update" => toClient'[c] = toClient[c]
                /\ w.op # "update" => toClient'[c] = Append(toClient[c], e)
<1>1. TypeOK /\ LockInv /\ toClient[c] \in Seq(Event) /\ catalog[c] \in Files
  BY DEF Core, TypeOK
<1> DEFINE w == Head(toServer[c])
           e == [type |-> "files", files |-> Applied(w, catalog[c]), version |-> w.version]
<1>2. w \in Write
  BY <1>1, Taken DEF LockInv, Admitted, Store
<1>3. Applied(w, catalog[c]) \in Files /\ w.version \in Nat
  BY <1>1, <1>2, AppliedType, WriteParts
<1>4. e \in Event
  BY <1>3, Events
<1>5. /\ w.op = "update" => toClient' = toClient
      /\ w.op # "update" => Send(c, <<e>>)
  BY DEF Store
<1> HIDE DEF e
<1>6. CASE w.op = "update"
  BY <1>1, <1>4, <1>5, <1>6 DEF e
<1>7. CASE w.op # "update"
  <2>1. /\ toClient'[c] = Append(toClient[c], e)
        /\ \A d \in Client : d # c => toClient'[d] = toClient[d]
    BY <1>4, <1>5, <1>7, SendsOne
  <2> QED
    BY <1>1, <1>4, <1>7, <2>1 DEF e
<1> QED
  BY <1>6, <1>7

LEMMA RecordSends ==
  ASSUME Core, NEW c \in Client, Record(c)
  PROVE  /\ toClient[c] \in Seq(Event)
         /\ \A d \in Client : d # c => toClient'[d] = toClient[d]
         /\ [type |-> "ack", revision |-> revision + 1] \in Event
         /\ [type |-> "saved", version |-> Head(toServer[c]).version] \in Event
         /\ toClient'[c] = toClient[c] \o
              <<[type |-> "ack", revision |-> revision + 1],
                [type |-> "saved", version |-> Head(toServer[c]).version]>>
<1>1. TypeOK /\ LockInv /\ toClient[c] \in Seq(Event) /\ revision + 1 \in Nat
  BY DEF Core, TypeOK
<1>2. Head(toServer[c]) \in Write
  BY <1>1, Taken DEF LockInv, Admitted, Record
<1>3. Head(toServer[c]).version \in Nat
  BY <1>2, WriteParts
<1>4. /\ [type |-> "ack", revision |-> revision + 1] \in Event
      /\ [type |-> "saved", version |-> Head(toServer[c]).version] \in Event
  BY <1>1, <1>3, Events
<1>5. toClient' = [toClient EXCEPT ![c] = @ \o
              <<[type |-> "ack", revision |-> revision + 1],
                [type |-> "saved", version |-> Head(toServer[c]).version]>>]
  BY DEF Record, Send
<1> QED
  BY <1>1, <1>4, <1>5 DEF TypeOK

LEMMA DocumentSends ==
  ASSUME Core, NEW c \in Client, ForwardDocument(c)
  PROVE  LET x == Head(chan[c])
             e == [type |-> "changed", path |-> x.path, text |-> x.text,
                   revision |-> x.revision]
         IN  /\ x \in Change /\ x.type = "document" /\ x.origin # c /\ chan[c] # <<>>
             /\ e \in Event
             /\ toClient[c] \in Seq(Event) /\ toClient'[c] = Append(toClient[c], e)
             /\ \A d \in Client : d # c => toClient'[d] = toClient[d]
<1>1. TypeOK
  BY DEF Core
<1> DEFINE x == Head(chan[c])
           e == [type |-> "changed", path |-> x.path, text |-> x.text,
                 revision |-> x.revision]
<1>2. /\ x \in Change /\ x.type = "document" /\ x.origin # c /\ chan[c] # <<>>
      /\ Send(c, <<e>>)
  BY <1>1, Received DEF ForwardDocument, Receives
<1>3. x.path \in Path /\ x.text \in Text /\ x.revision \in Nat
  BY <1>2, ChangeParts
<1>4. e \in Event
  BY <1>3, Events
<1> HIDE DEF e
<1>5. /\ toClient[c] \in Seq(Event) /\ toClient'[c] = Append(toClient[c], e)
      /\ \A d \in Client : d # c => toClient'[d] = toClient[d]
  BY <1>2, <1>4, SendsOne
<1> QED
  BY <1>2, <1>4, <1>5 DEF e

LEMMA FilesSends ==
  ASSUME Core, NEW c \in Client, ForwardFiles(c)
  PROVE  LET e == [type |-> "project", files |-> disk, revision |-> revision]
         IN  /\ e \in Event
             /\ toClient[c] \in Seq(Event) /\ toClient'[c] = Append(toClient[c], e)
             /\ \A d \in Client : d # c => toClient'[d] = toClient[d]
<1> DEFINE e == [type |-> "project", files |-> disk, revision |-> revision]
<1>1. e \in Event
  BY Events DEF Core, TypeOK
<1>2. Send(c, <<e>>)
  BY DEF ForwardFiles
<1> HIDE DEF e
<1>3. /\ toClient[c] \in Seq(Event) /\ toClient'[c] = Append(toClient[c], e)
      /\ \A d \in Client : d # c => toClient'[d] = toClient[d]
  BY <1>1, <1>2, SendsOne
<1> QED
  BY <1>1, <1>3 DEF e

LEMMA HearTakes ==
  ASSUME Core, NEW c \in Client, Hear(c)
  PROVE  /\ toClient[c] \in Seq(Event) /\ toClient[c] # <<>>
         /\ toClient'[c] = Tail(toClient[c])
         /\ \A d \in Client : d # c => toClient'[d] = toClient[d]
         /\ UNCHANGED <<store, server, toServer, ver>>
         /\ \A d \in Client : d # c =>
              /\ rev'[d] = rev[d] /\ screen'[d] = screen[d] /\ remote'[d] = remote[d]
              /\ unsaved'[d] = unsaved[d]
<1>1. TypeOK /\ NextEvent(c)
  BY DEF Core, Hear, HearStale, HearRevision, HearChanged, HearProject, HearFiles,
     HearSaved
<1>2. UNCHANGED <<store, server, toServer, ver>>
  BY DEF Hear, HearStale, HearRevision, HearChanged, HearProject, HearFiles,
     HearSaved, made
<1>3. \A d \in Client : d # c =>
        /\ rev'[d] = rev[d] /\ screen'[d] = screen[d] /\ remote'[d] = remote[d]
        /\ unsaved'[d] = unsaved[d]
  BY <1>1 DEF Hear, HearStale, HearRevision, HearChanged, HearProject, HearFiles,
     HearSaved, made, shown, TypeOK
<1> QED
  BY <1>1, <1>2, <1>3 DEF NextEvent, TypeOK

\* Only these steps touch what is on its way to a client.
LEMMA OutboxStays ==
  ASSUME Core, NEW c \in Client,
         \/ Open(c) \/ Subscribe(c) \/ Admit(c) \/ StoreFails(c) \/ ForwardEcho(c)
         \/ UserWrites(c) \/ ShowRemote(c) \/ SkipRemote(c)
  PROVE  toClient' = toClient
BY DEF Open, Subscribe, Admit, StoreFails, ForwardEcho, UserWrites, Update, Create,
   Rename, Delete, Reset, Make, ShowRemote, SkipRemote

NoConflict(q) == \A i \in DOMAIN q : q[i].type # "conflict"

LEMMA NoConflictAppend ==
  ASSUME NEW q \in Seq(Event), NEW e \in Event, NoConflict(q), e.type # "conflict"
  PROVE  NoConflict(Append(q, e))
BY AppendParts DEF NoConflict

LEMMA NoConflictTail ==
  ASSUME NEW q \in Seq(Event), q # <<>>, NoConflict(q)
  PROVE  NoConflict(Tail(q))
BY TailParts DEF NoConflict

LEMMA ConflictStep ==
  ASSUME Core, JoinInv, NEW c \in Client,
         Step(c),
         \A d \in Client : clean[d] => NoConflict(toClient[d]),
         NEW d \in Client, clean'[d]
  PROVE  NoConflict(toClient'[d])
<1>0. clean[d] /\ NoConflict(toClient[d])
  BY CleanFalls
<1>1. CASE Join(c)
  <2>1. CASE d = c
    <3> DEFINE e == [type |-> "ack", revision |-> revision]
               f == [type |-> "project", files |-> disk, revision |-> revision]
    <3>1. e \in Event /\ f \in Event /\ toClient'[c] = <<e, f>>
      BY <1>1, JoinSends
    <3>2. e.type # "conflict" /\ f.type # "conflict"
      OBVIOUS
    <3> HIDE DEF e, f
    <3>3. NoConflict(<<e, f>>)
      BY <3>1, <3>2 DEF NoConflict
    <3> QED
      BY <2>1, <3>1, <3>3
  <2> QED
    BY <1>0, <1>1, <2>1, JoinSends
<1>2. CASE Refuse(c)
  <2>1. d # c
    BY <1>2 DEF Refuse, Core, TypeOK
  <2> QED
    BY <1>0, <1>2, <2>1, RefuseSends
<1>3. CASE Store(c)
  <2> DEFINE w == Head(toServer[c])
             e == [type |-> "files", files |-> Applied(w, catalog[c]),
                   version |-> w.version]
  <2>1. /\ toClient[c] \in Seq(Event) /\ e \in Event
        /\ toClient'[c] \in {toClient[c], Append(toClient[c], e)}
        /\ \A b \in Client : b # c => toClient'[b] = toClient[b]
    BY <1>3, StoreSends
  <2>2. e.type # "conflict"
    OBVIOUS
  <2> HIDE DEF e, w
  <2> QED
    BY <1>0, <2>1, <2>2, NoConflictAppend
<1>4. CASE Record(c)
  <2> DEFINE e == [type |-> "ack", revision |-> revision + 1]
             f == [type |-> "saved", version |-> Head(toServer[c]).version]
  <2>1. /\ toClient[c] \in Seq(Event) /\ e \in Event /\ f \in Event
        /\ toClient'[c] = toClient[c] \o <<e, f>>
        /\ \A b \in Client : b # c => toClient'[b] = toClient[b]
    BY <1>4, RecordSends
  <2>2. e.type # "conflict" /\ f.type # "conflict"
    OBVIOUS
  <2> HIDE DEF e, f
  <2>3. NoConflict(toClient[c]) => NoConflict(toClient[c] \o <<e, f>>)
    <3> DEFINE n == toClient[c] \o <<e, f>>
    <3>1. \A i \in DOMAIN n : \/ i \in DOMAIN toClient[c] /\ n[i] = toClient[c][i]
                             \/ n[i] = e \/ n[i] = f
      BY <2>1, AppendTwo
    <3> QED
      BY <2>2, <3>1 DEF NoConflict
  <2> QED
    BY <1>0, <2>1, <2>3
<1>5. CASE ForwardDocument(c)
  <2> DEFINE x == Head(chan[c])
             e == [type |-> "changed", path |-> x.path, text |-> x.text,
                   revision |-> x.revision]
  <2>1. /\ toClient[c] \in Seq(Event) /\ e \in Event
        /\ toClient'[c] = Append(toClient[c], e)
        /\ \A b \in Client : b # c => toClient'[b] = toClient[b]
    BY <1>5, DocumentSends
  <2>2. e.type # "conflict"
    OBVIOUS
  <2> HIDE DEF e, x
  <2> QED
    BY <1>0, <2>1, <2>2, NoConflictAppend
<1>6. CASE ForwardFiles(c)
  <2> DEFINE e == [type |-> "project", files |-> disk, revision |-> revision]
  <2>1. /\ toClient[c] \in Seq(Event) /\ e \in Event
        /\ toClient'[c] = Append(toClient[c], e)
        /\ \A b \in Client : b # c => toClient'[b] = toClient[b]
    BY <1>6, FilesSends
  <2>2. e.type # "conflict"
    OBVIOUS
  <2> HIDE DEF e
  <2> QED
    BY <1>0, <2>1, <2>2, NoConflictAppend
<1>7. CASE Hear(c)
  BY <1>0, <1>7, HearTakes, NoConflictTail
<1>8. CASE \/ Open(c) \/ Subscribe(c) \/ Admit(c) \/ StoreFails(c) \/ ForwardEcho(c)
           \/ UserWrites(c) \/ ShowRemote(c) \/ SkipRemote(c)
  BY <1>0, <1>8, OutboxStays
<1> QED
  BY <1>1, <1>2, <1>3, <1>4, <1>5, <1>6, <1>7, <1>8 DEF Connect, Handle, Forward

LEMMA BaseStep ==
  ASSUME Core, JoinInv, NEW c \in Client,
         Step(c),
         \A d \in Client : clean[d] =>
           \A i \in DOMAIN toServer[d] : toServer[d][i].base \in 0..revision,
         NEW d \in Client, clean'[d], NEW i \in DOMAIN toServer'[d]
  PROVE  toServer'[d][i].base \in 0..revision'
<1>0. clean[d] /\ TypeOK /\ revision \in Nat /\ toServer[d] \in Seq(Write)
  BY CleanFalls DEF Core, TypeOK
<1>1. CASE UserWrites(c)
  <2>a. PICK op \in AllOps, p \in Path, to \in Path, w \in Write :
          /\ w = [op |-> op, path |-> p, to |-> to, text |-> <<c, ver[c] + 1>>,
                  version |-> ver[c] + 1, base |-> rev[c], seen |-> screen[c],
                  blind |-> p \in skipped[c]]
          /\ Make(c, op, p, to)
          /\ toServer' = [toServer EXCEPT ![c] = Append(@, w)]
    BY <1>1, MakeParts
  <2>1. /\ w.base = rev[c] /\ Make(c, op, p, to)
        /\ toServer' = [toServer EXCEPT ![c] = Append(@, w)]
    BY <2>a
  <2>2. UNCHANGED <<revision, log>>
    BY <1>1, LogStays
  <2>3. CASE d = c
    <3>1. rev[c] # None
      BY <1>0, <2>1, <2>3 DEF Make, TypeOK
    <3>2. rev[c] \in 0..revision
      BY <1>0, <3>1 DEF Core, HeardInv, InOrder, TypeOK, Heard
    <3>3. toServer'[d] = Append(toServer[d], w)
      BY <1>0, <2>1, <2>3 DEF TypeOK
    <3>4. \/ i \in DOMAIN toServer[d] /\ toServer'[d][i] = toServer[d][i]
          \/ toServer'[d][i] = w
      BY <1>0, <3>3, AppendParts
    <3> QED
      BY <1>0, <2>1, <2>2, <3>2, <3>4
  <2>4. CASE d # c
    <3>1. toServer'[d] = toServer[d]
      BY <1>0, <2>1, <2>4 DEF TypeOK
    <3> QED
      BY <1>0, <2>2, <3>1
  <2> QED
    BY <2>3, <2>4
<1>2. CASE ~UserWrites(c)
  <2>1. \/ toServer' = toServer
        \/ toServer[c] # <<>> /\ toServer' = [toServer EXCEPT ![c] = Tail(@)]
    <3>1. CASE Handle(c)
      BY <3>1 DEF Handle, Refuse, Takes, Admit, Store, StoreFails, Record, Core,
         LockInv, Admitted
    <3>2. CASE Connect(c) \/ Forward(c)
      BY <3>2 DEF Connect, Open, Subscribe, Join, Forward, ForwardEcho,
         ForwardDocument, ForwardFiles
    <3>3. CASE Hear(c)
      BY <3>3, HearTakes
    <3>4. CASE ShowRemote(c) \/ SkipRemote(c)
      BY <3>4 DEF ShowRemote, SkipRemote
    <3> QED
      BY <1>2, <3>1, <3>2, <3>3, <3>4
  <2>2. revision' \in {revision, revision + 1}
    <3>1. Record(c) => revision' = revision + 1
      BY LogGrows
    <3> QED
      BY <1>2, <3>1, LogStays DEF Handle
  <2>3. \E j \in DOMAIN toServer[d] : toServer'[d][i] = toServer[d][j]
    <3>1. CASE toServer'[d] = toServer[d]
      BY <3>1
    <3>2. CASE toServer[d] # <<>> /\ toServer'[d] = Tail(toServer[d])
      BY <1>0, <3>2, TailParts
    <3> QED
      BY <1>0, <2>1, <3>1, <3>2 DEF TypeOK
  <2> QED
    BY <1>0, <2>2, <2>3
<1> QED
  BY <1>1, <1>2

LEMMA HistoryStep ==
  ASSUME Core, HistoryInv, NEW c \in Client,
         Step(c)
  PROVE  HistoryInv'
<1>1. LogInv'
  <2>1. CASE Record(c)
    BY <2>1, LogStep DEF HistoryInv
  <2>2. CASE ~Record(c)
    <3>1. UNCHANGED <<revision, log>>
      BY <2>2, LogStays DEF Handle
    <3> QED
      BY <3>1 DEF HistoryInv, LogInv, At
  <2> QED
    BY <2>1, <2>2
<1>2. CleanInv'
  <2> USE DEF HistoryInv
  <2>1. /\ \A d \in Client : clean[d] => NoConflict(toClient[d])
        /\ \A d \in Client : clean[d] =>
             \A i \in DOMAIN toServer[d] : toServer[d][i].base \in 0..revision
    BY DEF CleanInv, NoConflict
  <2>2. \A d \in Client : clean'[d] => NoConflict(toClient'[d])
    BY <2>1, ConflictStep
  <2>3. \A d \in Client : clean'[d] =>
          \A i \in DOMAIN toServer'[d] : toServer'[d][i].base \in 0..revision'
    BY <2>1, BaseStep
  <2> QED
    BY <2>2, <2>3 DEF CleanInv, NoConflict
<1> QED
  BY <1>1, <1>2, DiskStep, VersionStep, JoinStep DEF HistoryInv

-----------------------------------------------------------------------------
(* Changes on their way to a forwarder.                                    *)

\* The log of a revision on.
Grows(L, M) ==
  /\ L \in Seq(Entered) /\ M \in Seq(Entered) /\ Len(L) <= Len(M)
  /\ \A r \in 1..Len(L) : M[r] = L[r]

LEMMA LogAndLen ==
  ASSUME Core
  PROVE  /\ log \in Seq(Entered) /\ Len(log) = revision /\ revision \in Nat
         /\ \A c \in Client : \A r : Own(c, r) <=> By(log, c, r)
         /\ \A r \in 0..revision : At(r) = FilesAt(log, r)
BY DEF Core, TypeOK, SuffixInv, Own, By, At, FilesAt

LEMMA GrowsOn ==
  ASSUME Core, NEW c \in Client, Step(c), Core'
  PROVE  /\ Grows(log, log') /\ revision' \in Nat /\ revision <= revision'
         /\ \A d \in Client : \A r : Own(d, r) => Own(d, r)'
         /\ \A d \in Client, r \in 1..revision : Own(d, r)' => Own(d, r)
         /\ \A r \in 0..revision : At(r)' = At(r)
         /\ \A r \in 1..revision : log'[r] = log[r]
<1>1. /\ log \in Seq(Entered) /\ Len(log) = revision /\ revision \in Nat
      /\ log' \in Seq(Entered) /\ Len(log') = revision' /\ revision' \in Nat
  BY DEF Core, TypeOK, SuffixInv
<1>2. revision <= revision' /\ \A r \in 1..revision : log'[r] = log[r]
  <2>1. CASE Record(c)
    <3>1. /\ revision' = revision + 1
          /\ \A r \in 1..revision : log'[r] = log[r]
      BY <2>1, LogGrows
    <3> QED
      BY <1>1, <3>1
  <2>2. CASE ~Record(c)
    BY <1>1, <2>2, LogStays DEF Handle
  <2> QED
    BY <2>1, <2>2
<1>3. 1..revision \subseteq 1..revision'
  BY <1>1, <1>2
<1> QED
  BY <1>1, <1>2, <1>3 DEF Grows, Own, At

\* What a step leaves alone of every other client.
LEMMA PeerFrame ==
  ASSUME Core, NEW c \in Client, Step(c), NEW d \in Client, d # c
  PROVE  /\ conn'[d] = conn[d] /\ stage'[d] = stage[d] /\ toClient'[d] = toClient[d]
         /\ toServer'[d] = toServer[d] /\ screen'[d] = screen[d] /\ rev'[d] = rev[d]
         /\ remote'[d] = remote[d] /\ unsaved'[d] = unsaved[d] /\ ver'[d] = ver[d]
         /\ ~Record(c) => chan'[d] = chan[d]
<1>0. TypeOK
  BY DEF Core
<1>1. CASE Connect(c)
  BY <1>0, <1>1 DEF Connect, Open, Subscribe, Join, Send, shown, made, TypeOK
<1>2. CASE Refuse(c) \/ Admit(c) \/ StoreFails(c)
  BY <1>0, <1>2 DEF Refuse, Admit, StoreFails, Send, server, shown, made, TypeOK
<1>3. CASE Store(c)
  BY <1>0, <1>3, StoreSends DEF Store, server, shown, made, TypeOK
<1>4. CASE Record(c)
  BY <1>0, <1>4, RecordSends DEF Record, shown, made, TypeOK
<1>5. CASE Forward(c)
  BY <1>0, <1>5 DEF Forward, ForwardEcho, ForwardDocument, ForwardFiles, Receives, Send,
     shown, made, TypeOK
<1>6. CASE UserWrites(c)
  <2>1. PICK op \in AllOps, p \in Path, to \in Path, w \in Write :
          /\ Make(c, op, p, to)
          /\ toServer' = [toServer EXCEPT ![c] = Append(@, w)]
          /\ ver' = [ver EXCEPT ![c] = @ + 1]
          /\ unsaved' = [unsaved EXCEPT ![c] = @ \cup {w}]
          /\ screen' = [screen EXCEPT ![c] = IF op = "reset" THEN @ ELSE Applied(w, @)]
    BY <1>6, MakeParts
  <2>2. UNCHANGED <<store, server, toClient, rev, remote>>
    BY <2>1 DEF Make
  <2> QED
    BY <1>0, <2>1, <2>2 DEF store, server, TypeOK
<1>7. CASE Hear(c)
  BY <1>7, HearTakes DEF server
<1>8. CASE ShowRemote(c) \/ SkipRemote(c)
  BY <1>0, <1>8 DEF ShowRemote, SkipRemote, server, made, TypeOK
<1> QED
  BY <1>1, <1>2, <1>3, <1>4, <1>5, <1>6, <1>7, <1>8 DEF Handle

\* What a forwarder is sent when a write is recorded.
LEMMA RecordBroadcasts ==
  ASSUME Core, NEW c \in Client, Record(c)
  PROVE  \E x \in Change :
           /\ x.origin = c
           /\ \/ x.type = "files"
              \/ /\ x.type = "document" /\ Head(toServer[c]).op = "update"
                 /\ x.path = Head(toServer[c]).path /\ x.text = Head(toServer[c]).text
                 /\ x.revision = revision + 1
           /\ \A d \in Client : /\ chan'[d] = Delivered(d, x)
                                /\ clean'[d] => clean[d] /\ ~Loses(d)
<1> DEFINE w == Head(toServer[c])
           x == IF w.op = "update"
                  THEN [type |-> "document", origin |-> c, path |-> w.path,
                        text |-> w.text, revision |-> revision + 1]
                  ELSE [type |-> "files", origin |-> c]
<1>1. w \in Write /\ revision + 1 \in Nat
  BY Taken DEF Record, Core, TypeOK, LockInv, Admitted
<1>2. x \in Change
  <2>1. w.path \in Path /\ w.text \in Text
    BY <1>1, WriteParts
  <2> HIDE DEF w
  <2> QED
    BY <1>1, <2>1, Changes
<1>3. Broadcast(x)
  BY DEF Record
<1>4. /\ x.origin = c
      /\ \/ x.type = "files"
         \/ /\ x.type = "document" /\ w.op = "update"
            /\ x.path = w.path /\ x.text = w.text /\ x.revision = revision + 1
  <2> HIDE DEF w
  <2> QED
    OBVIOUS
<1> HIDE DEF x
<1>5. \A d \in Client : chan'[d] = Delivered(d, x) /\ (clean'[d] => clean[d] /\ ~Loses(d))
  BY <1>3 DEF Broadcast
<1> QED
  BY <1>2, <1>4, <1>5

LEMMA EditGrows ==
  ASSUME NEW L, NEW M, Grows(L, M), NEW e, IsEdit(e, L)
  PROVE  IsEdit(e, M)
<1>1. 1..Len(L) \subseteq 1..Len(M) /\ \A r \in 1..Len(L) : M[r] = L[r]
  BY DEF Grows
<1> QED
  BY <1>1 DEF IsEdit

LEMMA ByGrows ==
  ASSUME NEW L, NEW M, Grows(L, M)
  PROVE  /\ 1..Len(L) \subseteq 1..Len(M) /\ 0..Len(L) \subseteq 0..Len(M)
         /\ \A c, r : By(L, c, r) => By(M, c, r)
         /\ \A c : \A r \in 0..Len(L) : By(M, c, r) => By(L, c, r)
         /\ \A r \in 0..Len(L) : FilesAt(M, r) = FilesAt(L, r)
         /\ \A c, r, e : IsAck(e, L, c, r) => IsAck(e, M, c, r)
<1>1. /\ 1..Len(L) \subseteq 1..Len(M) /\ \A r \in 1..Len(L) : M[r] = L[r]
      /\ 0..Len(L) \subseteq 0..Len(M) /\ \A r \in 0..Len(L) : r = 0 \/ r \in 1..Len(L)
  BY DEF Grows
<1>2. \A r \in 1..Len(M) : r # 0
  BY DEF Grows
<1> QED
  BY <1>1, <1>2 DEF By, FilesAt, IsAck

\* As it was recorded, a change.
Recorded(x, L) ==
  x.type = "document" => IsEdit(x, L) /\ By(L, x.origin, x.revision)

LEMMA DeliveredIs ==
  ASSUME TypeOK, NEW d \in Client, NEW x \in Change
  PROVE  LET q == Append(chan[d], x) IN
         /\ chan[d] \in Seq(Change) /\ q \in Seq(Change) /\ q # <<>>
         /\ Delivered(d, x) \in {chan[d], q, Tail(q)}
BY AppendParts DEF TypeOK, Delivered

LEMMA ChanStep ==
  ASSUME Core, Core', ChanInv, NEW c \in Client, Step(c)
  PROVE  ChanInv'
<1>1. TypeOK /\ Grows(log, log')
  BY GrowsOn DEF Core
<1>2. \A x : Recorded(x, log) => Recorded(x, log')
  BY <1>1, EditGrows, ByGrows DEF Recorded
<1> SUFFICES ASSUME NEW d \in Client, NEW i \in DOMAIN chan'[d]
             PROVE  Recorded(chan'[d][i], log')
  BY DEF ChanInv, Recorded
<1>3. chan[d] \in Seq(Change) /\ \A j \in DOMAIN chan[d] : Recorded(chan[d][j], log')
  BY <1>1, <1>2 DEF ChanInv, Recorded, TypeOK
<1>4. CASE Record(c)
  <2>1. PICK x \in Change :
           /\ x.origin = c
           /\ \/ x.type = "files"
              \/ /\ x.type = "document" /\ Head(toServer[c]).op = "update"
                 /\ x.path = Head(toServer[c]).path /\ x.text = Head(toServer[c]).text
                 /\ x.revision = revision + 1
           /\ \A b \in Client : chan'[b] = Delivered(b, x)
    BY <1>4, RecordBroadcasts
  <2>2. /\ revision' = revision + 1
        /\ log'[revision + 1] = [by |-> c, write |-> Head(toServer[c]), files |-> disk]
        /\ revision + 1 \in 1..Len(log')
    <3>1. Len(log') = revision' /\ revision \in Nat
      BY DEF Core, SuffixInv, TypeOK
    <3>2. /\ revision' = revision + 1
          /\ log'[revision + 1] = [by |-> c, write |-> Head(toServer[c]), files |-> disk]
      BY <1>4, LogGrows
    <3> QED
      BY <3>1, <3>2
  <2>3. Recorded(x, log')
    BY <2>1, <2>2 DEF Recorded, IsEdit, By
  <2> DEFINE q == Append(chan[d], x)
  <2>4. q \in Seq(Change) /\ q # <<>> /\ chan'[d] \in {chan[d], q, Tail(q)}
    BY <1>1, <2>1, DeliveredIs
  <2>5. \A j \in DOMAIN q : Recorded(q[j], log')
    BY <1>3, <2>1, <2>3, AppendParts
  <2> HIDE DEF q
  <2>6. \A j \in DOMAIN Tail(q) : Recorded(Tail(q)[j], log')
    BY <2>4, <2>5, TailParts
  <2> QED
    BY <1>3, <2>4, <2>5, <2>6
<1>5. CASE Forward(c)
  <2>1. Receives(c)
    BY <1>5 DEF Forward, ForwardEcho, ForwardDocument, ForwardFiles
  <2>2. (chan[d] # <<>> /\ chan'[d] = Tail(chan[d])) \/ chan'[d] = chan[d]
    BY <1>1, <2>1 DEF Receives, TypeOK
  <2>3. CASE chan[d] # <<>> /\ chan'[d] = Tail(chan[d])
    BY <1>3, <2>3, TailParts
  <2> QED
    BY <1>3, <2>2, <2>3
<1>6. CASE ~Record(c) /\ ~Forward(c)
  <2>1. chan' = chan
    <3>1. CASE Connect(c) \/ Handle(c)
      BY <1>6, <3>1 DEF Connect, Open, Subscribe, Join, Handle, Refuse, Admit, Store,
         StoreFails, server
    <3>2. CASE UserWrites(c) \/ ShowRemote(c) \/ SkipRemote(c)
      BY <3>2 DEF UserWrites, Update, Create, Rename, Delete, Reset, Make, ShowRemote,
         SkipRemote, server
    <3>3. CASE Hear(c)
      BY <3>3, HearTakes DEF server
    <3> QED
      BY <1>6, <3>1, <3>2, <3>3
  <2> QED
    BY <1>3, <2>1
<1> QED
  BY <1>4, <1>5, <1>6

-----------------------------------------------------------------------------
(* Events on their way to a client.                                        *)

\* Events put behind the others.
Longer(q, n) ==
  /\ q \in Seq(Event) /\ n \in Seq(Event) /\ Len(q) <= Len(n)
  /\ \A i \in 1..Len(q) : n[i] = q[i]

LEMMA LongerParts ==
  ASSUME NEW q, NEW n, Longer(q, n)
  PROVE  /\ Len(q) \in Nat /\ Len(n) \in Nat
         /\ DOMAIN q = 1..Len(q) /\ DOMAIN n = 1..Len(n)
         /\ \A i \in DOMAIN q : i \in Nat /\ i \in DOMAIN n /\ n[i] = q[i]
         /\ \A j \in DOMAIN n : j \in Nat /\ (j \in DOMAIN q \/ j > Len(q))
         /\ \A i \in DOMAIN q, j \in DOMAIN n : j < i => j \in DOMAIN q
         /\ \A i \in DOMAIN q, j \in DOMAIN n : j > Len(q) => i < j
BY DEF Longer

LEMMA LongerOne ==
  ASSUME NEW q \in Seq(Event), NEW e \in Event
  PROVE  Longer(q, Append(q, e)) /\ Longer(q, q)
BY AppendParts DEF Longer

LEMMA LongerTwo ==
  ASSUME NEW q \in Seq(Event), NEW e \in Event, NEW f \in Event
  PROVE  Longer(q, q \o <<e, f>>)
BY AppendTwo DEF Longer

\* A write that was stored still is, or has been acknowledged since.
Passed(storing, stored, q, n, c, M) ==
  \A x \in storing :
    \/ x \in stored
    \/ \E j \in DOMAIN n, r \in 1..Len(M) :
         /\ j > Len(q) /\ IsAck(n[j], M, c, r)
         /\ M[r].write.version = x.version /\ x.files = M[r].files

LEMMA TellsLonger ==
  ASSUME NEW q, NEW n, Longer(q, n), NEW L, NEW M, Grows(L, M),
         NEW heard, NEW c, NEW storing, NEW stored,
         Passed(storing, stored, q, n, c, M),
         \A i \in DOMAIN q : Tells(q, i, heard, c, storing, L)
  PROVE  \A i \in DOMAIN q : Tells(n, i, heard, c, stored, M)
<1> SUFFICES ASSUME NEW i \in DOMAIN q PROVE Tells(n, i, heard, c, stored, M)
  OBVIOUS
<1>a. \A x \in storing :
        \/ x \in stored
        \/ \E j \in DOMAIN n, r \in 1..Len(M) :
             /\ j > Len(q) /\ IsAck(n[j], M, c, r)
             /\ M[r].write.version = x.version /\ x.files = M[r].files
  BY DEF Passed
<1> DEFINE e == q[i]
<1>1. n[i] = e /\ i \in DOMAIN n /\ i \in Nat
  BY LongerParts
<1>2. /\ 1..Len(L) \subseteq 1..Len(M) /\ 0..Len(L) \subseteq 0..Len(M)
      /\ \A r \in 1..Len(L) : M[r] = L[r]
      /\ \A b, r : By(L, b, r) => By(M, b, r)
      /\ \A b : \A r \in 0..Len(L) : By(M, b, r) => By(L, b, r)
      /\ \A r \in 0..Len(L) : FilesAt(M, r) = FilesAt(L, r)
      /\ \A b, r, x : IsAck(x, L, b, r) => IsAck(x, M, b, r)
  BY ByGrows DEF Grows
<1> HIDE DEF e
<1>3. ASSUME e.type = "changed" PROVE IsEdit(e, M) /\ ~By(M, c, e.revision)
  <2>1. IsEdit(e, L) /\ ~By(L, c, e.revision)
    BY <1>3 DEF Tells, e
  <2>2. e.revision \in 0..Len(L)
    BY <2>1 DEF IsEdit, Grows
  <2> QED
    BY <1>2, <2>1, <2>2, EditGrows
<1>4. ASSUME e.type = "project"
      PROVE  e.revision \in 0..Len(M) /\ e.files = FilesAt(M, e.revision)
  <2>1. e.revision \in 0..Len(L) /\ e.files = FilesAt(L, e.revision)
    BY <1>4 DEF Tells, e
  <2> QED
    BY <1>2, <2>1
<1>5. ASSUME e.type = "ack"
      PROVE  \/ /\ By(M, c, e.revision)
                /\ heard # None => heard < e.revision
                /\ \A j \in DOMAIN n : j < i /\ Dated(n[j]) => n[j].revision < e.revision
             \/ /\ ~By(M, c, e.revision) /\ i + 1 \in DOMAIN n
                /\ n[i + 1].type = "project" /\ n[i + 1].revision = e.revision
  <2>1. CASE /\ By(L, c, e.revision)
             /\ heard # None => heard < e.revision
             /\ \A j \in DOMAIN q : j < i /\ Dated(q[j]) => q[j].revision < e.revision
    <3>1. \A j \in DOMAIN n : j < i => j \in DOMAIN q /\ n[j] = q[j]
      BY LongerParts
    <3> QED
      BY <1>2, <2>1, <3>1
  <2>2. CASE /\ ~By(L, c, e.revision) /\ i + 1 \in DOMAIN q
             /\ q[i + 1].type = "project" /\ q[i + 1].revision = e.revision
    <3>1. i + 1 \in DOMAIN n /\ n[i + 1] = q[i + 1]
      BY <2>2, LongerParts
    <3>2. e.revision \in 0..Len(L)
      <4>1. Tells(q, i + 1, heard, c, storing, L)
        BY <2>2
      <4> QED
        BY <2>2, <4>1 DEF Tells
    <3> QED
      BY <1>2, <2>2, <3>1, <3>2
  <2> QED
    BY <1>5, <2>1, <2>2 DEF Tells, e
<1>6. ASSUME e.type = "saved"
      PROVE  \E r \in 1..Len(M) :
               /\ By(M, c, r) /\ M[r].write.version = e.version
               /\ \/ i = 1 /\ heard # None /\ r <= heard
                  \/ i - 1 \in DOMAIN n /\ IsAck(n[i - 1], M, c, r)
  <2>1. PICK r \in 1..Len(L) :
               /\ By(L, c, r) /\ L[r].write.version = e.version
               /\ \/ i = 1 /\ heard # None /\ r <= heard
                  \/ i - 1 \in DOMAIN q /\ IsAck(q[i - 1], L, c, r)
    BY <1>6 DEF Tells, e
  <2>2. i - 1 \in DOMAIN q => i - 1 \in DOMAIN n /\ n[i - 1] = q[i - 1]
    BY LongerParts
  <2> QED
    BY <1>2, <2>1, <2>2
<1>7. ASSUME e.type = "files"
      PROVE  \/ \E x \in stored : x.version = e.version /\ x.files = e.files
             \/ \E j \in DOMAIN n, r \in 1..Len(M) :
                  /\ i < j /\ IsAck(n[j], M, c, r)
                  /\ M[r].write.version = e.version /\ e.files = M[r].files
  <2>1. CASE \E x \in storing : x.version = e.version /\ x.files = e.files
    <3>1. \A j \in DOMAIN n : j > Len(q) => i < j
      BY LongerParts
    <3> QED
      BY <1>a, <2>1, <3>1
  <2>2. CASE \E j \in DOMAIN q, r \in 1..Len(L) :
                  /\ i < j /\ IsAck(q[j], L, c, r)
                  /\ L[r].write.version = e.version /\ e.files = L[r].files
    <3>1. \A j \in DOMAIN q : j \in DOMAIN n /\ n[j] = q[j]
      BY LongerParts
    <3> QED
      BY <1>2, <2>2, <3>1
  <2> QED
    BY <1>7, <2>1, <2>2 DEF Tells, e
<1> QED
  BY <1>1, <1>3, <1>4, <1>5, <1>6, <1>7 DEF Tells

LEMMA TellsTail ==
  ASSUME NEW q \in Seq(Event), q # <<>>, NEW heard \in Heard, NEW next \in Heard,
         NEW c, NEW storing, NEW L \in Seq(Entered), NEW i \in DOMAIN Tail(q),
         Tells(q, i + 1, heard, c, storing, L), Tells(q, 1, heard, c, storing, L),
         next = heard \/ (Dated(Head(q)) /\ next = Head(q).revision),
         Head(q).type = "ack" => next = Head(q).revision
  PROVE  Tells(Tail(q), i, next, c, storing, L)
<1> DEFINE t == Tail(q)
           e == q[i + 1]
<1>1. /\ t[i] = e /\ i \in Nat /\ i >= 1 /\ i + 1 \in DOMAIN q
      /\ \A j \in DOMAIN t : j \in Nat /\ j + 1 \in DOMAIN q /\ t[j] = q[j + 1]
      /\ \A j \in DOMAIN q : j \in Nat /\ j >= 1 /\ (j # 1 => j - 1 \in DOMAIN t)
      /\ Head(q) = q[1] /\ 1 \in DOMAIN q /\ e \in Event
  BY TailParts
<1> HIDE DEF t, e
<1>3. ASSUME e.type = "changed" PROVE IsEdit(e, L) /\ ~By(L, c, e.revision)
  BY <1>3 DEF Tells, e
<1>4. ASSUME e.type = "project"
      PROVE  e.revision \in 0..Len(L) /\ e.files = FilesAt(L, e.revision)
  BY <1>4 DEF Tells, e
<1>5. ASSUME e.type = "ack"
      PROVE  \/ /\ By(L, c, e.revision)
                /\ next # None => next < e.revision
                /\ \A j \in DOMAIN t : j < i /\ Dated(t[j]) => t[j].revision < e.revision
             \/ /\ ~By(L, c, e.revision) /\ i + 1 \in DOMAIN t
                /\ t[i + 1].type = "project" /\ t[i + 1].revision = e.revision
  <2>1. CASE /\ By(L, c, e.revision)
             /\ heard # None => heard < e.revision
             /\ \A j \in DOMAIN q : j < i + 1 /\ Dated(q[j]) => q[j].revision < e.revision
    <3>1. next # None => next < e.revision
      BY <1>1, <2>1
    <3>2. \A j \in DOMAIN t : j < i /\ Dated(t[j]) => t[j].revision < e.revision
      BY <1>1, <2>1
    <3> QED
      BY <2>1, <3>1, <3>2
  <2>2. CASE /\ ~By(L, c, e.revision) /\ i + 1 + 1 \in DOMAIN q
             /\ q[i + 1 + 1].type = "project" /\ q[i + 1 + 1].revision = e.revision
    <3>1. i + 1 \in DOMAIN t /\ t[i + 1] = q[i + 1 + 1]
      BY <1>1, <2>2
    <3> QED
      BY <2>2, <3>1
  <2> QED
    BY <1>5, <2>1, <2>2 DEF Tells, e
<1>6. ASSUME e.type = "saved"
      PROVE  \E r \in 1..Len(L) :
               /\ By(L, c, r) /\ L[r].write.version = e.version
               /\ \/ i = 1 /\ next # None /\ r <= next
                  \/ i - 1 \in DOMAIN t /\ IsAck(t[i - 1], L, c, r)
  <2>1. PICK r \in 1..Len(L) :
               /\ By(L, c, r) /\ L[r].write.version = e.version
               /\ \/ i + 1 = 1
                  \/ i + 1 - 1 \in DOMAIN q /\ IsAck(q[i + 1 - 1], L, c, r)
    BY <1>1, <1>6 DEF Tells, e
  <2>2. IsAck(q[i], L, c, r) /\ i \in DOMAIN q
    <3>1. i + 1 - 1 = i /\ i + 1 # 1
      BY <1>1
    <3> QED
      BY <2>1, <3>1
  <2>3. CASE i = 1
    <3>1. next = r /\ r \in Nat /\ None \notin Nat
      BY <1>1, <2>2, <2>3, NoneAssumption DEF IsAck
    <3> QED
      BY <2>1, <2>3, <3>1
  <2>4. CASE i # 1
    <3>1. i - 1 \in DOMAIN t /\ t[i - 1] = q[i]
      BY <1>1, <2>2, <2>4
    <3> QED
      BY <2>1, <2>2, <3>1
  <2> QED
    BY <2>3, <2>4
<1>7. ASSUME e.type = "files"
      PROVE  \/ \E x \in storing : x.version = e.version /\ x.files = e.files
             \/ \E j \in DOMAIN t, r \in 1..Len(L) :
                  /\ i < j /\ IsAck(t[j], L, c, r)
                  /\ L[r].write.version = e.version /\ e.files = L[r].files
  <2>1. CASE \E j \in DOMAIN q, r \in 1..Len(L) :
                  /\ i + 1 < j /\ IsAck(q[j], L, c, r)
                  /\ L[r].write.version = e.version /\ e.files = L[r].files
    <3>1. PICK j \in DOMAIN q, r \in 1..Len(L) :
                  /\ i + 1 < j /\ IsAck(q[j], L, c, r)
                  /\ L[r].write.version = e.version /\ e.files = L[r].files
      BY <2>1
    <3>2. j - 1 \in DOMAIN t /\ i < j - 1 /\ t[j - 1] = q[j]
      BY <1>1, <3>1
    <3> QED
      BY <3>1, <3>2
  <2> QED
    BY <1>7, <2>1 DEF Tells, e
<1>8. Tells(t, i, next, c, storing, L)
  BY <1>1, <1>3, <1>4, <1>5, <1>6, <1>7 DEF Tells
<1> QED
  BY <1>8 DEF t

\* What was sent under the lock is never stale.
LEMMA NotStale ==
  ASSUME Core, NEW c \in Client, toClient[c] # <<>>, OfItsTime(Head(toClient[c]))
  PROVE  ~Stale(c, Head(toClient[c]))
<1> DEFINE e == Head(toClient[c])
<1>1. /\ toClient[c] \in Seq(Event) /\ rev[c] \in Heard
      /\ InOrder(toClient[c], rev[c], revision)
  BY DEF Core, TypeOK, HeardInv
<1>2. e = toClient[c][1] /\ 1 \in 1..Len(toClient[c]) /\ e \in Event
  BY <1>1, EmptyQueue
<1>3. e.revision \in Nat
  BY <1>2, EventParts DEF OfItsTime
<1>4. rev[c] # None => rev[c] \in Nat /\ rev[c] <= e.revision
  BY <1>1, <1>2 DEF InOrder, Heard
<1> QED
  BY <1>3, <1>4 DEF Stale

LEMMA HearRev ==
  ASSUME Core, NEW c \in Client, Hear(c)
  PROVE  LET e == Head(toClient[c]) IN
         /\ rev'[c] = rev[c] \/ (Dated(e) /\ rev'[c] = e.revision)
         /\ e.type = "ack" => rev'[c] = e.revision
<1> DEFINE e == Head(toClient[c])
<1>1. rev \in [Client -> Heard] /\ toClient[c] # <<>>
  BY HearTakes DEF Core, TypeOK
<1>2. CASE HearRevision(c) \/ HearChanged(c) \/ HearProject(c)
  BY <1>1, <1>2 DEF HearRevision, HearChanged, HearProject, Dated
<1>3. CASE HearStale(c) \/ HearFiles(c) \/ HearSaved(c)
  <2>1. rev' = rev
    BY <1>3 DEF HearStale, HearFiles, HearSaved, shown
  <2>2. e.type # "ack"
    BY <1>1, <1>3, NotStale DEF HearStale, HearFiles, HearSaved, OfItsTime
  <2> QED
    BY <2>1, <2>2
<1> QED
  BY <1>2, <1>3 DEF Hear

\* Nothing of an event but its type and revision concerns the others.
LEMMA ToldAppend ==
  ASSUME Core, Core', ToldInv, NEW c \in Client, Step(c), NEW e \in Event,
         toClient'[c] = Append(toClient[c], e), rev'[c] = rev[c], Storing(c) \subseteq Storing(c)',
         Tells(Append(toClient[c], e), Len(toClient[c]) + 1, rev[c], c, Storing(c)', log')
  PROVE  \A i \in DOMAIN toClient'[c] : Tells(toClient[c], i, rev[c], c, Storing(c), log)'
<1>1. toClient[c] \in Seq(Event)
  BY DEF Core, TypeOK
<1>2. Longer(toClient[c], toClient'[c]) /\ Grows(log, log')
  BY <1>1, LongerOne, GrowsOn
<1>3. \A i \in DOMAIN toClient[c] : Tells(toClient'[c], i, rev[c], c, Storing(c)', log')
  <2>1. \A i \in DOMAIN toClient[c] : Tells(toClient[c], i, rev[c], c, Storing(c), log)
    BY DEF ToldInv
  <2>2. Passed(Storing(c), Storing(c)', toClient[c], toClient'[c], c, log')
    BY DEF Passed
  <2> QED
    BY <1>2, <2>1, <2>2, TellsLonger
<1>4. \A i \in DOMAIN toClient'[c] : i \in DOMAIN toClient[c] \/ i = Len(toClient[c]) + 1
  BY <1>1, AppendParts
<1> QED
  BY <1>3, <1>4

LEMMA ToldRecord ==
  ASSUME Core, Core', ToldInv, DiskInv, NEW c \in Client, Record(c)
  PROVE  \A i \in DOMAIN toClient'[c] : Tells(toClient[c], i, rev[c], c, Storing(c), log)'
<1> DEFINE w == Head(toServer[c])
           e == [type |-> "ack", revision |-> revision + 1]
           f == [type |-> "saved", version |-> w.version]
           q == toClient[c]
           n == toClient'[c]
<1>0. TypeOK /\ stage[c] = "stored" /\ rev' = rev /\ stage'[c] = "idle"
  BY DEF Record, Core, TypeOK, shown
<1>1. /\ q \in Seq(Event) /\ e \in Event /\ f \in Event /\ n = q \o <<e, f>>
  BY RecordSends
<1>2. Step(c)
  BY DEF Handle
<1>3. Longer(q, n) /\ Grows(log, log')
  BY <1>1, <1>2, LongerTwo, GrowsOn
<1>4. /\ revision \in Nat /\ revision' = revision + 1 /\ Len(log') = revision + 1
      /\ log'[revision + 1] = [by |-> c, write |-> w, files |-> disk]
  <2>1. Len(log') = revision'
    BY DEF Core, SuffixInv
  <2> QED
    BY <2>1, LogGrows
<1>5. /\ revision + 1 \in 1..Len(log') /\ By(log', c, revision + 1)
      /\ log'[revision + 1].write = w /\ log'[revision + 1].files = disk
  BY <1>4 DEF By
<1>6. /\ n[Len(q) + 1] = e /\ n[Len(q) + 2] = f /\ Len(q) \in Nat
      /\ Len(q) + 1 \in DOMAIN n
      /\ \A i \in DOMAIN n : i \in DOMAIN q \/ i = Len(q) + 1 \/ i = Len(q) + 2
  BY <1>1, AppendTwo
<1>7. e.type = "ack" /\ e.revision = revision + 1 /\ f.type = "saved" /\ f.version = w.version
  OBVIOUS
<1>8. Storing(c) = {[version |-> w.version, files |-> disk]} /\ Storing(c)' = {}
  BY <1>0 DEF Storing
<1>9. rev[c] # None => rev[c] < revision + 1
  BY <1>4 DEF Core, HeardInv, InOrder, TypeOK, Heard
<1>10. \A j \in DOMAIN q : Dated(q[j]) => q[j].revision < revision + 1
  <2> SUFFICES ASSUME NEW j \in DOMAIN q, Dated(q[j])
               PROVE  q[j].revision < revision + 1
    OBVIOUS
  <2>1. q[j] \in Event /\ j \in 1..Len(q)
    BY <1>1
  <2>2. q[j].revision \in Nat
    BY <2>1, EventParts DEF Dated
  <2>3. q[j].revision <= revision
    BY <2>1 DEF Core, HeardInv, InOrder
  <2> QED
    BY <1>4, <2>2, <2>3
<1> HIDE DEF w, e, f, q, n
<1>11. IsAck(n[Len(q) + 1], log', c, revision + 1)
  BY <1>5, <1>6, <1>7 DEF IsAck
<1>12. \A i \in DOMAIN q : Tells(n, i, rev[c], c, {}, log')
  <2>1. \A i \in DOMAIN q : Tells(q, i, rev[c], c, Storing(c), log)
    BY DEF ToldInv, q
  <2>2. ASSUME NEW x \in Storing(c)
        PROVE  \E j \in DOMAIN n, r \in 1..Len(log') :
                 /\ j > Len(q) /\ IsAck(n[j], log', c, r)
                 /\ log'[r].write.version = x.version /\ x.files = log'[r].files
    <3>1. x.version = w.version /\ x.files = disk
      BY <1>8
    <3>2. Len(q) + 1 > Len(q)
      BY <1>6
    <3> QED
      BY <1>5, <1>6, <1>11, <3>1, <3>2
  <2>3. Passed(Storing(c), {}, q, n, c, log')
    BY <2>2 DEF Passed
  <2> QED
    BY <1>3, <2>1, <2>3, TellsLonger
<1>13. Tells(n, Len(q) + 1, rev[c], c, {}, log')
  <2>1. \A j \in DOMAIN n : j < Len(q) + 1 => j \in DOMAIN q /\ n[j] = q[j]
    BY <1>3, <1>6, LongerParts
  <2> QED
    BY <1>5, <1>6, <1>7, <1>9, <1>10, <2>1 DEF Tells
<1>14. Tells(n, Len(q) + 2, rev[c], c, {}, log')
  <2>1. Len(q) + 2 - 1 = Len(q) + 1
    BY <1>6
  <2> QED
    BY <1>5, <1>6, <1>7, <1>11, <2>1 DEF Tells
<1>15. \A i \in DOMAIN n : Tells(n, i, rev[c], c, {}, log')
  BY <1>6, <1>12, <1>13, <1>14
<1> QED
  BY <1>0, <1>8, <1>15 DEF n

LEMMA ToldHear ==
  ASSUME Core, Core', ToldInv, NEW c \in Client, Hear(c)
  PROVE  \A i \in DOMAIN toClient'[c] : Tells(toClient[c], i, rev[c], c, Storing(c), log)'
<1>1. /\ toClient[c] \in Seq(Event) /\ toClient[c] # <<>>
      /\ toClient'[c] = Tail(toClient[c]) /\ UNCHANGED <<store, server, toServer>>
  BY HearTakes
<1>2. Storing(c)' = Storing(c) /\ log' = log
  BY <1>1 DEF Storing, store, server
<1>3. rev[c] \in Heard /\ rev'[c] \in Heard /\ log \in Seq(Entered)
  BY DEF Core, TypeOK
<1>4. LET e == Head(toClient[c]) IN
      /\ rev'[c] = rev[c] \/ (Dated(e) /\ rev'[c] = e.revision)
      /\ e.type = "ack" => rev'[c] = e.revision
  BY HearRev
<1>5. ASSUME NEW i \in DOMAIN Tail(toClient[c])
      PROVE  Tells(Tail(toClient[c]), i, rev'[c], c, Storing(c), log)
  <2>1. i + 1 \in DOMAIN toClient[c] /\ 1 \in DOMAIN toClient[c]
    BY <1>1, TailParts
  <2>2. /\ Tells(toClient[c], i + 1, rev[c], c, Storing(c), log)
        /\ Tells(toClient[c], 1, rev[c], c, Storing(c), log)
    BY <2>1 DEF ToldInv
  <2> QED
    BY <1>1, <1>3, <1>4, <2>2, TellsTail
<1> QED
  BY <1>1, <1>2, <1>5

LEMMA ToldStep ==
  ASSUME Core, Core', HistoryInv, HistoryInv', ToldInv, ChanInv, NEW c \in Client, Step(c)
  PROVE  ToldInv'
<1> SUFFICES ASSUME NEW d \in Client
             PROVE  \A i \in DOMAIN toClient'[d] :
                      Tells(toClient[d], i, rev[d], d, Storing(d), log)'
  BY DEF ToldInv
<1>0. /\ TypeOK /\ TypeOK' /\ DiskInv /\ JoinInv /\ Grows(log, log')
      /\ toClient[d] \in Seq(Event)
  BY GrowsOn DEF Core, HistoryInv, TypeOK
<1>a. \A i \in DOMAIN toClient[d] : Tells(toClient[d], i, rev[d], d, Storing(d), log)
  BY DEF ToldInv
<1>b. ASSUME toClient'[d] = toClient[d], rev'[d] = rev[d], Storing(d) \subseteq Storing(d)'
      PROVE  \A i \in DOMAIN toClient'[d] :
               Tells(toClient[d], i, rev[d], d, Storing(d), log)'
  <2>1. Longer(toClient[d], toClient[d])
    BY <1>0, LongerOne, Events DEF Longer
  <2>2. Passed(Storing(d), Storing(d)', toClient[d], toClient[d], d, log')
    BY <1>b DEF Passed
  <2>3. \A i \in DOMAIN toClient[d] : Tells(toClient[d], i, rev[d], d, Storing(d)', log')
    BY <1>0, <1>a, <2>1, <2>2, TellsLonger
  <2> QED
    BY <1>b, <2>3
<1>1. CASE d # c
  <2>1. /\ toClient'[d] = toClient[d] /\ rev'[d] = rev[d] /\ stage'[d] = stage[d]
        /\ toServer'[d] = toServer[d]
    BY <1>1, PeerFrame
  <2>2. stage[d] = "stored" => disk' = disk
    <3>1. Store(c) => stage[c] # "idle"
      BY DEF Store
    <3>2. stage[d] # "idle" => lock = d
      BY DEF Core, LockInv, Admitted
    <3>3. stage[c] # "idle" => lock = c
      BY DEF Core, LockInv, Admitted
    <3>4. ~Store(c) => disk' = disk
      <4>1. CASE Connect(c) \/ Forward(c)
        BY <4>1 DEF Connect, Open, Subscribe, Join, Forward, ForwardEcho, ForwardDocument,
           ForwardFiles, store
      <4>2. CASE Refuse(c) \/ Admit(c) \/ StoreFails(c) \/ Record(c)
        BY <4>2 DEF Refuse, Admit, StoreFails, Record, store
      <4>3. CASE UserWrites(c) \/ ShowRemote(c) \/ SkipRemote(c)
        BY <4>3 DEF UserWrites, Update, Create, Rename, Delete, Reset, Make, ShowRemote,
           SkipRemote, store
      <4>4. CASE Hear(c)
        BY <4>4, HearTakes DEF store
      <4> QED
        BY <4>1, <4>2, <4>3, <4>4 DEF Handle
    <3> QED
      BY <1>1, <3>1, <3>2, <3>3, <3>4
  <2>3. Storing(d)' = Storing(d)
    BY <2>1, <2>2 DEF Storing
  <2> QED
    BY <1>b, <2>1, <2>3
<1>2. CASE d = c /\ Join(c)
  <2> DEFINE e == [type |-> "ack", revision |-> revision]
             f == [type |-> "project", files |-> disk, revision |-> revision]
  <2>1. /\ e \in Event /\ f \in Event /\ toClient'[c] = <<e, f>>
        /\ rev[c] = None /\ stage[c] = "idle"
    BY <1>0, <1>2, JoinSends
  <2>2. rev' = rev /\ log' = log /\ lock = None /\ conn[c] # "joined"
    BY <1>2 DEF Join, shown, store
  <2>3. disk = At(revision)
    BY <1>0, <2>1, <2>2, OthersIdle DEF DiskInv
  <2>4. /\ revision \in 0..Len(log) /\ disk = FilesAt(log, revision)
        /\ ~By(log, c, revision)
    <3>1. ~Own(c, revision)
      BY <1>0, <2>2 DEF JoinInv, Own
    <3> QED
      BY <2>3, <3>1, LogAndLen
  <2>5. /\ e.type = "ack" /\ e.revision = revision
        /\ f.type = "project" /\ f.files = disk /\ f.revision = revision
    OBVIOUS
  <2> HIDE DEF e, f
  <2>6. DOMAIN <<e, f>> = {1, 2} /\ <<e, f>>[1] = e /\ <<e, f>>[2] = f
    OBVIOUS
  <2>7. /\ Tells(<<e, f>>, 1, None, c, Storing(c)', log)
        /\ Tells(<<e, f>>, 2, None, c, Storing(c)', log)
    BY <2>4, <2>5, <2>6 DEF Tells
  <2> QED
    BY <1>2, <2>1, <2>2, <2>6, <2>7
<1>3. CASE d = c /\ Refuse(c)
  <2> DEFINE e == [type |-> "conflict", revision |-> revision]
  <2>1. e \in Event
    BY <1>0, Events DEF TypeOK
  <2>2. Send(c, <<e>>) /\ rev' = rev /\ UNCHANGED <<stage, store>> /\ stage[c] = "idle"
    BY <1>3 DEF Refuse, Takes, server, shown
  <2>3. e.type = "conflict"
    OBVIOUS
  <2> HIDE DEF e
  <2>4. toClient'[c] = Append(toClient[c], e)
    BY <2>1, <2>2, SendsOne
  <2>5. Storing(c) \subseteq Storing(c)'
    BY <2>2 DEF Storing
  <2>6. Append(toClient[c], e)[Len(toClient[c]) + 1] = e
    BY <1>0, <1>3, <2>1, AppendParts
  <2>7. Tells(Append(toClient[c], e), Len(toClient[c]) + 1, rev[c], c, Storing(c)', log')
    BY <2>3, <2>6 DEF Tells
  <2> QED
    BY <1>3, <2>1, <2>2, <2>4, <2>5, <2>7, ToldAppend
<1>4. CASE d = c /\ Store(c)
  <2> DEFINE w == Head(toServer[c])
             e == [type |-> "files", files |-> Applied(w, catalog[c]),
                   version |-> w.version]
  <2>1. /\ e \in Event
        /\ w.op = "update" => toClient'[c] = toClient[c]
        /\ w.op # "update" => toClient'[c] = Append(toClient[c], e)
    BY <1>4, StoreSends
  <2>2. /\ stage[c] = "checked" /\ stage'[c] = "stored" /\ rev' = rev
        /\ disk' = Applied(w, disk) /\ toServer' = toServer
    BY <1>0, <1>4 DEF Store, shown, TypeOK
  <2>3. catalog[c] = disk
    BY <1>0, <2>2 DEF DiskInv
  <2>4. Storing(c)' = {[version |-> w.version, files |-> disk']} /\ Storing(c) = {}
    BY <2>2 DEF Storing
  <2>5. e.type = "files" /\ e.files = disk' /\ e.version = w.version
    BY <2>2, <2>3
  <2> HIDE DEF e, w
  <2>6. CASE w.op = "update"
    BY <1>4, <1>b, <2>1, <2>2, <2>4, <2>6
  <2>7. CASE w.op # "update"
    <3>1. Append(toClient[c], e)[Len(toClient[c]) + 1] = e
      BY <1>0, <1>4, <2>1, AppendParts
    <3>2. Tells(Append(toClient[c], e), Len(toClient[c]) + 1, rev[c], c, Storing(c)', log')
      BY <2>4, <2>5, <3>1 DEF Tells
    <3> QED
      BY <1>4, <2>1, <2>2, <2>4, <2>7, <3>2, ToldAppend DEF Handle
  <2> QED
    BY <2>6, <2>7
<1>5. CASE d = c /\ ForwardDocument(c)
  <2> DEFINE x == Head(chan[c])
             e == [type |-> "changed", path |-> x.path, text |-> x.text,
                   revision |-> x.revision]
  <2>1. /\ x \in Change /\ x.type = "document" /\ x.origin # c /\ chan[c] # <<>>
        /\ e \in Event /\ toClient'[c] = Append(toClient[c], e)
    BY <1>5, DocumentSends
  <2>2. rev' = rev /\ UNCHANGED <<store, stage, toServer>>
    BY <1>5 DEF ForwardDocument, shown
  <2>3. IsEdit(x, log) /\ By(log, x.origin, x.revision)
    <3>1. chan[c] \in Seq(Change)
      BY <1>0 DEF TypeOK
    <3>2. 1 \in DOMAIN chan[c] /\ x = chan[c][1]
      BY <2>1, <3>1, EmptyQueue
    <3> QED
      BY <2>1, <3>2 DEF ChanInv
  <2>4. e.type = "changed" /\ e.path = x.path /\ e.text = x.text /\ e.revision = x.revision
    OBVIOUS
  <2> HIDE DEF e, x
  <2>5. Storing(c) \subseteq Storing(c)'
    BY <2>2 DEF Storing, store
  <2>6. Append(toClient[c], e)[Len(toClient[c]) + 1] = e
    BY <1>0, <1>5, <2>1, AppendParts
  <2>7. IsEdit(e, log) /\ ~By(log, c, e.revision)
    BY <2>1, <2>3, <2>4 DEF IsEdit, By
  <2>8. Tells(Append(toClient[c], e), Len(toClient[c]) + 1, rev[c], c, Storing(c)', log')
    BY <2>2, <2>4, <2>6, <2>7 DEF Tells, store
  <2> QED
    BY <1>5, <2>1, <2>2, <2>5, <2>8, ToldAppend DEF Forward
<1>6. CASE d = c /\ ForwardFiles(c)
  <2> DEFINE e == [type |-> "project", files |-> disk, revision |-> revision]
  <2>1. e \in Event /\ toClient'[c] = Append(toClient[c], e)
    BY <1>6, FilesSends
  <2>2. rev' = rev /\ UNCHANGED <<store, stage, toServer>> /\ lock = None
    BY <1>6 DEF ForwardFiles, shown
  <2>3. disk = FilesAt(log, revision) /\ revision \in 0..Len(log)
    <3>1. \A b \in Client : stage[b] # "stored"
      BY <2>2, NoneAssumption DEF Core, LockInv, Admitted
    <3> QED
      BY <1>0, <3>1, LogAndLen DEF DiskInv
  <2>4. e.type = "project" /\ e.files = disk /\ e.revision = revision
    OBVIOUS
  <2> HIDE DEF e
  <2>5. Storing(c) \subseteq Storing(c)'
    BY <2>2 DEF Storing, store
  <2>6. Append(toClient[c], e)[Len(toClient[c]) + 1] = e
    BY <1>0, <1>6, <2>1, AppendParts
  <2>7. Tells(Append(toClient[c], e), Len(toClient[c]) + 1, rev[c], c, Storing(c)', log')
    BY <2>2, <2>3, <2>4, <2>6 DEF Tells, store
  <2> QED
    BY <1>6, <2>1, <2>2, <2>5, <2>7, ToldAppend DEF Forward
<1>7. CASE d = c /\ (\/ Open(c) \/ Subscribe(c) \/ Admit(c) \/ StoreFails(c) \/ ForwardEcho(c)
                     \/ UserWrites(c) \/ ShowRemote(c) \/ SkipRemote(c))
  <2>1. toClient' = toClient
    BY <1>7, OutboxStays
  <2>2. rev' = rev /\ (stage[c] = "stored" => disk' = disk /\ stage'[c] = "stored")
    <3>1. CASE Open(c) \/ Subscribe(c) \/ ForwardEcho(c) \/ ShowRemote(c) \/ SkipRemote(c)
      BY <3>1 DEF Open, Subscribe, ForwardEcho, ShowRemote, SkipRemote, shown, store, server
    <3>2. CASE Admit(c) \/ StoreFails(c)
      BY <3>2 DEF Admit, StoreFails, Takes, shown, store
    <3>3. CASE UserWrites(c)
      BY <3>3 DEF UserWrites, Update, Create, Rename, Delete, Reset, Make, store, server
    <3> QED
      BY <1>7, <3>1, <3>2, <3>3
  <2>3. stage[c] = "stored" => Head(toServer'[c]) = Head(toServer[c])
    <3>1. stage[c] = "stored" => toServer[c] # <<>>
      BY DEF Core, LockInv, Admitted
    <3>2. UserWrites(c) \/ toServer' = toServer \/ stage[c] # "stored"
      BY <1>7 DEF Open, Subscribe, Admit, StoreFails, ForwardEcho, ShowRemote, SkipRemote
    <3> QED
      BY <3>1, <3>2, HeadStays
  <2>4. Storing(c) \subseteq Storing(c)'
    BY <2>2, <2>3 DEF Storing
  <2> QED
    BY <1>7, <1>b, <2>1, <2>2, <2>4
<1> QED
  BY <1>0, <1>1, <1>2, <1>3, <1>4, <1>5, <1>6, <1>7, ToldRecord, ToldHear
     DEF Connect, Handle, Forward

-----------------------------------------------------------------------------
(* The files a reset brings.                                               *)

LEMMA PrecedesLonger ==
  ASSUME NEW q, NEW n, Longer(q, n), NEW L, NEW M, Grows(L, M),
         NEW c, NEW resetting, NEW still,
         \A j \in DOMAIN q : Dated(q[j]) => q[j].revision <= Len(L),
         \A v \in still : v \in resetting \/ \E k \in DOMAIN n : k > Len(q) /\ IsFiles(n[k], v),
         \A j \in DOMAIN n, r \in 1..Len(M) :
           j > Len(q) /\ IsAck(n[j], M, c, r) /\ M[r].write.op = "reset" =>
             M[r].write.version \in resetting,
         \A i \in DOMAIN q : Precedes(q, i, c, resetting, L)
  PROVE  \A i \in DOMAIN q : Precedes(n, i, c, still, M)
<1> SUFFICES ASSUME NEW i \in DOMAIN q, q[i].type = "project"
             PROVE  Precedes(n, i, c, still, M)
  BY LongerParts DEF Precedes
<1>1. /\ n[i] = q[i] /\ i \in DOMAIN n
      /\ \A k \in DOMAIN q : k \in DOMAIN n /\ n[k] = q[k]
      /\ \A k \in DOMAIN n : k \in DOMAIN q \/ k > Len(q)
      /\ \A k \in DOMAIN n : k > Len(q) => i < k
  BY LongerParts
<1>2. /\ \A v \in resetting : \E k \in DOMAIN q : i < k /\ IsFiles(q[k], v)
      /\ \A j \in DOMAIN q, r \in 1..Len(L) :
           i < j /\ IsAck(q[j], L, c, r) /\ L[r].write.op = "reset" =>
             \E k \in DOMAIN q : i < k /\ IsFiles(q[k], L[r].write.version)
  BY DEF Precedes
<1>3. \A v \in resetting : \E k \in DOMAIN n : i < k /\ IsFiles(n[k], v)
  BY <1>1, <1>2
<1>4. \A v \in still : \E k \in DOMAIN n : i < k /\ IsFiles(n[k], v)
  BY <1>1, <1>3
<1>5. ASSUME NEW j \in DOMAIN n, NEW r \in 1..Len(M),
             i < j, IsAck(n[j], M, c, r), M[r].write.op = "reset"
      PROVE  \E k \in DOMAIN n : i < k /\ IsFiles(n[k], M[r].write.version)
  <2>1. CASE j > Len(q)
    BY <1>3, <1>5, <2>1
  <2>2. CASE j \in DOMAIN q
    <3>1. r <= Len(L)
      BY <1>1, <1>5, <2>2 DEF IsAck, Dated
    <3>2. r \in 1..Len(L) /\ M[r] = L[r]
      BY <3>1 DEF Grows
    <3>3. IsAck(q[j], L, c, r)
      BY <1>1, <1>5, <2>2, <3>2 DEF IsAck, By
    <3>4. \E k \in DOMAIN q : i < k /\ IsFiles(q[k], L[r].write.version)
      BY <1>2, <1>5, <2>2, <3>2, <3>3
    <3> QED
      BY <1>1, <3>2, <3>4
  <2> QED
    BY <1>1, <2>1, <2>2
<1> QED
  BY <1>4, <1>5 DEF Precedes

LEMMA PrecedesTail ==
  ASSUME NEW q \in Seq(Event), q # <<>>, NEW c, NEW resetting, NEW L,
         NEW i \in DOMAIN Tail(q), Precedes(q, i + 1, c, resetting, L)
  PROVE  Precedes(Tail(q), i, c, resetting, L)
<1> DEFINE t == Tail(q)
<1>1. /\ t[i] = q[i + 1] /\ i \in Nat /\ i >= 1 /\ i + 1 \in DOMAIN q
      /\ \A j \in DOMAIN t : j \in Nat /\ j + 1 \in DOMAIN q /\ t[j] = q[j + 1]
      /\ \A j \in DOMAIN q : j \in Nat /\ j >= 1 /\ (j # 1 => j - 1 \in DOMAIN t)
  BY TailParts
<1> HIDE DEF t
<1>2. \A k \in DOMAIN q : i + 1 < k => k - 1 \in DOMAIN t /\ i < k - 1 /\ t[k - 1] = q[k]
  BY <1>1
<1>3. \A j \in DOMAIN t : i < j => i + 1 < j + 1
  BY <1>1
<1>4. Precedes(t, i, c, resetting, L)
  <2> SUFFICES ASSUME q[i + 1].type = "project" PROVE Precedes(t, i, c, resetting, L)
    BY <1>1 DEF Precedes
  <2>1. /\ \A v \in resetting : \E k \in DOMAIN q : i + 1 < k /\ IsFiles(q[k], v)
        /\ \A j \in DOMAIN q, r \in 1..Len(L) :
             i + 1 < j /\ IsAck(q[j], L, c, r) /\ L[r].write.op = "reset" =>
               \E k \in DOMAIN q : i + 1 < k /\ IsFiles(q[k], L[r].write.version)
    BY DEF Precedes
  <2>2. \A v : (\E k \in DOMAIN q : i + 1 < k /\ IsFiles(q[k], v)) =>
               (\E k \in DOMAIN t : i < k /\ IsFiles(t[k], v))
    BY <1>2
  <2>3. \A j \in DOMAIN t, r \in 1..Len(L) :
             i < j /\ IsAck(t[j], L, c, r) /\ L[r].write.op = "reset" =>
               \E k \in DOMAIN t : i < k /\ IsFiles(t[k], L[r].write.version)
    <3> SUFFICES ASSUME NEW j \in DOMAIN t, NEW r \in 1..Len(L),
                        i < j, IsAck(t[j], L, c, r), L[r].write.op = "reset"
                 PROVE  \E k \in DOMAIN t : i < k /\ IsFiles(t[k], L[r].write.version)
      OBVIOUS
    <3>1. j + 1 \in DOMAIN q /\ i + 1 < j + 1 /\ IsAck(q[j + 1], L, c, r)
      BY <1>1, <1>3
    <3> QED
      BY <2>1, <2>2, <3>1
  <2> QED
    BY <2>1, <2>2, <2>3 DEF Precedes
<1> QED
  BY <1>4 DEF t

LEMMA ToldBy ==
  ASSUME Core, NEW d \in Client
  PROVE  \A j \in DOMAIN toClient[d] :
           Dated(toClient[d][j]) => /\ toClient[d][j].revision \in Nat
                                    /\ toClient[d][j].revision <= revision
<1> SUFFICES ASSUME NEW j \in DOMAIN toClient[d], Dated(toClient[d][j])
             PROVE  /\ toClient[d][j].revision \in Nat
                    /\ toClient[d][j].revision <= revision
  OBVIOUS
<1>1. toClient[d] \in Seq(Event)
  BY DEF Core, TypeOK
<1>2. toClient[d][j] \in Event /\ j \in 1..Len(toClient[d])
  BY <1>1
<1>3. toClient[d][j].revision \in Nat
  BY <1>2, EventParts DEF Dated
<1> QED
  BY <1>2, <1>3 DEF Core, HeardInv, InOrder

LEMMA ResetStep ==
  ASSUME Core, Core', JoinInv, ResetInv, NEW c \in Client, Step(c)
  PROVE  ResetInv'
<1> SUFFICES ASSUME NEW d \in Client
             PROVE  \A i \in DOMAIN toClient'[d] :
                      Precedes(toClient[d], i, d, Resetting(d), log)'
  BY DEF ResetInv
<1> DEFINE q == toClient[d]
           n == toClient'[d]
<1>0. /\ TypeOK /\ TypeOK' /\ Grows(log, log') /\ q \in Seq(Event)
      /\ Len(log) = revision /\ Len(log') = revision' /\ revision \in Nat
  BY GrowsOn DEF Core, TypeOK, SuffixInv
<1>a. /\ \A i \in DOMAIN q : Precedes(q, i, d, Resetting(d), log)
      /\ \A j \in DOMAIN q : Dated(q[j]) => q[j].revision <= Len(log)
  BY <1>0, ToldBy DEF ResetInv
<1>b. ASSUME n = q, Resetting(d)' \subseteq Resetting(d)
      PROVE  \A i \in DOMAIN n : Precedes(n, i, d, Resetting(d)', log')
  <2> HIDE DEF q, n
  <2>1. Longer(q, n)
    BY <1>0, <1>b, LongerOne, Events DEF Longer
  <2>2. \A j \in DOMAIN n : ~(j > Len(q))
    BY <1>0, <1>b
  <2> QED
    BY <1>0, <1>a, <1>b, <2>1, <2>2, PrecedesLonger
<1>c. ASSUME NEW e \in Event, n = Append(q, e), e.type \notin {"ack", "project"},
             \A v \in Resetting(d)' : v \in Resetting(d) \/ IsFiles(e, v)
      PROVE  \A i \in DOMAIN n : Precedes(n, i, d, Resetting(d)', log')
  <2> HIDE DEF q, n
  <2>1. /\ Longer(q, n) /\ Len(q) \in Nat /\ Len(q) + 1 \in DOMAIN n /\ n[Len(q) + 1] = e
        /\ \A j \in DOMAIN n : j \in DOMAIN q \/ j = Len(q) + 1
        /\ \A j \in DOMAIN q : ~(j > Len(q))
    BY <1>0, <1>c, LongerOne, AppendParts
  <2>2. \A v \in Resetting(d)' :
          v \in Resetting(d) \/ \E k \in DOMAIN n : k > Len(q) /\ IsFiles(n[k], v)
    BY <1>c, <2>1
  <2>3. \A j \in DOMAIN n, r \in 1..Len(log') : j > Len(q) => ~IsAck(n[j], log', d, r)
    BY <1>c, <2>1 DEF IsAck
  <2>4. \A i \in DOMAIN q : Precedes(n, i, d, Resetting(d)', log')
    BY <1>0, <1>a, <2>1, <2>2, <2>3, PrecedesLonger
  <2>5. Precedes(n, Len(q) + 1, d, Resetting(d)', log')
    BY <1>c, <2>1 DEF Precedes
  <2> QED
    BY <2>1, <2>4, <2>5
<1>1. CASE d # c
  <2>1. n = q /\ stage'[d] = stage[d] /\ toServer'[d] = toServer[d]
    BY <1>1, PeerFrame
  <2>2. Resetting(d)' = Resetting(d)
    BY <2>1 DEF Resetting
  <2> QED
    BY <1>b, <2>1, <2>2
<1>2. CASE d = c /\ Join(c)
  <2> DEFINE e == [type |-> "ack", revision |-> revision]
             f == [type |-> "project", files |-> disk, revision |-> revision]
  <2>1. /\ e \in Event /\ f \in Event /\ toClient'[c] = <<e, f>> /\ stage[c] = "idle"
    BY <1>0, <1>2, JoinSends
  <2>2. e.type = "ack" /\ stage' = stage
    BY <1>2 DEF Join
  <2> HIDE DEF e, f
  <2>3. DOMAIN <<e, f>> = {1, 2} /\ <<e, f>>[1] = e
    OBVIOUS
  <2>4. Resetting(c)' = {}
    BY <2>1, <2>2 DEF Resetting
  <2>5. \A i \in {1, 2} : Precedes(<<e, f>>, i, c, {}, log')
    BY <2>2, <2>3 DEF Precedes
  <2> QED
    BY <1>2, <2>1, <2>3, <2>4, <2>5
<1>3. CASE d = c /\ Refuse(c)
  <2> DEFINE e == [type |-> "conflict", revision |-> revision]
  <2>1. e \in Event
    BY <1>0, Events
  <2>2. Send(c, <<e>>) /\ UNCHANGED stage /\ stage[c] = "idle"
    BY <1>3 DEF Refuse, Takes, server
  <2>3. e.type = "conflict"
    OBVIOUS
  <2> HIDE DEF e
  <2>4. toClient'[c] = Append(toClient[c], e)
    BY <2>1, <2>2, SendsOne
  <2>5. Resetting(c)' = {}
    BY <2>2 DEF Resetting
  <2> QED
    BY <1>3, <1>c, <2>1, <2>3, <2>4, <2>5
<1>4. CASE d = c /\ Store(c)
  <2> DEFINE w == Head(toServer[c])
             e == [type |-> "files", files |-> Applied(w, catalog[c]),
                   version |-> w.version]
  <2>1. /\ e \in Event
        /\ w.op = "update" => toClient'[c] = toClient[c]
        /\ w.op # "update" => toClient'[c] = Append(toClient[c], e)
    BY <1>4, StoreSends
  <2>2. stage[c] = "checked" /\ stage'[c] = "stored" /\ toServer' = toServer
    BY <1>0, <1>4 DEF Store, TypeOK
  <2>3. e.type = "files" /\ e.version = w.version
    OBVIOUS
  <2> HIDE DEF e
  <2>4. \A v \in Resetting(c)' : w.op = "reset" /\ IsFiles(e, v)
    BY <2>2, <2>3 DEF Resetting, IsFiles
  <2> HIDE DEF w
  <2>5. CASE w.op = "update"
    BY <1>4, <1>b, <2>1, <2>4, <2>5
  <2>6. CASE w.op # "update"
    BY <1>4, <1>c, <2>1, <2>3, <2>4, <2>6
  <2> QED
    BY <2>5, <2>6
<1>5. CASE d = c /\ Record(c)
  <2> DEFINE w == Head(toServer[c])
             e == [type |-> "ack", revision |-> revision + 1]
             f == [type |-> "saved", version |-> w.version]
  <2>1. /\ e \in Event /\ f \in Event /\ n = q \o <<e, f>>
    BY <1>5, RecordSends
  <2>2. e.type = "ack" /\ e.revision = revision + 1 /\ f.type = "saved"
    OBVIOUS
  <2>3. stage[c] = "stored" /\ stage'[c] = "idle"
    BY <1>0, <1>5 DEF Record, TypeOK
  <2>4. Resetting(c)' = {} /\ (w.op = "reset" => Resetting(c) = {w.version})
    BY <2>3 DEF Resetting
  <2>5. log'[revision + 1].write = w
    <3>1. log'[revision + 1] = [by |-> c, write |-> w, files |-> disk]
      BY <1>5, LogGrows
    <3> QED
      BY <3>1
  <2> HIDE DEF e, f, w, q, n
  <2>6. /\ n[Len(q) + 1] = e /\ n[Len(q) + 2] = f /\ Len(q) \in Nat
        /\ \A i \in DOMAIN n : i \in DOMAIN q \/ i = Len(q) + 1 \/ i = Len(q) + 2
        /\ \A j \in DOMAIN q : ~(j > Len(q))
        /\ Longer(q, n)
    BY <1>0, <2>1, AppendTwo, LongerTwo
  <2>7. \A j \in DOMAIN n, r \in 1..Len(log') :
           j > Len(q) /\ IsAck(n[j], log', c, r) /\ log'[r].write.op = "reset" =>
             log'[r].write.version \in Resetting(c)
    BY <2>2, <2>4, <2>5, <2>6 DEF IsAck
  <2>8. \A i \in DOMAIN q : Precedes(n, i, c, {}, log')
    BY <1>0, <1>5, <1>a, <2>6, <2>7, PrecedesLonger
  <2>9. /\ Precedes(n, Len(q) + 1, c, {}, log')
        /\ Precedes(n, Len(q) + 2, c, {}, log')
    BY <2>2, <2>6 DEF Precedes
  <2>10. \A i \in DOMAIN n : Precedes(n, i, c, {}, log')
    BY <2>6, <2>8, <2>9
  <2> QED
    BY <1>5, <2>4, <2>10 DEF n
<1>6. CASE d = c /\ ForwardDocument(c)
  <2> DEFINE x == Head(chan[c])
             e == [type |-> "changed", path |-> x.path, text |-> x.text,
                   revision |-> x.revision]
  <2>1. e \in Event /\ toClient'[c] = Append(toClient[c], e)
    BY <1>6, DocumentSends
  <2>2. UNCHANGED <<stage, toServer>>
    BY <1>6 DEF ForwardDocument
  <2>3. e.type = "changed"
    OBVIOUS
  <2> HIDE DEF e, x
  <2>4. Resetting(c)' = Resetting(c)
    BY <2>2 DEF Resetting
  <2> QED
    BY <1>6, <1>c, <2>1, <2>3, <2>4
<1>7. CASE d = c /\ ForwardFiles(c)
  <2> DEFINE e == [type |-> "project", files |-> disk, revision |-> revision]
  <2>1. e \in Event /\ n = Append(q, e)
    BY <1>7, FilesSends
  <2>2. UNCHANGED <<stage, toServer>> /\ lock = None
    BY <1>7 DEF ForwardFiles
  <2>3. e.type = "project"
    OBVIOUS
  <2>4. Resetting(c)' = {}
    <3>1. stage[c] = "idle"
      BY <2>2, NoneAssumption DEF Core, LockInv, Admitted
    <3> QED
      BY <2>2, <3>1 DEF Resetting
  <2> HIDE DEF e, q, n
  <2>5. /\ Longer(q, n) /\ Len(q) \in Nat /\ Len(q) + 1 \in DOMAIN n /\ n[Len(q) + 1] = e
        /\ \A j \in DOMAIN n : j \in DOMAIN q \/ j = Len(q) + 1
        /\ \A j \in DOMAIN n : ~(j > Len(q) + 1)
        /\ \A j \in DOMAIN q : ~(j > Len(q))
    BY <1>0, <2>1, LongerOne, AppendParts
  <2>6. \A j \in DOMAIN n, r \in 1..Len(log') : j > Len(q) => ~IsAck(n[j], log', c, r)
    BY <2>3, <2>5 DEF IsAck
  <2>7. \A i \in DOMAIN q : Precedes(n, i, c, {}, log')
    BY <1>0, <1>7, <1>a, <2>5, <2>6, PrecedesLonger
  <2>8. Precedes(n, Len(q) + 1, c, {}, log')
    <3>1. \A j \in DOMAIN n : ~(Len(q) + 1 < j)
      BY <1>0, <2>5, LongerParts
    <3> QED
      BY <3>1 DEF Precedes
  <2>9. \A i \in DOMAIN n : Precedes(n, i, c, {}, log')
    BY <2>5, <2>7, <2>8
  <2> QED
    BY <1>7, <2>4, <2>9 DEF n
<1>8. CASE d = c /\ Hear(c)
  <2>1. q # <<>> /\ n = Tail(q) /\ UNCHANGED <<store, server, toServer>>
    BY <1>8, HearTakes
  <2>2. Resetting(c)' = Resetting(c) /\ log' = log
    BY <2>1 DEF Resetting, store, server
  <2> HIDE DEF q, n
  <2>3. \A i \in DOMAIN Tail(q) : i + 1 \in DOMAIN q
    BY <1>0, <2>1, TailParts
  <2>4. \A i \in DOMAIN Tail(q) : Precedes(Tail(q), i, d, Resetting(d), log)
    BY <1>0, <1>a, <2>1, <2>3, PrecedesTail
  <2>5. \A i \in DOMAIN n : Precedes(n, i, d, Resetting(d)', log')
    BY <1>8, <2>1, <2>2, <2>4
  <2> QED
    BY <2>5 DEF n
<1>9. CASE d = c /\ (\/ Open(c) \/ Subscribe(c) \/ Admit(c) \/ StoreFails(c) \/ ForwardEcho(c)
                     \/ UserWrites(c) \/ ShowRemote(c) \/ SkipRemote(c))
  <2>1. toClient' = toClient
    BY <1>9, OutboxStays
  <2>2. stage'[c] = "stored" => stage[c] = "stored"
    <3>1. CASE Open(c) \/ Subscribe(c) \/ ForwardEcho(c) \/ ShowRemote(c) \/ SkipRemote(c)
      BY <3>1 DEF Open, Subscribe, ForwardEcho, ShowRemote, SkipRemote, server
    <3>2. CASE Admit(c) \/ StoreFails(c)
      BY <1>0, <3>2 DEF Admit, StoreFails, TypeOK
    <3>3. CASE UserWrites(c)
      BY <3>3 DEF UserWrites, Update, Create, Rename, Delete, Reset, Make, server
    <3> QED
      BY <1>9, <3>1, <3>2, <3>3
  <2>3. stage'[c] = "stored" => Head(toServer'[c]) = Head(toServer[c])
    <3>1. stage[c] = "stored" => toServer[c] # <<>>
      BY DEF Core, LockInv, Admitted
    <3>2. UserWrites(c) \/ toServer' = toServer \/ StoreFails(c)
      BY <1>9 DEF Open, Subscribe, Admit, ForwardEcho, ShowRemote, SkipRemote
    <3>3. StoreFails(c) => stage'[c] # "stored"
      BY <1>0 DEF StoreFails, TypeOK
    <3> QED
      BY <2>2, <3>1, <3>2, <3>3, HeadStays
  <2>4. Resetting(c)' \subseteq Resetting(c)
    BY <2>2, <2>3 DEF Resetting
  <2> QED
    BY <1>9, <1>b, <2>1, <2>4
<1> QED
  BY <1>1, <1>2, <1>3, <1>4, <1>5, <1>6, <1>7, <1>8, <1>9 DEF Connect, Handle, Forward

-----------------------------------------------------------------------------
(* What is due.                                                            *)

\* What is due stays due until it is heard.
LEMMA DueTail ==
  ASSUME NEW q \in Seq(Event), q # <<>>, NEW ch, NEW c, NEW r,
         DueIn(q, ch, c, r), ~Brings(Head(q), r)
  PROVE  DueIn(Tail(q), ch, c, r)
<1> DEFINE t == Tail(q)
<1>1. /\ Head(q) = q[1]
      /\ \A j \in DOMAIN t : j \in Nat /\ j + 1 \in DOMAIN q /\ t[j] = q[j + 1]
      /\ \A j \in DOMAIN q : j \in Nat /\ (j # 1 => j - 1 \in DOMAIN t /\ t[j - 1] = q[j])
  <2>1. \A j \in DOMAIN q : j \in Nat /\ (j # 1 => j - 1 \in DOMAIN t)
    BY TailParts
  <2>2. \A j \in DOMAIN t : j \in Nat /\ j + 1 \in DOMAIN q /\ t[j] = q[j + 1]
    BY TailParts
  <2>3. Head(q) = q[1]
    BY TailParts
  <2> HIDE DEF t
  <2>4. \A j \in DOMAIN q : j # 1 => t[j - 1] = q[j]
    <3> SUFFICES ASSUME NEW j \in DOMAIN q, j # 1 PROVE t[j - 1] = q[j]
      OBVIOUS
    <3>1. j - 1 \in DOMAIN t /\ j - 1 + 1 = j
      BY <2>1
    <3> QED
      BY <2>2, <3>1
  <2> QED
    BY <2>1, <2>2, <2>3, <2>4
<1> HIDE DEF t
<1>2. CASE \E i \in DOMAIN q :
             Brings(q[i], r) /\ \A j \in DOMAIN q : j < i => ~Newer(q[j], r)
  <2>1. PICK i \in DOMAIN q :
             Brings(q[i], r) /\ \A j \in DOMAIN q : j < i => ~Newer(q[j], r)
    BY <1>2
  <2>2. i # 1
    BY <1>1, <2>1
  <2>3. i - 1 \in DOMAIN t /\ t[i - 1] = q[i]
    BY <1>1, <2>2
  <2>4. \A j \in DOMAIN t : j < i - 1 => ~Newer(t[j], r)
    <3> SUFFICES ASSUME NEW j \in DOMAIN t, j < i - 1 PROVE ~Newer(t[j], r)
      OBVIOUS
    <3>1. j + 1 \in DOMAIN q /\ j + 1 < i /\ t[j] = q[j + 1]
      BY <1>1
    <3> QED
      BY <2>1, <3>1
  <2>5. DueIn(t, ch, c, r)
    BY <2>1, <2>3, <2>4 DEF DueIn
  <2> QED
    BY <2>5 DEF t
<1>3. CASE /\ \A j \in DOMAIN q : ~Newer(q[j], r)
           /\ \E i \in DOMAIN ch :
                /\ BringsChange(ch[i], c, r)
                /\ \A j \in DOMAIN ch : j < i => ~NewerChange(ch[j], c, r)
  <2>1. \A j \in DOMAIN t : ~Newer(t[j], r)
    BY <1>1, <1>3
  <2>2. DueIn(t, ch, c, r)
    BY <1>3, <2>1 DEF DueIn
  <2> QED
    BY <2>2 DEF t
<1> QED
  BY <1>2, <1>3 DEF DueIn

LEMMA DueLonger ==
  ASSUME NEW q, NEW n, Longer(q, n), NEW ch, NEW c, NEW r, DueIn(q, ch, c, r),
         \A j \in DOMAIN n : j > Len(q) => ~Newer(n[j], r)
  PROVE  DueIn(n, ch, c, r)
<1>1. /\ \A i \in DOMAIN q : i \in DOMAIN n /\ n[i] = q[i]
      /\ \A j \in DOMAIN n : j \in DOMAIN q \/ j > Len(q)
      /\ \A i \in DOMAIN q, j \in DOMAIN n : j < i => j \in DOMAIN q
  BY LongerParts
<1> QED
  BY <1>1 DEF DueIn

\* The forwarder receives a change: one of the client's own, or a peer's edit.
LEMMA DueReceived ==
  ASSUME NEW q \in Seq(Event), NEW n \in Seq(Event), NEW ch \in Seq(Change), ch # <<>>,
         NEW c, NEW r, DueIn(q, ch, c, r),
         \/ Head(ch).origin = c /\ n = q
         \/ \E e \in Event : /\ n = Append(q, e) /\ e.type = "changed"
                             /\ Head(ch).type = "document" /\ Head(ch).origin # c
                             /\ e.revision = Head(ch).revision
  PROVE  DueIn(n, Tail(ch), c, r)
<1> DEFINE t == Tail(ch)
<1>1. /\ Head(ch) = ch[1] /\ 1 \in DOMAIN ch
      /\ \A j \in DOMAIN t : j \in Nat /\ j >= 1 /\ j + 1 \in DOMAIN ch /\ t[j] = ch[j + 1]
      /\ \A j \in DOMAIN ch : j \in Nat /\ j >= 1 /\ (j # 1 => j - 1 \in DOMAIN t)
  BY TailParts
<1> HIDE DEF t
<1>2. \A i \in DOMAIN ch : i # 1 => i - 1 \in DOMAIN t /\ t[i - 1] = ch[i]
  <2> SUFFICES ASSUME NEW i \in DOMAIN ch, i # 1
               PROVE  i - 1 \in DOMAIN t /\ t[i - 1] = ch[i]
    OBVIOUS
  <2>1. i - 1 \in DOMAIN t /\ i - 1 + 1 = i
    BY <1>1
  <2> QED
    BY <1>1, <2>1
<1>3. CASE \E i \in DOMAIN q :
             Brings(q[i], r) /\ \A j \in DOMAIN q : j < i => ~Newer(q[j], r)
  <2>1. /\ \A i \in DOMAIN q : i \in DOMAIN n /\ n[i] = q[i]
        /\ \A i \in DOMAIN q, j \in DOMAIN n : j < i => j \in DOMAIN q
    <3>1. n = q \/ \E e \in Event : n = Append(q, e)
      OBVIOUS
    <3>2. Longer(q, q) /\ \A e \in Event : Longer(q, Append(q, e))
      BY LongerOne DEF Longer
    <3>3. Longer(q, n)
      BY <3>1, <3>2
    <3> QED
      BY <3>3, LongerParts
  <2>2. DueIn(n, t, c, r)
    BY <1>3, <2>1 DEF DueIn
  <2> QED
    BY <2>2 DEF t
<1>4. ASSUME NEW i \in DOMAIN ch, BringsChange(ch[i], c, r),
             \A j \in DOMAIN ch : j < i => ~NewerChange(ch[j], c, r),
             \A j \in DOMAIN q : ~Newer(q[j], r)
      PROVE  DueIn(n, t, c, r)
  <2>1. \A j \in DOMAIN t : j < i - 1 => ~NewerChange(t[j], c, r)
    <3> SUFFICES ASSUME NEW j \in DOMAIN t, j < i - 1 PROVE ~NewerChange(t[j], c, r)
      OBVIOUS
    <3>1. j + 1 \in DOMAIN ch /\ j + 1 < i /\ t[j] = ch[j + 1]
      BY <1>1
    <3> QED
      BY <1>4, <3>1
  <2>2. CASE Head(ch).origin = c /\ n = q
    <3>1. i # 1
      BY <1>1, <1>4, <2>2 DEF BringsChange
    <3> QED
      BY <1>2, <1>4, <2>1, <2>2, <3>1 DEF DueIn
  <2>3. CASE \E e \in Event : /\ n = Append(q, e) /\ e.type = "changed"
                              /\ Head(ch).type = "document" /\ Head(ch).origin # c
                              /\ e.revision = Head(ch).revision
    <3>1. PICK e \in Event : /\ n = Append(q, e) /\ e.type = "changed"
                             /\ Head(ch).type = "document" /\ Head(ch).origin # c
                             /\ e.revision = Head(ch).revision
      BY <2>3
    <3>2. /\ Len(q) \in Nat /\ Len(q) + 1 \in DOMAIN n /\ n[Len(q) + 1] = e
          /\ \A j \in DOMAIN q : n[j] = q[j]
          /\ \A j \in DOMAIN n : j \in DOMAIN q \/ j = Len(q) + 1
      BY <3>1, AppendParts
    <3>3. CASE i = 1
      <4>1. Brings(e, r)
        BY <1>1, <1>4, <3>1, <3>3 DEF BringsChange, Brings
      <4>2. \A j \in DOMAIN n : j < Len(q) + 1 => ~Newer(n[j], r)
        BY <1>4, <3>2
      <4> QED
        BY <3>2, <4>1, <4>2 DEF DueIn
    <3>4. CASE i # 1
      <4>1. 1 < i
        BY <1>1, <3>4
      <4>2. ~NewerChange(ch[1], c, r)
        BY <1>1, <1>4, <4>1
      <4>3. ~Newer(e, r)
        BY <1>1, <3>1, <4>2 DEF Newer, NewerChange
      <4>4. \A j \in DOMAIN n : ~Newer(n[j], r)
        BY <1>4, <3>2, <4>3
      <4> QED
        BY <1>2, <1>4, <2>1, <3>4, <4>4 DEF DueIn
    <3> QED
      BY <3>3, <3>4
  <2> QED
    BY <2>2, <2>3
<1>5. DueIn(n, t, c, r)
  BY <1>3, <1>4 DEF DueIn, t
<1> QED
  BY <1>5 DEF t

\* Or a peer's file operation: the files it sends bring every revision so far.
LEMMA DueFiles ==
  ASSUME NEW q \in Seq(Event), NEW e \in Event, NEW ch, NEW ch2, NEW c, NEW r,
         DueIn(q, ch, c, r), e.type = "project", e.revision >= r
  PROVE  DueIn(Append(q, e), ch2, c, r)
<1> DEFINE n == Append(q, e)
<1>1. /\ Len(q) \in Nat /\ Len(q) + 1 \in DOMAIN n /\ n[Len(q) + 1] = e
      /\ \A j \in DOMAIN q : j \in DOMAIN n /\ n[j] = q[j]
      /\ \A j \in DOMAIN n : j \in DOMAIN q \/ j = Len(q) + 1
  BY AppendParts
<1>2. \A i \in DOMAIN q, j \in DOMAIN n : j < i => j \in DOMAIN q
  BY LongerOne, LongerParts
<1> HIDE DEF n
<1>3. CASE \E i \in DOMAIN q :
             Brings(q[i], r) /\ \A j \in DOMAIN q : j < i => ~Newer(q[j], r)
  BY <1>1, <1>2, <1>3 DEF DueIn, n
<1>4. CASE \A j \in DOMAIN q : ~Newer(q[j], r)
  <2>1. Brings(n[Len(q) + 1], r)
    BY <1>1 DEF Brings
  <2>2. \A j \in DOMAIN n : j < Len(q) + 1 => ~Newer(n[j], r)
    BY <1>1, <1>4
  <2>3. DueIn(n, ch2, c, r)
    BY <1>1, <2>1, <2>2 DEF DueIn
  <2> QED
    BY <2>3 DEF n
<1> QED
  BY <1>3, <1>4 DEF DueIn

\* A change is delivered to a forwarder that loses nothing by it.
LEMMA DueDelivered ==
  ASSUME Core, NEW d \in Client, conn[d] = "joined", NEW x \in Change, ~Loses(d),
         NEW q, NEW r
  PROVE  /\ DueIn(q, chan[d], d, r) => DueIn(q, Delivered(d, x), d, r)
         /\ /\ BringsChange(x, d, r)
            /\ \A j \in DOMAIN q : ~Newer(q[j], r)
            /\ \A j \in DOMAIN chan[d] : ~NewerChange(chan[d][j], d, r)
            => DueIn(q, Delivered(d, x), d, r)
<1> DEFINE ch == chan[d]
           n == Append(ch, x)
           t == Tail(n)
<1>1. ch \in Seq(Change) /\ Backlog \in Nat
  BY BoundAssumption DEF Core, TypeOK
<1>2. /\ Len(ch) \in Nat /\ n \in Seq(Change) /\ Len(n) = Len(ch) + 1 /\ n # <<>>
      /\ Len(ch) + 1 \in DOMAIN n /\ n[Len(ch) + 1] = x
      /\ \A j \in DOMAIN ch : j \in Nat /\ j \in DOMAIN n /\ n[j] = ch[j] /\ j < Len(ch) + 1
      /\ \A j \in DOMAIN n : j \in DOMAIN ch \/ j = Len(ch) + 1
      /\ ch # <<>> => Head(n) = Head(ch)
  BY <1>1, AppendParts
<1> HIDE DEF n
<1>3. Delivered(d, x) = IF Len(n) > Backlog THEN t ELSE n
  BY DEF Delivered, n
<1>4. /\ DueIn(q, ch, d, r) => DueIn(q, n, d, r)
      /\ /\ BringsChange(x, d, r)
         /\ \A j \in DOMAIN q : ~Newer(q[j], r)
         /\ \A j \in DOMAIN ch : ~NewerChange(ch[j], d, r)
         => DueIn(q, n, d, r)
  <2>1. \A i \in DOMAIN ch, j \in DOMAIN n : j < i => j \in DOMAIN ch
    BY <1>2
  <2>2. \A j \in DOMAIN n : j < Len(ch) + 1 => j \in DOMAIN ch
    BY <1>2
  <2> QED
    BY <1>2, <2>1, <2>2 DEF DueIn
<1>5. CASE Len(n) <= Backlog
  BY <1>1, <1>2, <1>3, <1>4, <1>5
<1>6. CASE Len(n) > Backlog
  <2>1. Len(ch) >= Backlog
    BY <1>1, <1>2, <1>6
  <2>2. Backlog > 0 /\ Head(ch).origin = d
    BY <2>1 DEF Loses
  <2>3. ch # <<>>
    BY <1>1, <2>1, <2>2
  <2>4. Head(n).origin = d
    BY <1>2, <2>2, <2>3
  <2> HIDE DEF ch
  <2>5. /\ Head(n) = n[1]
        /\ \A j \in DOMAIN t : j \in Nat /\ j >= 1 /\ j + 1 \in DOMAIN n /\ t[j] = n[j + 1]
        /\ \A j \in DOMAIN n : j \in Nat /\ j >= 1 /\ (j # 1 => j - 1 \in DOMAIN t)
    BY <1>2, TailParts
  <2> HIDE DEF t
  <2>6. DueIn(q, n, d, r) => DueIn(q, t, d, r)
    <3>1. ASSUME NEW i \in DOMAIN n, BringsChange(n[i], d, r),
                 \A j \in DOMAIN n : j < i => ~NewerChange(n[j], d, r)
          PROVE  /\ i - 1 \in DOMAIN t /\ BringsChange(t[i - 1], d, r)
                 /\ \A j \in DOMAIN t : j < i - 1 => ~NewerChange(t[j], d, r)
      <4>1. i # 1
        BY <2>4, <2>5, <3>1 DEF BringsChange
      <4>2. i - 1 \in DOMAIN t /\ i - 1 + 1 = i
        BY <2>5, <4>1
      <4>3. t[i - 1] = n[i]
        BY <2>5, <4>2
      <4>4. \A j \in DOMAIN t : j < i - 1 => j + 1 < i /\ j + 1 \in DOMAIN n /\ t[j] = n[j + 1]
        BY <2>5
      <4> QED
        BY <3>1, <4>2, <4>3, <4>4
    <3> QED
      BY <3>1 DEF DueIn
  <2> QED
    BY <1>3, <1>4, <1>6, <2>6 DEF ch
<1> QED
  BY <1>1, <1>2, <1>5, <1>6

-----------------------------------------------------------------------------
(* Following a revision.                                                   *)

\* What a client follows, when neither it nor the workspace writes.
LEMMA Unwritten ==
  ASSUME UNCHANGED <<revision, log>>, NEW d \in Client, toServer'[d] = toServer[d]
  PROVE  /\ \A r : Own(d, r)' <=> Own(d, r)
         /\ \A r : At(r)' = At(r)
         /\ \A m : Expected(d, m)' = Expected(d, m)
         /\ Chained(d) /\ (\A i \in DOMAIN toServer[d] : toServer[d][i] \in unsaved'[d])
            => Chained(d)'
BY DEF Own, At, Expected, Chained

LEMMA KeepsOn ==
  ASSUME UNCHANGED <<revision, log>>, NEW d \in Client, toServer'[d] = toServer[d],
         NEW m \in Nat, rev[d] \in Nat, rev'[d] \in Nat, rev[d] <= rev'[d],
         revision \in Nat, Keeps(d, m)
  PROVE  Keeps(d, m)'
<1>1. \A k \in 0..revision : \A p : KeepsFrom(d, m, k, p)' => KeepsFrom(d, m, k, p)
  BY DEF KeepsFrom
<1> QED
  BY <1>1, Unwritten DEF Keeps

\* Events are sent to it.
LEMMA FollowsSent ==
  ASSUME Core, Core', UNCHANGED <<revision, log>>, NEW d \in Client,
         conn'[d] = conn[d], toServer'[d] = toServer[d], ver'[d] = ver[d],
         rev'[d] = rev[d], unsaved'[d] = unsaved[d], Showing(d)' = Showing(d),
         Longer(toClient[d], toClient'[d]),
         \A j \in DOMAIN toClient'[d] :
           j > Len(toClient[d]) => toClient'[d][j].type # "ack",
         \A r \in 1..revision : Due(d, r) => Due(d, r)',
         ResetDue(d) => ResetDue(d)',
         NEW m \in 0..revision, FollowsTo(d, m)
  PROVE  FollowsTo(d, m)'
<1> DEFINE q == toClient[d]
           n == toClient'[d]
<1>1. /\ \A i \in DOMAIN q : i \in DOMAIN n /\ n[i] = q[i]
      /\ \A j \in DOMAIN n : j \in DOMAIN q \/ j > Len(q)
  BY LongerParts
<1>2. revision \in Nat /\ m \in Nat /\ rev[d] \in Nat
  BY DEF Core, TypeOK, FollowsTo, Heard
<1>3. /\ conn'[d] = "joined" /\ rev'[d] # None /\ rev'[d] <= m /\ m <= revision'
      /\ toServer'[d] # <<>> => m = revision'
  BY DEF FollowsTo
<1>4. Acked(d)'
  <2>1. \A i \in DOMAIN n : n[i].type = "ack" => Own(d, n[i].revision)
    BY <1>1 DEF FollowsTo, Acked
  <2> QED
    BY <2>1, Unwritten DEF Acked
<1>5. Unheard(d, m)'
  <2>1. Unheard(d, m)
    BY DEF FollowsTo
  <2>2. \A r : (\E i \in DOMAIN q : IsAck(q[i], log, d, r)) =>
               (\E i \in DOMAIN n : IsAck(n[i], log, d, r))
    BY <1>1
  <2> QED
    BY <2>1, <2>2, Unwritten DEF Unheard
<1>6. Coming(d, m)'
  BY Unwritten DEF FollowsTo, Coming
<1>7. Chained(d)'
  BY Unwritten DEF FollowsTo, Chained
<1>8. Answered(d)'
  <2>1. Answered(d)
    BY DEF FollowsTo
  <2>2. \A i \in DOMAIN q : i \in DOMAIN toClient'[d] /\ toClient'[d][i] = toClient[d][i]
    BY <1>1
  <2>3. ASSUME NEW w \in unsaved[d]
        PROVE  /\ w.op = "reset" => w.version = ver[d]
               /\ \/ \E i \in DOMAIN toServer[d] : toServer[d][i] = w
                  \/ \E i \in DOMAIN toClient'[d] :
                       toClient'[d][i].type = "saved" /\ toClient'[d][i].version = w.version
    BY <2>1, <2>2 DEF Answered
  <2> QED
    BY <2>3 DEF Answered
<1>9. ResetDue(d)' \/ Showing(d)' = Expected(d, m)'
  BY Unwritten DEF FollowsTo
<1>10. Keeps(d, m)'
  BY <1>2, KeepsOn DEF FollowsTo
<1> QED
  BY <1>3, <1>4, <1>5, <1>6, <1>7, <1>8, <1>9, <1>10 DEF FollowsTo

\* It handles an event and goes on showing the same revision.
LEMMA FollowsHeard ==
  ASSUME Core, Core', UNCHANGED <<revision, log>>, NEW d \in Client,
         conn'[d] = conn[d], toServer'[d] = toServer[d], ver'[d] = ver[d],
         chan'[d] = chan[d],
         toClient[d] # <<>>, toClient'[d] = Tail(toClient[d]),
         NEW m \in 0..revision, FollowsTo(d, m),
         rev'[d] \in Nat, rev[d] <= rev'[d], rev'[d] <= m,
         Head(toClient[d]).type = "ack" => Head(toClient[d]).revision <= rev'[d],
         \A r \in 1..revision : m < r => ~Brings(Head(toClient[d]), r),
         unsaved'[d] \subseteq unsaved[d],
         \A r \in 1..revision :
           Own(d, r) /\ rev'[d] < r /\ r <= m => log[r].write \in unsaved'[d],
         \A i \in DOMAIN toServer[d] : toServer[d][i] \in unsaved'[d],
         Head(toClient[d]).type = "saved" =>
           \A w \in unsaved'[d] : w.version # Head(toClient[d]).version,
         ResetDue(d)' \/ Showing(d)' = Expected(d, m)
  PROVE  FollowsTo(d, m)'
<1> DEFINE q == toClient[d]
           n == toClient'[d]
<1>0. q \in Seq(Event) /\ revision \in Nat /\ m \in Nat /\ rev[d] \in Nat
  BY DEF Core, TypeOK, FollowsTo, Heard
<1>1. /\ Head(q) = q[1]
      /\ \A j \in DOMAIN n : j + 1 \in DOMAIN q /\ n[j] = q[j + 1]
      /\ \A j \in DOMAIN q : j \in Nat /\ (j # 1 => j - 1 \in DOMAIN n)
  BY <1>0, TailParts
<1>2. \A j \in DOMAIN q : j # 1 => n[j - 1] = q[j] /\ j - 1 \in DOMAIN n
  <2> SUFFICES ASSUME NEW j \in DOMAIN q, j # 1 PROVE n[j - 1] = q[j] /\ j - 1 \in DOMAIN n
    OBVIOUS
  <2>1. j - 1 \in DOMAIN n /\ j - 1 + 1 = j
    BY <1>1
  <2> HIDE DEF n, q
  <2> QED
    BY <1>1, <2>1
<1>3. /\ conn'[d] = "joined" /\ rev'[d] # None /\ rev'[d] <= m /\ m <= revision'
      /\ toServer'[d] # <<>> => m = revision'
  BY NoneAssumption DEF FollowsTo
<1>4. Acked(d)'
  <2>1. \A i \in DOMAIN n : n[i].type = "ack" => Own(d, n[i].revision)
    BY <1>1 DEF FollowsTo, Acked
  <2> QED
    BY <2>1, Unwritten DEF Acked
<1>5. Unheard(d, m)'
  <2> SUFFICES ASSUME NEW r \in 1..revision, rev'[d] < r, r <= m
               PROVE  /\ Own(d, r) /\ log[r].write \in unsaved'[d]
                      /\ \E i \in DOMAIN n : IsAck(n[i], log, d, r)
    BY Unwritten DEF Unheard
  <2>1. rev[d] < r
    BY <1>0
  <2>2. Own(d, r) /\ \E i \in DOMAIN q : IsAck(q[i], log, d, r)
    BY <2>1 DEF FollowsTo, Unheard
  <2>3. PICK i \in DOMAIN q : IsAck(q[i], log, d, r)
    BY <2>2
  <2>4. i # 1
    <3>1. i = 1 => Head(q).type = "ack" /\ Head(q).revision = r
      BY <1>1, <2>3 DEF IsAck
    <3> QED
      BY <1>0, <3>1
  <2>5. \E j \in DOMAIN n : IsAck(n[j], log, d, r)
    BY <1>2, <2>3, <2>4
  <2> QED
    BY <2>2, <2>5
<1>6. Coming(d, m)'
  <2> SUFFICES ASSUME NEW r \in 1..revision, m < r
               PROVE  ~Own(d, r) /\ Due(d, r)'
    BY Unwritten DEF Coming
  <2>1. ~Own(d, r) /\ DueIn(q, chan[d], d, r)
    BY DEF FollowsTo, Coming, Due
  <2>2. DueIn(n, chan[d], d, r)
    BY <1>0, <2>1, DueTail
  <2> QED
    BY <2>1, <2>2 DEF Due
<1>7. Chained(d)'
  BY Unwritten DEF FollowsTo
<1>8. Answered(d)'
  <2> SUFFICES ASSUME NEW w \in unsaved'[d]
               PROVE  /\ w.op = "reset" => w.version = ver[d]
                      /\ \/ \E i \in DOMAIN toServer[d] : toServer[d][i] = w
                         \/ \E i \in DOMAIN n : n[i].type = "saved" /\ n[i].version = w.version
    BY DEF Answered
  <2>1. /\ w.op = "reset" => w.version = ver[d]
        /\ \/ \E i \in DOMAIN toServer[d] : toServer[d][i] = w
           \/ \E i \in DOMAIN q : q[i].type = "saved" /\ q[i].version = w.version
    BY DEF FollowsTo, Answered
  <2>2. ASSUME NEW i \in DOMAIN q, q[i].type = "saved", q[i].version = w.version
        PROVE  \E j \in DOMAIN n : n[j].type = "saved" /\ n[j].version = w.version
    <3>1. i # 1
      BY <1>1, <2>2
    <3> HIDE DEF q, n
    <3> QED
      BY <1>2, <2>2, <3>1
  <2> QED
    BY <2>1, <2>2
<1>9. ResetDue(d)' \/ Showing(d)' = Expected(d, m)'
  BY Unwritten
<1>10. Keeps(d, m)'
  BY <1>0, KeepsOn DEF FollowsTo
<1> QED
  BY <1>3, <1>4, <1>5, <1>6, <1>7, <1>8, <1>9, <1>10 DEF FollowsTo

\* It handles an event that brings it to another revision.
LEMMA FollowsOn ==
  ASSUME Core, Core', UNCHANGED <<revision, log>>, NEW d \in Client,
         conn'[d] = "joined", toServer'[d] = <<>>, toServer[d] = <<>>, unsaved'[d] = {},
         chan'[d] = chan[d],
         toClient[d] # <<>>, toClient'[d] = Tail(toClient[d]),
         NEW m \in 0..revision, rev'[d] = m, Showing(d)' = At(m),
         \A i \in DOMAIN toClient[d] :
           i # 1 /\ toClient[d][i].type = "ack" => Own(d, toClient[d][i].revision),
         \A r \in 1..revision : m < r =>
           ~Own(d, r) /\ Due(d, r) /\ ~Brings(Head(toClient[d]), r)
  PROVE  FollowsTo(d, m)'
<1> DEFINE q == toClient[d]
           n == toClient'[d]
<1>0. q \in Seq(Event) /\ revision \in Nat /\ m \in Nat /\ m # None /\ toServer'[d] = toServer[d]
  BY NoneAssumption DEF Core, TypeOK
<1>1. \A j \in DOMAIN n : j + 1 \in DOMAIN q /\ n[j] = q[j + 1] /\ j + 1 # 1
  BY <1>0, TailParts
<1>2. Acked(d)'
  <2>1. \A i \in DOMAIN n : n[i].type = "ack" => Own(d, n[i].revision)
    BY <1>1
  <2> QED
    BY <1>0, <2>1, Unwritten DEF Acked
<1>3. Unheard(d, m)'
  BY <1>0 DEF Unheard
<1>4. Coming(d, m)'
  <2> SUFFICES ASSUME NEW r \in 1..revision, m < r
               PROVE  ~Own(d, r) /\ Due(d, r)'
    BY <1>0, Unwritten DEF Coming
  <2>1. ~Own(d, r) /\ DueIn(q, chan[d], d, r) /\ ~Brings(Head(q), r)
    BY DEF Due
  <2>2. DueIn(n, chan[d], d, r)
    BY <1>0, <2>1, DueTail
  <2> QED
    BY <2>1, <2>2 DEF Due
<1>5. Chained(d)' /\ Answered(d)'
  BY DEF Chained, Answered
<1>6. Expected(d, m)' = At(m) /\ At(m)' = At(m)
  BY <1>0, Unwritten DEF Expected
<1>7. Keeps(d, m)'
  <2>1. \A k \in 0..revision, p \in Path : KeepsFrom(d, m, k, p)' => k = m
    BY <1>0 DEF KeepsFrom
  <2> QED
    BY <1>6, <2>1 DEF Keeps
<1> QED
  BY <1>0, <1>2, <1>3, <1>4, <1>5, <1>6, <1>7 DEF FollowsTo

-----------------------------------------------------------------------------
(* A client is synced after every step of a peer, and of its own session.  *)

\* A refusal to come stays to come.
LEMMA CrossedStays ==
  ASSUME Core, Core', NEW c \in Client, Step(c), NEW d \in Client, Crossed(d),
         toServer'[d] # <<>>, Head(toServer'[d]) = Head(toServer[d])
  PROVE  Crossed(d)'
<1>1. PICK r \in 1..revision : /\ Head(toServer[d]).base \in Nat
                               /\ r > Head(toServer[d]).base /\ ~Own(d, r)
  BY DEF Crossed
<1>2. r \in 1..revision' /\ ~Own(d, r)'
  <2>1. revision \in Nat /\ revision' \in Nat /\ revision <= revision'
    BY GrowsOn DEF Core, TypeOK
  <2>2. ~Own(d, r)'
    BY <1>1, GrowsOn
  <2> QED
    BY <2>1, <2>2
<1> QED
  BY <1>1, <1>2 DEF Crossed

\* Events are sent to a client that is joining.
LEMMA JoiningSent ==
  ASSUME Core, Core', NEW c \in Client, Step(c), NEW d \in Client, Joining(d),
         conn'[d] = conn[d], toServer'[d] = toServer[d], rev'[d] = rev[d],
         unsaved'[d] = unsaved[d], remote'[d] = remote[d],
         Longer(toClient[d], toClient'[d]),
         \A j \in DOMAIN toClient'[d] :
           j > Len(toClient[d]) => toClient'[d][j].type # "ack",
         \A r \in 1..revision : Due(d, r) => Due(d, r)',
         \A r \in 1..revision' : r > revision => ~Own(d, r)' /\ Due(d, r)'
  PROVE  Joining(d)'
<1> DEFINE q == toClient[d]
           n == toClient'[d]
<1>1. /\ \A i \in DOMAIN q : i \in DOMAIN n /\ n[i] = q[i]
      /\ \A j \in DOMAIN n : j \in DOMAIN q \/ j > Len(q)
  BY LongerParts
<1>2. PICK i \in DOMAIN q :
         /\ q[i].type = "project"
         /\ \/ i = 1 /\ rev[d] = q[i].revision
            \/ /\ i = 2 /\ rev[d] = None
               /\ q[1].type = "ack" /\ q[1].revision = q[i].revision
         /\ \A j \in DOMAIN q : j > i /\ q[j].type = "ack" => Own(d, q[j].revision)
         /\ \A r \in 1..revision : r > q[i].revision => ~Own(d, r) /\ Due(d, r)
  BY DEF Joining
<1>3. n[i] = q[i] /\ i \in DOMAIN n
  BY <1>1
<1>4. i = 2 => n[1] = q[1]
  <2>1. i = 2 => 1 \in DOMAIN q
    BY DEF Longer
  <2> QED
    BY <1>1, <2>1
<1>5. \A j \in DOMAIN n : j > i /\ n[j].type = "ack" => Own(d, n[j].revision)
  BY <1>1, <1>2
<1>6. \A r : Own(d, r) => Own(d, r)'
  BY GrowsOn
<1>7. ASSUME NEW r \in 1..revision', r > n[i].revision
      PROVE  ~Own(d, r)' /\ Due(d, r)'
  <2>1. CASE r \in 1..revision
    BY <1>2, <1>3, <1>7, <2>1, GrowsOn
  <2>2. CASE r > revision
    BY <2>2
  <2> QED
    BY <2>1, <2>2 DEF Core, TypeOK
<1>8. /\ n[i].type = "project"
      /\ \/ i = 1 /\ rev'[d] = n[i].revision
         \/ /\ i = 2 /\ rev'[d] = None
            /\ n[1].type = "ack" /\ n[1].revision = n[i].revision
  BY <1>2, <1>3, <1>4
<1>9. conn'[d] = "joined" /\ toServer'[d] = <<>> /\ unsaved'[d] = {} /\ remote'[d] = Nothing
  BY DEF Joining
<1>10. \E k \in DOMAIN toClient'[d] :
       LET e == toClient'[d][k] IN
       /\ e.type = "project"
       /\ \/ k = 1 /\ rev'[d] = e.revision
          \/ /\ k = 2 /\ rev'[d] = None
             /\ toClient'[d][1].type = "ack" /\ toClient'[d][1].revision = e.revision
       /\ \A j \in DOMAIN toClient'[d] :
            j > k /\ toClient'[d][j].type = "ack" => Own(d, toClient[d][j].revision)'
       /\ \A r \in 1..revision' : r > e.revision => ~Own(d, r)' /\ Due(d, r)'
  BY <1>3, <1>5, <1>6, <1>7, <1>8
<1> QED
  BY <1>9, <1>10 DEF Joining

LEMMA Unchanged ==
  ASSUME Core, Core', NEW c \in Client, Step(c), NEW d \in Client, Synced(d),
         UNCHANGED <<revision, log>>, stage'[d] = stage[d],
         conn'[d] = conn[d], toServer'[d] = toServer[d], ver'[d] = ver[d],
         rev'[d] = rev[d], unsaved'[d] = unsaved[d], screen'[d] = screen[d],
         remote'[d] = remote[d], Longer(toClient[d], toClient'[d]),
         \A j \in DOMAIN toClient'[d] :
           j > Len(toClient[d]) => toClient'[d][j].type # "ack",
         \A r \in 1..revision : Due(d, r) => Due(d, r)'
  PROVE  Synced(d)'
<1>1. CASE Apart(d)
  BY <1>1 DEF Apart, Synced
<1>2. CASE Joining(d)
  <2>1. \A r \in 1..revision' : ~(r > revision)
    BY DEF Core, TypeOK
  <2> QED
    BY <1>2, <2>1, JoiningSent DEF Synced
<1>3. CASE Crossed(d)
  BY <1>3, CrossedStays DEF Synced, Crossed
<1>4. CASE Follows(d)
  <2>1. PICK m \in 0..revision : FollowsTo(d, m)
    BY <1>4 DEF Follows
  <2>2. ResetDue(d) => ResetDue(d)'
    <3>1. \A i \in DOMAIN toClient[d] : i \in DOMAIN toClient'[d] /\ toClient'[d][i] = toClient[d][i]
      BY LongerParts
    <3> QED
      BY <3>1 DEF ResetDue
  <2>3. Showing(d)' = Showing(d)
    BY DEF Showing
  <2>4. FollowsTo(d, m)'
    BY <2>1, <2>2, <2>3, FollowsSent
  <2> QED
    BY <2>4 DEF Synced, Follows
<1> QED
  BY <1>1, <1>2, <1>3, <1>4 DEF Synced

\* A peer writes.
LEMMA SyncRecordPeer ==
  ASSUME Core, Core', HistoryInv, NEW c \in Client, Record(c),
         NEW d \in Client, d # c, clean[d], clean'[d], Synced(d)
  PROVE  Synced(d)'
<1>0. /\ Step(c) /\ revision \in Nat /\ revision' = revision + 1
      /\ log'[revision + 1].by = c
      /\ \A r \in 1..revision : log'[r] = log[r]
  <2>1. log'[revision + 1] = [by |-> c, write |-> Head(toServer[c]), files |-> disk]
    BY LogGrows
  <2> QED
    BY <2>1, LogGrows DEF Handle
<1>n. PICK now \in Nat : now = revision + 1
  BY <1>0
<1>1. /\ conn'[d] = conn[d] /\ stage'[d] = stage[d] /\ toClient'[d] = toClient[d]
      /\ toServer'[d] = toServer[d] /\ screen'[d] = screen[d] /\ rev'[d] = rev[d]
      /\ remote'[d] = remote[d] /\ unsaved'[d] = unsaved[d] /\ ver'[d] = ver[d]
  BY <1>0, PeerFrame
<1>2. /\ Longer(toClient[d], toClient'[d]) /\ Len(toClient[d]) \in Nat
      /\ \A j \in DOMAIN toClient'[d] : ~(j > Len(toClient[d]))
  <2>1. toClient[d] \in Seq(Event)
    BY DEF Core, TypeOK
  <2> QED
    BY <1>1, <2>1 DEF Longer
<1>3. ~Own(d, now)'
  BY <1>0, <1>n DEF Own
<1>4. ASSUME conn[d] = "joined"
      PROVE  /\ \A r \in 1..revision : Due(d, r) => Due(d, r)'
             /\ Due(d, now)'
  <2>1. PICK x \in Change :
           /\ x.origin = c
           /\ \/ x.type = "files"
              \/ /\ x.type = "document" /\ Head(toServer[c]).op = "update"
                 /\ x.path = Head(toServer[c]).path /\ x.text = Head(toServer[c]).text
                 /\ x.revision = revision + 1
           /\ \A b \in Client : /\ chan'[b] = Delivered(b, x)
                                /\ clean'[b] => clean[b] /\ ~Loses(b)
    BY RecordBroadcasts
  <2>2. ~Loses(d) /\ chan'[d] = Delivered(d, x)
    BY <2>1
  <2>3. \A r : Due(d, r) => Due(d, r)'
    BY <1>1, <1>4, <2>2, DueDelivered DEF Due
  <2>4. BringsChange(x, d, now)
    BY <1>n, <2>1 DEF BringsChange
  <2>5. \A j \in DOMAIN toClient[d] : ~Newer(toClient[d][j], now)
    BY <1>0, <1>n, ToldBy DEF Newer, Dated
  <2>6. \A j \in DOMAIN chan[d] : ~NewerChange(chan[d][j], d, now)
    <3> SUFFICES ASSUME NEW j \in DOMAIN chan[d], chan[d][j].type = "document"
                 PROVE  ~(chan[d][j].revision > now)
      BY DEF NewerChange
    <3>1. chan[d] \in Seq(Change)
      BY DEF Core, TypeOK
    <3>2. j \in 1..Len(chan[d]) /\ chan[d][j] \in Change
      BY <3>1
    <3>3. chan[d][j].revision \in Nat
      BY <3>2, ChangeParts
    <3>4. chan[d][j].revision <= revision
      BY <3>2 DEF Core, HeardInv, Made
    <3> QED
      BY <1>0, <1>n, <3>3, <3>4
  <2>7. Due(d, now)'
    BY <1>1, <1>4, <2>2, <2>4, <2>5, <2>6, DueDelivered DEF Due
  <2> QED
    BY <2>3, <2>7
<1>5. CASE Apart(d)
  BY <1>1, <1>5 DEF Apart, Synced
<1>6. CASE Joining(d)
  <2>1. conn[d] = "joined"
    BY <1>6 DEF Joining
  <2>2. \A r \in 1..revision' : r > revision => ~Own(d, r)' /\ Due(d, r)'
    <3>1. \A r \in 1..revision' : r > revision => r = now
      BY <1>0, <1>n
    <3> QED
      BY <1>3, <1>4, <2>1, <3>1
  <2> QED
    BY <1>0, <1>1, <1>2, <1>4, <1>6, <2>1, <2>2, JoiningSent DEF Synced
<1>7. CASE Crossed(d)
  BY <1>0, <1>1, <1>7, CrossedStays DEF Synced, Crossed
<1>8. CASE Follows(d) /\ toServer[d] # <<>>
  <2>1. toServer[d] \in Seq(Write)
    BY DEF Core, TypeOK
  <2>2. 1 \in DOMAIN toServer[d] /\ Head(toServer[d]) = toServer[d][1]
    BY <1>8, <2>1, EmptyQueue
  <2>3. Head(toServer[d]).base \in 0..revision
    BY <2>2 DEF HistoryInv, CleanInv
  <2>4. Crossed(d)'
    <3>1. now \in 1..revision' /\ now > Head(toServer[d]).base /\ Head(toServer[d]).base \in Nat
      BY <1>0, <1>n, <2>3
    <3> QED
      BY <1>1, <1>3, <1>8, <3>1 DEF Crossed
  <2> QED
    BY <2>4 DEF Synced
<1>9. CASE Follows(d) /\ toServer[d] = <<>>
  <2>1. PICK m \in 0..revision : FollowsTo(d, m)
    BY <1>9 DEF Follows
  <2>2. /\ conn[d] = "joined" /\ rev[d] # None /\ rev[d] <= m /\ m <= revision
        /\ Acked(d) /\ Unheard(d, m) /\ Coming(d, m) /\ Chained(d) /\ Answered(d)
        /\ ResetDue(d) \/ Showing(d) = Expected(d, m)
        /\ Keeps(d, m)
    BY <2>1 DEF FollowsTo
  <2>3. /\ m \in 0..revision' /\ m <= revision' /\ m \in Nat
        /\ \A r \in 0..m : r \in 0..revision /\ (r # 0 => r \in 1..revision)
        /\ \A r \in 1..revision' : r <= m => r \in 1..revision
        /\ \A r \in 1..revision' : r \in 1..revision \/ r = now
        /\ \A k \in 0..revision' : k <= m => k \in 0..revision
        /\ 1..revision \subseteq 1..revision'
    BY <1>0, <1>n
  <2>4. /\ \A r \in 1..revision : Own(d, r)' <=> Own(d, r)
        /\ \A r : Own(d, r) => Own(d, r)'
        /\ \A k \in 0..revision : At(k)' = At(k)
    BY <1>0, GrowsOn
  <2>5. Acked(d)'
    BY <1>1, <2>2, <2>4 DEF Acked
  <2>6. Unheard(d, m)'
    <3> SUFFICES ASSUME NEW r \in 1..revision', rev[d] < r, r <= m
                 PROVE  /\ Own(d, r)' /\ log'[r].write \in unsaved[d]
                        /\ \E i \in DOMAIN toClient[d] : IsAck(toClient[d][i], log', d, r)
      BY <1>1 DEF Unheard
    <3>1. r \in 1..revision
      BY <2>3
    <3>2. PICK i \in DOMAIN toClient[d] : IsAck(toClient[d][i], log, d, r)
      BY <2>2, <3>1 DEF Unheard
    <3>3. IsAck(toClient[d][i], log', d, r)
      BY <1>0, <3>2, GrowsOn, ByGrows
    <3> QED
      BY <1>0, <2>2, <2>4, <3>1, <3>3 DEF Unheard
  <2>7. Coming(d, m)'
    BY <1>3, <1>4, <2>2, <2>3, <2>4 DEF Coming
  <2>8. Chained(d)' /\ Answered(d)'
    BY <1>1, <1>9, <2>2 DEF Chained, Answered
  <2>9. Expected(d, m)' = Expected(d, m) /\ Expected(d, m) = At(m)
    BY <1>1, <1>9, <2>4 DEF Expected
  <2>10. ResetDue(d)' \/ Showing(d)' = Expected(d, m)'
    BY <1>1, <2>2, <2>9 DEF ResetDue, Showing
  <2>11. Keeps(d, m)'
    <3> SUFFICES ASSUME NEW k \in 0..revision', NEW p \in Path, KeepsFrom(d, m, k, p)'
                 PROVE  Expected(d, m)'[p] = At(k)'[p]
      BY <1>1, <1>9 DEF Keeps
    <3>1. k \in 0..revision
      BY <2>3 DEF KeepsFrom
    <3>2. KeepsFrom(d, m, k, p)
      BY <1>0, <1>1, <2>3 DEF KeepsFrom
    <3> QED
      BY <2>2, <2>4, <2>9, <3>1, <3>2 DEF Keeps
  <2>12. FollowsTo(d, m)'
    BY <1>1, <1>9, <2>2, <2>3, <2>5, <2>6, <2>7, <2>8, <2>10, <2>11 DEF FollowsTo
  <2> QED
    BY <2>3, <2>12 DEF Synced, Follows
<1> QED
  BY <1>5, <1>6, <1>7, <1>8, <1>9 DEF Synced

LEMMA SyncPeer ==
  ASSUME Core, Core', HistoryInv, NEW c \in Client, Step(c),
         NEW d \in Client, d # c, clean[d], clean'[d], Synced(d)
  PROVE  Synced(d)'
<1>1. CASE Record(c)
  BY <1>1, SyncRecordPeer
<1>2. CASE ~Record(c)
  <2>1. /\ conn'[d] = conn[d] /\ stage'[d] = stage[d] /\ toClient'[d] = toClient[d]
        /\ toServer'[d] = toServer[d] /\ screen'[d] = screen[d] /\ rev'[d] = rev[d]
        /\ remote'[d] = remote[d] /\ unsaved'[d] = unsaved[d] /\ ver'[d] = ver[d]
        /\ chan'[d] = chan[d]
    BY <1>2, PeerFrame
  <2>2. UNCHANGED <<revision, log>>
    BY <1>2, LogStays DEF Handle
  <2>3. /\ Longer(toClient[d], toClient'[d])
        /\ \A j \in DOMAIN toClient'[d] : ~(j > Len(toClient[d]))
    BY <2>1 DEF Longer, Core, TypeOK
  <2>4. \A r : Due(d, r) => Due(d, r)'
    BY <2>1 DEF Due
  <2> QED
    BY <2>1, <2>2, <2>3, <2>4, Unchanged
<1> QED
  BY <1>1, <1>2

LEMMA SyncConnect ==
  ASSUME Core, Core', HistoryInv, NEW c \in Client, Connect(c), Synced(c)
  PROVE  Synced(c)'
<1>0. /\ conn[c] # "joined" /\ rev[c] = None /\ TypeOK
      /\ UNCHANGED <<revision, log, toServer, unsaved, remote, rev>>
  BY DEF Connect, Open, Subscribe, Join, HistoryInv, JoinInv, Core, store, shown, made
<1>1. CASE Apart(c) /\ ~Join(c)
  <2>1. conn'[c] # "joined"
    BY <1>0, <1>1 DEF Connect, Open, Subscribe, TypeOK
  <2> QED
    BY <1>0, <1>1, <2>1 DEF Apart, Synced
<1>2. CASE Apart(c) /\ Join(c)
  <2> DEFINE e == [type |-> "ack", revision |-> revision]
             f == [type |-> "project", files |-> disk, revision |-> revision]
  <2>1. e \in Event /\ f \in Event /\ toClient'[c] = <<e, f>>
    BY <1>0, <1>2, JoinSends DEF HistoryInv
  <2>2. conn'[c] = "joined"
    BY <1>0, <1>2 DEF Join, TypeOK
  <2>3. e.type = "ack" /\ e.revision = revision /\ f.type = "project" /\ f.revision = revision
    OBVIOUS
  <2> HIDE DEF e, f
  <2>4. DOMAIN <<e, f>> = {1, 2} /\ <<e, f>>[1] = e /\ <<e, f>>[2] = f
    OBVIOUS
  <2>5. \A r \in 1..revision' : ~(r > revision)
    BY <1>0 DEF TypeOK
  <2>6. /\ 2 \in DOMAIN toClient'[c] /\ toClient'[c][2] = f /\ toClient'[c][1] = e
        /\ \A j \in DOMAIN toClient'[c] : ~(j > 2)
    BY <2>1, <2>4
  <2>7. Joining(c)'
    BY <1>0, <1>2, <2>2, <2>3, <2>5, <2>6 DEF Joining, Apart
  <2> QED
    BY <2>7 DEF Synced
<1>3. CASE Crossed(c)
  BY <1>0, <1>3, CrossedStays DEF Synced, Crossed
<1> QED
  BY <1>0, <1>1, <1>2, <1>3 DEF Synced, Joining, Follows, FollowsTo

\* Nothing changes but what is on its way to the client.
LEMMA SyncSent ==
  ASSUME Core, Core', HistoryInv, NEW c \in Client, Synced(c),
         Admit(c) \/ Store(c) \/ Forward(c)
  PROVE  Synced(c)'
<1> DEFINE q == toClient[c]
           n == toClient'[c]
<1>0. /\ UNCHANGED <<revision, log, conn, toServer, ver, rev, unsaved, screen, remote>>
      /\ q \in Seq(Event) /\ chan[c] \in Seq(Change) /\ TypeOK
      /\ Step(c)
  BY DEF Admit, Store, Forward, ForwardEcho, ForwardDocument, ForwardFiles, store,
     shown, made, Core, TypeOK, Handle
<1>a. Longer(q, q) /\ \A j \in DOMAIN q : ~(j > Len(q))
  BY <1>0 DEF Longer
<1>b. \A e \in Event : /\ Longer(q, Append(q, e)) /\ Append(q, e) \in Seq(Event)
                       /\ \A j \in DOMAIN Append(q, e) : j > Len(q) => Append(q, e)[j] = e
  <2> SUFFICES ASSUME NEW e \in Event
               PROVE  /\ Longer(q, Append(q, e)) /\ Append(q, e) \in Seq(Event)
                      /\ \A j \in DOMAIN Append(q, e) : j > Len(q) => Append(q, e)[j] = e
    OBVIOUS
  <2>1. /\ \A j \in DOMAIN Append(q, e) : j \in DOMAIN q \/ j = Len(q) + 1
        /\ Append(q, e)[Len(q) + 1] = e /\ Append(q, e) \in Seq(Event)
    BY <1>0, AppendParts
  <2> QED
    BY <1>0, <1>a, <2>1, LongerOne
<1>c. Showing(c)' = Showing(c)
  BY <1>0 DEF Showing
<1> HIDE DEF q, n
<1>1. CASE Admit(c)
  <2>1. n = q /\ chan' = chan
    BY <1>0, <1>1, OutboxStays DEF Admit, n, q
  <2>2. \A r : Due(c, r) => Due(c, r)'
    BY <2>1 DEF Due, q, n
  <2>3. stage[c] # "stored" /\ stage'[c] # "stored"
    BY <1>0, <1>1 DEF Admit, Takes, TypeOK
  <2>4. ResetDue(c) => ResetDue(c)'
    BY <1>0, <2>1, <2>3 DEF ResetDue, q, n
  <2>5. CASE Follows(c)
    <3>1. PICK m \in 0..revision : FollowsTo(c, m)
      BY <2>5 DEF Follows
    <3>2. FollowsTo(c, m)'
      BY <1>0, <1>a, <1>c, <2>1, <2>2, <2>4, <3>1, FollowsSent DEF q, n
    <3> QED
      BY <1>0, <3>2 DEF Synced, Follows
  <2>6. CASE Crossed(c)
    BY <1>0, <2>6, CrossedStays DEF Synced, Crossed
  <2> QED
    BY <1>1, <2>5, <2>6 DEF Synced, Apart, Joining, Admit, Takes
<1>2. CASE Store(c)
  <2> DEFINE w == Head(toServer[c])
             e == [type |-> "files", files |-> Applied(w, catalog[c]),
                   version |-> w.version]
  <2>1. /\ e \in Event
        /\ w.op = "update" => n = q
        /\ w.op # "update" => n = Append(q, e)
    BY <1>2, StoreSends DEF q, n
  <2>2. /\ stage[c] = "checked" /\ stage'[c] = "stored" /\ chan' = chan
        /\ toServer[c] # <<>>
    BY <1>0, <1>2 DEF Store, TypeOK, Core, LockInv, Admitted
  <2>3. e.type = "files" /\ e.version = w.version
    OBVIOUS
  <2> HIDE DEF e
  <2>4. /\ Longer(q, n) /\ \A j \in DOMAIN n : j > Len(q) => n[j] = e
    BY <1>a, <1>b, <2>1
  <2>5. \A r : Due(c, r) => Due(c, r)'
    <3>1. \A r : ~Newer(e, r)
      BY <2>3 DEF Newer
    <3> QED
      BY <2>2, <2>4, <3>1, DueLonger DEF Due, q, n
  <2>6. ResetDue(c) => ResetDue(c)'
    <3> SUFFICES ASSUME ResetDue(c) PROVE ResetDue(c)'
      OBVIOUS
    <3>1. PICK x \in unsaved[c] :
            /\ x.op = "reset"
            /\ \/ \E i \in DOMAIN toServer[c] : toServer[c][i] = x
               \/ \E i \in DOMAIN q : IsFiles(q[i], x.version)
      BY DEF ResetDue, q
    <3>2. CASE \E i \in DOMAIN q : IsFiles(q[i], x.version)
      <4>1. \E i \in DOMAIN n : IsFiles(n[i], x.version)
        BY <2>4, <3>2, LongerParts
      <4> QED
        BY <1>0, <3>1, <4>1 DEF ResetDue, n
    <3>3. CASE \E i \in DOMAIN toServer[c] : toServer[c][i] = x
      <4>1. PICK i \in DOMAIN toServer[c] : toServer[c][i] = x
        BY <3>3
      <4>2. CASE i = 1
        <5>1. w = x
          <6>1. toServer[c] \in Seq(Write)
            BY <1>0 DEF TypeOK
          <6> QED
            BY <2>2, <4>1, <4>2, <6>1, EmptyQueue
        <5>2. n = Append(q, e)
          BY <2>1, <3>1, <5>1
        <5>3. Len(q) + 1 \in DOMAIN n /\ n[Len(q) + 1] = e
          BY <1>0, <2>1, <5>2, AppendParts DEF q
        <5>4. IsFiles(e, x.version)
          BY <2>3, <5>1 DEF IsFiles
        <5> QED
          BY <1>0, <3>1, <5>3, <5>4 DEF ResetDue, n
      <4>3. CASE i # 1
        BY <1>0, <3>1, <4>1, <4>3 DEF ResetDue
      <4> QED
        BY <4>2, <4>3
    <3> QED
      BY <3>1, <3>2, <3>3
  <2>7. CASE Follows(c)
    <3>1. PICK m \in 0..revision : FollowsTo(c, m)
      BY <2>7 DEF Follows
    <3>2. \A j \in DOMAIN n : j > Len(q) => n[j].type # "ack"
      BY <2>3, <2>4
    <3>3. FollowsTo(c, m)'
      BY <1>0, <1>c, <2>4, <2>5, <2>6, <3>1, <3>2, FollowsSent DEF q, n
    <3> QED
      BY <1>0, <3>3 DEF Synced, Follows
  <2>8. CASE Crossed(c)
    BY <1>0, <2>8, CrossedStays DEF Synced, Crossed
  <2> QED
    BY <2>2, <2>7, <2>8 DEF Synced, Apart, Joining
<1>3. CASE Forward(c)
  <2>1. /\ chan[c] # <<>> /\ chan'[c] = Tail(chan[c]) /\ stage' = stage
    BY <1>0, <1>3 DEF Forward, ForwardEcho, ForwardDocument, ForwardFiles, Receives, TypeOK
  <2>2. /\ Longer(q, n) /\ \A j \in DOMAIN n : j > Len(q) => n[j].type # "ack"
        /\ \A r \in 1..revision : Due(c, r) => Due(c, r)'
    <3>1. CASE ForwardEcho(c)
      <4>1. n = q /\ Head(chan[c]).origin = c
        BY <1>0, <3>1, OutboxStays DEF ForwardEcho, n, q
      <4>2. \A r : DueIn(q, chan[c], c, r) => DueIn(n, Tail(chan[c]), c, r)
        BY <1>0, <2>1, <4>1, DueReceived
      <4> QED
        BY <1>a, <2>1, <4>1, <4>2 DEF Due, q, n
    <3>2. CASE ForwardDocument(c)
      <4> DEFINE x == Head(chan[c])
                 e == [type |-> "changed", path |-> x.path, text |-> x.text,
                       revision |-> x.revision]
      <4>1. e \in Event /\ n = Append(q, e) /\ x.type = "document" /\ x.origin # c
        BY <3>2, DocumentSends DEF q, n
      <4>2. e.type = "changed" /\ e.revision = x.revision
        OBVIOUS
      <4> HIDE DEF e, x
      <4>3. n \in Seq(Event)
        BY <1>b, <4>1
      <4>4. \A r : DueIn(q, chan[c], c, r) => DueIn(n, Tail(chan[c]), c, r)
        BY <1>0, <2>1, <4>1, <4>2, <4>3, DueReceived DEF x
      <4> QED
        BY <1>b, <2>1, <4>1, <4>2, <4>4 DEF Due, q, n
    <3>3. CASE ForwardFiles(c)
      <4> DEFINE e == [type |-> "project", files |-> disk, revision |-> revision]
      <4>1. e \in Event /\ n = Append(q, e)
        BY <3>3, FilesSends DEF q, n
      <4>2. e.type = "project" /\ e.revision = revision
        OBVIOUS
      <4> HIDE DEF e
      <4>3. \A r \in 1..revision : revision >= r
        BY <1>0 DEF TypeOK
      <4>4. \A r \in 1..revision :
              DueIn(q, chan[c], c, r) => DueIn(n, Tail(chan[c]), c, r)
        BY <1>0, <4>1, <4>2, <4>3, DueFiles
      <4> QED
        BY <1>b, <2>1, <4>1, <4>2, <4>4 DEF Due, q, n
    <3> QED
      BY <1>3, <3>1, <3>2, <3>3 DEF Forward
  <2> QED
    BY <1>0, <2>1, <2>2, Unchanged DEF q, n
<1> QED
  BY <1>1, <1>2, <1>3

\* The shell applies a peer's edit, or finds it in the file already.
LEMMA SyncShow ==
  ASSUME Core, Core', NEW c \in Client, ShowRemote(c) \/ SkipRemote(c),
         Synced(c), clean'[c]
  PROVE  Synced(c)'
<1> DEFINE q == toClient[c]
<1>0. /\ UNCHANGED <<revision, log, conn, toServer, ver, rev, unsaved, toClient, chan, stage>>
      /\ q \in Seq(Event) /\ TypeOK /\ Step(c) /\ remote[c] # Nothing
      /\ remote'[c] = Nothing
  BY OutboxStays DEF ShowRemote, SkipRemote, store, server, made, Core, TypeOK
<1>1. /\ Longer(q, q) /\ \A j \in DOMAIN q : ~(j > Len(q))
  BY <1>0 DEF Longer
<1>2. remote[c].path \in Path /\ screen[c] \in Files
  BY <1>0 DEF TypeOK
<1>3. Showing(c)' = screen'[c]
  BY <1>0 DEF Showing
<1>4. Showing(c)' = Showing(c)
  <2>1. CASE ShowRemote(c)
    <3>1. screen'[c] = [screen[c] EXCEPT ![remote[c].path] =
                          IF @ = Absent THEN Absent ELSE remote[c].text]
      BY <1>0, <2>1 DEF ShowRemote, TypeOK
    <3> QED
      BY <1>0, <1>3, <3>1 DEF Showing
  <2>2. CASE SkipRemote(c)
    <3>1. screen' = screen /\ screen[c][remote[c].path] # Absent
      BY <2>2 DEF SkipRemote
    <3>2. screen[c][remote[c].path] = remote[c].text
      BY <1>0, <2>2 DEF SkipRemote, TypeOK
    <3>3. [screen[c] EXCEPT ![remote[c].path] =
             IF @ = Absent THEN Absent ELSE remote[c].text] = screen[c]
      BY <1>2, <3>1, <3>2 DEF Files
    <3> QED
      BY <1>0, <1>3, <3>1, <3>3 DEF Showing
  <2> QED
    BY <2>1, <2>2
<1>5. CASE Crossed(c)
  BY <1>0, <1>5, CrossedStays DEF Synced, Crossed
<1>6. CASE Follows(c)
  <2>1. PICK m \in 0..revision : FollowsTo(c, m)
    BY <1>6 DEF Follows
  <2>2. \A r : Due(c, r) => Due(c, r)'
    BY <1>0 DEF Due
  <2>3. ResetDue(c) => ResetDue(c)'
    BY <1>0 DEF ResetDue
  <2>4. FollowsTo(c, m)'
    BY <1>0, <1>1, <1>4, <2>1, <2>2, <2>3, FollowsSent
  <2> QED
    BY <1>0, <2>4 DEF Synced, Follows
<1> QED
  BY <1>0, <1>5, <1>6 DEF Synced, Apart, Joining

\* A write that has been admitted crosses no other.
LEMMA NotCrossed ==
  ASSUME Core, NEW c \in Client, Admitted(c)
  PROVE  ~Crossed(c)
<1> DEFINE w == Head(toServer[c])
<1>1. WriterBaseOk(c, w.base) /\ revision \in Nat /\ start \in Nat
  BY DEF Core, LockInv, TypeOK
<1> HIDE DEF w
<1> SUFFICES ASSUME NEW r \in 1..revision, w.base \in Nat, r > w.base PROVE Own(c, r)
  BY DEF Crossed, w
<1>2. w.base # None /\ w.base # revision
  BY <1>1, NoneAssumption
<1>3. writer = c /\ w.base >= start
  BY <1>1, <1>2 DEF WriterBaseOk
<1>4. r > start /\ writer # None
  BY <1>1, <1>3, NoneAssumption
<1> QED
  BY <1>3, <1>4 DEF Core, SuffixInv, Own

\* The client's oldest write becomes a revision.
LEMMA SyncRecord ==
  ASSUME Core, Core', HistoryInv, NEW c \in Client, Record(c), Synced(c)
  PROVE  Synced(c)'
<1> DEFINE q == toClient[c]
           n == toClient'[c]
           t == toServer[c]
           u == toServer'[c]
           w == Head(toServer[c])
           e == [type |-> "ack", revision |-> revision + 1]
           f == [type |-> "saved", version |-> Head(toServer[c]).version]
<1>0. /\ Step(c) /\ TypeOK /\ revision \in Nat /\ revision' = revision + 1
      /\ \A r \in 1..revision : log'[r] = log[r]
      /\ log'[revision + 1] = [by |-> c, write |-> w, files |-> disk]
  BY LogGrows DEF Handle, Core
<1>n. PICK now \in Nat : now = revision + 1
  BY <1>0
<1>1. /\ stage[c] = "stored" /\ stage'[c] = "idle" /\ u = Tail(t)
      /\ t # <<>> /\ t \in Seq(Write) /\ WriterBaseOk(c, w.base)
      /\ UNCHANGED <<conn, screen, rev, remote, ver, unsaved>>
  BY <1>0 DEF Record, TypeOK, Core, LockInv, Admitted, shown, made
<1>2. /\ e \in Event /\ f \in Event /\ q \in Seq(Event) /\ n = q \o <<e, f>>
  BY RecordSends
<1>3. e.type = "ack" /\ e.revision = now /\ f.type = "saved" /\ f.version = w.version
  BY <1>n
<1> HIDE DEF e, f
<1>4. /\ Len(q) \in Nat /\ Len(q) + 1 \in DOMAIN n /\ Len(q) + 2 \in DOMAIN n
      /\ n[Len(q) + 1] = e /\ n[Len(q) + 2] = f
      /\ \A i \in DOMAIN q : i \in DOMAIN n /\ n[i] = q[i]
      /\ \A i \in DOMAIN n : i \in DOMAIN q \/ i = Len(q) + 1 \/ i = Len(q) + 2
  BY <1>2, AppendTwo
<1>5. /\ Head(t) = t[1] /\ 1 \in DOMAIN t /\ Len(t) \in Nat
      /\ \A i \in DOMAIN u : i \in Nat /\ i >= 1 /\ i + 1 \in DOMAIN t /\ u[i] = t[i + 1]
      /\ \A i \in DOMAIN t : i \in Nat /\ i >= 1
  BY <1>1, TailParts
<1>6. /\ \A i \in DOMAIN t : i # 1 => i - 1 \in DOMAIN u /\ u[i - 1] = t[i]
      /\ u = <<>> => Len(t) = 1
      /\ u # <<>> => u[Len(u)] = t[Len(t)]
  BY <1>1, TailShift
<1>7. w = t[1]
  BY <1>5
<1> HIDE DEF q, n, t, u, w
<1>8. ~Crossed(c)
  BY <1>1, NotCrossed DEF Admitted
<1>9. PICK m \in 0..revision : FollowsTo(c, m)
  BY <1>1, <1>8 DEF Synced, Apart, Joining, Follows, t
<1>10. /\ conn[c] = "joined" /\ rev[c] # None /\ rev[c] <= m /\ m = revision
       /\ Acked(c) /\ Unheard(c, m) /\ Chained(c) /\ Answered(c)
       /\ ResetDue(c) \/ Showing(c) = Expected(c, m)
       /\ Keeps(c, m) /\ rev[c] \in Nat
  BY <1>0, <1>1, <1>9 DEF FollowsTo, t, TypeOK, Heard
<1>11. disk = After(w) /\ w \in unsaved[c]
  <2>1. w.seen = At(revision) /\ w \in unsaved[c]
    BY <1>5, <1>7, <1>10 DEF Chained, t
  <2>2. disk = Applied(w, At(revision))
    BY <1>1 DEF HistoryInv, DiskInv, w
  <2> QED
    BY <2>1, <2>2 DEF After
<1>12. /\ At(now)' = After(w) /\ At(revision)' = After(w)
       /\ log'[now].write = w /\ By(log', c, now) /\ Own(c, now)'
  <2>1. now # 0 /\ revision' = now /\ now \in 1..now
    BY <1>0, <1>n
  <2>2. log'[now].files = disk /\ log'[now].write = w /\ log'[now].by = c
    BY <1>0, <1>n
  <2>3. Len(log') = revision'
    BY DEF Core, SuffixInv
  <2> QED
    BY <1>11, <2>1, <2>2, <2>3 DEF At, By, Own
<1>13. /\ \A r \in 1..revision' : r \in 1..revision \/ r = now
       /\ \A k \in 0..revision' : k \in 0..revision \/ k = now
       /\ now \in 0..revision' /\ m < now /\ now <= revision'
       /\ 1..revision \subseteq 1..revision' /\ now \in 1..revision'
       /\ \A r \in 1..revision' : ~(now < r)
       /\ \A r \in 1..revision : r <= m
       /\ \A k \in 0..revision : k < now /\ k <= m
       /\ rev[c] <= now
  BY <1>0, <1>n, <1>10
<1>14. /\ \A r \in 1..revision : Own(c, r)' <=> Own(c, r)
       /\ \A r : Own(c, r) => Own(c, r)'
       /\ \A k \in 0..revision : At(k)' = At(k)
  BY <1>0, GrowsOn
<1>15. Acked(c)'
  <2>1. \A i \in DOMAIN n : n[i].type = "ack" => i \in DOMAIN q \/ n[i] = e
    BY <1>3, <1>4
  <2>2. \A i \in DOMAIN q : q[i].type = "ack" => Own(c, q[i].revision)
    BY <1>10 DEF Acked, q
  <2> SUFFICES ASSUME NEW i \in DOMAIN n, n[i].type = "ack" PROVE Own(c, toClient[c][i].revision)'
    BY DEF Acked, n
  <2>3. CASE n[i] = e
    BY <1>3, <1>12, <2>3 DEF Own, n
  <2>4. CASE i \in DOMAIN q
    <3>1. Own(c, n[i].revision)
      BY <1>4, <2>2, <2>4
    <3> QED
      BY <1>14, <3>1 DEF Own, n
  <2> QED
    BY <2>1, <2>3, <2>4
<1>16. Unheard(c, now)'
  <2> SUFFICES ASSUME NEW r \in 1..revision', rev[c] < r, r <= now
               PROVE  /\ Own(c, r)' /\ log'[r].write \in unsaved[c]
                      /\ \E i \in DOMAIN n : IsAck(n[i], log', c, r)
    BY <1>1 DEF Unheard, n
  <2>1. CASE r = now
    <3>1. IsAck(e, log', c, now)
      BY <1>3, <1>12 DEF IsAck
    <3> QED
      BY <1>4, <1>11, <1>12, <2>1, <3>1
  <2>2. CASE r \in 1..revision
    <3>1. Own(c, r) /\ log[r].write \in unsaved[c]
      BY <1>10, <1>13, <2>2 DEF Unheard
    <3>2. PICK i \in DOMAIN q : IsAck(q[i], log, c, r)
      BY <1>10, <1>13, <2>2 DEF Unheard, q
    <3>3. IsAck(q[i], log', c, r)
      BY <1>0, <3>2, GrowsOn, ByGrows
    <3> QED
      BY <1>0, <1>4, <1>14, <2>2, <3>1, <3>3
  <2> QED
    BY <1>13, <2>1, <2>2
<1>17. Coming(c, now)'
  BY <1>13 DEF Coming
<1>18. Chained(c)'
  <2> SUFFICES ASSUME NEW i \in DOMAIN u
               PROVE  /\ u[i] \in unsaved[c]
                      /\ u[i].seen = IF i = 1 THEN At(revision)' ELSE After(u[i - 1])
    BY <1>1 DEF Chained, u
  <2>1. i + 1 \in DOMAIN t /\ u[i] = t[i + 1]
    BY <1>5
  <2>a. \A j \in DOMAIN t :
          t[j] \in unsaved[c] /\ (j # 1 => t[j].seen = After(t[j - 1]))
    BY <1>10 DEF Chained, t
  <2>b. PICK k \in DOMAIN t : k = i + 1
    BY <2>1
  <2>c. u[i] = t[k] /\ k # 1 /\ k - 1 = i
    BY <1>5, <2>b
  <2>d. t[k] \in unsaved[c] /\ t[k].seen = After(t[k - 1])
    BY <2>a, <2>c
  <2>e. t[k - 1] = t[i]
    BY <2>c
  <2>2. u[i] \in unsaved[c] /\ u[i].seen = After(t[i])
    BY <2>c, <2>d, <2>e
  <2>3. CASE i = 1
    BY <1>7, <1>12, <2>2, <2>3
  <2>4. CASE i # 1
    <3>1. i \in DOMAIN t
      BY <1>5, <1>1, <2>1, EmptyQueue
    <3> QED
      BY <1>6, <2>2, <2>4, <3>1
  <2> QED
    BY <2>3, <2>4
<1>19. Answered(c)'
  <2> SUFFICES ASSUME NEW x \in unsaved[c]
               PROVE  /\ x.op = "reset" => x.version = ver[c]
                      /\ \/ \E i \in DOMAIN u : u[i] = x
                         \/ \E i \in DOMAIN n : n[i].type = "saved" /\ n[i].version = x.version
    BY <1>1 DEF Answered, u, n
  <2>1. /\ x.op = "reset" => x.version = ver[c]
        /\ \/ \E i \in DOMAIN t : t[i] = x
           \/ \E i \in DOMAIN q : q[i].type = "saved" /\ q[i].version = x.version
    BY <1>10 DEF Answered, t, q
  <2>2. ASSUME NEW i \in DOMAIN t, t[i] = x
        PROVE  \/ \E j \in DOMAIN u : u[j] = x
               \/ \E j \in DOMAIN n : n[j].type = "saved" /\ n[j].version = x.version
    BY <1>3, <1>4, <1>6, <1>7, <2>2
  <2> QED
    BY <1>4, <2>1, <2>2
<1>20. ResetDue(c) => ResetDue(c)'
  <2> SUFFICES ASSUME NEW x \in unsaved[c], x.op = "reset",
                      \/ \E i \in DOMAIN t : t[i] = x /\ i # 1
                      \/ \E i \in DOMAIN q : IsFiles(q[i], x.version)
               PROVE  \/ \E i \in DOMAIN u : u[i] = x
                      \/ \E i \in DOMAIN n : IsFiles(n[i], x.version)
    BY <1>1 DEF ResetDue, t, q, u, n
  <2> QED
    BY <1>4, <1>6
<1>21. Expected(c, now)' = Expected(c, m) /\ Showing(c)' = Showing(c)
  <2>1. Showing(c)' = Showing(c)
    BY <1>1 DEF Showing
  <2>2. Expected(c, m) = After(t[Len(t)])
    BY <1>1 DEF Expected, t
  <2>3. Expected(c, now)' = IF u = <<>> THEN At(now)' ELSE After(u[Len(u)])
    BY DEF Expected, u
  <2> QED
    BY <1>6, <1>7, <1>12, <2>1, <2>2, <2>3
<1>22. Keeps(c, now)'
  <2>1. ASSUME NEW i \in DOMAIN t, NEW p \in Path,
               \A j \in DOMAIN t : i < j => p \notin Touched(t[j])
        PROVE  Expected(c, m)[p] = After(t[i])[p]
    BY <1>10, <2>1 DEF Keeps, t
  <2>2. ASSUME NEW k \in 0..revision', NEW p \in Path, KeepsFrom(c, now, k, p)'
        PROVE  Expected(c, m)[p] = At(k)'[p]
    <3>1. /\ rev[c] <= k
          /\ \A r \in 1..revision' : k < r /\ r <= now => p \notin Touched(log'[r].write)
          /\ \A i \in DOMAIN u : p \notin Touched(u[i])
      BY <1>1, <2>2 DEF KeepsFrom, u
    <3>2. \A i \in DOMAIN t : i # 1 => p \notin Touched(t[i])
      BY <1>6, <3>1
    <3>3. CASE k = now
      <4>1. \A j \in DOMAIN t : 1 < j => j # 1
        BY <1>5
      <4>2. Expected(c, m)[p] = After(t[1])[p]
        BY <1>5, <2>1, <3>2, <4>1
      <4> QED
        BY <1>7, <1>12, <3>3, <4>2
    <3>4. CASE k \in 0..revision
      <4>1. p \notin Touched(w)
        BY <1>12, <1>13, <3>1, <3>4
      <4>2. \A i \in DOMAIN t : p \notin Touched(t[i])
        BY <1>7, <3>2, <4>1
      <4>3. \A r \in 1..revision : k < r /\ r <= m => p \notin Touched(log[r].write)
        <5> SUFFICES ASSUME NEW r \in 1..revision, k < r, r <= m
                     PROVE  p \notin Touched(log[r].write)
          OBVIOUS
        <5>1. r \in 1..revision' /\ r <= now /\ log'[r] = log[r]
          BY <1>0, <1>n, <1>13
        <5> QED
          BY <3>1, <5>1
      <4>4. KeepsFrom(c, m, k, p)
        BY <1>13, <3>1, <3>4, <4>2, <4>3 DEF KeepsFrom, t
      <4> QED
        BY <1>10, <1>14, <3>4, <4>4 DEF Keeps
    <3> QED
      BY <1>13, <3>3, <3>4
  <2>3. ASSUME NEW i \in DOMAIN u, NEW p \in Path,
               \A j \in DOMAIN u : i < j => p \notin Touched(u[j])
        PROVE  Expected(c, m)[p] = After(u[i])[p]
    <3>1. i + 1 \in DOMAIN t /\ u[i] = t[i + 1]
      BY <1>5
    <3>2. \A j \in DOMAIN t : i + 1 < j => p \notin Touched(t[j])
      <4> SUFFICES ASSUME NEW j \in DOMAIN t, i + 1 < j PROVE p \notin Touched(t[j])
        OBVIOUS
      <4>1. j # 1 /\ i < j - 1
        BY <1>5
      <4> QED
        BY <1>6, <2>3, <4>1
    <3> QED
      BY <2>1, <3>1, <3>2
  <2> QED
    BY <1>21, <2>2, <2>3 DEF Keeps, u
<1>23. FollowsTo(c, now)'
  <2>1. conn'[c] = "joined" /\ rev'[c] # None /\ rev'[c] <= now /\ now = revision'
    BY <1>0, <1>n, <1>1, <1>10, <1>13
  <2> QED
    BY <1>10, <1>13, <1>15, <1>16, <1>17, <1>18, <1>19, <1>20, <1>21, <1>22, <2>1 DEF FollowsTo
<1> QED
  BY <1>13, <1>23 DEF Synced, Follows

LEMMA LeavesAlone ==
  ASSUME NEW w \in Write, NEW files \in Files, NEW p \in Path, p \notin Touched(w)
  PROVE  Applied(w, files)[p] = files[p]
<1>1. w.op \in AllOps
  BY WriteParts
<1>2. w.op # "reset" /\ p \notin Named(w)
  BY DEF Touched
<1>3. CASE w.op = "rename"
  BY <1>2, <1>3 DEF Applied, Named, Files
<1>4. CASE w.op \in {"update", "create", "delete"}
  BY <1>2, <1>4 DEF Applied, Named, Files
<1> QED
  BY <1>1, <1>2, <1>3, <1>4 DEF AllOps

\* The user writes to the files of the last revision, with the client's own
\* writes made to them; or to files a peer has written over since.
LEMMA SyncMake ==
  ASSUME Core, Core', HistoryInv, NEW c \in Client, UserWrites(c), Synced(c), clean'[c]
  PROVE  Synced(c)'
<1> DEFINE q == toClient[c]
           t == toServer[c]
           u == toServer'[c]
<1>0. /\ Step(c) /\ TypeOK /\ revision \in Nat /\ t \in Seq(Write) /\ screen[c] \in Files
      /\ unsaved \in [Client -> SUBSET Write] /\ ver \in [Client -> Nat]
      /\ screen \in [Client -> Files] /\ toServer \in [Client -> Seq(Write)]
  BY DEF Core, TypeOK
<1>1. PICK op \in AllOps, p \in Path, to \in Path, w \in Write :
           /\ w = [op |-> op, path |-> p, to |-> to, text |-> <<c, ver[c] + 1>>,
                   version |-> ver[c] + 1, base |-> rev[c], seen |-> screen[c],
                   blind |-> p \in skipped[c]]
           /\ Make(c, op, p, to)
           /\ toServer' = [toServer EXCEPT ![c] = Append(@, w)]
           /\ ver' = [ver EXCEPT ![c] = @ + 1]
           /\ unsaved' = [unsaved EXCEPT ![c] = @ \cup {w}]
           /\ screen' = [screen EXCEPT ![c] = IF op = "reset" THEN @ ELSE Applied(w, @)]
  BY MakeParts
<1>2. /\ w.op = op /\ w.version = ver[c] + 1 /\ w.base = rev[c] /\ w.seen = screen[c]
      /\ u = Append(t, w) /\ ver'[c] = w.version /\ unsaved'[c] = unsaved[c] \cup {w}
      /\ screen'[c] = IF op = "reset" THEN screen[c] ELSE Applied(w, screen[c])
  BY <1>0, <1>1
<1>3. /\ UNCHANGED <<revision, log, stage, conn, chan, toClient, rev, remote>>
      /\ rev[c] # None /\ ~Overruns(c)
  BY <1>0, <1>1 DEF Make, store, server, TypeOK
<1>4. /\ remote[c] = Nothing /\ \A x \in unsaved[c] : x.op # "reset"
      /\ \A i \in DOMAIN q : q[i].type = "project" => q[i].revision # rev[c]
  BY <1>3 DEF Overruns
<1>5. /\ u # <<>> /\ Len(t) \in Nat /\ Len(u) = Len(t) + 1 /\ DOMAIN t = 1..Len(t)
      /\ Len(t) + 1 \in DOMAIN u /\ u[Len(t) + 1] = w
      /\ \A i \in DOMAIN t : u[i] = t[i] /\ i \in DOMAIN u /\ i \in Nat /\ i < Len(t) + 1
      /\ \A i \in DOMAIN u : i \in DOMAIN t \/ i = Len(t) + 1
      /\ t = <<>> <=> DOMAIN t = {}
  BY <1>0, <1>2, AppendParts, EmptyQueue
<1>6. t = <<>> => Head(u) = w
  BY <1>0, <1>2
<1> HIDE DEF q, t, u
<1>7. CASE Crossed(c)
  BY <1>0, <1>7, HeadStays, CrossedStays DEF Synced, Crossed
<1>8. ~Apart(c)
  BY <1>3 DEF Apart, HistoryInv, JoinInv
<1>9. ~Joining(c)
  BY <1>3, <1>4 DEF Joining, q
<1>10. ASSUME NEW m \in 0..revision, FollowsTo(c, m)
       PROVE  Synced(c)'
  <2>1. /\ conn[c] = "joined" /\ rev[c] # None /\ rev[c] <= m /\ m <= revision
        /\ t # <<>> => m = revision
        /\ Acked(c) /\ Unheard(c, m) /\ Coming(c, m) /\ Chained(c) /\ Answered(c)
        /\ ResetDue(c) \/ Showing(c) = Expected(c, m)
        /\ Keeps(c, m) /\ rev[c] \in Nat
    BY <1>0, <1>10 DEF FollowsTo, t, TypeOK, Heard
  <2>2. CASE m # revision
    <3>1. PICK r \in 1..revision : r = m + 1
      BY <1>0, <2>1, <2>2
    <3>2. t = <<>> /\ m < r /\ ~Own(c, r)
      BY <1>0, <2>1, <2>2, <3>1 DEF Coming
    <3>3. Head(u).base \in Nat /\ r > Head(u).base
      BY <1>2, <1>6, <2>1, <3>1, <3>2
    <3>4. ~Own(c, r)' /\ r \in 1..revision'
      BY <1>3, <3>2 DEF Own
    <3>5. Crossed(c)'
      BY <1>5, <3>3, <3>4 DEF Crossed, u
    <3> QED
      BY <3>5 DEF Synced
  <2>3. CASE m = revision
    <3>1. ~ResetDue(c) /\ Showing(c) = screen[c]
      BY <1>4 DEF ResetDue, Showing
    <3>2. w.seen = Expected(c, m)
      BY <1>2, <2>1, <3>1
    <3>3. /\ \A r : Own(c, r)' <=> Own(c, r)
          /\ \A r : At(r)' = At(r)
      BY <1>3 DEF Own, At
    <3>4. Expected(c, m)' = After(w)
      BY <1>5 DEF Expected, u
    <3>5. Acked(c)'
      BY <1>3, <2>1, <3>3 DEF Acked
    <3>6. Unheard(c, m)'
      BY <1>2, <1>3, <2>1, <3>3 DEF Unheard
    <3>7. Coming(c, m)'
      BY <1>3, <2>1, <3>3 DEF Coming, Due
    <3>8. Chained(c)'
      <4> SUFFICES ASSUME NEW i \in DOMAIN u
                   PROVE  /\ u[i] \in unsaved'[c]
                          /\ u[i].seen = IF i = 1 THEN At(revision) ELSE After(u[i - 1])
        BY <1>3, <3>3 DEF Chained, u
      <4>1. CASE i \in DOMAIN t
        <5>1. /\ t[i] \in unsaved[c]
              /\ t[i].seen = IF i = 1 THEN At(revision) ELSE After(t[i - 1])
          BY <2>1, <4>1 DEF Chained, t
        <5>2. i # 1 => i - 1 \in DOMAIN t
          BY <1>5, <4>1
        <5>3. i # 1 => u[i - 1] = t[i - 1]
          BY <1>5, <5>2
        <5> QED
          BY <1>2, <1>5, <4>1, <5>1, <5>3
      <4>2. CASE i = Len(t) + 1
        <5>1. u[i] = w /\ w \in unsaved'[c]
          BY <1>2, <1>5, <4>2
        <5>2. CASE t = <<>>
          <6>1. i = 1
            BY <1>5, <4>2, <5>2
          <6> QED
            BY <2>3, <3>2, <5>1, <5>2, <6>1 DEF Expected, t
        <5>3. CASE t # <<>>
          <6>1. Len(t) \in DOMAIN t /\ i # 1 /\ i - 1 = Len(t)
            BY <1>5, <4>2, <5>3
          <6>2. u[i - 1] = t[Len(t)]
            BY <1>5, <6>1
          <6> QED
            BY <3>2, <5>1, <5>3, <6>1, <6>2 DEF Expected, t
        <5> QED
          BY <5>2, <5>3
      <4> QED
        BY <1>5, <4>1, <4>2
    <3>9. Answered(c)'
      <4> SUFFICES ASSUME NEW x \in unsaved'[c]
                   PROVE  /\ x.op = "reset" => x.version = ver'[c]
                          /\ \/ \E i \in DOMAIN u : u[i] = x
                             \/ \E i \in DOMAIN q : q[i].type = "saved" /\ q[i].version = x.version
        BY <1>3 DEF Answered, u, q
      <4>1. CASE x \in unsaved[c]
        <5>1. x.op # "reset"
          BY <1>4, <4>1
        <5>2. \/ \E i \in DOMAIN t : t[i] = x
              \/ \E i \in DOMAIN q : q[i].type = "saved" /\ q[i].version = x.version
          BY <2>1, <4>1 DEF Answered, t, q
        <5> QED
          BY <1>5, <5>1, <5>2
      <4>2. CASE x = w
        BY <1>2, <1>5, <4>2
      <4> QED
        BY <1>2, <4>1, <4>2
    <3>10. ResetDue(c)' \/ Showing(c)' = Expected(c, m)'
      <4>1. CASE op = "reset"
        <5>1. ~(Len(t) + 1 = 1 /\ stage'[c] = "stored")
          <6>1. stage[c] = "stored" => t # <<>>
            BY DEF Core, LockInv, Admitted, t
          <6> QED
            BY <1>3, <1>5, <6>1
        <5>2. w \in unsaved'[c] /\ w.op = "reset"
          BY <1>2, <4>1
        <5> QED
          BY <1>5, <5>1, <5>2 DEF ResetDue, u
      <4>2. CASE op # "reset"
        BY <1>2, <1>3, <1>4, <3>4, <4>2 DEF Showing, After
      <4> QED
        BY <4>1, <4>2
    <3>11. Keeps(c, m)'
      <4>1. \A a \in Path : a \notin Touched(w) => After(w)[a] = Expected(c, m)[a]
        BY <1>0, <1>2, <3>2, LeavesAlone DEF After
      <4>2. ASSUME NEW k \in 0..revision, NEW a \in Path, KeepsFrom(c, m, k, a)'
            PROVE  After(w)[a] = At(k)[a]
        <5>1. /\ rev[c] <= k /\ k <= m
              /\ \A r \in 1..revision : k < r /\ r <= m => a \notin Touched(log[r].write)
              /\ \A i \in DOMAIN u : a \notin Touched(u[i])
          BY <1>3, <4>2 DEF KeepsFrom, u
        <5>2. a \notin Touched(w) /\ \A i \in DOMAIN t : a \notin Touched(t[i])
          BY <1>5, <5>1
        <5>3. KeepsFrom(c, m, k, a)
          BY <5>1, <5>2 DEF KeepsFrom, t
        <5> QED
          BY <2>1, <4>1, <5>2, <5>3 DEF Keeps
      <4>3. ASSUME NEW i \in DOMAIN u, NEW a \in Path,
                   \A j \in DOMAIN u : i < j => a \notin Touched(u[j])
            PROVE  After(w)[a] = After(u[i])[a]
        <5>1. CASE i = Len(t) + 1
          BY <1>5, <5>1
        <5>2. CASE i \in DOMAIN t
          <6>1. a \notin Touched(w) /\ \A j \in DOMAIN t : i < j => a \notin Touched(t[j])
            BY <1>5, <4>3, <5>2
          <6>2. Expected(c, m)[a] = After(t[i])[a]
            BY <2>1, <5>2, <6>1 DEF Keeps, t
          <6> QED
            BY <1>5, <4>1, <5>2, <6>1, <6>2
        <5> QED
          BY <1>5, <5>1, <5>2
      <4> QED
        BY <1>3, <3>3, <3>4, <4>2, <4>3 DEF Keeps, u
    <3>12. FollowsTo(c, m)'
      BY <1>3, <2>1, <2>3, <3>5, <3>6, <3>7, <3>8, <3>9, <3>10, <3>11 DEF FollowsTo
    <3> QED
      BY <1>3, <3>12 DEF Synced, Follows
  <2> QED
    BY <2>2, <2>3
<1> QED
  BY <1>7, <1>8, <1>9, <1>10 DEF Synced, Follows

-----------------------------------------------------------------------------
(* And after it has handled an event.                                      *)

\* An acknowledgement of the client's own write is newer than what it has heard,
\* and than what it is told before.
LEMMA AckAhead ==
  ASSUME Core, ToldInv, NEW c \in Client, NEW i \in DOMAIN toClient[c],
         toClient[c][i].type = "ack", Own(c, toClient[c][i].revision)
  PROVE  /\ rev[c] # None => rev[c] < toClient[c][i].revision
         /\ \A j \in DOMAIN toClient[c] :
              j < i /\ Dated(toClient[c][j]) =>
                toClient[c][j].revision < toClient[c][i].revision
<1>1. Tells(toClient[c], i, rev[c], c, Storing(c), log)
  BY DEF ToldInv
<1>2. By(log, c, toClient[c][i].revision)
  BY LogAndLen
<1> QED
  BY <1>1, <1>2 DEF Tells

\* What a client has not heard, its own writes aside, it is told in order.
LEMMA NothingUnsaved ==
  ASSUME Core, ToldInv, NEW c \in Client, NEW m \in 0..revision, FollowsTo(c, m),
         toServer[c] = <<>>, rev[c] = m,
         toClient[c] # <<>> => Head(toClient[c]).type # "saved"
  PROVE  unsaved[c] = {}
<1> DEFINE q == toClient[c]
<1>0. q \in Seq(Event) /\ DOMAIN toServer[c] = {} /\ m \in Nat /\ revision \in Nat
  BY DEF Core, TypeOK
<1> SUFFICES ASSUME NEW w \in unsaved[c] PROVE FALSE
  OBVIOUS
<1>1. PICK i \in DOMAIN q : q[i].type = "saved" /\ q[i].version = w.version
  BY <1>0 DEF FollowsTo, Answered
<1>2. q # <<>> /\ i # 1
  <2>1. q # <<>>
    BY <1>0, <1>1, EmptyQueue
  <2> QED
    BY <1>0, <1>1, <2>1, EmptyQueue
<1>3. Tells(q, i, rev[c], c, Storing(c), log)
  BY <1>1 DEF ToldInv
<1>4. PICK r \in 1..Len(log) : /\ By(log, c, r)
                               /\ i - 1 \in DOMAIN q /\ IsAck(q[i - 1], log, c, r)
  BY <1>1, <1>2, <1>3 DEF Tells
<1>5. Own(c, r) /\ r \in 1..revision
  BY <1>4, LogAndLen
<1>6. q[i - 1].type = "ack" /\ q[i - 1].revision = r
  BY <1>4 DEF IsAck
<1>7. m < r
  BY <1>0, <1>4, <1>5, <1>6, AckAhead, NoneAssumption
<1> QED
  BY <1>5, <1>7 DEF FollowsTo, Coming

\* A client that is told of a revision it does not show has written nothing.
LEMMA NewRevision ==
  ASSUME Core, ToldInv, NEW c \in Client, NEW m \in 0..revision, FollowsTo(c, m),
         toClient[c] # <<>>, Head(toClient[c]).type \in {"changed", "project"},
         Head(toClient[c]).revision > m
  PROVE  /\ toServer[c] = <<>> /\ rev[c] = m /\ unsaved[c] = {}
         /\ Head(toClient[c]).revision \in 1..revision
<1> DEFINE q == toClient[c]
           e == Head(toClient[c])
<1>0. /\ q \in Seq(Event) /\ m \in Nat /\ revision \in Nat /\ rev[c] \in Nat
      /\ 1 \in DOMAIN q /\ e = q[1] /\ \A i \in DOMAIN q : i \in Nat /\ i >= 1
  <2>1. q \in Seq(Event) /\ m \in Nat /\ revision \in Nat /\ rev[c] \in Nat
    BY DEF Core, TypeOK, FollowsTo, Heard
  <2> QED
    BY <2>1, TailParts
<1>1. e.revision \in Nat /\ e.revision <= revision /\ Dated(e)
  BY <1>0, ToldBy DEF Dated
<1> HIDE DEF e, q
<1>2. toServer[c] = <<>>
  BY <1>0, <1>1 DEF FollowsTo, e
<1>3. rev[c] = m
  <2> SUFFICES ASSUME rev[c] # m PROVE FALSE
    OBVIOUS
  <2>1. rev[c] < m /\ m \in 1..revision
    BY <1>0 DEF FollowsTo
  <2>2. PICK i \in DOMAIN q : IsAck(q[i], log, c, m)
    BY <1>0, <2>1 DEF FollowsTo, Unheard, q
  <2>3. q[i].type = "ack" /\ q[i].revision = m /\ Own(c, m)
    BY <2>2, LogAndLen DEF IsAck
  <2>4. i # 1 /\ 1 < i
    BY <1>0, <2>3 DEF e
  <2>5. e.revision < m
    BY <1>0, <1>1, <2>3, <2>4, AckAhead DEF q
  <2> QED
    BY <1>0, <1>1, <2>5 DEF e
<1>4. unsaved[c] = {}
  BY <1>2, <1>3, NothingUnsaved
<1>5. e.revision \in 1..revision
  BY <1>0, <1>1 DEF e
<1> QED
  BY <1>2, <1>3, <1>4, <1>5 DEF e

\* A client that is joining handles what it was sent.
LEMMA SyncJoining ==
  ASSUME Core, Core', ToldInv, NEW c \in Client, Hear(c), Joining(c)
  PROVE  Synced(c)'
<1> DEFINE q == toClient[c]
           n == toClient'[c]
           h == Head(toClient[c])
<1>0. /\ q \in Seq(Event) /\ q # <<>> /\ n = Tail(q) /\ TypeOK /\ revision \in Nat
      /\ UNCHANGED <<revision, log, conn, chan, toServer>>
      /\ h \in Event
  BY HearTakes, Given, Queues DEF Core, TypeOK, store, server
<1>1. /\ h = q[1] /\ 1 \in DOMAIN q
      /\ \A j \in DOMAIN n : j \in Nat /\ j >= 1 /\ j + 1 \in DOMAIN q /\ n[j] = q[j + 1]
      /\ \A j \in DOMAIN q : j \in Nat /\ j >= 1
  BY <1>0, TailParts
<1>2. \A j \in DOMAIN q : j # 1 => j - 1 \in DOMAIN n /\ n[j - 1] = q[j]
  BY <1>0, TailShift
<1>3. h.type \in {"ack", "project"} => h.revision \in 0..revision
  <2>1. h.type \in {"ack", "project"} => h.revision \in Nat /\ h.revision <= revision
    BY <1>1, ToldBy DEF Dated
  <2> QED
    BY <1>0, <2>1
<1> HIDE DEF q, n, h
<1>4. /\ conn[c] = "joined" /\ toServer[c] = <<>> /\ unsaved[c] = {} /\ remote[c] = Nothing
  BY DEF Joining
<1>5. PICK i \in DOMAIN q :
         /\ q[i].type = "project"
         /\ \/ i = 1 /\ rev[c] = q[i].revision
            \/ /\ i = 2 /\ rev[c] = None
               /\ q[1].type = "ack" /\ q[1].revision = q[i].revision
         /\ \A j \in DOMAIN q : j > i /\ q[j].type = "ack" => Own(c, q[j].revision)
         /\ \A r \in 1..revision : r > q[i].revision => ~Own(c, r) /\ Due(c, r)
  BY DEF Joining, q
<1>6. \A r : Own(c, r)' <=> Own(c, r)
  BY <1>0, Unwritten
<1>7. CASE i = 2
  <2>1. h.type = "ack" /\ rev[c] = None /\ h.revision = q[2].revision
    BY <1>1, <1>5, <1>7
  <2>2. HearRevision(c)
    BY <2>1 DEF Hear, HearStale, HearRevision, HearChanged, HearProject, HearFiles,
       HearSaved, Stale, h
  <2>3. rev'[c] = h.revision /\ unsaved' = unsaved /\ remote' = remote
    BY <1>0, <2>2 DEF HearRevision, h, made, TypeOK
  <2>4. 1 \in DOMAIN n /\ n[1] = q[2]
    <3>1. 2 \in DOMAIN q /\ 2 - 1 = 1
      BY <1>5, <1>7
    <3> QED
      BY <1>2, <3>1
  <2>5. \A j \in DOMAIN n : j > 1 /\ n[j].type = "ack" => Own(c, n[j].revision)
    <3> SUFFICES ASSUME NEW j \in DOMAIN n, j > 1, n[j].type = "ack"
                 PROVE  Own(c, n[j].revision)
      OBVIOUS
    <3>1. j + 1 \in DOMAIN q /\ j + 1 > 2 /\ n[j] = q[j + 1]
      BY <1>1
    <3> QED
      BY <1>5, <1>7, <3>1
  <2>6. \A r \in 1..revision : r > n[1].revision => ~Own(c, r) /\ Due(c, r)'
    <3> SUFFICES ASSUME NEW r \in 1..revision, r > n[1].revision
                 PROVE  ~Own(c, r) /\ Due(c, r)'
      OBVIOUS
    <3>1. ~Own(c, r) /\ DueIn(q, chan[c], c, r)
      BY <1>5, <1>7, <2>4 DEF Due, q
    <3>2. ~Brings(Head(q), r)
      BY <2>1 DEF Brings, h, q
    <3>3. DueIn(n, chan[c], c, r)
      BY <1>0, <3>1, <3>2, DueTail
    <3> QED
      BY <1>0, <3>1, <3>3 DEF Due, n
  <2>7. n[1].type = "project" /\ rev'[c] = n[1].revision
    BY <1>5, <1>7, <2>1, <2>3, <2>4
  <2>8. Joining(c)'
    <3>1. conn'[c] = "joined" /\ toServer'[c] = <<>> /\ unsaved'[c] = {} /\ remote'[c] = Nothing
      BY <1>0, <1>4, <2>3
    <3>2. \E k \in DOMAIN toClient'[c] :
       LET e == toClient'[c][k] IN
       /\ e.type = "project"
       /\ \/ k = 1 /\ rev'[c] = e.revision
          \/ /\ k = 2 /\ rev'[c] = None
             /\ toClient'[c][1].type = "ack" /\ toClient'[c][1].revision = e.revision
       /\ \A j \in DOMAIN toClient'[c] :
            j > k /\ toClient'[c][j].type = "ack" => Own(c, toClient[c][j].revision)'
       /\ \A r \in 1..revision' : r > e.revision => ~Own(c, r)' /\ Due(c, r)'
      <4>1. \A j \in DOMAIN n : j > 1 /\ n[j].type = "ack" => Own(c, toClient[c][j].revision)'
        BY <1>0, <2>5 DEF Own, n
      <4>2. \A r \in 1..revision' : r > n[1].revision => ~Own(c, r)' /\ Due(c, r)'
        BY <1>0, <1>6, <2>6
      <4> QED
        BY <2>4, <2>7, <4>1, <4>2 DEF n
    <3> QED
      BY <3>1, <3>2 DEF Joining
  <2> QED
    BY <2>8 DEF Synced
<1>8. CASE i = 1
  <2>1. h.type = "project" /\ rev[c] = h.revision
    BY <1>1, <1>5, <1>8
  <2>2. HearProject(c)
    <3>1. ~Stale(c, h)
      BY <1>3, <2>1 DEF Stale
    <3> QED
      BY <2>1, <3>1 DEF Hear, HearStale, HearRevision, HearChanged, HearProject,
         HearFiles, HearSaved, h
  <2>3. /\ rev'[c] = h.revision /\ unsaved' = unsaved /\ remote' = remote
        /\ screen'[c] = [p \in Path |-> IF p \in {} THEN screen[c][p] ELSE h.files[p]]
    <3>1. UNION {Named(w) : w \in unsaved[c]} = {}
      BY <1>4
    <3> QED
      BY <1>0, <2>2, <3>1 DEF HearProject, h, made, TypeOK
  <2>4. PICK m \in 0..revision : m = h.revision
    BY <1>3, <2>1
  <2>5. h.files = At(m) /\ h.files \in Files
    <3>1. Tells(q, 1, rev[c], c, Storing(c), log)
      BY <1>1 DEF ToldInv, q
    <3>2. h.files = FilesAt(log, h.revision)
      BY <1>1, <2>1, <3>1 DEF Tells
    <3> QED
      BY <1>0, <2>1, <2>4, <3>2, EventParts, LogAndLen
  <2>6. Showing(c)' = At(m)
    BY <1>4, <2>3, <2>5 DEF Showing, Files
  <2>7. /\ \A j \in DOMAIN q : j # 1 /\ q[j].type = "ack" => Own(c, q[j].revision)
        /\ \A r \in 1..revision : m < r => ~Own(c, r) /\ Due(c, r) /\ ~Brings(h, r)
    <3>1. \A j \in DOMAIN q : j # 1 => j > i
      BY <1>1, <1>8
    <3>2. \A r \in 1..revision : m < r => ~Brings(h, r)
      BY <2>1, <2>4 DEF Brings
    <3>3. \A r \in 1..revision : m < r => r > q[i].revision
      BY <1>1, <1>8, <2>4
    <3> QED
      BY <1>5, <3>1, <3>2, <3>3
  <2>8. FollowsTo(c, m)'
    BY <1>0, <1>4, <2>3, <2>4, <2>6, <2>7, FollowsOn DEF q, n, h
  <2> QED
    BY <1>0, <2>8 DEF Synced, Follows
<1> QED
  BY <1>5, <1>7, <1>8

\* What a reset brings is due until it is heard.
LEMMA ResetStaysDue ==
  ASSUME Core, NEW c \in Client, Hear(c),
         NEW x \in unsaved'[c], x.op = "reset",
         \/ \E i \in DOMAIN toServer[c] : toServer[c][i] = x /\ ~(i = 1 /\ stage[c] = "stored")
         \/ \E i \in DOMAIN toClient[c] : IsFiles(toClient[c][i], x.version),
         ~IsFiles(Head(toClient[c]), x.version)
  PROVE  ResetDue(c)'
<1> DEFINE q == toClient[c]
           n == toClient'[c]
<1>0. /\ q \in Seq(Event) /\ q # <<>> /\ n = Tail(q) /\ UNCHANGED <<toServer, stage>>
  BY HearTakes DEF server
<1>1. CASE \E i \in DOMAIN toServer[c] : toServer[c][i] = x /\ ~(i = 1 /\ stage[c] = "stored")
  BY <1>0, <1>1 DEF ResetDue
<1>2. CASE \E i \in DOMAIN q : IsFiles(q[i], x.version)
  <2>1. PICK i \in DOMAIN q : IsFiles(q[i], x.version)
    BY <1>2
  <2>2. i # 1
    BY <1>0, <2>1, TailParts
  <2>3. i - 1 \in DOMAIN n /\ n[i - 1] = q[i]
    BY <1>0, <2>2, TailShift
  <2> HIDE DEF n, q
  <2>4. \E j \in DOMAIN n : IsFiles(n[j], x.version)
    BY <2>1, <2>3
  <2> QED
    BY <2>4 DEF ResetDue, n
<1> QED
  BY <1>1, <1>2

\* What is so whenever a client that follows the workspace handles an event.
LEMMA HearFacts ==
  ASSUME Core, NEW c \in Client, Hear(c), NEW m \in 0..revision, FollowsTo(c, m)
  PROVE  /\ UNCHANGED <<revision, log, conn, toServer, ver, chan, stage, disk>>
         /\ toClient[c] # <<>> /\ toClient[c] \in Seq(Event)
         /\ toClient'[c] = Tail(toClient[c])
         /\ Head(toClient[c]) \in Event /\ Head(toClient[c]) = toClient[c][1]
         /\ 1 \in DOMAIN toClient[c]
         /\ \A i \in DOMAIN toClient[c] : i \in Nat /\ (i # 1 => 1 < i)
         /\ revision \in Nat /\ m \in Nat /\ rev[c] \in Nat /\ rev[c] <= m
         /\ conn[c] = "joined"
<1>1. /\ UNCHANGED <<revision, log, conn, toServer, ver, chan, stage, disk>>
      /\ toClient[c] # <<>> /\ toClient[c] \in Seq(Event)
      /\ toClient'[c] = Tail(toClient[c])
  BY HearTakes DEF store, server
<1>2. /\ Head(toClient[c]) = toClient[c][1] /\ toClient[c][1] \in Event
      /\ 1 \in DOMAIN toClient[c]
      /\ \A i \in DOMAIN toClient[c] : i \in Nat /\ i >= 1
  BY <1>1, TailParts
<1>3. \A i \in DOMAIN toClient[c] : i # 1 => 1 < i
  BY <1>2
<1>4. rev \in [Client -> Heard] /\ revision \in Nat
  BY DEF Core, TypeOK
<1>5. rev[c] # None /\ rev[c] <= m /\ conn[c] = "joined"
  BY DEF FollowsTo
<1> QED
  BY <1>1, <1>2, <1>3, <1>4, <1>5 DEF Heard

\* It handles an event that changes nothing it shows and saves nothing.
LEMMA FollowsPast ==
  ASSUME Core, Core', NEW c \in Client, Hear(c), NEW m \in 0..revision, FollowsTo(c, m),
         Head(toClient[c]).type \notin {"saved", "files"},
         Head(toClient[c]).type = "ack" => Head(toClient[c]).revision <= rev'[c],
         \A r \in 1..revision : m < r => ~Brings(Head(toClient[c]), r),
         unsaved'[c] = unsaved[c],
         rev'[c] \in Nat, rev[c] <= rev'[c], rev'[c] <= m,
         Showing(c)' = Showing(c) \/ Showing(c)' = Expected(c, m)
  PROVE  FollowsTo(c, m)'
<1>1. /\ UNCHANGED <<revision, log, conn, toServer, ver, chan>> /\ m \in Nat
      /\ toClient[c] # <<>> /\ toClient'[c] = Tail(toClient[c])
      /\ rev[c] \in Nat /\ revision \in Nat
  BY HearFacts
<1>2. ResetDue(c) => ResetDue(c)'
  <2>1. \A v : ~IsFiles(Head(toClient[c]), v)
    BY DEF IsFiles
  <2> SUFFICES ASSUME ResetDue(c) PROVE ResetDue(c)'
    OBVIOUS
  <2>2. PICK x \in unsaved[c] :
           /\ x.op = "reset"
           /\ \/ \E i \in DOMAIN toServer[c] : toServer[c][i] = x /\ ~(i = 1 /\ stage[c] = "stored")
              \/ \E i \in DOMAIN toClient[c] : IsFiles(toClient[c][i], x.version)
    BY DEF ResetDue
  <2> QED
    BY <2>1, <2>2, ResetStaysDue
<1>3. ResetDue(c)' \/ Showing(c)' = Expected(c, m)
  BY <1>2 DEF FollowsTo
<1>4. \A r \in 1..revision :
         Own(c, r) /\ rev'[c] < r /\ r <= m => log[r].write \in unsaved'[c]
  <2> SUFFICES ASSUME NEW r \in 1..revision, rev'[c] < r, r <= m
               PROVE  log[r].write \in unsaved[c]
    OBVIOUS
  <2>1. rev[c] < r
    BY <1>1
  <2> QED
    BY <2>1 DEF FollowsTo, Unheard
<1>5. \A i \in DOMAIN toServer[c] : toServer[c][i] \in unsaved'[c]
  BY DEF FollowsTo, Chained
<1> QED
  BY <1>1, <1>3, <1>4, <1>5, FollowsHeard

LEMMA HearStaleFollows ==
  ASSUME Core, Core', NEW c \in Client, HearStale(c),
         NEW m \in 0..revision, FollowsTo(c, m)
  PROVE  FollowsTo(c, m)'
<1> DEFINE e == Head(toClient[c])
<1>0. /\ toClient[c] # <<>> /\ rev[c] \in Nat /\ m \in Nat /\ e \in Event
      /\ rev[c] <= m
  BY Given DEF Core, TypeOK, FollowsTo, Heard, HearStale, NextEvent
<1> HIDE DEF e
<1>1. e.type = "changed" /\ e.revision < rev[c] /\ e.revision \in Nat
  <2>1. ~OfItsTime(e)
    BY <1>0, NotStale DEF HearStale, e
  <2> QED
    BY <1>0, <2>1, EventParts DEF HearStale, Stale, OfItsTime, e
<1>2. UNCHANGED <<rev, unsaved, screen, remote>>
  BY DEF HearStale, shown, made
<1>3. \A r \in 1..revision : m < r => ~Brings(e, r)
  BY <1>0, <1>1 DEF Brings, Core, TypeOK
<1>4. Showing(c)' = Showing(c)
  BY <1>2 DEF Showing
<1> QED
  BY <1>0, <1>1, <1>2, <1>3, <1>4, FollowsPast DEF Hear, e

LEMMA HearRevisionFollows ==
  ASSUME Core, Core', HistoryInv, ToldInv, NEW c \in Client, HearRevision(c), clean[c],
         NEW m \in 0..revision, FollowsTo(c, m)
  PROVE  FollowsTo(c, m)'
<1> DEFINE e == Head(toClient[c])
<1>0. /\ toClient[c] # <<>> /\ toClient[c] \in Seq(Event) /\ rev[c] \in Nat /\ m \in Nat
      /\ e \in Event /\ rev \in [Client -> Heard] /\ revision \in Nat
  BY Given DEF Core, TypeOK, FollowsTo, Heard, HearRevision, NextEvent
<1>1. 1 \in DOMAIN toClient[c] /\ e = toClient[c][1]
  BY <1>0, TailParts
<1> HIDE DEF e
<1>2. e.type = "ack" /\ e.revision \in Nat
  <2>1. e.type # "conflict"
    BY <1>1 DEF HistoryInv, CleanInv
  <2> QED
    BY <1>0, <2>1, EventParts DEF HearRevision, e
<1>3. Own(c, e.revision) /\ e.revision \in 1..revision
  BY <1>1, <1>2 DEF FollowsTo, Acked, Own
<1>4. rev[c] < e.revision
  BY <1>0, <1>1, <1>2, <1>3, AckAhead, NoneAssumption
<1>5. e.revision <= m
  BY <1>0, <1>3 DEF FollowsTo, Coming
<1>6. rev'[c] = e.revision /\ UNCHANGED <<unsaved, screen, remote>>
  BY <1>0 DEF HearRevision, e, made
<1>7. Showing(c)' = Showing(c)
  BY <1>6 DEF Showing
<1>8. \A r : ~Brings(e, r)
  BY <1>2 DEF Brings
<1> QED
  BY <1>0, <1>2, <1>4, <1>5, <1>6, <1>7, <1>8, FollowsPast DEF Hear, e

\* A peer's edit: one that the client's files have brought before, or the next
\* revision.
LEMMA HearChangedFollows ==
  ASSUME Core, Core', HistoryInv, ToldInv, NEW c \in Client, HearChanged(c), clean'[c],
         NEW m \in 0..revision, FollowsTo(c, m)
  PROVE  Follows(c)'
<1> DEFINE q == toClient[c]
           e == Head(toClient[c])
<1>0. /\ q # <<>> /\ rev[c] \in Nat /\ m \in Nat /\ rev[c] <= m
      /\ e \in Event /\ revision \in Nat /\ conn[c] = "joined" /\ Hear(c)
      /\ 1 \in DOMAIN q /\ e = q[1]
      /\ UNCHANGED <<revision, log, conn, toServer, ver, chan>> /\ toClient'[c] = Tail(q)
  BY HearFacts DEF Hear
<1>1. /\ rev \in [Client -> Heard] /\ clean \in [Client -> BOOLEAN] /\ screen[c] \in Files
      /\ remote \in [Client -> [path : Path, text : Text] \cup {Nothing}]
  BY DEF Core, TypeOK
<1> HIDE DEF e, q
<1>2. /\ e.type = "changed" /\ e.revision \in Nat /\ e.path \in Path /\ e.text \in Text
      /\ rev[c] <= e.revision
  <2>1. e.type = "changed" /\ ~Stale(c, e)
    BY DEF HearChanged, e
  <2>2. e.revision \in Nat /\ e.path \in Path /\ e.text \in Text
    BY <1>0, <2>1, EventParts
  <2> QED
    BY <1>0, <2>1, <2>2, NoneAssumption DEF Stale
<1>3. /\ remote'[c] = [path |-> e.path, text |-> e.text] /\ rev'[c] = e.revision
      /\ UNCHANGED <<screen, unsaved>>
      /\ remote[c] = Nothing
      /\ e.revision = rev[c] => screen[c][e.path] \in {e.text, Absent}
  BY <1>0, <1>1 DEF HearChanged, e, made
<1>4. remote'[c] # Nothing
  <2>1. remote'[c].text = e.text /\ Nothing.text = Absent
    BY <1>3 DEF Nothing
  <2> QED
    BY <1>2, <2>1, FileAssumption DEF Text
<1>5. Showing(c)' = [screen[c] EXCEPT ![e.path] = IF @ = Absent THEN Absent ELSE e.text]
  BY <1>3, <1>4 DEF Showing
<1>6. Showing(c) = screen[c]
  BY <1>3 DEF Showing
<1>7. IsEdit(e, log) /\ ~By(log, c, e.revision)
  <2>1. Tells(q, 1, rev[c], c, Storing(c), log)
    BY <1>0 DEF ToldInv, q
  <2> QED
    BY <1>0, <1>2, <2>1 DEF Tells
<1>8. e.revision \in 1..revision /\ ~Own(c, e.revision)
  BY <1>7, LogAndLen DEF IsEdit
<1>9. CASE e.revision <= m
  <2>1. e.revision = rev[c]
    <3>1. ~(rev[c] < e.revision)
      BY <1>8, <1>9 DEF FollowsTo, Unheard
    <3> QED
      BY <1>0, <1>2, <3>1
  <2>2. Showing(c)' = Showing(c)
    BY <1>1, <1>2, <1>3, <1>5, <1>6, <2>1 DEF Files
  <2>3. \A r \in 1..revision : m < r => ~Brings(e, r)
    BY <1>0, <1>2, <1>9 DEF Brings
  <2>4. FollowsTo(c, m)'
    BY <1>0, <1>2, <1>3, <1>9, <2>1, <2>2, <2>3, FollowsPast DEF e
  <2> QED
    BY <1>0, <2>4 DEF Follows
<1>10. CASE m < e.revision
  <2>1. toServer[c] = <<>> /\ rev[c] = m /\ unsaved[c] = {}
    BY <1>0, <1>2, <1>10, NewRevision DEF e, q
  <2>2. PICK r \in 1..revision : r = m + 1
    BY <1>0, <1>8, <1>10
  <2>3. e.revision = r
    <3>1. DueIn(q, chan[c], c, r)
      BY <1>0, <2>2 DEF FollowsTo, Coming, Due, q
    <3>2. e.revision > r => Newer(q[1], r) /\ ~Brings(q[1], r)
      BY <1>0, <1>2, <2>2 DEF Newer, Brings
    <3>3. ~(e.revision > r)
      BY <1>0, <3>1, <3>2, HearFacts DEF DueIn, q
    <3> QED
      BY <1>0, <1>2, <1>10, <2>2, <3>3
  <2>4. screen[c] = At(m)
    <3>1. ~ResetDue(c)
      BY <2>1 DEF ResetDue
    <3> QED
      BY <1>6, <2>1, <3>1 DEF FollowsTo, Expected
  <2>5. /\ log[r].files = Applied(log[r].write, At(m)) /\ Fits(log[r].write, At(m))
    <3>1. r - 1 = m
      BY <1>0, <2>2
    <3> QED
      BY <3>1 DEF HistoryInv, LogInv
  <2>6. /\ log[r].write.op = "update" /\ log[r].write.path = e.path
        /\ log[r].write.text = e.text
    BY <1>7, <2>3 DEF IsEdit
  <2>7. At(m)[e.path] # Absent /\ log[r].files = [At(m) EXCEPT ![e.path] = e.text]
    BY <2>5, <2>6 DEF Fits, Applied
  <2>8. At(r) = log[r].files
    BY <1>0, <2>2 DEF At
  <2>9. Showing(c)' = At(r)
    BY <1>5, <2>4, <2>7, <2>8
  <2>10. \A i \in DOMAIN q : i # 1 /\ q[i].type = "ack" => Own(c, q[i].revision)
    BY DEF FollowsTo, Acked, q
  <2>11. \A s \in 1..revision : r < s => ~Own(c, s) /\ Due(c, s) /\ ~Brings(e, s)
    <3> SUFFICES ASSUME NEW s \in 1..revision, r < s
                 PROVE  ~Own(c, s) /\ Due(c, s) /\ ~Brings(e, s)
      OBVIOUS
    <3>1. m < s /\ e.revision # s
      BY <1>0, <2>2, <2>3
    <3> QED
      BY <1>2, <3>1 DEF FollowsTo, Coming, Brings
  <2>12. /\ r \in 0..revision /\ rev'[c] = r /\ toServer'[c] = <<>> /\ unsaved'[c] = {}
         /\ conn'[c] = "joined"
    BY <1>0, <1>3, <2>1, <2>2, <2>3
  <2>13. FollowsTo(c, r)'
    BY <1>0, <2>1, <2>9, <2>10, <2>11, <2>12, FollowsOn DEF q, e
  <2> QED
    BY <1>0, <2>12, <2>13 DEF Follows
<1> QED
  BY <1>0, <1>2, <1>9, <1>10

\* The workspace's files: those of a later revision, or of the one the client has
\* heard, which its unsaved writes are kept over.
LEMMA HearProjectFollows ==
  ASSUME Core, Core', HistoryInv, ToldInv, ResetInv, NEW c \in Client, HearProject(c),
         clean'[c], NEW m \in 0..revision, FollowsTo(c, m)
  PROVE  Follows(c)'
<1> DEFINE q == toClient[c]
           e == Head(toClient[c])
           t == toServer[c]
           dirty == UNION {Named(w) : w \in unsaved[c]}
<1>0. /\ q # <<>> /\ rev[c] \in Nat /\ m \in Nat /\ rev[c] <= m
      /\ e \in Event /\ revision \in Nat /\ conn[c] = "joined" /\ Hear(c)
      /\ 1 \in DOMAIN q /\ e = q[1]
      /\ \A i \in DOMAIN q : i \in Nat /\ (i # 1 => 1 < i)
      /\ UNCHANGED <<revision, log, conn, toServer, ver, chan>> /\ toClient'[c] = Tail(q)
  BY HearFacts DEF Hear
<1>1. /\ rev \in [Client -> Heard] /\ clean \in [Client -> BOOLEAN] /\ screen[c] \in Files
      /\ screen \in [Client -> Files]
  BY DEF Core, TypeOK
<1>2. /\ rev'[c] = e.revision /\ UNCHANGED <<unsaved, remote>> /\ remote[c] = Nothing
      /\ screen'[c] = [p \in Path |-> IF p \in dirty THEN screen[c][p] ELSE e.files[p]]
      /\ e.type = "project" /\ ~Stale(c, e)
  BY <1>1 DEF HearProject, made
<1> HIDE DEF e, q, t
<1>3. /\ e.revision \in Nat /\ e.files \in Files /\ rev[c] <= e.revision
  <2>1. e.revision \in Nat /\ e.files \in Files
    BY <1>0, <1>2, EventParts
  <2> QED
    BY <1>0, <1>2, <2>1, NoneAssumption DEF Stale
<1>4. e.revision \in 0..revision /\ e.files = At(e.revision)
  <2>1. Tells(q, 1, rev[c], c, Storing(c), log)
    BY <1>0 DEF ToldInv, q
  <2>2. e.revision \in 0..Len(log) /\ e.files = FilesAt(log, e.revision)
    BY <1>0, <1>2, <2>1 DEF Tells
  <2> QED
    BY <2>2, LogAndLen
<1>5. Showing(c) = screen[c] /\ Showing(c)' = screen'[c]
  BY <1>2 DEF Showing
<1>6. CASE m < e.revision
  <2>1. toServer[c] = <<>> /\ unsaved[c] = {}
    BY <1>0, <1>2, <1>6, NewRevision DEF e, q
  <2>2. PICK r \in 0..revision : r = e.revision
    BY <1>4
  <2>3. Showing(c)' = At(r)
    <3>1. dirty = {}
      BY <2>1
    <3> QED
      BY <1>2, <1>3, <1>4, <1>5, <2>2, <3>1 DEF Files
  <2>4. \A i \in DOMAIN q : i # 1 /\ q[i].type = "ack" => Own(c, q[i].revision)
    BY DEF FollowsTo, Acked, q
  <2>5. \A s \in 1..revision : r < s => ~Own(c, s) /\ Due(c, s) /\ ~Brings(e, s)
    <3> SUFFICES ASSUME NEW s \in 1..revision, r < s
                 PROVE  ~Own(c, s) /\ Due(c, s) /\ ~Brings(e, s)
      OBVIOUS
    <3>1. m < s /\ ~(e.revision >= s)
      BY <1>0, <1>6, <2>2
    <3> QED
      BY <1>2, <3>1 DEF FollowsTo, Coming, Brings
  <2>6. FollowsTo(c, r)'
    BY <1>0, <1>2, <2>1, <2>2, <2>3, <2>4, <2>5, FollowsOn DEF q, e
  <2> QED
    BY <1>0, <2>6 DEF Follows
<1>7. CASE e.revision <= m
  <2>1. e.revision = rev[c]
    <3> SUFFICES ASSUME rev[c] < e.revision PROVE FALSE
      BY <1>0, <1>3
    <3>1. e.revision \in 1..revision
      BY <1>0, <1>4
    <3>2. PICK i \in DOMAIN q : IsAck(q[i], log, c, e.revision)
      BY <1>7, <3>1 DEF FollowsTo, Unheard, q
    <3>3. q[i].type = "ack" /\ q[i].revision = e.revision /\ Own(c, e.revision)
      BY <3>2, LogAndLen DEF IsAck
    <3>4. 1 < i /\ Dated(e)
      BY <1>0, <1>2, <3>3 DEF Dated
    <3>5. e.revision < e.revision
      BY <1>0, <3>3, <3>4, AckAhead DEF q
    <3> QED
      BY <1>3, <3>5
  <2>2. \A r \in 1..revision : m < r => ~Brings(e, r)
    BY <1>0, <1>2, <1>3, <1>7 DEF Brings
  <2>3. CASE ResetDue(c)
    <3>1. ResetDue(c)'
      <4>1. PICK x \in unsaved[c] :
           /\ x.op = "reset"
           /\ \/ \E i \in DOMAIN toServer[c] : toServer[c][i] = x /\ ~(i = 1 /\ stage[c] = "stored")
              \/ \E i \in DOMAIN toClient[c] : IsFiles(toClient[c][i], x.version)
        BY <2>3 DEF ResetDue
      <4>2. ~IsFiles(e, x.version)
        BY <1>2 DEF IsFiles
      <4> QED
        BY <1>0, <1>2, <4>1, <4>2, ResetStaysDue DEF e
    <3>2. \A r \in 1..revision :
            Own(c, r) /\ rev'[c] < r /\ r <= m => log[r].write \in unsaved'[c]
      BY <1>2, <2>1 DEF FollowsTo, Unheard
    <3>3. \A i \in DOMAIN toServer[c] : toServer[c][i] \in unsaved'[c]
      BY <1>2 DEF FollowsTo, Chained
    <3>4. /\ rev'[c] \in Nat /\ rev[c] <= rev'[c] /\ rev'[c] <= m
          /\ unsaved'[c] \subseteq unsaved[c]
      BY <1>0, <1>2, <2>1
    <3>5. FollowsTo(c, m)'
      BY <1>0, <1>2, <2>2, <3>1, <3>2, <3>3, <3>4, FollowsHeard DEF e, q
    <3> QED
      BY <1>0, <3>5 DEF Follows
  <2>4. CASE ~ResetDue(c)
    <3>1. screen[c] = Expected(c, m)
      BY <1>5, <2>4 DEF FollowsTo
    <3>2. Precedes(q, 1, c, Resetting(c), log)
      BY <1>0 DEF ResetInv, q
    <3>3. \A r \in 1..revision : rev[c] < r /\ r <= m =>
            log[r].write \in unsaved[c] /\ log[r].write.op # "reset"
      <4> SUFFICES ASSUME NEW r \in 1..revision, rev[c] < r, r <= m
                   PROVE  log[r].write \in unsaved[c] /\ log[r].write.op # "reset"
        OBVIOUS
      <4>1. log[r].write \in unsaved[c]
        BY DEF FollowsTo, Unheard
      <4>2. PICK i \in DOMAIN q : IsAck(q[i], log, c, r)
        BY DEF FollowsTo, Unheard, q
      <4>3. 1 < i
        BY <1>0, <1>2, <4>2 DEF IsAck
      <4>4. ASSUME log[r].write.op = "reset" PROVE FALSE
        <5>1. r \in 1..Len(log)
          BY LogAndLen
        <5>2. PICK k \in DOMAIN q : IsFiles(q[k], log[r].write.version)
          BY <1>0, <1>2, <3>2, <4>2, <4>3, <4>4, <5>1 DEF Precedes
        <5> QED
          BY <2>4, <4>1, <4>4, <5>2 DEF ResetDue, q
      <4> QED
        BY <4>1, <4>4
    <3>4. \A i \in DOMAIN t : t[i] \in unsaved[c] /\ t[i].op # "reset"
      <4> SUFFICES ASSUME NEW i \in DOMAIN t PROVE t[i] \in unsaved[c] /\ t[i].op # "reset"
        OBVIOUS
      <4>1. t[i] \in unsaved[c]
        BY DEF FollowsTo, Chained, t
      <4>2. ASSUME t[i].op = "reset" PROVE FALSE
        <5>1. i = 1 /\ stage[c] = "stored"
          BY <2>4, <4>1, <4>2 DEF ResetDue, t
        <5>2. Head(t) = t[i]
          <6>1. t \in Seq(Write) /\ t # <<>>
            BY EmptyQueue DEF Core, TypeOK, t
          <6> QED
            BY <5>1, <6>1, EmptyQueue
        <5>3. t[i].version \in Resetting(c)
          BY <4>2, <5>1, <5>2 DEF Resetting, t
        <5>4. PICK k \in DOMAIN q : IsFiles(q[k], t[i].version)
          BY <1>0, <1>2, <3>2, <5>3 DEF Precedes
        <5> QED
          BY <2>4, <4>1, <4>2, <5>4 DEF ResetDue, q
      <4> QED
        BY <4>1, <4>2
    <3>5. \A p \in Path : p \notin dirty => At(rev[c])[p] = Expected(c, m)[p]
      <4> SUFFICES ASSUME NEW p \in Path, p \notin dirty
                   PROVE  At(rev[c])[p] = Expected(c, m)[p]
        OBVIOUS
      <4>1. \A w \in unsaved[c] : w.op # "reset" => p \notin Touched(w)
        BY DEF Touched
      <4>2. KeepsFrom(c, m, rev[c], p)
        BY <1>0, <3>3, <3>4, <4>1 DEF KeepsFrom, t
      <4>3. rev[c] \in 0..revision
        BY <1>0
      <4> QED
        BY <4>2, <4>3 DEF FollowsTo, Keeps
    <3>6. screen'[c] = screen[c]
      BY <1>1, <1>2, <1>4, <2>1, <3>1, <3>5 DEF Files
    <3>7. rev'[c] \in Nat /\ rev[c] <= rev'[c] /\ rev'[c] <= m
      BY <1>0, <1>2, <2>1
    <3>8. Showing(c)' = Showing(c) /\ unsaved'[c] = unsaved[c]
      BY <1>2, <1>5, <3>6
    <3>9. e.type \notin {"saved", "files", "ack"}
      BY <1>2
    <3>10. FollowsTo(c, m)'
      BY <1>0, <2>2, <3>7, <3>8, <3>9, FollowsPast DEF e
    <3> QED
      BY <1>0, <3>10 DEF Follows
  <2> QED
    BY <2>3, <2>4
<1> QED
  BY <1>0, <1>3, <1>6, <1>7

\* The answer to its own file operation, when it has written nothing since.
LEMMA HearFilesFollows ==
  ASSUME Core, Core', HistoryInv, ToldInv, NEW c \in Client, HearFiles(c),
         clean'[c], NEW m \in 0..revision, FollowsTo(c, m)
  PROVE  FollowsTo(c, m)'
<1> DEFINE q == toClient[c]
           e == Head(toClient[c])
           t == toServer[c]
<1>0. /\ q # <<>> /\ rev[c] \in Nat /\ m \in Nat /\ rev[c] <= m
      /\ revision \in Nat /\ conn[c] = "joined" /\ Hear(c)
      /\ 1 \in DOMAIN q /\ e = q[1]
      /\ \A i \in DOMAIN q : i \in Nat /\ (i # 1 => 1 < i)
      /\ UNCHANGED <<revision, log, conn, toServer, ver, chan>> /\ toClient'[c] = Tail(q)
  BY HearFacts DEF Hear
<1>1. /\ clean \in [Client -> BOOLEAN] /\ screen \in [Client -> Files]
      /\ t \in Seq(Write) /\ ver[c] \in Nat
  BY DEF Core, TypeOK
<1>2. /\ e.type = "files" /\ UNCHANGED <<rev, unsaved, remote>> /\ remote[c] = Nothing
      /\ e.version = ver[c] => screen'[c] = e.files
      /\ e.version # ver[c] => screen'[c] = screen[c]
  BY <1>1 DEF HearFiles, made
<1> HIDE DEF e, q, t
<1>3. Showing(c) = screen[c] /\ Showing(c)' = screen'[c]
  BY <1>2 DEF Showing
<1>4. /\ \A i \in DOMAIN t : t[i] \in unsaved[c]
      /\ \A i \in DOMAIN t : i # 1 => t[i].seen = After(t[i - 1])
      /\ t # <<>> => m = revision /\ t[1].seen = At(revision)
  <2>1. /\ \A i \in DOMAIN t : t[i] \in unsaved[c]
        /\ \A i \in DOMAIN t : t[i].seen = IF i = 1 THEN At(revision) ELSE After(t[i - 1])
    BY DEF FollowsTo, Chained, t
  <2>2. t # <<>> => m = revision /\ 1 \in DOMAIN t
    BY <1>1, EmptyQueue DEF FollowsTo, t
  <2> QED
    BY <2>1, <2>2
<1>5. ASSUME e.version # ver[c]
      PROVE  ResetDue(c)' \/ Showing(c)' = Expected(c, m)
  <2>1. ASSUME ResetDue(c) PROVE ResetDue(c)'
    <3>1. PICK x \in unsaved[c] :
           /\ x.op = "reset"
           /\ \/ \E i \in DOMAIN toServer[c] : toServer[c][i] = x /\ ~(i = 1 /\ stage[c] = "stored")
              \/ \E i \in DOMAIN toClient[c] : IsFiles(toClient[c][i], x.version)
      BY <2>1 DEF ResetDue
    <3>2. x.version = ver[c]
      BY <3>1 DEF FollowsTo, Answered
    <3>3. ~IsFiles(e, x.version)
      BY <1>5, <3>2 DEF IsFiles
    <3> QED
      BY <1>0, <1>2, <3>1, <3>3, ResetStaysDue DEF e
  <2>2. ResetDue(c) \/ Showing(c) = Expected(c, m)
    BY DEF FollowsTo
  <2> QED
    BY <1>2, <1>3, <1>5, <2>1, <2>2
<1>6. ASSUME e.version = ver[c]
      PROVE  ResetDue(c)' \/ Showing(c)' = Expected(c, m)
  <2>1. Tells(q, 1, rev[c], c, Storing(c), log)
    BY <1>0 DEF ToldInv, q
  <2>2. \/ \E x \in Storing(c) : x.version = e.version /\ x.files = e.files
        \/ \E j \in DOMAIN q, r \in 1..Len(log) :
             /\ 1 < j /\ IsAck(q[j], log, c, r)
             /\ log[r].write.version = e.version /\ e.files = log[r].files
    BY <1>0, <1>2, <2>1 DEF Tells
  <2>3. \A i \in DOMAIN t :
          /\ t[i].version <= ver[c]
          /\ \A j \in DOMAIN t : i < j => t[i].version < t[j].version
          /\ \A r \in 1..revision : Own(c, r) => log[r].write.version < t[i].version
    BY DEF HistoryInv, VersionInv, t
  <2>4. \A i \in DOMAIN t : t[i].version \in Nat
    BY <1>1, WriteParts
  <2>5. CASE \E x \in Storing(c) : x.version = e.version /\ x.files = e.files
    <3>1. stage[c] = "stored" /\ Head(t).version = ver[c] /\ e.files = disk
      BY <1>6, <2>5 DEF Storing, t
    <3>2. t # <<>>
      BY <3>1 DEF Core, LockInv, Admitted, t
    <3>3. Head(t) = t[1] /\ 1 \in DOMAIN t /\ DOMAIN t = 1..Len(t) /\ Len(t) \in Nat
      BY <1>1, <3>2, EmptyQueue
    <3>4. Len(t) = 1
      <4>1. Len(t) \in DOMAIN t /\ (Len(t) # 1 => 1 < Len(t))
        BY <3>3
      <4>2. Len(t) # 1 => t[1].version < t[Len(t)].version /\ t[Len(t)].version <= ver[c]
        BY <2>3, <3>3, <4>1
      <4> QED
        BY <1>1, <2>4, <3>1, <3>3, <4>1, <4>2
    <3>5. disk = Applied(Head(t), At(revision))
      BY <3>1 DEF HistoryInv, DiskInv, t
    <3>6. disk = After(t[1])
      BY <1>4, <3>2, <3>3, <3>5 DEF After
    <3>7. Expected(c, m) = After(t[1])
      BY <3>2, <3>4 DEF Expected, t
    <3> QED
      BY <1>2, <1>3, <1>6, <3>1, <3>6, <3>7
  <2>6. CASE \E j \in DOMAIN q, r \in 1..Len(log) :
             /\ 1 < j /\ IsAck(q[j], log, c, r)
             /\ log[r].write.version = e.version /\ e.files = log[r].files
    <3>1. PICK j \in DOMAIN q, r \in 1..Len(log) :
             /\ 1 < j /\ IsAck(q[j], log, c, r)
             /\ log[r].write.version = e.version /\ e.files = log[r].files
      BY <2>6
    <3>2. /\ r \in 1..revision /\ Own(c, r) /\ q[j].type = "ack" /\ q[j].revision = r
      BY <3>1, LogAndLen DEF IsAck
    <3>3. rev[c] < r
      BY <1>0, <3>2, AckAhead, NoneAssumption DEF q
    <3>4. r <= m
      BY <1>0, <3>2 DEF FollowsTo, Coming
    <3>5. t = <<>>
      <4>1. \A i \in DOMAIN t : FALSE
        BY <1>1, <1>6, <2>3, <2>4, <3>1, <3>2
      <4> QED
        BY <1>1, <4>1, EmptyQueue
    <3>6. r = m
      <4> SUFFICES ASSUME r < m PROVE FALSE
        BY <1>0, <3>2, <3>4
      <4>1. m \in 1..revision /\ rev[c] < m
        BY <1>0, <3>2, <3>3
      <4>2. Own(c, m)
        BY <1>0, <4>1 DEF FollowsTo, Unheard
      <4>3. /\ log[r].write.version < log[m].write.version
            /\ log[m].write.version <= ver[c]
        BY <3>2, <4>1, <4>2 DEF HistoryInv, VersionInv
      <4>4. log[m].write.version \in Nat
        BY <4>1, LogEntries, WriteParts
      <4> QED
        BY <1>1, <1>6, <3>1, <4>3, <4>4
    <3>7. Expected(c, m) = log[r].files
      BY <1>0, <3>2, <3>5, <3>6 DEF Expected, At, t
    <3> QED
      BY <1>2, <1>3, <1>6, <3>1, <3>7
  <2> QED
    BY <2>2, <2>5, <2>6
<1>7. ResetDue(c)' \/ Showing(c)' = Expected(c, m)
  BY <1>5, <1>6
<1>8. \A r \in 1..revision :
         Own(c, r) /\ rev'[c] < r /\ r <= m => log[r].write \in unsaved'[c]
  BY <1>2 DEF FollowsTo, Unheard
<1>9. \A i \in DOMAIN toServer[c] : toServer[c][i] \in unsaved'[c]
  BY <1>2, <1>4 DEF t
<1>10. rev'[c] \in Nat /\ rev[c] <= rev'[c] /\ rev'[c] <= m /\ unsaved'[c] \subseteq unsaved[c]
  BY <1>0, <1>2
<1>11. \A r : ~Brings(e, r)
  BY <1>2 DEF Brings
<1>12. e.type # "ack" /\ e.type # "saved"
  BY <1>2
<1> QED
  BY <1>0, <1>7, <1>8, <1>9, <1>10, <1>11, <1>12, FollowsHeard DEF e, q

\* Its oldest unsaved writes are saved.
LEMMA HearSavedFollows ==
  ASSUME Core, Core', HistoryInv, ToldInv, NEW c \in Client, HearSaved(c),
         NEW m \in 0..revision, FollowsTo(c, m)
  PROVE  FollowsTo(c, m)'
<1> DEFINE q == toClient[c]
           e == Head(toClient[c])
           t == toServer[c]
           saved == {w \in unsaved[c] : w.version = e.version}
           older(w) == \E s \in saved : /\ w.version < s.version /\ w.path = s.path
                                        /\ w.op = "update" /\ s.op = "update"
<1>0. /\ q # <<>> /\ rev[c] \in Nat /\ m \in Nat /\ rev[c] <= m
      /\ revision \in Nat /\ conn[c] = "joined" /\ Hear(c)
      /\ 1 \in DOMAIN q /\ e = q[1]
      /\ \A i \in DOMAIN q : i \in Nat /\ (i # 1 => 1 < i)
      /\ UNCHANGED <<revision, log, conn, toServer, ver, chan>> /\ toClient'[c] = Tail(q)
  BY HearFacts DEF Hear
<1>1. /\ unsaved \in [Client -> SUBSET Write] /\ t \in Seq(Write) /\ ver[c] \in Nat
  BY DEF Core, TypeOK
<1>2. /\ e.type = "saved" /\ UNCHANGED <<rev, screen, remote>>
      /\ unsaved'[c] = {w \in unsaved[c] : w \notin saved /\ ~older(w)}
  BY <1>1 DEF HearSaved, shown
<1>3. /\ \A w \in unsaved'[c] : w \in unsaved[c] /\ w.version # e.version
      /\ \A w \in unsaved[c] :
           /\ w.version > e.version => w \in unsaved'[c]
           /\ w.op # "update" /\ w.version # e.version => w \in unsaved'[c]
  <2>1. \A s \in saved : s.version = e.version
    OBVIOUS
  <2>2. \A w \in unsaved[c] : w.version > e.version => w.version # e.version /\ ~(w.version < e.version)
    <3> SUFFICES ASSUME NEW w \in unsaved[c], w.version > e.version
                 PROVE  w.version # e.version /\ ~(w.version < e.version)
      OBVIOUS
    <3>1. w.version \in Nat /\ e.version \in Nat
      <4>1. Tells(q, 1, rev[c], c, Storing(c), log)
        BY <1>0 DEF ToldInv
      <4>2. PICK r \in 1..Len(log) : log[r].write.version = e.version
        BY <1>0, <1>2, <4>1 DEF Tells
      <4>3. r \in 1..revision
        BY LogAndLen
      <4> QED
        BY <1>1, <4>2, <4>3, LogEntries, WriteParts
    <3> QED
      BY <3>1
  <2> QED
    BY <1>2, <2>1, <2>2
<1> HIDE DEF e, q, t, saved, older
<1>4. PICK r \in 1..revision :
         Own(c, r) /\ log[r].write.version = e.version /\ r <= rev[c]
  <2>1. Tells(q, 1, rev[c], c, Storing(c), log)
    BY <1>0 DEF ToldInv, q
  <2>2. PICK r \in 1..Len(log) :
          /\ By(log, c, r) /\ log[r].write.version = e.version
          /\ \/ r <= rev[c]
             \/ 1 - 1 \in DOMAIN q
    BY <1>0, <1>2, <2>1 DEF Tells
  <2>3. ~(1 - 1 \in DOMAIN q)
    BY <1>0
  <2> QED
    BY <2>2, <2>3, LogAndLen
<1>5. e.version \in Nat /\ \A w \in unsaved[c] : w.version \in Nat
  BY <1>1, <1>4, LogEntries, WriteParts
<1>6. \A i \in DOMAIN t :
        /\ t[i] \in unsaved[c] /\ t[i].version > e.version /\ t[i].version <= ver[c]
  <2> SUFFICES ASSUME NEW i \in DOMAIN t
               PROVE  /\ t[i] \in unsaved[c] /\ t[i].version > e.version
                      /\ t[i].version <= ver[c]
    OBVIOUS
  <2>1. t[i] \in unsaved[c]
    BY DEF FollowsTo, Chained, t
  <2>2. log[r].write.version < t[i].version /\ t[i].version <= ver[c]
    BY <1>4 DEF HistoryInv, VersionInv, t
  <2> QED
    BY <1>4, <1>5, <2>1, <2>2
<1>7. \A s \in 1..revision :
         Own(c, s) /\ rev'[c] < s /\ s <= m => log[s].write \in unsaved'[c]
  <2> SUFFICES ASSUME NEW s \in 1..revision, Own(c, s), rev[c] < s, s <= m
               PROVE  log[s].write \in unsaved'[c]
    BY <1>2
  <2>1. log[s].write \in unsaved[c]
    BY DEF FollowsTo, Unheard
  <2>2. r < s
    BY <1>0, <1>4
  <2>3. log[r].write.version < log[s].write.version
    BY <1>4, <2>2 DEF HistoryInv, VersionInv
  <2> QED
    BY <1>3, <1>4, <1>5, <2>1, <2>3
<1>8. \A i \in DOMAIN toServer[c] : toServer[c][i] \in unsaved'[c]
  BY <1>3, <1>6 DEF t
<1>9. ASSUME ResetDue(c) PROVE ResetDue(c)'
  <2>1. PICK x \in unsaved[c] :
           /\ x.op = "reset"
           /\ \/ \E i \in DOMAIN t : t[i] = x /\ ~(i = 1 /\ stage[c] = "stored")
              \/ \E i \in DOMAIN q : IsFiles(q[i], x.version)
    BY <1>9 DEF ResetDue, t, q
  <2>2. x.version = ver[c]
    BY <2>1 DEF FollowsTo, Answered
  <2>3. x.version # e.version
    <3> SUFFICES ASSUME e.version = ver[c] PROVE FALSE
      BY <2>2
    <3>1. DOMAIN t = {}
      BY <1>1, <1>5, <1>6
    <3>2. PICK k \in DOMAIN q : IsFiles(q[k], x.version)
      BY <2>1, <3>1
    <3>3. Tells(q, k, rev[c], c, Storing(c), log)
      BY <3>2 DEF ToldInv, q
    <3>4. \/ \E y \in Storing(c) : TRUE
          \/ \E j \in DOMAIN q, s \in 1..Len(log) :
               IsAck(q[j], log, c, s) /\ log[s].write.version = q[k].version
      BY <3>2, <3>3 DEF Tells, IsFiles
    <3>5. Storing(c) = {}
      <4>1. t = <<>>
        BY <1>1, <3>1, EmptyQueue
      <4>2. stage[c] # "stored"
        BY <4>1 DEF Core, LockInv, Admitted, t
      <4> QED
        BY <4>2 DEF Storing
    <3>6. PICK j \in DOMAIN q, s \in 1..Len(log) :
               IsAck(q[j], log, c, s) /\ log[s].write.version = e.version
      BY <2>2, <3>2, <3>4, <3>5 DEF IsFiles
    <3>7. s \in 1..revision /\ Own(c, s) /\ q[j].type = "ack" /\ q[j].revision = s
      BY <3>6, LogAndLen DEF IsAck
    <3>8. rev[c] < s
      BY <1>0, <3>7, AckAhead, NoneAssumption DEF q
    <3>9. r < s
      BY <1>0, <1>4, <3>7, <3>8
    <3>10. log[r].write.version < log[s].write.version
      BY <1>4, <3>7, <3>9 DEF HistoryInv, VersionInv
    <3> QED
      BY <1>4, <1>5, <3>6, <3>10
  <2>4. x \in unsaved'[c]
    BY <1>3, <2>1, <2>3
  <2>5. ~IsFiles(e, x.version)
    BY <1>2 DEF IsFiles
  <2> QED
    BY <1>0, <2>1, <2>4, <2>5, ResetStaysDue DEF e, q, t
<1>10. ResetDue(c)' \/ Showing(c)' = Expected(c, m)
  <2>1. Showing(c)' = Showing(c)
    BY <1>2 DEF Showing
  <2> QED
    BY <1>9, <2>1 DEF FollowsTo
<1>11. rev'[c] \in Nat /\ rev[c] <= rev'[c] /\ rev'[c] <= m /\ unsaved'[c] \subseteq unsaved[c]
  BY <1>0, <1>2, <1>3
<1>12. \A s : ~Brings(e, s)
  BY <1>2 DEF Brings
<1>13. e.type # "ack" /\ \A w \in unsaved'[c] : w.version # e.version
  BY <1>2, <1>3
<1> QED
  BY <1>0, <1>7, <1>8, <1>10, <1>11, <1>12, <1>13, FollowsHeard DEF e, q

LEMMA SyncHear ==
  ASSUME Core, Core', HistoryInv, ToldInv, ResetInv, NEW c \in Client, Hear(c),
         clean[c], clean'[c], Synced(c)
  PROVE  Synced(c)'
<1>1. /\ toClient[c] # <<>> /\ UNCHANGED <<toServer, revision>> /\ Step(c)
  BY HearTakes DEF store
<1>2. ~Apart(c)
  BY <1>1 DEF Apart, HistoryInv, JoinInv
<1>3. CASE Joining(c)
  BY <1>3, SyncJoining
<1>4. CASE Crossed(c)
  BY <1>1, <1>4, CrossedStays DEF Synced, Crossed
<1>5. CASE Follows(c)
  <2>1. PICK m \in 0..revision : FollowsTo(c, m)
    BY <1>5 DEF Follows
  <2>2. Follows(c)'
    <3>1. FollowsTo(c, m)' => Follows(c)'
      BY <1>1 DEF Follows
    <3> QED
      BY <2>1, <3>1, HearStaleFollows, HearRevisionFollows, HearChangedFollows,
         HearProjectFollows, HearFilesFollows, HearSavedFollows DEF Hear
  <2> QED
    BY <2>2 DEF Synced
<1> QED
  BY <1>2, <1>3, <1>4, <1>5 DEF Synced

LEMMA SyncStep ==
  ASSUME Core, Core', HistoryInv, ToldInv, ResetInv, SyncInv, NEW c \in Client, Step(c)
  PROVE  SyncInv'
<1> SUFFICES ASSUME NEW d \in Client, clean'[d] PROVE Synced(d)'
  BY DEF SyncInv
<1>1. clean[d] /\ Synced(d)
  BY CleanFalls DEF SyncInv
<1>2. CASE d # c
  BY <1>1, <1>2, SyncPeer
<1>3. CASE d = c
  <2>1. clean \in [Client -> BOOLEAN]
    BY DEF Core, TypeOK
  <2>2. ~Refuse(c) /\ ~StoreFails(c)
    BY <1>3, <2>1 DEF Refuse, StoreFails
  <2> QED
    BY <1>1, <1>3, <2>2, SyncConnect, SyncSent, SyncRecord, SyncMake, SyncHear, SyncShow
       DEF Handle
<1> QED
  BY <1>2, <1>3

-----------------------------------------------------------------------------
(* Theorems.                                                               *)

\* All of it; inductive together with the invariants of SharedWorkspaceProofs.
Convergence == HistoryInv /\ ToldInv /\ ChanInv /\ ResetInv /\ SyncInv

LEMMA ConvergenceInit ==
  ASSUME Init
  PROVE  Convergence
<1>1. revision = 0 /\ log = <<>> /\ 1..revision = {} /\ ~ \E c \in Client : Admitted(c)
  BY DEF Init, Admitted
<1>2. \A c \in Client :
        /\ DOMAIN toClient[c] = {} /\ DOMAIN toServer[c] = {} /\ DOMAIN chan[c] = {}
        /\ toClient[c] = <<>> /\ toServer[c] = <<>> /\ unsaved[c] = {}
        /\ remote[c] = Nothing /\ conn[c] = "away" /\ rev[c] = None /\ stage[c] = "idle"
        /\ ver[c] \in Nat
  BY DEF Init
<1>3. HistoryInv
  <2>1. DiskInv
    BY <1>1, <1>2 DEF DiskInv, At, Init
  <2>2. LogInv /\ VersionInv /\ JoinInv /\ CleanInv
    BY <1>1, <1>2 DEF LogInv, VersionInv, JoinInv, CleanInv
  <2> QED
    BY <2>1, <2>2 DEF HistoryInv
<1>4. ToldInv /\ ChanInv /\ ResetInv
  BY <1>2 DEF ToldInv, ChanInv, ResetInv
<1>5. SyncInv
  BY <1>2 DEF SyncInv, Synced, Apart
<1> QED
  BY <1>3, <1>4, <1>5 DEF Convergence

LEMMA ConvergenceStays ==
  ASSUME Convergence, UNCHANGED vars
  PROVE  Convergence'
<1>1. /\ UNCHANGED <<revision, log, lock, stage, disk, catalog, conn, chan>>
      /\ UNCHANGED <<toClient, toServer, screen, rev, ver, unsaved, remote, clean>>
  BY DEF vars, store, server, shown, made
<1>2. HistoryInv'
  BY <1>1 DEF Convergence, HistoryInv, DiskInv, LogInv, VersionInv, JoinInv, CleanInv, At, Own
<1>3. ToldInv' /\ ChanInv' /\ ResetInv'
  BY <1>1 DEF Convergence, ToldInv, ChanInv, ResetInv, Storing, Resetting
<1>4. SyncInv'
  <2> SUFFICES ASSUME NEW c \in Client, clean'[c] PROVE Synced(c)'
    BY DEF SyncInv
  <2>1. Synced(c)
    BY <1>1 DEF Convergence, SyncInv
  <2>2. /\ \A r : (Own(c, r)' <=> Own(c, r)) /\ At(r)' = At(r) /\ (Due(c, r)' <=> Due(c, r))
        /\ Showing(c)' = Showing(c) /\ (ResetDue(c)' <=> ResetDue(c))
        /\ \A m : Expected(c, m)' = Expected(c, m)
    BY <1>1 DEF Own, At, Due, Showing, ResetDue, Expected
  <2>3. Apart(c)' <=> Apart(c)
    BY <1>1 DEF Apart
  <2>4. Joining(c) => Joining(c)'
    BY <1>1, <2>2 DEF Joining, Own, Due
  <2>5. Crossed(c) => Crossed(c)'
    BY <1>1, <2>2 DEF Crossed, Own
  <2>6. Follows(c) => Follows(c)'
    <3> SUFFICES ASSUME NEW m \in 0..revision, FollowsTo(c, m) PROVE FollowsTo(c, m)'
      BY <1>1 DEF Follows
    <3>1. Acked(c)' /\ Unheard(c, m)' /\ Coming(c, m)'
      BY <1>1, <2>2 DEF FollowsTo, Acked, Unheard, Coming, Own, Due
    <3>2. Chained(c)' /\ Answered(c)'
      BY <1>1, <2>2 DEF FollowsTo, Chained, Answered, At
    <3>3. Keeps(c, m)'
      BY <1>1, <2>2 DEF FollowsTo, Keeps, KeepsFrom, At
    <3> QED
      BY <1>1, <2>2, <3>1, <3>2, <3>3 DEF FollowsTo
  <2> QED
    BY <2>1, <2>3, <2>4, <2>5, <2>6 DEF Synced
<1> QED
  BY <1>2, <1>3, <1>4 DEF Convergence

\* The inductive invariant behind both theorems: what has been recorded, what is
\* under way in either direction, and where that leaves a client whose protocol
\* nothing has disturbed (collab.rs, the forwarder of ws/runtime.rs, and the
\* handlers of useRuntimeEvents.ts), for any number of clients and writes, every
\* kind of write, and a channel of any length.
THEOREM ConvergenceInductive == Spec => []Convergence
<1>1. Init => Convergence
  BY ConvergenceInit
<1>2. Core /\ Core' /\ Convergence /\ [Next]_vars => Convergence'
  <2> SUFFICES ASSUME Core, Core', Convergence, [Next]_vars PROVE Convergence'
    OBVIOUS
  <2>1. ASSUME NEW c \in Client, Step(c) PROVE Convergence'
    <3>1. HistoryInv'
      BY <2>1, HistoryStep DEF Convergence
    <3>2. ToldInv'
      BY <2>1, <3>1, ToldStep DEF Convergence
    <3>3. ChanInv'
      BY <2>1, ChanStep DEF Convergence
    <3>4. ResetInv'
      BY <2>1, ResetStep DEF Convergence, HistoryInv
    <3>5. SyncInv'
      BY <2>1, SyncStep DEF Convergence
    <3> QED
      BY <3>1, <3>2, <3>3, <3>4, <3>5 DEF Convergence
  <2>2. CASE Next
    BY <2>1, <2>2 DEF Next
  <2>3. CASE UNCHANGED vars
    BY <2>3, ConvergenceStays
  <2> QED
    BY <2>2, <2>3
<1>3. IInv /\ HeardInv => Core
  BY DEF IInv, Core
<1> QED
  BY <1>1, <1>2, <1>3, WorkspaceInductive, RevisionsAreInOrder, PTL DEF Spec

\* check_writer_base compares revisions and never texts.  It is enough: a write
\* it lets through is made, if nothing has disturbed its client, to the very
\* files the user saw -- not only to a file nobody else has touched.
THEOREM WritesOnWhatWasSeen == Spec => []NoBlindOverwrite
<1>1. Core /\ Convergence => NoBlindOverwrite
  <2>0. SUFFICES ASSUME Core, Convergence PROVE NoBlindOverwrite
    OBVIOUS
  <2> SUFFICES ASSUME NEW c \in Client, stage[c] = "checked", clean[c]
               PROVE  disk = Head(toServer[c]).seen
    BY DEF NoBlindOverwrite
  <2>1. Admitted(c) /\ toServer[c] # <<>> /\ toServer[c] \in Seq(Write)
    BY <2>0 DEF Admitted, Core, LockInv, TypeOK
  <2>2. Synced(c)
    BY <2>0 DEF Convergence, SyncInv
  <2>3. Chained(c)
    BY <2>0, <2>1, <2>2, NotCrossed DEF Synced, Apart, Joining, Follows, FollowsTo
  <2>4. Head(toServer[c]).seen = At(revision)
    BY <2>1, <2>3, EmptyQueue DEF Chained
  <2>5. disk = At(revision)
    <3>1. \A d \in Client : stage[d] # "stored"
      BY <2>0, <2>1, OthersIdle
    <3> QED
      BY <2>0, <3>1 DEF Convergence, HistoryInv, DiskInv
  <2> QED
    BY <2>4, <2>5
<1>2. IInv /\ HeardInv => Core
  BY DEF IInv, Core
<1> QED
  BY <1>1, <1>2, WorkspaceInductive, RevisionsAreInOrder, ConvergenceInductive, PTL

\* Once all has been delivered, an undisturbed client shows what is on disk and
\* holds nothing as unsaved: the revision gate, the merge of unsaved files and
\* the answers to file operations (useRuntimeEvents.ts, App.tsx) lose no write
\* and leave none twice, though peers' edits are forwarded without the lock.
THEOREM UndisturbedClientsConverge == Spec => []UndisturbedConverges
<1>1. Core /\ Convergence => UndisturbedConverges
  <2>0. SUFFICES ASSUME Core, Convergence PROVE UndisturbedConverges
    OBVIOUS
  <2> SUFFICES ASSUME NEW c \in Client, Quiet(c), clean[c]
               PROVE  screen[c] = disk /\ unsaved[c] = {}
    BY DEF UndisturbedConverges
  <2>1. /\ conn[c] = "joined" /\ lock = None /\ remote[c] = Nothing
        /\ chan[c] = <<>> /\ toClient[c] = <<>> /\ toServer[c] = <<>>
    BY DEF Quiet
  <2>2. Follows(c)
    <3>1. Synced(c)
      BY <2>0 DEF Convergence, SyncInv
    <3> QED
      BY <2>1, <3>1 DEF Synced, Apart, Joining, Crossed
  <2>3. PICK m \in 0..revision : FollowsTo(c, m)
    BY <2>2 DEF Follows
  <2>4. revision \in Nat /\ m \in Nat /\ rev[c] \in Nat /\ rev[c] <= m
    BY <2>0, <2>3 DEF Core, TypeOK, FollowsTo, Heard
  <2>5. m = revision
    <3> SUFFICES ASSUME m # revision PROVE FALSE
      OBVIOUS
    <3>1. PICK r \in 1..revision : r = m + 1
      BY <2>4
    <3>2. Due(c, r)
      BY <2>3, <2>4, <3>1 DEF FollowsTo, Coming
    <3> QED
      BY <2>1, <3>2 DEF Due, DueIn
  <2>6. rev[c] = m
    <3> SUFFICES ASSUME rev[c] # m PROVE FALSE
      OBVIOUS
    <3>1. m \in 1..revision /\ rev[c] < m
      BY <2>4
    <3> QED
      BY <2>1, <2>3, <2>4, <3>1 DEF FollowsTo, Unheard
  <2>7. unsaved[c] = {}
    BY <2>0, <2>1, <2>3, <2>6, NothingUnsaved DEF Convergence
  <2>8. screen[c] = At(revision)
    BY <2>1, <2>3, <2>5, <2>7 DEF FollowsTo, ResetDue, Showing, Expected
  <2>9. disk = At(revision)
    <3>1. \A d \in Client : stage[d] # "stored"
      BY <2>0, <2>1, NoneAssumption DEF Core, LockInv, Admitted
    <3> QED
      BY <2>0, <3>1 DEF Convergence, HistoryInv, DiskInv
  <2> QED
    BY <2>7, <2>8, <2>9
<1>2. IInv /\ HeardInv => Core
  BY DEF IInv, Core
<1> QED
  BY <1>1, <1>2, WorkspaceInductive, RevisionsAreInOrder, ConvergenceInductive, PTL

==============================================================================
