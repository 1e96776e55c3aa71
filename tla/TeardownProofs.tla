--------------------------- MODULE TeardownProofs ---------------------------
(***************************************************************************)
(* What Sessions promises for any number of sessions, sockets and stops,   *)
(* and that the composition keeps what its parts promise.                  *)
(*   An id is created once (Listed), so nothing that is taken away comes   *)
(* back; a directory the sweep may take is older than any creation under   *)
(* way (Swept); the generations of the sockets of a session tell them      *)
(* apart (Attached); a port is free of those that are listed (Taken).      *)
(*   Every step of Teardown is a step or a stutter of Sessions, and one of *)
(* Workers; the last section says so and takes the theorems over.          *)
(***************************************************************************)
EXTENDS Teardown, TLAPS

Serves(k) == socket[k].pc \in {"swapped", "open"}
Doomed(k) == socket[k].pc \in {"doomed", "forget", "remove"}

SocketState ==
  [pc : {"unused", "asked", "swapped", "open", "grace", "doomed",
         "forget", "remove", "rmdir", "over"},
   of : Id \cup {None}, gen : Nat]

\* Where an id is follows its creation; a socket's session was answered.
Listed ==
  /\ \A i \in sessions : made[i] \in {"listed", "answered"}
  /\ ~up => sessions = {}
  /\ \A k \in Socket : socket[k].pc \notin {"unused", "over"} =>
       socket[k].of \in Id /\ made[socket[k].of] = "answered"
  /\ \A k \in Socket : socket[k].pc = "rmdir" => socket[k].of \notin sessions

\* A directory that is being filled is young, and a sweep spares every
\* session whose directory is not.
Swept ==
  /\ \A i \in Id : made[i] = "staged" => i \in dirs /\ i \notin cold
  /\ sweep # None => \A i \in sessions : i \in cold => i \in sweep
  /\ LiveKeepsDirectory

\* The flag admits one socket, and the one that is open has the last generation.
Attached ==
  /\ OneSocketPerSession
  /\ \A k \in Socket : Serves(k) => connected[socket[k].of]
  /\ \A k \in Socket : socket[k].pc = "open" => socket[k].gen = generation[socket[k].of]
  /\ \A k \in Socket : socket[k].pc = "grace" => socket[k].gen <= generation[socket[k].of]
  /\ \A k, l \in Socket :
       socket[k].pc = "open" /\ socket[l].pc = "grace" /\ socket[k].of = socket[l].of
         => socket[k].gen # socket[l].gen

\* Whatever ends a session that is in use has been seen coming.
Foreseen ==
  /\ SocketKeepsItsSession
  /\ closing # None => \A k \in Socket : socket[k].pc = "open" => socket[k].of \in late
  /\ \A k, l \in Socket :
       socket[k].pc = "open" /\ Doomed(l) /\ socket[k].of = socket[l].of
         => socket[k].of \in late

SessionsInv == SessionsTypeOK /\ Listed /\ Swept /\ Attached /\ Foreseen

\* With more ports than sessions there is always a free one.
PortsSuffice ==
  \A i \in Id, f \in [Id -> Port \cup {None}] : Port \ {f[j] : j \in Id \ {i}} # {}

Taken ==
  \A i, j \in sessions \cup InFlight :
    i # j /\ port[i] = port[j] => {i, j} \in overlapped

-----------------------------------------------------------------------------
(* Types.                                                                  *)

LEMMA SetFlag ==
  ASSUME NEW S, NEW f \in [S -> BOOLEAN], NEW x, NEW b \in BOOLEAN
  PROVE  [f EXCEPT ![x] = b] \in [S -> BOOLEAN]
BY Zenon

LEMMA OpenSocket ==
  ASSUME NEW s \in [Socket -> SocketState], NEW k \in Socket, NEW g \in Nat
  PROVE  [s EXCEPT ![k].pc = "open", ![k].gen = g] \in [Socket -> SocketState]
<1> DEFINE e == [s[k] EXCEPT !.pc = "open", !.gen = g]
<1>1. s[k] \in SocketState
  OBVIOUS
<1>2. e \in SocketState
  BY <1>1 DEF SocketState
<1>3. [s EXCEPT ![k].pc = "open", ![k].gen = g] = [s EXCEPT ![k] = e]
  OBVIOUS
<1> HIDE DEF e
<1> QED BY <1>2, <1>3

LEMMA SessionsTyped ==
  SessionsTypeOK /\ Listed /\ [SessionsNext]_svars => SessionsTypeOK'
<1> SUFFICES ASSUME SessionsTypeOK, Listed, [SessionsNext]_svars PROVE SessionsTypeOK'
  OBVIOUS
<1> USE SessionsAssumption
<1>1. ASSUME NEW i \in Id, ChoosePort(i) \/ Creation(i) \/ CloseDestroys(i)
      PROVE  SessionsTypeOK'
  <2>1. CASE ChoosePort(i)
    BY <2>1 DEF ChoosePort, FreePorts, InFlight, SessionsTypeOK, disk, held
  <2>2. CASE MakeDirectories(i)
    BY <2>2 DEF MakeDirectories, SessionsTypeOK, held
  <2>3. CASE Publish(i) \/ CreateFails(i) \/ Answer(i)
    BY <2>3 DEF Publish, CreateFails, Answer, SessionsTypeOK, disk, held
  <2>4. CASE RestoreFails(i)
    BY <2>4 DEF RestoreFails, Gone, SessionsTypeOK, held
  <2>5. CASE CloseDestroys(i)
    BY <2>5 DEF CloseDestroys, Gone, SessionsTypeOK, held
  <2> QED BY <1>1, <2>1, <2>2, <2>3, <2>4, <2>5 DEF Creation
<1>2. ASSUME NEW k \in Socket, NEW i \in Id, Ask(k, i)
      PROVE  SessionsTypeOK'
  BY <1>2 DEF Ask, SessionsTypeOK, life, disk
<1>3. ASSUME NEW k \in Socket, Serving(k) \/ Drop(k) \/ TearsDown(k)
      PROVE  SessionsTypeOK'
  <2>1. CASE Swap(k)
    <3>1. connected' \in [Id -> BOOLEAN]
      BY <2>1, SetFlag DEF Swap, SessionsTypeOK
    <3>2. \E pc \in {"over", "swapped"} : socket' = [socket EXCEPT ![k].pc = pc]
      BY <2>1, Zenon DEF Swap
    <3> QED BY <2>1, <3>1, <3>2 DEF Swap, SessionsTypeOK, life, disk
  <2>2. CASE Attach(k)
    <3>1. socket[k].of \in Id
      BY <2>2 DEF Attach, Listed
    <3>2. late' \subseteq Id
      BY <2>2, <3>1 DEF Attach, SessionsTypeOK
    <3>3. generation[socket[k].of] + 1 \in Nat
      BY <3>1 DEF SessionsTypeOK
    <3>4. generation' \in [Id -> Nat]
      BY <2>2, <3>1, <3>3 DEF Attach, SessionsTypeOK
    <3>5. socket' = [socket EXCEPT ![k].pc = "open", ![k].gen = generation[socket[k].of] + 1]
      BY <2>2 DEF Attach
    <3>6. socket' \in [Socket -> SocketState]
      BY <3>3, <3>5, OpenSocket DEF SessionsTypeOK, SocketState
    <3>7. UNCHANGED <<up, stops, made, port, sessions, overlapped, dirs, cold, connected, sweep, closing>>
      BY <2>2 DEF Attach, life, disk
    <3> QED BY <3>2, <3>4, <3>6, <3>7 DEF SessionsTypeOK, SocketState
  <2>3. CASE Drop(k)
    <3>1. connected' \in [Id -> BOOLEAN]
      BY <2>3, SetFlag DEF Drop, SessionsTypeOK
    <3> QED BY <2>3, <3>1 DEF Drop, SessionsTypeOK, life, disk
  <2>4. CASE Compare(k) \/ CloseServers(k) \/ ForgetWorkers(k)
    BY <2>4 DEF Compare, CloseServers, ForgetWorkers, SessionsTypeOK, life, disk
  <2>5. CASE RemoveSession(k)
    BY <2>5 DEF RemoveSession, SessionsTypeOK, disk
  <2>6. CASE RemoveDirectory(k)
    BY <2>6 DEF RemoveDirectory, SessionsTypeOK, life
  <2> QED BY <1>3, <2>1, <2>2, <2>3, <2>4, <2>5, <2>6 DEF Serving, TearsDown
<1>4. CASE Sweep \/ DayPasses
  <2>1. CASE SweepStarts \/ SweepEnds
    BY <2>1 DEF SweepStarts, SweepEnds, SessionsTypeOK, life, disk, held
  <2>2. CASE DayPasses \/ \E i \in Id : SweepRemoves(i)
    BY <2>2 DEF DayPasses, SweepRemoves, SessionsTypeOK, life, held
  <2> QED BY <1>4, <2>1, <2>2 DEF Sweep
<1>5. CASE CloseStarts
  BY <1>5 DEF CloseStarts, SessionsTypeOK, life, disk
<1>6. CASE Exit \/ Crash
  <2>1. connected' \in [Id -> BOOLEAN]
    BY <1>6, Zenon DEF Exit, Crash, Stops
  <2>2. made' \in [Id -> {"new", "failed"}]
    BY <1>6 DEF Exit, Crash, Stops
  <2>3. \A k \in Socket : socket'[k] \in {Idle, [Idle EXCEPT !.pc = "over"]}
    BY <1>6, Zenon DEF Exit, Crash, Stops
  <2>4. socket' = [k \in Socket |-> socket'[k]]
    BY <1>6, Zenon DEF Exit, Crash, Stops
  <2>5. socket' \in [Socket -> [pc : {"unused", "over"}, of : Id \cup {None}, gen : Nat]]
    BY <2>3, <2>4 DEF Idle
  <2>6. stops' \in 0..MaxStops
    BY <1>6 DEF Exit, Crash, Stops, SessionsTypeOK
  <2>7. /\ up' = FALSE /\ sessions' = {} /\ sweep' = None /\ closing' = None
        /\ UNCHANGED <<port, overlapped, dirs, cold, generation, late>>
    BY <1>6 DEF Exit, Crash, Stops, disk
  <2> QED BY <2>1, <2>2, <2>5, <2>6, <2>7 DEF SessionsTypeOK
<1>7. CASE Restart
  BY <1>7 DEF Restart, SessionsTypeOK, life, disk, held
<1>8. CASE UNCHANGED svars
  BY <1>8 DEF svars, SessionsTypeOK, life, disk, held
<1> QED BY <1>1, <1>2, <1>3, <1>4, <1>5, <1>6, <1>7, <1>8 DEF SessionsNext

-----------------------------------------------------------------------------
(* What each action leaves alone, for the invariants below.                *)

\* Steps that change neither a session, nor a directory, nor a socket.
LEMMA Elsewhere ==
  ASSUME UNCHANGED svars
  PROVE  /\ SessionsInv => Listed' /\ Swept' /\ Attached' /\ Foreseen'
         /\ Taken => Taken'
<1> USE DEF svars, life, disk, held
<1>1. ASSUME SessionsInv PROVE Listed' /\ Swept' /\ Attached' /\ Foreseen'
  BY <1>1 DEF SessionsInv, Listed, Swept, Attached, Foreseen, LiveKeepsDirectory,
     OneSocketPerSession, SocketKeepsItsSession, Serves, Doomed
<1>2. ASSUME Taken PROVE Taken'
  BY <1>2 DEF Taken, InFlight
<1> QED BY <1>1, <1>2

-----------------------------------------------------------------------------
(* Sessions and directories.                                               *)

LEMMA ListedStep ==
  SessionsInv /\ [SessionsNext]_svars => Listed'
<1> SUFFICES ASSUME SessionsInv, [SessionsNext]_svars PROVE Listed'
  OBVIOUS
<1> USE SessionsAssumption DEF SessionsInv
<1>1. ASSUME NEW i \in Id, ChoosePort(i) \/ Creation(i) \/ CloseDestroys(i)
      PROVE  Listed'
  <2>1. CASE ChoosePort(i) \/ MakeDirectories(i) \/ Publish(i) \/ CreateFails(i) \/ Answer(i)
    BY <2>1 DEF ChoosePort, MakeDirectories, Publish, CreateFails, Answer,
       Listed, SessionsTypeOK, disk, held
  <2>2. CASE RestoreFails(i) \/ CloseDestroys(i)
    BY <2>2 DEF RestoreFails, CloseDestroys, Gone, Listed, SessionsTypeOK, held
  <2> QED BY <1>1, <2>1, <2>2 DEF Creation
<1>2. ASSUME NEW k \in Socket, NEW i \in Id, Ask(k, i)
      PROVE  Listed'
  BY <1>2 DEF Ask, Listed, SessionsTypeOK, life, disk
<1>3. ASSUME NEW k \in Socket, Serving(k) \/ Drop(k) \/ TearsDown(k)
      PROVE  Listed'
  <2>1. CASE Serving(k) \/ Drop(k)
    BY <2>1 DEF Serving, Swap, Attach, Drop, Listed, SessionsTypeOK, life, disk
  <2>2. CASE Compare(k) \/ CloseServers(k) \/ ForgetWorkers(k)
    BY <2>2 DEF Compare, CloseServers, ForgetWorkers, Listed, SessionsTypeOK, life, disk
  <2>3. CASE RemoveSession(k) \/ RemoveDirectory(k)
    BY <2>3 DEF RemoveSession, RemoveDirectory, Listed, SessionsTypeOK, life, disk
  <2> QED BY <1>3, <2>1, <2>2, <2>3 DEF TearsDown
<1>4. CASE Sweep \/ DayPasses
  BY <1>4 DEF Sweep, SweepStarts, SweepRemoves, SweepEnds, DayPasses, Listed, life, held
<1>5. CASE CloseStarts \/ Restart
  BY <1>5 DEF CloseStarts, Restart, Listed, life, disk, held
<1>6. CASE Exit \/ Crash
  BY <1>6 DEF Exit, Crash, Stops, Idle, Listed, disk
<1>7. CASE UNCHANGED svars
  BY <1>7, Elsewhere
<1> QED BY <1>1, <1>2, <1>3, <1>4, <1>5, <1>6, <1>7 DEF SessionsNext

LEMMA SweptStep ==
  SessionsInv /\ [SessionsNext]_svars => Swept'
<1> SUFFICES ASSUME SessionsInv, [SessionsNext]_svars PROVE Swept'
  OBVIOUS
<1> USE SessionsAssumption DEF SessionsInv, LiveKeepsDirectory
<1>1. ASSUME NEW i \in Id, ChoosePort(i) \/ Creation(i) \/ CloseDestroys(i)
      PROVE  Swept'
  <2>1. CASE ChoosePort(i) \/ Publish(i) \/ CreateFails(i) \/ Answer(i)
    BY <2>1 DEF ChoosePort, Publish, CreateFails, Answer, Swept, SessionsTypeOK, disk, held
  <2>2. CASE MakeDirectories(i)
    BY <2>2 DEF MakeDirectories, Swept, SessionsTypeOK, held
  <2>3. CASE RestoreFails(i) \/ CloseDestroys(i)
    BY <2>3 DEF RestoreFails, CloseDestroys, Gone, Listed, Swept, SessionsTypeOK, held
  <2> QED BY <1>1, <2>1, <2>2, <2>3 DEF Creation
<1>2. ASSUME NEW k \in Socket, NEW i \in Id, Ask(k, i)
      PROVE  Swept'
  BY <1>2 DEF Ask, Swept, life, disk
<1>3. ASSUME NEW k \in Socket, Serving(k) \/ Drop(k) \/ TearsDown(k)
      PROVE  Swept'
  <2>1. CASE Serving(k) \/ Drop(k)
    BY <2>1 DEF Serving, Swap, Attach, Drop, Swept, life, disk
  <2>2. CASE Compare(k) \/ CloseServers(k) \/ ForgetWorkers(k)
    BY <2>2 DEF Compare, CloseServers, ForgetWorkers, Swept, life, disk
  <2>3. CASE RemoveSession(k)
    BY <2>3 DEF RemoveSession, Swept, disk
  <2>4. CASE RemoveDirectory(k)
    BY <2>4 DEF RemoveDirectory, Listed, Swept, life
  <2> QED BY <1>3, <2>1, <2>2, <2>3, <2>4 DEF TearsDown
<1>4. CASE Sweep
  <2>1. CASE SweepStarts \/ SweepEnds
    BY <2>1 DEF SweepStarts, SweepEnds, Swept, life, disk, held
  <2>2. ASSUME NEW i \in Id, SweepRemoves(i) PROVE Swept'
    BY <2>2 DEF SweepRemoves, Stale, Swept, life, held
  <2> QED BY <1>4, <2>1, <2>2 DEF Sweep
<1>5. CASE DayPasses
  BY <1>5 DEF DayPasses, InFlight, Swept, SessionsTypeOK, life, held
<1>6. CASE CloseStarts \/ Restart
  BY <1>6 DEF CloseStarts, Restart, Listed, Swept, life, disk, held
<1>7. CASE Exit \/ Crash
  BY <1>7 DEF Exit, Crash, Stops, Swept, disk
<1>8. CASE UNCHANGED svars
  BY <1>8, Elsewhere
<1> QED BY <1>1, <1>2, <1>3, <1>4, <1>5, <1>6, <1>7, <1>8 DEF SessionsNext

-----------------------------------------------------------------------------
(* Sockets.                                                                *)

LEMMA AttachedStep ==
  SessionsInv /\ [SessionsNext]_svars => Attached'
<1> SUFFICES ASSUME SessionsInv, [SessionsNext]_svars PROVE Attached'
  OBVIOUS
<1> USE SessionsAssumption DEF SessionsInv, Serves, OneSocketPerSession
<1>1. ASSUME UNCHANGED <<connected, generation, socket>> PROVE Attached'
  BY <1>1 DEF Attached
<1>2. ASSUME NEW k \in Socket, NEW i \in Id, Ask(k, i)
      PROVE  Attached'
  BY <1>2 DEF Ask, Attached, SessionsTypeOK
<1>3. ASSUME NEW k \in Socket, Serving(k) \/ Drop(k) \/ TearsDown(k)
      PROVE  Attached'
  <2>1. CASE Swap(k)
    BY <2>1 DEF Swap, Listed, Attached, SessionsTypeOK
  <2>2. CASE Attach(k)
    BY <2>2 DEF Attach, Listed, Attached, SessionsTypeOK
  <2>3. CASE Drop(k)
    BY <2>3 DEF Drop, Listed, Attached, SessionsTypeOK
  <2>4. CASE TearsDown(k)
    BY <2>4 DEF TearsDown, Compare, CloseServers, ForgetWorkers, RemoveSession,
       RemoveDirectory, Attached, SessionsTypeOK
  <2> QED BY <1>3, <2>1, <2>2, <2>3, <2>4 DEF Serving
<1>4. CASE Exit \/ Crash
  BY <1>4 DEF Exit, Crash, Stops, Idle, Attached
<1>5. CASE UNCHANGED svars
  BY <1>5, Elsewhere
<1> QED
  BY <1>1, <1>2, <1>3, <1>4, <1>5 DEF SessionsNext, Creation, ChoosePort, MakeDirectories,
     Publish, CreateFails, Answer, RestoreFails, CloseDestroys, Sweep, SweepStarts,
     SweepRemoves, SweepEnds, DayPasses, CloseStarts, Restart, held

LEMMA ForeseenStep ==
  SessionsInv /\ [SessionsNext]_svars => Foreseen'
<1> SUFFICES ASSUME SessionsInv, [SessionsNext]_svars PROVE Foreseen'
  OBVIOUS
<1> USE SessionsAssumption DEF SessionsInv, Doomed, SocketKeepsItsSession
<1>1. ASSUME NEW i \in Id, ChoosePort(i) \/ Creation(i) \/ CloseDestroys(i)
      PROVE  Foreseen'
  <2>1. CASE ChoosePort(i) \/ MakeDirectories(i) \/ Publish(i) \/ CreateFails(i) \/ Answer(i)
    BY <2>1 DEF ChoosePort, MakeDirectories, Publish, CreateFails, Answer, Foreseen, held
  <2>2. CASE RestoreFails(i)
    BY <2>2 DEF RestoreFails, Gone, Listed, Foreseen, held
  <2>3. CASE CloseDestroys(i)
    BY <2>3 DEF CloseDestroys, Gone, Foreseen, held
  <2> QED BY <1>1, <2>1, <2>2, <2>3 DEF Creation
<1>2. ASSUME NEW k \in Socket, NEW i \in Id, Ask(k, i)
      PROVE  Foreseen'
  BY <1>2 DEF Ask, Foreseen, SessionsTypeOK, life
<1>3. ASSUME NEW k \in Socket, Serving(k) \/ Drop(k) \/ TearsDown(k)
      PROVE  Foreseen'
  <2>1. CASE Swap(k) \/ Drop(k)
    <3>1. ASSUME NEW l \in Socket
          PROVE  /\ socket'[l].of = socket[l].of
                 /\ socket'[l].pc \in {"over", "swapped", "grace"} \/ socket'[l] = socket[l]
      BY <2>1 DEF Swap, Drop, SessionsTypeOK
    <3> QED BY <2>1, <3>1 DEF Swap, Drop, Foreseen, life
  <2>2. CASE Attach(k)
    BY <2>2 DEF Attach, Decided, Foreseen, SessionsTypeOK, life
  <2>3. CASE Compare(k)
    <3>1. ASSUME NEW l \in Socket, socket[l].pc = "open", socket[l].of = socket[k].of,
                 generation[socket[k].of] = socket[k].gen
          PROVE  FALSE
      BY <2>3, <3>1 DEF Compare, Attached
    <3> QED BY <2>3, <3>1 DEF Compare, Foreseen, SessionsTypeOK, life
  <2>4. CASE CloseServers(k) \/ ForgetWorkers(k)
    BY <2>4 DEF CloseServers, ForgetWorkers, Foreseen, SessionsTypeOK, life
  <2>5. CASE RemoveSession(k)
    BY <2>5 DEF RemoveSession, Foreseen, SessionsTypeOK
  <2>6. CASE RemoveDirectory(k)
    BY <2>6 DEF RemoveDirectory, Foreseen, SessionsTypeOK, life
  <2> QED BY <1>3, <2>1, <2>2, <2>3, <2>4, <2>5, <2>6 DEF Serving, TearsDown
<1>4. CASE Sweep \/ DayPasses \/ Restart
  BY <1>4 DEF Sweep, SweepStarts, SweepRemoves, SweepEnds, DayPasses, Restart, Foreseen, life, held
<1>5. CASE CloseStarts
  BY <1>5 DEF CloseStarts, Attached, Serves, Listed, Foreseen, SessionsTypeOK, life
<1>6. CASE Exit \/ Crash
  BY <1>6 DEF Exit, Crash, Stops, Idle, Foreseen
<1>7. CASE UNCHANGED svars
  BY <1>7, Elsewhere
<1> QED BY <1>1, <1>2, <1>3, <1>4, <1>5, <1>6, <1>7 DEF SessionsNext

-----------------------------------------------------------------------------
(* Ports.                                                                  *)

LEMMA TakenStep ==
  ASSUME PortsSuffice
  PROVE  SessionsInv /\ Taken /\ [SessionsNext]_svars => Taken'
<1> SUFFICES ASSUME SessionsInv, Taken, [SessionsNext]_svars PROVE Taken'
  OBVIOUS
<1> USE SessionsAssumption DEF SessionsInv, InFlight
<1>1. ASSUME NEW i \in Id, ChoosePort(i) \/ Creation(i) \/ CloseDestroys(i)
      PROVE  Taken'
  <2>1. CASE ChoosePort(i)
    <3>1. i \notin sessions \cup InFlight
      BY <2>1 DEF ChoosePort, Listed
    <3>2. FreePorts # {}
      BY <3>1 DEF PortsSuffice, FreePorts, SessionsTypeOK
    <3>3. \A j \in sessions : port'[i] # port[j]
      BY <2>1, <3>2 DEF ChoosePort, FreePorts, SessionsTypeOK
    <3>4. /\ port'[i] \in Port /\ \A j \in Id \ {i} : port'[j] = port[j]
          /\ sessions' = sessions /\ InFlight' = InFlight \cup {i}
          /\ overlapped' = overlapped \cup {{i, j} : j \in InFlight}
      BY <2>1 DEF ChoosePort, FreePorts, SessionsTypeOK
    <3>5. ASSUME NEW a \in sessions' \cup InFlight', NEW b \in sessions' \cup InFlight',
                 a # b, port'[a] = port'[b]
          PROVE  {a, b} \in overlapped'
      <4>1. a \in Id /\ b \in Id
        BY <3>4, <3>5 DEF SessionsTypeOK
      <4>2. CASE a # i /\ b # i
        BY <3>4, <3>5, <4>1, <4>2 DEF Taken
      <4>3. CASE a = i
        BY <3>3, <3>4, <3>5, <4>1, <4>3
      <4>4. CASE b = i
        <5>1. a \in InFlight
          BY <3>3, <3>4, <3>5, <4>1, <4>4
        <5>2. {a, b} = {i, a}
          BY <4>4
        <5> QED BY <3>4, <5>1, <5>2
      <4> QED BY <4>2, <4>3, <4>4
    <3> QED BY <3>5 DEF Taken
  <2>2. CASE MakeDirectories(i) \/ Publish(i) \/ CreateFails(i) \/ Answer(i)
    BY <2>2 DEF MakeDirectories, Publish, CreateFails, Answer, Taken, SessionsTypeOK
  <2>3. CASE RestoreFails(i) \/ CloseDestroys(i)
    BY <2>3 DEF RestoreFails, CloseDestroys, Gone, Taken, SessionsTypeOK
  <2> QED BY <1>1, <2>1, <2>2, <2>3 DEF Creation
<1>2. ASSUME UNCHANGED <<made, port, overlapped>>, sessions' \subseteq sessions PROVE Taken'
  BY <1>2 DEF Taken
<1>3. CASE Exit \/ Crash
  BY <1>3 DEF Exit, Crash, Stops, Taken, SessionsTypeOK
<1>4. CASE UNCHANGED svars
  BY <1>4, Elsewhere
<1> QED
  BY <1>1, <1>2, <1>3, <1>4 DEF SessionsNext, Ask, Serving, Swap, Attach, Drop, TearsDown,
     Compare, CloseServers, ForgetWorkers, RemoveSession, RemoveDirectory, Sweep, SweepStarts,
     SweepRemoves, SweepEnds, DayPasses, CloseStarts, Restart, life

-----------------------------------------------------------------------------
(* Theorems.                                                               *)

LEMMA SessionsStart == SessionsInit => SessionsInv /\ Taken
BY SessionsAssumption
   DEF SessionsInit, Idle, SessionsInv, SessionsTypeOK, Listed, Swept, Attached, Foreseen, Taken,
       InFlight, Serves, Doomed, LiveKeepsDirectory, OneSocketPerSession, SocketKeepsItsSession

\* The inductive invariant of the sessions, their directories and sockets.
THEOREM SessionsInvariant == SessionsSpec => []SessionsInv
<1>1. SessionsInv /\ [SessionsNext]_svars => SessionsInv'
  BY SessionsTyped, ListedStep, SweptStep, AttachedStep, ForeseenStep DEF SessionsInv
<1> QED BY <1>1, SessionsStart, PTL DEF SessionsSpec

\* (sweep_stale, destroy) Whatever sweeps, teardowns and restarts run side by
\* side, a session in the map has its directory.
THEOREM LiveSessionsKeepTheirDirectories == SessionsSpec => []LiveKeepsDirectory
<1>1. SessionsInv => LiveKeepsDirectory
  BY DEF SessionsInv, Swept
<1> QED BY <1>1, SessionsInvariant, PTL

\* (runtime_connected) A session is never served by two sockets.
THEOREM OneSocketServes == SessionsSpec => []OneSocketPerSession
<1>1. SessionsInv => OneSocketPerSession
  BY DEF SessionsInv, Attached
<1> QED BY <1>1, SessionsInvariant, PTL

\* (attach_generation) No grace that ends, and no shutdown it did not precede,
\* takes the session from a socket that is attached to it.
THEOREM AttachedSocketsKeepTheirSession == SessionsSpec => []SocketKeepsItsSession
<1>1. SessionsInv => SocketKeepsItsSession
  BY DEF SessionsInv, Foreseen
<1> QED BY <1>1, SessionsInvariant, PTL

\* (allocate_http_port) With enough ports, live sessions that share one were
\* created at the same time: the choice is made long before it is recorded.
THEOREM OnlyOverlappingCreationsSharePorts ==
  ASSUME PortsSuffice
  PROVE  SessionsSpec => []PortsDistinct
<1>1. SessionsInv /\ Taken /\ [SessionsNext]_svars => Taken'
  BY TakenStep
<1>2. Taken => PortsDistinct
  BY DEF Taken, PortsDistinct
<1> QED BY <1>1, <1>2, SessionsInvariant, SessionsStart, PTL DEF SessionsSpec

-----------------------------------------------------------------------------
(* The composition.                                                        *)

WP == INSTANCE WorkersProofs WITH Null <- None

LEMMA StepOfSessions == load \in Loads /\ [Next]_vars => [SessionsNext]_svars
<1> SUFFICES ASSUME load \in Loads, [Next]_vars PROVE [SessionsNext]_svars
  OBVIOUS
<1> USE TeardownAssumption
<1>1. ASSUME NEW i \in load.ids, Creates(i) \/ RestoreFails(i) \/ CloseDestroys(i)
      PROVE  SessionsNext
  BY <1>1 DEF Creates, SessionsNext, Creation
<1>2. ASSUME NEW k \in load.sockets,
             Serving(k) \/ Leaves(k) \/ Drop(k) \/ ForgetWorkers(k) \/ \E i \in load.ids : Ask(k, i)
      PROVE  SessionsNext
  BY <1>2 DEF Leaves, SessionsNext, TearsDown
<1>3. Sweep \/ DayPasses \/ CloseStarts \/ Exit \/ Crash \/ Restart => SessionsNext
  BY DEF SessionsNext
<1>4. UNCHANGED vars => UNCHANGED svars
  BY DEF vars
<1> QED BY <1>1, <1>2, <1>3, <1>4 DEF Next

LEMMA StepOfWorkers == load \in Loads /\ [Next]_vars => [W!WorkersNext]_wvars
<1> SUFFICES ASSUME load \in Loads, [Next]_vars PROVE [W!WorkersNext]_wvars
  OBVIOUS
<1> USE TeardownAssumption
<1>1. ASSUME NEW i, Forgets(i) PROVE [W!WorkersNext]_wvars
  BY <1>1 DEF Forgets, W!WorkersNext
<1>2. RunAsks => W!WorkersNext
  BY DEF RunAsks, W!WorkersNext, W!Asked, W!Key
<1>3. W!WorkersInternal => W!WorkersNext
  BY DEF W!WorkersNext
<1>4. UNCHANGED vars => UNCHANGED wvars
  BY DEF vars
<1> QED BY <1>1, <1>2, <1>3, <1>4 DEF Next

\* The traffic of a behaviour does not change.
LEMMA LoadIsGiven == Spec => [](load \in Loads)
<1>1. Init => load \in Loads
  BY DEF Init
<1>2. load \in Loads /\ [Next]_vars => (load \in Loads)'
  BY DEF Next, vars
<1> QED BY <1>1, <1>2, PTL DEF Spec

-----------------------------------------------------------------------------
\* (SessionManager) In the composition, sessions behave as Sessions says.
THEOREM ImplementsSessions == Spec => SessionsSpec
<1>1. Init => SessionsInit
  BY DEF Init
<1> QED BY <1>1, StepOfSessions, LoadIsGiven, PTL DEF Spec, SessionsSpec

\* (instrument_worker.rs, compile_server.rs) And its helpers as Workers says,
\* however the teardown forgets them.
THEOREM ImplementsWorkers == Spec => W!WorkersSpec
<1>1. Init => W!WorkersInit
  BY DEF Init
<1>2. load \in Loads /\ [Next]_vars => [W!WorkersNext]_(W!wvars)
  BY StepOfWorkers DEF wvars, W!wvars
<1> QED BY <1>1, <1>2, LoadIsGiven, PTL DEF Spec, W!WorkersSpec

\* (sweep_stale, destroy) So a live session keeps its directory here too.
THEOREM TeardownKeepsDirectories == Spec => []LiveKeepsDirectory
BY ImplementsSessions, LiveSessionsKeepTheirDirectories, PTL

\* (attach_generation) A socket keeps its session, whatever runs beside it.
THEOREM TeardownSparesAttached == Spec => []SocketKeepsItsSession
BY ImplementsSessions, AttachedSocketsKeepTheirSession, PTL

\* WorkersProofs speaks of its own copy of Workers; the two say the same.
LEMMA ProvenWorkers == Spec => WP!WorkersSpec
<1>1. W!WorkersNext = WP!WorkersNext
  BY DEF
     W!wvars, WP!wvars, W!Key, WP!Key, W!Slot, WP!Slot, W!Proc, WP!Proc, W!Forget,
     WP!Forget, W!Waiting, WP!Waiting, W!Reachable, WP!Reachable, W!Running, WP!Running,
     W!KeyOf, WP!KeyOf, W!Held, WP!Held, W!FindSlot, WP!FindSlot, W!LockSlot,
     WP!LockSlot, W!Return, WP!Return, W!SpawnWorker, WP!SpawnWorker, W!SpawnFails,
     WP!SpawnFails, W!Send, WP!Send, W!Answered, WP!Answered, W!ReadWorker,
     WP!ReadWorker, W!ReadServer, WP!ReadServer, W!WantsLibc, WP!WantsLibc,
     W!ExchangeFails, WP!ExchangeFails, W!CancelUpdate, WP!CancelUpdate, W!Dies,
     WP!Dies, W!ForgetSession, WP!ForgetSession, W!EmptyForgotten, WP!EmptyForgotten,
     W!GoesUnused, WP!GoesUnused, W!ReapStarts, WP!ReapStarts, W!ReapSlot, WP!ReapSlot,
     W!Exchange, WP!Exchange, W!WorkersInternal, WP!WorkersInternal, W!Asked, WP!Asked,
     W!WorkersNext, WP!WorkersNext
<1>2. [W!WorkersNext]_(W!wvars) => [WP!WorkersNext]_(WP!wvars)
  BY <1>1 DEF W!wvars, WP!wvars
<1>3. W!WorkersInit => WP!WorkersInit
  BY DEF W!WorkersInit, WP!WorkersInit, W!Key, WP!Key, W!Slot, WP!Slot, W!Proc, WP!Proc
<1> QED BY <1>2, <1>3, ImplementsWorkers, PTL DEF W!WorkersSpec, WP!WorkersSpec

LEMMA TeardownWorkersConstants == WP!WorkersConstants
BY TeardownAssumption DEF WP!WorkersConstants, WP!Proc, WP!Slot, WP!Key

\* (exchange, update_inner) No request is given another's answer, also while
\* the session and its helpers are being torn down.
THEOREM TeardownAnswersAreOwn == Spec => []AnswerIsOwn
<1>1. WP!WorkersSpec => []WP!AnswerIsOwn
  BY TeardownWorkersConstants, WP!AnswersAreOwn
<1>2. WP!AnswerIsOwn => AnswerIsOwn
  BY DEF AnswerIsOwn, W!AnswerIsOwn, WP!AnswerIsOwn
<1> QED BY <1>1, <1>2, ProvenWorkers, PTL

\* (WorkerSpec, Server.key) What answers a request runs in the sandbox the
\* request came with, also when a process of another one is in its slot, or
\* the session is destroyed while it waits for the lock.
THEOREM TeardownAnswersAreConfined == Spec => []RightConfinement
<1>1. WP!WorkersSpec => []WP!RightConfinement
  BY TeardownWorkersConstants, WP!AnswersAreConfined
<1>2. WP!RightConfinement => RightConfinement
  BY DEF RightConfinement, W!RightConfinement, WP!RightConfinement, W!Held, WP!Held
<1> QED BY <1>1, <1>2, ProvenWorkers, PTL
=============================================================================
