--------------------------- MODULE WorkersProofs ---------------------------
(***************************************************************************)
(* What Workers promises for any number of keys, requests and processes.   *)
(* The lock of a slot names the one request that is in an exchange there   *)
(* (Locked), a process is in one slot only (Apart), and its pipe holds     *)
(* what that request has sent and nothing older (Piped): whatever cuts an  *)
(* exchange short takes the process out of the slot.                       *)
(***************************************************************************)
EXTENDS Workers, TLAPS

WorkersConstants ==
  /\ Null \notin Request \cup Proc \cup Slot
  /\ "cli" \notin Request /\ "nothing" \notin Request

RequestState ==
  [pc : {"new", "slot", "locked", "sent", "done"}, slot : Slot \cup {Null},
   conf : Confinement \cup {Null}, got : Request \cup {"nothing", "cli", Null}]
ProcState ==
  [up : BOOLEAN, born : BOOLEAN, conf : Confinement \cup {Null}, pipe : Seq(Request)]

Exchanging(r) == request[r].pc \in {"locked", "sent"}

Locked ==
  /\ \A r \in Request : request[r].pc \in {"slot", "locked", "sent"} => request[r].slot \in Slot
  /\ \A r \in Request : Exchanging(r) => lock[request[r].slot] = r
  /\ \A n \in Slot : lock[n] # Null => Exchanging(lock[n]) /\ request[lock[n]].slot = n

Apart ==
  /\ \A n \in Slot : holds[n] # Null => proc[holds[n]].born
  /\ \A m, n \in Slot : m # n /\ holds[m] # Null => holds[m] # holds[n]

Piped ==
  \A n \in Slot : holds[n] # Null =>
    proc[holds[n]].pipe =
      IF lock[n] # Null /\ request[lock[n]].pc = "sent" THEN <<lock[n]>> ELSE <<>>

Confined ==
  \A r \in Request : Exchanging(r) /\ Held(r) # Null => proc[Held(r)].conf = request[r].conf

WorkersInv ==
  WorkersTypeOK /\ Locked /\ Apart /\ Piped /\ Confined /\ BusyIsSpared /\ AnswerIsOwn

-----------------------------------------------------------------------------
(* What a step does to a record.                                           *)

LEMMA RequestMoves ==
  ASSUME NEW r \in Request, request \in [Request -> RequestState],
         NEW a \in {"new", "slot", "locked", "sent", "done"},
         request' = [request EXCEPT ![r].pc = a]
  PROVE  /\ request' \in [Request -> RequestState]
         /\ request'[r].pc = a /\ request'[r].slot = request[r].slot
         /\ request'[r].conf = request[r].conf /\ request'[r].got = request[r].got
         /\ \A q \in Request \ {r} : request'[q] = request[q]
BY DEF RequestState

LEMMA RequestReturns ==
  ASSUME NEW r \in Request, request \in [Request -> RequestState],
         NEW got \in Request \cup {"nothing", "cli", Null}, Return(r, got)
  PROVE  /\ request' \in [Request -> RequestState]
         /\ request'[r].pc = "done" /\ request'[r].got = got
         /\ \A q \in Request \ {r} : request'[q] = request[q]
BY DEF Return, RequestState

LEMMA PipeMoves ==
  ASSUME NEW p \in Proc, proc \in [Proc -> ProcState], NEW s \in Seq(Request),
         proc' = [proc EXCEPT ![p].pipe = s]
  PROVE  /\ proc' \in [Proc -> ProcState]
         /\ proc'[p].pipe = s /\ proc'[p].up = proc[p].up
         /\ proc'[p].born = proc[p].born /\ proc'[p].conf = proc[p].conf
         /\ \A q \in Proc \ {p} : proc'[q] = proc[q]
BY DEF ProcState

LEMMA ProcDies ==
  ASSUME NEW p \in Proc, proc \in [Proc -> ProcState],
         proc' = [proc EXCEPT ![p].up = FALSE]
  PROVE  /\ proc' \in [Proc -> ProcState]
         /\ \A q \in Proc : /\ proc'[q].pipe = proc[q].pipe
                            /\ proc'[q].born = proc[q].born /\ proc'[q].conf = proc[q].conf
<1>1. proc[p] \in ProcState
  OBVIOUS
<1>2. [proc[p] EXCEPT !.up = FALSE] \in ProcState
  BY <1>1 DEF ProcState
<1>3. /\ [proc[p] EXCEPT !.up = FALSE].pipe = proc[p].pipe
      /\ [proc[p] EXCEPT !.up = FALSE].born = proc[p].born
      /\ [proc[p] EXCEPT !.up = FALSE].conf = proc[p].conf
  BY <1>1 DEF ProcState
<1> QED BY <1>2, <1>3

\* However an exchange ends, nothing of it is left in the slot: either the
\* answer has been read, or the process goes.
LEMMA ExchangeEnds ==
  ASSUME WorkersConstants, WorkersInv, NEW r \in Request,
         \/ SpawnFails(r) \/ ReadWorker(r) \/ ReadServer(r)
         \/ WantsLibc(r) \/ ExchangeFails(r) \/ CancelUpdate(r)
  PROVE  /\ Exchanging(r) /\ request[r].slot \in Slot
         /\ \E got \in {r, "cli", Null} : Return(r, got)
         /\ proc' \in [Proc -> ProcState]
         /\ \A q \in Proc : proc'[q].born = proc[q].born /\ proc'[q].conf = proc[q].conf
         /\ \A q \in Proc : q # Held(r) => proc'[q].pipe = proc[q].pipe
         /\ holds' \in [Slot -> Proc \cup {Null}]
         /\ \A n \in Slot : n # request[r].slot => holds'[n] = holds[n]
         /\ \/ holds'[request[r].slot] = Null
            \/ holds'[request[r].slot] = Held(r) /\ proc'[Held(r)].pipe = <<>>
         /\ UNCHANGED <<table, unused, forgetting, reaping, forgotten>>
         /\ needsLibc' \in BOOLEAN
<1> USE DEF WorkersConstants, WorkersInv
<1> DEFINE p == Held(r)
           n == request[r].slot
<1>1. Exchanging(r) /\ n \in Slot /\ lock[n] = r /\ Null \notin Request /\ Null \notin Proc
  BY DEF SpawnFails, ReadWorker, ReadServer, WantsLibc, ExchangeFails, CancelUpdate, Exchanging, Locked
<1>2. proc \in [Proc -> ProcState] /\ holds \in [Slot -> Proc \cup {Null}] /\ needsLibc \in BOOLEAN
  BY DEF WorkersTypeOK, ProcState
<1>3. ASSUME request[r].pc = "sent", p # Null
      PROVE  p \in Proc /\ proc[p].pipe = <<r>>
  BY <1>1, <1>2, <1>3 DEF Held, Piped
<1>4. CASE SpawnFails(r)
  BY <1>1, <1>2, <1>4 DEF SpawnFails, Held
<1>5. CASE WantsLibc(r) \/ ExchangeFails(r) \/ CancelUpdate(r)
  BY <1>1, <1>2, <1>5 DEF WantsLibc, ExchangeFails, CancelUpdate
<1>6. CASE ReadWorker(r) \/ ReadServer(r)
  <2>1. request[r].pc = "sent" /\ p # Null
    BY <1>6 DEF ReadWorker, ReadServer, Answered
  <2>2. p \in Proc /\ proc[p].pipe = <<r>>
    BY <1>3, <2>1
  <2>3. Tail(proc[p].pipe) = <<>> /\ Head(proc[p].pipe) = r /\ <<>> \in Seq(Request)
    BY <2>2
  <2>4. proc' = [proc EXCEPT ![p].pipe = <<>>]
    BY <1>6, <2>3 DEF ReadWorker, ReadServer
  <2>5. /\ proc' \in [Proc -> ProcState] /\ proc'[p].pipe = <<>>
        /\ \A q \in Proc : proc'[q].born = proc[q].born /\ proc'[q].conf = proc[q].conf
        /\ \A q \in Proc : q # p => proc'[q].pipe = proc[q].pipe
    BY <1>2, <2>2, <2>3, <2>4, PipeMoves
  <2>6. Return(r, r) /\ UNCHANGED <<holds, table, unused, forgetting, reaping, needsLibc, forgotten>>
    BY <1>6, <2>3 DEF ReadWorker, ReadServer
  <2>7. holds'[n] = p
    BY <2>6 DEF Held
  <2> QED BY <1>1, <1>2, <2>5, <2>6, <2>7
<1> QED BY <1>4, <1>5, <1>6

LEMMA EndKeeps ==
  ASSUME WorkersConstants, WorkersInv, NEW r \in Request,
         \/ SpawnFails(r) \/ ReadWorker(r) \/ ReadServer(r)
         \/ WantsLibc(r) \/ ExchangeFails(r) \/ CancelUpdate(r)
  PROVE  WorkersInv'
<1> DEFINE n == request[r].slot
<1>1. PICK got \in {r, "cli", Null} : Return(r, got)
  BY ExchangeEnds
<1>2. /\ Exchanging(r) /\ n \in Slot /\ lock[n] = r
      /\ Null \notin Request /\ Null \notin Proc /\ "cli" \notin Request
  BY ExchangeEnds DEF WorkersInv, WorkersConstants, Locked
<1>3. request \in [Request -> RequestState] /\ lock \in [Slot -> Request \cup {Null}]
  BY DEF WorkersInv, WorkersTypeOK, RequestState
<1>4. /\ request' \in [Request -> RequestState]
      /\ request'[r].pc = "done" /\ request'[r].got = got
      /\ \A q \in Request \ {r} : request'[q] = request[q]
  BY <1>1, <1>3, RequestReturns
<1>5. lock' = [lock EXCEPT ![n] = Null]
  BY <1>1 DEF Return
<1>6. WorkersTypeOK'
  BY ExchangeEnds, <1>3, <1>4, <1>5 DEF WorkersInv, WorkersTypeOK, ProcState, RequestState
<1>7. Locked'
  BY <1>2, <1>3, <1>4, <1>5 DEF WorkersInv, Locked, Exchanging
<1>8. Apart'
  <2>1. \A m \in Slot : holds'[m] # Null => holds'[m] = holds[m] /\ holds[m] \in Proc
    BY ExchangeEnds DEF WorkersInv, WorkersTypeOK, Held
  <2>2. \A q \in Proc : proc'[q].born = proc[q].born
    BY ExchangeEnds
  <2> QED BY <2>1, <2>2 DEF WorkersInv, Apart
<1>9. \A q \in Request \ {r} : Exchanging(q) => request[q].slot \in Slot /\ request[q].slot # n
  BY <1>2 DEF WorkersInv, Locked, Exchanging
<1>10. Piped'
  <2> SUFFICES ASSUME NEW m \in Slot, holds'[m] # Null
               PROVE  (proc'[holds'[m]].pipe =
                        IF lock'[m] # Null /\ request'[lock'[m]].pc = "sent" THEN <<lock'[m]>> ELSE <<>>)
    BY DEF Piped
  <2>1. CASE m = n
    BY <2>1, ExchangeEnds, <1>3, <1>5
  <2>2. CASE m # n
    <3>1. holds'[m] = holds[m] /\ holds[m] \in Proc /\ holds[m] # Held(r)
      BY <2>2, <1>2, ExchangeEnds DEF WorkersInv, WorkersTypeOK, Apart, Held
    <3>2. lock'[m] = lock[m] /\ (lock[m] # Null => request'[lock[m]] = request[lock[m]])
      BY <2>2, <1>2, <1>3, <1>4, <1>5 DEF WorkersInv, Locked
    <3> QED BY <3>1, <3>2, ExchangeEnds DEF WorkersInv, Piped
  <2> QED BY <2>1, <2>2
<1>11. \A q \in Request : Exchanging(q)' =>
         q # r /\ Exchanging(q) /\ request'[q] = request[q] /\ Held(q)' = Held(q)
  BY <1>4, <1>9, ExchangeEnds DEF Exchanging, Held
<1>12. Confined'
  <2>1. \A q \in Request : Exchanging(q) => Held(q) \in Proc \cup {Null}
    BY <1>2, <1>9 DEF WorkersInv, WorkersTypeOK, Held
  <2> QED BY <2>1, <1>11, ExchangeEnds DEF WorkersInv, Confined
<1>13. BusyIsSpared'
  BY <1>11 DEF WorkersInv, BusyIsSpared, Exchanging
<1>14. AnswerIsOwn'
  BY <1>2, <1>4 DEF WorkersInv, AnswerIsOwn
<1> QED BY <1>6, <1>7, <1>8, <1>10, <1>12, <1>13, <1>14 DEF WorkersInv

-----------------------------------------------------------------------------
(* The other steps.                                                        *)

LEMMA FindSlotKeeps ==
  ASSUME WorkersConstants, WorkersInv, NEW r \in Request, NEW k \in Key, NEW c \in Confinement,
         FindSlot(r, k, c)
  PROVE  WorkersInv'
<1> DEFINE n == IF table[k] # Null THEN table[k] ELSE <<k, IF forgotten THEN 2 ELSE 1>>
<1>1. n \in Slot
  BY DEF WorkersInv, WorkersTypeOK, Slot
<1>2. request \in [Request -> RequestState]
  BY DEF WorkersInv, WorkersTypeOK, RequestState
<1>3. /\ request' \in [Request -> RequestState]
      /\ request'[r].pc = "slot" /\ request'[r].slot = n /\ request'[r].got = request[r].got
      /\ \A q \in Request \ {r} : request'[q] = request[q]
  <2> HIDE DEF n
  <2>1. PICK d \in Confinement \cup {Null} :
          request' = [request EXCEPT ![r].pc = "slot", ![r].slot = n, ![r].conf = d]
    BY DEF FindSlot, n
  <2> DEFINE e == [request[r] EXCEPT !.pc = "slot", !.slot = n, !.conf = d]
  <2>2. request[r] \in RequestState
    BY <1>2
  <2>3. e \in RequestState /\ e.pc = "slot" /\ e.slot = n /\ e.got = request[r].got
    BY <1>1, <2>2 DEF RequestState
  <2>4. request' = [request EXCEPT ![r] = e]
    BY <2>1, Zenon
  <2> HIDE DEF e
  <2> QED BY <1>2, <2>3, <2>4
<1>4. /\ request[r].pc = "new" /\ table' = [table EXCEPT ![k] = n]
      /\ UNCHANGED <<holds, lock, unused, proc, forgetting, reaping, needsLibc, forgotten>>
  BY DEF FindSlot
<1> HIDE DEF n
<1>5. WorkersTypeOK'
  BY <1>1, <1>3, <1>4 DEF WorkersInv, WorkersTypeOK, RequestState
<1>6. \A m \in Slot : lock[m] # Null => lock[m] \in Request /\ lock[m] # r
  BY <1>4 DEF WorkersInv, WorkersTypeOK, Locked, Exchanging
<1>7. \A q \in Request : Exchanging(q)' => q # r /\ request'[q] = request[q] /\ Exchanging(q)
  BY <1>3 DEF Exchanging
<1>8. Locked'
  BY <1>1, <1>3, <1>4, <1>6, <1>7 DEF WorkersInv, Locked, Exchanging
<1>9. Apart' /\ Piped'
  BY <1>3, <1>4, <1>6 DEF WorkersInv, Apart, Piped
<1>10. Confined' /\ BusyIsSpared'
  BY <1>4, <1>7 DEF WorkersInv, Confined, BusyIsSpared, Held, Exchanging
<1>11. AnswerIsOwn'
  BY <1>3 DEF WorkersInv, AnswerIsOwn
<1> QED BY <1>5, <1>8, <1>9, <1>10, <1>11 DEF WorkersInv

\* The slot taken is nobody's: what is in it has nothing left to answer, and
\* stays only if its sandbox is the request's.
LEMMA LockSlotKeeps ==
  ASSUME WorkersConstants, WorkersInv, NEW r \in Request, LockSlot(r)
  PROVE  WorkersInv'
<1> DEFINE n == request[r].slot
<1>1. /\ request[r].pc = "slot" /\ n \in Slot /\ lock[n] = Null
      /\ lock' = [lock EXCEPT ![n] = r]
      /\ UNCHANGED <<table, unused, proc, forgetting, reaping, needsLibc, forgotten>>
      /\ Null \notin Request
  BY DEF LockSlot, WorkersInv, Locked, WorkersConstants
<1>2. /\ request' \in [Request -> RequestState]
      /\ request'[r].pc = "locked" /\ request'[r].slot = n
      /\ request'[r].conf = request[r].conf /\ request'[r].got = request[r].got
      /\ \A q \in Request \ {r} : request'[q] = request[q]
  <2>1. request \in [Request -> RequestState]
    BY DEF WorkersInv, WorkersTypeOK, RequestState
  <2> QED BY <2>1, RequestMoves DEF LockSlot
<1>3. /\ holds' \in [Slot -> Proc \cup {Null}]
      /\ \A m \in Slot : holds'[m] # Null => holds'[m] = holds[m] /\ holds[m] \in Proc
      /\ \A m \in Slot \ {n} : holds'[m] = holds[m]
      /\ holds'[n] # Null => proc[holds'[n]].conf = request[r].conf
  BY <1>1 DEF LockSlot, WorkersInv, WorkersTypeOK
<1>4. lock' \in [Slot -> Request \cup {Null}] /\ lock'[n] = r /\ \A m \in Slot \ {n} : lock'[m] = lock[m]
  BY <1>1 DEF WorkersInv, WorkersTypeOK
<1>5. \A m \in Slot \ {n} : lock[m] # Null => lock[m] \in Request \ {r}
  BY <1>1 DEF WorkersInv, WorkersTypeOK, Locked, Exchanging
<1>6. \A q \in Request \ {r} : Exchanging(q) => request[q].slot \in Slot \ {n}
  BY <1>1 DEF WorkersInv, Locked, Exchanging
<1>7. WorkersTypeOK'
  BY <1>1, <1>2, <1>3, <1>4 DEF WorkersInv, WorkersTypeOK, RequestState
<1>8. Locked'
  BY <1>1, <1>2, <1>4, <1>5, <1>6 DEF WorkersInv, Locked, Exchanging
<1>9. Apart'
  BY <1>1, <1>3 DEF WorkersInv, Apart
<1>10. Piped'
  <2> SUFFICES ASSUME NEW m \in Slot, holds'[m] # Null
               PROVE  proc'[holds'[m]].pipe =
                        IF lock'[m] # Null /\ request'[lock'[m]].pc = "sent" THEN <<lock'[m]>> ELSE <<>>
    BY DEF Piped
  <2>1. CASE m = n
    BY <2>1, <1>1, <1>2, <1>3, <1>4 DEF WorkersInv, Piped
  <2>2. CASE m # n
    BY <2>2, <1>1, <1>2, <1>3, <1>4, <1>5 DEF WorkersInv, Piped
  <2> QED BY <2>1, <2>2
<1>11. Confined' /\ BusyIsSpared'
  <2>1. \A q \in Request \ {r} : Exchanging(q)' =>
          Exchanging(q) /\ request'[q] = request[q] /\ Held(q)' = Held(q)
    BY <1>2, <1>3, <1>6 DEF Exchanging, Held
  <2>2. Held(r)' # Null => proc'[Held(r)'].conf = request'[r].conf
    BY <1>1, <1>2, <1>3 DEF Held
  <2> QED BY <1>1, <1>2, <2>1, <2>2 DEF WorkersInv, Confined, BusyIsSpared, Exchanging
<1>12. AnswerIsOwn'
  BY <1>2 DEF WorkersInv, AnswerIsOwn
<1> QED BY <1>7, <1>8, <1>9, <1>10, <1>11, <1>12 DEF WorkersInv

\* The processes are numbered as they are started: a new one is in no slot.
LEMMA SpawnKeeps ==
  ASSUME WorkersConstants, WorkersInv, NEW r \in Request, SpawnWorker(r)
  PROVE  WorkersInv'
<1> DEFINE n == request[r].slot
           e(c) == [up |-> TRUE, born |-> TRUE, conf |-> c, pipe |-> <<>>]
<1>1. PICK p \in Proc : /\ ~proc[p].born
                        /\ proc' = [proc EXCEPT ![p] = e(request[r].conf)]
                        /\ holds' = [holds EXCEPT ![n] = p]
  BY DEF SpawnWorker
<1>2. /\ request[r].pc = "locked" /\ n \in Slot /\ lock[n] = r /\ holds[n] = Null
      /\ UNCHANGED <<table, lock, unused, request, forgetting, reaping, needsLibc, forgotten>>
      /\ Null \notin Proc /\ Null \notin Request
  BY DEF SpawnWorker, WorkersInv, Locked, Exchanging, Held, WorkersConstants
<1>3. /\ holds \in [Slot -> Proc \cup {Null}] /\ proc \in [Proc -> ProcState]
      /\ request[r].conf \in Confinement \cup {Null}
  BY DEF WorkersInv, WorkersTypeOK, ProcState
<1>4. e(request[r].conf) \in ProcState
  BY <1>3 DEF ProcState
<1>5. /\ proc' \in [Proc -> ProcState]
      /\ proc'[p].born /\ proc'[p].pipe = <<>> /\ proc'[p].conf = request[r].conf
      /\ \A q \in Proc \ {p} : proc'[q] = proc[q]
      /\ holds' \in [Slot -> Proc \cup {Null}] /\ holds'[n] = p
      /\ \A m \in Slot \ {n} : holds'[m] = holds[m]
  BY <1>1, <1>2, <1>3, <1>4
<1>6. \A m \in Slot : holds[m] # Null => holds[m] \in Proc \ {p}
  BY <1>1, <1>3 DEF WorkersInv, Apart
<1>7. WorkersTypeOK'
  BY <1>2, <1>5 DEF WorkersInv, WorkersTypeOK, ProcState
<1>8. Locked' /\ AnswerIsOwn'
  BY <1>2 DEF WorkersInv, Locked, AnswerIsOwn, Exchanging
<1>9. Apart'
  BY <1>5, <1>6 DEF WorkersInv, Apart
<1>10. Piped'
  <2> SUFFICES ASSUME NEW m \in Slot, holds'[m] # Null
               PROVE  proc'[holds'[m]].pipe =
                        IF lock'[m] # Null /\ request'[lock'[m]].pc = "sent" THEN <<lock'[m]>> ELSE <<>>
    BY DEF Piped
  <2>1. CASE m = n
    BY <2>1, <1>2, <1>5
  <2>2. CASE m # n
    BY <2>2, <1>2, <1>5, <1>6 DEF WorkersInv, Piped
  <2> QED BY <2>1, <2>2
<1>11. Confined' /\ BusyIsSpared'
  <2>1. \A q \in Request \ {r} : Exchanging(q) => request[q].slot \in Slot \ {n}
    BY <1>2 DEF WorkersInv, Locked, Exchanging
  <2>2. \A q \in Request \ {r} : Exchanging(q) => Held(q)' = Held(q)
    BY <1>2, <1>5, <2>1 DEF Held
  <2>3. \A q \in Request \ {r} : Exchanging(q) /\ Held(q) # Null => proc'[Held(q)] = proc[Held(q)]
    BY <1>5, <1>6, <2>1 DEF Held
  <2>4. Held(r)' = p
    BY <1>2, <1>5 DEF Held
  <2> QED BY <1>2, <1>5, <2>2, <2>3, <2>4 DEF WorkersInv, Confined, BusyIsSpared, Exchanging
<1> QED BY <1>7, <1>8, <1>9, <1>10, <1>11 DEF WorkersInv

LEMMA SendKeeps ==
  ASSUME WorkersConstants, WorkersInv, NEW r \in Request, Send(r)
  PROVE  WorkersInv'
<1> DEFINE n == request[r].slot
           p == Held(r)
<1>1. /\ request[r].pc = "locked" /\ n \in Slot /\ lock[n] = r /\ p # Null /\ p = holds[n]
      /\ UNCHANGED <<table, holds, lock, forgetting, reaping, needsLibc, forgotten>>
      /\ Null \notin Proc /\ Null \notin Request
  BY DEF Send, WorkersInv, Locked, Exchanging, Held, WorkersConstants
<1>2. /\ request \in [Request -> RequestState] /\ proc \in [Proc -> ProcState]
      /\ holds \in [Slot -> Proc \cup {Null}] /\ p \in Proc
  BY <1>1 DEF WorkersInv, WorkersTypeOK, RequestState, ProcState
<1>3. proc[p].pipe = <<>>
  BY <1>1 DEF WorkersInv, Piped
<1>4. Append(proc[p].pipe, r) = <<r>> /\ <<r>> \in Seq(Request)
  BY <1>3
<1>5. proc' = [proc EXCEPT ![p].pipe = <<r>>]
  BY <1>4 DEF Send
<1>6. /\ proc' \in [Proc -> ProcState] /\ proc'[p].pipe = <<r>>
      /\ proc'[p].born = proc[p].born /\ proc'[p].conf = proc[p].conf
      /\ \A q \in Proc \ {p} : proc'[q] = proc[q]
  BY <1>2, <1>4, <1>5, PipeMoves
<1>7. /\ request' \in [Request -> RequestState]
      /\ request'[r].pc = "sent" /\ request'[r].slot = n
      /\ request'[r].conf = request[r].conf /\ request'[r].got = request[r].got
      /\ \A q \in Request \ {r} : request'[q] = request[q]
  BY <1>2, RequestMoves DEF Send
<1>8. unused' \subseteq unused
  BY DEF Send
<1> HIDE DEF p
<1>9. WorkersTypeOK'
  BY <1>1, <1>6, <1>7, <1>8 DEF WorkersInv, WorkersTypeOK, RequestState, ProcState
<1>10. Locked'
  <2>1. \A q \in Request : /\ request'[q].slot = request[q].slot
                           /\ Exchanging(q)' = Exchanging(q)
                           /\ request'[q].pc = request[q].pc \/ q = r
    BY <1>1, <1>7 DEF Exchanging
  <2>2. \A m \in Slot : lock[m] # Null => lock[m] \in Request
    BY DEF WorkersInv, WorkersTypeOK
  <2> QED BY <1>1, <2>1, <2>2 DEF WorkersInv, Locked
<1>11. \A m \in Slot \ {n} : holds[m] # Null => holds[m] \in Proc \ {p}
  BY <1>1, <1>2 DEF WorkersInv, Apart
<1>12. Apart'
  <2>1. \A q \in Proc : proc'[q].born = proc[q].born
    BY <1>6
  <2> QED BY <1>1, <1>2, <2>1 DEF WorkersInv, Apart
<1>13. Piped'
  <2> SUFFICES ASSUME NEW m \in Slot, holds'[m] # Null
               PROVE  proc'[holds'[m]].pipe =
                        IF lock'[m] # Null /\ request'[lock'[m]].pc = "sent" THEN <<lock'[m]>> ELSE <<>>
    BY DEF Piped
  <2>1. CASE m = n
    BY <2>1, <1>1, <1>6, <1>7
  <2>2. CASE m # n
    <3>1. lock[m] # Null => lock[m] \in Request \ {r}
      BY <2>2, <1>1 DEF WorkersInv, WorkersTypeOK, Locked
    <3> QED BY <2>2, <3>1, <1>1, <1>6, <1>7, <1>11 DEF WorkersInv, Piped
  <2> QED BY <2>1, <2>2
<1>14. Confined' /\ BusyIsSpared'
  <2>1. \A q \in Request : Held(q)' = Held(q)
    BY <1>1, <1>7 DEF Held
  <2>2. \A q \in Request : Exchanging(q) => Held(q) \in Proc \cup {Null}
    BY <1>2 DEF WorkersInv, Locked, Held, Exchanging
  <2>3. \A q \in Request : Exchanging(q)' => Exchanging(q) /\ request'[q].conf = request[q].conf
    BY <1>1, <1>7 DEF Exchanging
  <2>4. \A q \in Proc : proc'[q].conf = proc[q].conf
    BY <1>6
  <2>5. Confined'
    BY <2>1, <2>2, <2>3, <2>4 DEF WorkersInv, Confined
  <2>6. BusyIsSpared'
    BY <1>1, <1>7, <2>1 DEF WorkersInv, BusyIsSpared, p
  <2> QED BY <2>5, <2>6
<1>15. AnswerIsOwn'
  BY <1>7 DEF WorkersInv, AnswerIsOwn
<1> QED BY <1>9, <1>10, <1>12, <1>13, <1>14, <1>15 DEF WorkersInv

LEMMA DiesKeeps ==
  ASSUME WorkersInv, NEW p \in Proc, Dies(p)
  PROVE  WorkersInv'
<1>1. proc \in [Proc -> ProcState] /\ holds \in [Slot -> Proc \cup {Null}]
  BY DEF WorkersInv, WorkersTypeOK, ProcState
<1>2. /\ proc' \in [Proc -> ProcState]
      /\ \A q \in Proc : /\ proc'[q].pipe = proc[q].pipe
                         /\ proc'[q].born = proc[q].born /\ proc'[q].conf = proc[q].conf
  BY <1>1, ProcDies DEF Dies
<1>3. UNCHANGED <<table, holds, lock, unused, request, forgetting, reaping, needsLibc, forgotten>>
  BY DEF Dies
<1>4. WorkersTypeOK'
  BY <1>2, <1>3 DEF WorkersInv, WorkersTypeOK, ProcState
<1>5. Locked' /\ BusyIsSpared' /\ AnswerIsOwn'
  BY <1>3 DEF WorkersInv, Locked, BusyIsSpared, AnswerIsOwn, Exchanging, Held
<1>6. Apart' /\ Piped'
  BY <1>1, <1>2, <1>3 DEF WorkersInv, Apart, Piped
<1>7. \A q \in Request : Exchanging(q) => Held(q) \in Proc \cup {Null}
  BY <1>1 DEF WorkersInv, Locked, Held, Exchanging
<1>8. Confined'
  BY <1>2, <1>3, <1>7 DEF WorkersInv, Confined, Exchanging, Held
<1> QED BY <1>4, <1>5, <1>6, <1>8 DEF WorkersInv

\* forget and the reaper empty only slots that nobody has locked.
LEMMA EmptyingKeeps ==
  ASSUME WorkersConstants, WorkersInv,
         \/ ForgetSession \/ ReapStarts
         \/ \E n \in Slot : EmptyForgotten(n) \/ GoesUnused(n) \/ ReapSlot(n)
  PROVE  WorkersInv'
<1>0. /\ table \in [Key -> Slot \cup {Null}] /\ holds \in [Slot -> Proc \cup {Null}]
      /\ unused \subseteq Slot /\ forgetting \subseteq Slot /\ reaping \subseteq Slot
      /\ needsLibc \in BOOLEAN /\ forgotten \in BOOLEAN
  BY DEF WorkersInv, WorkersTypeOK
<1>1. /\ UNCHANGED <<lock, proc, request>>
      /\ \A m \in Slot : holds'[m] # holds[m] => holds'[m] = Null /\ lock[m] = Null
      /\ holds' \in [Slot -> Proc \cup {Null}]
      /\ table' \in [Key -> Slot \cup {Null}]
      /\ unused' \subseteq Slot /\ forgetting' \subseteq Slot /\ reaping' \subseteq Slot
      /\ needsLibc' \in BOOLEAN /\ forgotten' \in BOOLEAN
  <2>1. CASE ForgetSession
    <3>1. \A k \in Zig : table[k] # Null => table[k] \in Slot
      BY <1>0 DEF Key
    <3> QED BY <2>1, <3>1, <1>0 DEF ForgetSession
  <2>2. CASE ReapStarts
    <3>1. \A k \in Own \cup Zig : table[k] # Null => table[k] \in Slot
      BY <1>0 DEF Key
    <3> QED BY <2>2, <3>1, <1>0 DEF ReapStarts
  <2>3. ASSUME NEW n \in Slot, EmptyForgotten(n)
        PROVE  /\ UNCHANGED <<lock, proc, request>>
               /\ \A m \in Slot : holds'[m] # holds[m] => holds'[m] = Null /\ lock[m] = Null
               /\ holds' \in [Slot -> Proc \cup {Null}] /\ UNCHANGED <<table, needsLibc, forgotten>>
               /\ unused' \subseteq Slot /\ forgetting' \subseteq Slot /\ reaping' \subseteq Slot
    BY <2>3, <1>0 DEF EmptyForgotten
  <2>4. ASSUME NEW n \in Slot, GoesUnused(n)
        PROVE  /\ UNCHANGED <<lock, proc, request>>
               /\ \A m \in Slot : holds'[m] # holds[m] => holds'[m] = Null /\ lock[m] = Null
               /\ holds' \in [Slot -> Proc \cup {Null}] /\ UNCHANGED <<table, needsLibc, forgotten>>
               /\ unused' \subseteq Slot /\ forgetting' \subseteq Slot /\ reaping' \subseteq Slot
    BY <2>4, <1>0 DEF GoesUnused
  <2>5. ASSUME NEW n \in Slot, ReapSlot(n)
        PROVE  /\ UNCHANGED <<lock, proc, request>>
               /\ \A m \in Slot : holds'[m] # holds[m] => holds'[m] = Null /\ lock[m] = Null
               /\ holds' \in [Slot -> Proc \cup {Null}] /\ UNCHANGED <<table, needsLibc, forgotten>>
               /\ unused' \subseteq Slot /\ forgetting' \subseteq Slot /\ reaping' \subseteq Slot
    BY <2>5, <1>0 DEF ReapSlot
  <2> QED BY <1>0, <2>1, <2>2, <2>3, <2>4, <2>5
<1>2. WorkersTypeOK'
  BY <1>1 DEF WorkersInv, WorkersTypeOK
<1>3. Locked' /\ AnswerIsOwn'
  BY <1>1 DEF WorkersInv, Locked, AnswerIsOwn, Exchanging
<1>4. Apart' /\ Piped'
  BY <1>1 DEF WorkersInv, Apart, Piped
<1>5. \A q \in Request : Exchanging(q) => Held(q)' = Held(q)
  BY <1>1 DEF WorkersInv, WorkersConstants, Locked, Exchanging, Held
<1>6. Confined' /\ BusyIsSpared'
  BY <1>1, <1>5 DEF WorkersInv, Confined, BusyIsSpared, Exchanging
<1> QED BY <1>2, <1>3, <1>4, <1>6 DEF WorkersInv

LEMMA WorkersKeep ==
  ASSUME WorkersConstants
  PROVE  WorkersInv /\ [WorkersNext]_wvars => WorkersInv'
<1> SUFFICES ASSUME WorkersInv, [WorkersNext]_wvars PROVE WorkersInv'
  OBVIOUS
<1>1. ASSUME NEW r \in Request, Exchange(r) PROVE WorkersInv'
  BY <1>1, LockSlotKeeps, SpawnKeeps, SendKeeps, EndKeeps DEF Exchange
<1>2. CASE Asked
  BY <1>2, FindSlotKeeps DEF Asked
<1>3. ASSUME NEW p \in Proc, Dies(p) PROVE WorkersInv'
  BY <1>3, DiesKeeps
<1>4. CASE \/ ForgetSession \/ ReapStarts
           \/ \E n \in Slot : EmptyForgotten(n) \/ GoesUnused(n) \/ ReapSlot(n)
  BY <1>4, EmptyingKeeps
<1>5. CASE UNCHANGED wvars
  BY <1>5 DEF wvars, WorkersInv, WorkersTypeOK, Locked, Apart, Piped, Confined, BusyIsSpared,
     AnswerIsOwn, Exchanging, Held
<1> QED BY <1>1, <1>2, <1>3, <1>4, <1>5 DEF WorkersNext, WorkersInternal

LEMMA WorkersStart ==
  ASSUME WorkersConstants
  PROVE  WorkersInit => WorkersInv
<1> SUFFICES ASSUME WorkersInit PROVE WorkersInv
  OBVIOUS
<1> USE DEF WorkersConstants, WorkersInit
<1>1. \A r \in Request : request[r].pc = "new" /\ request[r].got = "nothing"
  OBVIOUS
<1>2. \A n \in Slot : holds[n] = Null /\ lock[n] = Null
  OBVIOUS
<1>3. WorkersTypeOK
  <2>1. proc \in [Proc -> ProcState]
    BY DEF ProcState
  <2>2. request \in [Request -> RequestState]
    BY DEF RequestState
  <2> QED BY <2>1, <2>2 DEF WorkersTypeOK, ProcState, RequestState
<1>4. Locked /\ Apart /\ Piped /\ Confined /\ BusyIsSpared /\ AnswerIsOwn
  BY <1>1, <1>2 DEF Locked, Apart, Piped, Confined, BusyIsSpared, AnswerIsOwn, Exchanging
<1> QED BY <1>3, <1>4 DEF WorkersInv

-----------------------------------------------------------------------------
(* Theorems.                                                               *)

\* The inductive invariant of slots, processes and their requests.
THEOREM WorkersInvariant ==
  ASSUME WorkersConstants
  PROVE  WorkersSpec => []WorkersInv
<1>1. WorkersInit => WorkersInv
  BY WorkersStart
<1>2. WorkersInv /\ [WorkersNext]_wvars => WorkersInv'
  BY WorkersKeep
<1> QED BY <1>1, <1>2, PTL DEF WorkersSpec

\* (exchange, update_inner) Although a compile server's stream carries no ids,
\* no request is ever given another's answer.
THEOREM AnswersAreOwn ==
  ASSUME WorkersConstants
  PROVE  WorkersSpec => []AnswerIsOwn
<1>1. WorkersInv => AnswerIsOwn
  BY DEF WorkersInv
<1> QED BY <1>1, WorkersInvariant, PTL

\* (WorkerSpec, Server.key) A request is answered from within its own sandbox.
THEOREM AnswersAreConfined ==
  ASSUME WorkersConstants
  PROVE  WorkersSpec => []RightConfinement
<1>1. WorkersInv => RightConfinement
  BY DEF WorkersInv, Confined, RightConfinement, Exchanging
<1> QED BY <1>1, WorkersInvariant, PTL

\* (forget, reap_idle) The process a request waits for stays where it is,
\* whatever is forgotten or reaped meanwhile.
THEOREM BusyWorkersAreSpared ==
  ASSUME WorkersConstants
  PROVE  WorkersSpec => []BusyIsSpared
<1>1. WorkersInv => BusyIsSpared
  BY DEF WorkersInv
<1> QED BY <1>1, WorkersInvariant, PTL
=============================================================================
