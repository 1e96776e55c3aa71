------------------------------- MODULE RunSlot -------------------------------
(***************************************************************************)
(* What a socket's run scheduler promises, with its tokens, locks and      *)
(* tasks left out: one run is shown at a time, it has generated/ to itself *)
(* apart from runs that have been given up on, and a run that has been     *)
(* stopped or has ended never comes back.                                  *)
(***************************************************************************)
CONSTANTS Run, None

VARIABLES
  shown,    \* the run whose events the client is sent
  busy,     \* runs that may be at work in generated/
  overdue,  \* runs a start gave up waiting for
  begun     \* runs that have ever been begun

slot == <<shown, busy, overdue, begun>>

Init ==
  /\ shown = None
  /\ busy = {}
  /\ overdue = {}
  /\ begun = {}

\* A new run takes over once the one it supersedes is gone or given up on.
Begin(r) ==
  /\ shown = None
  /\ busy \subseteq overdue
  /\ r \notin begun
  /\ shown' = r
  /\ busy' = busy \cup {r}
  /\ begun' = begun \cup {r}
  /\ UNCHANGED overdue

\* Stopped, superseded, or over and told.
Hide ==
  /\ shown # None
  /\ shown' = None
  /\ UNCHANGED <<busy, overdue, begun>>

\* The run's task has unwound.
Leave(r) ==
  /\ r \in busy
  /\ busy' = busy \ {r}
  /\ UNCHANGED <<shown, overdue, begun>>

\* A start has waited for r for as long as it will; r is not shown by then.
GiveUp(r) ==
  /\ r \in busy
  /\ shown # r
  /\ overdue' = overdue \cup {r}
  /\ UNCHANGED <<shown, busy, begun>>

Next == Hide \/ \E r \in Run : Begin(r) \/ Leave(r) \/ GiveUp(r)

Spec == Init /\ [][Next]_slot
=============================================================================
