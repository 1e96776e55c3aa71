----------------------------- MODULE MCTeardown -----------------------------
(* The traffic of Teardown for TLC: two sessions created and swept side by  *)
(* side; one passed from socket to socket over a stop or a crash; one with  *)
(* helpers.                                                                 *)
EXTENDS Teardown

CONSTANTS scratch, project, first, second, ask, again

Load(ids, sockets, requests, keys, events) ==
  [ids |-> ids, sockets |-> sockets, requests |-> requests, keys |-> keys,
   drops |-> "drop" \in events, days |-> "day" \in events, stops |-> "stop" \in events]

MCLoads ==
  { Load({scratch, project}, {first}, {}, {}, {"drop", "day"}),
    Load({scratch}, {first, second}, {}, {}, {"drop", "day", "stop"}),
    Load({scratch}, {first}, {ask}, {"clang", "program"}, {"drop"}),
    Load({scratch}, {first}, {ask, again}, {"node"}, {}),
    Load({scratch}, {first}, {ask, again}, {"clang"}, {}),
    Load({scratch}, {first}, {ask, again}, {"program"}, {}) }
=============================================================================
