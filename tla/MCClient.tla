------------------------------ MODULE MCClient ------------------------------
(***************************************************************************)
(* One client with a queue of two and five versions.  The last of them is  *)
(* an edit, which can overtake the answers to whatever came before it.     *)
(***************************************************************************)
EXTENDS ClientChannel

MCOps == [update |-> {2, 3, 5}, create |-> {2, 4}, rename |-> {3}, delete |-> {2, 3},
          reset |-> {2, 3}]
=============================================================================
