-------------------------- MODULE MCSharedWorkspace --------------------------
(* Instances of SharedWorkspace for TLC.  Sessions are interchangeable.     *)
EXTENDS SharedWorkspace, TLC

Symmetry == Permutations(Client)
=============================================================================
