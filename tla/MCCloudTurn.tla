------------------------------ MODULE MCCloudTurn ------------------------------
(***************************************************************************)
(* CloudTurn on small instances.  Run slots are interchangeable: no action *)
(* distinguishes them.  Dead is not a slot, so it is not permuted.         *)
(***************************************************************************)
EXTENDS CloudTurn, TLC

MCOwners == 1..MaxDeliveries
RunSymmetry == Permutations(Senders \ {Dead})
=============================================================================
