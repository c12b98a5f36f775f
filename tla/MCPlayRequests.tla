---------------------------- MODULE MCPlayRequests ----------------------------
(* Instances of PlayRequests for TLC. *)
EXTENDS PlayRequests, TLC

PlayerSymmetry == Permutations(Player)
===============================================================================
