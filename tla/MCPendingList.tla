---------------------------- MODULE MCPendingList ----------------------------
(* Instances of PendingList for TLC. *)
EXTENDS PendingList, TLC

SenderSymmetry == Permutations(Sender)
===============================================================================
