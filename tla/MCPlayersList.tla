---------------------------- MODULE MCPlayersList ----------------------------
(* Instances of PlayersList for TLC. *)
EXTENDS PlayersList, TLC
==============================================================================
