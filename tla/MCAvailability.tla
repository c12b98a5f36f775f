---------------------------- MODULE MCAvailability ----------------------------
(* Instances of Availability for TLC. *)
EXTENDS Availability, TLC

DeviceSymmetry == Permutations(Device)
===============================================================================
