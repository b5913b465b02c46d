---------------------------- MODULE MCUbRxLanes ----------------------------
(* Instances of UbRxLanes for TLC. *)
EXTENDS UbRxLanes

MCBody == 0 .. NumCws - 1
=============================================================================
