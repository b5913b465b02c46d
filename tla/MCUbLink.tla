------------------------------ MODULE MCUbLink ------------------------------
(* Instances of UbLink for TLC. *)
EXTENDS UbLink

MCBody == 0 .. NumTags - 1
MCZeroTop == {"00000000"}
MCTops == {"7FFFFFFF"}
=============================================================================
