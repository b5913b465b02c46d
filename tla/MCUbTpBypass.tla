---------------------------- MODULE MCUbTpBypass ----------------------------
(* Instances of UbTpBypass for TLC. *)
EXTENDS UbTpBypass

MCFitting == Tpmsn \cup {None}
MCAnything == Tpmsn \cup {None, Wide}
=============================================================================
