-------------------------- MODULE MCUbPrivateLeaf --------------------------
(***************************************************************************)
(* Contract files for TLC: three versions of leaf 1, one with a parameter  *)
(* for a width and one whose prose names no assertion, a contract of leaf  *)
(* 2, and a file without YAML.  Any of them may be in either file.         *)
(***************************************************************************)
EXTENDS UbPrivateLeaf

File(leaf, width, period, prose) ==
  [head  |-> [leaf |-> leaf, width |-> width, period |-> period,
              asserts |-> {"AP_LAT1"}, sound |-> TRUE],
   prose |-> prose]

MCContracts ==
  {File(1, "8", 4, {"AP_LAT1"}), File(1, "EID_W", 2, {"AP_LAT1"}), File(1, "8", 4, {}),
   File(2, "8", 4, {"AP_LAT1"}), [head |-> None, prose |-> {"AP_LAT1"}]}

\* A check of stubs reads the one, a check of cuts the other.
MCOnMain == {{"script"}, {"cut_rule"}}

MCDelays == {1, 3}   \* the first meets both periods, the other one of them
=============================================================================
