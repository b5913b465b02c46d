------------------------------ MODULE MCUbGate ------------------------------
(***************************************************************************)
(* The gate for TLC, one run for both of its state machines: a behaviour   *)
(* is one of the jobs on a tree or one of the files of private leaves.     *)
(* They share nothing: the other one stays as it is.                       *)
(***************************************************************************)
EXTENDS MCUbGateRun, MCUbPrivateLeaf

VARIABLE part

allVars == << vars, plVars, part >>

RunPart  == part = "run"  /\ Next   /\ UNCHANGED << plVars, part >>
LeafPart == part = "leaf" /\ PlNext /\ UNCHANGED << vars, part >>

NoContracts ==
  /\ contract = [l \in Leaf |-> None]
  /\ stubDir = {} /\ stub = contract /\ cut = contract /\ attest = contract
  /\ setupReport = contract
  /\ landed = {"script"} /\ killed = FALSE /\ steps = 0

NoRun ==
  /\ tree = T({}, {}) /\ away = {} /\ mode = "ci"
  /\ pc = 0 /\ failed = FALSE /\ runs = 0 /\ verdict = "none"
  /\ equivStatus = "absent" /\ proved = "none" /\ inherited = "no"

GateInit ==
  \/ part = "run"  /\ Init   /\ NoContracts
  \/ part = "leaf" /\ PlInit /\ NoRun

GateSpec == GateInit /\ [][RunPart \/ LeafPart]_allVars
=============================================================================
