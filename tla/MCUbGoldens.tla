---------------------------- MODULE MCUbGoldens ----------------------------
(***************************************************************************)
(* The golden models and the bench skeleton for TLC, one run for all: a    *)
(* behaviour is one of the transaction bypass, one of the memory bench or  *)
(* one of the agents.  They share nothing, so the others stay as they are. *)
(* Of the agents either the streams run or the accesses: they share no     *)
(* register of the harness.                                                *)
(***************************************************************************)
EXTENDS UbTpBypass, UbCmnMemBench, UbVibeUvm

VARIABLE golden

allVars == << tpVars, vars, uvmVars, golden >>

TpPart  == golden = "tp"  /\ TpNext    /\ UNCHANGED << vars, uvmVars, golden >>
MemPart == golden = "mem" /\ BenchNext /\ UNCHANGED << tpVars, uvmVars, golden >>

Quiet == csr' = NoBeat /\ test_mode' = FALSE /\ inj' = ZeroPayload
Dry   == vr_in' = NoBeat /\ vo_in' = NoBeat /\ vr_out_ready' = TRUE

StreamPart == golden = "streams" /\ Quiet /\ UvmNext /\ UNCHANGED << tpVars, vars, golden >>
AccessPart == golden = "csr"     /\ Dry   /\ UvmNext /\ UNCHANGED << tpVars, vars, golden >>

GoldensInit ==
  /\ golden \in {"tp", "mem", "streams", "csr"}
  /\ TpInit /\ BenchInit /\ UvmInit
  /\ golden # "mem" => cells = [a \in BusAddr |-> ZeroWord] /\ rdata_q = ZeroWord

GoldensSpec == GoldensInit /\ [][TpPart \/ MemPart \/ StreamPart \/ AccessPart]_allVars

MCFitting == Tpmsn \cup {None}

\* Two words and one address beyond them: one netlist cell is beyond DEPTH.
MCBusAddr == 0 .. Depth
MCSeg == {"lo", "hi"}
MCPowerUp == {[s \in Seg |-> d] : d \in Data}
=============================================================================
