--------------------------- MODULE UbControllerRx ---------------------------
(***************************************************************************)
(* rtl/ub_controller_rx.v with the blocks it instantiates: the 8-cycle     *)
(* codeword accumulator, the FEC decoder (UbPcsFecDec), the 6-flit         *)
(* de-accumulator, the descrambler and the reassembler.  Nothing in the    *)
(* lane input frames a codeword: the accumulator counts lane_valid cycles. *)
(* The CRC checker's running register drives only the status bit crc_pass  *)
(* and is left out.                                                        *)
(***************************************************************************)
EXTENDS UbPcsCodeword

CONSTANT NoPattern   \* see UbPcsFecDec

VARIABLES
  fec_cw, cw_cnt, fec_cw_valid,             \* codeword accumulator
  state, cw_reg, syndromes_zero_q, msg_out, valid_out, fec_fail,
  ibm_start, chien_start, ibm_s, ibm_active, ibm_done, cycle_cnt, lambda,
  chien_eval, chien_active, chien_done, error_magnitudes,
  flits_reg, flit_cnt, flits_active,        \* de-accumulator
  lfsr, descram_flit, descram_flit_valid,   \* ub_pcs_descrambler
  net_data, net_valid, net_sop, net_eop     \* ub_dll_reassembler

\* fec_msg and fec_msg_valid of the source are the decoder's msg_out and
\* valid_out; its port is the accumulator.
Dec == INSTANCE UbPcsFecDec WITH
         cw_in <- fec_cw, valid_in <- fec_cw_valid, Inputs <- {ZeroWord}

accu == << fec_cw, cw_cnt, fec_cw_valid >>
deaccu == << flits_reg, flit_cnt, flits_active >>
descram == << lfsr, descram_flit, descram_flit_valid >>
net == << net_data, net_valid, net_sop, net_eop >>
rxVars == << accu, Dec!decVars, deaccu, descram, net >>

-----------------------------------------------------------------------------
\* {chunk, fec_cw[1023:128]}
ShiftWord(w, s) ==
  [i \in SliceIndex |-> IF i = BeatsPerCw - 1 THEN s ELSE w[i + 1]]

\* Fault: the register shifts on idle cycles too.
AccumulateAlways(lane_valid, slice) ==
  /\ fec_cw_valid' = (lane_valid /\ cw_cnt = BeatsPerCw - 1)
  /\ fec_cw' = ShiftWord(fec_cw, slice)
  /\ cw_cnt' = IF lane_valid THEN (cw_cnt + 1) % BeatsPerCw ELSE cw_cnt

Accumulate(lane_valid, slice) ==
  /\ fec_cw_valid' = (lane_valid /\ cw_cnt = BeatsPerCw - 1)
  /\ IF lane_valid
     THEN /\ fec_cw' = ShiftWord(fec_cw, slice)
          /\ cw_cnt' = IF cw_cnt = BeatsPerCw - 1 THEN 0 ELSE cw_cnt + 1
     ELSE UNCHANGED << fec_cw, cw_cnt >>

LoadMessage ==
  /\ valid_out
  /\ flits_reg' = msg_out
  /\ flit_cnt' = 0
  /\ flits_active' = TRUE

EmitFlit ==
  /\ ~valid_out /\ flits_active
  /\ flits_active' = (flit_cnt # FlitsPerCw - 1)
  /\ flit_cnt' = flit_cnt + 1
  /\ UNCHANGED flits_reg

NoMessage ==
  /\ ~valid_out /\ ~flits_active
  /\ UNCHANGED deaccu

Deaccumulate == LoadMessage \/ EmitFlit \/ NoMessage

\* flits_reg >> ((5 - flit_cnt) * 160): the oldest flit first.
\* Fault: the newest flit first.
ScramFlitReversed == flits_reg[FlitsPerCw - flit_cnt]

ScramFlit == flits_reg[flit_cnt + 1]

\* Fault: the LFSR shifts on every cycle, not on every flit.
DescramblerFree ==
  /\ descram_flit_valid' = flits_active
  /\ lfsr' = NextLfsr(lfsr)
  /\ IF flits_active THEN descram_flit' = XorKey(ScramFlit, lfsr[LfsrLen - 1])
                     ELSE UNCHANGED descram_flit

Descrambler ==
  /\ descram_flit_valid' = flits_active
  /\ IF flits_active
     THEN /\ descram_flit' = XorKey(ScramFlit, lfsr[LfsrLen - 1])
          /\ lfsr' = NextLfsr(lfsr)
     ELSE UNCHANGED << descram_flit, lfsr >>

\* A flit whose top byte is 0x80 is taken for the first of a packet and
\* its top word is cleared.  net_ready is not looked at and net_eop is
\* never set.
IsSop(f) == f.top = Lph
Stripped(f) == IF IsSop(f) THEN [f EXCEPT !.top = "00000000"] ELSE f

Reassembler ==
  /\ net_valid' = descram_flit_valid
  /\ IF descram_flit_valid
     THEN net_sop' = IsSop(descram_flit) /\ net_data' = Stripped(descram_flit)
     ELSE UNCHANGED << net_sop, net_data >>
  /\ UNCHANGED net_eop

-----------------------------------------------------------------------------
RxInit ==
  /\ fec_cw = ZeroWord /\ cw_cnt = 0 /\ fec_cw_valid = FALSE
  /\ Dec!DecInit
  /\ flits_reg = ZeroMessage /\ flit_cnt = 0 /\ flits_active = FALSE
  /\ lfsr = OnesLfsr
  /\ descram_flit = ZeroFlit /\ descram_flit_valid = FALSE
  /\ net_data = ZeroFlit /\ net_valid = FALSE
  /\ net_sop = FALSE /\ net_eop = FALSE

RxReset ==
  /\ fec_cw' = ZeroWord /\ cw_cnt' = 0 /\ fec_cw_valid' = FALSE
  /\ Dec!DecReset
  /\ flits_reg' = ZeroMessage /\ flit_cnt' = 0 /\ flits_active' = FALSE
  /\ lfsr' = OnesLfsr
  /\ descram_flit' = ZeroFlit /\ descram_flit_valid' = FALSE
  /\ net_data' = ZeroFlit /\ net_valid' = FALSE
  /\ net_sop' = FALSE /\ net_eop' = FALSE

RxClk(lane_valid, slice) ==
  /\ Accumulate(lane_valid, slice)
  /\ Dec!DecClk
  /\ Deaccumulate
  /\ Descrambler
  /\ Reassembler

=============================================================================
