--------------------------- MODULE UbControllerTx ---------------------------
(***************************************************************************)
(* rtl/ub_controller_tx.v with the blocks it instantiates: segmenter,      *)
(* scrambler, the 6-flit accumulator, the RS encoder's output register and *)
(* the lane serialiser.  Every register changes at the rising clock edge,  *)
(* all of them from the values before the edge, so one clock edge is one   *)
(* action, the conjunction of one operator per always block.               *)
(*                                                                         *)
(* net_ready is the constant 1: nothing in the pipeline can hold the       *)
(* source back.  The network side is therefore part of this module as a    *)
(* source that spaces the last flits of two consecutive codewords by at    *)
(* least Spacing clock cycles; Spacing = 1 is a source that obeys only     *)
(* net_ready.                                                              *)
(***************************************************************************)
EXTENDS UbPcsCodeword

CONSTANTS
  Spacing,            \* the pacing of the source, see above
  NetTops,            \* values of net_data[159:128] the source uses
  NetSops,            \* values of net_sop the source uses
  NumTags             \* payloads are numbered modulo NumTags

ASSUME TxAssumption ==
  /\ Spacing \in Nat \ {0}
  /\ NetTops \subseteq TopWord
  /\ NetSops \subseteq BOOLEAN
  /\ NumTags \in Nat \ {0}
  /\ 0 .. NumTags - 1 \subseteq Body

\* lfsr and flit_cnt are tx_* here: the receiver has registers of these names.
VARIABLES
  flit_seg, flit_seg_valid,             \* ub_dll_segmenter
  tx_lfsr, flit_scram, flit_scram_valid,   \* ub_pcs_scrambler
  fec_msg, tx_flit_cnt, fec_msg_valid,     \* 6-flit accumulator
  cw_out, cw_valid,                     \* ub_pcs_fec_enc
  symbols_reg, dist_cnt, dist_active    \* lane serialiser

VARIABLES
  src_tag,   \* number of the next payload
  src_cnt,   \* flits of the current codeword already handed over
  src_hold   \* cycles before a codeword may be completed again

regs == << flit_seg, flit_seg_valid, tx_lfsr, flit_scram, flit_scram_valid,
           fec_msg, tx_flit_cnt, fec_msg_valid, cw_out, cw_valid,
           symbols_reg, dist_cnt, dist_active >>
src == << src_tag, src_cnt, src_hold >>
txVars == << regs, src >>

-----------------------------------------------------------------------------
(* The network side *)

Idle == [valid |-> FALSE, sop |-> FALSE, flit |-> ZeroFlit]

NetInput ==
  {Idle} \cup
  { [valid |-> TRUE, sop |-> s, flit |-> [top |-> t, body |-> src_tag, inv |-> FALSE]] :
      s \in NetSops, t \in NetTops }

CompletesCw(in) == in.valid /\ src_cnt = FlitsPerCw - 1

Source(in) ==
  /\ CompletesCw(in) => src_hold = 0
  /\ src_tag' = IF in.valid THEN (src_tag + 1) % NumTags ELSE src_tag
  /\ src_cnt' = IF in.valid THEN (src_cnt + 1) % FlitsPerCw ELSE src_cnt
  /\ src_hold' = CASE CompletesCw(in) -> Spacing - 1
                   [] ~CompletesCw(in) /\ src_hold > 0 -> src_hold - 1
                   [] OTHER -> 0

-----------------------------------------------------------------------------
(* The always blocks *)

\* A SOP flit has its top word replaced by the link packet header.
WithHeader(in) == IF in.sop THEN [in.flit EXCEPT !.top = Lph] ELSE in.flit

Segmenter(in) ==
  /\ flit_seg_valid' = in.valid
  /\ flit_seg' = IF in.valid THEN WithHeader(in) ELSE flit_seg

Scrambler ==
  /\ flit_scram_valid' = flit_seg_valid
  /\ IF flit_seg_valid
     THEN /\ flit_scram' = XorKey(flit_seg, tx_lfsr[LfsrLen - 1])
          /\ tx_lfsr' = NextLfsr(tx_lfsr)
     ELSE UNCHANGED << flit_scram, tx_lfsr >>

\* {fec_msg[799:0], flit_scram}: index 1 is the oldest flit.
ShiftIn(m, f) == [i \in 1 .. FlitsPerCw |-> IF i = FlitsPerCw THEN f ELSE m[i + 1]]

\* Fault: a codeword of one flit less.
AccumulatorShort ==
  /\ fec_msg_valid' = (flit_scram_valid /\ tx_flit_cnt = FlitsPerCw - 2)
  /\ IF flit_scram_valid
     THEN /\ fec_msg' = ShiftIn(fec_msg, flit_scram)
          /\ tx_flit_cnt' = IF tx_flit_cnt = FlitsPerCw - 2 THEN 0 ELSE tx_flit_cnt + 1
     ELSE UNCHANGED << fec_msg, tx_flit_cnt >>

Accumulator ==
  /\ fec_msg_valid' = (flit_scram_valid /\ tx_flit_cnt = FlitsPerCw - 1)
  /\ IF flit_scram_valid
     THEN /\ fec_msg' = ShiftIn(fec_msg, flit_scram)
          /\ tx_flit_cnt' = IF tx_flit_cnt = FlitsPerCw - 1 THEN 0 ELSE tx_flit_cnt + 1
     ELSE UNCHANGED << fec_msg, tx_flit_cnt >>

FecEnc ==
  /\ cw_valid' = fec_msg_valid
  /\ cw_out' = IF fec_msg_valid THEN fec_msg ELSE cw_out

LoadSymbols ==
  /\ cw_valid
  /\ symbols_reg' = cw_out
  /\ dist_cnt' = 0
  /\ dist_active' = TRUE

SendSlice ==
  /\ ~cw_valid /\ dist_active
  /\ dist_active' = (dist_cnt # BeatsPerCw - 1)
  /\ dist_cnt' = (dist_cnt + 1) % BeatsPerCw
  /\ UNCHANGED symbols_reg

LanesIdle ==
  /\ ~cw_valid /\ ~dist_active
  /\ UNCHANGED << symbols_reg, dist_cnt, dist_active >>

Serialiser == LoadSymbols \/ SendSlice \/ LanesIdle

\* What the four lanes carry while lane_valid (= dist_active) is high.
LaneSlice == [msg |-> symbols_reg, idx |-> dist_cnt, err |-> 0]

-----------------------------------------------------------------------------
TxInit ==
  /\ flit_seg = ZeroFlit /\ flit_seg_valid = FALSE
  /\ tx_lfsr = OnesLfsr
  /\ flit_scram = ZeroFlit /\ flit_scram_valid = FALSE
  /\ fec_msg = ZeroMessage /\ tx_flit_cnt = 0 /\ fec_msg_valid = FALSE
  /\ cw_out = ZeroMessage /\ cw_valid = FALSE
  /\ symbols_reg = ZeroMessage /\ dist_cnt = 0 /\ dist_active = FALSE
  /\ src_tag = 0 /\ src_cnt = 0 /\ src_hold = 0

TxClk(in) ==
  /\ Source(in)
  /\ Segmenter(in)
  /\ Scrambler
  /\ Accumulator
  /\ FecEnc
  /\ Serialiser

\* negedge rst_n clears every register; the source starts over with it.
TxReset ==
  /\ flit_seg' = ZeroFlit /\ flit_seg_valid' = FALSE
  /\ tx_lfsr' = OnesLfsr
  /\ flit_scram' = ZeroFlit /\ flit_scram_valid' = FALSE
  /\ fec_msg' = ZeroMessage /\ tx_flit_cnt' = 0 /\ fec_msg_valid' = FALSE
  /\ cw_out' = ZeroMessage /\ cw_valid' = FALSE
  /\ symbols_reg' = ZeroMessage /\ dist_cnt' = 0 /\ dist_active' = FALSE
  /\ src_tag' = 0 /\ src_cnt' = 0 /\ src_hold' = 0

TxNext == (\E in \in NetInput : TxClk(in)) \/ TxReset

TxSpec == TxInit /\ [][TxNext]_txVars

-----------------------------------------------------------------------------
(* Every register and every counter of the source has its type: the two   *)
(* flit counters wrap at a codeword, the slice counter at its last slice.  *)
TxTypeOK ==
  /\ flit_seg \in Flit /\ flit_seg_valid \in BOOLEAN
  /\ tx_lfsr \in Lfsr
  /\ flit_scram \in Flit /\ flit_scram_valid \in BOOLEAN
  /\ fec_msg \in Message /\ tx_flit_cnt \in 0 .. FlitsPerCw - 1
  /\ fec_msg_valid \in BOOLEAN
  /\ cw_out \in Message /\ cw_valid \in BOOLEAN
  /\ symbols_reg \in Message /\ dist_cnt \in 0 .. BeatsPerCw - 1
  /\ dist_active \in BOOLEAN
  /\ src_tag \in 0 .. NumTags - 1
  /\ src_cnt \in 0 .. FlitsPerCw - 1
  /\ src_hold \in 0 .. Spacing - 1

(* A codeword never leaves the encoder while the serialiser still owes the *)
(* lanes more than the slice it is sending: ub_controller_tx.v loads       *)
(* symbols_reg on cw_valid whatever dist_cnt is.                           *)
NoOverrun ==
  cw_valid /\ dist_active => dist_cnt = BeatsPerCw - 1
=============================================================================
