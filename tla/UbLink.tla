------------------------------- MODULE UbLink -------------------------------
(***************************************************************************)
(* The loopback of tb/ub_controller_rx_tb.v: the lanes of UbControllerTx   *)
(* drive those of UbControllerRx, both on one clock and one reset.  The    *)
(* channel between them may put byte errors on the slices of a codeword.   *)
(***************************************************************************)
EXTENDS UbControllerTx, UbControllerRx

CONSTANTS
  MaxErrs,   \* byte errors put on one codeword
  NoItem     \* see UbFlitChannel

ASSUME LinkAssumption ==
  /\ MaxErrs \in Nat
  /\ NoItem \notin [sop : BOOLEAN, data : Flit]

VARIABLES
  net_in,    \* what the network side handed over at the last edge
  cw_errs    \* byte errors put so far on the codeword being sent

vars == << rxVars, txVars, net_in, cw_errs >>

-----------------------------------------------------------------------------
Init == RxInit /\ TxInit /\ net_in = Idle /\ cw_errs = 0

Channel(e) ==
  /\ e > 0 => dist_active
  /\ cw_errs + e <= MaxErrs
  /\ cw_errs' = IF dist_cnt = BeatsPerCw - 1 THEN 0 ELSE cw_errs + e

Clk(in, e) ==
  /\ TxClk(in)
  /\ Channel(e)
  /\ RxClk(dist_active, [LaneSlice EXCEPT !.err = e])
  /\ net_in' = in

AnyClk == \E in \in NetInput, e \in 0 .. MaxErrs : Clk(in, e)

Reset == RxReset /\ TxReset /\ net_in' = Idle /\ cw_errs' = 0

Next == AnyClk \/ Reset

Spec == Init /\ [][Next]_vars

FairSpec == Spec /\ WF_vars(AnyClk)

-----------------------------------------------------------------------------
(* The flits in flight, oldest first, read off the registers they are in.  *)

OneIf(valid, f) == IF valid THEN << f >> ELSE << >>
AllIf(valid, m) == IF valid THEN m ELSE << >>

Scrambled ==
  AllIf(flits_active, SubSeq(flits_reg, flit_cnt + 1, FlitsPerCw))
  \o AllIf(valid_out, msg_out)
  \o AllIf(state # "IDLE", MsgOf(cw_reg))
  \o AllIf(fec_cw_valid, MsgOf(fec_cw))
  \o AllIf(dist_active, symbols_reg)
  \o AllIf(cw_valid, cw_out)
  \o AllIf(fec_msg_valid, fec_msg)
  \o SubSeq(fec_msg, FlitsPerCw - tx_flit_cnt + 1, FlitsPerCw)
  \o OneIf(flit_scram_valid, flit_scram)

InFlight ==
  OneIf(descram_flit_valid, descram_flit)
  \o Scrambled
  \o OneIf(flit_seg_valid, flit_seg)

\* The flit before scrambling, and what the reassembler makes of it.
Plain(f) == XorKey(f, f.inv)
AsDelivered(f) == [sop |-> IsSop(Plain(f)), data |-> Stripped(Plain(f))]

\* What the network side means by what it hands over: the segmenter gives
\* the top word of a SOP flit to the header.
AsMeant(in) ==
  [sop |-> in.sop,
   data |-> IF in.sop THEN [in.flit EXCEPT !.top = "00000000"] ELSE in.flit]

Abstract == INSTANCE UbFlitChannel WITH
  Item <- [sop : BOOLEAN, data : Flit],
  inp <- IF net_in.valid THEN AsMeant(net_in) ELSE NoItem,
  queue <- [i \in 1 .. Len(InFlight) |-> AsDelivered(InFlight[i])],
  out <- IF net_valid THEN [sop |-> net_sop, data |-> net_data] ELSE NoItem

(* Loopback is lossless, in order and exact for a source paced by Spacing: *)
(* every flit handed over is delivered once with its payload and SOP mark, *)
(* although the channel puts errors on codewords.                          *)
ImplementsChannel == Abstract!Spec

(* Whenever a codeword's worth of flits is on its way, flits come out: no  *)
(* full codeword stays in the pipeline, unless reset empties it.  Fewer    *)
(* flits may stay: nothing flushes an incomplete codeword.                 *)
CodewordsComeOut ==
  Len(InFlight) >= FlitsPerCw ~> (net_valid \/ InFlight = << >>)

(* Both LFSRs are in the same state when no flit is between scrambler and  *)
(* descrambler: additive scrambling has nothing to resynchronise it.       *)
LfsrsInStep == Scrambled = << >> => lfsr = tx_lfsr
=============================================================================
