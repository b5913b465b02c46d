------------------------ MODULE UbControllerTxProofs ------------------------
(***************************************************************************)
(* Proofs about UbControllerTx: its type invariant, and that a source      *)
(* which completes codewords at least BeatsPerCw cycles apart never makes  *)
(* the serialiser drop a slice.                                            *)
(***************************************************************************)
EXTENDS UbControllerTx, TLAPS

USE CodewordAssumption, TxAssumption

-----------------------------------------------------------------------------
(* Operators the registers are computed with.                              *)

LEMMA ZeroFlitType == ZeroFlit \in Flit
BY DEF ZeroFlit, Flit, TopWord

LEMMA ZeroMessageType == ZeroMessage \in Message
BY ZeroFlitType DEF ZeroMessage, Message

\* XOR with a scrambler bit gives a flit.
LEMMA XorKeyType ==
  ASSUME NEW f \in Flit, NEW k \in BOOLEAN PROVE XorKey(f, k) \in Flit
BY DEF XorKey, Flit, TopWord, Inverted

LEMMA HeaderType ==
  ASSUME NEW in, in.flit \in Flit PROVE WithHeader(in) \in Flit
BY DEF WithHeader, Flit, Lph, TopWord

LEMMA ShiftInType ==
  ASSUME NEW m \in Message, NEW f \in Flit PROVE ShiftIn(m, f) \in Message
BY DEF ShiftIn, Message

LEMMA LfsrType ==
  ASSUME NEW l \in Lfsr PROVE NextLfsr(l) \in Lfsr
<1> DEFINE bit(i) == IF i = 0 THEN l[LfsrLen - 1] # l[LfsrTap] ELSE l[i - 1]
<1>1. ASSUME NEW i \in 0 .. LfsrLen - 1 PROVE bit(i) \in BOOLEAN
  <2>1. CASE i = 0
    BY <2>1
  <2>2. CASE i # 0
    <3>1. i - 1 \in 0 .. LfsrLen - 1
      BY <2>2
    <3>2. l[i - 1] \in BOOLEAN
      BY <3>1 DEF Lfsr
    <3> QED BY <2>2, <3>2
  <2> QED BY <2>1, <2>2
<1> HIDE DEF bit
<1>2. [i \in 0 .. LfsrLen - 1 |-> bit(i)] \in Lfsr
  BY <1>1 DEF Lfsr
<1> QED BY <1>2 DEF NextLfsr, bit

LEMMA OnesType == OnesLfsr \in Lfsr
BY DEF OnesLfsr, Lfsr

\* What the network side hands over has its type.
LEMMA NetInputType ==
  ASSUME src_tag \in 0 .. NumTags - 1, NEW in \in NetInput
  PROVE in.valid \in BOOLEAN /\ in.flit \in Flit
<1>1. CASE in = Idle
  BY <1>1, ZeroFlitType DEF Idle
<1>2. CASE in # Idle
  <2>1. PICK s \in NetSops, t \in NetTops :
          in = [valid |-> TRUE, sop |-> s, flit |-> [top |-> t, body |-> src_tag, inv |-> FALSE]]
    BY <1>2 DEF NetInput
  <2>2. src_tag \in Body /\ t \in TopWord
    OBVIOUS
  <2> QED BY <2>1, <2>2 DEF Flit
<1> QED BY <1>1, <1>2

\* Counting modulo n.
LEMMA Wraps ==
  ASSUME NEW n \in Nat \ {0}, NEW x \in 0 .. n - 1
  PROVE (x + 1) % n = IF x = n - 1 THEN 0 ELSE x + 1
OBVIOUS

-----------------------------------------------------------------------------
\* The counters all start at 0.
LEMMA ZeroInRanges ==
  /\ 0 \in 0 .. FlitsPerCw - 1 /\ 0 \in 0 .. BeatsPerCw - 1
  /\ 0 \in 0 .. NumTags - 1 /\ 0 \in 0 .. Spacing - 1
OBVIOUS

LEMMA TypeInit == TxInit => TxTypeOK
BY ZeroFlitType, ZeroMessageType, OnesType, ZeroInRanges, Zenon DEF TxInit, TxTypeOK

LEMMA TypeStep == TxTypeOK /\ [TxNext]_txVars => TxTypeOK'
<1> SUFFICES ASSUME TxTypeOK, [TxNext]_txVars PROVE TxTypeOK'
  OBVIOUS
<1> USE DEF TxTypeOK
<1>1. ASSUME NEW in \in NetInput, TxClk(in) PROVE TxTypeOK'
  <2>1. /\ src_tag' \in 0 .. NumTags - 1
        /\ src_cnt' \in 0 .. FlitsPerCw - 1
        /\ src_hold' \in 0 .. Spacing - 1
    BY <1>1, NetInputType, Wraps DEF TxClk, Source, CompletesCw
  <2>2. flit_seg' \in Flit /\ flit_seg_valid' \in BOOLEAN
    BY <1>1, NetInputType, HeaderType DEF TxClk, Segmenter
  <2>3. tx_lfsr' \in Lfsr /\ flit_scram' \in Flit /\ flit_scram_valid' \in BOOLEAN
    <3>1. tx_lfsr[LfsrLen - 1] \in BOOLEAN
      BY DEF Lfsr
    <3> QED BY <1>1, <3>1, XorKeyType, LfsrType DEF TxClk, Scrambler
  <2>4. /\ fec_msg' \in Message /\ tx_flit_cnt' \in 0 .. FlitsPerCw - 1
        /\ fec_msg_valid' \in BOOLEAN
    BY <1>1, ShiftInType DEF TxClk, Accumulator
  <2>5. cw_out' \in Message /\ cw_valid' \in BOOLEAN
    BY <1>1 DEF TxClk, FecEnc
  <2>6. /\ symbols_reg' \in Message /\ dist_cnt' \in 0 .. BeatsPerCw - 1
        /\ dist_active' \in BOOLEAN
    <3>1. CASE LoadSymbols
      BY <1>1, <3>1, ZeroInRanges DEF LoadSymbols
    <3>2. CASE SendSlice
      BY <3>2, Wraps DEF SendSlice
    <3>3. CASE LanesIdle
      BY <3>3 DEF LanesIdle
    <3> QED BY <1>1, <3>1, <3>2, <3>3 DEF TxClk, Serialiser
  <2> QED BY <2>1, <2>2, <2>3, <2>4, <2>5, <2>6
<1>2. CASE TxReset
  BY <1>2, ZeroFlitType, ZeroMessageType, OnesType, ZeroInRanges, Zenon DEF TxReset
<1>3. CASE UNCHANGED txVars
  BY <1>3 DEF txVars, regs, src
<1> QED BY <1>1, <1>2, <1>3 DEF TxNext

(* Every register, and the source's counters, keep their type for every    *)
(* flit and codeword size, LFSR and pacing.                                *)
THEOREM TypeCorrect == TxSpec => []TxTypeOK
BY TypeInit, TypeStep, PTL DEF TxSpec

-----------------------------------------------------------------------------
(* The invariant behind NoOverrun.  Let the age of a codeword be the       *)
(* number of edges since its last flit was handed over.  While src_hold is *)
(* positive the youngest codeword has age Spacing - src_hold, and the      *)
(* valid flags say where it is: age 1 in the segmenter, 2 in the           *)
(* scrambler, 3 in the accumulator, 4 in the encoder, from 5 on in the     *)
(* serialiser, which has sent dist_cnt = age - 5 slices of it.  Up to age  *)
(* 4 the serialiser works on the codeword before, Spacing edges older.     *)

\* flits between the network side and the accumulator
Early == (IF flit_seg_valid THEN 1 ELSE 0) + (IF flit_scram_valid THEN 1 ELSE 0)

\* The source and the accumulator count the same flits.
CountsAgree ==
  \/ src_cnt = tx_flit_cnt + Early
  \/ src_cnt = tx_flit_cnt + Early - FlitsPerCw
  \/ src_cnt = tx_flit_cnt + Early - 2 * FlitsPerCw

Age1 == flit_seg_valid /\ src_cnt = 0 => src_hold = Spacing - 1
Age2 == flit_scram_valid /\ tx_flit_cnt = FlitsPerCw - 1 => src_hold = Spacing - 2
Age3 == fec_msg_valid => src_hold = Spacing - 3
Age4 == cw_valid => src_hold = Spacing - 4

SlicesSent ==
  dist_active => IF src_hold >= Spacing - 4
                 THEN dist_cnt >= (Spacing - src_hold) + Spacing - 5
                 ELSE dist_cnt >= (Spacing - src_hold) - 5

PacedInv == TxTypeOK /\ CountsAgree /\ Age1 /\ Age2 /\ Age3 /\ Age4 /\ SlicesSent

LEMMA PacedInit == ASSUME Spacing >= 5 PROVE TxInit => PacedInv
BY TypeInit
   DEF TxInit, PacedInv, TxTypeOK, CountsAgree, Early, Age1, Age2, Age3, Age4, SlicesSent

LEMMA PacedClk ==
  ASSUME Spacing >= 5, PacedInv, TxTypeOK', NEW in \in NetInput, TxClk(in)
  PROVE PacedInv'
<1> USE DEF PacedInv
<1>1. TxTypeOK /\ in.valid \in BOOLEAN
  BY NetInputType DEF TxTypeOK
<1>a. /\ src_cnt \in 0 .. FlitsPerCw - 1 /\ tx_flit_cnt \in 0 .. FlitsPerCw - 1
      /\ src_hold \in 0 .. Spacing - 1 /\ dist_cnt \in 0 .. BeatsPerCw - 1
      /\ flit_seg_valid \in BOOLEAN /\ flit_scram_valid \in BOOLEAN
      /\ fec_msg_valid \in BOOLEAN /\ cw_valid \in BOOLEAN /\ dist_active \in BOOLEAN
  BY <1>1 DEF TxTypeOK
<1>2. /\ src_cnt' = IF in.valid THEN (IF src_cnt = FlitsPerCw - 1 THEN 0 ELSE src_cnt + 1)
                               ELSE src_cnt
      /\ flit_seg_valid' = in.valid
      /\ flit_scram_valid' = flit_seg_valid
      /\ tx_flit_cnt' = IF flit_scram_valid
                     THEN (IF tx_flit_cnt = FlitsPerCw - 1 THEN 0 ELSE tx_flit_cnt + 1)
                     ELSE tx_flit_cnt
      /\ fec_msg_valid' = (flit_scram_valid /\ tx_flit_cnt = FlitsPerCw - 1)
      /\ cw_valid' = fec_msg_valid
  BY <1>a, Wraps DEF TxClk, Source, Segmenter, Scrambler, Accumulator, FecEnc
<1>3. /\ CompletesCw(in) => src_hold = 0 /\ src_hold' = Spacing - 1
      /\ ~CompletesCw(in) => src_hold' = IF src_hold > 0 THEN src_hold - 1 ELSE 0
  BY <1>a DEF TxClk, Source
<1>4. CountsAgree'
  BY <1>a, <1>2 DEF CountsAgree, Early
<1>5. Age1'
  BY <1>a, <1>2, <1>3 DEF Age1, CompletesCw
<1>6. Age2'
  <2> SUFFICES ASSUME flit_scram_valid', tx_flit_cnt' = FlitsPerCw - 1
               PROVE src_hold' = Spacing - 2
    BY DEF Age2
  <2>1. flit_seg_valid /\ src_cnt = 0
    BY <1>a, <1>2 DEF CountsAgree, Early
  <2>2. src_hold = Spacing - 1
    BY <2>1 DEF Age1
  <2> QED BY <1>a, <2>2, <1>3
<1>7. Age3' /\ Age4'
  BY <1>a, <1>2, <1>3 DEF Age2, Age3, Age4
<1>8. SlicesSent'
  <2>1. CASE LoadSymbols
    BY <1>a, <1>3, <2>1 DEF LoadSymbols, Age4, SlicesSent
  <2>2. CASE SendSlice
    <3>1. dist_active' => dist_cnt' = dist_cnt + 1
      BY <1>a, <2>2, Wraps DEF SendSlice
    <3> QED BY <1>a, <1>3, <2>2, <3>1 DEF SendSlice, SlicesSent
  <2>3. CASE LanesIdle
    BY <2>3 DEF LanesIdle, SlicesSent
  <2> QED BY <2>1, <2>2, <2>3 DEF TxClk, Serialiser
<1> QED BY <1>4, <1>5, <1>6, <1>7, <1>8

LEMMA PacedStep ==
  ASSUME Spacing >= 5 PROVE PacedInv /\ [TxNext]_txVars => PacedInv'
<1> SUFFICES ASSUME PacedInv, [TxNext]_txVars PROVE PacedInv'
  OBVIOUS
<1>1. TxTypeOK'
  BY TypeStep DEF PacedInv
<1>2. ASSUME NEW in \in NetInput, TxClk(in) PROVE PacedInv'
  BY <1>1, <1>2, PacedClk
<1>3. CASE TxReset
  BY <1>1, <1>3
     DEF TxReset, PacedInv, TxTypeOK, CountsAgree, Early, Age1, Age2, Age3, Age4, SlicesSent
<1>4. CASE UNCHANGED txVars
  BY <1>1, <1>4
     DEF txVars, regs, src, PacedInv, CountsAgree, Early, Age1, Age2, Age3, Age4, SlicesSent
<1> QED BY <1>2, <1>3, <1>4 DEF TxNext

(* A source that completes codewords at least BeatsPerCw cycles apart (and *)
(* at least 5: the pipeline before the serialiser is 4 registers deep)     *)
(* never overruns the serialiser, whatever it does in between.             *)
THEOREM PacedSourceNeverOverruns ==
  ASSUME Spacing >= BeatsPerCw, Spacing >= 5
  PROVE TxSpec => []NoOverrun
<1>1. PacedInv => NoOverrun
  BY DEF PacedInv, TxTypeOK, Age4, SlicesSent, NoOverrun
<1> QED BY <1>1, PacedInit, PacedStep, PTL DEF TxSpec
=============================================================================
