---------------------------- MODULE UbLinkProofs ----------------------------
(***************************************************************************)
(* Proofs about UbRxLanes and UbLink, for any code, any number of errors   *)
(* and any number of flits and slices of a codeword.                       *)
(*                                                                         *)
(* First, how far apart codewords must come for the receiver to lose none: *)
(* the decoder is a countdown of at most ten cycles, the de-accumulator    *)
(* one of FlitsPerCw, and the invariants compare them with the cycles      *)
(* until a codeword may be completed again.                                *)
(*                                                                         *)
(* Then the loopback, whose source is paced accordingly, or at the rate of *)
(* the lanes when the line puts no errors on codewords:                    *)
(*   - every word in the receiver is a sent message with at most the       *)
(*     channel's errors (SlicesReceived, Carried), hence decoded right;    *)
(*   - the registers from the scrambler to the descrambler are stages that *)
(*     one clock edge moves flits through without losing one (Moves);      *)
(*   - the flits in them carry the keys from the one LFSR's state to the   *)
(*     other's (Keyed), so that each is unscrambled with its own key;      *)
(*   - as the network sees them, the flits in flight are a queue           *)
(*     (Requeued), which is the refinement of UbFlitChannel.               *)
(***************************************************************************)
EXTENDS UbRxLanes, UbLink, UbControllerTxProofs, UbFoldProofs, SequenceTheorems, TLAPS

USE CodewordAssumption, LaneAssumption

-----------------------------------------------------------------------------
(* The decoder as a countdown.                                             *)

IbmQuiet   == ~ibm_start /\ ~ibm_active /\ ~ibm_done
ChienQuiet == ~chien_start /\ ~chien_active /\ ~chien_done

\* Exactly one of three flags is up.
One(a, b, c) == (a /\ ~b /\ ~c) \/ (~a /\ b /\ ~c) \/ (~a /\ ~b /\ c)

Handshakes ==
  /\ state \in {"IDLE", "IBM", "CHIEN", "DONE"}
  /\ cycle_cnt \in 0 .. 3
  /\ state \in {"IDLE", "DONE"} => IbmQuiet /\ ChienQuiet
  /\ state = "IBM" => One(ibm_start, ibm_active, ibm_done) /\ ChienQuiet
  /\ state = "CHIEN" => One(chien_start, chien_active, chien_done) /\ IbmQuiet

\* Cycles until the word in the decoder is put out, 0 when there is none.
Left ==
  IF state = "IDLE" THEN 0
  ELSE IF state = "DONE" THEN 1
  ELSE IF state = "CHIEN"
       THEN IF chien_done THEN 2 ELSE IF chien_active THEN 3 ELSE 4
       ELSE IF ibm_done THEN 5 ELSE IF ibm_active THEN 9 - cycle_cnt ELSE 10

LEMMA LeftRange ==
  ASSUME Handshakes
  PROVE  Left \in 0 .. 10 /\ (Left = 0 <=> state = "IDLE")
  BY DEF Handshakes, Left

\* What an edge does to the flags of the two blocks.
LEMMA IbmEdge ==
  ASSUME Dec!Ibm, cycle_cnt \in 0 .. 3
  PROVE  /\ cycle_cnt' \in 0 .. 3
         /\ ibm_start => ibm_active' /\ ~ibm_done' /\ cycle_cnt' = 0
         /\ ~ibm_start /\ ibm_active /\ cycle_cnt # 3 =>
              ibm_active' /\ cycle_cnt' = cycle_cnt + 1 /\ (ibm_done' <=> ibm_done)
         /\ ~ibm_start /\ ibm_active /\ cycle_cnt = 3 => ~ibm_active' /\ ibm_done'
         /\ ~ibm_start /\ ~ibm_active => ~ibm_active' /\ ~ibm_done'
<1>1. CASE Dec!IbmStart
  BY <1>1 DEF Dec!IbmStart
<1>2. CASE Dec!IbmIterate
  <2>1. CASE cycle_cnt = 3
    <3>1. ibm_active' = FALSE /\ ibm_done' = TRUE /\ cycle_cnt' = 3
      BY <1>2, <2>1 DEF Dec!IbmIterate, Dec!LastIbmCycle
    <3> QED BY <1>2, <2>1, <3>1 DEF Dec!IbmIterate
  <2>2. CASE cycle_cnt # 3
    <3>1. ibm_active' = TRUE /\ cycle_cnt' = cycle_cnt + 1
      BY <1>2, <2>2 DEF Dec!IbmIterate, Dec!LastIbmCycle
    <3>2. ibm_done' = ibm_done
      BY <1>2, <2>2, Zenon DEF Dec!IbmIterate, Dec!LastIbmCycle
    <3> QED BY <1>2, <2>2, <3>1, <3>2 DEF Dec!IbmIterate
  <2> QED BY <2>1, <2>2
<1>3. CASE Dec!IbmRest
  BY <1>3 DEF Dec!IbmRest
<1> QED BY <1>1, <1>2, <1>3 DEF Dec!Ibm

LEMMA ChienEdge ==
  ASSUME Dec!Chien
  PROVE  /\ chien_start => chien_active' /\ ~chien_done'
         /\ ~chien_start /\ chien_active => ~chien_active' /\ chien_done'
         /\ ~chien_start /\ ~chien_active => ~chien_active' /\ ~chien_done'
  BY DEF Dec!Chien, Dec!ChienStart, Dec!ChienMagnitudes, Dec!ChienRest

(* One edge of the decoder: a word that is offered while it is idle starts *)
(* the countdown, every other edge takes one off it, and the last one puts *)
(* the message out.                                                        *)
LEMMA DecEdge ==
  ASSUME Handshakes, Dec!DecClk
  PROVE  /\ Handshakes'
         /\ Left' \in 0 .. 10 /\ (Left' = 0 <=> state' = "IDLE")
         /\ Left > 0 => Left' = Left - 1
         /\ Left = 0 /\ ~fec_cw_valid => Left' = 0
         /\ Left = 0 /\ fec_cw_valid => Left' \in 1 .. 10
         /\ valid_out' <=> Left = 1
         /\ ibm_start' => fec_cw_valid /\ cw_reg' = fec_cw
<1>1. /\ Dec!Fsm /\ Dec!Ibm /\ Dec!Chien
  BY DEF Dec!DecClk
<1> USE DEF Handshakes, Left, One, IbmQuiet, ChienQuiet
<1>2. CASE Dec!AcceptClean
  BY <1>1, <1>2, IbmEdge, ChienEdge DEF Dec!AcceptClean
<1>3. CASE Dec!AcceptErrored
  BY <1>1, <1>3, IbmEdge, ChienEdge DEF Dec!AcceptErrored
<1>4. CASE Dec!Wait
  <2>1. CASE state = "IDLE"
    BY <1>1, <1>4, <2>1, IbmEdge, ChienEdge DEF Dec!Wait
  <2>2. CASE state = "IBM"
    BY <1>1, <1>4, <2>2, IbmEdge, ChienEdge DEF Dec!Wait
  <2>3. CASE state = "CHIEN"
    BY <1>1, <1>4, <2>3, IbmEdge, ChienEdge DEF Dec!Wait
  <2> QED BY <1>4, <2>1, <2>2, <2>3 DEF Dec!Wait
<1>5. CASE Dec!Solved
  BY <1>1, <1>5, IbmEdge, ChienEdge DEF Dec!Solved
<1>6. CASE Dec!Searched
  BY <1>1, <1>6, IbmEdge, ChienEdge DEF Dec!Searched
<1>7. CASE Dec!Deliver
  BY <1>1, <1>7, IbmEdge, ChienEdge DEF Dec!Deliver
<1> QED BY <1>1, <1>2, <1>3, <1>4, <1>5, <1>6, <1>7 DEF Dec!Fsm

-----------------------------------------------------------------------------
(* The word in the decoder is out when the next one can be complete, which *)
(* is after hold cycles at the earliest.                                   *)
DecodedInTime(hold) ==
  /\ Handshakes
  /\ Left <= hold + 1
  /\ NoWordDropped

(* Flits of the message in the de-accumulator after the one it shows.      *)
Rest == FlitsPerCw - 1 - flit_cnt

(* They are out when the next message can be.  A word on the port is put   *)
(* out two cycles later at the earliest, one still to be completed three   *)
(* after hold cycles.                                                      *)
EmittedInTime(hold) ==
  /\ flits_active =>
       /\ flit_cnt \in 0 .. FlitsPerCw - 1
       /\ Left > 0 => Rest <= Left
       /\ fec_cw_valid => Rest <= 2
       /\ Rest <= hold + 3
  /\ valid_out =>
       /\ Left = 0
       /\ fec_cw_valid => FlitsPerCw <= 2
       /\ FlitsPerCw <= hold + 3
  /\ Left > 0 => FlitsPerCw + Left <= hold + 3
  /\ NoMessageOverwritten

\* What an edge does to it: hold is a bound before the edge and later one
\* after it, and words are spacing cycles apart.
CountsDown(spacing, hold, later) ==
  IF fec_cw_valid' THEN hold = 0 /\ later >= spacing - 1
                   ELSE later >= hold - 1

LEMMA DeaccEdge ==
  ASSUME Deaccumulate
  PROVE  /\ valid_out => flits_active' /\ flit_cnt' = 0
         /\ ~valid_out /\ flits_active =>
              /\ flits_active' <=> flit_cnt # FlitsPerCw - 1
              /\ flit_cnt' = flit_cnt + 1
         /\ ~valid_out /\ ~flits_active => ~flits_active'
<1>1. CASE LoadMessage
  BY <1>1 DEF LoadMessage
<1>2. CASE EmitFlit
  BY <1>2, Zenon DEF EmitFlit
<1>3. CASE NoMessage
  BY <1>3 DEF NoMessage, deaccu
<1> QED BY <1>1, <1>2, <1>3 DEF Deaccumulate

\* A clean word takes the decoder one cycle, any other one ten.
LEMMA CleanWord ==
  ASSUME Handshakes, Dec!DecClk, Left = 0, fec_cw_valid, Dec!SyndromesZero(fec_cw)
  PROVE  Left' = 1
<1>1. state = "IDLE" /\ Dec!Fsm
  BY LeftRange DEF Dec!DecClk
<1>2. state' = "DONE"
  BY <1>1 DEF Dec!Fsm, Dec!AcceptClean, Dec!AcceptErrored, Dec!Wait, Dec!Solved, Dec!Searched,
              Dec!Deliver
<1> QED BY <1>2 DEF Left

(* longest is the number of cycles that the words offered to the decoder   *)
(* take it.                                                                *)
LEMMA DecodeStep ==
  ASSUME NEW spacing \in Nat, NEW hold \in Nat, NEW later \in Nat, NEW longest \in 1 .. 10,
         spacing >= longest + 1, Left = 0 /\ fec_cw_valid => Left' <= longest,
         fec_cw_valid => hold >= spacing - 1, DecodedInTime(hold),
         Dec!DecClk, CountsDown(spacing, hold, later)
  PROVE  DecodedInTime(later)'
<1>1. Handshakes /\ Left \in 0 .. 10 /\ (Left = 0 <=> state = "IDLE")
  BY LeftRange DEF DecodedInTime
<1>2. Handshakes' /\ Left' \in 0 .. 10 /\ (Left' = 0 <=> state' = "IDLE")
  BY <1>1, DecEdge
<1>3. /\ Left > 0 => Left' = Left - 1
      /\ Left = 0 /\ ~fec_cw_valid => Left' = 0
      /\ Left = 0 /\ fec_cw_valid => Left' \in 1 .. longest
  BY <1>1, DecEdge
<1>4. Left' <= later + 1 /\ (fec_cw_valid' => Left' = 0)
  BY <1>1, <1>2, <1>3 DEF DecodedInTime, NoWordDropped, CountsDown
<1> QED BY <1>2, <1>4 DEF DecodedInTime, NoWordDropped

LEMMA EmitStep ==
  ASSUME NEW spacing \in Nat, NEW hold \in Nat, NEW later \in Nat, NEW longest \in 1 .. 10,
         spacing >= longest + 1, spacing >= FlitsPerCw + longest - 1,
         Left = 0 /\ fec_cw_valid => Left' <= longest,
         fec_cw_valid => hold >= spacing - 1, DecodedInTime(hold), EmittedInTime(hold),
         Dec!DecClk, Deaccumulate, CountsDown(spacing, hold, later)
  PROVE  EmittedInTime(later)'
<1>1. Left \in 0 .. 10 /\ (Left = 0 <=> state = "IDLE") /\ Handshakes
  BY LeftRange DEF DecodedInTime
<1>2. PICK left \in 0 .. 10 : left = Left'
  BY <1>1, DecEdge
<1>4. /\ Left > 0 => left = Left - 1
      /\ Left = 0 /\ ~fec_cw_valid => left = 0
      /\ Left = 0 /\ fec_cw_valid => left \in 1 .. longest
      /\ valid_out' <=> Left = 1
  BY <1>1, <1>2, DecEdge
<1>5. /\ fec_cw_valid => hold >= spacing - 1 /\ Left = 0
      /\ fec_cw_valid' => hold = 0 /\ later >= spacing - 1
      /\ ~fec_cw_valid' => later >= hold - 1
      /\ hold = 0 => Left <= 1
  BY <1>1 DEF CountsDown, DecodedInTime, NoWordDropped
<1>6. ASSUME flits_active'
      PROVE  \E rest \in Nat :
             /\ rest = Rest' /\ flit_cnt' \in 0 .. FlitsPerCw - 1
             /\ left > 0 => rest <= left
             /\ fec_cw_valid' => rest <= 2
             /\ rest <= later + 3
             /\ valid_out' => rest = 0
  <2>1. CASE valid_out
    <3>1. FlitsPerCw - 1 \in Nat /\ FlitsPerCw - 1 = Rest' /\ flit_cnt' = 0
      BY <2>1, DeaccEdge DEF Rest
    <3>2. /\ left > 0 => FlitsPerCw - 1 <= left
          /\ fec_cw_valid' => FlitsPerCw - 1 <= 2
          /\ FlitsPerCw - 1 <= later + 3
          /\ ~valid_out'
      BY <1>1, <1>4, <1>5, <2>1 DEF EmittedInTime
    <3> QED BY <3>1, <3>2
  <2>2. CASE ~valid_out
    <3>1. /\ flits_active /\ flit_cnt # FlitsPerCw - 1
          /\ flit_cnt' = flit_cnt + 1
      BY <1>6, <2>2, DeaccEdge
    <3>2. /\ Rest \in Nat \ {0} /\ Rest - 1 = Rest'
          /\ flit_cnt' \in 0 .. FlitsPerCw - 1
      BY <3>1 DEF EmittedInTime, Rest
    <3>3. /\ left > 0 => Rest - 1 <= left
          /\ fec_cw_valid' => Rest - 1 <= 2
          /\ Rest - 1 <= later + 3
          /\ valid_out' => Rest - 1 = 0
      BY <1>1, <1>4, <1>5, <3>1, <3>2 DEF EmittedInTime
    <3> QED BY <3>2, <3>3
  <2> QED BY <2>1, <2>2
<1>7. ASSUME valid_out'
      PROVE  /\ left = 0
             /\ fec_cw_valid' => FlitsPerCw <= 2
             /\ FlitsPerCw <= later + 3
  BY <1>1, <1>4, <1>5, <1>7 DEF EmittedInTime
<1>8. left > 0 => FlitsPerCw + left <= later + 3
  <2>1. CASE Left > 0
    BY <1>1, <1>4, <1>5, <2>1 DEF EmittedInTime
  <2>2. CASE Left = 0
    BY <1>4, <1>5, <2>2
  <2> QED BY <1>1, <2>1, <2>2
<1>9. NoMessageOverwritten'
  BY <1>6 DEF NoMessageOverwritten, Rest
<1> QED BY <1>2, <1>6, <1>7, <1>8, <1>9, Zenon DEF EmittedInTime

\* After reset there is nothing to be in time for.
LEMMA TimingInit ==
  ASSUME RxInit
  PROVE  /\ \A hold \in Nat : DecodedInTime(hold) /\ EmittedInTime(hold)
         /\ SolverSeesWord
<1>1. Handshakes /\ Left = 0
  BY DEF RxInit, Dec!DecInit, Handshakes, IbmQuiet, ChienQuiet, Left
<1>2. ~valid_out /\ ~flits_active /\ ~fec_cw_valid /\ ~ibm_start
  BY DEF RxInit, Dec!DecInit
<1> QED BY <1>1, <1>2 DEF DecodedInTime, EmittedInTime, NoWordDropped,
           NoMessageOverwritten, SolverSeesWord

LEMMA TimingReset ==
  ASSUME RxReset
  PROVE  /\ \A hold \in Nat : DecodedInTime(hold)' /\ EmittedInTime(hold)'
         /\ SolverSeesWord'
<1>1. Handshakes' /\ Left' = 0
  BY DEF RxReset, Dec!DecReset, Handshakes, IbmQuiet, ChienQuiet, Left
<1>2. ~valid_out' /\ ~flits_active' /\ ~fec_cw_valid' /\ ~ibm_start'
  BY DEF RxReset, Dec!DecReset
<1> QED BY <1>1, <1>2 DEF DecodedInTime, EmittedInTime, NoWordDropped,
           NoMessageOverwritten, SolverSeesWord

LEMMA RxUnchanged ==
  ASSUME UNCHANGED rxVars
  PROVE  /\ UNCHANGED << Left, Rest, fec_cw_valid, valid_out, flits_active, flit_cnt >>
         /\ Handshakes' <=> Handshakes
         /\ NoWordDropped' <=> NoWordDropped
         /\ NoMessageOverwritten' <=> NoMessageOverwritten
         /\ SolverSeesWord' <=> SolverSeesWord
BY DEF rxVars, accu, deaccu, Dec!decVars, Dec!control, Dec!output, Dec!ibm, Dec!chien,
       Left, Rest, Handshakes, IbmQuiet, ChienQuiet, One,
       NoWordDropped, NoMessageOverwritten, SolverSeesWord

-----------------------------------------------------------------------------
(* The lanes and the accumulator count slices together; a word that has    *)
(* just been completed still has all of CwSpacing before the next one.     *)
InStep ==
  /\ lane_idx \in 0 .. BeatsPerCw - 1 /\ cw_cnt = lane_idx
  /\ lane_hold \in 0 .. CwSpacing - 1
  /\ fec_cw_valid => lane_idx = 0 /\ lane_hold = CwSpacing - 1

LaneCountdown ==
  IF fec_cw_valid' THEN lane_hold = 0 /\ lane_hold' = CwSpacing - 1
                   ELSE lane_hold' = IF lane_hold = 0 THEN 0 ELSE lane_hold - 1

LEMMA RxEdge ==
  ASSUME NEW lv \in BOOLEAN, NEW s, RxClk(lv, s)
  PROVE  /\ Dec!DecClk /\ Deaccumulate
         /\ fec_cw_valid' <=> lv /\ cw_cnt = BeatsPerCw - 1
         /\ lv => cw_cnt' = IF cw_cnt = BeatsPerCw - 1 THEN 0 ELSE cw_cnt + 1
         /\ ~lv => cw_cnt' = cw_cnt /\ fec_cw' = fec_cw
  BY DEF RxClk, Accumulate

LEMMA LaneEdge ==
  ASSUME InStep, LaneNext
  PROVE  /\ InStep'
         /\ \/ LaneReset
            \/ /\ Dec!DecClk /\ Deaccumulate /\ LaneCountdown
               /\ fec_cw_valid /\ LaneGap >= 1 => fec_cw' = fec_cw
<1>1. CASE LaneReset
  BY <1>1 DEF LaneReset, RxReset, InStep
<1>2. CASE NoSlice
  <2>1. /\ Dec!DecClk /\ Deaccumulate /\ ~fec_cw_valid'
        /\ cw_cnt' = cw_cnt /\ fec_cw' = fec_cw
    BY <1>2, RxEdge DEF NoSlice
  <2> QED BY <1>2, <2>1 DEF NoSlice, InStep, LaneCountdown
<1>3. ASSUME NEW e \in 0 .. MaxLaneErrs, MiddleSlice(e)
      PROVE  /\ InStep' /\ Dec!DecClk /\ Deaccumulate /\ LaneCountdown
             /\ ~(fec_cw_valid /\ LaneGap >= 1)
  <2>1. /\ Dec!DecClk /\ Deaccumulate
        /\ fec_cw_valid' <=> cw_cnt = BeatsPerCw - 1
        /\ cw_cnt' = IF cw_cnt = BeatsPerCw - 1 THEN 0 ELSE cw_cnt + 1
    BY <1>3, RxEdge DEF MiddleSlice
  <2> QED BY <1>3, <2>1 DEF MiddleSlice, InStep, LaneCountdown
<1>4. ASSUME NEW e \in 0 .. MaxLaneErrs, LastSlice(e)
      PROVE  /\ InStep' /\ Dec!DecClk /\ Deaccumulate /\ LaneCountdown
             /\ ~fec_cw_valid
  <2>1. /\ Dec!DecClk /\ Deaccumulate
        /\ fec_cw_valid' <=> cw_cnt = BeatsPerCw - 1
        /\ cw_cnt' = IF cw_cnt = BeatsPerCw - 1 THEN 0 ELSE cw_cnt + 1
    BY <1>4, RxEdge DEF LastSlice
  <2> QED BY <1>4, <2>1 DEF LastSlice, InStep, LaneCountdown
<1> QED BY <1>1, <1>2, <1>3, <1>4 DEF LaneNext

LEMMA LanesInStep == LaneSpec => []InStep
<1>1. LaneInit => InStep
  BY DEF LaneInit, RxInit, InStep
<1>2. InStep /\ [LaneNext]_laneVars => InStep'
  <2>1. InStep /\ UNCHANGED laneVars => InStep'
    BY DEF laneVars, rxVars, accu, lanes, InStep
  <2> QED BY <2>1, LaneEdge
<1> QED BY <1>1, <1>2, PTL DEF LaneSpec

-----------------------------------------------------------------------------
(* The bounds in the lanes' own terms.                                     *)
LEMMA LaneCounts ==
  ASSUME InStep, InStep', LaneCountdown
  PROVE  /\ lane_hold \in Nat /\ lane_hold' \in Nat
         /\ fec_cw_valid => lane_hold >= CwSpacing - 1
         /\ CountsDown(CwSpacing, lane_hold, lane_hold')
BY DEF InStep, LaneCountdown, CountsDown

LEMMA LaneStutters ==
  ASSUME UNCHANGED laneVars
  PROVE  /\ UNCHANGED rxVars /\ UNCHANGED lane_hold
BY DEF laneVars, lanes

LEMMA LaneDecodedStep ==
  ASSUME CwSpacing >= 11, InStep, DecodedInTime(lane_hold), [LaneNext]_laneVars
  PROVE  DecodedInTime(lane_hold)'
<1>1. CASE LaneReset
  BY <1>1, TimingReset DEF LaneReset
<1>2. CASE InStep' /\ Dec!DecClk /\ LaneCountdown
  <2>1. PICK hold \in Nat, later \in Nat : hold = lane_hold /\ later = lane_hold'
    BY <1>2 DEF InStep
  <2>2. Left = 0 /\ fec_cw_valid => Left' <= 10
    BY <1>2, DecEdge DEF DecodedInTime
  <2>3. 10 \in 1 .. 10 /\ CwSpacing >= 10 + 1
    OBVIOUS
  <2>4. DecodedInTime(later)'
    BY <1>2, <2>1, <2>2, <2>3, LaneCounts, DecodeStep
  <2> QED BY <2>1, <2>4 DEF DecodedInTime
<1>3. CASE UNCHANGED laneVars
  BY <1>3, LaneStutters, RxUnchanged DEF DecodedInTime
<1> QED BY <1>1, <1>2, <1>3, LaneEdge

LEMMA WordsInTime == ASSUME CwSpacing >= 11 PROVE LaneSpec => []DecodedInTime(lane_hold)
<1>1. LaneInit => DecodedInTime(lane_hold)
  BY TimingInit DEF LaneInit
<1> QED BY <1>1, LaneDecodedStep, LanesInStep, PTL DEF LaneSpec

(* Every codeword is accepted, when the last slices of two of them are at  *)
(* least eleven cycles apart: ten for the decoder and one to be idle.      *)
THEOREM SpacedWordsAreAccepted ==
  ASSUME CwSpacing >= 11
  PROVE  LaneSpec => []NoWordDropped
<1>1. DecodedInTime(lane_hold) => NoWordDropped
  BY DEF DecodedInTime
<1> QED BY <1>1, WordsInTime, PTL

(* The solver captures the syndromes of the word that was accepted as soon *)
(* as one idle lane cycle follows each codeword, however close they are.   *)
THEOREM GapLetsSolverSee ==
  ASSUME LaneGap >= 1
  PROVE  LaneSpec => []SolverSeesWord
<1>1. LaneInit => Handshakes /\ SolverSeesWord
  BY TimingInit DEF LaneInit, DecodedInTime
<1>2. InStep /\ Handshakes /\ SolverSeesWord /\ [LaneNext]_laneVars
        => Handshakes' /\ SolverSeesWord'
  <2> SUFFICES ASSUME InStep, Handshakes, SolverSeesWord, [LaneNext]_laneVars
               PROVE  Handshakes' /\ SolverSeesWord'
    OBVIOUS
  <2>1. CASE LaneReset
    BY <2>1, TimingReset DEF LaneReset, DecodedInTime
  <2>2. CASE Dec!DecClk /\ (fec_cw_valid /\ LaneGap >= 1 => fec_cw' = fec_cw)
    BY <2>2, DecEdge DEF SolverSeesWord
  <2>3. CASE UNCHANGED laneVars
    BY <2>3, LaneStutters, RxUnchanged
  <2> QED BY <2>1, <2>2, <2>3, LaneEdge
<1> QED BY <1>1, <1>2, LanesInStep, PTL DEF LaneSpec

(* A message is loaded only when the one before it has been emitted, when  *)
(* codewords are FlitsPerCw + 9 cycles apart: the eleven of a corrected    *)
(* word and its flits, less the two that a clean one behind it takes.      *)
THEOREM SpacedMessagesAreEmitted ==
  ASSUME CwSpacing >= 11, CwSpacing >= FlitsPerCw + 9
  PROVE  LaneSpec => []NoMessageOverwritten
<1>1. LaneInit => EmittedInTime(lane_hold)
  BY TimingInit DEF LaneInit
<1>2. InStep /\ DecodedInTime(lane_hold) /\ EmittedInTime(lane_hold) /\ [LaneNext]_laneVars
        => EmittedInTime(lane_hold)'
  <2> SUFFICES ASSUME InStep, DecodedInTime(lane_hold), EmittedInTime(lane_hold),
                      [LaneNext]_laneVars
               PROVE  EmittedInTime(lane_hold)'
    OBVIOUS
  <2>1. CASE LaneReset
    BY <2>1, TimingReset DEF LaneReset
  <2>2. CASE InStep' /\ Dec!DecClk /\ Deaccumulate /\ LaneCountdown
    <3>1. PICK hold \in Nat, later \in Nat : hold = lane_hold /\ later = lane_hold'
      BY <2>2 DEF InStep
    <3>2. Left = 0 /\ fec_cw_valid => Left' <= 10
      BY <2>2, DecEdge DEF DecodedInTime
    <3>3. 10 \in 1 .. 10 /\ CwSpacing >= 10 + 1 /\ CwSpacing >= FlitsPerCw + 10 - 1
      OBVIOUS
    <3>4. EmittedInTime(later)'
      BY <2>2, <3>1, <3>2, <3>3, LaneCounts, EmitStep
    <3> QED BY <3>1, <3>4 DEF EmittedInTime
  <2>3. CASE UNCHANGED laneVars
    <3>1. EmittedInTime(lane_hold)' <=> EmittedInTime(lane_hold)
      BY <2>3, LaneStutters, RxUnchanged DEF EmittedInTime
    <3> QED BY <3>1
  <2> QED BY <2>1, <2>2, <2>3, LaneEdge
<1>3. EmittedInTime(lane_hold) => NoMessageOverwritten
  BY DEF EmittedInTime
<1> QED BY <1>1, <1>2, <1>3, WordsInTime, LanesInStep, PTL DEF LaneSpec

USE TxAssumption

(***************************************************************************)
(* The loopback.  Cycles until the serialiser's next last slice at the     *)
(* earliest, from what the source may do and where its last codeword is    *)
(* (see PacedInv).                                                         *)
(***************************************************************************)
Owed == BeatsPerCw - 1 - dist_cnt

AheadIdle(hold) ==
  IF hold >= Spacing - 4 THEN BeatsPerCw + 4 - (Spacing - hold)
                         ELSE hold + BeatsPerCw + 4

Ahead == IF dist_active THEN Owed ELSE AheadIdle(src_hold)

\* The source's countdown.
HoldEdge(hold, later) ==
  \/ hold = 0 /\ later \in {0, Spacing - 1}
  \/ hold > 0 /\ later = hold - 1

LEMMA AheadArithmetic ==
  ASSUME Spacing >= 5, Spacing >= BeatsPerCw,
         NEW hold \in 0 .. Spacing - 1, NEW later \in 0 .. Spacing - 1, HoldEdge(hold, later)
  PROVE  /\ AheadIdle(hold) \in Nat
         /\ AheadIdle(later) \in Nat
         /\ AheadIdle(later) >= AheadIdle(hold) - 1
         /\ hold = Spacing - 4 => AheadIdle(hold) = BeatsPerCw
         /\ /\ hold >= Spacing - 4 => BeatsPerCw - 1 >= (Spacing - hold) + Spacing - 5
            /\ hold < Spacing - 4 => BeatsPerCw - 1 >= (Spacing - hold) - 5
            => AheadIdle(later) >= Spacing - 1
BY DEF AheadIdle, HoldEdge

(* Serialiser and accumulator count slices together; when a word has been  *)
(* completed the next is Spacing cycles away, and the lanes are idle       *)
(* unless the slices of codewords follow each other without a gap.         *)
SlicesCounted ==
  /\ cw_cnt = dist_cnt
  /\ ~dist_active => dist_cnt = 0
  /\ fec_cw_valid => /\ Spacing > BeatsPerCw => ~dist_active
                     /\ Ahead >= Spacing - 1

\* The serialiser is free when the encoder puts a codeword out, or sends
\* the last slice of the codeword before.
FreeInTime ==
  cw_valid /\ dist_active => dist_cnt = BeatsPerCw - 1 /\ Spacing = BeatsPerCw

LEMMA SerialiserEdge ==
  ASSUME TxTypeOK, NEW in \in NetInput, TxClk(in)
  PROVE  /\ cw_valid => dist_active' /\ dist_cnt' = 0 /\ symbols_reg' = cw_out
         /\ ~cw_valid /\ dist_active /\ dist_cnt # BeatsPerCw - 1 =>
              dist_active' /\ dist_cnt' = dist_cnt + 1 /\ symbols_reg' = symbols_reg
         /\ ~cw_valid /\ dist_active /\ dist_cnt = BeatsPerCw - 1 =>
              ~dist_active' /\ dist_cnt' = 0
         /\ ~cw_valid /\ ~dist_active => ~dist_active' /\ dist_cnt' = dist_cnt
<1>0. dist_cnt \in 0 .. BeatsPerCw - 1
  BY DEF TxTypeOK
<1>1. CASE LoadSymbols
  BY <1>1 DEF LoadSymbols
<1>2. CASE SendSlice
  <2>1. dist_cnt' = IF dist_cnt = BeatsPerCw - 1 THEN 0 ELSE dist_cnt + 1
    BY <1>0, <1>2, Wraps DEF SendSlice
  <2> QED BY <1>2, <2>1 DEF SendSlice
<1>3. CASE LanesIdle
  BY <1>3 DEF LanesIdle
<1> QED BY <1>1, <1>2, <1>3 DEF TxClk, Serialiser

LEMMA LinkRxEdge ==
  ASSUME TxTypeOK, NEW in, NEW e, Clk(in, e)
  PROVE  /\ Dec!DecClk /\ Deaccumulate /\ Descrambler /\ Reassembler
         /\ fec_cw_valid' <=> dist_active /\ cw_cnt = BeatsPerCw - 1
         /\ dist_active =>
              /\ cw_cnt' = IF cw_cnt = BeatsPerCw - 1 THEN 0 ELSE cw_cnt + 1
              /\ fec_cw' = ShiftWord(fec_cw, [LaneSlice EXCEPT !.err = e])
         /\ ~dist_active => cw_cnt' = cw_cnt /\ fec_cw' = fec_cw
BY DEF TxTypeOK, Clk, RxClk, Accumulate

LEMMA AheadEdge ==
  ASSUME Spacing >= 5, Spacing >= BeatsPerCw, PacedInv, SlicesCounted,
         NEW in \in NetInput, NEW e, Clk(in, e)
  PROVE  /\ FreeInTime
         /\ Ahead \in Nat /\ Ahead' \in Nat
         /\ CountsDown(Spacing, Ahead, Ahead')
         /\ SlicesCounted'
<1>0. /\ TxTypeOK /\ TxClk(in)
      /\ dist_cnt \in 0 .. BeatsPerCw - 1 /\ src_hold \in 0 .. Spacing - 1
      /\ dist_active \in BOOLEAN
  BY DEF PacedInv, TxTypeOK, Clk
<1>1. FreeInTime /\ (cw_valid => src_hold = Spacing - 4)
  BY <1>0 DEF PacedInv, Age4, SlicesSent, FreeInTime
<1>2. HoldEdge(src_hold, src_hold') /\ src_hold' \in 0 .. Spacing - 1
  BY <1>0 DEF TxClk, Source, HoldEdge
<1>4. PICK c \in 0 .. BeatsPerCw - 1 : c = dist_cnt'
  BY <1>0, SerialiserEdge DEF SlicesCounted
<1>5. /\ fec_cw_valid' <=> dist_active /\ dist_cnt = BeatsPerCw - 1
      /\ cw_cnt' = c
      /\ ~dist_active' => c = 0
  BY <1>0, <1>1, <1>4, SerialiserEdge, LinkRxEdge DEF SlicesCounted, FreeInTime
<1>7. PICK h \in 0 .. Spacing - 1 : h = src_hold'
  BY <1>2
<1>8. HoldEdge(src_hold, h)
  BY <1>2, <1>7
<1>9. PICK i \in Nat, j \in Nat :
        /\ i = AheadIdle(src_hold) /\ j = AheadIdle(h) /\ j >= i - 1
        /\ src_hold = Spacing - 4 => i = BeatsPerCw
        /\ /\ src_hold >= Spacing - 4 => BeatsPerCw - 1 >= (Spacing - src_hold) + Spacing - 5
           /\ src_hold < Spacing - 4 => BeatsPerCw - 1 >= (Spacing - src_hold) - 5
           => j >= Spacing - 1
  BY <1>0, <1>8, AheadArithmetic
<1>a. /\ ~dist_active' => Ahead' = j
      /\ dist_active' => Ahead' = BeatsPerCw - 1 - c
  BY <1>4, <1>7, <1>9 DEF Ahead, Owed
<1>b. /\ ~dist_active => Ahead = i
      /\ dist_active => Ahead = BeatsPerCw - 1 - dist_cnt
  BY <1>9 DEF Ahead, Owed
<1>c. SUFFICES \E a \in Nat, b \in Nat :
        /\ Ahead = a /\ Ahead' = b
        /\ IF fec_cw_valid' THEN /\ a = 0 /\ b >= Spacing - 1
                                 /\ Spacing > BeatsPerCw => ~dist_active'
                            ELSE b >= a - 1
  BY <1>1, <1>4, <1>5 DEF CountsDown, SlicesCounted
<1>f. CASE dist_active /\ cw_valid
  <2>1. dist_cnt = BeatsPerCw - 1 /\ Spacing = BeatsPerCw
    BY <1>1, <1>f DEF FreeInTime
  <2>2. dist_active' /\ c = 0
    BY <1>0, <1>4, <1>f, SerialiserEdge
  <2>3. PICK b \in Nat : b = BeatsPerCw - 1 /\ b = BeatsPerCw - 1 - c /\ b >= Spacing - 1
    BY <2>1, <2>2
  <2>4. Ahead = 0 /\ Ahead' = b /\ fec_cw_valid'
    BY <1>5, <1>a, <1>b, <1>f, <2>1, <2>2, <2>3
  <2> QED BY <2>1, <2>3, <2>4
<1>d. CASE dist_active /\ ~cw_valid
  <2>1. ~cw_valid
    BY <1>d
  <2>2. CASE dist_cnt = BeatsPerCw - 1
    <3>1. j >= Spacing - 1
      BY <1>0, <1>9, <1>d, <2>2 DEF PacedInv, SlicesSent
    <3>2. ~dist_active'
      BY <1>0, <1>d, <2>1, <2>2, SerialiserEdge
    <3>4. Ahead = 0
      BY <1>b, <1>d, <2>2
    <3> QED BY <1>5, <1>a, <1>d, <2>2, <3>1, <3>2, <3>4
  <2>3. CASE dist_cnt # BeatsPerCw - 1
    <3>1. dist_active' /\ c = dist_cnt + 1
      BY <1>0, <1>4, <1>d, <2>1, <2>3, SerialiserEdge
    <3>2. PICK a \in Nat : a = BeatsPerCw - 1 - dist_cnt /\ a - 1 \in Nat /\ a - 1 = BeatsPerCw - 1 - c
      BY <1>0, <3>1, <2>3
    <3>3. Ahead = a /\ Ahead' = a - 1
      BY <1>a, <1>b, <1>d, <3>1, <3>2
    <3>4. a - 1 >= a - 1 /\ ~fec_cw_valid'
      BY <1>5, <2>3, <3>2
    <3> QED BY <3>2, <3>3, <3>4
  <2> QED BY <2>2, <2>3
<1>e. CASE ~dist_active
  <2>1. ~fec_cw_valid' /\ Ahead = i
    BY <1>5, <1>b, <1>e
  <2>3. CASE cw_valid
    <3>1. dist_active' /\ c = 0
      BY <1>0, <1>4, <2>3, SerialiserEdge
    <3>2. PICK b \in Nat : b = BeatsPerCw - 1 /\ b = BeatsPerCw - 1 - c /\ b >= i - 1
      BY <1>1, <1>9, <2>3, <3>1
    <3>3. Ahead' = b
      BY <1>a, <3>1, <3>2
    <3> QED BY <2>1, <3>2, <3>3
  <2>4. CASE ~cw_valid
    <3>1. ~dist_active'
      BY <1>0, <1>e, <2>4, SerialiserEdge
    <3> QED BY <1>a, <1>9, <2>1, <3>1
  <2> QED BY <2>3, <2>4
<1> QED BY <1>d, <1>e, <1>f

-----------------------------------------------------------------------------
(* The words.  ByteErrors adds up the errors of the slices.                *)
LEMMA ErrorsAddUp ==
  ASSUME NEW w, DOMAIN w = SliceIndex, \A i \in SliceIndex : w[i].err \in Nat,
         NEW r, SumsUp(r, 0 .. BeatsPerCw - 1, BeatsPerCw, [i \in SliceIndex |-> w[i].err])
  PROVE  ByteErrors(w) = r[BeatsPerCw]
<1> DEFINE n == BeatsPerCw
           e == [i \in SliceIndex |-> w[i].err]
           Over(g) == [t \in SUBSET (DOMAIN w) |->
                         IF t = {} THEN 0
                         ELSE w[CHOOSE x \in t : TRUE].err + g[t \ {CHOOSE x \in t : TRUE}]]
           iter == CHOOSE g : g = Over(g)
<1>1. ByteErrors(w) = iter[DOMAIN w]
  BY DEF ByteErrors, FoldFunction, FoldFunctionOnSet, MapThenFoldSet
<1>2. e \in [0 .. n - 1 -> Nat] /\ n \in Nat
  BY DEF SliceIndex
<1>3. ASSUME NEW g PROVE g = Over(g) <=> AddsUp(g, n, e)
  <2>1. ASSUME NEW t \in SUBSET (0 .. n - 1), t # {}
        PROVE  w[CHOOSE x \in t : TRUE].err = e[AnyOf(t)]
    <3>1. AnyOf(t) \in SliceIndex
      BY <2>1, AnyOfIn DEF SliceIndex
    <3> QED BY <3>1 DEF AnyOf
  <2> DEFINE Right(t) == IF t = {} THEN 0 ELSE e[AnyOf(t)] + g[t \ {AnyOf(t)}]
             Left1(t) == IF t = {} THEN 0
                         ELSE w[CHOOSE x \in t : TRUE].err + g[t \ {CHOOSE x \in t : TRUE}]
  <2>2. ASSUME NEW t \in SUBSET (0 .. n - 1) PROVE Left1(t) = Right(t)
    <3>1. CASE t = {}
      BY <3>1
    <3>2. CASE t # {}
      BY <2>1, <3>2 DEF AnyOf
    <3> QED BY <3>1, <3>2
  <2>3. Over(g) = [t \in SUBSET (0 .. n - 1) |-> Left1(t)]
    BY DEF SliceIndex
  <2>4. [t \in SUBSET (0 .. n - 1) |-> Left1(t)] = [t \in SUBSET (0 .. n - 1) |-> Right(t)]
    <3> HIDE DEF Left1, Right
    <3> QED BY <2>2
  <2> HIDE DEF e
  <2> QED BY <2>3, <2>4 DEF AddsUp
<1>4. AddsUp(iter, n, e)
  <2>1. \E g : AddsUp(g, n, e)
    <3> HIDE DEF e, n
    <3> QED BY <1>2, AddsUpExists
  <2>2. \E g : g = Over(g)
    <3> HIDE DEF e, n, Over
    <3> QED BY <1>3, <2>1
  <2>3. iter = Over(iter)
    <3> HIDE DEF Over
    <3> QED BY <2>2
  <2> HIDE DEF e, n, Over, iter
  <2> QED BY <1>3, <2>3
<1>5. iter[0 .. n - 1] = r[n]
  <2>1. SumsUp(r, 0 .. n - 1, n, e)
    OBVIOUS
  <2> HIDE DEF e, n, iter
  <2> QED BY <1>2, <1>4, <2>1, AddsUpIsSum
<1>6. DOMAIN w = 0 .. n - 1
  BY DEF SliceIndex
<1> HIDE DEF iter
<1> QED BY <1>1, <1>5, <1>6

(* The last n slices of w are the first n of the codeword of m, with total *)
(* byte errors on them.                                                    *)
Received(w, n, m, total) ==
  /\ DOMAIN w = SliceIndex
  /\ \A i \in 0 .. n - 1 :
       /\ w[BeatsPerCw - n + i].msg = m
       /\ w[BeatsPerCw - n + i].idx = i
       /\ w[BeatsPerCw - n + i].err \in Nat
  /\ \E r \in [0 .. n -> Nat] :
       /\ r[0] = 0 /\ r[n] = total
       /\ \A i \in 0 .. n - 1 : r[i + 1] = r[i] + w[BeatsPerCw - n + i].err

LEMMA ReceivedNone ==
  ASSUME NEW w, DOMAIN w = SliceIndex, NEW m PROVE Received(w, 0, m, 0)
<1>1. PICK r \in [0 .. 0 -> Nat] : r[0] = 0
  <2>1. [i \in 0 .. 0 |-> 0] \in [0 .. 0 -> Nat] /\ [i \in 0 .. 0 |-> 0][0] = 0
    OBVIOUS
  <2> QED BY <2>1
<1>2. 0 .. 0 - 1 = {}
  OBVIOUS
<1> QED BY <1>1, <1>2 DEF Received

LEMMA ReceivedNext ==
  ASSUME NEW n \in 0 .. BeatsPerCw - 1, NEW w, NEW m, NEW total \in Nat, NEW e \in Nat,
         Received(w, n, m, total)
  PROVE  Received(ShiftWord(w, [msg |-> m, idx |-> n, err |-> e]), n + 1, m, total + e)
<1> DEFINE s == [msg |-> m, idx |-> n, err |-> e]
           v == ShiftWord(w, s)
<1>1. DOMAIN v = SliceIndex
  BY DEF ShiftWord
<1>2. \A i \in 0 .. n - 1 : v[BeatsPerCw - (n + 1) + i] = w[BeatsPerCw - n + i]
  BY DEF ShiftWord, SliceIndex
<1>3. v[BeatsPerCw - (n + 1) + n] = s
  BY DEF ShiftWord, SliceIndex
<1>s. s.msg = m /\ s.idx = n /\ s.err = e
  OBVIOUS
<1>h. (n + 1) - 1 = n
  OBVIOUS
<1> HIDE DEF v, s
<1>4. ASSUME NEW i \in 0 .. n
      PROVE  /\ v[BeatsPerCw - (n + 1) + i].msg = m
             /\ v[BeatsPerCw - (n + 1) + i].idx = i
             /\ v[BeatsPerCw - (n + 1) + i].err \in Nat
  <2>1. CASE i = n
    BY <1>3, <1>s, <2>1
  <2>2. CASE i # n
    <3>1. i \in 0 .. n - 1
      BY <2>2
    <3> QED BY <1>2, <3>1 DEF Received
  <2> QED BY <2>1, <2>2
<1>5. PICK r \in [0 .. n -> Nat] :
        /\ r[0] = 0 /\ r[n] = total
        /\ \A i \in 0 .. n - 1 : r[i + 1] = r[i] + w[BeatsPerCw - n + i].err
  BY DEF Received
<1> DEFINE q == [i \in 0 .. n + 1 |-> IF i = n + 1 THEN total + e ELSE r[i]]
<1>6. q \in [0 .. n + 1 -> Nat]
  <2>1. \A i \in 0 .. n + 1 : i # n + 1 => i \in 0 .. n
    OBVIOUS
  <2> QED BY <2>1
<1>7. q[0] = 0 /\ q[n + 1] = total + e
  BY <1>5
<1>8. ASSUME NEW i \in 0 .. n PROVE q[i + 1] = q[i] + v[BeatsPerCw - (n + 1) + i].err
  <2>1. CASE i = n
    BY <1>3, <1>5, <1>s, <2>1
  <2>2. CASE i # n
    <3>1. i \in 0 .. n - 1 /\ i + 1 # n + 1 /\ i # n + 1 /\ i \in 0 .. n + 1 /\ i + 1 \in 0 .. n + 1
      BY <2>2
    <3>2. q[i + 1] = r[i + 1] /\ q[i] = r[i]
      BY <3>1
    <3> QED BY <1>2, <1>5, <3>1, <3>2
  <2> QED BY <2>1, <2>2
<1> HIDE DEF q
<1>9. Received(v, n + 1, m, total + e)
  BY <1>1, <1>4, <1>6, <1>7, <1>8, <1>h DEF Received
<1> QED BY <1>9 DEF v, s

(* What the decoder can do right by: no word has more errors than the      *)
(* channel puts on one.                                                    *)
Good(w) ==
  Correctable(w) /\ ByteErrors(w) \in 0 .. MaxErrs /\ MsgOf(w) \in Message

LEMMA GoodIsClean ==
  ASSUME NEW w, Good(w), MaxErrs = 0 PROVE SyndromesZero(w)
BY DEF Good, Correctable, SyndromesZero

LEMMA ReceivedAll ==
  ASSUME MaxErrs <= T,
         NEW w, NEW m \in Message, NEW total \in 0 .. MaxErrs, Received(w, BeatsPerCw, m, total)
  PROVE  Good(w) /\ MsgOf(w) = m
<1>1. \A i \in SliceIndex : BeatsPerCw - BeatsPerCw + i = i
  BY DEF SliceIndex
<1>2. \A i \in SliceIndex : w[i].msg = m /\ w[i].idx = i /\ w[i].err \in Nat
  BY <1>1 DEF Received, SliceIndex
<1>3. Aligned(w) /\ MsgOf(w) = m
  BY <1>2 DEF Aligned, MsgOf, SliceIndex
<1>4. PICK r \in [0 .. BeatsPerCw -> Nat] :
        /\ r[0] = 0 /\ r[BeatsPerCw] = total
        /\ \A i \in 0 .. BeatsPerCw - 1 : r[i + 1] = r[i] + w[BeatsPerCw - BeatsPerCw + i].err
  BY DEF Received
<1> DEFINE e == [i \in SliceIndex |-> w[i].err]
<1>5. SumsUp(r, 0 .. BeatsPerCw - 1, BeatsPerCw, e)
  <2>1. \A i \in 0 .. BeatsPerCw - 1 : r[i + 1] = r[i] + e[i]
    BY <1>1, <1>4 DEF SliceIndex
  <2> HIDE DEF e
  <2> QED BY <1>4, <2>1 DEF SumsUp
<1>6. DOMAIN w = SliceIndex
  BY DEF Received
<1>7. ByteErrors(w) = r[BeatsPerCw]
  BY <1>2, <1>5, <1>6, ErrorsAddUp
<1> QED BY <1>3, <1>4, <1>7, LinkAssumption DEF Good, Correctable

-----------------------------------------------------------------------------
(* The decoder is an instance: its terms for words are the receiver's.     *)
LEMMA DecErrors == ASSUME NEW w PROVE Dec!ByteErrors(w) = ByteErrors(w)
BY DEF Dec!ByteErrors, ByteErrors, Dec!FoldFunction, FoldFunction,
       Dec!FoldFunctionOnSet, FoldFunctionOnSet, Dec!MapThenFoldSet, MapThenFoldSet

LEMMA DecWords ==
  ASSUME NEW w
  PROVE  /\ Dec!SyndromesZero(w) <=> SyndromesZero(w)
         /\ Dec!MsgBytes(w) = MsgBytes(w)
         /\ Dec!Corrected(w, w) = Corrected(w, w)
<1>1. (Dec!Aligned(w) <=> Aligned(w)) /\ Dec!MsgOf(w) = MsgOf(w)
  BY DEF Dec!Aligned, Aligned, Dec!SliceIndex, SliceIndex, Dec!MsgOf, MsgOf
<1>2. Dec!JunkMessage = JunkMessage
  BY DEF Dec!JunkMessage, JunkMessage, Dec!JunkFlit, JunkFlit
<1>3. Dec!SyndromesZero(w) <=> SyndromesZero(w)
  BY <1>1, DecErrors DEF Dec!SyndromesZero, SyndromesZero
<1>4. Dec!Correctable(w) <=> Correctable(w)
  BY <1>1, DecErrors DEF Dec!Correctable, Correctable
<1> QED BY <1>1, <1>2, <1>3, <1>4 DEF Dec!MsgBytes, MsgBytes, Dec!Corrected, Corrected

-----------------------------------------------------------------------------
(* The decoder and its words: what is handed on belongs to the word that   *)
(* was accepted.                                                           *)
Carried ==
  /\ fec_cw_valid => Good(fec_cw)
  /\ state # "IDLE" => Good(cw_reg)
  /\ SolverSeesWord
  /\ ibm_active => ibm_s = cw_reg
  /\ ibm_done => lambda = cw_reg
  /\ chien_start => lambda = cw_reg
  /\ chien_active => chien_eval = cw_reg
  /\ chien_done => error_magnitudes = cw_reg
  /\ state = "DONE" => \/ syndromes_zero_q /\ SyndromesZero(cw_reg)
                       \/ ~syndromes_zero_q /\ error_magnitudes = cw_reg
  /\ state \in {"IBM", "CHIEN"} => ~syndromes_zero_q

LEMMA IbmCarries ==
  ASSUME Dec!Ibm, Handshakes, Carried, cw_reg' = cw_reg
  PROVE  /\ ibm_active' => ibm_s' = cw_reg'
         /\ ibm_done' => lambda' = cw_reg'
         /\ ~ibm_start /\ ~ibm_active => lambda' = lambda
<1>1. CASE Dec!IbmStart
  BY <1>1 DEF Dec!IbmStart, Carried, SolverSeesWord
<1>2. CASE Dec!IbmIterate
  <2>1. ibm_active /\ ~ibm_start /\ ~ibm_done /\ ibm_s = cw_reg /\ cycle_cnt \in 0 .. 3
    BY <1>2 DEF Dec!IbmIterate, Handshakes, IbmQuiet, One, Carried
  <2>2. ibm_s' = ibm_s /\ (cycle_cnt = 3 => lambda' = ibm_s)
    BY <1>2 DEF Dec!IbmIterate, Dec!LastIbmCycle
  <2>3. cycle_cnt # 3 => ~ibm_done'
    BY <2>1, IbmEdge
  <2> QED BY <2>1, <2>2, <2>3
<1>3. CASE Dec!IbmRest
  BY <1>3 DEF Dec!IbmRest, Carried
<1> QED BY <1>1, <1>2, <1>3 DEF Dec!Ibm

LEMMA ChienCarries ==
  ASSUME Dec!Chien, Carried, cw_reg' = cw_reg
  PROVE  /\ chien_active' => chien_eval' = cw_reg'
         /\ chien_done' => error_magnitudes' = cw_reg'
         /\ ~chien_start /\ ~chien_active => error_magnitudes' = error_magnitudes
<1>1. CASE Dec!ChienStart
  BY <1>1 DEF Dec!ChienStart, Carried
<1>2. CASE Dec!ChienMagnitudes
  BY <1>2 DEF Dec!ChienMagnitudes, Carried
<1>3. CASE Dec!ChienRest
  BY <1>3 DEF Dec!ChienRest, Carried
<1> QED BY <1>1, <1>2, <1>3 DEF Dec!Chien

LEMMA FsmCarries ==
  ASSUME Handshakes, Carried, Dec!DecClk,
         fec_cw_valid => fec_cw' = fec_cw \/ SyndromesZero(fec_cw),
         fec_cw_valid' => Good(fec_cw')
  PROVE  /\ Carried'
         /\ valid_out' <=> state = "DONE"
         /\ valid_out' => msg_out' = MsgOf(cw_reg)
         /\ state = "IDLE" /\ fec_cw_valid => state' # "IDLE" /\ cw_reg' = fec_cw
         /\ state = "IDLE" /\ ~fec_cw_valid => state' = "IDLE"
         /\ state \in {"IBM", "CHIEN"} => state' # "IDLE" /\ cw_reg' = cw_reg
         /\ state = "DONE" => state' = "IDLE"
<1>1. /\ Dec!Fsm /\ Dec!Ibm /\ Dec!Chien /\ Handshakes'
  BY DecEdge DEF Dec!DecClk
<1>2. CASE Dec!AcceptClean
  <2>1. ~ibm_active' /\ ~ibm_done' /\ ~chien_active' /\ ~chien_done' /\ ~chien_start' /\ ~ibm_start'
    BY <1>1, <1>2 DEF Dec!AcceptClean, Handshakes, IbmQuiet, ChienQuiet
  <2>2. /\ state = "IDLE" /\ fec_cw_valid /\ cw_reg' = fec_cw /\ SyndromesZero(fec_cw)
        /\ state' = "DONE" /\ ~valid_out'
    BY <1>2, DecWords DEF Dec!AcceptClean
  <2>3. syndromes_zero_q'
    BY <1>2 DEF Dec!AcceptClean
  <2>4. SyndromesZero(cw_reg')
    BY <2>2
  <2> QED BY <2>1, <2>2, <2>3, <2>4 DEF Carried, SolverSeesWord
<1>3. CASE Dec!AcceptErrored
  <2>1. ~ibm_active' /\ ~ibm_done' /\ ~chien_active' /\ ~chien_done' /\ ~chien_start'
    BY <1>1, <1>3 DEF Dec!AcceptErrored, Handshakes, IbmQuiet, ChienQuiet, One
  <2>2. fec_cw_valid /\ ~SyndromesZero(fec_cw)
    BY <1>3, DecWords DEF Dec!AcceptErrored
  <2> QED BY <1>3, <2>1, <2>2 DEF Dec!AcceptErrored, Carried, SolverSeesWord
<1>4. CASE Dec!Wait
  <2>1. cw_reg' = cw_reg /\ state' = state /\ ~ibm_start' /\ ~chien_start' /\ ~valid_out'
        /\ (syndromes_zero_q' <=> syndromes_zero_q) /\ state # "DONE"
        /\ (state = "IDLE" => ~fec_cw_valid)
    BY <1>4 DEF Dec!Wait
  <2> QED BY <1>1, <2>1, IbmCarries, ChienCarries DEF Carried, SolverSeesWord, Handshakes
<1>5. CASE Dec!Solved
  <2>1. cw_reg' = cw_reg /\ state = "IBM" /\ state' = "CHIEN" /\ ~ibm_start' /\ chien_start' /\ ~valid_out'
        /\ (syndromes_zero_q' <=> syndromes_zero_q) /\ ibm_done
    BY <1>5 DEF Dec!Solved
  <2>2. lambda = cw_reg /\ ~ibm_start /\ ~ibm_active
    BY <2>1 DEF Carried, Handshakes, One
  <2> QED BY <1>1, <2>1, <2>2, IbmCarries, ChienCarries DEF Carried, SolverSeesWord
<1>6. CASE Dec!Searched
  <2>1. cw_reg' = cw_reg /\ state = "CHIEN" /\ state' = "DONE" /\ ~ibm_start' /\ ~chien_start' /\ ~valid_out'
        /\ (syndromes_zero_q' <=> syndromes_zero_q) /\ chien_done
    BY <1>6 DEF Dec!Searched
  <2>2. error_magnitudes = cw_reg /\ ~chien_start /\ ~chien_active /\ ~syndromes_zero_q
    BY <2>1 DEF Carried, Handshakes, One
  <2> QED BY <1>1, <2>1, <2>2, IbmCarries, ChienCarries DEF Carried, SolverSeesWord
<1>7. CASE Dec!Deliver
  <2>1. cw_reg' = cw_reg /\ state = "DONE" /\ state' = "IDLE" /\ ~ibm_start' /\ ~chien_start' /\ valid_out'
    BY <1>7 DEF Dec!Deliver
  <2>2. msg_out' = MsgOf(cw_reg)
    <3>1. \/ syndromes_zero_q /\ MsgBytes(cw_reg) = MsgOf(cw_reg)
          \/ ~syndromes_zero_q /\ Corrected(cw_reg, cw_reg) = MsgOf(cw_reg)
             /\ error_magnitudes = cw_reg
      BY <2>1 DEF Carried, MsgBytes, Corrected, Good
    <3>2. msg_out' = IF syndromes_zero_q THEN Dec!MsgBytes(cw_reg)
                                         ELSE Dec!Corrected(cw_reg, error_magnitudes)
      BY <1>7 DEF Dec!Deliver
    <3>3. \/ syndromes_zero_q /\ msg_out' = MsgBytes(cw_reg)
          \/ ~syndromes_zero_q /\ msg_out' = Dec!Corrected(cw_reg, error_magnitudes)
      BY <3>2, DecWords
    <3> QED BY <3>1, <3>3, DecWords
  <2> QED BY <1>1, <2>1, <2>2, IbmCarries, ChienCarries DEF Carried, SolverSeesWord
<1> QED BY <1>1, <1>2, <1>3, <1>4, <1>5, <1>6, <1>7 DEF Dec!Fsm

-----------------------------------------------------------------------------
(* The loopback's words.  The accumulator holds the slices sent so far of  *)
(* the codeword in the serialiser, with the errors put on them.            *)
SlicesReceived ==
  /\ Received(fec_cw, dist_cnt, symbols_reg, cw_errs)
  /\ cw_errs \in 0 .. MaxErrs

LEMMA NoErrsYet ==
  ASSUME NEW w, NEW m, NEW total, Received(w, 0, m, total)
  PROVE  total = 0 /\ DOMAIN w = SliceIndex
BY DEF Received

LEMMA SlicesEdge ==
  ASSUME MaxErrs <= T, TxTypeOK, SlicesCounted, FreeInTime, SlicesReceived,
         NEW in \in NetInput, NEW e \in 0 .. MaxErrs, Clk(in, e)
  PROVE  /\ SlicesReceived'
         /\ fec_cw_valid' => Good(fec_cw') /\ MsgOf(fec_cw') = symbols_reg
         /\ fec_cw_valid /\ Spacing > BeatsPerCw => fec_cw' = fec_cw
<1>0. /\ TxClk(in) /\ Channel(e)
      /\ dist_cnt \in 0 .. BeatsPerCw - 1 /\ cw_cnt = dist_cnt /\ symbols_reg \in Message
      /\ cw_errs \in 0 .. MaxErrs /\ MaxErrs \in Nat /\ BeatsPerCw - 1 # 0
  BY LinkAssumption DEF Clk, TxTypeOK, SlicesCounted, SlicesReceived
<1>1. CASE dist_active
  <2> DEFINE s == [LaneSlice EXCEPT !.err = e]
             v == ShiftWord(fec_cw, s)
  <2>1. s = [msg |-> symbols_reg, idx |-> dist_cnt, err |-> e]
    BY DEF LaneSlice
  <2>2. /\ fec_cw' = v
        /\ ~(fec_cw_valid /\ Spacing > BeatsPerCw)
        /\ cw_valid => dist_cnt = BeatsPerCw - 1
    BY <1>1, LinkRxEdge DEF SlicesCounted, FreeInTime
  <2>3. cw_errs + e \in 0 .. MaxErrs
        /\ cw_errs' = IF dist_cnt = BeatsPerCw - 1 THEN 0 ELSE cw_errs + e
    BY <1>0 DEF Channel
  <2>4. Received(v, dist_cnt + 1, symbols_reg, cw_errs + e)
    BY <1>0, <2>1, <2>3, ReceivedNext DEF SlicesReceived
  <2> HIDE DEF v, s
  <2>5. CASE dist_cnt = BeatsPerCw - 1
    <3>1. dist_cnt' = 0 /\ cw_errs' = 0
      BY <1>0, <1>1, <2>2, <2>3, <2>5, SerialiserEdge
    <3>2. Received(v, BeatsPerCw, symbols_reg, cw_errs + e) /\ cw_errs + e \in 0 .. MaxErrs
      BY <1>0, <2>3, <2>4, <2>5
    <3>3. Good(v) /\ MsgOf(v) = symbols_reg
      BY <1>0, <3>2, ReceivedAll
    <3>4. \A m : Received(v, 0, m, 0)
      BY <3>2, ReceivedNone DEF Received
    <3>5. SlicesReceived'
      BY <1>0, <2>2, <3>1, <3>4 DEF SlicesReceived
    <3> QED BY <2>2, <3>3, <3>5
  <2>6. CASE dist_cnt # BeatsPerCw - 1
    <3>1. dist_cnt' = dist_cnt + 1 /\ cw_errs' = cw_errs + e /\ symbols_reg' = symbols_reg
      BY <1>0, <1>1, <2>2, <2>3, <2>6, SerialiserEdge
    <3>2. ~fec_cw_valid'
      BY <1>0, <1>1, <2>6, LinkRxEdge
    <3>3. SlicesReceived'
      BY <2>2, <2>3, <2>4, <3>1 DEF SlicesReceived
    <3> QED BY <2>2, <3>2, <3>3
  <2> QED BY <2>5, <2>6
<1>2. CASE ~dist_active
  <2>1. dist_cnt = 0 /\ fec_cw' = fec_cw /\ ~fec_cw_valid'
    BY <1>2, LinkRxEdge DEF SlicesCounted
  <2>2. dist_cnt' = 0
    BY <1>0, <1>2, <2>1, SerialiserEdge
  <2>3. cw_errs = 0 /\ DOMAIN fec_cw = SliceIndex
    BY <2>1, NoErrsYet DEF SlicesReceived
  <2>4. e = 0 /\ cw_errs' = 0
    BY <1>0, <1>2, <2>1, <2>3 DEF Channel
  <2>5. \A m : Received(fec_cw, 0, m, 0)
    BY <2>3, ReceivedNone
  <2>6. SlicesReceived'
    BY <1>0, <2>1, <2>2, <2>4, <2>5 DEF SlicesReceived
  <2> QED BY <2>1, <2>6
<1> QED BY <1>1, <1>2

-----------------------------------------------------------------------------
(* What has its type when it counts.                                       *)
PipeTypes ==
  /\ valid_out => msg_out \in Message
  /\ flits_active => flits_reg \in Message

LinkInv ==
  /\ PacedInv /\ SlicesCounted
  /\ Ahead \in Nat /\ DecodedInTime(Ahead) /\ EmittedInTime(Ahead)
  /\ SlicesReceived /\ Carried /\ PipeTypes

(* The pacing the link needs: the serialiser's, and where words may have   *)
(* errors the decoder's and the de-accumulator's and an idle lane cycle.   *)
Paced ==
  /\ Spacing >= 5 /\ Spacing >= BeatsPerCw
  /\ MaxErrs > 0 => Spacing >= 11 /\ Spacing >= FlitsPerCw + 9 /\ Spacing > BeatsPerCw

Slowest == IF MaxErrs = 0 THEN 1 ELSE 10

LEMMA PacedDecoder ==
  ASSUME Paced
  PROVE  /\ Slowest \in 1 .. 10
         /\ Spacing >= Slowest + 1 /\ Spacing >= FlitsPerCw + Slowest - 1
BY LinkAssumption DEF Paced, Slowest

\* Where a word may be overwritten in its second cycle it is clean.
LEMMA KeptOrClean ==
  ASSUME Paced, Carried, fec_cw_valid, ~(Spacing > BeatsPerCw)
  PROVE  SyndromesZero(fec_cw)
BY LinkAssumption, GoodIsClean DEF Paced, Carried

LEMMA LinkEdge ==
  ASSUME Paced, MaxErrs <= T, LinkInv,
         NEW in \in NetInput, NEW e \in 0 .. MaxErrs, Clk(in, e)
  PROVE  LinkInv'
<1>1. /\ FreeInTime
      /\ Ahead \in Nat /\ Ahead' \in Nat
      /\ CountsDown(Spacing, Ahead, Ahead')
      /\ SlicesCounted'
  BY AheadEdge DEF Paced, LinkInv
<1>2. TxTypeOK /\ TxClk(in) /\ Dec!DecClk /\ Deaccumulate
  BY LinkRxEdge DEF LinkInv, PacedInv, Clk
<1>3. PacedInv'
  <2>1. [TxNext]_txVars
    BY <1>2 DEF TxNext
  <2> QED BY <2>1, PacedStep DEF LinkInv, Paced
<1>4. DecodedInTime(Ahead)' /\ EmittedInTime(Ahead)'
  <2>1. PICK hold \in Nat, later \in Nat : hold = Ahead /\ later = Ahead'
    BY <1>1
  <2>2. fec_cw_valid => hold >= Spacing - 1
    BY <2>1 DEF LinkInv, SlicesCounted
  <2>3. CountsDown(Spacing, hold, later) /\ DecodedInTime(hold) /\ EmittedInTime(hold)
    BY <1>1, <2>1 DEF LinkInv
  <2>4. Left = 0 /\ fec_cw_valid => Left' <= Slowest
    <3>1. Handshakes /\ (fec_cw_valid /\ MaxErrs = 0 => Dec!SyndromesZero(fec_cw))
      BY GoodIsClean, DecWords DEF LinkInv, DecodedInTime, Carried
    <3> QED BY <1>2, <3>1, CleanWord, DecEdge DEF Slowest
  <2>5. PICK longest \in 1 .. 10 :
          /\ longest = Slowest
          /\ Spacing >= longest + 1 /\ Spacing >= FlitsPerCw + longest - 1
    BY PacedDecoder
  <2>6. DecodedInTime(later)' /\ EmittedInTime(later)'
    BY <1>2, <2>2, <2>3, <2>4, <2>5, DecodeStep, EmitStep
  <2> QED BY <2>1, <2>6 DEF DecodedInTime, EmittedInTime
<1>5. /\ SlicesReceived'
      /\ fec_cw_valid' => Good(fec_cw')
      /\ fec_cw_valid => fec_cw' = fec_cw \/ SyndromesZero(fec_cw)
  <2>1. SlicesReceived' /\ (fec_cw_valid' => Good(fec_cw'))
        /\ (fec_cw_valid /\ Spacing > BeatsPerCw => fec_cw' = fec_cw)
    BY <1>1, <1>2, SlicesEdge DEF LinkInv
  <2> QED BY <2>1, KeptOrClean DEF LinkInv
<1>6. Carried' /\ (valid_out' => state = "DONE" /\ msg_out' = MsgOf(cw_reg))
  BY <1>2, <1>5, FsmCarries DEF LinkInv, DecodedInTime
<1>7. PipeTypes'
  <2>1. valid_out' => msg_out' \in Message
    BY <1>6 DEF LinkInv, Carried, Good
  <2>2. CASE LoadMessage
    BY <2>1, <2>2 DEF LoadMessage, LinkInv, PipeTypes
  <2>3. CASE EmitFlit
    BY <2>1, <2>3 DEF EmitFlit, LinkInv, PipeTypes
  <2>4. CASE NoMessage
    BY <2>1, <2>4 DEF NoMessage, deaccu, LinkInv, PipeTypes
  <2> QED BY <1>2, <2>2, <2>3, <2>4 DEF Deaccumulate
<1> QED BY <1>1, <1>3, <1>4, <1>5, <1>6, <1>7 DEF LinkInv

LEMMA LinkStarts == ASSUME Paced PROVE Init => LinkInv
<1> SUFFICES ASSUME Init PROVE LinkInv
  OBVIOUS
<1>1. RxInit /\ TxInit /\ cw_errs = 0
  BY DEF Init
<1>2. PacedInv
  BY <1>1, PacedInit DEF Paced
<1>3. SlicesCounted
  BY <1>1 DEF SlicesCounted, RxInit, TxInit
<1>4. Ahead \in Nat
  BY <1>1 DEF Ahead, AheadIdle, TxInit
<1>5. DecodedInTime(Ahead) /\ EmittedInTime(Ahead) /\ SolverSeesWord
  BY <1>1, <1>4, TimingInit
<1>6. SlicesReceived
  <2>1. DOMAIN ZeroWord = SliceIndex
    BY DEF ZeroWord
  <2>2. \A m : Received(ZeroWord, 0, m, 0)
    BY <2>1, ReceivedNone
  <2> QED BY <1>1, <2>2, LinkAssumption DEF SlicesReceived, RxInit, TxInit
<1>7. Carried /\ PipeTypes
  BY <1>1, <1>5 DEF Carried, PipeTypes, RxInit, Dec!DecInit
<1> QED BY <1>2, <1>3, <1>4, <1>5, <1>6, <1>7 DEF LinkInv

LEMMA LinkRestarts == ASSUME Paced, LinkInv, Reset PROVE LinkInv'
<1>1. RxReset /\ TxReset /\ cw_errs' = 0
  BY DEF Reset
<1>2. PacedInv'
  <2>1. [TxNext]_txVars
    BY <1>1 DEF TxNext
  <2> QED BY <2>1, PacedStep DEF LinkInv, Paced
<1>3. SlicesCounted'
  BY <1>1 DEF SlicesCounted, RxReset, TxReset
<1>4. Ahead' \in Nat
  BY <1>1 DEF Ahead, AheadIdle, TxReset
<1>5. DecodedInTime(Ahead)' /\ EmittedInTime(Ahead)' /\ SolverSeesWord'
  <2>1. PICK later \in Nat : later = Ahead'
    BY <1>4
  <2>2. DecodedInTime(later)' /\ EmittedInTime(later)' /\ SolverSeesWord'
    BY <1>1, TimingReset
  <2> QED BY <2>1, <2>2 DEF DecodedInTime, EmittedInTime
<1>6. SlicesReceived'
  <2>1. DOMAIN ZeroWord = SliceIndex
    BY DEF ZeroWord
  <2>2. \A m : Received(ZeroWord, 0, m, 0)
    BY <2>1, ReceivedNone
  <2> QED BY <1>1, <2>2, LinkAssumption DEF SlicesReceived, RxReset, TxReset
<1>7. Carried' /\ PipeTypes'
  BY <1>1, <1>5 DEF Carried, PipeTypes, RxReset, Dec!DecReset
<1> QED BY <1>2, <1>3, <1>4, <1>5, <1>6, <1>7 DEF LinkInv

LEMMA LinkStutters ==
  ASSUME LinkInv, UNCHANGED vars PROVE LinkInv'
<1>1. UNCHANGED rxVars /\ UNCHANGED txVars /\ UNCHANGED cw_errs
  BY DEF vars
<1>2. PacedInv' <=> PacedInv
  BY <1>1 DEF txVars, regs, src, PacedInv, TxTypeOK, CountsAgree, Early, Age1, Age2, Age3, Age4,
              SlicesSent
<1>3. Ahead' = Ahead /\ (SlicesCounted' <=> SlicesCounted)
  BY <1>1 DEF rxVars, txVars, regs, src, accu, Ahead, Owed, SlicesCounted
<1>4. (DecodedInTime(Ahead)' <=> DecodedInTime(Ahead)) /\ (EmittedInTime(Ahead)' <=> EmittedInTime(Ahead))
  BY <1>1, <1>3, RxUnchanged DEF DecodedInTime, EmittedInTime
<1>5. /\ SlicesReceived' <=> SlicesReceived
      /\ Carried' <=> Carried
      /\ PipeTypes' <=> PipeTypes
  BY <1>1, RxUnchanged
     DEF rxVars, txVars, regs, accu, deaccu, Dec!decVars, Dec!control, Dec!output, Dec!ibm, Dec!chien,
         SlicesReceived, Carried, PipeTypes
<1> QED BY <1>2, <1>3, <1>4, <1>5 DEF LinkInv

-----------------------------------------------------------------------------
(* A stage of the pipeline in one step: it held was, entered came in, left *)
(* went out, and it holds now.                                             *)
Moves(left, now, was, entered) ==
  /\ left \in Seq(Flit) /\ now \in Seq(Flit) /\ was \in Seq(Flit) /\ entered \in Seq(Flit)
  /\ left \o now = was \o entered

LEMMA Joined == \A p, q \in Seq(Flit) : p \o q \in Seq(Flit)
BY ConcatProperties

Associates(p, q, r) == (p \o q) \o r = p \o (q \o r)

LEMMA Rebracket ==
  ASSUME NEW S, NEW p \in Seq(S), NEW q \in Seq(S), NEW r \in Seq(S)
  PROVE  Associates(p, q, r)
BY ConcatAssociative DEF Associates

\* What leaves one stage enters the one before it: the two are a stage.
LEMMA StagesJoin ==
  ASSUME NEW left, NEW now1, NEW was1, NEW mid, NEW now2, NEW was2, NEW entered,
         Moves(left, now1, was1, mid), Moves(mid, now2, was2, entered)
  PROVE  Moves(left, now1 \o now2, was1 \o was2, entered)
<1>1. /\ left \in Seq(Flit) /\ now1 \in Seq(Flit) /\ was1 \in Seq(Flit) /\ mid \in Seq(Flit)
      /\ now2 \in Seq(Flit) /\ was2 \in Seq(Flit) /\ entered \in Seq(Flit)
  BY DEF Moves
<1>2. left \o now1 = was1 \o mid /\ mid \o now2 = was2 \o entered
  BY DEF Moves
<1>3. left \o (now1 \o now2) = (left \o now1) \o now2
  <2>1. Associates(left, now1, now2)
    BY <1>1, Rebracket, Zenon
  <2> QED BY <2>1, Zenon DEF Associates
<1>4. (left \o now1) \o now2 = (was1 \o mid) \o now2
  BY <1>2, Zenon
<1>5. (was1 \o mid) \o now2 = was1 \o (mid \o now2)
  <2>1. Associates(was1, mid, now2)
    BY <1>1, Rebracket, Zenon
  <2> QED BY <2>1, Zenon DEF Associates
<1>6. was1 \o (mid \o now2) = was1 \o (was2 \o entered)
  BY <1>2, Zenon
<1>7. was1 \o (was2 \o entered) = (was1 \o was2) \o entered
  <2>1. Associates(was1, was2, entered)
    BY <1>1, Rebracket, Zenon
  <2> QED BY <2>1, Zenon DEF Associates
<1>8. now1 \o now2 \in Seq(Flit) /\ was1 \o was2 \in Seq(Flit)
  BY <1>1, Joined, Zenon
<1>9. left \o (now1 \o now2) = (was1 \o was2) \o entered
  BY <1>3, <1>4, <1>5, <1>6, <1>7, Zenon
<1> QED BY <1>1, <1>8, <1>9, Zenon DEF Moves

LEMMA Empties == ASSUME NEW q \in Seq(Flit) PROVE << >> \o q = q /\ q \o << >> = q /\ << >> \in Seq(Flit)
BY ConcatEmptySeq

\* A register that passes on what it holds and takes what comes.
LEMMA RegisterMoves ==
  ASSUME NEW was \in Seq(Flit), NEW now \in Seq(Flit) PROVE Moves(was, now, was, now)
BY DEF Moves

LEMMA RestMoves ==
  ASSUME NEW q \in Seq(Flit) PROVE Moves(<< >>, q, q, << >>)
BY Empties DEF Moves

LEMMA FillMoves ==
  ASSUME NEW q \in Seq(Flit) PROVE Moves(<< >>, q, << >>, q)
BY Empties DEF Moves

LEMMA DrainMoves ==
  ASSUME NEW q \in Seq(Flit) PROVE Moves(q, << >>, q, << >>)
BY Empties DEF Moves

-----------------------------------------------------------------------------
LEMMA MessageIsSeq == ASSUME NEW m \in Message PROVE m \in Seq(Flit) /\ Len(m) = FlitsPerCw
BY DEF Message

\* The flits of m from the n-th on.
From(m, n) == SubSeq(m, n, FlitsPerCw)

LEMMA FromFirst ==
  ASSUME NEW m \in Message, NEW n \in 1 .. FlitsPerCw
  PROVE  /\ From(m, n) = << m[n] >> \o From(m, n + 1)
         /\ m[n] \in Flit /\ << m[n] >> \in Seq(Flit)
         /\ From(m, n) \in Seq(Flit) /\ From(m, n + 1) \in Seq(Flit)
<1>1. m \in Seq(Flit) /\ Len(m) = FlitsPerCw /\ n \in 1 .. Len(m) /\ Len(m) \in n .. Len(m)
  BY MessageIsSeq
<1>2. SubSeq(m, n, Len(m)) = << m[n] >> \o SubSeq(m, n + 1, Len(m))
  BY <1>1, SubSeqRecursiveFirst
<1>3. m[n] \in Flit
  BY DEF Message
<1>4. SubSeq(m, n, FlitsPerCw) \in Seq(Flit) /\ SubSeq(m, n + 1, FlitsPerCw) \in Seq(Flit)
  BY <1>1
<1> QED BY <1>1, <1>2, <1>3, <1>4 DEF From

LEMMA FromEnds ==
  ASSUME NEW m \in Message
  PROVE  From(m, 1) = m /\ From(m, FlitsPerCw + 1) = << >>
<1>1. m \in Seq(Flit) /\ Len(m) = FlitsPerCw
  BY MessageIsSeq
<1>2. SubSeq(m, 1, Len(m)) = m
  BY <1>1, SubSeqFull
<1>3. SubSeq(m, FlitsPerCw + 1, FlitsPerCw) = << >>
  BY SubSeqEmpty
<1> QED BY <1>1, <1>2, <1>3 DEF From

LEMMA FromShifted ==
  ASSUME NEW m \in Message, NEW f \in Flit, NEW c \in 0 .. FlitsPerCw - 1
  PROVE  /\ From(ShiftIn(m, f), FlitsPerCw - c) = From(m, FlitsPerCw - c + 1) \o << f >>
         /\ From(m, FlitsPerCw - c + 1) \in Seq(Flit) /\ << f >> \in Seq(Flit)
         /\ From(ShiftIn(m, f), FlitsPerCw - c) \in Seq(Flit)
<1> DEFINE v == ShiftIn(m, f)
           l == From(v, FlitsPerCw - c)
           r == From(m, FlitsPerCw - c + 1)
<1>1. v \in Message
  BY ShiftInType
<1>2. \A i \in 1 .. FlitsPerCw : v[i] = IF i = FlitsPerCw THEN f ELSE m[i + 1]
  BY DEF ShiftIn
<1>3. /\ l \in Seq(Flit) /\ Len(l) = c + 1
      /\ \A i \in 1 .. c + 1 : l[i] = v[FlitsPerCw - c + i - 1]
  <2>1. \A i \in (FlitsPerCw - c) .. FlitsPerCw : v[i] \in Flit
    BY <1>1 DEF Message
  <2> HIDE DEF v
  <2> QED BY <2>1, SubSeqProperties DEF From
<1>4. /\ r \in Seq(Flit) /\ Len(r) = c
      /\ \A i \in 1 .. c : r[i] = m[FlitsPerCw - c + i]
  <2>1. \A i \in (FlitsPerCw - c + 1) .. FlitsPerCw : m[i] \in Flit
    BY DEF Message
  <2> QED BY <2>1, SubSeqProperties DEF From
<1>5. << f >> \in Seq(Flit) /\ Len(<< f >>) = 1 /\ << f >>[1] = f
  OBVIOUS
<1> HIDE DEF l, r, v
<1>6. /\ r \o << f >> \in Seq(Flit) /\ Len(r \o << f >>) = c + 1
      /\ \A i \in 1 .. c + 1 : (r \o << f >>)[i] = IF i = c + 1 THEN f ELSE r[i]
  BY <1>4, <1>5
<1>7. \A i \in 1 .. c + 1 : l[i] = (r \o << f >>)[i]
  <2> TAKE i \in 1 .. c + 1
  <2>0. PICK k \in 1 .. FlitsPerCw : k = FlitsPerCw - c + i - 1
    OBVIOUS
  <2>1. l[i] = v[k] /\ (r \o << f >>)[i] = IF i = c + 1 THEN f ELSE r[i]
    BY <1>3, <1>6, <2>0
  <2>2. CASE i = c + 1
    <3>1. k = FlitsPerCw
      BY <2>0, <2>2
    <3>2. v[k] = f
      BY <1>2, <3>1
    <3> QED BY <2>1, <2>2, <3>2
  <2>3. CASE i # c + 1
    <3>1. i \in 1 .. c /\ k # FlitsPerCw /\ k + 1 = FlitsPerCw - c + i
      BY <2>0, <2>3
    <3>2. v[k] = m[k + 1]
      BY <1>2, <3>1
    <3>3. r[i] = m[k + 1]
      BY <1>4, <3>1
    <3> QED BY <2>1, <2>3, <3>2, <3>3
  <2> QED BY <2>2, <2>3
<1>8. l = r \o << f >>
  BY <1>3, <1>6, <1>7, SeqEqual
<1> QED BY <1>3, <1>4, <1>5, <1>8 DEF l, r, v

-----------------------------------------------------------------------------
(* The stages, oldest flits first, and what one edge moves between them.   *)
InDeacc  == AllIf(flits_active, SubSeq(flits_reg, flit_cnt + 1, FlitsPerCw))
InOutput == AllIf(valid_out, msg_out)
InFec    == AllIf(state # "IDLE", MsgOf(cw_reg))
InAccu   == AllIf(fec_cw_valid, MsgOf(fec_cw))
InSer    == AllIf(dist_active, symbols_reg)
InEnc    == AllIf(cw_valid, cw_out)
InFull   == AllIf(fec_msg_valid, fec_msg)
InPart   == SubSeq(fec_msg, FlitsPerCw - tx_flit_cnt + 1, FlitsPerCw)
InScram  == OneIf(flit_scram_valid, flit_scram)

Emitted   == OneIf(flits_active, ScramFlit)
Decoded   == AllIf(state = "DONE", MsgOf(cw_reg))
Completed == AllIf(dist_active /\ dist_cnt = BeatsPerCw - 1, symbols_reg)
Entering  == OneIf(flit_seg_valid, XorKey(flit_seg, tx_lfsr[LfsrLen - 1]))

LEMMA AllOrNone ==
  ASSUME NEW m
  PROVE  AllIf(TRUE, m) = m /\ AllIf(FALSE, m) = << >> /\ OneIf(TRUE, m) = << m >> /\ OneIf(FALSE, m) = << >>
BY DEF AllIf, OneIf

LEMMA NothingMoves == Moves(<< >>, << >>, << >>, << >>)
<1>1. << >> \in Seq(Flit)
  OBVIOUS
<1> QED BY <1>1, DrainMoves

LEMMA DeaccMoves ==
  ASSUME Deaccumulate, EmittedInTime(Ahead), PipeTypes
  PROVE  Moves(Emitted, InDeacc', InDeacc, InOutput)
<1> USE DEF AllIf, OneIf
<1>1. InDeacc = AllIf(flits_active, From(flits_reg, flit_cnt + 1))
      /\ InDeacc' = AllIf(flits_active', From(flits_reg', flit_cnt' + 1))
  BY DEF InDeacc, From
<1>2. flits_active => flits_reg \in Message /\ flit_cnt \in 0 .. FlitsPerCw - 1
                      /\ flit_cnt + 1 \in 1 .. FlitsPerCw
  BY DEF PipeTypes, EmittedInTime
<1>3. CASE LoadMessage
  <2>1. valid_out /\ flits_active' /\ flits_reg' = msg_out /\ flit_cnt' + 1 = 1
        /\ msg_out \in Message
    BY <1>3 DEF LoadMessage, PipeTypes
  <2>2. InDeacc' = msg_out /\ InOutput = msg_out /\ msg_out \in Seq(Flit)
    BY <1>1, <2>1, FromEnds, MessageIsSeq DEF InOutput
  <2>3. Emitted = InDeacc /\ InDeacc \in Seq(Flit)
    <3>1. CASE flits_active
      <4>1. flit_cnt = FlitsPerCw - 1
        BY <2>1, <3>1 DEF EmittedInTime, NoMessageOverwritten
      <4>2. flit_cnt + 1 = FlitsPerCw
        BY <4>1
      <4>3. /\ From(flits_reg, FlitsPerCw) = << flits_reg[FlitsPerCw] >> \o From(flits_reg, FlitsPerCw + 1)
            /\ << flits_reg[FlitsPerCw] >> \in Seq(Flit)
        BY <1>2, <3>1, FromFirst
      <4>4. From(flits_reg, FlitsPerCw + 1) = << >>
        BY <1>2, <3>1, FromEnds
      <4>5. From(flits_reg, FlitsPerCw) = << flits_reg[FlitsPerCw] >>
        BY <4>3, <4>4, Empties
      <4> QED BY <1>1, <3>1, <4>2, <4>3, <4>5 DEF Emitted, ScramFlit
    <3>2. CASE ~flits_active
      BY <1>1, <3>2 DEF Emitted
    <3> QED BY <3>1, <3>2
  <2> QED BY <2>2, <2>3, RegisterMoves
<1>4. CASE EmitFlit
  <2>1. ~valid_out /\ flits_active /\ flits_reg' = flits_reg /\ flit_cnt' + 1 = (flit_cnt + 1) + 1
    BY <1>2, <1>4 DEF EmitFlit
  <2>2. flits_active' <=> flit_cnt # FlitsPerCw - 1
    BY <1>4, Zenon DEF EmitFlit
  <2>3. InDeacc' = From(flits_reg, (flit_cnt + 1) + 1)
    <3>1. CASE flit_cnt # FlitsPerCw - 1
      BY <1>1, <2>1, <2>2, <3>1
    <3>2. CASE flit_cnt = FlitsPerCw - 1
      <4>1. (flit_cnt + 1) + 1 = FlitsPerCw + 1
        BY <3>2
      <4>2. From(flits_reg, FlitsPerCw + 1) = << >>
        BY <1>2, <2>1, FromEnds
      <4> QED BY <1>1, <2>2, <3>2, <4>1, <4>2
    <3> QED BY <3>1, <3>2
  <2>4. /\ From(flits_reg, flit_cnt + 1) = << flits_reg[flit_cnt + 1] >> \o From(flits_reg, (flit_cnt + 1) + 1)
        /\ << flits_reg[flit_cnt + 1] >> \in Seq(Flit)
        /\ From(flits_reg, flit_cnt + 1) \in Seq(Flit) /\ From(flits_reg, (flit_cnt + 1) + 1) \in Seq(Flit)
    BY <1>2, <2>1, FromFirst
  <2>5. InDeacc = From(flits_reg, flit_cnt + 1) /\ InOutput = << >>
        /\ Emitted = << flits_reg[flit_cnt + 1] >>
    BY <1>1, <2>1 DEF InOutput, Emitted, ScramFlit
  <2>6. Emitted \o InDeacc' = InDeacc \o InOutput
    <3>1. From(flits_reg, flit_cnt + 1) \o << >> = From(flits_reg, flit_cnt + 1)
      BY <2>4, Empties
    <3> QED BY <2>3, <2>4, <2>5, <3>1, Zenon
  <2>7. << >> \in Seq(Flit)
    OBVIOUS
  <2> QED BY <2>3, <2>4, <2>5, <2>6, <2>7, Zenon DEF Moves
<1>5. CASE NoMessage
  <2>1. InDeacc = << >> /\ InDeacc' = << >> /\ Emitted = << >> /\ InOutput = << >>
    BY <1>1, <1>5 DEF NoMessage, deaccu, Emitted, InOutput
  <2> QED BY <2>1, NothingMoves, Zenon
<1> QED BY <1>3, <1>4, <1>5 DEF Deaccumulate

LEMMA DecMoves ==
  ASSUME Paced, MaxErrs <= T, LinkInv,
         NEW in \in NetInput, NEW e \in 0 .. MaxErrs, Clk(in, e)
  PROVE  /\ Moves(InOutput, InOutput', InOutput, Decoded)
         /\ Moves(Decoded, InFec', InFec, InAccu)
         /\ Moves(InAccu, InAccu', InAccu, Completed)
<1> USE DEF AllIf
<1>1. TxTypeOK /\ TxClk(in) /\ Dec!DecClk
      /\ SlicesCounted /\ Handshakes /\ Carried /\ NoWordDropped /\ SlicesReceived
      /\ FreeInTime
      /\ (valid_out => msg_out \in Message)
  BY LinkRxEdge, AheadEdge DEF LinkInv, PacedInv, Clk, DecodedInTime, Paced, PipeTypes
<1>2. /\ fec_cw_valid' => Good(fec_cw') /\ MsgOf(fec_cw') = symbols_reg
      /\ fec_cw_valid => fec_cw' = fec_cw \/ SyndromesZero(fec_cw)
  <2>1. /\ fec_cw_valid' => Good(fec_cw') /\ MsgOf(fec_cw') = symbols_reg
        /\ fec_cw_valid /\ Spacing > BeatsPerCw => fec_cw' = fec_cw
    BY <1>1, SlicesEdge
  <2> QED BY <1>1, <2>1, KeptOrClean
<1>3. /\ Carried'
      /\ valid_out' <=> state = "DONE"
      /\ valid_out' => msg_out' = MsgOf(cw_reg)
      /\ state = "IDLE" /\ fec_cw_valid => state' # "IDLE" /\ cw_reg' = fec_cw
      /\ state = "IDLE" /\ ~fec_cw_valid => state' = "IDLE"
      /\ state \in {"IBM", "CHIEN"} => state' # "IDLE" /\ cw_reg' = cw_reg
      /\ state = "DONE" => state' = "IDLE"
  BY <1>1, <1>2, FsmCarries
<1>4. /\ fec_cw_valid => MsgOf(fec_cw) \in Seq(Flit)
      /\ state # "IDLE" => MsgOf(cw_reg) \in Seq(Flit)
      /\ valid_out => msg_out \in Seq(Flit)
      /\ symbols_reg \in Seq(Flit) /\ << >> \in Seq(Flit)
  BY <1>1, MessageIsSeq DEF Carried, Good, TxTypeOK
<1>5. Moves(InOutput, InOutput', InOutput, Decoded)
  <2>1. InOutput' = Decoded
    BY <1>3 DEF InOutput, Decoded
  <2>2. InOutput \in Seq(Flit) /\ Decoded \in Seq(Flit)
    BY <1>4 DEF InOutput, Decoded
  <2> QED BY <2>1, <2>2, RegisterMoves
<1>6. Moves(Decoded, InFec', InFec, InAccu)
  <2>1. CASE state = "IDLE" /\ fec_cw_valid
    <3>1. Decoded = << >> /\ InFec' = MsgOf(fec_cw) /\ InFec = << >> /\ InAccu = MsgOf(fec_cw)
      BY <1>3, <2>1 DEF Decoded, InFec, InAccu, MsgOf
    <3> QED BY <1>4, <2>1, <3>1, FillMoves
  <2>2. CASE state = "IDLE" /\ ~fec_cw_valid
    <3>1. Decoded = << >> /\ InFec' = << >> /\ InFec = << >> /\ InAccu = << >>
      BY <1>3, <2>2 DEF Decoded, InFec, InAccu
    <3> QED BY <3>1, NothingMoves, Zenon
  <2>3. CASE state \in {"IBM", "CHIEN"}
    <3>1. Decoded = << >> /\ InFec' = MsgOf(cw_reg) /\ InFec = MsgOf(cw_reg) /\ InAccu = << >>
      BY <1>1, <1>3, <2>3 DEF Decoded, InFec, InAccu, NoWordDropped, MsgOf
    <3> QED BY <1>4, <2>3, <3>1, RestMoves
  <2>4. CASE state = "DONE"
    <3>1. Decoded = MsgOf(cw_reg) /\ InFec' = << >> /\ InFec = MsgOf(cw_reg) /\ InAccu = << >>
      BY <1>1, <1>3, <2>4 DEF Decoded, InFec, InAccu, NoWordDropped
    <3> QED BY <1>4, <2>4, <3>1, DrainMoves
  <2> QED BY <1>1, <2>1, <2>2, <2>3, <2>4 DEF Handshakes
<1>7. Moves(InAccu, InAccu', InAccu, Completed)
  <2>1. fec_cw_valid' <=> dist_active /\ dist_cnt = BeatsPerCw - 1
    BY <1>1, LinkRxEdge DEF SlicesCounted
  <2>2. InAccu' = Completed
    BY <1>2, <2>1 DEF InAccu, Completed
  <2>3. InAccu \in Seq(Flit) /\ Completed \in Seq(Flit)
    BY <1>4 DEF InAccu, Completed
  <2> QED BY <2>2, <2>3, RegisterMoves
<1> QED BY <1>5, <1>6, <1>7

LEMMA SerMoves ==
  ASSUME TxTypeOK, NEW in \in NetInput, TxClk(in), FreeInTime
  PROVE  Moves(Completed, InSer', InSer, InEnc)
<1> USE DEF AllIf, Completed, InSer, InEnc
<1>1. symbols_reg \in Seq(Flit) /\ cw_out \in Seq(Flit)
  BY MessageIsSeq DEF TxTypeOK
<1>2. CASE cw_valid /\ ~dist_active
  <2>1. Completed = << >> /\ InSer' = cw_out /\ InSer = << >> /\ InEnc = cw_out
    BY <1>2, SerialiserEdge
  <2> QED BY <1>1, <2>1, FillMoves
<1>6. CASE cw_valid /\ dist_active
  <2>1. Completed = symbols_reg /\ InSer' = cw_out /\ InSer = symbols_reg /\ InEnc = cw_out
    BY <1>6, SerialiserEdge DEF FreeInTime
  <2> QED BY <1>1, <2>1, RegisterMoves
<1>3. CASE ~cw_valid /\ dist_active /\ dist_cnt = BeatsPerCw - 1
  <2>1. Completed = symbols_reg /\ InSer' = << >> /\ InSer = symbols_reg /\ InEnc = << >>
    BY <1>3, SerialiserEdge
  <2> QED BY <1>1, <2>1, DrainMoves
<1>4. CASE ~cw_valid /\ dist_active /\ dist_cnt # BeatsPerCw - 1
  <2>1. Completed = << >> /\ InSer' = symbols_reg /\ InSer = symbols_reg /\ InEnc = << >>
    BY <1>4, SerialiserEdge
  <2> QED BY <1>1, <2>1, RestMoves
<1>5. CASE ~cw_valid /\ ~dist_active
  <2>1. Completed = << >> /\ InSer' = << >> /\ InSer = << >> /\ InEnc = << >>
    BY <1>5, SerialiserEdge
  <2> QED BY <2>1, NothingMoves, Zenon
<1> QED BY <1>2, <1>3, <1>4, <1>5, <1>6

LEMMA AccuMoves ==
  ASSUME TxTypeOK, TxTypeOK', NEW in \in NetInput, TxClk(in)
  PROVE  /\ Moves(InEnc, InEnc', InEnc, InFull)
         /\ Moves(InFull, InFull', InFull, InFull')
         /\ Moves(InFull', InPart', InPart, InScram)
         /\ Moves(InScram, InScram', InScram, Entering)
<1> USE DEF AllIf, OneIf
<1>0. Accumulator /\ FecEnc /\ Scrambler
  BY DEF TxClk
<1>1. /\ fec_msg \in Message /\ fec_msg' \in Message /\ cw_out \in Message /\ cw_out' \in Message
      /\ flit_scram \in Flit /\ flit_scram' \in Flit /\ tx_flit_cnt \in 0 .. FlitsPerCw - 1
  BY DEF TxTypeOK
<1>2. /\ InEnc \in Seq(Flit) /\ InEnc' \in Seq(Flit) /\ InFull \in Seq(Flit) /\ InFull' \in Seq(Flit)
      /\ InScram \in Seq(Flit) /\ InScram' \in Seq(Flit)
  BY <1>1, MessageIsSeq DEF InEnc, InFull, InScram
<1>3. InEnc' = InFull /\ InScram' = Entering
  BY <1>0 DEF FecEnc, Scrambler, InEnc, InFull, InScram, Entering
<1>4. Moves(InFull', InPart', InPart, InScram)
  <2>1. InPart = From(fec_msg, FlitsPerCw - tx_flit_cnt + 1)
        /\ InPart' = From(fec_msg', FlitsPerCw - tx_flit_cnt' + 1)
    BY DEF InPart, From
  <2>2. /\ From(ShiftIn(fec_msg, flit_scram), FlitsPerCw - tx_flit_cnt)
             = From(fec_msg, FlitsPerCw - tx_flit_cnt + 1) \o << flit_scram >>
        /\ From(fec_msg, FlitsPerCw - tx_flit_cnt + 1) \in Seq(Flit) /\ << flit_scram >> \in Seq(Flit)
        /\ From(ShiftIn(fec_msg, flit_scram), FlitsPerCw - tx_flit_cnt) \in Seq(Flit)
    BY <1>1, FromShifted
  <2>3. CASE flit_scram_valid /\ tx_flit_cnt = FlitsPerCw - 1
    <3>1. fec_msg' = ShiftIn(fec_msg, flit_scram) /\ tx_flit_cnt' = 0 /\ fec_msg_valid'
      BY <1>0, <2>3 DEF Accumulator
    <3>2. FlitsPerCw - tx_flit_cnt = 1 /\ FlitsPerCw - tx_flit_cnt' + 1 = FlitsPerCw + 1
      BY <2>3, <3>1
    <3>3. InPart' = << >> /\ InFull' = From(fec_msg', 1)
      BY <1>1, <2>1, <3>1, <3>2, FromEnds DEF InFull
    <3>4. From(fec_msg', 1) = InPart \o << flit_scram >> /\ InScram = << flit_scram >>
          /\ From(fec_msg', 1) \in Seq(Flit) /\ InPart \in Seq(Flit)
      BY <2>1, <2>2, <2>3, <3>1, <3>2 DEF InScram
    <3>5. InFull' \o << >> = InFull' /\ << >> \in Seq(Flit)
      BY <1>2, Empties
    <3> QED BY <1>2, <3>3, <3>4, <3>5, Zenon DEF Moves
  <2>4. CASE flit_scram_valid /\ tx_flit_cnt # FlitsPerCw - 1
    <3>1. fec_msg' = ShiftIn(fec_msg, flit_scram) /\ tx_flit_cnt' = tx_flit_cnt + 1 /\ ~fec_msg_valid'
      BY <1>0, <2>4 DEF Accumulator
    <3>2. FlitsPerCw - tx_flit_cnt' + 1 = FlitsPerCw - tx_flit_cnt
      BY <1>1, <3>1
    <3>3. InPart' = From(ShiftIn(fec_msg, flit_scram), FlitsPerCw - tx_flit_cnt) /\ InFull' = << >>
      BY <2>1, <3>1, <3>2 DEF InFull
    <3>4. InPart' = InPart \o << flit_scram >> /\ InScram = << flit_scram >>
          /\ InPart' \in Seq(Flit) /\ InPart \in Seq(Flit)
      BY <2>1, <2>2, <2>4, <3>3 DEF InScram
    <3>5. << >> \o InPart' = InPart' /\ << >> \in Seq(Flit)
      BY <3>4, Empties
    <3> QED BY <1>2, <3>3, <3>4, <3>5, Zenon DEF Moves
  <2>5. CASE ~flit_scram_valid
    <3>1. fec_msg' = fec_msg /\ tx_flit_cnt' = tx_flit_cnt /\ ~fec_msg_valid'
      BY <1>0, <2>5 DEF Accumulator
    <3>2. InPart' = InPart /\ InFull' = << >> /\ InScram = << >> /\ InPart \in Seq(Flit)
      BY <2>1, <2>2, <2>5, <3>1 DEF InFull, InScram
    <3> QED BY <3>2, RestMoves
  <2> QED BY <2>3, <2>4, <2>5
<1> QED BY <1>2, <1>3, <1>4, RegisterMoves

(* What is between scrambler and descrambler, after an edge and before it. *)
LEMMA ScrambledMoves ==
  ASSUME Paced, MaxErrs <= T, LinkInv, LinkInv',
         NEW in \in NetInput, NEW e \in 0 .. MaxErrs, Clk(in, e)
  PROVE  Moves(Emitted, Scrambled', Scrambled, Entering)
<1>1. TxTypeOK /\ TxTypeOK' /\ TxClk(in) /\ Deaccumulate /\ FreeInTime
      /\ EmittedInTime(Ahead) /\ PipeTypes
  BY LinkRxEdge, AheadEdge DEF LinkInv, PacedInv, Clk, Paced
<1>2. Moves(Emitted, InDeacc', InDeacc, InOutput)
  BY <1>1, DeaccMoves
<1>3. /\ Moves(InOutput, InOutput', InOutput, Decoded)
      /\ Moves(Decoded, InFec', InFec, InAccu)
      /\ Moves(InAccu, InAccu', InAccu, Completed)
  BY DecMoves
<1>4. Moves(Completed, InSer', InSer, InEnc)
  BY <1>1, SerMoves
<1>5. /\ Moves(InEnc, InEnc', InEnc, InFull)
      /\ Moves(InFull, InFull', InFull, InFull')
      /\ Moves(InFull', InPart', InPart, InScram)
      /\ Moves(InScram, InScram', InScram, Entering)
  BY <1>1, AccuMoves
<1> DEFINE p2 == InDeacc \o InOutput
           p3 == p2 \o InFec
           p4 == p3 \o InAccu
           p5 == p4 \o InSer
           p6 == p5 \o InEnc
           p7 == p6 \o InFull
           p8 == p7 \o InPart
<1>11. Moves(Emitted, p2', p2, Decoded)
  BY <1>2, <1>3, StagesJoin
<1>12. Moves(Emitted, p3', p3, InAccu)
  BY <1>3, <1>11, StagesJoin
<1>13. Moves(Emitted, p4', p4, Completed)
  BY <1>3, <1>12, StagesJoin
<1>14. Moves(Emitted, p5', p5, InEnc)
  BY <1>4, <1>13, StagesJoin
<1>15. Moves(Emitted, p6', p6, InFull)
  BY <1>5, <1>14, StagesJoin
<1>16. Moves(Emitted, p7', p7, InFull')
  BY <1>5, <1>15, StagesJoin
<1>17. Moves(Emitted, p8', p8, InScram)
  BY <1>5, <1>16, StagesJoin
<1>18. Moves(Emitted, (p8 \o InScram)', p8 \o InScram, Entering)
  BY <1>5, <1>17, StagesJoin
<1>19. Scrambled = p8 \o InScram /\ Scrambled' = (p8 \o InScram)'
  BY Zenon DEF Scrambled, InDeacc, InOutput, InFec, InAccu, InSer, InEnc, InFull, InPart, InScram
<1> QED BY <1>18, <1>19, Zenon

-----------------------------------------------------------------------------
(* The scrambler's key is a bit of its LFSR, and XOR with it is undone by  *)
(* XOR with it.                                                            *)
Key(l) == l[LfsrLen - 1]

LEMMA InvertTwice == \A t \in TopWord : Inverted[t] \in TopWord /\ Inverted[Inverted[t]] = t
BY DEF TopWord, Inverted

LEMMA XorTwice ==
  ASSUME NEW f \in Flit, f.inv = FALSE, NEW k \in BOOLEAN
  PROVE  /\ XorKey(f, k) \in Flit /\ XorKey(f, k).inv = k
         /\ Plain(XorKey(f, k)) = f /\ Plain(f) = f
<1>1. f = [top |-> f.top, body |-> f.body, inv |-> FALSE] /\ f.top \in TopWord
      /\ f.body \in Body \cup {Blank, Junk}
  BY DEF Flit
<1> DEFINE g == [top |-> Inverted[f.top], body |-> f.body, inv |-> TRUE]
<1>2. CASE k = TRUE
  <2>1. XorKey(f, k) = g
    BY <1>1, <1>2 DEF XorKey
  <2>2. g \in Flit /\ g.inv = TRUE
    BY <1>1, InvertTwice DEF Flit
  <2>3. XorKey(g, TRUE) = [top |-> Inverted[Inverted[f.top]], body |-> f.body, inv |-> FALSE]
    BY DEF XorKey
  <2>4. XorKey(g, TRUE) = f
    BY <1>1, <2>3, InvertTwice
  <2>5. Plain(g) = f
    BY <2>2, <2>4 DEF Plain
  <2>6. Plain(f) = f
    BY <1>1 DEF Plain, XorKey
  <2> HIDE DEF g
  <2> QED BY <1>2, <2>1, <2>2, <2>5, <2>6
<1>3. CASE k = FALSE
  BY <1>1, <1>3 DEF XorKey, Plain
<1> QED BY <1>2, <1>3

LEMMA PlainFlit ==
  ASSUME NEW f \in Flit
  PROVE  Plain(f) \in Flit /\ (f.inv = TRUE => Plain(f) = XorKey(f, TRUE))
         /\ (f.inv = FALSE => Plain(f) = XorKey(f, FALSE))
         /\ Plain(f).inv = FALSE
<1>1. f.inv \in BOOLEAN /\ f.top \in TopWord /\ f.body \in Body \cup {Blank, Junk}
  BY DEF Flit
<1>2. Plain(f) \in Flit
  BY <1>1, XorKeyType DEF Plain
<1>3. CASE f.inv = TRUE
  <2>1. Plain(f) = XorKey(f, TRUE)
    BY <1>3 DEF Plain
  <2>2. XorKey(f, TRUE).inv = FALSE
    BY <1>3 DEF XorKey
  <2> QED BY <1>2, <1>3, <2>1, <2>2
<1>4. CASE f.inv = FALSE
  <2>1. Plain(f) = f /\ XorKey(f, FALSE) = f
    BY <1>4 DEF Plain, XorKey
  <2> QED BY <1>2, <1>4, <2>1
<1> QED BY <1>1, <1>3, <1>4

(***************************************************************************)
(* An LFSR in state a is in state b after as many shifts as q has flits,   *)
(* and each flit of q was scrambled with the key of its turn.              *)
(***************************************************************************)
KeyedBy(s, a, q, b) ==
  /\ s \in [1 .. Len(q) + 1 -> Lfsr]
  /\ s[1] = a /\ s[Len(q) + 1] = b
  /\ \A i \in 1 .. Len(q) : s[i + 1] = NextLfsr(s[i]) /\ q[i].inv = Key(s[i])

Keyed(a, q, b) == \E s : KeyedBy(s, a, q, b)

LEMMA KeyedNone ==
  /\ \A a \in Lfsr : Keyed(a, << >>, a)
  /\ \A a, b : Keyed(a, << >>, b) => a = b
<1>1. Len(<< >>) = 0 /\ 1 .. 0 = {} /\ 0 + 1 = 1
  OBVIOUS
<1>2. ASSUME NEW a \in Lfsr PROVE Keyed(a, << >>, a)
  <2> DEFINE s == [i \in 1 .. 0 + 1 |-> a]
  <2>1. s \in [1 .. 0 + 1 -> Lfsr] /\ s[1] = a
    OBVIOUS
  <2> HIDE DEF s
  <2>2. KeyedBy(s, a, << >>, a)
    BY <1>1, <2>1 DEF KeyedBy
  <2> QED BY <2>2 DEF Keyed
<1>3. ASSUME NEW a, NEW b, Keyed(a, << >>, b) PROVE a = b
  BY <1>1, <1>3 DEF Keyed, KeyedBy
<1> QED BY <1>2, <1>3

LEMMA KeyedMore ==
  ASSUME NEW a, NEW q \in Seq(Flit), NEW b, Keyed(a, q, b), NEW f \in Flit, f.inv = Key(b)
  PROVE  Keyed(a, q \o << f >>, NextLfsr(b)) /\ b \in Lfsr
<1> DEFINE n == Len(q)
           q2 == q \o << f >>
<1>1. n \in Nat /\ Len(q2) = n + 1 /\ q2[n + 1] = f /\ \A i \in 1 .. n : q2[i] = q[i]
  OBVIOUS
<1>2. PICK s : KeyedBy(s, a, q, b)
  BY DEF Keyed
<1>3. /\ s \in [1 .. n + 1 -> Lfsr] /\ s[1] = a /\ s[n + 1] = b
      /\ \A i \in 1 .. n : s[i + 1] = NextLfsr(s[i]) /\ q[i].inv = Key(s[i])
  BY <1>2 DEF KeyedBy
<1> HIDE DEF n, q2
<1>4. b \in Lfsr /\ NextLfsr(b) \in Lfsr
  BY <1>1, <1>3, LfsrType
<1> DEFINE s2 == [i \in 1 .. (n + 1) + 1 |-> IF i = (n + 1) + 1 THEN NextLfsr(b) ELSE s[i]]
<1>5. \A i \in 1 .. (n + 1) + 1 : i # (n + 1) + 1 => i \in 1 .. n + 1
  BY <1>1
<1>6. s2 \in [1 .. (n + 1) + 1 -> Lfsr]
  BY <1>3, <1>4, <1>5
<1>7. s2[1] = a /\ s2[(n + 1) + 1] = NextLfsr(b)
  BY <1>1, <1>3
<1>8. ASSUME NEW i \in 1 .. n + 1
      PROVE  s2[i + 1] = NextLfsr(s2[i]) /\ q2[i].inv = Key(s2[i])
  <2>1. CASE i = n + 1
    BY <1>1, <1>3, <2>1
  <2>2. CASE i # n + 1
    <3>1. i \in 1 .. n /\ i \in 1 .. (n + 1) + 1 /\ i + 1 \in 1 .. (n + 1) + 1
          /\ i # (n + 1) + 1 /\ i + 1 # (n + 1) + 1
      BY <1>1, <2>2
    <3>2. s2[i] = s[i] /\ s2[i + 1] = s[i + 1]
      BY <3>1
    <3> QED BY <1>1, <1>3, <3>1, <3>2
  <2> QED BY <2>1, <2>2
<1> HIDE DEF s2
<1>9. KeyedBy(s2, a, q2, NextLfsr(b))
  BY <1>1, <1>6, <1>7, <1>8 DEF KeyedBy
<1> QED BY <1>4, <1>9 DEF Keyed, q2

LEMMA KeyedLess ==
  ASSUME NEW a, NEW f \in Flit, NEW q \in Seq(Flit), NEW b, Keyed(a, << f >> \o q, b)
  PROVE  f.inv = Key(a) /\ Keyed(NextLfsr(a), q, b) /\ a \in Lfsr
<1> DEFINE n == Len(q)
           q2 == << f >> \o q
<1>1. n \in Nat /\ Len(q2) = n + 1 /\ q2[1] = f /\ \A i \in 1 .. n : q2[i + 1] = q[i]
  OBVIOUS
<1>2. PICK s : KeyedBy(s, a, q2, b)
  BY DEF Keyed
<1> HIDE DEF n, q2
<1>3. /\ s \in [1 .. (n + 1) + 1 -> Lfsr] /\ s[1] = a /\ s[(n + 1) + 1] = b
      /\ \A i \in 1 .. n + 1 : s[i + 1] = NextLfsr(s[i]) /\ q2[i].inv = Key(s[i])
  BY <1>1, <1>2 DEF KeyedBy
<1> DEFINE s2 == [i \in 1 .. n + 1 |-> s[i + 1]]
<1>4. s2 \in [1 .. n + 1 -> Lfsr]
  BY <1>1, <1>3
<1>5. s2[1] = NextLfsr(a) /\ f.inv = Key(a) /\ a \in Lfsr
  BY <1>1, <1>3
<1>6. s2[n + 1] = b
  BY <1>1, <1>3
<1>7. ASSUME NEW i \in 1 .. n PROVE s2[i + 1] = NextLfsr(s2[i]) /\ q[i].inv = Key(s2[i])
  <2>1. i + 1 \in 1 .. n + 1 /\ i \in 1 .. n + 1
    BY <1>1
  <2>2. s2[i] = s[i + 1] /\ s2[i + 1] = s[(i + 1) + 1]
    BY <2>1
  <2> QED BY <1>1, <1>3, <2>1, <2>2
<1> HIDE DEF s2
<1>8. KeyedBy(s2, NextLfsr(a), q, b)
  BY <1>4, <1>5, <1>6, <1>7 DEF KeyedBy, n
<1> QED BY <1>5, <1>8 DEF Keyed

-----------------------------------------------------------------------------
(* The flits between the LFSRs carry the keys from the one's state to the  *)
(* other's; before and after there are plain flits.                        *)
ScramInv ==
  /\ Keyed(lfsr, Scrambled, tx_lfsr)
  /\ flit_seg.inv = FALSE
  /\ descram_flit_valid => descram_flit \in Flit /\ descram_flit.inv = FALSE

LEMMA EnteringKeyed ==
  ASSUME TxTypeOK, ScramInv, Scrambled \in Seq(Flit), NEW in \in NetInput, TxClk(in)
  PROVE  Keyed(lfsr, Scrambled \o Entering, tx_lfsr')
<1>1. Scrambler /\ flit_seg \in Flit /\ tx_lfsr[LfsrLen - 1] \in BOOLEAN
      /\ Keyed(lfsr, Scrambled, tx_lfsr) /\ flit_seg.inv = FALSE
  <2>1. LfsrLen - 1 \in 0 .. LfsrLen - 1
    OBVIOUS
  <2> QED BY <2>1 DEF TxClk, TxTypeOK, ScramInv, Lfsr
<1>2. CASE flit_seg_valid
  <2>1. PICK f \in Flit : f = XorKey(flit_seg, tx_lfsr[LfsrLen - 1]) /\ f.inv = tx_lfsr[LfsrLen - 1]
    BY <1>1, XorTwice
  <2>2. Entering = << f >> /\ tx_lfsr' = NextLfsr(tx_lfsr)
    BY <1>1, <1>2, <2>1 DEF Entering, OneIf, Scrambler
  <2>3. Keyed(lfsr, Scrambled \o << f >>, NextLfsr(tx_lfsr))
    BY <1>1, <2>1, KeyedMore DEF Key
  <2> QED BY <2>2, <2>3
<1>3. CASE ~flit_seg_valid
  <2>1. Entering = << >> /\ tx_lfsr' = tx_lfsr
    BY <1>1, <1>3 DEF Entering, OneIf, Scrambler
  <2>2. Scrambled \o << >> = Scrambled
    BY Empties
  <2> QED BY <1>1, <2>1, <2>2, Zenon
<1> QED BY <1>2, <1>3

LEMMA EmittedFlit ==
  ASSUME LinkInv, flits_active PROVE ScramFlit \in Flit
<1>1. flits_reg \in Message /\ flit_cnt \in 0 .. FlitsPerCw - 1 /\ flit_cnt + 1 \in 1 .. FlitsPerCw
  BY DEF LinkInv, PipeTypes, EmittedInTime
<1> QED BY <1>1 DEF ScramFlit, Message

LEMMA ScramEdge ==
  ASSUME Paced, MaxErrs <= T, LinkInv, LinkInv', ScramInv,
         NEW in \in NetInput, NEW e \in 0 .. MaxErrs, Clk(in, e)
  PROVE  /\ ScramInv'
         /\ descram_flit_valid' <=> flits_active
         /\ flits_active => descram_flit' = Plain(ScramFlit)
<1>1. /\ TxTypeOK /\ TxClk(in) /\ Descrambler
      /\ Moves(Emitted, Scrambled', Scrambled, Entering)
  BY LinkRxEdge, ScrambledMoves DEF LinkInv, PacedInv, Clk
<1>2. Keyed(lfsr, Emitted \o Scrambled', tx_lfsr') /\ Scrambled' \in Seq(Flit)
  <2>1. Scrambled \in Seq(Flit) /\ Scrambled' \in Seq(Flit)
        /\ Emitted \o Scrambled' = Scrambled \o Entering
    BY <1>1 DEF Moves
  <2>2. Keyed(lfsr, Scrambled \o Entering, tx_lfsr')
    BY <1>1, <2>1, EnteringKeyed
  <2> QED BY <2>1, <2>2, Zenon
<1>3. flit_seg'.inv = FALSE
  <2>1. in.flit.inv = FALSE
    <3>1. CASE in = Idle
      BY <3>1 DEF Idle, ZeroFlit
    <3>2. CASE in # Idle
      BY <3>2 DEF NetInput
    <3> QED BY <3>1, <3>2
  <2>2. in.flit \in Flit
    BY <1>1, NetInputType DEF TxTypeOK
  <2>3. WithHeader(in).inv = FALSE
    BY <2>1, <2>2 DEF WithHeader, Flit
  <2> QED BY <1>1, <2>3 DEF TxClk, Segmenter, ScramInv
<1>4. descram_flit_valid' <=> flits_active
  BY <1>1 DEF Descrambler
<1>5. CASE flits_active
  <2>1. PICK f \in Flit : f = ScramFlit
    BY <1>5, EmittedFlit
  <2>2. Emitted = << f >>
    BY <1>5, <2>1 DEF Emitted, OneIf
  <2>3. Keyed(lfsr, << f >> \o Scrambled', tx_lfsr')
    BY <1>2, <2>2
  <2>4. f.inv = lfsr[LfsrLen - 1] /\ Keyed(NextLfsr(lfsr), Scrambled', tx_lfsr')
    BY <1>2, <2>3, KeyedLess DEF Key
  <2>5. lfsr' = NextLfsr(lfsr) /\ descram_flit' = XorKey(f, lfsr[LfsrLen - 1])
    BY <1>1, <1>5, <2>1 DEF Descrambler
  <2>6. descram_flit' = Plain(f)
    BY <2>4, <2>5 DEF Plain
  <2> QED BY <1>3, <1>4, <1>5, <2>1, <2>4, <2>5, <2>6, PlainFlit DEF ScramInv
<1>6. CASE ~flits_active
  <2>1. Emitted = << >> /\ lfsr' = lfsr
    BY <1>1, <1>6 DEF Emitted, OneIf, Descrambler
  <2>2. << >> \o Scrambled' = Scrambled'
    BY <1>2, Empties
  <2>3. Keyed(lfsr', Scrambled', tx_lfsr')
    BY <1>2, <2>1, <2>2
  <2> QED BY <1>3, <1>4, <1>6, <2>3 DEF ScramInv
<1> QED BY <1>5, <1>6

LEMMA NothingScrambled ==
  /\ Init => Scrambled = << >>
  /\ Reset => Scrambled' = << >>
<1>1. \A m : AllIf(FALSE, m) = << >> /\ OneIf(FALSE, m) = << >>
  BY DEF AllIf, OneIf
<1>2. \A m : SubSeq(m, FlitsPerCw - 0 + 1, FlitsPerCw) = << >>
  <2> TAKE m
  <2>1. FlitsPerCw < FlitsPerCw - 0 + 1 /\ FlitsPerCw - 0 + 1 \in Int
    OBVIOUS
  <2> QED BY <2>1, SubSeqEmpty
<1>3. << >> \o << >> = << >>
  OBVIOUS
<1>4. ASSUME Init PROVE Scrambled = << >>
  <2>1. /\ flits_active = FALSE /\ valid_out = FALSE /\ state = "IDLE" /\ fec_cw_valid = FALSE
        /\ dist_active = FALSE /\ cw_valid = FALSE /\ fec_msg_valid = FALSE /\ tx_flit_cnt = 0
        /\ flit_scram_valid = FALSE
    BY <1>4 DEF Init, RxInit, Dec!DecInit, TxInit
  <2> QED BY <1>1, <1>2, <1>3, <2>1 DEF Scrambled
<1>5. ASSUME Reset PROVE Scrambled' = << >>
  <2>1. /\ flits_active' = FALSE /\ valid_out' = FALSE /\ state' = "IDLE" /\ fec_cw_valid' = FALSE
        /\ dist_active' = FALSE /\ cw_valid' = FALSE /\ fec_msg_valid' = FALSE /\ tx_flit_cnt' = 0
        /\ flit_scram_valid' = FALSE
    BY <1>5 DEF Reset, RxReset, Dec!DecReset, TxReset
  <2> QED BY <1>1, <1>2, <1>3, <2>1 DEF Scrambled
<1> QED BY <1>4, <1>5

LEMMA ScramStarts == Init => ScramInv
<1> SUFFICES ASSUME Init PROVE ScramInv
  OBVIOUS
<1>1. lfsr = OnesLfsr /\ tx_lfsr = OnesLfsr /\ flit_seg.inv = FALSE /\ ~descram_flit_valid
  BY DEF Init, RxInit, TxInit, ZeroFlit
<1> QED BY <1>1, NothingScrambled, KeyedNone, OnesType DEF ScramInv

LEMMA ScramRestarts == Reset => ScramInv'
<1> SUFFICES ASSUME Reset PROVE ScramInv'
  OBVIOUS
<1>1. lfsr' = OnesLfsr /\ tx_lfsr' = OnesLfsr /\ flit_seg'.inv = FALSE /\ ~descram_flit_valid'
  BY DEF Reset, RxReset, TxReset, ZeroFlit
<1> QED BY <1>1, NothingScrambled, KeyedNone, OnesType DEF ScramInv

LEMMA PipeStutters ==
  ASSUME UNCHANGED vars
  PROVE  /\ UNCHANGED << Scrambled, InFlight, lfsr, tx_lfsr, flit_seg, descram_flit, descram_flit_valid >>
         /\ ScramInv' <=> ScramInv
<1>1. UNCHANGED rxVars /\ UNCHANGED txVars
  BY DEF vars
<1>2. /\ UNCHANGED << flits_active, flits_reg, flit_cnt, valid_out, msg_out, state, cw_reg, fec_cw_valid, fec_cw >>
      /\ UNCHANGED << dist_active, symbols_reg, cw_valid, cw_out, fec_msg_valid, fec_msg, tx_flit_cnt,
                      flit_scram_valid, flit_scram >>
      /\ UNCHANGED << lfsr, tx_lfsr, flit_seg, flit_seg_valid, descram_flit, descram_flit_valid >>
  BY <1>1 DEF rxVars, accu, deaccu, descram, Dec!decVars, Dec!control, Dec!output, txVars, regs
<1>3. UNCHANGED Scrambled
  BY <1>2 DEF Scrambled
<1>4. UNCHANGED InFlight
  BY <1>2, <1>3 DEF InFlight
<1> QED BY <1>2, <1>3, <1>4 DEF ScramInv

-----------------------------------------------------------------------------
LEMMA LinkAlways ==
  ASSUME Paced, MaxErrs <= T
  PROVE  Spec => [](LinkInv /\ ScramInv)
<1>1. Init => LinkInv /\ ScramInv
  BY LinkStarts, ScramStarts
<1>2. LinkInv /\ ScramInv /\ [Next]_vars => (LinkInv /\ ScramInv)'
  <2> SUFFICES ASSUME LinkInv, ScramInv, [Next]_vars PROVE (LinkInv /\ ScramInv)'
    OBVIOUS
  <2>1. ASSUME NEW in \in NetInput, NEW e \in 0 .. MaxErrs, Clk(in, e) PROVE (LinkInv /\ ScramInv)'
    <3>1. LinkInv'
      BY <2>1, LinkEdge
    <3>2. ScramInv'
      BY <2>1, <3>1, ScramEdge
    <3> QED BY <3>1, <3>2
  <2>2. CASE Reset
    BY <2>2, LinkRestarts, ScramRestarts
  <2>3. CASE UNCHANGED vars
    BY <2>3, LinkStutters, PipeStutters
  <2> QED BY <2>1, <2>2, <2>3 DEF Next, AnyClk
<1> QED BY <1>1, <1>2, PTL DEF Spec

(* When no flit is between scrambler and descrambler the two LFSRs are in  *)
(* the same state, however long the link has run: nothing resynchronises   *)
(* them but reset.  The source is paced for a line with or without errors. *)
THEOREM LfsrsStayInStep ==
  ASSUME Paced, MaxErrs <= T
  PROVE  Spec => []LfsrsInStep
<1>1. ScramInv => LfsrsInStep
  BY KeyedNone DEF ScramInv, LfsrsInStep
<1> QED BY <1>1, LinkAlways, PTL

-----------------------------------------------------------------------------
(* Something comes out n edges from now at the latest: what is in the      *)
(* register of one of the stages, or a codeword's last flit before it.     *)
DueIn(n) ==
  \/ n = 1 /\ descram_flit_valid
  \/ n = 2 /\ flits_active
  \/ n = 3 /\ valid_out
  \/ n = Left + 3 /\ Left > 0
  \/ n = 14 /\ fec_cw_valid
  \/ n = Owed + 15 /\ dist_active
  \/ n = BeatsPerCw + 15 /\ cw_valid
  \/ n = BeatsPerCw + 16 /\ fec_msg_valid
  \/ n = BeatsPerCw + 17 /\ flit_scram_valid /\ tx_flit_cnt = FlitsPerCw - 1
  \/ n = BeatsPerCw + 18 /\ flit_seg_valid
       /\ tx_flit_cnt = FlitsPerCw - (IF flit_scram_valid THEN 2 ELSE 1)

Latest == BeatsPerCw + 18

Sooner(n) == \E m \in 1 .. n - 1 : DueIn(m)

LEMMA SoonerOne ==
  ASSUME NEW n \in 1 .. Latest, NEW m \in 1 .. Latest, m < n
  PROVE  DueIn(m)' => Sooner(n)'
<1>1. m \in 1 .. n - 1
  OBVIOUS
<1> QED BY <1>1 DEF Sooner

\* Each stage hands on what it has, or has one edge less to go.
LEMMA DueEdge ==
  ASSUME Paced, MaxErrs <= T, LinkInv, LinkInv',
         NEW in \in NetInput, NEW e \in 0 .. MaxErrs, Clk(in, e),
         NEW n \in 1 .. Latest, DueIn(n)
  PROVE  net_valid' \/ Sooner(n)'
<1>1. /\ TxTypeOK /\ TxClk(in) /\ Dec!DecClk /\ Deaccumulate /\ Descrambler /\ Reassembler
      /\ Handshakes /\ NoWordDropped /\ FreeInTime /\ SlicesCounted
  BY LinkRxEdge, AheadEdge DEF LinkInv, PacedInv, Clk, DecodedInTime, Paced
<1>2. /\ tx_flit_cnt \in 0 .. FlitsPerCw - 1 /\ dist_cnt \in 0 .. BeatsPerCw - 1
      /\ Left \in 0 .. 10 /\ (Left = 0 <=> state = "IDLE")
      /\ Latest = BeatsPerCw + 18 /\ Latest \in Nat
  BY <1>1, LeftRange DEF TxTypeOK, Latest
<1>3. /\ fec_cw_valid' <=> dist_active /\ dist_cnt = BeatsPerCw - 1
  BY <1>1, LinkRxEdge DEF SlicesCounted
<1>a. ASSUME NEW m \in 1 .. Latest, m < n, DueIn(m)' PROVE Sooner(n)'
  BY <1>a, SoonerOne
<1>4. CASE n = 1 /\ descram_flit_valid
  BY <1>1, <1>4 DEF Reassembler
<1>5. CASE n = 2 /\ flits_active
  <2>1. DueIn(1)'
    BY <1>1, <1>5 DEF Descrambler, DueIn
  <2> QED BY <1>2, <1>5, <1>a, <2>1
<1>6. CASE n = 3 /\ valid_out
  <2>1. DueIn(2)'
    BY <1>1, <1>6, DeaccEdge DEF DueIn
  <2> QED BY <1>2, <1>6, <1>a, <2>1
<1>7. CASE n = Left + 3 /\ Left > 0
  <2>1. Left' = Left - 1 /\ (valid_out' <=> Left = 1)
    BY <1>1, <1>7, DecEdge
  <2>2. CASE Left = 1
    <3>1. DueIn(3)'
      BY <2>1, <2>2 DEF DueIn
    <3> QED BY <1>2, <1>7, <1>a, <2>2, <3>1
  <2>3. CASE Left # 1
    <3>1. PICK m \in 1 .. Latest : m = Left + 2 /\ m < n
      BY <1>2, <1>7
    <3>2. m = Left' + 3 /\ Left' > 0
      BY <1>2, <1>7, <2>1, <2>3, <3>1
    <3>3. DueIn(m)'
      BY <3>2 DEF DueIn
    <3> QED BY <1>a, <3>1, <3>3
  <2> QED BY <2>2, <2>3
<1>8. CASE n = 14 /\ fec_cw_valid
  <2>1. Left = 0
    BY <1>1, <1>2, <1>8 DEF NoWordDropped
  <2>2. PICK left \in 1 .. 10 : left = Left'
    BY <1>1, <1>8, <2>1, DecEdge
  <2>3. left + 3 \in 1 .. Latest /\ left + 3 < n /\ left > 0
    BY <1>2, <1>8
  <2>4. DueIn(left + 3)'
    BY <2>2, <2>3 DEF DueIn
  <2> QED BY <1>a, <2>3, <2>4
<1>9. CASE n = Owed + 15 /\ dist_active
  <2>1. CASE dist_cnt = BeatsPerCw - 1
    <3>1. DueIn(14)'
      BY <1>3, <1>9, <2>1 DEF DueIn
    <3>2. 14 < n
      BY <1>9, <2>1 DEF Owed
    <3> QED BY <1>2, <1>a, <3>1, <3>2
  <2>2. CASE dist_cnt # BeatsPerCw - 1
    <3>1. dist_active' /\ dist_cnt' = dist_cnt + 1
      BY <1>1, <1>9, <2>2, SerialiserEdge DEF FreeInTime
    <3>2. PICK m \in 1 .. Latest : m = BeatsPerCw - 1 - dist_cnt + 14 /\ m < n
      BY <1>2, <1>9, <2>2 DEF Owed
    <3>3. m = BeatsPerCw - 1 - (dist_cnt + 1) + 15
      BY <1>2, <3>2
    <3>4. m = Owed' + 15
      BY <3>1, <3>3 DEF Owed
    <3>5. DueIn(m)'
      BY <3>1, <3>4 DEF DueIn
    <3> QED BY <1>a, <3>2, <3>5
  <2> QED BY <2>1, <2>2
<1>b. CASE n = BeatsPerCw + 15 /\ cw_valid
  <2>1. dist_active' /\ dist_cnt' = 0
    BY <1>1, <1>b, SerialiserEdge
  <2>2. PICK m \in 1 .. Latest : m = BeatsPerCw - 1 - 0 + 15 /\ m < n
    BY <1>2, <1>b
  <2>3. m = Owed' + 15
    BY <2>1, <2>2 DEF Owed
  <2>4. DueIn(m)'
    BY <2>1, <2>3 DEF DueIn
  <2> QED BY <1>a, <2>2, <2>4
<1>c. CASE n = BeatsPerCw + 16 /\ fec_msg_valid
  <2>1. DueIn(BeatsPerCw + 15)'
    BY <1>1, <1>c DEF TxClk, FecEnc, DueIn
  <2> QED BY <1>2, <1>a, <1>c, <2>1
<1>d. CASE n = BeatsPerCw + 17 /\ flit_scram_valid /\ tx_flit_cnt = FlitsPerCw - 1
  <2>1. DueIn(BeatsPerCw + 16)'
    BY <1>1, <1>d DEF TxClk, Accumulator, DueIn
  <2> QED BY <1>2, <1>a, <1>d, <2>1
<1>e. CASE /\ n = BeatsPerCw + 18 /\ flit_seg_valid
           /\ tx_flit_cnt = FlitsPerCw - (IF flit_scram_valid THEN 2 ELSE 1)
  <2>1. flit_scram_valid'
    BY <1>1, <1>e DEF TxClk, Scrambler
  <2>2. tx_flit_cnt' = FlitsPerCw - 1
    BY <1>1, <1>2, <1>e DEF TxClk, Accumulator
  <2>3. DueIn(BeatsPerCw + 17)'
    BY <2>1, <2>2 DEF DueIn
  <2> QED BY <1>2, <1>a, <1>e, <2>3
<1> QED BY <1>4, <1>5, <1>6, <1>7, <1>8, <1>9, <1>b, <1>c, <1>d, <1>e DEF DueIn

\* None due: all stages before the accumulator's are empty, and it and the
\* two registers before it have less than a codeword.
LEMMA FullIsDue ==
  ASSUME Paced, LinkInv, ScramInv, Len(InFlight) >= FlitsPerCw
  PROVE  \E n \in 1 .. Latest : DueIn(n)
<1> SUFFICES ASSUME \A n \in 1 .. Latest : ~DueIn(n) PROVE FALSE
  OBVIOUS
<1>1. /\ TxTypeOK /\ Handshakes /\ Left \in 0 .. 10 /\ (Left = 0 <=> state = "IDLE")
      /\ tx_flit_cnt \in 0 .. FlitsPerCw - 1 /\ dist_cnt \in 0 .. BeatsPerCw - 1
      /\ fec_msg \in Message
      /\ flit_scram_valid \in BOOLEAN /\ flit_seg_valid \in BOOLEAN
  BY LeftRange DEF LinkInv, PacedInv, DecodedInTime, TxTypeOK
<1>2. /\ \A n \in 1 .. 14 : n \in 1 .. Latest
      /\ \A n \in 15 .. 18 : BeatsPerCw + n \in 1 .. Latest
      /\ Owed + 15 \in 1 .. Latest
  BY <1>1 DEF Latest, Owed
<1>3. ~DueIn(1) /\ ~DueIn(2) /\ ~DueIn(3) /\ ~DueIn(14)
  BY <1>2
<1>4. Left = 0
  <2>1. Left + 3 \in 1 .. Latest
    BY <1>1 DEF Latest
  <2> QED BY <1>1, <2>1 DEF DueIn
<1>5. ~DueIn(Owed + 15) /\ ~DueIn(BeatsPerCw + 15) /\ ~DueIn(BeatsPerCw + 16)
      /\ ~DueIn(BeatsPerCw + 17) /\ ~DueIn(BeatsPerCw + 18)
  BY <1>2
<1>6. /\ ~descram_flit_valid /\ ~flits_active /\ ~valid_out /\ state = "IDLE" /\ ~fec_cw_valid
      /\ ~dist_active /\ ~cw_valid /\ ~fec_msg_valid
      /\ ~(flit_scram_valid /\ tx_flit_cnt = FlitsPerCw - 1)
      /\ ~(flit_seg_valid /\ tx_flit_cnt = FlitsPerCw - (IF flit_scram_valid THEN 2 ELSE 1))
  BY <1>1, <1>3, <1>4, <1>5 DEF DueIn
<1>7. InFlight = InPart \o InScram \o OneIf(flit_seg_valid, flit_seg)
  <2>1. InPart \in Seq(Flit) /\ InScram \in Seq(Flit)
    <3>1. InPart = From(fec_msg, FlitsPerCw - tx_flit_cnt + 1)
      BY DEF InPart, From
    <3>2. InPart \in Seq(Flit)
      BY <1>1, <3>1, ZeroFlitType, FromShifted
    <3> QED BY <1>1, <3>2 DEF InScram, OneIf, TxTypeOK
  <2>2. << >> \o << >> = << >> /\ << >> \o InPart = InPart
    BY <2>1, Empties
  <2>3. Scrambled = InPart \o InScram
    BY <1>6, <2>2, Zenon DEF Scrambled, AllIf, InPart, InScram
  <2>4. << >> \o (InPart \o InScram) = InPart \o InScram
    <3>1. InPart \o InScram \in Seq(Flit)
      BY <2>1, Joined
    <3> QED BY <3>1, Empties
  <2> QED BY <1>6, <2>3, <2>4, Zenon DEF InFlight, OneIf
<1>8. InPart \in Seq(Flit) /\ Len(InPart) = tx_flit_cnt
  <2>1. \A i \in (FlitsPerCw - tx_flit_cnt + 1) .. FlitsPerCw : fec_msg[i] \in Flit
    BY <1>1 DEF Message
  <2> QED BY <1>1, <2>1, SubSeqProperties DEF InPart
<1>9. /\ InScram \in Seq(Flit) /\ Len(InScram) = IF flit_scram_valid THEN 1 ELSE 0
      /\ OneIf(flit_seg_valid, flit_seg) \in Seq(Flit)
      /\ Len(OneIf(flit_seg_valid, flit_seg)) = IF flit_seg_valid THEN 1 ELSE 0
  BY <1>1 DEF InScram, OneIf, TxTypeOK
<1> DEFINE part == InPart
           scram == InScram
           seg == OneIf(flit_seg_valid, flit_seg)
<1>a. part \in Seq(Flit) /\ scram \in Seq(Flit) /\ seg \in Seq(Flit)
  BY <1>8, <1>9
<1> HIDE DEF part, scram, seg
<1>b. Len(part \o scram \o seg) = Len(part) + Len(scram) + Len(seg)
  BY <1>a
<1>c. Len(InFlight) = tx_flit_cnt + (IF flit_scram_valid THEN 1 ELSE 0) + (IF flit_seg_valid THEN 1 ELSE 0)
  BY <1>7, <1>8, <1>9, <1>b DEF part, scram, seg
<1> QED BY <1>1, <1>6, <1>c

(* No full codeword stays in the pipeline: with flits for one on the way,  *)
(* a flit comes out after at most BeatsPerCw + 18 clock edges (the stages, *)
(* the slices and the ten cycles of a correction), as each edge brings one *)
(* out or brings what is due closer.  This is CodewordsComeOut but for the *)
(* clock, which has to keep running.                                       *)
THEOREM CodewordsComeNearer ==
  ASSUME Paced, MaxErrs <= T
  PROVE  Spec => /\ [](Len(InFlight) >= FlitsPerCw => \E n \in 1 .. Latest : DueIn(n))
                 /\ [][Reset \/ \A n \in 1 .. Latest :
                          DueIn(n) => net_valid' \/ \E m \in 1 .. n - 1 : DueIn(m)']_vars
<1>1. LinkInv /\ ScramInv => (Len(InFlight) >= FlitsPerCw => \E n \in 1 .. Latest : DueIn(n))
  BY FullIsDue
<1>2. LinkInv /\ ScramInv /\ (LinkInv /\ ScramInv)' /\ [Next]_vars =>
        [Reset \/ \A n \in 1 .. Latest :
            DueIn(n) => net_valid' \/ \E m \in 1 .. n - 1 : DueIn(m)']_vars
  <2> SUFFICES ASSUME LinkInv, LinkInv', NEW in \in NetInput, NEW e \in 0 .. MaxErrs, Clk(in, e),
                      NEW n \in 1 .. Latest, DueIn(n)
               PROVE  net_valid' \/ \E m \in 1 .. n - 1 : DueIn(m)'
    BY DEF Next, AnyClk
  <2> QED BY DueEdge DEF Sooner
<1> QED BY <1>1, <1>2, LinkAlways, PTL DEF Spec

-----------------------------------------------------------------------------
(* The channel's queue.                                                    *)
Delivery == [sop : BOOLEAN, data : Flit]

Seen(q) == [i \in 1 .. Len(q) |-> AsDelivered(q[i])]

LEMMA DeliveryType == ASSUME NEW f \in Flit PROVE AsDelivered(f) \in Delivery
<1>1. Plain(f) \in Flit
  BY PlainFlit
<1>2. Stripped(Plain(f)) \in Flit
  <2>1. \A g \in Flit : [g EXCEPT !.top = "00000000"] \in Flit
    BY DEF Flit, TopWord
  <2> QED BY <1>1, <2>1 DEF Stripped
<1>3. IsSop(Plain(f)) \in BOOLEAN
  BY DEF IsSop
<1> HIDE DEF IsSop, Stripped
<1> QED BY <1>2, <1>3 DEF AsDelivered, Delivery

LEMMA SeenType ==
  ASSUME NEW q \in Seq(Flit) PROVE Seen(q) \in Seq(Delivery) /\ Len(Seen(q)) = Len(q)
<1>1. \A i \in 1 .. Len(q) : AsDelivered(q[i]) \in Delivery
  BY DeliveryType
<1>2. Len(q) \in Nat
  OBVIOUS
<1>3. Seen(q) \in [1 .. Len(q) -> Delivery]
  BY <1>1 DEF Seen
<1> QED BY <1>2, <1>3

LEMMA SeenFew ==
  /\ Seen(<< >>) = << >>
  /\ \A f \in Flit : Seen(<< f >>) = << AsDelivered(f) >>
<1>1. Seen(<< >>) = << >>
  BY DEF Seen
<1>2. ASSUME NEW f \in Flit PROVE Seen(<< f >>) = << AsDelivered(f) >>
  <2>1. Len(<< f >>) = 1 /\ << f >>[1] = f
    OBVIOUS
  <2> HIDE DEF AsDelivered
  <2> QED BY <2>1 DEF Seen
<1> QED BY <1>1, <1>2

LEMMA SeenJoined ==
  ASSUME NEW p \in Seq(Flit), NEW q \in Seq(Flit)
  PROVE  Seen(p \o q) = Seen(p) \o Seen(q)
<1> DEFINE r == p \o q
           a == Seen(p)
           b == Seen(q)
           c == Seen(r)
           m == Len(p)
           n == Len(q)
<1>1. /\ r \in Seq(Flit) /\ Len(r) = m + n /\ m \in Nat /\ n \in Nat
      /\ \A i \in 1 .. m + n : r[i] = IF i <= m THEN p[i] ELSE q[i - m]
  OBVIOUS
<1>2. /\ a \in Seq(Delivery) /\ Len(a) = m
      /\ b \in Seq(Delivery) /\ Len(b) = n
      /\ c \in Seq(Delivery) /\ Len(c) = m + n
  <2>1. r \in Seq(Flit) /\ Len(r) = m + n
    BY <1>1
  <2> HIDE DEF r
  <2> QED BY <2>1, SeenType
<1>3. /\ \A i \in 1 .. m : a[i] = AsDelivered(p[i])
      /\ \A i \in 1 .. n : b[i] = AsDelivered(q[i])
  BY Zenon DEF Seen
<1>4. \A i \in 1 .. m + n : c[i] = AsDelivered(r[i])
  <2>1. Len(r) = m + n
    BY <1>1
  <2> HIDE DEF r
  <2> QED BY <2>1, Zenon DEF Seen
<1> HIDE DEF a, b, c, m, n, r
<1>5. /\ a \o b \in Seq(Delivery) /\ Len(a \o b) = m + n
      /\ \A i \in 1 .. m + n : (a \o b)[i] = IF i <= m THEN a[i] ELSE b[i - m]
  BY <1>1, <1>2
<1>6. \A i \in 1 .. m + n : c[i] = (a \o b)[i]
  <2> TAKE i \in 1 .. m + n
  <2>1. CASE i <= m
    <3>1. r[i] = p[i] /\ (a \o b)[i] = a[i] /\ i \in 1 .. m
      BY <1>1, <1>5, <2>1
    <3> QED BY <1>3, <1>4, <3>1, Zenon
  <2>2. CASE ~(i <= m)
    <3>1. PICK j \in 1 .. n : j = i - m
      BY <1>1, <2>2
    <3>2. r[i] = q[j] /\ (a \o b)[i] = b[j]
      BY <1>1, <1>5, <2>2, <3>1
    <3> QED BY <1>3, <1>4, <3>2, Zenon
  <2> QED BY <2>1, <2>2
<1>7. c = a \o b
  BY <1>2, <1>5, <1>6, SeqEqual
<1> QED BY <1>7 DEF a, b, c, r

LEMMA ItemsJoined == \A p, q \in Seq(Delivery) : p \o q \in Seq(Delivery)
BY ConcatProperties

(* The descrambler puts out what leaves the scrambled part, the segmenter  *)
(* feeds it: together the three are one queue.                             *)
Requeued(x, q, y, x2, q2, y2) ==
  x \o ((x2 \o q2) \o y2) = ((x \o q) \o y) \o y2

LEMMA QueueEdge ==
  ASSUME NEW x \in Seq(Delivery), NEW q \in Seq(Delivery), NEW y \in Seq(Delivery),
         NEW x2 \in Seq(Delivery), NEW q2 \in Seq(Delivery), NEW y2 \in Seq(Delivery),
         x2 \o q2 = q \o y
  PROVE  Requeued(x, q, y, x2, q2, y2)
<1>1. x \o ((q \o y) \o y2) = (x \o (q \o y)) \o y2
  <2>1. PICK r \in Seq(Delivery) : r = q \o y
    BY ItemsJoined, Zenon
  <2>2. Associates(x, r, y2)
    BY Rebracket, Zenon
  <2> QED BY <2>1, <2>2, Zenon DEF Associates
<1>2. x \o (q \o y) = (x \o q) \o y
  <2>1. Associates(x, q, y)
    BY Rebracket, Zenon
  <2> QED BY <2>1, Zenon DEF Associates
<1>3. x \o ((x2 \o q2) \o y2) = x \o ((q \o y) \o y2)
  BY Zenon
<1>4. (x \o (q \o y)) \o y2 = ((x \o q) \o y) \o y2
  BY <1>2, Zenon
<1> QED BY <1>1, <1>3, <1>4, Zenon DEF Requeued

HeadLeaves(h, r, q2, y2) ==
  /\ << h >> \o r # << >> /\ Head(<< h >> \o r) = h
  /\ q2 = Tail(<< h >> \o r) \o y2

LEMMA QueueHead ==
  ASSUME NEW h \in Delivery, NEW r \in Seq(Delivery), NEW q2 \in Seq(Delivery),
         NEW y2 \in Seq(Delivery), << h >> \o q2 = (<< h >> \o r) \o y2
  PROVE  HeadLeaves(h, r, q2, y2)
<1>1. << h >> \in Seq(Delivery) /\ r \o y2 \in Seq(Delivery)
  OBVIOUS
<1>2. (<< h >> \o r) \o y2 = << h >> \o (r \o y2)
  <2>1. Associates(<< h >>, r, y2)
    BY <1>1, Rebracket, Zenon
  <2> QED BY <2>1, Zenon DEF Associates
<1>3. << h >> \o q2 = << h >> \o (r \o y2)
  BY <1>2
<1>4. q2 = r \o y2
  BY <1>1, <1>3, ConcatSimplifications, Zenon
<1>5. << h >> \o r # << >> /\ Head(<< h >> \o r) = h
  OBVIOUS
<1>6. Tail(<< h >> \o r) = r
  OBVIOUS
<1> QED BY <1>4, <1>5, <1>6, Zenon DEF HeadLeaves

USE LinkAssumption

-----------------------------------------------------------------------------
LEMMA TopReplaced ==
  ASSUME NEW r, NEW a, NEW b, NEW v, r = [top |-> a, body |-> b, inv |-> FALSE]
  PROVE  [r EXCEPT !.top = v] = [top |-> v, body |-> b, inv |-> FALSE]
<1>1. PICK c : c = FALSE
  OBVIOUS
<1>2. r = [top |-> a, body |-> b, inv |-> c]
  BY <1>1, Zenon
<1>3. [r EXCEPT !.top = v] = [top |-> v, body |-> b, inv |-> c]
  BY ONLY <1>2
<1> QED BY <1>1, <1>3, Zenon

LEMMA HeaderMeans ==
  ASSUME Lph \notin NetTops, TxTypeOK, NEW in \in NetInput, in.valid
  PROVE  /\ WithHeader(in) \in Flit
         /\ AsDelivered(WithHeader(in)) = AsMeant(in)
         /\ AsMeant(in) \in Delivery
<1>1. PICK s \in NetSops, t \in NetTops :
        in = [valid |-> TRUE, sop |-> s, flit |-> [top |-> t, body |-> src_tag, inv |-> FALSE]]
  BY DEF NetInput, Idle
<1>2. s \in BOOLEAN /\ t \in TopWord /\ t # Lph /\ src_tag \in Body \cup {Blank, Junk}
  BY DEF TxTypeOK
<1> DEFINE f(u) == [top |-> u, body |-> src_tag, inv |-> FALSE]
<1>3. \A u \in TopWord : f(u) \in Flit /\ f(u).inv = FALSE /\ f(u).top = u
  BY <1>2 DEF Flit
<1>4. ASSUME NEW u, NEW v PROVE [f(u) EXCEPT !.top = v] = f(v)
  <2>1. PICK r : r = f(u)
    OBVIOUS
  <2>2. r = [top |-> u, body |-> src_tag, inv |-> FALSE]
    BY <2>1 DEF f
  <2>3. [r EXCEPT !.top = v] = [top |-> v, body |-> src_tag, inv |-> FALSE]
    BY <2>2, TopReplaced
  <2> QED BY <2>1, <2>3, Zenon DEF f
<1>5. in.flit = f(t) /\ in.sop = s
  BY <1>1
<1>6. Lph \in TopWord /\ "00000000" \in TopWord
  BY DEF Lph, TopWord
<1> HIDE DEF f
<1>7. \A u \in TopWord : AsDelivered(f(u)) = [sop |-> IsSop(f(u)), data |-> Stripped(f(u))]
  <2> SUFFICES ASSUME NEW u \in TopWord
               PROVE  AsDelivered(f(u)) = [sop |-> IsSop(f(u)), data |-> Stripped(f(u))]
    OBVIOUS
  <2>1. PICK g \in Flit : g = f(u) /\ g.inv = FALSE
    BY <1>3
  <2>2. Plain(g) = g
    BY <2>1, XorTwice
  <2> QED BY <2>1, <2>2, Zenon DEF AsDelivered
<1>8. CASE s = TRUE
  <2>1. WithHeader(in) = f(Lph)
    BY <1>4, <1>5, <1>8 DEF WithHeader
  <2>2. AsMeant(in) = [sop |-> TRUE, data |-> f("00000000")]
    BY <1>4, <1>5, <1>8 DEF AsMeant
  <2>3. IsSop(f(Lph)) = TRUE /\ Stripped(f(Lph)) = f("00000000")
    BY <1>3, <1>4, <1>6 DEF IsSop, Stripped
  <2>4. AsDelivered(f(Lph)) = [sop |-> TRUE, data |-> f("00000000")]
    BY <1>6, <1>7, <2>3
  <2>5. AsMeant(in) \in Delivery
    BY <1>3, <1>6, <2>2 DEF Delivery
  <2> QED BY <1>3, <1>6, <2>1, <2>2, <2>4, <2>5
<1>9. CASE s = FALSE
  <2>1. WithHeader(in) = f(t)
    BY <1>5, <1>9 DEF WithHeader
  <2>2. AsMeant(in) = [sop |-> FALSE, data |-> f(t)]
    BY <1>5, <1>9 DEF AsMeant
  <2>3. IsSop(f(t)) = FALSE /\ Stripped(f(t)) = f(t)
    BY <1>2, <1>3 DEF IsSop, Stripped
  <2>4. AsDelivered(f(t)) = [sop |-> FALSE, data |-> f(t)]
    BY <1>2, <1>7, <2>3
  <2>5. AsMeant(in) \in Delivery
    BY <1>2, <1>3, <2>2 DEF Delivery
  <2> QED BY <1>2, <1>3, <2>1, <2>2, <2>4, <2>5
<1> QED BY <1>2, <1>8, <1>9

LEMMA KeyIsNotSeen ==
  /\ \A f \in Flit : AsDelivered(Plain(f)) = AsDelivered(f)
  /\ \A f \in Flit, k \in BOOLEAN : f.inv = FALSE => AsDelivered(XorKey(f, k)) = AsDelivered(f)
  /\ \A f \in Flit : f.inv = FALSE => AsDelivered(f) = [sop |-> IsSop(f), data |-> Stripped(f)]
<1>1. ASSUME NEW f \in Flit PROVE AsDelivered(Plain(f)) = AsDelivered(f)
  <2>1. PICK g \in Flit : g = Plain(f) /\ g.inv = FALSE
    BY PlainFlit
  <2>2. Plain(g) = g
    BY <2>1, XorTwice
  <2>3. AsDelivered(g) = AsDelivered(f)
    BY <2>1, <2>2, Zenon DEF AsDelivered
  <2> QED BY <2>1, <2>3
<1>2. ASSUME NEW f \in Flit, f.inv = FALSE
      PROVE  Plain(f) = f /\ \A k \in BOOLEAN : Plain(XorKey(f, k)) = f
  BY <1>2, XorTwice
<1>3. ASSUME NEW f \in Flit, f.inv = FALSE, NEW k \in BOOLEAN
      PROVE  AsDelivered(XorKey(f, k)) = AsDelivered(f)
  <2>1. PICK g : g = XorKey(f, k)
    OBVIOUS
  <2>2. Plain(g) = Plain(f)
    BY <1>2, <1>3, <2>1
  <2>3. AsDelivered(g) = AsDelivered(f)
    BY <2>2, Zenon DEF AsDelivered
  <2> QED BY <2>1, <2>3
<1>4. ASSUME NEW f \in Flit, f.inv = FALSE
      PROVE  AsDelivered(f) = [sop |-> IsSop(f), data |-> Stripped(f)]
  <2>1. Plain(f) = f
    BY <1>2, <1>4
  <2> QED BY <2>1, Zenon DEF AsDelivered
<1> QED BY <1>1, <1>3, <1>4

-----------------------------------------------------------------------------
(* The two ends of the queue: the descrambled flit and the segmented one.  *)
Oldest == OneIf(descram_flit_valid, descram_flit)
Newest == OneIf(flit_seg_valid, flit_seg)

Handed == IF net_in.valid THEN AsMeant(net_in) ELSE NoItem
Queue  == Seen(InFlight)
PutOut == IF net_valid THEN [sop |-> net_sop, data |-> net_data] ELSE NoItem

LEMMA NewestMeant ==
  ASSUME Lph \notin NetTops, TxTypeOK, NEW in \in NetInput, TxClk(in), net_in' = in
  PROVE  /\ Handed' \in Delivery \cup {NoItem}
         /\ Seen(Newest') = IF Handed' = NoItem THEN << >> ELSE << Handed' >>
<1>1. flit_seg_valid' = in.valid /\ flit_seg' = IF in.valid THEN WithHeader(in) ELSE flit_seg
  BY DEF TxClk, Segmenter
<1>2. CASE in.valid
  <2>1. /\ WithHeader(in) \in Flit /\ AsMeant(in) \in Delivery
        /\ AsDelivered(WithHeader(in)) = AsMeant(in)
    BY <1>2, HeaderMeans
  <2>2. Handed' = AsMeant(in) /\ AsMeant(in) # NoItem
    BY <1>2, <2>1 DEF Handed, Delivery
  <2>3. Newest' = << WithHeader(in) >>
    BY <1>1, <1>2 DEF Newest, OneIf
  <2>4. Seen(<< WithHeader(in) >>) = << AsMeant(in) >>
    BY <2>1, SeenFew
  <2> QED BY <2>1, <2>2, <2>3, <2>4
<1>3. CASE ~in.valid
  BY <1>1, <1>3, SeenFew DEF Handed, Newest, OneIf
<1> QED BY <1>2, <1>3

LEMMA InFlightSeen ==
  ASSUME NEW x \in Seq(Flit), NEW q \in Seq(Flit), NEW y \in Seq(Flit)
  PROVE  /\ Seen((x \o q) \o y) = (Seen(x) \o Seen(q)) \o Seen(y)
         /\ (x \o q) \o y \in Seq(Flit)
<1>1. x \o q \in Seq(Flit) /\ (x \o q) \o y \in Seq(Flit)
  BY Joined, Zenon
<1>2. Seen((x \o q) \o y) = Seen(x \o q) \o Seen(y)
  BY <1>1, SeenJoined
<1>3. Seen(x \o q) = Seen(x) \o Seen(q)
  BY SeenJoined
<1> QED BY <1>1, <1>2, <1>3, Zenon

LEMMA EndsTyped ==
  ASSUME TxTypeOK, ScramInv
  PROVE  Oldest \in Seq(Flit) /\ Newest \in Seq(Flit)
BY DEF Oldest, Newest, OneIf, TxTypeOK, ScramInv

(* What an edge does to the queue as the network sees it.                  *)
LEMMA QueueMoves ==
  ASSUME Paced, MaxErrs <= T, LinkInv, LinkInv', ScramInv, ScramInv',
         NEW in \in NetInput, NEW e \in 0 .. MaxErrs, Clk(in, e)
  PROVE  /\ Seen(Oldest) \o Queue' = Queue \o Seen(Newest')
         /\ Queue = (Seen(Oldest) \o Seen(Scrambled)) \o Seen(Newest)
         /\ Seen(Oldest) \in Seq(Delivery) /\ Seen(Scrambled) \in Seq(Delivery)
         /\ Seen(Newest) \in Seq(Delivery) /\ Seen(Newest') \in Seq(Delivery)
         /\ Queue \in Seq(Delivery) /\ Queue' \in Seq(Delivery)
<1>1. /\ TxTypeOK /\ TxTypeOK'
      /\ Moves(Emitted, Scrambled', Scrambled, Entering)
      /\ descram_flit_valid' <=> flits_active
      /\ flits_active => descram_flit' = Plain(ScramFlit) /\ ScramFlit \in Flit
  BY ScrambledMoves, ScramEdge, EmittedFlit DEF LinkInv, PacedInv
<1>2. Oldest \in Seq(Flit) /\ Newest \in Seq(Flit) /\ Oldest' \in Seq(Flit) /\ Newest' \in Seq(Flit)
  <2>1. Oldest \in Seq(Flit) /\ Newest \in Seq(Flit)
    BY <1>1, EndsTyped
  <2>2. Oldest' \in Seq(Flit) /\ Newest' \in Seq(Flit)
    BY <1>1 DEF Oldest, Newest, OneIf, TxTypeOK, ScramInv
  <2> QED BY <2>1, <2>2
<1>3. /\ Emitted \in Seq(Flit) /\ Scrambled' \in Seq(Flit) /\ Scrambled \in Seq(Flit)
      /\ Entering \in Seq(Flit) /\ Emitted \o Scrambled' = Scrambled \o Entering
  BY <1>1 DEF Moves
<1>4. Seen(Oldest') = Seen(Emitted)
  <2>1. CASE flits_active
    <3>1. PICK f \in Flit : f = ScramFlit /\ descram_flit' = Plain(f)
      BY <1>1, <2>1
    <3>2. Oldest' = << Plain(f) >> /\ Emitted = << f >> /\ Plain(f) \in Flit
      BY <1>1, <2>1, <3>1, PlainFlit DEF Oldest, Emitted, OneIf
    <3>3. Seen(<< Plain(f) >>) = << AsDelivered(f) >> /\ Seen(<< f >>) = << AsDelivered(f) >>
      BY <3>2, SeenFew, KeyIsNotSeen
    <3> QED BY <3>2, <3>3
  <2>2. CASE ~flits_active
    BY <1>1, <2>2 DEF Oldest, Emitted, OneIf
  <2> QED BY <2>1, <2>2
<1>5. Seen(Newest) = Seen(Entering)
  <2>1. CASE flit_seg_valid
    <3>1. PICK k \in BOOLEAN : k = tx_lfsr[LfsrLen - 1]
      <4>1. LfsrLen - 1 \in 0 .. LfsrLen - 1
        OBVIOUS
      <4> QED BY <1>1, <4>1 DEF TxTypeOK, Lfsr
    <3>2. PICK f \in Flit : f = flit_seg /\ f.inv = FALSE
      BY <1>1 DEF TxTypeOK, ScramInv
    <3>3. XorKey(f, k) \in Flit /\ AsDelivered(XorKey(f, k)) = AsDelivered(f)
      BY <3>2, XorTwice, KeyIsNotSeen
    <3>4. Newest = << f >> /\ Entering = << XorKey(f, k) >>
      BY <2>1, <3>1, <3>2 DEF Newest, Entering, OneIf
    <3>5. Seen(<< f >>) = << AsDelivered(f) >> /\ Seen(<< XorKey(f, k) >>) = << AsDelivered(f) >>
      BY <3>3, SeenFew
    <3> QED BY <3>4, <3>5
  <2>2. CASE ~flit_seg_valid
    BY <2>2 DEF Newest, Entering, OneIf
  <2> QED BY <2>1, <2>2
<1>6. Seen(Oldest') \o Seen(Scrambled') = Seen(Scrambled) \o Seen(Newest)
  <2>1. Seen(Emitted \o Scrambled') = Seen(Emitted) \o Seen(Scrambled')
    BY <1>3, SeenJoined
  <2>2. Seen(Scrambled \o Entering) = Seen(Scrambled) \o Seen(Entering)
    BY <1>3, SeenJoined
  <2> QED BY <1>3, <1>4, <1>5, <2>1, <2>2, Zenon
<1>7. /\ Queue = (Seen(Oldest) \o Seen(Scrambled)) \o Seen(Newest) /\ InFlight \in Seq(Flit)
      /\ Queue' = (Seen(Oldest') \o Seen(Scrambled')) \o Seen(Newest') /\ InFlight' \in Seq(Flit)
  <2>1. InFlight = (Oldest \o Scrambled) \o Newest /\ InFlight' = (Oldest' \o Scrambled') \o Newest'
    BY Zenon DEF InFlight, Oldest, Newest
  <2>2. /\ Seen((Oldest \o Scrambled) \o Newest) = (Seen(Oldest) \o Seen(Scrambled)) \o Seen(Newest)
        /\ (Oldest \o Scrambled) \o Newest \in Seq(Flit)
    BY <1>2, <1>3, InFlightSeen
  <2>3. /\ Seen((Oldest' \o Scrambled') \o Newest') = (Seen(Oldest') \o Seen(Scrambled')) \o Seen(Newest')
        /\ (Oldest' \o Scrambled') \o Newest' \in Seq(Flit)
    BY <1>2, <1>3, InFlightSeen
  <2> QED BY <2>1, <2>2, <2>3, Zenon DEF Queue
<1>8. /\ Seen(Oldest) \in Seq(Delivery) /\ Seen(Scrambled) \in Seq(Delivery)
      /\ Seen(Newest) \in Seq(Delivery) /\ Seen(Newest') \in Seq(Delivery)
      /\ Seen(Oldest') \in Seq(Delivery) /\ Seen(Scrambled') \in Seq(Delivery)
      /\ Seen(InFlight) \in Seq(Delivery) /\ Seen(InFlight') \in Seq(Delivery)
  BY <1>2, <1>3, <1>7, SeenType
<1>9. Seen(Oldest) \o ((Seen(Oldest') \o Seen(Scrambled')) \o Seen(Newest'))
        = ((Seen(Oldest) \o Seen(Scrambled)) \o Seen(Newest)) \o Seen(Newest')
  <2> DEFINE x == Seen(Oldest)
             q == Seen(Scrambled)
             y == Seen(Newest)
             x2 == Seen(Oldest')
             q2 == Seen(Scrambled')
             y2 == Seen(Newest')
  <2>1. /\ x \in Seq(Delivery) /\ q \in Seq(Delivery) /\ y \in Seq(Delivery)
        /\ x2 \in Seq(Delivery) /\ q2 \in Seq(Delivery) /\ y2 \in Seq(Delivery)
        /\ x2 \o q2 = q \o y
    BY <1>6, <1>8
  <2> HIDE DEF x, q, y, x2, q2, y2
  <2>2. Requeued(x, q, y, x2, q2, y2)
    BY <2>1, QueueEdge, Zenon
  <2> QED BY <2>2, Zenon DEF x, q, y, x2, q2, y2, Requeued
<1>10. Queue = Seen(InFlight) /\ Queue' = Seen(InFlight')
  BY DEF Queue
<1> QED BY <1>7, <1>8, <1>9, <1>10, Zenon

-----------------------------------------------------------------------------
Arrived == IF Handed' = NoItem THEN << >> ELSE << Handed' >>

LEMMA ChannelEdge ==
  ASSUME Paced, MaxErrs <= T, Lph \notin NetTops,
         LinkInv, LinkInv', ScramInv, ScramInv',
         NEW in \in NetInput, NEW e \in 0 .. MaxErrs, Clk(in, e)
  PROVE  /\ Handed' \in Delivery \cup {NoItem}
         /\ \/ Queue' = Queue \o Arrived /\ PutOut' = NoItem
            \/ /\ Queue # << >> /\ Queue' = Tail(Queue) \o Arrived
               /\ PutOut' = Head(Queue)
<1>1. /\ TxTypeOK /\ TxClk(in) /\ net_in' = in /\ Reassembler
      /\ descram_flit_valid => descram_flit \in Flit /\ descram_flit.inv = FALSE
  BY LinkRxEdge DEF LinkInv, PacedInv, Clk, ScramInv, RxClk
<1>2. Handed' \in Delivery \cup {NoItem} /\ Seen(Newest') = Arrived
  BY <1>1, NewestMeant DEF Arrived
<1> DEFINE q == Seen(Scrambled)
           y == Seen(Newest)
<1>3. /\ Seen(Oldest) \o Queue' = Queue \o Arrived
      /\ Queue = (Seen(Oldest) \o q) \o y
      /\ q \in Seq(Delivery) /\ y \in Seq(Delivery) /\ Arrived \in Seq(Delivery)
      /\ Queue \in Seq(Delivery) /\ Queue' \in Seq(Delivery)
  BY <1>2, QueueMoves
<1> HIDE DEF q, y
<1>4. CASE descram_flit_valid
  <2>1. PICK f \in Flit : f = descram_flit /\ f.inv = FALSE
    BY <1>1, <1>4
  <2>2. PICK h \in Delivery : h = AsDelivered(f)
    BY DeliveryType
  <2>3. Seen(Oldest) = << h >>
    <3>1. Oldest = << f >>
      BY <1>4, <2>1 DEF Oldest, OneIf
    <3> QED BY <2>2, <3>1, SeenFew
  <2>4. PutOut' = h
    <3>1. h = [sop |-> IsSop(f), data |-> Stripped(f)]
      BY <2>1, <2>2, KeyIsNotSeen
    <3>2. net_valid' /\ net_sop' = IsSop(f) /\ net_data' = Stripped(f)
      BY <1>1, <1>4, <2>1 DEF Reassembler
    <3> QED BY <3>1, <3>2, Zenon DEF PutOut
  <2>5. PICK r \in Seq(Delivery) : r = q \o y
    BY <1>3, ItemsJoined, Zenon
  <2>6. Queue = << h >> \o r
    <3>1. << h >> \in Seq(Delivery)
      OBVIOUS
    <3>2. (<< h >> \o q) \o y = << h >> \o (q \o y)
      <4>1. Associates(<< h >>, q, y)
        BY <1>3, <3>1, Rebracket, Zenon
      <4> QED BY <4>1, Zenon DEF Associates
    <3> QED BY <1>3, <2>3, <2>5, <3>2, Zenon
  <2>7. << h >> \o Queue' = (<< h >> \o r) \o Arrived
    BY <1>3, <2>3, <2>6, Zenon
  <2>8. /\ << h >> \o r # << >> /\ Head(<< h >> \o r) = h
        /\ Queue' = Tail(<< h >> \o r) \o Arrived
    <3>1. PICK q2 \in Seq(Delivery), a \in Seq(Delivery) : q2 = Queue' /\ a = Arrived
      BY <1>3, Zenon
    <3>2. << h >> \o q2 = (<< h >> \o r) \o a
      BY <2>7, <3>1, Zenon
    <3>3. HeadLeaves(h, r, q2, a)
      BY <3>2, QueueHead, Zenon
    <3> QED BY <3>1, <3>3, Zenon DEF HeadLeaves
  <2> QED BY <1>2, <2>4, <2>6, <2>8, Zenon
<1>5. CASE ~descram_flit_valid
  <2>1. Seen(Oldest) = << >>
    BY <1>5, SeenFew DEF Oldest, OneIf
  <2>2. << >> \o Queue' = Queue'
    BY <1>3, ConcatEmptySeq
  <2>3. PutOut' = NoItem
    BY <1>1, <1>5 DEF Reassembler, PutOut
  <2> QED BY <1>2, <1>3, <2>1, <2>2, <2>3, Zenon
<1> QED BY <1>4, <1>5

LEMMA ChannelStarts ==
  /\ Init => Handed = NoItem /\ Queue = << >> /\ PutOut = NoItem
  /\ Reset => Handed' = NoItem /\ Queue' = << >> /\ PutOut' = NoItem
<1>1. (<< >> \o << >>) \o << >> = << >>
  OBVIOUS
<1>2. ASSUME Init PROVE Handed = NoItem /\ Queue = << >> /\ PutOut = NoItem
  <2>1. ~net_in.valid /\ ~net_valid /\ ~descram_flit_valid /\ ~flit_seg_valid /\ Scrambled = << >>
    BY <1>2, NothingScrambled DEF Init, Idle, RxInit, TxInit
  <2>2. InFlight = << >>
    BY <1>1, <2>1 DEF InFlight, OneIf
  <2> QED BY <2>1, <2>2, SeenFew DEF Handed, Queue, PutOut
<1>3. ASSUME Reset PROVE Handed' = NoItem /\ Queue' = << >> /\ PutOut' = NoItem
  <2>1. ~net_in'.valid /\ ~net_valid' /\ ~descram_flit_valid' /\ ~flit_seg_valid' /\ Scrambled' = << >>
    BY <1>3, NothingScrambled DEF Reset, Idle, RxReset, TxReset
  <2>2. InFlight' = << >>
    BY <1>1, <2>1 DEF InFlight, OneIf
  <2> QED BY <2>1, <2>2, SeenFew DEF Handed, Queue, PutOut
<1> QED BY <1>2, <1>3

LEMMA ChannelStutters ==
  UNCHANGED vars => UNCHANGED << Handed, Queue, PutOut >>
<1> SUFFICES ASSUME UNCHANGED vars PROVE UNCHANGED << Handed, Queue, PutOut >>
  OBVIOUS
<1>1. UNCHANGED << InFlight, net_in, net_valid, net_sop, net_data >>
  BY PipeStutters DEF vars, rxVars, net
<1> QED BY <1>1 DEF Handed, Queue, PutOut

LEMMA PacedLoopback ==
  ASSUME Paced, MaxErrs <= T, Lph \notin NetTops
  PROVE  Spec => ImplementsChannel
<1>1. Init => Abstract!Init
  <2> SUFFICES ASSUME Init PROVE Abstract!Init
    OBVIOUS
  <2>1. Handed = NoItem /\ Queue = << >> /\ PutOut = NoItem
    BY ChannelStarts
  <2> QED BY <2>1, Zenon DEF Abstract!Init, Handed, Queue, PutOut, Seen
<1>2. LinkInv /\ ScramInv /\ (LinkInv /\ ScramInv)' /\ [Next]_vars => [Abstract!Next]_(Abstract!vars)
  <2> SUFFICES ASSUME LinkInv, ScramInv, (LinkInv /\ ScramInv)', [Next]_vars
               PROVE  [Abstract!Next]_(Abstract!vars)
    OBVIOUS
  <2>0. /\ Abstract!Hold <=> /\ Handed' \in Delivery \cup {NoItem}
                             /\ Queue' = Queue \o Arrived /\ PutOut' = NoItem
        /\ Abstract!Deliver <=> /\ Queue # << >> /\ Handed' \in Delivery \cup {NoItem}
                                /\ Queue' = Tail(Queue) \o Arrived /\ PutOut' = Head(Queue)
        /\ Abstract!Reset <=> Handed' = NoItem /\ Queue' = << >> /\ PutOut' = NoItem
        /\ UNCHANGED << Handed, Queue, PutOut >> => UNCHANGED Abstract!vars
    BY Zenon DEF Abstract!Hold, Abstract!Deliver, Abstract!Reset, Abstract!Entering, Abstract!vars,
                 Handed, Queue, PutOut, Seen, Arrived, Delivery
  <2>1. ASSUME NEW in \in NetInput, NEW e \in 0 .. MaxErrs, Clk(in, e)
        PROVE  Abstract!Hold \/ Abstract!Deliver
    <3>1. /\ Handed' \in Delivery \cup {NoItem}
          /\ \/ Queue' = Queue \o Arrived /\ PutOut' = NoItem
             \/ /\ Queue # << >> /\ Queue' = Tail(Queue) \o Arrived
                /\ PutOut' = Head(Queue)
      BY <2>1, ChannelEdge
    <3> QED BY <2>0, <3>1, Zenon
  <2>2. ASSUME Reset PROVE Abstract!Reset
    BY <2>0, <2>2, ChannelStarts, Zenon
  <2>3. ASSUME UNCHANGED vars PROVE UNCHANGED Abstract!vars
    BY <2>0, <2>3, ChannelStutters, Zenon
  <2>4. Abstract!Next \/ UNCHANGED Abstract!vars
    BY <2>1, <2>2, <2>3, Zenon DEF Next, AnyClk, Abstract!Next
  <2> QED BY <2>4 DEF Abstract!vars
<1> QED BY <1>1, <1>2, LinkAlways, PTL DEF Spec, ImplementsChannel, Abstract!Spec

(* The loopback implements a channel that delivers every flit once, in     *)
(* order, with its payload and its SOP mark, for any number of flits per   *)
(* codeword and of lane cycles, any LFSR and any correction capability, as *)
(* long as the channel's errors are within it, codewords are at least      *)
(* Spacing apart and no payload word looks like a header.                  *)
THEOREM LoopbackIsLossless ==
  ASSUME Spacing >= 11, Spacing >= FlitsPerCw + 9, Spacing >= BeatsPerCw + 1,
         MaxErrs <= T, Lph \notin NetTops
  PROVE  Spec => ImplementsChannel
<1>1. Paced
  BY DEF Paced
<1> QED BY <1>1, PacedLoopback

(* On a line without errors it does so at the full rate of the lanes: a    *)
(* source that never overruns the serialiser (PacedSourceNeverOverruns)    *)
(* has every flit delivered, with the slices of one codeword behind those  *)
(* of the other and the decoder's port changing under it in each cycle.    *)
THEOREM LoopbackAtLineRate ==
  ASSUME Spacing >= BeatsPerCw, Spacing >= 5, MaxErrs = 0, Lph \notin NetTops
  PROVE  Spec => ImplementsChannel
<1>1. Paced /\ MaxErrs <= T
  BY DEF Paced
<1> QED BY <1>1, PacedLoopback
=============================================================================
