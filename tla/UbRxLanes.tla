----------------------------- MODULE UbRxLanes -----------------------------
(***************************************************************************)
(* The receiver fed by a lane side that sends whole codewords, slice after *)
(* slice with gaps anywhere, at most MaxLaneErrs byte errors in each.  The *)
(* last slices of two consecutive codewords are at least CwSpacing cycles  *)
(* apart, and a codeword is followed by LaneGap idle cycles.               *)
(* Asks how far apart codewords must come for the receiver to lose none:   *)
(* its decoder ignores a word offered while it is busy, its solver reads   *)
(* the accumulator a cycle late, and its de-accumulator is reloaded        *)
(* whatever it still holds.                                                *)
(***************************************************************************)
EXTENDS UbControllerRx

CONSTANTS
  CwSpacing,   \* cycles between the last slices of two codewords
  LaneGap,     \* idle cycles after the last slice of a codeword
  MaxLaneErrs, \* byte errors the channel puts on one codeword
  NumCws       \* codewords are numbered modulo NumCws

ASSUME LaneAssumption ==
  /\ CwSpacing \in Nat \ {0}
  /\ LaneGap \in 0 .. CwSpacing - 1
  /\ MaxLaneErrs \in Nat
  /\ NumCws \in Nat \ {0}
  /\ 0 .. NumCws - 1 \subseteq Body

VARIABLES
  lane_cw,     \* number of the codeword being sent
  lane_idx,    \* its next slice
  lane_errs,   \* byte errors put on it so far
  lane_hold    \* cycles before a codeword may be completed again

lanes == << lane_cw, lane_idx, lane_errs, lane_hold >>
laneVars == << rxVars, lanes >>

CwMessage(n) == [i \in 1 .. FlitsPerCw |-> [top |-> "00000000", body |-> n, inv |-> FALSE]]

IdleSlice == [msg |-> ZeroMessage, idx |-> 0, err |-> 0]

NoSlice ==
  /\ lane_hold' = IF lane_hold = 0 THEN 0 ELSE lane_hold - 1
  /\ UNCHANGED << lane_cw, lane_idx, lane_errs >>
  /\ RxClk(FALSE, IdleSlice)

MiddleSlice(e) ==
  /\ lane_errs + e <= MaxLaneErrs
  /\ lane_idx # BeatsPerCw - 1
  /\ lane_idx = 0 => lane_hold < CwSpacing - LaneGap
  /\ lane_idx' = lane_idx + 1
  /\ lane_errs' = lane_errs + e
  /\ lane_hold' = IF lane_hold = 0 THEN 0 ELSE lane_hold - 1
  /\ UNCHANGED lane_cw
  /\ RxClk(TRUE, [msg |-> CwMessage(lane_cw), idx |-> lane_idx, err |-> e])

LastSlice(e) ==
  /\ lane_errs + e <= MaxLaneErrs
  /\ lane_idx = BeatsPerCw - 1
  /\ lane_hold = 0
  /\ lane_cw' = (lane_cw + 1) % NumCws
  /\ lane_idx' = 0
  /\ lane_errs' = 0
  /\ lane_hold' = CwSpacing - 1
  /\ RxClk(TRUE, [msg |-> CwMessage(lane_cw), idx |-> lane_idx, err |-> e])

LaneReset ==
  /\ RxReset
  /\ lane_cw' = 0 /\ lane_idx' = 0 /\ lane_errs' = 0 /\ lane_hold' = 0

LaneInit ==
  /\ RxInit
  /\ lane_cw = 0 /\ lane_idx = 0 /\ lane_errs = 0 /\ lane_hold = 0

LaneNext ==
  \/ NoSlice
  \/ \E e \in 0 .. MaxLaneErrs : MiddleSlice(e) \/ LastSlice(e)
  \/ LaneReset

LaneSpec == LaneInit /\ [][LaneNext]_laneVars

-----------------------------------------------------------------------------
(* Every codeword the accumulator completes is accepted by the decoder.    *)
NoWordDropped == fec_cw_valid => state = "IDLE"

(* The solver captures the syndromes of the word the decoder accepted, not *)
(* of the accumulator's next contents.                                     *)
SolverSeesWord == ibm_start => fec_cw = cw_reg

(* A decoded message is loaded only when the one before it is emitted.     *)
NoMessageOverwritten == valid_out /\ flits_active => flit_cnt = FlitsPerCw - 1
=============================================================================
