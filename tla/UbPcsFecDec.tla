---------------------------- MODULE UbPcsFecDec ----------------------------
(***************************************************************************)
(* rtl/pcs/ub_pcs_fec_dec.v with the three blocks it instantiates: the     *)
(* combinational syndromes, the four-cycle inversionless Berlekamp-Massey  *)
(* solver and the two-cycle Chien/Forney search.  The arithmetic is        *)
(* abstracted to which word a result was computed from; the control is     *)
(* cycle accurate.                                                         *)
(*                                                                         *)
(* The syndromes are those of the INPUT port, not of cw_reg: the solver    *)
(* captures them when it sees ibm_start, one cycle after the word was      *)
(* accepted, so the port must not have moved by then.                      *)
(***************************************************************************)
EXTENDS UbPcsCodeword

CONSTANTS
  NoPattern,  \* error_magnitudes = 0, and a locator not yet solved
  Inputs      \* the words the input port may hold

ASSUME DecAssumption == Inputs # {}

\* Fault: one iteration cycle more.
LastIbmCycleLate == 4

LastIbmCycle == 3

VARIABLES
  state, cw_reg, syndromes_zero_q,
  msg_out, valid_out, fec_fail,
  ibm_start, chien_start,                   \* registered start pulses
  ibm_s, ibm_active, ibm_done, cycle_cnt,   \* ub_pcs_fec_ibm
  lambda,                                   \* word whose error locator is solved
  chien_eval, chien_active, chien_done,     \* ub_pcs_fec_chien_forney
  error_magnitudes                          \* word whose error pattern this is

\* The input port of the decoder as its environment drives it.
VARIABLES cw_in, valid_in

control == << state, cw_reg, syndromes_zero_q, ibm_start, chien_start >>
output == << msg_out, valid_out, fec_fail >>
ibm == << ibm_s, ibm_active, ibm_done, cycle_cnt, lambda >>
chien == << chien_eval, chien_active, chien_done, error_magnitudes >>
decVars == << control, output, ibm, chien >>
port == << cw_in, valid_in >>
vars == << decVars, port >>

-----------------------------------------------------------------------------
(* ub_pcs_fec_dec.v: the state machine.  The default assignments at the    *)
(* top of the always block clear the pulses.                               *)

\* Fault: no short cut for a clean word.
AcceptCleanSolved ==
  /\ state = "IDLE" /\ valid_in /\ SyndromesZero(cw_in)
  /\ cw_reg' = cw_in /\ syndromes_zero_q' = TRUE
  /\ state' = "IBM"
  /\ ibm_start' = TRUE /\ chien_start' = FALSE /\ valid_out' = FALSE
  /\ UNCHANGED << msg_out, fec_fail >>

AcceptClean ==
  /\ state = "IDLE" /\ valid_in /\ SyndromesZero(cw_in)
  /\ cw_reg' = cw_in /\ syndromes_zero_q' = TRUE
  /\ state' = "DONE"
  /\ ibm_start' = FALSE /\ chien_start' = FALSE /\ valid_out' = FALSE
  /\ UNCHANGED << msg_out, fec_fail >>

\* Fault: syndromes_zero_q is set by a clean word and never cleared.
AcceptErroredSticky ==
  /\ state = "IDLE" /\ valid_in /\ ~SyndromesZero(cw_in)
  /\ cw_reg' = cw_in /\ UNCHANGED syndromes_zero_q
  /\ state' = "IBM"
  /\ ibm_start' = TRUE /\ chien_start' = FALSE /\ valid_out' = FALSE
  /\ UNCHANGED << msg_out, fec_fail >>

AcceptErrored ==
  /\ state = "IDLE" /\ valid_in /\ ~SyndromesZero(cw_in)
  /\ cw_reg' = cw_in /\ syndromes_zero_q' = FALSE
  /\ state' = "IBM"
  /\ ibm_start' = TRUE /\ chien_start' = FALSE /\ valid_out' = FALSE
  /\ UNCHANGED << msg_out, fec_fail >>

\* Nothing offered, or a block has not finished: the pulses fall, and a
\* word offered while the decoder is not idle is ignored.
Wait ==
  /\ \/ state = "IDLE" /\ ~valid_in
     \/ state = "IBM" /\ ~ibm_done
     \/ state = "CHIEN" /\ ~chien_done
  /\ ibm_start' = FALSE /\ chien_start' = FALSE /\ valid_out' = FALSE
  /\ UNCHANGED << state, cw_reg, syndromes_zero_q, msg_out, fec_fail >>

\* Fault: the search is waited for and never started.
SolvedUnstarted ==
  /\ state = "IBM" /\ ibm_done
  /\ state' = "CHIEN"
  /\ chien_start' = FALSE /\ ibm_start' = FALSE /\ valid_out' = FALSE
  /\ UNCHANGED << cw_reg, syndromes_zero_q, msg_out, fec_fail >>

Solved ==
  /\ state = "IBM" /\ ibm_done
  /\ state' = "CHIEN"
  /\ chien_start' = TRUE /\ ibm_start' = FALSE /\ valid_out' = FALSE
  /\ UNCHANGED << cw_reg, syndromes_zero_q, msg_out, fec_fail >>

Searched ==
  /\ state = "CHIEN" /\ chien_done
  /\ state' = "DONE"
  /\ ibm_start' = FALSE /\ chien_start' = FALSE /\ valid_out' = FALSE
  /\ UNCHANGED << cw_reg, syndromes_zero_q, msg_out, fec_fail >>

Deliver ==
  /\ state = "DONE"
  /\ msg_out' = IF syndromes_zero_q THEN MsgBytes(cw_reg)
                                    ELSE Corrected(cw_reg, error_magnitudes)
  /\ valid_out' = TRUE /\ fec_fail' = FALSE
  /\ state' = "IDLE"
  /\ ibm_start' = FALSE /\ chien_start' = FALSE
  /\ UNCHANGED << cw_reg, syndromes_zero_q >>

Fsm == AcceptClean \/ AcceptErrored \/ Wait \/ Solved \/ Searched \/ Deliver

-----------------------------------------------------------------------------
(* ub_pcs_fec_ibm.v: start has priority, then two iterations per cycle;    *)
(* the locator is complete after the cycle with cycle_cnt = 3.             *)

IbmStart ==
  /\ ibm_start
  /\ ibm_s' = cw_in
  /\ ibm_active' = TRUE /\ ibm_done' = FALSE /\ cycle_cnt' = 0
  /\ lambda' = NoPattern

IbmIterate ==
  /\ ~ibm_start /\ ibm_active
  /\ ibm_active' = (cycle_cnt # LastIbmCycle)
  /\ ibm_done' = IF cycle_cnt = LastIbmCycle THEN TRUE ELSE ibm_done
  /\ cycle_cnt' = IF cycle_cnt = LastIbmCycle THEN cycle_cnt ELSE cycle_cnt + 1
  /\ lambda' = IF cycle_cnt = LastIbmCycle THEN ibm_s ELSE NoPattern
  /\ UNCHANGED ibm_s

IbmRest ==
  /\ ~ibm_start /\ ~ibm_active
  /\ ibm_done' = FALSE
  /\ UNCHANGED << ibm_s, ibm_active, cycle_cnt, lambda >>

Ibm == IbmStart \/ IbmIterate \/ IbmRest

-----------------------------------------------------------------------------
(* ub_pcs_fec_chien_forney.v: one cycle to evaluate the locator, one to    *)
(* compute the magnitudes.                                                 *)

ChienStart ==
  /\ chien_start
  /\ chien_active' = TRUE /\ chien_done' = FALSE
  /\ chien_eval' = lambda
  /\ UNCHANGED error_magnitudes

ChienMagnitudes ==
  /\ ~chien_start /\ chien_active
  /\ chien_active' = FALSE /\ chien_done' = TRUE
  /\ error_magnitudes' = chien_eval
  /\ UNCHANGED chien_eval

ChienRest ==
  /\ ~chien_start /\ ~chien_active
  /\ chien_done' = FALSE
  /\ UNCHANGED << chien_eval, chien_active, error_magnitudes >>

Chien == ChienStart \/ ChienMagnitudes \/ ChienRest

-----------------------------------------------------------------------------
DecInit ==
  /\ state = "IDLE" /\ cw_reg = ZeroWord /\ syndromes_zero_q = FALSE
  /\ msg_out = ZeroMessage /\ valid_out = FALSE /\ fec_fail = FALSE
  /\ ibm_start = FALSE /\ chien_start = FALSE
  /\ ibm_s = ZeroWord /\ ibm_active = FALSE /\ ibm_done = FALSE
  /\ cycle_cnt = 0 /\ lambda = NoPattern
  /\ chien_eval = NoPattern /\ chien_active = FALSE /\ chien_done = FALSE
  /\ error_magnitudes = NoPattern

DecReset ==
  /\ state' = "IDLE" /\ cw_reg' = ZeroWord /\ syndromes_zero_q' = FALSE
  /\ msg_out' = ZeroMessage /\ valid_out' = FALSE /\ fec_fail' = FALSE
  /\ ibm_start' = FALSE /\ chien_start' = FALSE
  /\ ibm_s' = ZeroWord /\ ibm_active' = FALSE /\ ibm_done' = FALSE
  /\ cycle_cnt' = 0 /\ lambda' = NoPattern
  /\ chien_eval' = NoPattern /\ chien_active' = FALSE /\ chien_done' = FALSE
  /\ error_magnitudes' = NoPattern

\* One clock edge of the decoder, from the port's present values.
DecClk == Fsm /\ Ibm /\ Chien

-----------------------------------------------------------------------------
(* The decoder alone: before every edge the environment drives its port    *)
(* with any word, valid or not.                                            *)

Init == DecInit /\ cw_in \in Inputs /\ valid_in \in BOOLEAN

DrivePort == cw_in' \in Inputs /\ valid_in' \in BOOLEAN

Clk == DecClk /\ DrivePort

Reset == DecReset /\ DrivePort

Next == Clk \/ Reset

Spec == Init /\ [][Next]_vars

\* The clock keeps running.
FairSpec == Spec /\ WF_vars(Clk)

-----------------------------------------------------------------------------
Maybe(S) == S \cup {NoPattern}

(* Every register has its type; the solver's counter stops at its last     *)
(* cycle, and what the blocks hand on are words that came in.              *)
TypeOK ==
  /\ state \in {"IDLE", "IBM", "CHIEN", "DONE"}
  /\ cw_reg \in Inputs \cup {ZeroWord}
  /\ syndromes_zero_q \in BOOLEAN
  /\ valid_out \in BOOLEAN /\ fec_fail \in BOOLEAN
  /\ ibm_start \in BOOLEAN /\ chien_start \in BOOLEAN
  /\ ibm_s \in Inputs \cup {ZeroWord}
  /\ ibm_active \in BOOLEAN /\ ibm_done \in BOOLEAN
  /\ cycle_cnt \in 0 .. LastIbmCycle
  /\ lambda \in Maybe(Inputs \cup {ZeroWord})
  /\ chien_eval \in Maybe(Inputs \cup {ZeroWord})
  /\ chien_active \in BOOLEAN /\ chien_done \in BOOLEAN
  /\ error_magnitudes \in Maybe(Inputs \cup {ZeroWord})
  /\ cw_in \in Inputs /\ valid_in \in BOOLEAN

(* What the decoder puts out is the message of the word it accepted, if it *)
(* was a codeword, or had at most T byte errors and stayed on the port for *)
(* one more cycle so that the solver captured its syndromes.  cw_reg and   *)
(* ibm_s still belong to that word when valid_out is high.                 *)
Faithful ==
  valid_out /\ Correctable(cw_reg) /\ (SyndromesZero(cw_reg) \/ ibm_s = cw_reg)
    => msg_out = MsgOf(cw_reg)

(* The decoder always becomes idle again: the start and done pulses that    *)
(* hand a word from block to block are never lost, whatever the port does   *)
(* meanwhile.  Only Deliver and reset lead back to IDLE.                    *)
BecomesIdle == state # "IDLE" ~> state = "IDLE"
=============================================================================
