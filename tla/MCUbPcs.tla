------------------------------ MODULE MCUbPcs ------------------------------
(***************************************************************************)
(* The PCS and the block CRC alone for TLC, one run for all of them: a     *)
(* behaviour is one of the transmitter, one of the decoder, or one of a    *)
(* golden model and its netlists, and the others stay as they are after    *)
(* reset.                                                                  *)
(***************************************************************************)
EXTENDS UbControllerTx, UbPcsFecDec, UbDllBcrc, UbPcsFec, UbPcsLanes

VARIABLE part

allVars == << txVars, vars, bcrcVars, fecVars, lanesVars, part >>

TxPart    == part = "tx"    /\ TxNext    /\ UNCHANGED << vars, bcrcVars, fecVars, lanesVars, part >>
DecPart   == part = "dec"   /\ Next      /\ UNCHANGED << txVars, bcrcVars, fecVars, lanesVars, part >>
DecClock  == part = "dec"   /\ Clk       /\ UNCHANGED << txVars, bcrcVars, fecVars, lanesVars, part >>
BcrcPart  == part = "bcrc"  /\ BcrcNext  /\ UNCHANGED << txVars, vars, fecVars, lanesVars, part >>
FecPart   == part = "fec"   /\ FecNext   /\ UNCHANGED << txVars, vars, bcrcVars, lanesVars, part >>
LanesPart == part = "lanes" /\ LanesNext /\ UNCHANGED << txVars, vars, bcrcVars, fecVars, part >>

MCBody == 0 .. 2
MCTops == {"00000000"}

(***************************************************************************)
(* Two messages, words with up to T + 1 byte errors, and a word the        *)
(* receiver assembles across two codewords.                                *)
(***************************************************************************)
MsgN(n) == [i \in 1 .. FlitsPerCw |-> [top |-> "00000000", body |-> n, inv |-> FALSE]]

WordN(n, e) ==
  [i \in SliceIndex |-> [msg |-> MsgN(n), idx |-> i, err |-> IF i = 0 THEN e ELSE 0]]

\* One slice late: the last slices of message 1, then the first of message 2.
ShiftedWord ==
  [i \in SliceIndex |->
     IF i = BeatsPerCw - 1 THEN [msg |-> MsgN(2), idx |-> 0, err |-> 0]
                           ELSE [msg |-> MsgN(1), idx |-> i + 1, err |-> 0]]

MCWords == {WordN(1, 0), WordN(1, T), WordN(2, T), WordN(2, T + 1), ShiftedWord}
(***************************************************************************)
(* A remainder of two bits, as many flits as tell data from words; one     *)
(* message of two symbols of GF(8), and every error in up to three of the  *)
(* six symbols of its codeword, one more than can be corrected.            *)
(***************************************************************************)
MCTaps == << 1, 1 >>

MCFlits ==
  {[data |-> << 0, d >>, word |-> [crc |-> << a, 1 >>, error_flag |-> XorBit(d, a)]] : d, a \in Bit}

MCMessages == {<< 3, 5 >>}

MCErrors ==
  {e \in [1 .. FecN -> {0, 1, 6, 7}] : Cardinality({p \in 1 .. FecN : e[p] # 0}) <= 3}
-----------------------------------------------------------------------------
PcsInit ==
  /\ part \in {"tx", "dec", "bcrc", "fec", "lanes"}
  /\ TxInit /\ Init /\ BcrcInit /\ FecInit /\ LanesInit
  /\ part # "dec" => cw_in = WordN(1, 0) /\ ~valid_in

\* The clock keeps running.
PcsSpec ==
  PcsInit /\ [][TxPart \/ DecPart \/ BcrcPart \/ FecPart \/ LanesPart]_allVars
          /\ WF_allVars(DecClock)
=============================================================================
