---------------------------- MODULE UbPcsLanes -----------------------------
(***************************************************************************)
(* Symbols of codewords on lanes: the golden model of lane distribution    *)
(* for one codeword or two interleaved ones, the reference netlists that   *)
(* distribute one PMA word of every lane at a time, and the wiring of      *)
(* rtl/pcs between encoder and decoder, with its Gray coding.              *)
(*                                                                         *)
(* Words, lanes and codewords are functions from 0, the symbol that is     *)
(* lowest in the code's integers first.                                    *)
(***************************************************************************)
EXTENDS Integers

CONSTANTS
  LaneN,        \* symbols of a codeword
  Spl,          \* symbols of a PMA word
  RtlPairs      \* 2-bit pairs that rtl/pcs puts on its 4 lanes in a cycle

LaneNums == {1, 2, 4, 8}

ASSUME LanesAssumption ==
  /\ LaneN \in Nat /\ Spl \in Nat \ {0} /\ RtlPairs \in Nat /\ RtlPairs % 4 = 0
  /\ \A ln \in LaneNums : LaneN % (ln * Spl) = 0

VARIABLES
  lane_num, codec   \* a configuration of UbPcsLaneDist

lanesVars == << lane_num, codec >>

-----------------------------------------------------------------------------
\* The symbols of two codewords, all of them different.
CA == [k \in 0 .. LaneN - 1 |-> << "a", k >>]
CB == [k \in 0 .. LaneN - 1 |-> << "b", k >>]

Even(i) == i % 2 = 0

(* One codeword.                                                           *)

Place(ln, i, j) == (LaneN - 1) - i * ln - j

DistNonInterleaved(ca, ln) ==
  [j \in 0 .. ln - 1 |-> [i \in 0 .. LaneN \div ln - 1 |-> ca[Place(ln, i, j)]]]

RecNonInterleaved(lanes, ln) ==
  [k \in 0 .. LaneN - 1 |->
     LET at == CHOOSE at \in (0 .. LaneN \div ln - 1) \X (0 .. ln - 1) :
                 Place(ln, at[1], at[2]) = k
     IN lanes[at[2]][at[1]]]

(* Two codewords: on one lane they take turns, on a pair of lanes both go  *)
(* out at once and change lanes from one symbol to the next.               *)

OwnTurn(ln, i, j) == IF ln = 1 THEN Even(i) ELSE Even(i + j)

PairPlace(ln, i, j) ==
  IF ln = 1 THEN (LaneN - 1) - i \div 2
            ELSE (LaneN - 1) - i * (ln \div 2) - j \div 2

DistInterleaved(ca, cb, ln) ==
  [j \in 0 .. ln - 1 |->
     [i \in 0 .. (2 * LaneN) \div ln - 1 |->
        IF OwnTurn(ln, i, j) THEN ca[PairPlace(ln, i, j)] ELSE cb[PairPlace(ln, i, j)]]]

\* The symbols of the codeword whose turn it is where OwnTurn is own.
RecInterleaved(lanes, ln, own) ==
  [k \in 0 .. LaneN - 1 |->
     LET at == CHOOSE at \in (0 .. (2 * LaneN) \div ln - 1) \X (0 .. ln - 1) :
                 PairPlace(ln, at[1], at[2]) = k /\ OwnTurn(ln, at[1], at[2]) = own
     IN lanes[at[2]][at[1]]]

Distribute ==
  IF codec = 1 THEN DistNonInterleaved(CA, lane_num) ELSE DistInterleaved(CA, CB, lane_num)

Recover(lanes) ==
  IF codec = 1 THEN << RecNonInterleaved(lanes, lane_num) >>
  ELSE << RecInterleaved(lanes, lane_num, TRUE), RecInterleaved(lanes, lane_num, FALSE) >>

(* PMA words.                                                              *)

LaneLength == (codec * LaneN) \div lane_num

PackLaneWords(lanes) ==
  [j \in 0 .. lane_num - 1 |->
     [w \in 0 .. LaneLength \div Spl - 1 |-> [s \in 0 .. Spl - 1 |-> lanes[j][w * Spl + s]]]]

UnpackLaneWords(words) ==
  [j \in 0 .. lane_num - 1 |-> [i \in 0 .. LaneLength - 1 |-> words[j][i \div Spl][i % Spl]]]

-----------------------------------------------------------------------------
(* formal/pcs/ref: one word of each lane, side by side.                    *)

RefDistForward(window, ln) ==        \* fault: symbol 0 first
  [out \in 0 .. ln * Spl - 1 |-> window[(out % Spl) * ln + out \div Spl]]

RefDist(window, ln) ==
  [out \in 0 .. ln * Spl - 1 |->
     window[(ln * Spl - 1) - (out % Spl) * ln - out \div Spl]]

RefDedist(words, ln) ==
  [src \in 0 .. ln * Spl - 1 |->
     LET back == (ln * Spl - 1) - src
     IN words[(back % ln) * Spl + back \div ln]]

\* The part of a codeword that goes out as the w-th words.
Window(ca, ln, w) ==
  [k \in 0 .. ln * Spl - 1 |-> ca[LaneN - (w + 1) * ln * Spl + k]]

-----------------------------------------------------------------------------
(* rtl/pcs: pairs of bits, Gray coded, on four lanes.                      *)

Gray(pair)   == << pair[1], (pair[1] + pair[2]) % 2 >>
Degray(symb) == << symb[1], (symb[1] + symb[2]) % 2 >>

RtlLaneDist(data) ==
  [l \in 0 .. 3 |-> [g \in 0 .. RtlPairs \div 4 - 1 |-> Gray(data[g * 4 + l])]]

RtlLaneDedist(lanes) ==
  [p \in 0 .. RtlPairs - 1 |-> Degray(lanes[p % 4][p \div 4])]

-----------------------------------------------------------------------------
LanesInit == lane_num = 1 /\ codec = 1

\* A link of another width.
LanesNext == lane_num' \in LaneNums /\ codec' \in {1, 2}

LanesSpec == LanesInit /\ [][LanesNext]_lanesVars

(* For each number of lanes and codewords every symbol comes out at the    *)
(* far end in its place; two codewords share a burst on a lane, as no      *)
(* neighbours on it are of the same one; the netlists the product is       *)
(* compared with put the words on the lanes that the model does, and take  *)
(* them off again; the lanes of rtl/pcs give back what they were given.    *)
LanesCarryAll ==
  /\ Recover(UnpackLaneWords(PackLaneWords(Distribute)))
       = IF codec = 1 THEN << CA >> ELSE << CA, CB >>
  /\ codec = 2 =>
       \A j \in 0 .. lane_num - 1, i \in 1 .. LaneLength - 1 :
         Distribute[j][i][1] # Distribute[j][i - 1][1]
  /\ codec = 1 =>
       \A w \in 0 .. LaneLength \div Spl - 1 :
         LET window == Window(CA, lane_num, w)
         IN /\ RefDedist(RefDist(window, lane_num), lane_num) = window
            /\ \A j \in 0 .. lane_num - 1, s \in 0 .. Spl - 1 :
                 PackLaneWords(Distribute)[j][w][s] = RefDist(window, lane_num)[j * Spl + s]
  /\ \A pair \in {0, 1} \X {0, 1} :
       LET data == [p \in 0 .. RtlPairs - 1 |-> IF p % 3 = 0 THEN pair ELSE << 1, 0 >>]
       IN RtlLaneDedist(RtlLaneDist(data)) = data
=============================================================================
