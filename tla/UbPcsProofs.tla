---------------------------- MODULE UbPcsProofs -----------------------------
(***************************************************************************)
(* Proofs about UbPcsLanes, UbDllBcrc and UbPcsFecDec, one after the other. *)
(*                                                                         *)
(* Lanes: for any length of codewords and words, by division with          *)
(* remainder.                                                              *)
(* Block CRC: for any polynomial, flits and length of blocks the reference *)
(* netlist does as the streamed model does, its word is the remainder over *)
(* the last block, and its verdict is about that block.  That a remainder  *)
(* can be continued is proved by induction over the bits.                  *)
(* Decoder: for any code and any words on its port, its types, and that it *)
(* is faithful.  The invariant behind the latter says that of the start,   *)
(* active and done flags of the two blocks exactly one is up while the state *)
(* machine waits for a block, and none otherwise, so that the one word     *)
(* solved is the one the state machine waits for.  The same flags are a    *)
(* countdown of ten cycles at most, after which it is idle again.          *)
(***************************************************************************)
EXTENDS UbPcsFecDec, UbDllBcrc, UbPcsLanes, UbFoldProofs

-----------------------------------------------------------------------------
(***************************************************************************)
(* Division by a positive number.                                          *)
(***************************************************************************)
LEMMA DivMod ==
  ASSUME NEW i \in Nat, NEW d \in Nat \ {0}
  PROVE  i \div d \in Nat /\ i % d \in 0 .. d - 1 /\ i = d * (i \div d) + (i % d)
  OBVIOUS

LEMMA DivBelow ==
  ASSUME NEW d \in Nat \ {0}, NEW m \in Nat, NEW i \in 0 .. d * m - 1
  PROVE  i \div d \in 0 .. m - 1
<1>1. i \div d \in Nat /\ i = d * (i \div d) + (i % d) /\ i % d >= 0
  BY DivMod
<1>2. ASSUME i \div d >= m PROVE FALSE
  <2> DEFINE q == i \div d
  <2>1. d * q >= d * m
    BY <1>1, <1>2
  <2> QED BY <1>1, <2>1
<1> QED BY <1>1, <1>2

LEMMA DivUnique ==
  ASSUME NEW d \in Nat \ {0}, NEW q \in Nat, NEW r \in 0 .. d - 1
  PROVE  (q * d + r) \div d = q /\ (q * d + r) % d = r
<1> DEFINE i == q * d + r
<1>0. i \in Nat
  OBVIOUS
<1>1. i \div d \in Nat /\ i = d * (i \div d) + (i % d) /\ i % d \in 0 .. d - 1
  BY <1>0, DivMod
<1> QED BY <1>1

USE DEF LaneNums

(***************************************************************************)
(* Lanes are a whole number of PMA words.                                  *)
(***************************************************************************)
LEMMA PackUnpack ==
  ASSUME NEW M \in Nat, LaneLength = Spl * M, NEW lanes,
         DOMAIN lanes = 0 .. lane_num - 1, lanes = [j \in 0 .. lane_num - 1 |-> lanes[j]],
         \A j \in 0 .. lane_num - 1 : lanes[j] = [i \in 0 .. LaneLength - 1 |-> lanes[j][i]]
  PROVE  /\ UnpackLaneWords(PackLaneWords(lanes)) = lanes
         /\ LaneLength \div Spl = M
<1> USE LanesAssumption
<1>1. LaneLength \div Spl = M
  <2>1. 0 \in 0 .. Spl - 1 /\ M * Spl + 0 = Spl * M
    OBVIOUS
  <2>2. (M * Spl + 0) \div Spl = M
    BY <2>1, DivUnique
  <2> QED BY <2>1, <2>2
<1>2. ASSUME NEW j \in 0 .. lane_num - 1, NEW i \in 0 .. LaneLength - 1
      PROVE  UnpackLaneWords(PackLaneWords(lanes))[j][i] = lanes[j][i]
  <2>1. i \div Spl \in 0 .. M - 1 /\ i % Spl \in 0 .. Spl - 1
    BY DivMod, DivBelow
  <2>2. (i \div Spl) * Spl + (i % Spl) = i
    BY DivMod
  <2>3. PackLaneWords(lanes)[j][i \div Spl][i % Spl] = lanes[j][(i \div Spl) * Spl + (i % Spl)]
    BY <1>1, <2>1 DEF PackLaneWords
  <2> QED BY <2>2, <2>3 DEF UnpackLaneWords
<1>3. UnpackLaneWords(PackLaneWords(lanes))
        = [j \in 0 .. lane_num - 1 |-> [i \in 0 .. LaneLength - 1 |-> lanes[j][i]]]
  <2>1. UnpackLaneWords(PackLaneWords(lanes)) =
          [j \in 0 .. lane_num - 1 |-> [i \in 0 .. LaneLength - 1 |->
             UnpackLaneWords(PackLaneWords(lanes))[j][i]]]
    BY DEF UnpackLaneWords
  <2> QED BY <1>2, <2>1
<1> QED BY <1>1, <1>3

LEMMA LaneSizes ==
  ASSUME NEW ln \in LaneNums
  PROVE  \E M \in Nat :
           /\ LaneN = ln * (Spl * M)
           /\ LaneN \div ln = Spl * M
           /\ (2 * LaneN) \div ln = Spl * (2 * M)
<1> USE LanesAssumption
<1> DEFINE d == ln * Spl
<1>1. LaneN % d = 0 /\ d \in Nat \ {0}
  OBVIOUS
<1> DEFINE M == LaneN \div d
<1>2. M \in Nat /\ LaneN = d * M + (LaneN % d)
  BY <1>1, DivMod
<1>3. LaneN = ln * (Spl * M)
  <2> HIDE DEF M
  <2> QED BY <1>1, <1>2
<1> HIDE DEF M
<1> DEFINE Q == Spl * M
<1>4. Q \in Nat /\ LaneN = Q * ln + 0 /\ 2 * LaneN = (2 * Q) * ln + 0
      /\ ln \in Nat \ {0} /\ 0 \in 0 .. ln - 1 /\ 2 * Q \in Nat
  BY <1>2, <1>3
<1>5. 2 * Q = Spl * (2 * M)
  BY <1>2
<1> HIDE DEF Q
<1>6. (Q * ln + 0) \div ln = Q /\ ((2 * Q) * ln + 0) \div ln = 2 * Q
  BY <1>4, DivUnique
<1>7. LaneN \div ln = Q /\ (2 * LaneN) \div ln = 2 * Q
  BY <1>4, <1>6
<1>8. LaneN \div ln = Spl * M /\ (2 * LaneN) \div ln = Spl * (2 * M)
  BY <1>5, <1>7 DEF Q
<1> QED BY <1>2, <1>3, <1>8

(***************************************************************************)
(* Every place of a codeword is on some lane: one codeword, then two.      *)
(***************************************************************************)
LEMMA OneCodeword ==
  ASSUME NEW ln \in LaneNums, NEW ca, ca = [k \in 0 .. LaneN - 1 |-> ca[k]]
  PROVE  RecNonInterleaved(DistNonInterleaved(ca, ln), ln) = ca
<1> DEFINE I == 0 .. LaneN \div ln - 1
           J == 0 .. ln - 1
           at(k) == CHOOSE at \in I \X J : Place(ln, at[1], at[2]) = k
           lanes == DistNonInterleaved(ca, ln)
<1>0. PICK P \in Nat : LaneN = ln * P /\ LaneN \div ln = P
  <2>1. \A M \in Nat : Spl * M \in Nat
    BY LanesAssumption
  <2> QED BY <2>1, LaneSizes
<1>1. ASSUME NEW k \in 0 .. LaneN - 1
      PROVE  lanes[at(k)[2]][at(k)[1]] = ca[k]
  <2> DEFINE back == LaneN - 1 - k
  <2>1. back \in Nat /\ back \in 0 .. ln * P - 1 /\ ln \in Nat \ {0}
    BY <1>0, LanesAssumption
  <2>2. back \div ln \in I /\ back % ln \in J /\ (back \div ln) * ln + (back % ln) = back
    <3> HIDE DEF back
    <3>1. back \div ln \in 0 .. P - 1
      BY <2>1, DivBelow
    <3>2. back % ln \in J /\ back \div ln \in Nat /\ back = ln * (back \div ln) + (back % ln)
      BY <2>1, DivMod
    <3> QED BY <1>0, <2>1, <3>1, <3>2
  <2>3. Place(ln, back \div ln, back % ln) = k
    <3> DEFINE q == (back \div ln) * ln
               r == back % ln
    <3>1. q + r = back /\ q \in Int /\ r \in Int
      BY <2>1, <2>2
    <3>2. (LaneN - 1) - q - r = k
      <4> HIDE DEF q, r
      <4> QED BY <1>0, <3>1
    <3> QED BY <3>2 DEF Place
  <2>4. at(k) \in I \X J /\ Place(ln, at(k)[1], at(k)[2]) = k
    <3> DEFINE w == <<back \div ln, back % ln>>
    <3>1. w \in I \X J /\ Place(ln, w[1], w[2]) = k
      BY <2>2, <2>3
    <3> HIDE DEF w, I, J
    <3> QED BY <3>1
  <2> HIDE DEF at
  <2>5. lanes[at(k)[2]][at(k)[1]] = ca[Place(ln, at(k)[1], at(k)[2])]
    BY <2>4 DEF DistNonInterleaved
  <2> QED BY <2>4, <2>5
<1>2. RecNonInterleaved(lanes, ln) = [k \in 0 .. LaneN - 1 |-> lanes[at(k)[2]][at(k)[1]]]
  BY DEF RecNonInterleaved
<1> HIDE DEF at, lanes
<1> QED BY <1>1, <1>2 DEF lanes

HIDE DEF LaneNums

LEMMA HalfOf ==
  ASSUME NEW n \in Nat
  PROVE  /\ n \div 2 \in Nat /\ n % 2 \in {0, 1} /\ n = 2 * (n \div 2) + (n % 2)
         /\ \A b \in {0, 1} : (2 * n + b) \div 2 = n /\ ((2 * n + b) % 2) = b
  OBVIOUS

LEMMA TwoCodewordsOn1 ==
  ASSUME NEW k \in 0 .. LaneN - 1, NEW own \in BOOLEAN
  PROVE  \E i \in 0 .. (2 * LaneN) \div 1 - 1, j \in 0 .. 1 - 1 :
           PairPlace(1, i, j) = k /\ OwnTurn(1, i, j) = own
<1> USE LanesAssumption
<1> DEFINE back == LaneN - 1 - k
           b == IF own THEN 0 ELSE 1
           i == 2 * back + b
<1>1. back \in Nat /\ back < LaneN /\ b \in {0, 1} /\ 0 \in 0 .. 1 - 1
  OBVIOUS
<1> HIDE DEF back, b
<1>2. i \in 0 .. (2 * LaneN) \div 1 - 1
  BY <1>1
<1>3. i \div 2 = back /\ i % 2 = b
  BY <1>1, HalfOf
<1> HIDE DEF i
<1>4. PairPlace(1, i, 0) = k
  BY <1>1, <1>3 DEF PairPlace, back
<1>5. OwnTurn(1, i, 0) = own
  BY <1>3 DEF OwnTurn, Even, b
<1> QED BY <1>1, <1>2, <1>4, <1>5

LEMMA TwoCodewordsOnMore ==
  ASSUME NEW ln \in LaneNums, ln # 1, NEW k \in 0 .. LaneN - 1, NEW own \in BOOLEAN
  PROVE  \E i \in 0 .. (2 * LaneN) \div ln - 1, j \in 0 .. ln - 1 :
           PairPlace(ln, i, j) = k /\ OwnTurn(ln, i, j) = own
<1> USE LanesAssumption
<1> DEFINE h == ln \div 2
           back == LaneN - 1 - k
           i == back \div h
           r == back % h
<1>1. h \in Nat \ {0} /\ ln = 2 * h
  BY DEF LaneNums
<1> HIDE DEF h
<1>2. PICK P \in Nat : LaneN = ln * P /\ (2 * LaneN) \div ln = 2 * P
  <2>1. \A M \in Nat : Spl * M \in Nat /\ Spl * (2 * M) = 2 * (Spl * M)
    OBVIOUS
  <2>2. PICK M \in Nat : /\ LaneN = ln * (Spl * M)
                         /\ (2 * LaneN) \div ln = Spl * (2 * M)
    BY LaneSizes
  <2> QED BY <2>1, <2>2
<1>3. back \in Nat /\ LaneN = h * (2 * P) /\ back \in 0 .. h * (2 * P) - 1 /\ 2 * P \in Nat
  <2>1. LaneN = (2 * h) * P
    BY <1>1, <1>2
  <2>2. (2 * h) * P = h * (2 * P)
    BY <1>1
  <2> QED BY <2>1, <2>2
<1> HIDE DEF back
<1>4. i \in 0 .. 2 * P - 1
  BY <1>1, <1>3, DivBelow
<1>5. i \in Nat /\ r \in 0 .. h - 1 /\ back = h * i + r
  BY <1>1, <1>3, DivMod
<1> HIDE DEF i, r
<1> DEFINE b == IF Even(i) = own THEN 0 ELSE 1
           j == 2 * r + b
<1>6. b \in {0, 1} /\ r \in Nat
  BY <1>1, <1>5
<1>7. j \div 2 = r /\ j \in 0 .. ln - 1
  <2> HIDE DEF b
  <2>1. j \div 2 = r
    BY <1>6, HalfOf
  <2> QED BY <1>1, <1>5, <1>6, <2>1
<1>8. Even(i + j) = own
  <2>1. CASE Even(i) = own
    <3>1. i + j = i + 2 * r
      BY <1>5, <1>6, <2>1
    <3>2. ((i + 2 * r) % 2) = (i % 2)
      BY <1>5, <1>6
    <3> QED BY <2>1, <3>1, <3>2 DEF Even
  <2>2. CASE Even(i) # own
    <3>1. i + j = i + 2 * r + 1
      BY <1>5, <1>6, <2>2
    <3>2. ((i + 2 * r + 1) % 2) = 1 - (i % 2) /\ (i % 2) \in {0, 1}
      BY <1>5, <1>6
    <3>3. Even(i + j) = ~Even(i)
      BY <3>1, <3>2 DEF Even
    <3> QED BY <2>2, <3>3 DEF Even
  <2> QED BY <2>1, <2>2
<1> HIDE DEF b, j
<1>9. PairPlace(ln, i, j) = k
  <2>1. PairPlace(ln, i, j) = (LaneN - 1) - i * h - r
    BY <1>7 DEF PairPlace, h
  <2>2. i * h = h * i /\ i * h \in Int
    BY <1>1, <1>5
  <2> QED BY <1>3, <1>5, <2>1, <2>2 DEF back
<1>10. OwnTurn(ln, i, j) = own
  BY <1>8 DEF OwnTurn
<1> QED BY <1>2, <1>4, <1>7, <1>9, <1>10

LEMMA TwoCodewords ==
  ASSUME NEW ln \in LaneNums, NEW own \in BOOLEAN, NEW ca, NEW cb, NEW c,
         c = IF own THEN ca ELSE cb, c = [k \in 0 .. LaneN - 1 |-> c[k]]
  PROVE  RecInterleaved(DistInterleaved(ca, cb, ln), ln, own) = c
<1> DEFINE I == 0 .. (2 * LaneN) \div ln - 1
           J == 0 .. ln - 1
           at(k) == CHOOSE at \in I \X J :
                      PairPlace(ln, at[1], at[2]) = k /\ OwnTurn(ln, at[1], at[2]) = own
           lanes == DistInterleaved(ca, cb, ln)
<1>1. ASSUME NEW k \in 0 .. LaneN - 1
      PROVE  lanes[at(k)[2]][at(k)[1]] = c[k]
  <2>1. \E i \in I, j \in J : PairPlace(ln, i, j) = k /\ OwnTurn(ln, i, j) = own
    BY TwoCodewordsOn1, TwoCodewordsOnMore
  <2>2. /\ at(k) \in I \X J
        /\ PairPlace(ln, at(k)[1], at(k)[2]) = k /\ OwnTurn(ln, at(k)[1], at(k)[2]) = own
    <3> HIDE DEF I, J
    <3>1. PICK i \in I, j \in J : PairPlace(ln, i, j) = k /\ OwnTurn(ln, i, j) = own
      BY <2>1
    <3> DEFINE w == <<i, j>>
    <3>2. w \in I \X J /\ PairPlace(ln, w[1], w[2]) = k /\ OwnTurn(ln, w[1], w[2]) = own
      BY <3>1
    <3> HIDE DEF w
    <3> QED BY <3>2
  <2> HIDE DEF at
  <2>3. lanes[at(k)[2]][at(k)[1]] =
          IF OwnTurn(ln, at(k)[1], at(k)[2]) THEN ca[PairPlace(ln, at(k)[1], at(k)[2])]
                                             ELSE cb[PairPlace(ln, at(k)[1], at(k)[2])]
    BY <2>2 DEF DistInterleaved
  <2> HIDE DEF lanes
  <2> QED BY <2>2, <2>3
<1>2. RecInterleaved(lanes, ln, own) = [k \in 0 .. LaneN - 1 |-> lanes[at(k)[2]][at(k)[1]]]
  BY DEF RecInterleaved
<1> HIDE DEF at, lanes
<1> QED BY <1>1, <1>2 DEF lanes

(***************************************************************************)
(* Neighbours on a lane are of different codewords.                        *)
(***************************************************************************)
LEMMA BurstsMix ==
  ASSUME NEW ln \in LaneNums,
         NEW j \in 0 .. ln - 1, NEW i \in 1 .. (2 * LaneN) \div ln - 1
  PROVE  LET lanes == DistInterleaved(CA, CB, ln) IN lanes[j][i][1] # lanes[j][i - 1][1]
<1> USE LanesAssumption DEF LaneNums
<1>1. \A k \in 0 .. LaneN - 1 : CA[k][1] = "a" /\ CB[k][1] = "b"
  BY DEF CA, CB
<1>2. ASSUME NEW x \in 0 .. (2 * LaneN) \div ln - 1 PROVE PairPlace(ln, x, j) \in 0 .. LaneN - 1
  <2>1. PICK P \in Nat : LaneN = ln * P /\ (2 * LaneN) \div ln = 2 * P
    <3>1. \A M \in Nat : Spl * M \in Nat /\ Spl * (2 * M) = 2 * (Spl * M)
      OBVIOUS
    <3>2. PICK M \in Nat : /\ LaneN = ln * (Spl * M)
                           /\ (2 * LaneN) \div ln = Spl * (2 * M)
      BY LaneSizes
    <3> QED BY <3>1, <3>2
  <2>2. CASE ln = 1
    BY <2>1, <2>2 DEF PairPlace
  <2>3. CASE ln = 2
    BY <2>1, <2>3 DEF PairPlace
  <2>4. CASE ln = 4
    BY <2>1, <2>4 DEF PairPlace
  <2>5. CASE ln = 8
    BY <2>1, <2>5 DEF PairPlace
  <2> QED BY <2>2, <2>3, <2>4, <2>5
<1>3. (2 * LaneN) \div ln \in Nat /\ i \in Nat /\ j \in Nat
  <2>1. PICK M \in Nat : (2 * LaneN) \div ln = Spl * (2 * M)
    BY LaneSizes
  <2> QED BY <2>1
<1> DEFINE L == (2 * LaneN) \div ln
           lanes == DistInterleaved(CA, CB, ln)
<1>4. i \in 0 .. L - 1 /\ i - 1 \in 0 .. L - 1 /\ i - 1 \in Nat
  BY <1>3
<1>5. \A x \in 0 .. L - 1 : lanes[j][x][1] = IF OwnTurn(ln, x, j) THEN "a" ELSE "b"
  BY <1>1, <1>2 DEF DistInterleaved
<1>6. OwnTurn(ln, i, j) = ~OwnTurn(ln, i - 1, j)
  <2>1. \A n \in Nat : n # 0 => (n % 2 = 0 <=> (n - 1) % 2 # 0)
    OBVIOUS
  <2>2. i # 0 /\ i + j \in Nat /\ i + j # 0 /\ (i + j) - 1 = (i - 1) + j
    BY <1>3
  <2> QED BY <1>3, <2>1, <2>2 DEF OwnTurn, Even
<1> HIDE DEF L, lanes
<1>7. lanes[j][i][1] # lanes[j][i - 1][1]
  BY <1>4, <1>5, <1>6
<1> QED BY <1>7 DEF lanes

(***************************************************************************)
(* The reference netlists, a word of every lane at a time.                 *)
(***************************************************************************)
LEMMA PlaceInWords ==
  ASSUME NEW ln \in Nat \ {0}, NEW spl \in Nat \ {0}, NEW back \in 0 .. ln * spl - 1
  PROVE  LET out == (back % ln) * spl + back \div ln
         IN /\ out \in 0 .. ln * spl - 1
            /\ (ln * spl - 1) - (out % spl) * ln - out \div spl = (ln * spl - 1) - back
<1> DEFINE q == back \div ln
           r == back % ln
           out == r * spl + q
<1>1. back \in Nat
  OBVIOUS
<1>2. q \in 0 .. spl - 1
  BY DivBelow
<1>3. q \in Nat /\ r \in 0 .. ln - 1 /\ back = ln * q + r
  BY <1>1, DivMod
<1> HIDE DEF q, r
<1>4. out \div spl = r /\ out % spl = q
  BY <1>2, <1>3, DivUnique
<1>5. out \in 0 .. ln * spl - 1
  <2>1. r * spl \in Nat
    BY <1>3
  <2>2. (ln - 1 - r) * spl >= 0
    BY <1>3
  <2>3. (ln - 1 - r) * spl = ln * spl - spl - r * spl
    BY <1>3
  <2> QED BY <1>2, <1>3, <2>1, <2>2, <2>3
<1> HIDE DEF out
<1>6. (ln * spl - 1) - (out % spl) * ln - out \div spl = (ln * spl - 1) - back
  <2>1. q * ln = ln * q /\ ln * q \in Int
    BY <1>3
  <2> QED BY <1>3, <1>4, <2>1
<1> QED BY <1>5, <1>6 DEF out, q, r

LEMMA PlacedAt ==
  ASSUME NEW ln \in LaneNums, NEW src \in 0 .. ln * Spl - 1
  PROVE  LET back == (ln * Spl - 1) - src
             out == (back % ln) * Spl + back \div ln
         IN /\ out \in 0 .. ln * Spl - 1
            /\ (ln * Spl - 1) - (out % Spl) * ln - out \div Spl = src
<1> DEFINE back == (ln * Spl - 1) - src
           out == (back % ln) * Spl + back \div ln
<1>1. ln \in Nat \ {0} /\ Spl \in Nat \ {0} /\ ln * Spl \in Int
  BY LanesAssumption DEF LaneNums
<1>2. back \in 0 .. ln * Spl - 1 /\ (ln * Spl - 1) - back = src
  BY <1>1
<1> HIDE DEF back
<1>3. /\ out \in 0 .. ln * Spl - 1
      /\ (ln * Spl - 1) - (out % Spl) * ln - out \div Spl = (ln * Spl - 1) - back
  BY <1>1, <1>2, PlaceInWords
<1> QED BY <1>2, <1>3 DEF back

LEMMA RefTakesOff ==
  ASSUME NEW ln \in LaneNums, NEW window,
         window = [k \in 0 .. ln * Spl - 1 |-> window[k]]
  PROVE  RefDedist(RefDist(window, ln), ln) = window
<1>1. ASSUME NEW src \in 0 .. ln * Spl - 1
      PROVE  RefDedist(RefDist(window, ln), ln)[src] = window[src]
  <2> DEFINE back == (ln * Spl - 1) - src
             out == (back % ln) * Spl + back \div ln
  <2>1. /\ out \in 0 .. ln * Spl - 1
        /\ (ln * Spl - 1) - (out % Spl) * ln - out \div Spl = src
    BY PlacedAt
  <2>2. RefDist(window, ln)[out] = window[(ln * Spl - 1) - (out % Spl) * ln - out \div Spl]
    <3> HIDE DEF out
    <3> QED BY <2>1 DEF RefDist
  <2>3. RefDedist(RefDist(window, ln), ln)[src] = RefDist(window, ln)[out]
    BY DEF RefDedist
  <2> HIDE DEF out
  <2> QED BY <2>1, <2>2, <2>3
<1>2. RefDedist(RefDist(window, ln), ln) =
        [src \in 0 .. ln * Spl - 1 |-> RefDedist(RefDist(window, ln), ln)[src]]
  BY DEF RefDedist
<1> QED BY <1>1, <1>2

LEMMA RefIsModelPlace ==
  ASSUME NEW ln \in LaneNums, NEW M \in Nat, LaneN = ln * (Spl * M),
         NEW w \in 0 .. M - 1, NEW j \in 0 .. ln - 1, NEW s \in 0 .. Spl - 1
  PROVE  /\ RefDist(Window(CA, ln, w), ln)[j * Spl + s] = CA[Place(ln, w * Spl + s, j)]
         /\ w * Spl + s \in 0 .. Spl * M - 1
<1> USE LanesAssumption DEF LaneNums
<1>0. ln \in Nat \ {0} /\ j \in Nat /\ s \in Nat /\ w \in Nat
  OBVIOUS
<1> DEFINE out == j * Spl + s
           k == (ln * Spl - 1) - s * ln - j
<1>1. out \div Spl = j /\ out % Spl = s
  BY <1>0, DivUnique
<1>2. out \in 0 .. ln * Spl - 1
  <2>1. (ln - 1 - j) * Spl >= 0 /\ (ln - 1 - j) * Spl = ln * Spl - Spl - j * Spl
    BY <1>0
  <2> QED BY <1>0, <2>1
<1> HIDE DEF out
<1>3. RefDist(Window(CA, ln, w), ln)[out] = Window(CA, ln, w)[k]
  BY <1>1, <1>2 DEF RefDist
<1>4. k \in 0 .. ln * Spl - 1
  <2>1. (Spl - 1 - s) * ln >= 0 /\ (Spl - 1 - s) * ln = ln * Spl - ln - s * ln /\ s * ln >= 0
    BY <1>0
  <2> QED BY <1>0, <2>1
<1>5. Window(CA, ln, w)[k] = CA[LaneN - (w + 1) * ln * Spl + k]
  BY <1>4 DEF Window
<1>6. LaneN - (w + 1) * ln * Spl + k = Place(ln, w * Spl + s, j)
  <2>1. (w + 1) * ln * Spl = (w * ln) * Spl + ln * Spl
    BY <1>0
  <2>2. (w * Spl + s) * ln = (w * ln) * Spl + s * ln
    BY <1>0
  <2> QED BY <1>0, <2>1, <2>2 DEF Place
<1>7. w * Spl + s \in 0 .. Spl * M - 1
  <2>1. (M - 1 - w) * Spl >= 0 /\ (M - 1 - w) * Spl = Spl * M - Spl - w * Spl /\ w * Spl >= 0
    BY <1>0
  <2> QED BY <1>0, <2>1
<1> HIDE DEF k
<1> QED BY <1>3, <1>5, <1>6, <1>7 DEF out

(***************************************************************************)
(* The lanes of rtl/pcs.                                                   *)
(***************************************************************************)
LEMMA RtlLanesGiveBack ==
  ASSUME NEW data \in [0 .. RtlPairs - 1 -> {0, 1} \X {0, 1}]
  PROVE  RtlLaneDedist(RtlLaneDist(data)) = data
<1> USE LanesAssumption
<1>1. \A pair \in {0, 1} \X {0, 1} : Degray(Gray(pair)) = pair
  BY DEF Degray, Gray
<1>2. ASSUME NEW p \in 0 .. RtlPairs - 1
      PROVE  RtlLaneDedist(RtlLaneDist(data))[p] = data[p]
  <2>1. /\ p % 4 \in 0 .. 3 /\ p \div 4 \in 0 .. RtlPairs \div 4 - 1
        /\ (p \div 4) * 4 + (p % 4) = p
    OBVIOUS
  <2>2. RtlLaneDist(data)[p % 4][p \div 4] = Gray(data[(p \div 4) * 4 + (p % 4)])
    BY <2>1 DEF RtlLaneDist
  <2>3. RtlLaneDedist(RtlLaneDist(data))[p] = Degray(Gray(data[p]))
    BY <2>1, <2>2 DEF RtlLaneDedist
  <2> QED BY <1>1, <2>3
<1>3. RtlLaneDedist(RtlLaneDist(data)) =
        [p \in 0 .. RtlPairs - 1 |-> RtlLaneDedist(RtlLaneDist(data))[p]]
  BY DEF RtlLaneDedist
<1> QED BY <1>2, <1>3

Config == lane_num \in LaneNums /\ codec \in {1, 2}

(***************************************************************************)
(* A configuration of the link, and what LanesCarryAll says of it.         *)
(***************************************************************************)
LEMMA LanesOfWords ==
  ASSUME Config
  PROVE  \E M \in Nat : /\ LaneLength = Spl * M /\ LaneLength \div Spl = M
                        /\ codec = 1 => LaneN = lane_num * (Spl * M)
<1> USE LanesAssumption
<1>1. PICK M \in Nat : /\ LaneN = lane_num * (Spl * M)
                       /\ LaneN \div lane_num = Spl * M
                       /\ (2 * LaneN) \div lane_num = Spl * (2 * M)
  BY LaneSizes DEF Config
<1>2. \A K \in Nat : (Spl * K) \div Spl = K
  <2> TAKE K \in Nat
  <2>1. (K * Spl + 0) \div Spl = K /\ K * Spl + 0 = Spl * K
    BY DivUnique
  <2> QED BY <2>1
<1>3. CASE codec = 1
  <2>1. codec * LaneN = LaneN
    BY <1>3
  <2> QED BY <1>1, <1>2, <2>1 DEF LaneLength
<1>4. CASE codec = 2
  <2>1. LaneLength = Spl * (2 * M) /\ 2 * M \in Nat
    BY <1>1, <1>4 DEF LaneLength
  <2> QED BY <1>2, <1>4, <2>1
<1> QED BY <1>3, <1>4 DEF Config

LEMMA DistributeIs ==
  ASSUME Config
  PROVE  /\ Distribute = [j \in 0 .. lane_num - 1 |-> Distribute[j]]
         /\ \A j \in 0 .. lane_num - 1 :
              Distribute[j] = [i \in 0 .. LaneLength - 1 |-> Distribute[j][i]]
<1>1. CASE codec = 1
  <2>1. Distribute = DistNonInterleaved(CA, lane_num) /\ LaneLength = LaneN \div lane_num
    BY <1>1, LanesAssumption DEF Distribute, LaneLength
  <2> QED BY <2>1 DEF DistNonInterleaved
<1>2. CASE codec = 2
  <2>1. Distribute = DistInterleaved(CA, CB, lane_num) /\ LaneLength = (2 * LaneN) \div lane_num
    BY <1>2 DEF Distribute, LaneLength
  <2> QED BY <2>1 DEF DistInterleaved
<1> QED BY <1>1, <1>2 DEF Config

LEMMA CodewordsComeBack ==
  ASSUME Config
  PROVE  Recover(UnpackLaneWords(PackLaneWords(Distribute)))
           = IF codec = 1 THEN << CA >> ELSE << CA, CB >>
<1>1. PICK M \in Nat : LaneLength = Spl * M
  BY LanesOfWords
<1>2. DOMAIN Distribute = 0 .. lane_num - 1
  BY DistributeIs
<1>3. UnpackLaneWords(PackLaneWords(Distribute)) = Distribute
  BY <1>1, <1>2, DistributeIs, PackUnpack
<1>4. CA = [k \in 0 .. LaneN - 1 |-> CA[k]] /\ CB = [k \in 0 .. LaneN - 1 |-> CB[k]]
  BY DEF CA, CB
<1>5. CASE codec = 1
  <2>1. Recover(Distribute) = << RecNonInterleaved(DistNonInterleaved(CA, lane_num), lane_num) >>
    BY <1>5 DEF Recover, Distribute
  <2> QED BY <1>3, <1>4, <1>5, <2>1, OneCodeword DEF Config
<1>6. CASE codec = 2
  <2>1. Recover(Distribute) =
          << RecInterleaved(DistInterleaved(CA, CB, lane_num), lane_num, TRUE),
             RecInterleaved(DistInterleaved(CA, CB, lane_num), lane_num, FALSE) >>
    BY <1>6 DEF Recover, Distribute
  <2>2. /\ RecInterleaved(DistInterleaved(CA, CB, lane_num), lane_num, TRUE) = CA
        /\ RecInterleaved(DistInterleaved(CA, CB, lane_num), lane_num, FALSE) = CB
    BY <1>4, TwoCodewords DEF Config
  <2>3. Recover(Distribute) = << CA, CB >>
    BY <2>1, <2>2, Zenon
  <2>4. (IF codec = 1 THEN << CA >> ELSE << CA, CB >>) = << CA, CB >>
    BY <1>6
  <2> QED BY <1>3, <2>3, <2>4, Zenon
<1> QED BY <1>5, <1>6 DEF Config

LEMMA RefDistributes ==
  ASSUME Config, codec = 1, NEW w \in 0 .. LaneLength \div Spl - 1
  PROVE  LET window == Window(CA, lane_num, w)
         IN /\ RefDedist(RefDist(window, lane_num), lane_num) = window
            /\ \A j \in 0 .. lane_num - 1, s \in 0 .. Spl - 1 :
                 PackLaneWords(Distribute)[j][w][s] = RefDist(window, lane_num)[j * Spl + s]
<1> DEFINE window == Window(CA, lane_num, w)
<1>1. RefDedist(RefDist(window, lane_num), lane_num) = window
  <2>1. window = [k \in 0 .. lane_num * Spl - 1 |-> window[k]]
    BY DEF Window
  <2> HIDE DEF window
  <2> QED BY <2>1, RefTakesOff DEF Config
<1>2. PICK M \in Nat : /\ LaneLength = Spl * M /\ LaneLength \div Spl = M
                       /\ LaneN = lane_num * (Spl * M)
  BY LanesOfWords
<1>3. ASSUME NEW j \in 0 .. lane_num - 1, NEW s \in 0 .. Spl - 1
      PROVE  PackLaneWords(Distribute)[j][w][s] = RefDist(window, lane_num)[j * Spl + s]
  <2>1. /\ RefDist(window, lane_num)[j * Spl + s] = CA[Place(lane_num, w * Spl + s, j)]
        /\ w * Spl + s \in 0 .. LaneLength - 1
    BY <1>2, RefIsModelPlace DEF Config
  <2>2. PackLaneWords(Distribute)[j][w][s] = Distribute[j][w * Spl + s]
    BY DEF PackLaneWords
  <2>3. Distribute = DistNonInterleaved(CA, lane_num) /\ LaneLength = LaneN \div lane_num
    BY LanesAssumption DEF Distribute, LaneLength
  <2>4. Distribute[j][w * Spl + s] = CA[Place(lane_num, w * Spl + s, j)]
    BY <2>1, <2>3 DEF DistNonInterleaved
  <2> QED BY <2>1, <2>2, <2>4
<1> HIDE DEF window
<1> QED BY <1>1, <1>3 DEF window

LEMMA EveryLinkCarries ==
  ASSUME Config
  PROVE  LanesCarryAll
<1>1. ASSUME codec = 2, NEW j \in 0 .. lane_num - 1, NEW i \in 1 .. LaneLength - 1
      PROVE  Distribute[j][i][1] # Distribute[j][i - 1][1]
  <2>1. Distribute = DistInterleaved(CA, CB, lane_num) /\ LaneLength = (2 * LaneN) \div lane_num
    BY <1>1 DEF Distribute, LaneLength
  <2> QED BY <2>1, BurstsMix DEF Config
<1>2. ASSUME NEW pair \in {0, 1} \X {0, 1}
      PROVE  LET data == [p \in 0 .. RtlPairs - 1 |-> IF p % 3 = 0 THEN pair ELSE << 1, 0 >>]
             IN RtlLaneDedist(RtlLaneDist(data)) = data
  <2> DEFINE data == [p \in 0 .. RtlPairs - 1 |-> IF p % 3 = 0 THEN pair ELSE << 1, 0 >>]
  <2>1. data \in [0 .. RtlPairs - 1 -> {0, 1} \X {0, 1}]
    OBVIOUS
  <2> HIDE DEF data
  <2>2. RtlLaneDedist(RtlLaneDist(data)) = data
    BY <2>1, RtlLanesGiveBack
  <2> QED BY <2>2 DEF data
<1> QED BY <1>1, <1>2, CodewordsComeBack, RefDistributes DEF LanesCarryAll

(***************************************************************************)
(* Whatever the lengths of codewords and words, as long as the words fill  *)
(* the lanes: distribution loses no symbol in any width of the link, and   *)
(* the reference netlists distribute as the model does.                    *)
(***************************************************************************)
THEOREM LanesCarry == LanesSpec => []LanesCarryAll
<1>1. LanesInit => Config
  BY DEF LanesInit, Config, LaneNums
<1>2. Config /\ [LanesNext]_lanesVars => Config'
  BY DEF LanesNext, lanesVars, Config
<1>3. Config => LanesCarryAll
  BY EveryLinkCarries
<1> QED BY <1>1, <1>2, <1>3, PTL DEF LanesSpec

-----------------------------------------------------------------------------
(***************************************************************************)
(* Between blocks the netlist has all ones where the model keeps what it   *)
(* had: eat starts over when nothing was started.                          *)
(***************************************************************************)
LockStep == crc = IF started THEN model_crc ELSE CrcInit

StreamInv == started \in BOOLEAN /\ done \in BOOLEAN /\ LockStep /\ RefIsModel

LEMMA ClkLockStep ==
  ASSUME StreamInv, NEW start \in BOOLEAN, NEW valid \in BOOLEAN, NEW last \in BOOLEAN,
         NEW flit \in BcrcFlits, BcrcClk(start, valid, flit, last)
  PROVE  StreamInv'
<1> DEFINE nxt(c) == Absorb(c, flit, last)
<1>1. /\ crc' = CASE valid /\ last -> CrcInit [] valid /\ ~last -> nxt(IF start THEN CrcInit ELSE crc)
                  [] ~valid -> IF start THEN CrcInit ELSE crc
      /\ crc_word' = IF valid /\ last
                     THEN [crc |-> nxt(IF start THEN CrcInit ELSE crc), error_flag |-> 0]
                     ELSE crc_word
      /\ done' = (valid /\ last)
  BY DEF BcrcClk, Bcrc
<1> DEFINE seed == IF start \/ (valid /\ ~started) THEN CrcInit ELSE model_crc
<1>2. /\ model_crc' = IF valid THEN nxt(seed) ELSE seed
      /\ started' = IF valid THEN ~last ELSE start \/ started
      /\ eaten' = IF valid /\ last THEN << nxt(seed) >> ELSE << >>
  BY DEF BcrcClk, ModelCalls
<1> HIDE DEF nxt
<1>3. valid => seed = IF start THEN CrcInit ELSE crc
  BY DEF StreamInv, LockStep
<1>4. LockStep' /\ started' \in BOOLEAN /\ done' \in BOOLEAN
  BY <1>1, <1>2, <1>3 DEF StreamInv, LockStep
<1>5. CASE valid /\ last
  <2>1. eaten' = << nxt(seed) >> /\ crc_word' = [crc |-> nxt(seed), error_flag |-> 0] /\ done'
    BY <1>1, <1>2, <1>3, <1>5
  <2>2. eaten' # << >> /\ eaten'[1] = nxt(seed)
    BY <2>1
  <2> QED BY <1>4, <2>1, <2>2 DEF StreamInv, RefIsModel
<1>6. CASE ~(valid /\ last)
  BY <1>1, <1>2, <1>4, <1>6 DEF StreamInv, RefIsModel
<1> QED BY <1>5, <1>6

(***************************************************************************)
(* The netlist and the streamed model agree in every reachable state.      *)
(***************************************************************************)
THEOREM NetlistIsStreamedModel == BcrcSpec => []RefIsModel
<1>1. BcrcInit => StreamInv
  BY DEF BcrcInit, StreamInv, LockStep, RefIsModel
<1>2. StreamInv /\ [BcrcNext]_bcrcVars => StreamInv'
  <2> SUFFICES ASSUME StreamInv, [BcrcNext]_bcrcVars PROVE StreamInv'
    OBVIOUS
  <2>1. CASE BcrcReset
    BY <2>1 DEF BcrcReset, StreamInv, LockStep, RefIsModel
  <2>2. CASE UNCHANGED bcrcVars
    BY <2>2 DEF bcrcVars, StreamInv, LockStep, RefIsModel
  <2> QED BY <2>1, <2>2, ClkLockStep DEF BcrcNext
<1>3. StreamInv => RefIsModel
  BY DEF StreamInv
<1> QED BY <1>1, <1>2, <1>3, PTL DEF BcrcSpec

-----------------------------------------------------------------------------
(***************************************************************************)
(* The cycle a word comes, the check has the word that was received with   *)
(* it; afterwards it has kept the verdict.                                 *)
(***************************************************************************)
Ended == finished # << >>

VerdictInv ==
  /\ done \in BOOLEAN /\ ok_q \in BOOLEAN /\ fail_q \in BOOLEAN
  /\ block \in Seq(BcrcFlits) /\ finished \in Seq(BcrcFlits)
  /\ done => Ended
  /\ Ended => recv_q = Stored(finished)
  /\ ~Ended => ~ok_q /\ ~fail_q /\ eflag_q = 0
  /\ Ended /\ ~done => /\ ok_q <=> CmpOk
                       /\ fail_q <=> ~CmpOk
                       /\ eflag_q = recv_q.error_flag

LEMMA ClkVerdict ==
  ASSUME VerdictInv, NEW start \in BOOLEAN, NEW valid \in BOOLEAN, NEW last \in BOOLEAN,
         NEW flit \in BcrcFlits, BcrcClk(start, valid, flit, last)
  PROVE  VerdictInv'
<1>1. done' = (valid /\ last) /\ (~(valid /\ last) => crc_word' = crc_word)
  BY DEF BcrcClk, Bcrc
<1>2. /\ recv_q' = IF valid /\ last THEN flit.word ELSE recv_q
      /\ done => (ok_q' <=> CmpOk) /\ (fail_q' <=> ~CmpOk) /\ eflag_q' = recv_q.error_flag
      /\ ~done => ok_q' = ok_q /\ fail_q' = fail_q /\ eflag_q' = eflag_q
      /\ ok_q' \in BOOLEAN /\ fail_q' \in BOOLEAN
  BY DEF BcrcClk, BcrcCheck, VerdictInv, CmpOk
<1> DEFINE before == IF start THEN << >> ELSE block
<1>3. before \in Seq(BcrcFlits)
  BY DEF VerdictInv
<1>4. /\ block' = CASE valid /\ last -> << >> [] valid /\ ~last -> Append(before, flit)
                    [] ~valid -> before
      /\ finished' = IF valid /\ last THEN Append(before, flit) ELSE finished
  BY DEF BcrcClk, BlockSoFar
<1> HIDE DEF before
<1>5. block' \in Seq(BcrcFlits) /\ finished' \in Seq(BcrcFlits)
  BY <1>3, <1>4 DEF VerdictInv
<1>6. CASE valid /\ last
  <2>1. finished' = Append(before, flit)
    BY <1>4, <1>6
  <2>2. Len(finished') = Len(before) + 1 /\ finished'[Len(before) + 1] = flit
    BY <1>3, <2>1
  <2>3. Ended' /\ Stored(finished)' = flit.word
    BY <1>3, <2>2 DEF Ended, Stored
  <2>4. recv_q' = flit.word /\ done'
    BY <1>1, <1>2, <1>6
  <2> QED BY <1>2, <1>5, <2>3, <2>4 DEF VerdictInv
<1>7. CASE ~(valid /\ last)
  <2>1. /\ finished' = finished /\ recv_q' = recv_q /\ crc_word' = crc_word /\ ~done'
        /\ done' \in BOOLEAN
    BY <1>1, <1>2, <1>4, <1>7
  <2>2. /\ Ended' <=> Ended
        /\ Stored(finished)' = Stored(finished)
        /\ CmpOk' <=> CmpOk
    BY <2>1 DEF Ended, Stored, CmpOk
  <2>3. CASE done
    BY <1>2, <1>5, <2>1, <2>2, <2>3 DEF VerdictInv
  <2>4. CASE ~done
    BY <1>2, <1>5, <2>1, <2>2, <2>4 DEF VerdictInv
  <2> QED BY <2>3, <2>4 DEF VerdictInv
<1> QED BY <1>6, <1>7

(***************************************************************************)
(* The verdict, whatever is on the ports between two ends of blocks.       *)
(***************************************************************************)
THEOREM VerdictStaysWithItsBlock == BcrcSpec => []VerdictIsOfItsBlock
<1>0. << >> \in Seq(BcrcFlits)
  OBVIOUS
<1>1. BcrcInit => VerdictInv
  <2> SUFFICES ASSUME BcrcInit PROVE VerdictInv
    OBVIOUS
  <2>1. /\ done = FALSE /\ ok_q = FALSE /\ fail_q = FALSE /\ eflag_q = 0
        /\ block = << >> /\ finished = << >>
    BY DEF BcrcInit
  <2>2. done \in BOOLEAN /\ ok_q \in BOOLEAN /\ fail_q \in BOOLEAN /\ ~done /\ ~ok_q /\ ~fail_q
    BY <2>1, Zenon
  <2>3. ~Ended
    BY <2>1 DEF Ended
  <2> QED BY <1>0, <2>1, <2>2, <2>3, Zenon DEF VerdictInv
<1>2. VerdictInv /\ [BcrcNext]_bcrcVars => VerdictInv'
  <2> SUFFICES ASSUME VerdictInv, [BcrcNext]_bcrcVars PROVE VerdictInv'
    OBVIOUS
  <2>1. CASE BcrcReset
    <3>1. /\ done' = FALSE /\ ok_q' = FALSE /\ fail_q' = FALSE /\ eflag_q' = 0
          /\ block' = << >> /\ finished' = << >>
      BY <2>1 DEF BcrcReset
    <3>2. /\ done' \in BOOLEAN /\ ok_q' \in BOOLEAN /\ fail_q' \in BOOLEAN
          /\ ~done' /\ ~ok_q' /\ ~fail_q'
      BY <3>1, Zenon
    <3>3. ~Ended'
      BY <3>1 DEF Ended
    <3> QED BY <1>0, <3>1, <3>2, <3>3, Zenon DEF VerdictInv
  <2>2. CASE UNCHANGED bcrcVars
    BY <2>2 DEF bcrcVars, VerdictInv, Ended, Stored, CmpOk
  <2> QED BY <2>1, <2>2, ClkVerdict DEF BcrcNext
<1>3. VerdictInv => VerdictIsOfItsBlock
  BY DEF VerdictInv, Ended, VerdictIsOfItsBlock, crc_ok, crc_fail, error_flag_rx, CmpOk
<1> QED BY <1>1, <1>2, <1>3, PTL DEF BcrcSpec

-----------------------------------------------------------------------------
Rem(c, s) == FoldLeft(UpdateBit, c, s)

Rems == {c \in Seq(Bit) : Len(c) = Len(CrcTaps)}

(***************************************************************************)
(* The remainder keeps its length.                                         *)
(***************************************************************************)
LEMMA UpdateType ==
  ASSUME NEW c \in Rems, NEW b \in Bit
  PROVE  UpdateBit(c, b) \in Rems
<1> USE BcrcAssumption
<1>1. Len(c) # 0 /\ c[1] \in Bit
  BY DEF Rems, Bit
<1>2. \A x, y \in Bit : XorBit(x, y) \in Bit
  BY DEF XorBit, Bit
<1> DEFINE shifted == Append(Tail(c), 0)
<1>3. shifted \in Seq(Bit) /\ Len(shifted) = Len(c)
  BY <1>1 DEF Rems, Bit
<1>4. [i \in DOMAIN c |-> XorBit(shifted[i], CrcTaps[i])] \in Rems
  <2> DEFINE m == [i \in 1 .. Len(c) |-> XorBit(shifted[i], CrcTaps[i])]
  <2>1. \A i \in 1 .. Len(c) : shifted[i] \in Bit /\ CrcTaps[i] \in Bit
    <3> HIDE DEF shifted
    <3> QED BY <1>3 DEF Rems
  <2>2. m \in [1 .. Len(c) -> Bit]
    BY <1>2, <2>1
  <2>3. m \in Seq(Bit) /\ Len(m) = Len(c)
    <3> HIDE DEF m
    <3>1. Len(c) \in Nat
      BY DEF Rems
    <3> QED BY <2>2, <3>1
  <2>4. DOMAIN c = 1 .. Len(c)
    BY DEF Rems
  <2> QED BY <2>3, <2>4 DEF Rems
<1> HIDE DEF shifted
<1>5. UpdateBit(c, b) \in {shifted, [i \in DOMAIN c |-> XorBit(shifted[i], CrcTaps[i])]}
  BY DEF UpdateBit, shifted
<1>6. shifted \in Rems
  BY <1>3 DEF Rems
<1> QED BY <1>4, <1>5, <1>6

(***************************************************************************)
(* The remainders on the way to the last one.                              *)
(***************************************************************************)
RunsOver(r, c, s) ==
  /\ r[0] = c
  /\ \A k \in 0 .. Len(s) - 1 : r[k + 1] = UpdateBit(r[k], s[k + 1])

LEMMA RunOfRem ==
  ASSUME NEW c \in Rems, NEW s \in Seq(Bit)
  PROVE  \E r \in [0 .. Len(s) -> Rems] : RunsOver(r, c, s) /\ Rem(c, s) = r[Len(s)]
<1> DEFINE n == Len(s)
           step == [p \in (1 .. n) \X Rems |-> UpdateBit(p[2], s[p[1]])]
           Over(g) == [t \in SUBSET (1 .. n) |->
                         IF t = {} THEN c ELSE UpdateBit(g[t \ {Max(t)}], s[Max(t)])]
           iter == CHOOSE g : g = Over(g)
<1>0. n \in Nat /\ DOMAIN s = 1 .. n /\ \A k \in 1 .. n : s[k] \in Bit
  OBVIOUS
<1>1. step \in [(1 .. n) \X Rems -> Rems]
  <2>1. \A p \in (1 .. n) \X Rems : UpdateBit(p[2], s[p[1]]) \in Rems
    BY <1>0, UpdateType
  <2> QED BY <2>1
<1>2. PICK g \in [SUBSET (1 .. n) -> Rems] : FoldsOver(g, n, c, step)
  <2> HIDE DEF n, step
  <2> QED BY <1>0, <1>1, FoldExists
<1>3. g = Over(g)
  <2>1. ASSUME NEW t \in SUBSET (1 .. n), t # {}
        PROVE  g[t] = UpdateBit(g[t \ {Max(t)}], s[Max(t)])
    <3>1. Max(t) \in 1 .. n
      <4> HIDE DEF n
      <4> QED BY <1>0, <2>1, MaxIn
    <3>2. g[t \ {Max(t)}] \in Rems
      OBVIOUS
    <3>3. step[<<Max(t), g[t \ {Max(t)}]>>] = UpdateBit(g[t \ {Max(t)}], s[Max(t)])
      BY <3>1, <3>2
    <3> QED BY <1>2, <2>1, <3>3 DEF FoldsOver
  <2>2. g[{}] = c
    BY <1>2 DEF FoldsOver
  <2> QED BY <2>1, <2>2
<1>4. iter = Over(iter)
  BY <1>3
<1>5. Rem(c, s) = iter[1 .. n]
  BY <1>0 DEF Rem, FoldLeft, MapThenFoldSet
<1> HIDE DEF iter, n
<1> DEFINE r == [k \in 0 .. n |-> iter[1 .. k]]
<1>6. \A k \in 0 .. n - 1 : r[k + 1] = UpdateBit(r[k], s[k + 1])
  <2> TAKE k \in 0 .. n - 1
  <2>1. 1 .. (k + 1) \in SUBSET (1 .. n) /\ 1 .. (k + 1) # {} /\ k + 1 \in 1 .. n
    BY <1>0
  <2>2. Max(1 .. (k + 1)) = k + 1
    <3>1. Max(1 .. (k + 1)) \in 1 .. (k + 1) /\ \A y \in 1 .. (k + 1) : Max(1 .. (k + 1)) >= y
      BY <1>0, <2>1, MaxIn
    <3>2. Max(1 .. (k + 1)) >= k + 1
      BY <1>0, <3>1
    <3> QED BY <1>0, <3>1, <3>2
  <2>3. (1 .. (k + 1)) \ {k + 1} = 1 .. k
    BY <1>0
  <2>4. iter[1 .. (k + 1)] = UpdateBit(iter[1 .. k], s[k + 1])
    BY <1>4, <2>1, <2>2, <2>3
  <2> QED BY <1>0, <2>4
<1>7. r[0] = c
  <2>1. 1 .. 0 = {} /\ {} \in SUBSET (1 .. n)
    OBVIOUS
  <2> QED BY <1>0, <1>4, <2>1
<1>8. r \in [0 .. n -> Rems]
  <2> DEFINE K == {k \in 0 .. n : r[k] \in Rems}
  <2>1. 0 \in K
    BY <1>0, <1>7
  <2>2. ASSUME NEW k \in 0 .. n - 1, k \in K PROVE k + 1 \in K
    <3>1. r[k] \in Rems /\ s[k + 1] \in Bit /\ k + 1 \in 0 .. n
      BY <1>0, <2>2
    <3> QED BY <1>6, <3>1, UpdateType
  <2>3. 0 .. n \subseteq K
    <3> HIDE DEF K
    <3> QED BY <1>0, <2>1, <2>2, InductUpTo
  <2> QED BY <2>3
<1>9. RunsOver(r, c, s) /\ Rem(c, s) = r[n]
  <2>1. r[n] = iter[1 .. n]
    BY <1>0
  <2> HIDE DEF r
  <2> QED BY <1>5, <1>6, <1>7, <2>1 DEF RunsOver, n
<1> HIDE DEF r
<1>10. r \in [0 .. Len(s) -> Rems] /\ RunsOver(r, c, s) /\ Rem(c, s) = r[Len(s)]
  BY <1>8, <1>9 DEF n
<1> QED BY <1>10

(***************************************************************************)
(* They are the only ones, so bits can be folded in one part at a time.    *)
(***************************************************************************)
LEMMA RunIsRem ==
  ASSUME NEW c \in Rems, NEW s \in Seq(Bit), NEW r, RunsOver(r, c, s)
  PROVE  r[Len(s)] = Rem(c, s) /\ Rem(c, s) \in Rems
<1> DEFINE n == Len(s)
<1>1. PICK q \in [0 .. n -> Rems] : RunsOver(q, c, s) /\ Rem(c, s) = q[n]
  BY RunOfRem
<1> DEFINE K == {k \in 0 .. n : r[k] = q[k]}
<1>2. n \in Nat /\ n \in 0 .. n
  OBVIOUS
<1>3. 0 \in K
  BY <1>1, <1>2 DEF RunsOver
<1>4. ASSUME NEW k \in 0 .. n - 1, k \in K PROVE k + 1 \in K
  <2>1. k + 1 \in 0 .. n
    BY <1>2
  <2> QED BY <1>1, <1>4, <2>1 DEF RunsOver
<1>5. 0 .. n \subseteq K
  <2> HIDE DEF K, n
  <2> QED BY <1>2, <1>3, <1>4, InductUpTo
<1>6. n \in K
  <2> HIDE DEF K, n
  <2> QED BY <1>2, <1>5
<1> QED BY <1>1, <1>2, <1>6

LEMMA RemConcat ==
  ASSUME NEW c \in Rems, NEW s \in Seq(Bit), NEW t \in Seq(Bit)
  PROVE  Rem(c, s \o t) = Rem(Rem(c, s), t)
<1> DEFINE m == Len(s)
           n == Len(t)
<1>0. /\ m \in Nat /\ n \in Nat
      /\ s \o t \in Seq(Bit) /\ Len(s \o t) = m + n
      /\ \A k \in 1 .. m : (s \o t)[k] = s[k]
      /\ \A k \in 1 .. n : (s \o t)[m + k] = t[k]
  OBVIOUS
<1>1. PICK r \in [0 .. m + n -> Rems] : RunsOver(r, c, s \o t) /\ Rem(c, s \o t) = r[m + n]
  BY <1>0, RunOfRem
<1>2. \A k \in 0 .. m + n - 1 : r[k + 1] = UpdateBit(r[k], (s \o t)[k + 1])
  BY <1>0, <1>1 DEF RunsOver
<1>3. RunsOver(r, c, s)
  <2>1. \A k \in 0 .. m - 1 : k \in 0 .. m + n - 1 /\ k + 1 \in 1 .. m
    BY <1>0
  <2> QED BY <1>0, <1>1, <1>2, <2>1 DEF RunsOver
<1>4. r[m] = Rem(c, s) /\ r[m] \in Rems
  BY <1>3, RunIsRem
<1> DEFINE q == [k \in 0 .. n |-> r[m + k]]
<1>5. RunsOver(q, r[m], t)
  <2>1. q[0] = r[m]
    BY <1>0
  <2>2. ASSUME NEW k \in 0 .. n - 1 PROVE q[k + 1] = UpdateBit(q[k], t[k + 1])
    <3> HIDE DEF m, n
    <3>1. /\ m + k \in 0 .. m + n - 1 /\ k + 1 \in 1 .. n
          /\ k \in 0 .. n /\ k + 1 \in 0 .. n /\ m + (k + 1) = (m + k) + 1
      BY <1>0
    <3> QED BY <1>0, <1>2, <3>1
  <2> QED BY <2>1, <2>2 DEF RunsOver
<1>6. q[n] = Rem(r[m], t)
  BY <1>4, <1>5, RunIsRem
<1>7. q[n] = r[m + n]
  BY <1>0
<1> QED BY <1>1, <1>4, <1>6, <1>7

LEMMA RemEmpty ==
  ASSUME NEW c \in Rems
  PROVE  Rem(c, << >>) = c
<1> DEFINE r == [k \in {0} |-> c]
<1>1. RunsOver(r, c, << >>)
  BY DEF RunsOver
<1>2. r[Len(<< >>)] = Rem(c, << >>)
  <2>1. << >> \in Seq(Bit)
    OBVIOUS
  <2> HIDE DEF r
  <2> QED BY <1>1, <2>1, RunIsRem
<1> QED BY <1>2

(***************************************************************************)
(* Flits one after the other, the first ones first.                        *)
(***************************************************************************)
FlattensBy(g, ss) ==
  /\ FlattenSeq(ss) = g[Len(ss)]
  /\ g[1] = ss[1]
  /\ \A i \in 2 .. Len(ss) : g[i] = g[i - 1] \o ss[i]

LEMMA FlattenSteps ==
  ASSUME NEW S, NEW ss \in Seq(Seq(S)), Len(ss) # 0
  PROVE  \E g \in [1 .. Len(ss) -> Seq(S)] : FlattensBy(g, ss)
<1> DEFINE n == Len(ss)
           step == [p \in (1 .. n) \X Seq(S) |-> p[2] \o ss[p[1]]]
<1>0. n \in Nat \ {0} /\ \A i \in 1 .. n : ss[i] \in Seq(S)
  OBVIOUS
<1>1. step \in [(1 .. n) \X Seq(S) -> Seq(S)]
  <2>1. \A p \in (1 .. n) \X Seq(S) : p[2] \o ss[p[1]] \in Seq(S)
    BY <1>0
  <2> QED BY <2>1
<1>2. PICK r \in [0 .. n -> Seq(S)] : r[0] = << >> /\ \A i \in 1 .. n : r[i] = step[<<i, r[i - 1]>>]
  <2> DEFINE Q == Seq(S)
             e == << >>
  <2>1. e \in Q /\ step \in [(1 .. n) \X Q -> Q] /\ n \in Nat
    BY <1>0, <1>1
  <2> HIDE DEF n, step, Q, e
  <2>2. \E r \in [0 .. n -> Q] : StepsOver(r, n, e, step)
    BY <2>1, StepsExist
  <2> QED BY <2>2 DEF Q, e, StepsOver
<1> DEFINE g == [i \in 1 .. n |-> r[i]]
<1>3. \A i \in 1 .. n : g[i] \in Seq(S) /\ r[i] = r[i - 1] \o ss[i]
  <2> TAKE i \in 1 .. n
  <2>1. i - 1 \in 0 .. n /\ i \in 0 .. n
    BY <1>0
  <2>2. r[i] = step[<<i, r[i - 1]>>]
    BY <1>2
  <2> QED BY <1>2, <2>1, <2>2
<1>4. g[1] = ss[1]
  <2>1. 1 \in 1 .. n /\ 1 - 1 = 0
    BY <1>0
  <2>2. g[1] = r[0] \o ss[1]
    <3> HIDE DEF n
    <3> QED BY <1>3, <2>1
  <2> QED BY <1>0, <1>2, <2>1, <2>2
<1>5. \A i \in 2 .. n : g[i] = g[i - 1] \o ss[i]
  <2> TAKE i \in 2 .. n
  <2>1. i \in 1 .. n /\ i - 1 \in 1 .. n
    BY <1>0
  <2> QED BY <1>3, <2>1
<1> HIDE DEF step
<1> DEFINE Over(h) == [i \in 1 .. n |-> IF i = 1 THEN ss[i] ELSE h[i - 1] \o ss[i]]
           flatten == CHOOSE h : h = Over(h)
<1>6. g = Over(g)
  <2>1. ASSUME NEW i \in 1 .. n PROVE g[i] = IF i = 1 THEN ss[i] ELSE g[i - 1] \o ss[i]
    <3>1. i # 1 => i \in 2 .. n
      BY <1>0
    <3> HIDE DEF g
    <3> QED BY <1>4, <1>5, <3>1
  <2> QED BY <2>1
<1>7. flatten = Over(flatten)
  BY <1>6
<1>8. FlattenSeq(ss) = flatten[n]
  BY <1>0 DEF FlattenSeq
<1> DEFINE K == {k \in 0 .. n : k # 0 => flatten[k] = g[k]}
<1> HIDE DEF flatten, g
<1>9. 0 .. n \subseteq K
  <2>1. 0 \in K
    BY <1>0
  <2>2. ASSUME NEW k \in 0 .. n - 1, k \in K PROVE k + 1 \in K
    <3>1. k + 1 \in 1 .. n
      BY <1>0
    <3>2. CASE k = 0
      BY <1>4, <1>7, <3>1, <3>2
    <3>3. CASE k # 0
      <4>1. k + 1 \in 2 .. n /\ (k + 1) - 1 = k /\ k + 1 # 1
        BY <1>0, <3>1, <3>3
      <4>2. flatten[k + 1] = flatten[k] \o ss[k + 1]
        BY <1>7, <3>1, <4>1
      <4>3. g[k + 1] = g[k] \o ss[k + 1]
        BY <1>5, <4>1
      <4>4. flatten[k] = g[k] /\ k + 1 \in 0 .. n
        BY <1>0, <2>2, <3>3
      <4> QED BY <4>2, <4>3, <4>4
    <3> QED BY <3>2, <3>3
  <2> HIDE DEF K
  <2> QED BY <1>0, <2>1, <2>2, InductUpTo
<1>10. flatten[n] = g[n]
  BY <1>0, <1>9
<1>11. g \in [1 .. n -> Seq(S)]
  BY <1>3 DEF g
<1>12. FlattensBy(g, ss)
  BY <1>4, <1>5, <1>8, <1>10 DEF FlattensBy
<1> HIDE DEF Over, K
<1> QED BY <1>11, <1>12

LEMMA FlattenAppend ==
  ASSUME NEW S, NEW ss \in Seq(Seq(S)), NEW s \in Seq(S)
  PROVE  /\ FlattenSeq(ss) \in Seq(S)
         /\ FlattenSeq(Append(ss, s)) = FlattenSeq(ss) \o s
<1> DEFINE n == Len(ss)
           tt == Append(ss, s)
<1>0. /\ n \in Nat /\ tt \in Seq(Seq(S)) /\ Len(tt) = n + 1 /\ Len(tt) # 0
      /\ tt[n + 1] = s /\ \A i \in 1 .. n : tt[i] = ss[i]
  OBVIOUS
<1>1. PICK h \in [1 .. n + 1 -> Seq(S)] :
        /\ FlattenSeq(tt) = h[n + 1]
        /\ h[1] = tt[1]
        /\ \A i \in 2 .. n + 1 : h[i] = h[i - 1] \o tt[i]
  <2> HIDE DEF tt, n
  <2>1. \E h \in [1 .. Len(tt) -> Seq(S)] : FlattensBy(h, tt)
    BY <1>0, FlattenSteps
  <2> QED BY <1>0, <2>1 DEF FlattensBy
<1>2. CASE n = 0
  <2>1. FlattenSeq(ss) = << >>
    BY <1>2 DEF FlattenSeq
  <2>2. FlattenSeq(tt) = s
    BY <1>0, <1>1, <1>2
  <2> QED BY <2>1, <2>2
<1>3. CASE n # 0
  <2>1. PICK g \in [1 .. n -> Seq(S)] :
          /\ FlattenSeq(ss) = g[n]
          /\ g[1] = ss[1]
          /\ \A i \in 2 .. n : g[i] = g[i - 1] \o ss[i]
    <3>1. \E g \in [1 .. n -> Seq(S)] : FlattensBy(g, ss)
      BY <1>3, FlattenSteps
    <3> QED BY <3>1 DEF FlattensBy
  <2> DEFINE K == {k \in 0 .. n : k # 0 => h[k] = g[k]}
  <2>2. 0 .. n \subseteq K
    <3>1. 0 \in K
      BY <1>0
    <3>2. ASSUME NEW k \in 0 .. n - 1, k \in K PROVE k + 1 \in K
      <4>1. k + 1 \in 1 .. n /\ k + 1 \in 0 .. n /\ tt[k + 1] = ss[k + 1]
        BY <1>0
      <4>2. CASE k = 0
        BY <1>1, <2>1, <4>1, <4>2
      <4>3. CASE k # 0
        <5> HIDE DEF tt
        <5>1. k + 1 \in 2 .. n /\ k + 1 \in 2 .. n + 1 /\ (k + 1) - 1 = k
          BY <1>0, <4>3
        <5>2. h[k + 1] = h[k] \o tt[k + 1] /\ g[k + 1] = g[k] \o ss[k + 1]
          BY <1>1, <2>1, <5>1
        <5> QED BY <3>2, <4>1, <4>3, <5>2
      <4> QED BY <4>2, <4>3
    <3> HIDE DEF K, tt, n
    <3> QED BY <1>0, <3>1, <3>2, InductUpTo
  <2>3. h[n] = g[n]
    BY <1>0, <1>3, <2>2
  <2>4. n + 1 \in 2 .. n + 1 /\ (n + 1) - 1 = n /\ n \in 1 .. n
    BY <1>0, <1>3
  <2>5. h[n + 1] = h[n] \o s
    <3> HIDE DEF tt
    <3> QED BY <1>0, <1>1, <2>4
  <2> QED BY <1>1, <2>1, <2>3, <2>4, <2>5
<1> QED BY <1>2, <1>3

WholeBits(flits) == [i \in DOMAIN flits |-> flits[i].data \o WordBits(flits[i].word)]

LEMMA FlitBits ==
  ASSUME NEW f \in BcrcFlits
  PROVE  f.data \in Seq(Bit) /\ WordBits(f.word) \in Seq(Bit)
  BY BcrcAssumption DEF WordBits

LEMMA AppendIs ==
  ASSUME NEW S, NEW s \in Seq(S), NEW z \in S
  PROVE  Append(s, z) = [i \in 1 .. Len(s) + 1 |-> IF i = Len(s) + 1 THEN z ELSE s[i]]
<1> DEFINE n == Len(s)
           a == Append(s, z)
<1>1. n \in Nat /\ a \in Seq(S) /\ Len(a) = n + 1 /\ a[n + 1] = z /\ \A i \in 1 .. n : a[i] = s[i]
  OBVIOUS
<1> HIDE DEF n, a
<1>2. a \in [1 .. n + 1 -> S]
  BY <1>1
<1>3. \A i \in 1 .. n + 1 : a[i] = IF i = n + 1 THEN z ELSE s[i]
  BY <1>1
<1>4. a = [i \in 1 .. n + 1 |-> IF i = n + 1 THEN z ELSE s[i]]
  BY <1>2, <1>3
<1> QED BY <1>4 DEF n, a

LEMMA WholeAppend ==
  ASSUME NEW b \in Seq(BcrcFlits), NEW f \in BcrcFlits
  PROVE  /\ WholeBits(b) \in Seq(Seq(Bit))
         /\ WholeBits(Append(b, f)) = Append(WholeBits(b), f.data \o WordBits(f.word))
         /\ PayloadBits(Append(b, f)) = FlattenSeq(Append(WholeBits(b), f.data))
<1> DEFINE n == Len(b)
           whole(x) == x.data \o WordBits(x.word)
<1>0. /\ n \in Nat /\ DOMAIN b = 1 .. n /\ \A i \in 1 .. n : b[i] \in BcrcFlits
      /\ DOMAIN Append(b, f) = 1 .. n + 1 /\ Len(Append(b, f)) = n + 1
      /\ \A i \in 1 .. n : Append(b, f)[i] = b[i]
      /\ Append(b, f)[n + 1] = f
  OBVIOUS
<1>1. \A x \in BcrcFlits : whole(x) \in Seq(Bit)
  BY FlitBits
<1> HIDE DEF n, whole
<1>2. WholeBits(b) = [i \in 1 .. n |-> whole(b[i])]
  BY <1>0 DEF WholeBits, whole
<1>3. WholeBits(b) \in [1 .. n -> Seq(Bit)]
  BY <1>0, <1>1, <1>2
<1>4. WholeBits(b) \in Seq(Seq(Bit)) /\ Len(WholeBits(b)) = n
  BY <1>0, <1>3
<1>5. \A z \in Seq(Bit) : Append(WholeBits(b), z) =
               [i \in 1 .. n + 1 |-> IF i = n + 1 THEN z ELSE WholeBits(b)[i]]
  <2> DEFINE S == Seq(Bit)
             w == WholeBits(b)
  <2>1. w \in Seq(S) /\ Len(w) = n
    BY <1>4
  <2> HIDE DEF S, w
  <2>2. \A z \in S : Append(w, z) = [i \in 1 .. Len(w) + 1 |-> IF i = Len(w) + 1 THEN z ELSE w[i]]
    BY <2>1, AppendIs
  <2> QED BY <2>1, <2>2 DEF S, w
<1>6. WholeBits(Append(b, f)) = [i \in 1 .. n + 1 |-> whole(Append(b, f)[i])]
  BY <1>0 DEF WholeBits, whole
<1>7. \A i \in 1 .. n + 1 : i # n + 1 => i \in 1 .. n
  BY <1>0
<1>8. WholeBits(Append(b, f)) = Append(WholeBits(b), whole(f))
  BY <1>0, <1>1, <1>2, <1>5, <1>6, <1>7
<1>9. [i \in DOMAIN Append(b, f) |->
        IF i = Len(Append(b, f)) THEN Append(b, f)[i].data
        ELSE Append(b, f)[i].data \o WordBits(Append(b, f)[i].word)]
      = Append(WholeBits(b), f.data)
  <2>1. f.data \in Seq(Bit)
    BY FlitBits
  <2>2. Append(WholeBits(b), f.data) =
          [i \in 1 .. n + 1 |-> IF i = n + 1 THEN f.data ELSE WholeBits(b)[i]]
    BY <1>5, <2>1
  <2>3. \A i \in 1 .. n : WholeBits(b)[i] = b[i].data \o WordBits(b[i].word)
    BY <1>2 DEF whole
  <2> QED BY <1>0, <1>7, <2>2, <2>3
<1>10. PayloadBits(Append(b, f)) = FlattenSeq(Append(WholeBits(b), f.data))
  BY <1>9 DEF PayloadBits
<1> QED BY <1>4, <1>8, <1>10 DEF whole

BlockRem(b) == Rem(CrcInit, FlattenSeq(WholeBits(b)))

LEMMA InitRem == CrcInit \in Rems
<1>1. CrcInit \in [1 .. Len(CrcTaps) -> Bit] /\ Len(CrcTaps) \in Nat
  BY BcrcAssumption DEF CrcInit, Bit
<1> QED BY <1>1 DEF Rems

(***************************************************************************)
(* The remainder over the bits of a block, flit by flit.                   *)
(***************************************************************************)
LEMMA BlockRemAbsorbs ==
  ASSUME NEW b \in Seq(BcrcFlits), NEW f \in BcrcFlits
  PROVE  /\ Absorb(BlockRem(b), f, FALSE) = BlockRem(Append(b, f))
         /\ Absorb(BlockRem(b), f, TRUE) = Crc30OfFlits(Append(b, f))
<1>1. FlattenSeq(WholeBits(b)) \in Seq(Bit)
  <2>1. WholeBits(b) \in Seq(Seq(Bit)) /\ f.data \in Seq(Bit)
    BY WholeAppend, FlitBits
  <2> QED BY <2>1, FlattenAppend
<1>2. /\ f.data \in Seq(Bit) /\ f.data \o WordBits(f.word) \in Seq(Bit)
  BY FlitBits
<1>3. \A s \in Seq(Bit) : Rem(CrcInit, FlattenSeq(Append(WholeBits(b), s))) = Rem(BlockRem(b), s)
  <2> TAKE s \in Seq(Bit)
  <2>1. WholeBits(b) \in Seq(Seq(Bit))
    BY WholeAppend
  <2>2. FlattenSeq(Append(WholeBits(b), s)) = FlattenSeq(WholeBits(b)) \o s
    BY <2>1, FlattenAppend
  <2> QED BY <1>1, <2>2, RemConcat, InitRem DEF BlockRem
<1>4. /\ Absorb(BlockRem(b), f, FALSE) = Rem(BlockRem(b), f.data \o WordBits(f.word))
      /\ Absorb(BlockRem(b), f, TRUE) = Rem(BlockRem(b), f.data)
  BY DEF Absorb, Rem
<1>5. /\ BlockRem(Append(b, f)) = Rem(CrcInit, FlattenSeq(Append(WholeBits(b), f.data \o WordBits(f.word))))
      /\ Crc30OfFlits(Append(b, f)) = Rem(CrcInit, FlattenSeq(Append(WholeBits(b), f.data)))
  BY WholeAppend DEF BlockRem, Crc30OfFlits, Rem
<1> QED BY <1>2, <1>3, <1>4, <1>5

LEMMA BlockRemStart == BlockRem(<< >>) = CrcInit
<1>1. FlattenSeq(WholeBits(<< >>)) = << >>
  BY DEF FlattenSeq, WholeBits
<1> QED BY <1>1, RemEmpty, InitRem DEF BlockRem

WordInv ==
  /\ block \in Seq(BcrcFlits)
  /\ crc = BlockRem(block)
  /\ WordIsOfItsBlock

(***************************************************************************)
(* A block's remainder grows with it in the register, and the word of the  *)
(* last block stays until the next one ends.                               *)
(***************************************************************************)
LEMMA ClkWord ==
  ASSUME WordInv, NEW start \in BOOLEAN, NEW valid \in BOOLEAN, NEW last \in BOOLEAN,
         NEW flit \in BcrcFlits, BcrcClk(start, valid, flit, last)
  PROVE  WordInv'
<1> DEFINE seed == IF start THEN CrcInit ELSE crc
           before == IF start THEN << >> ELSE block
           nxt == Absorb(seed, flit, last)
<1>1. before \in Seq(BcrcFlits) /\ seed = BlockRem(before)
  BY BlockRemStart DEF WordInv
<1>2. /\ crc' = CASE valid /\ last     -> CrcInit
                 [] valid /\ ~last    -> nxt
                 [] ~valid            -> seed
      /\ crc_word' = IF valid /\ last THEN [crc |-> nxt, error_flag |-> 0] ELSE crc_word
      /\ block' = CASE valid /\ last  -> << >>
                   [] valid /\ ~last -> Append(before, flit)
                   [] ~valid         -> before
      /\ finished' = IF valid /\ last THEN Append(before, flit) ELSE finished
  BY DEF BcrcClk, Bcrc, BlockSoFar
<1> HIDE DEF seed, before
<1>3. CASE valid /\ last
  <2>1. crc' = CrcInit /\ block' = << >> /\ finished' = Append(before, flit)
        /\ crc_word'.crc = Absorb(seed, flit, TRUE)
    BY <1>2, <1>3
  <2>2. crc_word'.crc = Crc30OfFlits(finished')
    BY <1>1, <2>1, BlockRemAbsorbs
  <2>3. block' \in Seq(BcrcFlits) /\ crc' = BlockRem(block')
    BY <2>1, BlockRemStart
  <2> QED BY <2>2, <2>3 DEF WordInv, WordIsOfItsBlock
<1>4. CASE valid /\ ~last
  <2>1. crc' = Absorb(seed, flit, FALSE) /\ block' = Append(before, flit)
        /\ crc_word' = crc_word /\ finished' = finished
    BY <1>2, <1>4
  <2>2. Absorb(seed, flit, FALSE) = BlockRem(Append(before, flit))
        /\ Append(before, flit) \in Seq(BcrcFlits)
    <3>1. Append(before, flit) \in Seq(BcrcFlits)
      BY <1>1
    <3>2. Absorb(BlockRem(before), flit, FALSE) = BlockRem(Append(before, flit))
      BY <1>1, BlockRemAbsorbs
    <3> QED BY <1>1, <3>1, <3>2
  <2>3. crc' = BlockRem(block') /\ block' \in Seq(BcrcFlits)
    BY <2>1, <2>2
  <2> QED BY <2>1, <2>3 DEF WordInv, WordIsOfItsBlock
<1>5. CASE ~valid
  <2>1. crc' = seed /\ block' = before /\ crc_word' = crc_word /\ finished' = finished
    BY <1>2, <1>5
  <2> QED BY <1>1, <2>1 DEF WordInv, WordIsOfItsBlock
<1> QED BY <1>3, <1>4, <1>5

(***************************************************************************)
(* The word is the remainder over the last block that ended, for every     *)
(* polynomial and block: the netlist computes what crc30_of_flits does.    *)
(***************************************************************************)
THEOREM WordOfItsBlock == BcrcSpec => []WordIsOfItsBlock
<1>1. BcrcInit => WordInv
  BY BlockRemStart DEF BcrcInit, WordInv, WordIsOfItsBlock
<1>2. WordInv /\ [BcrcNext]_bcrcVars => WordInv'
  <2> SUFFICES ASSUME WordInv, [BcrcNext]_bcrcVars PROVE WordInv'
    OBVIOUS
  <2>1. CASE BcrcReset
    BY <2>1, BlockRemStart DEF BcrcReset, WordInv, WordIsOfItsBlock
  <2>2. CASE UNCHANGED bcrcVars
    BY <2>2 DEF bcrcVars, WordInv, WordIsOfItsBlock
  <2> QED BY <2>1, <2>2, ClkWord DEF BcrcNext
<1>3. WordInv => WordIsOfItsBlock
  BY DEF WordInv
<1> QED BY <1>1, <1>2, <1>3, PTL DEF BcrcSpec

-----------------------------------------------------------------------------
USE DecAssumption

Words == Inputs \cup {ZeroWord}

-----------------------------------------------------------------------------
LEMMA TypeInit == Init => TypeOK
<1>1. 0 \in 0 .. LastIbmCycle
  BY DEF LastIbmCycle
<1> QED BY <1>1, Zenon DEF Init, DecInit, TypeOK, Maybe

LEMMA FsmType ==
  ASSUME TypeOK, Fsm
  PROVE /\ state' \in {"IDLE", "IBM", "CHIEN", "DONE"}
        /\ cw_reg' \in Words
        /\ syndromes_zero_q' \in BOOLEAN /\ valid_out' \in BOOLEAN /\ fec_fail' \in BOOLEAN
        /\ ibm_start' \in BOOLEAN /\ chien_start' \in BOOLEAN
<1> USE DEF TypeOK, Words
<1>1. CASE AcceptClean \/ AcceptErrored
  BY <1>1 DEF AcceptClean, AcceptErrored
<1>2. CASE Wait
  BY <1>2 DEF Wait
<1>3. CASE Solved \/ Searched
  BY <1>3 DEF Solved, Searched
<1>4. CASE Deliver
  BY <1>4 DEF Deliver
<1> QED BY <1>1, <1>2, <1>3, <1>4 DEF Fsm

LEMMA IbmType ==
  ASSUME TypeOK, Ibm
  PROVE /\ ibm_s' \in Words
        /\ ibm_active' \in BOOLEAN /\ ibm_done' \in BOOLEAN
        /\ cycle_cnt' \in 0 .. LastIbmCycle
        /\ lambda' \in Maybe(Words)
<1> USE DEF TypeOK, Words, Maybe
<1>0. 0 \in 0 .. LastIbmCycle
      /\ \A n \in 0 .. LastIbmCycle : n # LastIbmCycle => n + 1 \in 0 .. LastIbmCycle
  BY DEF LastIbmCycle
<1>1. CASE IbmStart
  BY <1>0, <1>1, Zenon DEF IbmStart
<1>2. CASE IbmIterate
  <2>1. CASE cycle_cnt = LastIbmCycle
    BY <1>2, <2>1, Zenon DEF IbmIterate
  <2>2. CASE cycle_cnt # LastIbmCycle
    BY <1>0, <1>2, <2>2, Zenon DEF IbmIterate
  <2> QED BY <2>1, <2>2
<1>3. CASE IbmRest
  BY <1>3 DEF IbmRest
<1> QED BY <1>1, <1>2, <1>3 DEF Ibm

LEMMA ChienType ==
  ASSUME TypeOK, Chien
  PROVE /\ chien_eval' \in Maybe(Words)
        /\ chien_active' \in BOOLEAN /\ chien_done' \in BOOLEAN
        /\ error_magnitudes' \in Maybe(Words)
<1> USE DEF TypeOK, Words
<1>1. CASE ChienStart
  BY <1>1 DEF ChienStart
<1>2. CASE ChienMagnitudes
  BY <1>2 DEF ChienMagnitudes
<1>3. CASE ChienRest
  BY <1>3 DEF ChienRest
<1> QED BY <1>1, <1>2, <1>3 DEF Chien

LEMMA TypeStep == TypeOK /\ [Next]_vars => TypeOK'
<1> SUFFICES ASSUME TypeOK, [Next]_vars PROVE TypeOK'
  OBVIOUS
<1>1. CASE Clk
  BY <1>1, FsmType, IbmType, ChienType DEF Clk, DecClk, DrivePort, TypeOK, Words
<1>2. CASE Reset
  <2>1. 0 \in 0 .. LastIbmCycle
    BY DEF LastIbmCycle
  <2> QED BY <1>2, <2>1, Zenon DEF Reset, DecReset, DrivePort, TypeOK, Maybe
<1>3. CASE UNCHANGED vars
  BY <1>3 DEF vars, decVars, port, control, output, ibm, chien, TypeOK
<1> QED BY <1>1, <1>2, <1>3 DEF Next

(* The registers of the decoder and its blocks keep their types.           *)
THEOREM TypeCorrect == Spec => []TypeOK
BY TypeInit, TypeStep, PTL DEF Spec

-----------------------------------------------------------------------------
\* Exactly one of three flags is up.
One(a, b, c) == (a /\ ~b /\ ~c) \/ (~a /\ b /\ ~c) \/ (~a /\ ~b /\ c)

IbmQuiet == ~ibm_start /\ ~ibm_active /\ ~ibm_done
ChienQuiet == ~chien_start /\ ~chien_active /\ ~chien_done

\* The handshakes between the state machine and its blocks.
Handshakes ==
  /\ state \in {"IDLE", "DONE"} => IbmQuiet /\ ChienQuiet
  /\ state = "IBM" => One(ibm_start, ibm_active, ibm_done) /\ ChienQuiet
  /\ state = "CHIEN" => One(chien_start, chien_active, chien_done) /\ IbmQuiet

\* The word whose syndromes the solver captured is carried along.
Carried ==
  /\ state = "IBM" /\ ibm_done => lambda = ibm_s
  /\ state = "CHIEN" /\ chien_start => lambda = ibm_s
  /\ state = "CHIEN" /\ chien_active => chien_eval = ibm_s
  /\ state = "CHIEN" /\ chien_done => error_magnitudes = ibm_s
  /\ state = "DONE" /\ ~syndromes_zero_q => error_magnitudes = ibm_s

\* Whether the word accepted was clean is remembered until it is put out.
Remembered ==
  /\ state # "IDLE" => (syndromes_zero_q <=> SyndromesZero(cw_reg))
  /\ state \in {"IBM", "CHIEN"} => ~syndromes_zero_q

DecInv == TypeOK /\ Handshakes /\ Carried /\ Remembered /\ Faithful

LEMMA DecStart == Init => DecInv
BY TypeInit
   DEF Init, DecInit, DecInv, Handshakes, IbmQuiet, ChienQuiet, Carried, Remembered, Faithful

\* What one edge does to the solver's flags and results.
LEMMA IbmEdge ==
  ASSUME Ibm
  PROVE /\ ibm_start => ibm_active' /\ ~ibm_done'
        /\ ~ibm_start /\ ibm_active /\ ~ibm_done =>
             \/ ibm_active' /\ ~ibm_done'
             \/ ~ibm_active' /\ ibm_done' /\ lambda' = ibm_s'
        /\ ~ibm_start /\ ~ibm_active =>
             ~ibm_active' /\ ~ibm_done' /\ lambda' = lambda /\ ibm_s' = ibm_s
<1>1. CASE IbmStart
  BY <1>1, Zenon DEF IbmStart
<1>2. CASE IbmIterate
  BY <1>2, Zenon DEF IbmIterate
<1>3. CASE IbmRest
  BY <1>3, Zenon DEF IbmRest
<1> QED BY <1>1, <1>2, <1>3, Zenon DEF Ibm

\* What one edge does to the search's flags and results.
LEMMA ChienEdge ==
  ASSUME Chien
  PROVE /\ chien_start => chien_active' /\ ~chien_done' /\ chien_eval' = lambda
        /\ ~chien_start /\ chien_active =>
             ~chien_active' /\ chien_done' /\ error_magnitudes' = chien_eval
        /\ ~chien_start /\ ~chien_active =>
             ~chien_active' /\ ~chien_done' /\ error_magnitudes' = error_magnitudes
<1>1. CASE ChienStart
  BY <1>1, Zenon DEF ChienStart
<1>2. CASE ChienMagnitudes
  BY <1>2, Zenon DEF ChienMagnitudes
<1>3. CASE ChienRest
  BY <1>3, Zenon DEF ChienRest
<1> QED BY <1>1, <1>2, <1>3, Zenon DEF Chien

\* What one edge does to the state machine's state and start pulses.
LEMMA FsmEdge ==
  ASSUME Fsm
  PROVE \/ state = "IDLE" /\ state' = "DONE" /\ ~ibm_start' /\ ~chien_start'
           /\ syndromes_zero_q'
        \/ state = "IDLE" /\ state' = "IBM" /\ ibm_start' /\ ~chien_start'
        \/ /\ state' = state /\ ~ibm_start' /\ ~chien_start'
           /\ \/ state = "IDLE"
              \/ state = "IBM" /\ ~ibm_done
              \/ state = "CHIEN" /\ ~chien_done
        \/ state = "IBM" /\ ibm_done /\ state' = "CHIEN" /\ ~ibm_start' /\ chien_start'
        \/ state = "CHIEN" /\ chien_done /\ state' = "DONE" /\ ~ibm_start' /\ ~chien_start'
        \/ state = "DONE" /\ state' = "IDLE" /\ ~ibm_start' /\ ~chien_start'
<1>1. CASE AcceptClean
  BY <1>1, Zenon DEF AcceptClean
<1>2. CASE AcceptErrored
  BY <1>2, Zenon DEF AcceptErrored
<1>3. CASE Wait
  BY <1>3, Zenon DEF Wait
<1>4. CASE Solved
  BY <1>4, Zenon DEF Solved
<1>5. CASE Searched
  BY <1>5, Zenon DEF Searched
<1>6. CASE Deliver
  BY <1>6, Zenon DEF Deliver
<1> QED BY <1>1, <1>2, <1>3, <1>4, <1>5, <1>6 DEF Fsm

LEMMA HandshakesStep == ASSUME TypeOK, Handshakes, DecClk PROVE Handshakes'
<1>1. state \in {"IDLE", "IBM", "CHIEN", "DONE"}
  BY DEF TypeOK
<1>2. CASE state \in {"IDLE", "DONE"}
  BY <1>2, FsmEdge, IbmEdge, ChienEdge DEF DecClk, Handshakes, IbmQuiet, ChienQuiet, One
<1>3. CASE state = "IBM"
  BY <1>3, FsmEdge, IbmEdge, ChienEdge DEF DecClk, Handshakes, IbmQuiet, ChienQuiet, One
<1>4. CASE state = "CHIEN"
  BY <1>4, FsmEdge, IbmEdge, ChienEdge DEF DecClk, Handshakes, IbmQuiet, ChienQuiet, One
<1> QED BY <1>1, <1>2, <1>3, <1>4

LEMMA CarriedStep ==
  ASSUME TypeOK, Handshakes, Carried, DecClk PROVE Carried'
<1>1. state \in {"IDLE", "IBM", "CHIEN", "DONE"}
  BY DEF TypeOK
<1>2. CASE state \in {"IDLE", "DONE"}
  BY <1>2, FsmEdge, IbmEdge DEF DecClk, Handshakes, IbmQuiet, Carried
<1>3. CASE state = "IBM"
  BY <1>3, FsmEdge, IbmEdge, ChienEdge
     DEF DecClk, Handshakes, IbmQuiet, ChienQuiet, One, Carried
<1>4. CASE state = "CHIEN"
  BY <1>4, FsmEdge, IbmEdge, ChienEdge
     DEF DecClk, Handshakes, IbmQuiet, ChienQuiet, One, Carried
<1> QED BY <1>1, <1>2, <1>3, <1>4

LEMMA RememberedStep == ASSUME Remembered, Fsm PROVE Remembered'
<1> USE DEF Remembered
<1>1. CASE AcceptClean \/ AcceptErrored
  BY <1>1 DEF AcceptClean, AcceptErrored
<1>2. CASE Wait
  BY <1>2 DEF Wait
<1>3. CASE Solved \/ Searched
  BY <1>3 DEF Solved, Searched
<1>4. CASE Deliver
  BY <1>4 DEF Deliver
<1> QED BY <1>1, <1>2, <1>3, <1>4 DEF Fsm

LEMMA FaithfulStep ==
  ASSUME Handshakes, Carried, Remembered, DecClk PROVE Faithful'
<1>1. CASE Deliver
  <2>1. /\ cw_reg' = cw_reg
        /\ msg_out' = IF syndromes_zero_q THEN MsgBytes(cw_reg)
                                          ELSE Corrected(cw_reg, error_magnitudes)
    BY <1>1 DEF Deliver
  <2>2. ibm_s' = ibm_s
    BY <1>1 DEF Deliver, Handshakes, IbmQuiet, DecClk, Ibm, IbmStart, IbmIterate, IbmRest
  <2>3. CASE syndromes_zero_q
    <3>1. SyndromesZero(cw_reg)
      BY <1>1, <2>3 DEF Deliver, Remembered
    <3> QED BY <2>1, <2>3, <3>1 DEF Faithful, MsgBytes
  <2>4. CASE ~syndromes_zero_q
    <3>1. error_magnitudes = ibm_s /\ ~SyndromesZero(cw_reg)
      BY <1>1, <2>4 DEF Deliver, Carried, Remembered
    <3>2. Correctable(cw_reg) /\ ibm_s = cw_reg => msg_out' = MsgOf(cw_reg)
      BY <2>1, <2>4, <3>1 DEF Corrected
    <3> QED BY <2>1, <2>2, <3>1, <3>2 DEF Faithful
  <2> QED BY <2>3, <2>4
<1>2. CASE ~Deliver
  <2>1. valid_out' = FALSE
    BY <1>2 DEF DecClk, Fsm, AcceptClean, AcceptErrored, Wait, Solved, Searched
  <2> QED BY <2>1 DEF Faithful
<1> QED BY <1>1, <1>2

LEMMA DecStep == DecInv /\ [Next]_vars => DecInv'
<1> SUFFICES ASSUME DecInv, [Next]_vars PROVE DecInv'
  OBVIOUS
<1>1. TypeOK'
  BY TypeStep DEF DecInv
<1>2. CASE Clk
  BY <1>1, <1>2, HandshakesStep, CarriedStep, RememberedStep, FaithfulStep
     DEF DecInv, Clk, DecClk
<1>3. CASE Reset
  BY <1>1, <1>3
     DEF DecInv, Reset, DecReset, Handshakes, IbmQuiet, ChienQuiet, Carried, Remembered,
         Faithful
<1>4. CASE UNCHANGED vars
  BY <1>1, <1>4
     DEF DecInv, vars, decVars, port, control, output, ibm, chien, Handshakes, IbmQuiet,
         ChienQuiet, One, Carried, Remembered, Faithful
<1> QED BY <1>2, <1>3, <1>4 DEF Next

(* Whatever stands on the port, and whenever: a word within the capability *)
(* of the code whose syndromes the solver captured comes out as the        *)
(* message it encodes, and so does every clean word.                       *)
THEOREM DecoderFaithful == Spec => []Faithful
<1>1. DecInv => Faithful
  BY DEF DecInv
<1> QED BY <1>1, DecStart, DecStep, PTL DEF Spec
-----------------------------------------------------------------------------
\* Edges until the word in the decoder is put out, 0 when there is none.
Left ==
  CASE state = "IDLE" -> 0
    [] state = "DONE" -> 1
    [] state = "CHIEN" -> IF chien_done THEN 2 ELSE IF chien_active THEN 3 ELSE 4
    [] state = "IBM" -> IF ibm_done THEN 5 ELSE IF ibm_active THEN 9 - cycle_cnt ELSE 10

LEMMA LeftRange ==
  ASSUME TypeOK, Handshakes
  PROVE  Left \in 0 .. 10 /\ (Left = 0 <=> state = "IDLE")
  BY DEF TypeOK, LastIbmCycle, Left

\* The solver's counter takes it four cycles from its start.
LEMMA IbmCounts ==
  ASSUME Ibm, cycle_cnt \in 0 .. 3
  PROVE  /\ ibm_start => cycle_cnt' = 0
         /\ ~ibm_start /\ ibm_active /\ cycle_cnt # 3 =>
              cycle_cnt' = cycle_cnt + 1 /\ ibm_active' /\ (ibm_done' <=> ibm_done)
         /\ ~ibm_start /\ ibm_active /\ cycle_cnt = 3 => ibm_done'
<1>1. CASE IbmStart
  BY <1>1 DEF IbmStart
<1>2. CASE IbmIterate
  <2>1. cycle_cnt = 3 => ibm_done'
    BY <1>2, Zenon DEF IbmIterate, LastIbmCycle
  <2>2. cycle_cnt # 3 => ibm_active' /\ (ibm_done' <=> ibm_done)
    BY <1>2, Zenon DEF IbmIterate, LastIbmCycle
  <2>3. cycle_cnt # 3 => cycle_cnt' = cycle_cnt + 1
    BY <1>2 DEF IbmIterate, LastIbmCycle
  <2> QED BY <1>2, <2>1, <2>2, <2>3 DEF IbmIterate
<1>3. CASE IbmRest
  BY <1>3 DEF IbmRest
<1> QED BY <1>1, <1>2, <1>3 DEF Ibm

LEMMA DrainEdge ==
  ASSUME TypeOK, Handshakes, DecClk, state # "IDLE" PROVE Left' = Left - 1
<1>1. state \in {"IBM", "CHIEN", "DONE"} /\ cycle_cnt \in 0 .. 3 /\ Fsm /\ Ibm /\ Chien
  BY DEF TypeOK, LastIbmCycle, DecClk
<1>2. CASE state = "DONE"
  <2>1. state' = "IDLE"
    BY <1>1, <1>2, FsmEdge
  <2> QED BY <1>2, <2>1 DEF Left
<1>3. CASE state = "CHIEN" /\ chien_done
  <2>1. state' = "DONE"
    BY <1>1, <1>3, FsmEdge
  <2> QED BY <1>3, <2>1 DEF Left
<1>4. CASE state = "CHIEN" /\ ~chien_done
  <2>1. state' = "CHIEN"
    BY <1>1, <1>4, FsmEdge
  <2>2. (chien_start /\ ~chien_active) \/ (~chien_start /\ chien_active)
    BY <1>4 DEF Handshakes, One
  <2>3. /\ chien_start => chien_active' /\ ~chien_done'
        /\ ~chien_start => chien_done'
    BY <1>1, <2>2, ChienEdge
  <2> QED BY <1>4, <2>1, <2>2, <2>3 DEF Left
<1>5. CASE state = "IBM" /\ ibm_done
  <2>1. state' = "CHIEN"
    BY <1>1, <1>5, FsmEdge
  <2>2. ~chien_start /\ ~chien_active
    BY <1>5 DEF Handshakes, ChienQuiet
  <2>3. ~chien_active' /\ ~chien_done'
    BY <1>1, <2>2, ChienEdge
  <2> QED BY <1>5, <2>1, <2>3 DEF Left
<1>6. CASE state = "IBM" /\ ~ibm_done
  <2>1. state' = "IBM"
    BY <1>1, <1>6, FsmEdge
  <2>2. CASE ibm_start
    <3>1. ibm_active' /\ ~ibm_done' /\ cycle_cnt' = 0 /\ ~ibm_active
      BY <1>1, <1>6, <2>2, IbmEdge, IbmCounts DEF Handshakes, One
    <3> QED BY <1>6, <2>1, <3>1 DEF Left
  <2>3. CASE ~ibm_start
    <3>1. ibm_active
      BY <1>6, <2>3 DEF Handshakes, One
    <3>2. /\ cycle_cnt # 3 => cycle_cnt' = cycle_cnt + 1 /\ ibm_active' /\ ~ibm_done'
          /\ cycle_cnt = 3 => ibm_done'
      BY <1>1, <1>6, <2>3, <3>1, IbmCounts
    <3> QED BY <1>1, <1>6, <2>1, <3>1, <3>2 DEF Left
  <2> QED BY <2>2, <2>3
<1> QED BY <1>1, <1>2, <1>3, <1>4, <1>5, <1>6

(* Every clock edge takes one off the cycles that the decoder has left for *)
(* the word it works on, whatever stands on its port meanwhile: it is idle *)
(* again after at most ten.  This is what BecomesIdle needs beside a clock *)
(* that keeps running: no start or done pulse between the three blocks is  *)
(* lost.                                                                   *)
THEOREM DecoderDrains ==
  Spec => /\ [](Left \in 0 .. 10 /\ (Left = 0 <=> state = "IDLE"))
          /\ [][Reset \/ (state # "IDLE" => Left' = Left - 1)]_vars
<1>1. DecInv => Left \in 0 .. 10 /\ (Left = 0 <=> state = "IDLE")
  BY LeftRange DEF DecInv
<1>2. DecInv /\ [Next]_vars => [Reset \/ (state # "IDLE" => Left' = Left - 1)]_vars
  BY DrainEdge DEF DecInv, Next, Clk
<1> QED BY <1>1, <1>2, DecStart, DecStep, PTL DEF Spec
=============================================================================
