----------------------------- MODULE UbPcsFec ------------------------------
(***************************************************************************)
(* The golden model of the FEC (tb/models/ub_pcs_fec.py): the systematic   *)
(* Reed-Solomon encoder and the decoder by Berlekamp-Massey, Chien and     *)
(* Forney, for codes of any length over any field GF(2^m).                 *)
(*                                                                         *)
(* Polynomials are sequences from the lowest power, words from the         *)
(* highest, as they are sent.                                              *)
(***************************************************************************)
EXTENDS Integers, Sequences, FiniteSets, SequencesExt, Bitwise

CONSTANTS
  FecN, FecK,   \* symbols of a codeword, of a message
  GfSize,       \* elements of the field, a power of 2
  PrimPoly,     \* its primitive polynomial
  Messages,     \* messages sent
  Errors        \* what the line adds to a codeword

TwoT == FecN - FecK

ASSUME FecAssumption ==
  /\ FecN \in Nat /\ FecK \in 1 .. FecN - 1 /\ TwoT % 4 = 0
  /\ GfSize \in Nat /\ PrimPoly \in Nat /\ FecN < GfSize

VARIABLES fec_mode, fec_message, fec_received, fec_result

fecVars == << fec_mode, fec_message, fec_received, fec_result >>

-----------------------------------------------------------------------------
(* GF(2^m).                                                                *)

Symbol == 0 .. GfSize - 1
Order  == GfSize - 1

GfExp == LET exp[i \in 0 .. 2 * Order] ==
               IF i = 0 THEN 1
               ELSE LET x == 2 * exp[i - 1] IN IF x >= GfSize THEN x ^^ PrimPoly ELSE x
         IN exp

GfLog == [x \in Symbol \ {0} |-> CHOOSE i \in 0 .. Order - 1 : GfExp[i] = x]

GfSum == [a, b \in Symbol |-> a ^^ b]

GfMul == [a, b \in Symbol |-> IF 0 \in {a, b} THEN 0 ELSE GfExp[GfLog[a] + GfLog[b]]]

GfInv(a) == GfExp[Order - GfLog[a]]

AlphaPow(e) == GfExp[e % Order]

(* Polynomials.                                                            *)

Coeff(p, i) == IF i \in 0 .. Len(p) - 1 THEN p[i + 1] ELSE 0

PolyDeg(p) ==
  LET nonzero == {i \in 0 .. Len(p) - 1 : Coeff(p, i) # 0}
  IN IF nonzero = {} THEN -1 ELSE Max(nonzero)

Trimmed(p) == SubSeq(p, 1, IF PolyDeg(p) < 0 THEN 1 ELSE PolyDeg(p) + 1)

\* Horner, on a word or on a polynomial turned round.
Eval(highFirst, x) == FoldLeft(LAMBDA acc, s : GfSum[GfMul[acc, x], s], 0, highFirst)

PolyEval(p, x) == Eval(Reverse(p), x)

\* p + factor * x^shift * q
AddScaled(p, factor, shift, q) ==
  [i \in 1 .. (IF Len(p) > Len(q) + shift THEN Len(p) ELSE Len(q) + shift) |->
     GfSum[Coeff(p, i - 1), GfMul[factor, Coeff(q, i - 1 - shift)]]]

TimesLinear(p, root) == AddScaled(<< 0 >> \o p, root, 0, p)

Generator == FoldLeft(LAMBDA g, j : TimesLinear(g, AlphaPow(j - 1)), << 1 >>,
                      [j \in 1 .. TwoT |-> j])

\* The generator is monic.
PolyMod(p, divisor) ==
  LET ddeg == PolyDeg(divisor)
      Reduce(num, deg) == AddScaled(num, Coeff(num, deg), deg - ddeg, divisor)
  IN SubSeq(FoldLeft(Reduce, p, [i \in 1 .. Len(p) - ddeg |-> Len(p) - i]), 1, ddeg)

-----------------------------------------------------------------------------
Encode(message) ==
  message \o Reverse(PolyMod([i \in 1 .. TwoT |-> 0] \o Reverse(message), Generator))

Syndromes(word) == [j \in 1 .. TwoT |-> Eval(word, AlphaPow(j - 1))]

(* Berlekamp-Massey: one step for each syndrome.                           *)
Discrepancy(s, syn, n) ==
  FoldLeft(LAMBDA disc, i : GfSum[disc, GfMul[Coeff(s.c, i), syn[n - i]]], syn[n],
           [i \in 1 .. (IF s.L < Len(s.c) THEN s.L ELSE Len(s.c) - 1) |-> i])

MasseyStep(s, syn, n) ==
  LET disc == Discrepancy(s, syn, n)
      c == AddScaled(s.c, GfMul[disc, GfInv(s.scale)], s.m, s.b)
  IN IF disc = 0 THEN [s EXCEPT !.m = @ + 1]
     ELSE IF 2 * s.L <= n - 1
          THEN [c |-> c, b |-> s.c, L |-> n - s.L, scale |-> disc, m |-> 1]
          ELSE [s EXCEPT !.c = c, !.m = @ + 1]

BerlekampMassey(syn) ==
  FoldLeft(LAMBDA s, n : MasseyStep(s, syn, n),
           [c |-> << 1 >>, b |-> << 1 >>, L |-> 0, scale |-> 1, m |-> 1],
           [n \in 1 .. Len(syn) |-> n])

ErrorEvaluator(syn, lambda) ==
  [k \in 1 .. Len(syn) |->
     FoldLeft(LAMBDA acc, j : GfSum[acc, GfMul[syn[k - j], Coeff(lambda, j)]], 0,
              [j \in 1 .. k |-> j - 1])]

Derivative(p) == [i \in 1 .. Len(p) - 1 |-> IF i % 2 = 1 THEN Coeff(p, i) ELSE 0]

\* Powers of x where the word is wrong: roots of lambda, found by trying all.
Located(lambda) == {i \in 0 .. FecN - 1 : PolyEval(lambda, AlphaPow(-i)) = 0}

Forney(lambda, omega, i) ==
  GfMul[AlphaPow(i), GfMul[PolyEval(omega, AlphaPow(-i)),
                           GfInv(PolyEval(Derivative(lambda), AlphaPow(-i)))]]
Fail(word)  == [ok |-> FALSE, message |-> SubSeq(word, 1, FecK), n_corrected |-> 0]
Ok(word, n) == [ok |-> TRUE,  message |-> SubSeq(word, 1, FecK), n_corrected |-> n]

Zeros(syn) == \A j \in DOMAIN syn : syn[j] = 0

\* _chien_forney refuses these and the decoder gives up.
Locates(lambda, omega) ==
  /\ Cardinality(Located(lambda)) = PolyDeg(lambda)
  /\ \A i \in Located(lambda) :
       PolyEval(Derivative(lambda), AlphaPow(-i)) # 0 /\ Forney(lambda, omega, i) # 0

Repaired(word, lambda, omega) ==
  [p \in DOMAIN word |->
     IF FecN - p \in Located(lambda) THEN GfSum[word[p], Forney(lambda, omega, FecN - p)]
     ELSE word[p]]

ResidualOfUsed(t, word) == SubSeq(Syndromes(word), 1, 2 * t)  \* fault: those corrected with

Residual(t, word) == Syndromes(word)

Decode(t, word) ==
  LET used   == SubSeq(Syndromes(word), 1, 2 * t)
      massey == BerlekampMassey(used)
      lambda == Trimmed(massey.c)
      omega  == ErrorEvaluator(used, lambda)
  IN CASE t = 0 \/ Zeros(Syndromes(word)) -> Ok(word, 0)
       [] OTHER ->
            IF /\ massey.L \in 1 .. t /\ PolyDeg(lambda) = massey.L
               /\ Locates(lambda, omega)
               /\ Zeros(Residual(t, Repaired(word, lambda, omega)))
            THEN Ok(Repaired(word, lambda, omega), massey.L)
            ELSE Fail(word)

-----------------------------------------------------------------------------
(* A message goes over a line that may add errors, in one of the modes:    *)
(* the number of errors to correct, 0 for the bypass without parity.       *)

Modes == {TwoT \div 2, TwoT \div 4, 0}

Sent(mode, message) == IF mode = 0 THEN message ELSE Encode(message)

AddErrors(word, e) == [p \in DOMAIN word |-> GfSum[word[p], e[p]]]

NoResult == [ok |-> TRUE, message |-> << >>, n_corrected |-> 0]

FecInit ==
  /\ fec_mode = 0 /\ fec_message = << >> /\ fec_received = << >> /\ fec_result = NoResult

Transfer(mode, message, e) ==
  /\ fec_mode' = mode /\ fec_message' = message
  /\ fec_received' = AddErrors(Sent(mode, message), e)
  /\ fec_result' = Decode(mode, fec_received')

\* The model keeps nothing from one word to the next.
FecNext ==
  \/ /\ fec_result = NoResult
     /\ \E mode \in Modes, message \in Messages, e \in Errors : Transfer(mode, message, e)
  \/ /\ fec_result # NoResult
     /\ fec_mode' = 0 /\ fec_message' = << >> /\ fec_received' = << >>
     /\ fec_result' = NoResult

-----------------------------------------------------------------------------
Codewords == {Encode(m) : m \in [1 .. FecK -> Symbol]}

Distance(v, w) == Cardinality({p \in 1 .. FecN : v[p] # w[p]})

(* "More than T errors that remain visible in the syndromes are failures,  *)
(* never a successful decode of a wrong word": the decoder is the bounded  *)
(* distance decoder.  It finds the one codeword that differs in no more    *)
(* than T symbols, in the parity or the message, and where there is none   *)
(* it says so and hands on the message as it came.                         *)
DecodesWithinDistance ==
  fec_mode # 0 =>
    \/ \E w \in Codewords :
         /\ Distance(w, fec_received) <= fec_mode
         /\ fec_result = Ok(w, Distance(w, fec_received))
    \/ /\ \A w \in Codewords : Distance(w, fec_received) > fec_mode
       /\ fec_result = Fail(fec_received)
=============================================================================
