----------------------------- MODULE UbDllBcrc -----------------------------
(***************************************************************************)
(* The block CRC of SPEC 2.6 in its three forms, side by side: the golden  *)
(* model as it is streamed (start, eat), the golden model on a block, and  *)
(* the reference netlists ub_dll_bcrc and ub_dll_bcrc_check that the       *)
(* product netlists are compared with.                                     *)
(*                                                                         *)
(* Remainders are computed bit by bit as the code does, for a polynomial   *)
(* of any length; flits are shorter.  Bits come in the order they are      *)
(* folded in; where the bits of the last word of a flit are among them is  *)
(* left out, and its reserved bit, which nothing reads.  The word that     *)
(* arrives with the last flit is the one packed into its end.              *)
(***************************************************************************)
EXTENDS Integers, Sequences, SequencesExt

CONSTANTS
  CrcTaps,      \* the polynomial without its first term, highest bit first
  BcrcFlits,    \* flits: their data and the word in their last bytes
  MaxFlits      \* bound: the flits of a block

Bit == {0, 1}

ASSUME BcrcAssumption ==
  /\ CrcTaps # << >> /\ CrcTaps \in Seq(Bit)
  /\ MaxFlits \in Nat \ {0}
  /\ \A f \in BcrcFlits : f.data \in Seq(Bit) /\ f.word.error_flag \in Bit /\ f.word.crc \in Seq(Bit)

VARIABLES
  crc, crc_word, done,              \* ub_dll_bcrc
  recv_q, ok_q, fail_q, eflag_q,    \* ub_dll_bcrc_check around it
  model_crc, started,               \* UbDllBcrc
  eaten,                            \* what eat returned: << >> is None
  block, finished                   \* history: the flits of this block, and
                                    \* of the last one that ended, or << >>

bcrcVars == << crc, crc_word, done, recv_q, ok_q, fail_q, eflag_q,
               model_crc, started, eaten, block, finished >>

-----------------------------------------------------------------------------
XorBit(a, b) == (a + b) % 2

CrcInit == [i \in DOMAIN CrcTaps |-> 1]

UpdateBit(c, bit) ==
  LET mix == XorBit(c[1], bit)
      shifted == Append(Tail(c), 0)
  IN IF mix = 1 THEN [i \in DOMAIN c |-> XorBit(shifted[i], CrcTaps[i])] ELSE shifted

BcrcZero == [crc |-> [i \in DOMAIN CrcTaps |-> 0], error_flag |-> 0]

WordBits(word) == << word.error_flag >> \o word.crc

AbsorbWhole(c, flit, last) ==        \* fault: the word is part of the data
  FoldLeft(UpdateBit, c, flit.data \o WordBits(flit.word))

Absorb(c, flit, last) ==
  FoldLeft(UpdateBit, c, IF last THEN flit.data ELSE flit.data \o WordBits(flit.word))

(* The golden model on a block.                                            *)

PayloadBits(flits) ==
  FlattenSeq([i \in DOMAIN flits |->
                IF i = Len(flits) THEN flits[i].data
                ELSE flits[i].data \o WordBits(flits[i].word)])

Crc30OfFlits(flits) == FoldLeft(UpdateBit, CrcInit, PayloadBits(flits))

Stored(flits) == flits[Len(flits)].word

-----------------------------------------------------------------------------
(* One rising edge.                                                        *)

BcrcDropsStartFlit(start, valid, flit, last) ==   \* fault: start wins over valid
  LET nxt == Absorb(crc, flit, last)
  IN /\ crc' = IF start \/ (valid /\ last) THEN CrcInit ELSE IF valid THEN nxt ELSE crc
     /\ crc_word' = IF valid /\ last THEN [crc |-> nxt, error_flag |-> 0] ELSE crc_word
     /\ done' = (valid /\ last)

Bcrc(start, valid, flit, last) ==
  LET seed == IF start THEN CrcInit ELSE crc
      nxt  == Absorb(seed, flit, last)
  IN /\ crc' = CASE valid /\ last     -> CrcInit
                 [] valid /\ ~last    -> nxt
                 [] ~valid            -> seed
     /\ crc_word' = IF valid /\ last THEN [crc |-> nxt, error_flag |-> 0] ELSE crc_word
     /\ done' = (valid /\ last)

CmpOk == crc_word.crc = recv_q.crc

BcrcCheckEarly(valid, flit, last) ==  \* fault: captured before the word is there
  /\ recv_q' = IF valid /\ last THEN flit.word ELSE recv_q
  /\ IF valid /\ last
     THEN ok_q' = CmpOk /\ fail_q' = ~CmpOk /\ eflag_q' = recv_q.error_flag
     ELSE UNCHANGED << ok_q, fail_q, eflag_q >>

BcrcCheck(valid, flit, last) ==
  /\ recv_q' = IF valid /\ last THEN flit.word ELSE recv_q
  /\ IF done
     THEN ok_q' = CmpOk /\ fail_q' = ~CmpOk /\ eflag_q' = recv_q.error_flag
     ELSE UNCHANGED << ok_q, fail_q, eflag_q >>

crc_ok        == IF done THEN CmpOk ELSE ok_q
crc_fail      == IF done THEN ~CmpOk ELSE fail_q
error_flag_rx == IF done THEN recv_q.error_flag ELSE eflag_q

\* start() where start is up, then eat() where a flit is there.
ModelCalls(start, valid, flit, last) ==
  LET seed == IF start \/ (valid /\ ~started) THEN CrcInit ELSE model_crc
      nxt  == Absorb(seed, flit, last)
  IN /\ model_crc' = IF valid THEN nxt ELSE seed
     /\ started' = IF valid THEN ~last ELSE start \/ started
     /\ eaten' = IF valid /\ last THEN << nxt >> ELSE << >>

\* What a block is: SPEC 2.6.
BlockSoFar(start, valid, flit, last) ==
  LET before == IF start THEN << >> ELSE block
  IN /\ block' = CASE valid /\ last  -> << >>
                   [] valid /\ ~last -> Append(before, flit)
                   [] ~valid         -> before
     /\ finished' = IF valid /\ last THEN Append(before, flit) ELSE finished

BcrcClk(start, valid, flit, last) ==
  /\ valid /\ ~last => start \/ Len(block) < MaxFlits - 1
  /\ Bcrc(start, valid, flit, last)
  /\ BcrcCheck(valid, flit, last)
  /\ ModelCalls(start, valid, flit, last)
  /\ BlockSoFar(start, valid, flit, last)

BcrcReset ==
  /\ crc' = CrcInit /\ crc_word' = BcrcZero /\ done' = FALSE
  /\ recv_q' = BcrcZero /\ ok_q' = FALSE /\ fail_q' = FALSE /\ eflag_q' = 0
  /\ model_crc' = CrcInit /\ started' = FALSE /\ eaten' = << >>
  /\ block' = << >> /\ finished' = << >>

BcrcInit ==
  /\ crc = CrcInit /\ crc_word = BcrcZero /\ done = FALSE
  /\ recv_q = BcrcZero /\ ok_q = FALSE /\ fail_q = FALSE /\ eflag_q = 0
  /\ model_crc = CrcInit /\ started = FALSE /\ eaten = << >>
  /\ block = << >> /\ finished = << >>

BcrcNext ==
  \/ \E start, valid, last \in BOOLEAN, flit \in BcrcFlits : BcrcClk(start, valid, flit, last)
  \/ BcrcReset

BcrcSpec == BcrcInit /\ [][BcrcNext]_bcrcVars

-----------------------------------------------------------------------------
(* SPEC 2.6: the netlist does as start() and eat() do, whatever blocks are *)
(* cut short, begun without start or begun twice: it has a word when eat   *)
(* returns, with the remainder that eat returns.                           *)
RefIsModel ==
  /\ done <=> eaten # << >>
  /\ eaten # << >> => crc_word = [crc |-> eaten[1], error_flag |-> 0]

(* The word stays that of the last block that ended, and is the remainder  *)
(* over that block and nothing else, as crc30_of_flits computes it.        *)
WordIsOfItsBlock == finished # << >> => crc_word.crc = Crc30OfFlits(finished)

(* The verdict is about the last block that ended, from the cycle its word *)
(* comes until the next one ends, and there is none before the first.      *)
VerdictIsOfItsBlock ==
  /\ finished = << >> => ~crc_ok /\ ~crc_fail /\ error_flag_rx = 0
  /\ finished # << >> =>
       /\ crc_ok <=> Stored(finished).crc = crc_word.crc
       /\ crc_fail <=> ~crc_ok
       /\ error_flag_rx = Stored(finished).error_flag
=============================================================================
