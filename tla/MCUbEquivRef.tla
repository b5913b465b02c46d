---------------------------- MODULE MCUbEquivRef ----------------------------
(* Instances of UbEquivRef for TLC: a reference with a wide register "crc" *)
(* and a narrow one "done", one whose two registers are always equal, and  *)
(* one without registers; netlists that are right and netlists that are    *)
(* wrong in one way each.                                                  *)
EXTENDS UbEquivRef

Crc == [base |-> "crc", q |-> FALSE]
CrcQ == [base |-> "crc", q |-> TRUE]
Word == [base |-> "word", q |-> FALSE]
End1 == [base |-> "done", q |-> FALSE]
Extra == [base |-> "extra", q |-> FALSE]

Flop(keys, wide, rst, d) ==
  [keys |-> keys, wide |-> wide, kind |-> "none", rst |-> rst, d |-> d, mux |-> FALSE]

One == {}
Toggle == {{"in"}, {"a"}}

\* crc absorbs the input bit, done repeats it.
Net(ff) == [ff |-> ff, outs |-> [word |-> {{"a"}}, done |-> {{"b"}}]]
A == Flop({Crc}, TRUE, TRUE, Toggle)
B == Flop({End1}, FALSE, FALSE, {{"in"}})
Reference == Net([a |-> A, b |-> B])
Twins == Net([a |-> [A EXCEPT !.rst = FALSE, !.d = {{"in"}}], b |-> B])
Wires == [ff |-> << >>, outs |-> [word |-> {{"in"}}, done |-> {{"in"}}]]

WithA(x) == Net([a |-> x, b |-> B])
WithB(y) == Net([a |-> A, b |-> y])

\* Other names for the same.
Renamed == WithA([A EXCEPT !.keys = {CrcQ}])
Aliased == WithA([A EXCEPT !.keys = {Crc, Word}])
Mapped == [ff |-> [a |-> A, c |-> [B EXCEPT !.keys = {Extra}]],
           outs |-> [word |-> {{"a"}}, done |-> {{"c"}}]]
\* The opposite of done is stored; reset is then the opposite as well.
Inverted == [ff |-> [a |-> A, b |-> [B EXCEPT !.rst = TRUE, !.d = {One, {"in"}}]],
             outs |-> [word |-> {{"a"}}, done |-> {One, {"b"}}]]
\* As Twins in every state reset leads to, and not elsewhere.
Redundant == Net([a |-> Twins.ff["a"], b |-> [B EXCEPT !.d = {{"in"}, {"a"}, {"b"}}]])

\* Wrong ones.
WrongReset == WithB([B EXCEPT !.rst = TRUE])
AsyncReset == WithA([A EXCEPT !.kind = "async"])
WrongNarrow == WithB([B EXCEPT !.d = {{"in"}, {"in", "a"}}])
WrongWide == WithA([A EXCEPT !.d = {{"in"}, {"a"}, One}])
NotAffine == WithA([A EXCEPT !.d = {{"in"}, {"a"}, {"in", "b"}}])
Narrowed == WithA([A EXCEPT !.wide = FALSE])
Ambiguous == WithB([B EXCEPT !.keys = {Crc}])
DeadReg == Net([a |-> A, b |-> B, c |-> Flop({Extra}, FALSE, FALSE, {{"in"}})])
\* Not a register of the reference, and seen at an output.
ExtraLive == [ff |-> DeadReg.ff, outs |-> [word |-> {{"a"}, {"c"}}, done |-> {{"b"}}]]
HiddenDead == Net([a |-> A, b |-> B, c |-> Flop({}, FALSE, FALSE, {{"in"}})])

MCGolds == {Reference, Twins, Wires}
MCGates == {Reference, Twins, Wires, Renamed, Aliased, Mapped, Inverted, Redundant,
            WrongReset, AsyncReset, WrongNarrow, WrongWide, NotAffine, Narrowed,
            Ambiguous, DeadReg, ExtraLive, HiddenDead}
MCMethods == (SUBSET {"equiv", "sat", "abc", "regpair", "seq"}) \ {{}}

\* Output logic that is not a register.
MCReference == {Reference}
WrongOutput == [ff |-> Reference.ff, outs |-> [word |-> {{"a"}}, done |-> {One, {"b"}}]]
MCOutputs == {Reference, WrongOutput}

\* The reference's own if (mix) c = c ^ POLY, and an XOR that inverts it.
MCMuxed == {WithA([A EXCEPT !.mux = TRUE])}
MCInverts == {Reference, WrongWide}
MCRegpair == {{"regpair"}}
=============================================================================
