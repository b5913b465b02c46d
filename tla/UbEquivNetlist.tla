--------------------------- MODULE UbEquivNetlist ---------------------------
(***************************************************************************)
(* What scripts/gate/equiv_ref.sh compares, and how equiv_regpair.py,      *)
(* affine_prove.py and deadreg.py look at it: two flattened netlists with  *)
(* one input bit per element of Ins.                                       *)
(*                                                                         *)
(* A Boolean function is its polynomial over GF(2): a set of monomials,    *)
(* each a set of signals, where {} is the constant 1.  A valuation is the  *)
(* set of the signals that are 1, a state that of the flip-flops that are. *)
(*                                                                         *)
(*   netlist  [ff : cell -> flop, outs : port -> polynomial]               *)
(*   flop     keys  architectural names of Q, normalised; {} if pycc-only  *)
(*            wide  more than 4 bits                                       *)
(*            kind  "none" (reset is part of D) or "async"                 *)
(*            rst   the value reset gives it                               *)
(*            d     its next value when not in reset                       *)
(*            mux   D is a $mux whose data arms differ by a constant       *)
(*   key      [base, q], q if the name ends in _q                          *)
(***************************************************************************)
EXTENDS Integers, FiniteSets

CONSTANTS
  Ins,      \* input ports
  NoKey     \* a flip-flop no pairing key was found for

Cells(n) == DOMAIN n.ff

Value(p, v) == Cardinality({m \in p : m \subseteq v}) % 2 = 1

\* Logic is over the inputs and the netlist's own flip-flops.
IsNetlist(n) ==
  LET signals == Ins \cup Cells(n)
  IN  /\ IsFiniteSet(Cells(n)) /\ Cells(n) \cap Ins = {}
      /\ \A r \in Cells(n) : n.ff[r].d \subseteq SUBSET signals
      /\ \A o \in DOMAIN n.outs : n.outs[o] \subseteq SUBSET signals

-----------------------------------------------------------------------------
(* Behaviour.                                                              *)
ResetState(n) == {r \in Cells(n) : n.ff[r].rst}
NextState(n, s, i) == {r \in Cells(n) : Value(n.ff[r].d, s \cup i)}
Outputs(n, s, i) == {o \in DOMAIN n.outs : Value(n.outs[o], s \cup i)}

\* One cycle of the two netlists together, from any pair of S.
Onward(g, t, S) ==
  {<< NextState(g, p[1], i), NextState(t, p[2], i) >> : p \in S, i \in SUBSET Ins}

\* The pairs of states they reach from start.
Reached(g, t, start) ==
  LET bound == Cardinality((SUBSET Cells(g)) \X (SUBSET Cells(t)))
      f[k \in 0 .. bound] ==
        IF k = 0 THEN start ELSE LET S == f[k - 1] IN S \cup Onward(g, t, S)
  IN  f[bound]

SameFrom(g, t, start) ==
  \A p \in Reached(g, t, start), i \in SUBSET Ins :
    Outputs(g, p[1], i) = Outputs(t, p[2], i)

\* Each side from its own reset value, as the uncut proof starts them.
SameAfterReset(g, t) == SameFrom(g, t, {<< ResetState(g), ResetState(t) >>})

\* All flip-flops start at zero and reset may come later.
SameFromZero(g, t) ==
  SameFrom(g, t, {<< {}, {} >>, << ResetState(g), ResetState(t) >>})

-----------------------------------------------------------------------------
(* Registers that cannot be observed.  Flip-flops are followed from D to Q.*)
Feeds(n, r) == {c \in Cells(n) : r \in UNION n.ff[c].d}
Seen(n, S) == {r \in Cells(n) : \/ \E o \in DOMAIN n.outs : r \in UNION n.outs[o]
                                \/ Feeds(n, r) \cap S # {}}
Live(n) ==
  LET f[k \in 0 .. Cardinality(Cells(n))] ==
        IF k = 0 THEN {} ELSE Seen(n, f[k - 1])
  IN  f[Cardinality(Cells(n))]

Dead(n) == Cells(n) \ Live(n)

-----------------------------------------------------------------------------
(* Pairing.  A flip-flop without an architectural name is left out.        *)
Named(n) == {r \in Cells(n) : n.ff[r].keys # {}}
KeysOf(n) == UNION {n.ff[r].keys : r \in Named(n)}

PickShared(ks) ==
  LET qs == {k \in ks : k.q}
  IN  IF Cardinality(ks) = 1 THEN CHOOSE k \in ks : TRUE
      ELSE IF Cardinality(qs) = 1 THEN CHOOSE k \in qs : TRUE
      ELSE NoKey

Assigned(n, other) ==
  [r \in Named(n) |->
     IF Cardinality(n.ff[r].keys) = 1 THEN CHOOSE k \in n.ff[r].keys : TRUE
     ELSE PickShared(n.ff[r].keys \cap KeysOf(other))]

Holding(ks, k) == {r \in DOMAIN ks : ks[r] = k}
LeftOver(ks, others) ==
  {r \in DOMAIN ks : ks[r] # NoKey /\ Cardinality(Holding(others, ks[r])) # 1}
SameBase(ks, left, k) == {r \in left : ks[r].base = k.base}

\* crc against crc_q: the gate takes the gold's key if both are alone.
Rematched(gk, tk) ==
  LET gl == LeftOver(gk, tk)
      tl == LeftOver(tk, gk)
  IN  [r \in DOMAIN tk |->
         IF /\ r \in tl
            /\ Cardinality(SameBase(tk, tl, tk[r])) = 1
            /\ Cardinality(SameBase(gk, gl, tk[r])) = 1
         THEN gk[CHOOSE g \in SameBase(gk, gl, tk[r]) : TRUE]
         ELSE tk[r]]

Pairs(g, t) ==
  LET gk == Assigned(g, t)
      tk == Rematched(gk, Assigned(t, g))
  IN  {p \in Named(g) \X Named(t) :
         /\ gk[p[1]] = tk[p[2]] /\ gk[p[1]] # NoKey
         /\ g.ff[p[1]].wide = t.ff[p[2]].wide}

\* Nothing ambiguous, unmatched or of another width on either side.
SetsMatch(g, t) ==
  /\ \A r \in Named(g) : Cardinality({p \in Pairs(g, t) : p[1] = r}) = 1
  /\ \A r \in Named(t) : Cardinality({p \in Pairs(g, t) : p[2] = r}) = 1

ResetsMatch(g, t) ==
  \A p \in Pairs(g, t) : /\ g.ff[p[1]].kind = t.ff[p[2]].kind
                         /\ g.ff[p[1]].rst = t.ff[p[2]].rst

\* The cut removes the reset port of a side that has an asynchronous reset.
PortsMatch(g, t) ==
  /\ DOMAIN g.outs = DOMAIN t.outs
  /\ (\E p \in Pairs(g, t) : g.ff[p[1]].kind = "async")
       <=> (\E p \in Pairs(g, t) : t.ff[p[2]].kind = "async")

-----------------------------------------------------------------------------
(* The cut netlists.  Flip-flops become ports rp_q_* and rp_d_*, here by   *)
(* the gold's cell; the ones left out are deleted and what they drove      *)
(* reads as 0.                                                             *)
GoldCell(g, t, r) == (CHOOSE p \in Pairs(g, t) : p[2] = r)[1]

GoldCut(g, t, p) == {m \in p : m \subseteq Ins \cup {x[1] : x \in Pairs(g, t)}}
GateCut(g, t, p) ==
  LET paired == {x[2] : x \in Pairs(g, t)}
  IN  {{IF x \in paired THEN GoldCell(g, t, x) ELSE x : x \in m} :
         m \in {m \in p : m \subseteq Ins \cup paired}}

\* rp_d_* of one pair.  With reset inside D, D differs in reset as well.
SameNext(g, t, p) ==
  LET a == g.ff[p[1]]  b == t.ff[p[2]]
  IN  /\ GoldCut(g, t, a.d) = GateCut(g, t, b.d)
      /\ a.kind = "none" /\ b.kind = "none" => a.rst = b.rst

SameOutputs(g, t) ==
  \A o \in DOMAIN g.outs : GoldCut(g, t, g.outs[o]) = GateCut(g, t, t.outs[o])

-----------------------------------------------------------------------------
(* The affine comparison of one rp_d_*, reset inactive.                    *)
Complement(p) == IF {} \in p THEN p \ {{}} ELSE p \cup {{}}

\* A $mux is read with its data arms exchanged, which complements it.
AffineRead(p, mux) == IF mux THEN Complement(p) ELSE p

Applies(p, ports) == \A m \in p : m \subseteq ports /\ Cardinality(m) <= 1

Points(g, t) == {{}} \cup {{x} : x \in Ins \cup {p[1] : p \in Pairs(g, t)}}

ProveAffinePo(g, t, p) ==
  LET a == g.ff[p[1]]  b == t.ff[p[2]]
      da == GoldCut(g, t, a.d)  db == GateCut(g, t, b.d)
      differ(v) == /\ Value(AffineRead(da, a.mux), v) # Value(AffineRead(db, b.mux), v)
                   /\ Value(da, v) # Value(db, v)
  IN  IF ~ Applies(a.d, Ins \cup {x[1] : x \in Pairs(g, t)})
         \/ ~ Applies(b.d, Ins \cup {x[2] : x \in Pairs(g, t)})
      THEN "na"
      ELSE IF \E v \in Points(g, t) : differ(v) THEN "not_equivalent"
      ELSE "equivalent"
=============================================================================
