----------------------------- MODULE UbEquivRef -----------------------------
(***************************************************************************)
(* scripts/gate/equiv_ref.sh: is a netlist equivalent to the reference of  *)
(* its leaf?  A cascade of methods, each of which may prove it, disprove   *)
(* it or give up; with the register pairing of equiv_regpair.py (method    *)
(* 4), the affine comparison of affine_prove.py (5) and the sequential     *)
(* proof of seq_bmc.py.                                                    *)
(*                                                                         *)
(* Yosys and ABC are external: a call answers what is true of the netlists *)
(* or gives up, by timeout or by not converging.  &cec alone may answer    *)
(* NOT EQ of equivalent circuits, as equiv_regpair.py expects.             *)
(***************************************************************************)
EXTENDS UbEquivNetlist

CONSTANTS
  Golds, Gates,   \* references and netlists under test
  MethodSets,     \* values of EQUIV_METHODS
  NoRc            \* equiv_regpair.py has not been run

ASSUME MethodsAssumption ==
  /\ MethodSets \subseteq (SUBSET {"equiv", "sat", "abc", "regpair", "seq"}) \ {{}}
  /\ NoRc \notin 0 .. 4

ASSUME NetlistsAssumption ==
  IsFiniteSet(Ins) /\ \A n \in Golds \cup Gates : IsNetlist(n)

Steps == << "equiv", "equiv_seq", "sat", "sat_crc", "dsec", "cec", "regpair", "seq" >>
Family == << "equiv", "equiv", "sat", "sat", "abc", "abc", "regpair", "seq" >>
StepNo == 1 .. 8

VARIABLES
  gold, gate,
  methods, stage,   \* EQUIV_METHODS, EQUIV_ABC_STAGE
  pc,               \* the step of Steps, or where in regpair, or "exit"
  todo,             \* the pairs whose D the affine comparison is asked for
  prc,              \* exit status of equiv_regpair.py
  inconclusive,     \* REGPAIR_INCONCLUSIVE
  verdict           \* "none", "pass" or "fail"

inputs == << gold, gate, methods, stage >>
vars == << inputs, pc, todo, prc, inconclusive, verdict >>

\* What the tools are asked to find out.
Netlists == Golds \X Gates
EqualAfterReset == [n \in Netlists |-> SameAfterReset(n[1], n[2])]
EqualFromZero == [n \in Netlists |-> SameFromZero(n[1], n[2])]
Equal == EqualAfterReset[gold, gate]
EqualZero == EqualFromZero[gold, gate]

Paired == Pairs(gold, gate)
Differing == {p \in Paired : ~ SameNext(gold, gate, p)}
Wide == {p \in Paired : gold.ff[p[1]].wide}
Narrow == Paired \ Wide

-----------------------------------------------------------------------------
(* The order of the methods.                                               *)
Selected(i, ms, st, forced) ==
  /\ Family[i] \in ms \/ (Family[i] = "seq" /\ forced)
  /\ Steps[i] = "dsec" => st # "cec"
  /\ Steps[i] = "cec" => st # "dsec"

From(n, ms, st, forced) == {i \in StepNo : i >= n /\ Selected(i, ms, st, forced)}
First(I) == Steps[CHOOSE i \in I : \A j \in I : i <= j]

Exit(v) == pc' = "exit" /\ verdict' = v

\* On to the next method, or FAIL when there is none.
TryFrom(n, forced) ==
  LET left == From(n, methods, stage, forced)
  IN  IF left = {} THEN Exit("fail") ELSE pc' = First(left) /\ UNCHANGED verdict

NothingElse == UNCHANGED << inputs, todo, prc, inconclusive >>

Init ==
  /\ gold \in Golds /\ gate \in Gates
  /\ methods \in MethodSets /\ stage \in {"dsec", "cec", "both"}
  /\ pc = First(From(1, methods, stage, FALSE))
  /\ todo = {} /\ prc = NoRc /\ inconclusive = FALSE /\ verdict = "none"

-----------------------------------------------------------------------------
(* Methods 1 to 3.                                                         *)
EquivMake(i) ==
  /\ pc = Steps[i] /\ Family[i] = "equiv"
  /\ (Equal /\ Exit("pass")) \/ TryFrom(i + 1, FALSE)
  /\ NothingElse

\* The second run asserts the CRC registers too, which may differ where the
\* outputs do not.
SatTempinduct(i) ==
  /\ pc = Steps[i] /\ Family[i] = "sat"
  /\ \/ EqualZero /\ Exit("pass")
     \/ (~ EqualZero \/ (Steps[i] = "sat_crc" /\ Differing # {})) /\ Exit("fail")
     \/ TryFrom(i + 1, FALSE)
  /\ NothingElse

Abc(i) ==
  /\ pc = Steps[i] /\ Family[i] = "abc"
  /\ \/ EqualZero /\ Exit("pass")
     \/ (~ EqualZero \/ Steps[i] = "cec") /\ Exit("fail")
     \/ TryFrom(i + 1, FALSE)
  /\ NothingElse

\* No ABC, or the AIGER files were not written: cec is not tried either.
AbcUnavailable ==
  /\ pc \in {"dsec", "cec"}
  /\ TryFrom(7, FALSE)
  /\ NothingElse

-----------------------------------------------------------------------------
(* Method 4.  equiv_regpair.py ends with a status, which judge acts on.    *)
End(rc) == prc' = rc /\ pc' = "judge" /\ UNCHANGED << inputs, todo, inconclusive, verdict >>
Goto(where, pos) ==
  pc' = where /\ todo' = pos /\ UNCHANGED << inputs, prc, inconclusive, verdict >>

\* Fault: the next states are judged before the reset values.
ExitStatusKindFirst(kind) ==
  IF kind = "not_equivalent" THEN 3
  ELSE IF ~ ResetsMatch(gold, gate) THEN 2
  ELSE IF kind = "equivalent" THEN 0 ELSE 1

ExitStatus(kind) ==
  IF ~ ResetsMatch(gold, gate) THEN 2
  ELSE IF kind = "equivalent" THEN 0
  ELSE IF kind = "not_equivalent" THEN 3 ELSE 1

Concluded(kind) == End(ExitStatus(kind))

DumpFailed ==
  /\ pc = "regpair"
  /\ TryFrom(8, FALSE)
  /\ NothingElse

\* A register left unflattened (2), a D in front of its reset multiplexer or
\* a cut that Yosys refuses (1).
CutFailed ==
  /\ pc = "regpair"
  /\ \E rc \in {1, 2} : End(rc)

PairRegisters ==
  /\ pc = "regpair"
  /\ IF ~ SetsMatch(gold, gate) THEN End(4)
     ELSE IF ~ PortsMatch(gold, gate) THEN End(2)
     ELSE Goto("miter", {})

\* Only next states are compared; outputs are when there are no registers.
Same == IF Paired # {} THEN Differing = {} ELSE SameOutputs(gold, gate)

CecPair ==
  /\ pc = "miter"
  /\ \/ Same /\ Concluded("equivalent")
     \/ Goto("replay", {})
     \/ Goto("affine", Paired)
     \/ Concluded("script_error")

\* Fault: NOT EQ is taken for a verdict without a replayed counterexample.
ReplayTrusting ==
  /\ pc = "replay"
  /\ Concluded("not_equivalent")

\* NOT EQ counts when an input vector shows it on a compared port.
Replay ==
  /\ pc = "replay"
  /\ \/ ~ Same /\ Concluded("not_equivalent")
     \/ Goto("narrow", {})

\* No vector did: each register of at most 4 bits is put to SAT on its own.
SatNarrow ==
  /\ pc = "narrow"
  /\ \/ Differing \cap Narrow # {} /\ Concluded("not_equivalent")
     \/ /\ Narrow # {} /\ Differing \cap Narrow = {}
        /\ IF Wide = {} THEN Concluded("equivalent") ELSE Goto("affine", Wide)
     \/ Concluded("script_error")

\* failed: the pairs for which a cone could not be folded.
AffineOnPos ==
  /\ pc = "affine"
  /\ \E failed \in SUBSET todo :
       LET kinds == {ProveAffinePo(gold, gate, p) : p \in todo \ failed}
       IN  Concluded(IF "not_equivalent" \in kinds THEN "not_equivalent"
                     ELSE IF "na" \in kinds \/ failed # {} THEN "unproven"
                     ELSE "equivalent")

\* Fault: the flag that forces the sequential proof is not set.
JudgeUnflagged ==
  /\ pc = "judge"
  /\ IF Dead(gate) # {} THEN Exit("fail")
     ELSE IF prc = 0 THEN Exit("pass")
     ELSE IF prc \in {3, 4} THEN TryFrom(8, FALSE)
     ELSE Exit("fail")
  /\ UNCHANGED << inputs, todo, prc, inconclusive >>

\* DEADREG first, whatever the comparison said.
Judge ==
  /\ pc = "judge"
  /\ IF Dead(gate) # {} THEN Exit("fail") /\ UNCHANGED inconclusive
     ELSE IF prc = 0 THEN Exit("pass") /\ UNCHANGED inconclusive
     ELSE IF prc \in {3, 4} THEN inconclusive' = TRUE /\ TryFrom(8, TRUE)
     ELSE Exit("fail") /\ UNCHANGED inconclusive
  /\ UNCHANGED << inputs, todo, prc >>

-----------------------------------------------------------------------------
(* The uncut sequential proof.                                             *)

\* Fault: bounded search without a counterexample is taken for a proof.
SeqOutBounded ==
  /\ pc = "seq"
  /\ Exit("pass") \/ (~ Equal /\ Exit("fail"))
  /\ NothingElse

\* A counterexample, an error of the script and no proof all end in FAIL.
SeqOut ==
  /\ pc = "seq"
  /\ (Equal /\ Exit("pass")) \/ Exit("fail")
  /\ NothingElse

Done == pc = "exit" /\ UNCHANGED vars

Next ==
  \/ \E i \in StepNo : EquivMake(i) \/ SatTempinduct(i) \/ Abc(i)
  \/ AbcUnavailable
  \/ DumpFailed \/ CutFailed \/ PairRegisters
  \/ CecPair \/ Replay \/ SatNarrow \/ AffineOnPos
  \/ Judge
  \/ SeqOut
  \/ Done

Spec == Init /\ [][Next]_vars

-----------------------------------------------------------------------------
(* Every variable has its type; regpair ends with one of five statuses.    *)
TypeOK ==
  /\ gold \in Golds /\ gate \in Gates
  /\ methods \in MethodSets /\ stage \in {"dsec", "cec", "both"}
  /\ pc \in {Steps[i] : i \in StepNo}
            \cup {"miter", "replay", "narrow", "affine", "judge", "exit"}
  /\ todo \subseteq Paired
  /\ prc \in {NoRc} \cup 0 .. 4
  /\ inconclusive \in BOOLEAN
  /\ verdict \in {"none", "pass", "fail"} /\ (verdict = "none" <=> pc # "exit")

(* equiv_ref.sh passes only a netlist whose outputs are those of the       *)
(* reference in every cycle after reset, whichever methods were tried and  *)
(* whichever of them gave up.                                              *)
PassMeansEqual == verdict = "pass" => Equal

(* A wrong reset of a paired register and a register no output depends on  *)
(* fail by themselves: once regpair has looked, neither the comparison of  *)
(* next states nor the sequential proof after it can pass the netlist.     *)
IndependentFailsStand ==
  verdict = "pass" /\ prc # NoRc =>
    /\ Dead(gate) = {}
    /\ SetsMatch(gold, gate) => ResetsMatch(gold, gate)

(* regpair reports another state encoding only of next states that differ: *)
(* no NOT EQ of ABC gets that far without a counterexample shown on a port.*)
InconclusiveIsReal == prc = 3 => ~ Same

(* When regpair did not apply or was inconclusive, the netlist is judged   *)
(* by DEADREG or by the sequential proof and by nothing else.              *)
SeqDecides ==
  [][(verdict' # verdict /\ prc \in {3, 4}) =>
       pc = "seq" \/ (pc = "judge" /\ Dead(gate) # {})]_vars
=============================================================================
