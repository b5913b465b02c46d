-------------------------- MODULE UbEquivRefProofs --------------------------
(***************************************************************************)
(* Theorems about UbEquivRef, for any netlists, any methods and any stage. *)
(***************************************************************************)
EXTENDS UbEquivRef, UbFoldProofs

\* Once regpair has ended, only the judgement and the uncut proof are left.
AfterRegpair == prc # NoRc => pc \in {"judge", "seq", "exit"}

\* What each status says of the register sets and their resets.
StatusSound ==
  /\ prc \in {0, 3} => ResetsMatch(gold, gate)
  /\ prc = 4 => ~ SetsMatch(gold, gate)

\* Judge lets through what is not dead and was not refused.
Judged ==
  prc # NoRc /\ pc # "judge" /\ verdict # "fail" =>
    Dead(gate) = {} /\ prc \in {0, 3, 4}

Inv == TypeOK /\ AfterRegpair /\ StatusSound /\ Judged /\ InconclusiveIsReal

-----------------------------------------------------------------------------
(* The order of the methods.                                               *)
LEMMA Least ==
  ASSUME NEW I \in SUBSET StepNo, I # {}
  PROVE  \E i \in I : \A j \in I : i <= j
<1> DEFINE Low(n) == \A j \in I : n <= j
<1>1. Low(1)  BY DEF StepNo
<1>2. ~ Low(9)
  <2>1. PICK x \in I : TRUE  OBVIOUS
  <2>2. x \in 1 .. 8  BY DEF StepNo
  <2> QED  BY <2>2
<1>3. ASSUME NEW n \in StepNo, Low(n), n \notin I
      PROVE  Low(n + 1)
  BY <1>3 DEF StepNo
<1>4. SUFFICES ASSUME \A n \in StepNo : Low(n) => n \notin I
               PROVE  FALSE
  BY DEF StepNo
<1>5. Low(2)  BY <1>1, <1>3, <1>4 DEF StepNo
<1>6. Low(3)  BY <1>5, <1>3, <1>4 DEF StepNo
<1>7. Low(4)  BY <1>6, <1>3, <1>4 DEF StepNo
<1>8. Low(5)  BY <1>7, <1>3, <1>4 DEF StepNo
<1>9. Low(6)  BY <1>8, <1>3, <1>4 DEF StepNo
<1>10. Low(7)  BY <1>9, <1>3, <1>4 DEF StepNo
<1>11. Low(8)  BY <1>10, <1>3, <1>4 DEF StepNo
<1>12. Low(9)  BY <1>11, <1>3, <1>4 DEF StepNo
<1> QED  BY <1>2, <1>12

LEMMA FirstIsSelected ==
  ASSUME NEW I \in SUBSET StepNo, I # {}
  PROVE  \E i \in I : First(I) = Steps[i]
BY Least DEF First

LEMMA StepNames ==
  ASSUME NEW i \in StepNo
  PROVE  Steps[i] \notin {"miter", "replay", "narrow", "affine", "judge", "exit"}
<1>1. i = 1 \/ i = 2 \/ i = 3 \/ i = 4 \/ i = 5 \/ i = 6 \/ i = 7 \/ i = 8
  BY DEF StepNo
<1> QED  BY <1>1 DEF Steps

LEMMA SomeMethod ==
  ASSUME NEW ms \in MethodSets, NEW st \in {"dsec", "cec", "both"}
  PROVE  From(1, ms, st, FALSE) # {}
<1>1. PICK m \in {"equiv", "sat", "abc", "regpair", "seq"} : m \in ms
  BY MethodsAssumption
<1>2. CASE m = "equiv"
  <2>1. 1 \in From(1, ms, st, FALSE)
    BY <1>1, <1>2 DEF From, Selected, Family, Steps, StepNo
  <2> QED  BY <2>1
<1>3. CASE m = "sat"
  <2>1. 3 \in From(1, ms, st, FALSE)
    BY <1>1, <1>3 DEF From, Selected, Family, Steps, StepNo
  <2> QED  BY <2>1
<1>4. CASE m = "abc"
  <2>1. 5 \in From(1, ms, st, FALSE) \/ 6 \in From(1, ms, st, FALSE)
    BY <1>1, <1>4 DEF From, Selected, Family, Steps, StepNo
  <2> QED  BY <2>1
<1>5. CASE m = "regpair"
  <2>1. 7 \in From(1, ms, st, FALSE)
    BY <1>1, <1>5 DEF From, Selected, Family, Steps, StepNo
  <2> QED  BY <2>1
<1>6. CASE m = "seq"
  <2>1. 8 \in From(1, ms, st, FALSE)
    BY <1>1, <1>6 DEF From, Selected, Family, Steps, StepNo
  <2> QED  BY <2>1
<1> QED  BY <1>1, <1>2, <1>3, <1>4, <1>5, <1>6

\* Trying on leads to another method, or fails.
LEMMA TryFromMoves ==
  ASSUME NEW n \in Nat, NEW forced \in BOOLEAN, TryFrom(n, forced)
  PROVE  \/ pc' = "exit" /\ verdict' = "fail"
         \/ (\E i \in StepNo : pc' = Steps[i]) /\ verdict' = verdict
<1> DEFINE left == From(n, methods, stage, forced)
<1>1. left \in SUBSET StepNo  BY DEF From
<1>2. CASE left = {}  BY <1>2 DEF TryFrom, Exit
<1>3. CASE left # {}
  <2>1. PICK i \in left : First(left) = Steps[i]  BY <1>1, <1>3, FirstIsSelected
  <2>2. pc' = First(left) /\ verdict' = verdict  BY <1>3 DEF TryFrom
  <2> QED  BY <1>1, <2>1, <2>2
<1> QED  BY <1>2, <1>3

\* A forced sequential proof is not skipped.
LEMMA ForcedSeq ==
  ASSUME TryFrom(8, TRUE)
  PROVE  pc' = "seq" /\ verdict' = verdict
<1> DEFINE left == From(8, methods, stage, TRUE)
<1>1. left \in SUBSET StepNo /\ \A i \in left : i = 8  BY DEF From, Selected, StepNo
<1>2. 8 \in left  BY DEF From, Selected, Steps, Family, StepNo
<1>3. PICK i \in left : First(left) = Steps[i]  BY <1>1, <1>2, FirstIsSelected
<1>4. First(left) = "seq"
  <2>1. i = 8  BY <1>1
  <2>2. Steps[8] = "seq"  BY DEF Steps
  <2> QED  BY <1>3, <2>1, <2>2
<1> QED  BY <1>2, <1>4 DEF TryFrom

-----------------------------------------------------------------------------
(* What the affine comparison calls different is different.                *)
LEMMA AffineDiffers ==
  ASSUME NEW p \in Paired, ProveAffinePo(gold, gate, p) = "not_equivalent"
  PROVE  p \in Differing
<1> DEFINE da == GoldCut(gold, gate, gold.ff[p[1]].d)
           db == GateCut(gold, gate, gate.ff[p[2]].d)
<1>1. PICK v \in Points(gold, gate) : Value(da, v) # Value(db, v)
  BY DEF ProveAffinePo
<1>2. da # db  BY <1>1
<1> QED  BY <1>2 DEF Differing, SameNext

\* A status other than a set mismatch is given where the resets have been
\* looked at, and 3 only to next states that differ.
LEMMA StatusMeaning ==
  ASSUME NEW kind
  PROVE  /\ ExitStatus(kind) \in {0, 1, 2, 3}
         /\ ExitStatus(kind) \in {0, 3} => ResetsMatch(gold, gate)
         /\ ExitStatus(kind) = 3 => kind = "not_equivalent"
BY DEF ExitStatus

\* The ways regpair ends.
Ending ==
  \/ prc' = 4 /\ ~ SetsMatch(gold, gate)
  \/ prc' \in {1, 2}
  \/ prc' = 0 /\ ResetsMatch(gold, gate)
  \/ prc' = 3 /\ ResetsMatch(gold, gate) /\ ~ Same

LEMMA ConcludedEnds ==
  ASSUME NEW kind, Concluded(kind), kind = "not_equivalent" => ~ Same
  PROVE  Ending /\ pc' = "judge" /\ UNCHANGED << inputs, todo, inconclusive, verdict >>
BY StatusMeaning DEF Concluded, End, Ending

LEMMA PairRegistersMoves ==
  ASSUME PairRegisters
  PROVE  \/ Ending /\ pc' = "judge" /\ UNCHANGED << inputs, todo, inconclusive, verdict >>
         \/ pc' = "miter" /\ todo' = {} /\ UNCHANGED << inputs, prc, inconclusive, verdict >>
BY DEF PairRegisters, End, Goto, Ending

LEMMA CecPairMoves ==
  ASSUME CecPair
  PROVE  \/ Ending /\ pc' = "judge" /\ UNCHANGED << inputs, todo, inconclusive, verdict >>
         \/ /\ pc' \in {"replay", "affine"} /\ todo' \subseteq Paired
            /\ UNCHANGED << inputs, prc, inconclusive, verdict >>
BY ConcludedEnds DEF CecPair, Goto

LEMMA ReplayMoves ==
  ASSUME Replay
  PROVE  \/ Ending /\ pc' = "judge" /\ UNCHANGED << inputs, todo, inconclusive, verdict >>
         \/ pc' = "narrow" /\ todo' = {} /\ UNCHANGED << inputs, prc, inconclusive, verdict >>
BY ConcludedEnds DEF Replay, Goto

LEMMA SatNarrowMoves ==
  ASSUME SatNarrow
  PROVE  \/ Ending /\ pc' = "judge" /\ UNCHANGED << inputs, todo, inconclusive, verdict >>
         \/ /\ pc' = "affine" /\ todo' \subseteq Paired
            /\ UNCHANGED << inputs, prc, inconclusive, verdict >>
<1>1. Differing \cap Narrow # {} => ~ Same  BY DEF Same, Differing
<1>2. Wide \subseteq Paired  BY DEF Wide
<1> QED  BY <1>1, <1>2, ConcludedEnds DEF SatNarrow, Goto

LEMMA AffineOnPosMoves ==
  ASSUME AffineOnPos, todo \subseteq Paired
  PROVE  Ending /\ pc' = "judge" /\ UNCHANGED << inputs, todo, inconclusive, verdict >>
<1>1. PICK failed \in SUBSET todo :
        LET kinds == {ProveAffinePo(gold, gate, p) : p \in todo \ failed}
        IN  Concluded(IF "not_equivalent" \in kinds THEN "not_equivalent"
                      ELSE IF "na" \in kinds \/ failed # {} THEN "unproven"
                      ELSE "equivalent")
  BY DEF AffineOnPos
<1> DEFINE kinds == {ProveAffinePo(gold, gate, p) : p \in todo \ failed}
<1>2. "not_equivalent" \in kinds => ~ Same
  <2> SUFFICES ASSUME "not_equivalent" \in kinds
               PROVE  ~ Same
    OBVIOUS
  <2>1. PICK p \in todo \ failed : ProveAffinePo(gold, gate, p) = "not_equivalent"
    OBVIOUS
  <2>2. p \in Paired /\ p \in Differing  BY <2>1, AffineDiffers
  <2> QED  BY <2>2 DEF Same
<1> QED  BY <1>1, <1>2, ConcludedEnds

-----------------------------------------------------------------------------
(* The kinds of step.                                                      *)
LEMMA EarlySteps ==
  ASSUME NEW i \in StepNo, Family[i] # "seq"
  PROVE  Steps[i] \notin {"judge", "seq", "exit"}
<1>1. i = 1 \/ i = 2 \/ i = 3 \/ i = 4 \/ i = 5 \/ i = 6 \/ i = 7 \/ i = 8
  BY DEF StepNo
<1> QED  BY <1>1 DEF Steps, Family

\* Everything but the judgement and the uncut proof comes before them.
Early ==
  \/ \E i \in StepNo : EquivMake(i) \/ SatTempinduct(i) \/ Abc(i)
  \/ AbcUnavailable \/ DumpFailed \/ CutFailed \/ PairRegisters
  \/ CecPair \/ Replay \/ SatNarrow \/ AffineOnPos

LEMMA EarlyPc ==
  ASSUME Early
  PROVE  pc \notin {"judge", "seq", "exit"}
<1>1. ASSUME NEW i \in StepNo, EquivMake(i) \/ SatTempinduct(i) \/ Abc(i)
      PROVE  pc \notin {"judge", "seq", "exit"}
  <2>1. pc = Steps[i] /\ Family[i] # "seq"
    BY <1>1 DEF EquivMake, SatTempinduct, Abc
  <2> QED  BY <2>1, EarlySteps
<1>2. ASSUME AbcUnavailable \/ DumpFailed \/ CutFailed \/ PairRegisters
             \/ CecPair \/ Replay \/ SatNarrow \/ AffineOnPos
      PROVE  pc \notin {"judge", "seq", "exit"}
  BY <1>2 DEF AbcUnavailable, DumpFailed, CutFailed, PairRegisters,
              CecPair, Replay, SatNarrow, AffineOnPos
<1> QED  BY <1>1, <1>2 DEF Early

\* A step of methods 1 to 3, or regpair skipped, keeps the invariant.
LEMMA MethodKeeps ==
  ASSUME Inv, prc = NoRc, pc # "exit", NothingElse,
         \/ pc' = "exit" /\ verdict' \in {"pass", "fail"}
         \/ (\E i \in StepNo : pc' = Steps[i]) /\ verdict' = verdict
  PROVE  Inv'
<1> USE DEF NothingElse, inputs
<1>1. TypeOK'
  <2>1. (verdict = "none" <=> pc # "exit")'  BY StepNames DEF Inv, TypeOK
  <2> QED  BY <2>1 DEF Inv, TypeOK, Paired
<1>2. NoRc \notin 0 .. 4  BY MethodsAssumption
<1> QED  BY <1>1, <1>2 DEF Inv, AfterRegpair, StatusSound, Judged, InconclusiveIsReal

\* So does a step on within regpair.
LEMMA GotoKeeps ==
  ASSUME Inv, prc = NoRc, pc # "exit",
         pc' \in {"miter", "replay", "narrow", "affine"}, todo' \subseteq Paired,
         UNCHANGED << inputs, prc, inconclusive, verdict >>
  PROVE  Inv'
<1> USE DEF inputs
<1>1. TypeOK'  BY DEF Inv, TypeOK, Paired
<1>2. NoRc \notin 0 .. 4  BY MethodsAssumption
<1> QED  BY <1>1, <1>2 DEF Inv, AfterRegpair, StatusSound, Judged, InconclusiveIsReal

\* And its end.
LEMMA EndingKeeps ==
  ASSUME Inv, pc # "exit", Ending, pc' = "judge",
         UNCHANGED << inputs, todo, inconclusive, verdict >>
  PROVE  Inv'
<1> USE DEF inputs, Ending
<1>1. TypeOK'  BY DEF Inv, TypeOK, Paired
<1>2. AfterRegpair' /\ Judged'  BY DEF AfterRegpair, Judged
<1>3. StatusSound'  BY DEF StatusSound
<1>4. Same' <=> Same  BY DEF Same, Paired, Differing
<1>5. InconclusiveIsReal'  BY <1>4 DEF InconclusiveIsReal
<1> QED  BY <1>1, <1>2, <1>3, <1>5 DEF Inv

LEMMA JudgeKeeps ==
  ASSUME Inv, Judge
  PROVE  Inv'
<1>1. UNCHANGED << inputs, todo, prc >> /\ pc = "judge"  BY DEF Judge
<1>2. \/ pc' = "exit" /\ verdict' = "fail" /\ inconclusive' = inconclusive
      \/ /\ pc' = "exit" /\ verdict' = "pass" /\ inconclusive' = inconclusive
         /\ Dead(gate) = {} /\ prc = 0
      \/ /\ pc' = "seq" /\ verdict' = verdict /\ inconclusive' = TRUE
         /\ Dead(gate) = {} /\ prc \in {3, 4}
  BY ForcedSeq DEF Judge, Exit
<1> USE DEF inputs
<1>3. TypeOK'
  <2>1. "seq" \in {Steps[i] : i \in StepNo}
    <3>1. Steps[8] = "seq" /\ 8 \in StepNo  BY DEF Steps, StepNo
    <3> QED  BY <3>1
  <2> QED  BY <1>1, <1>2, <2>1 DEF Inv, TypeOK, Paired
<1>4. AfterRegpair' /\ Judged'  BY <1>1, <1>2 DEF AfterRegpair, Judged
<1>5. StatusSound'  BY <1>1 DEF Inv, StatusSound
<1>6. InconclusiveIsReal'
  BY <1>1 DEF Inv, InconclusiveIsReal, Same, Paired, Differing
<1> QED  BY <1>3, <1>4, <1>5, <1>6 DEF Inv

LEMMA SeqOutKeeps ==
  ASSUME Inv, SeqOut
  PROVE  Inv'
<1>1. pc = "seq" /\ pc' = "exit" /\ verdict' \in {"pass", "fail"} /\ NothingElse
  BY DEF SeqOut, Exit
<1> USE DEF NothingElse, inputs
<1>2. TypeOK'  BY <1>1 DEF Inv, TypeOK, Paired
<1>3. AfterRegpair' /\ Judged'  BY <1>1 DEF Inv, TypeOK, AfterRegpair, Judged
<1>4. StatusSound'  BY <1>1 DEF Inv, StatusSound
<1>5. InconclusiveIsReal'
  BY <1>1 DEF Inv, InconclusiveIsReal, Same, Paired, Differing
<1> QED  BY <1>2, <1>3, <1>4, <1>5 DEF Inv

-----------------------------------------------------------------------------
LEMMA InitInv == Init => Inv
<1> SUFFICES ASSUME Init PROVE Inv
  OBVIOUS
<1> DEFINE I == From(1, methods, stage, FALSE)
<1>1. I \in SUBSET StepNo /\ I # {}  BY SomeMethod DEF From, Init
<1>2. PICK i \in StepNo : First(I) = Steps[i]  BY <1>1, FirstIsSelected
<1>3. pc = Steps[i]  BY <1>2 DEF Init
<1>4. pc # "exit"  BY <1>3, StepNames
<1>5. TypeOK  BY <1>3, <1>4 DEF Init, TypeOK
<1>6. prc = NoRc /\ NoRc \notin 0 .. 4  BY MethodsAssumption DEF Init
<1> QED  BY <1>5, <1>6 DEF Inv, AfterRegpair, StatusSound, Judged, InconclusiveIsReal

LEMMA EarlyKeeps ==
  ASSUME Inv, Early
  PROVE  Inv'
<1>1. pc # "exit" /\ prc = NoRc  BY EarlyPc DEF Inv, AfterRegpair
<1>2. todo \subseteq Paired  BY DEF Inv, TypeOK
<1>3. ASSUME NEW i \in StepNo, EquivMake(i) \/ SatTempinduct(i) \/ Abc(i)
      PROVE  Inv'
  <2>1. \/ pc' = "exit" /\ verdict' \in {"pass", "fail"}
        \/ TryFrom(i + 1, FALSE)
    BY <1>3 DEF EquivMake, SatTempinduct, Abc, Exit
  <2>2. i + 1 \in Nat  BY DEF StepNo
  <2>3. NothingElse  BY <1>3 DEF EquivMake, SatTempinduct, Abc
  <2> QED  BY <1>1, <2>1, <2>2, <2>3, TryFromMoves, MethodKeeps
<1>4. CASE AbcUnavailable
  <2>1. TryFrom(7, FALSE) /\ NothingElse  BY <1>4 DEF AbcUnavailable
  <2> QED  BY <1>1, <2>1, TryFromMoves, MethodKeeps
<1>5. CASE DumpFailed
  <2>1. TryFrom(8, FALSE) /\ NothingElse  BY <1>5 DEF DumpFailed
  <2> QED  BY <1>1, <2>1, TryFromMoves, MethodKeeps
<1>6. CASE CutFailed
  <2>1. Ending /\ pc' = "judge" /\ UNCHANGED << inputs, todo, inconclusive, verdict >>
    BY <1>6 DEF CutFailed, End, Ending
  <2> QED  BY <1>1, <2>1, EndingKeeps
<1>7. CASE PairRegisters
  BY <1>1, <1>7, PairRegistersMoves, EndingKeeps, GotoKeeps
<1>8. CASE CecPair
  BY <1>1, <1>8, CecPairMoves, EndingKeeps, GotoKeeps
<1>9. CASE Replay
  BY <1>1, <1>9, ReplayMoves, EndingKeeps, GotoKeeps
<1>10. CASE SatNarrow
  BY <1>1, <1>10, SatNarrowMoves, EndingKeeps, GotoKeeps
<1>11. CASE AffineOnPos
  BY <1>1, <1>2, <1>11, AffineOnPosMoves, EndingKeeps
<1> QED  BY <1>3, <1>4, <1>5, <1>6, <1>7, <1>8, <1>9, <1>10, <1>11 DEF Early

LEMMA NextKeeps == Inv /\ [Next]_vars => Inv'
<1> SUFFICES ASSUME Inv, [Next]_vars PROVE Inv'
  OBVIOUS
<1>1. CASE Early  BY <1>1, EarlyKeeps
<1>2. CASE Judge  BY <1>2, JudgeKeeps
<1>3. CASE SeqOut  BY <1>3, SeqOutKeeps
<1>4. CASE UNCHANGED vars
  BY <1>4 DEF vars, inputs, Inv, TypeOK, AfterRegpair, StatusSound, Judged,
              InconclusiveIsReal, Same, Paired, Differing
<1> QED  BY <1>1, <1>2, <1>3, <1>4 DEF Next, Early, Done

LEMMA Invariant == Spec => []Inv
BY InitInv, NextKeeps, PTL DEF Spec

-----------------------------------------------------------------------------
(* Every variable has its type, whatever methods are chosen.               *)
THEOREM TypeCorrect == Spec => []TypeOK
<1>1. Inv => TypeOK  BY DEF Inv
<1> QED  BY <1>1, Invariant, PTL

(* For any netlists: once regpair has looked at a netlist with a wrong     *)
(* reset or a dead register, equiv_ref.sh does not pass it.                *)
THEOREM IndependentFailsAreFinal == Spec => []IndependentFailsStand
<1>1. Inv => IndependentFailsStand
  <2> SUFFICES ASSUME Inv, verdict = "pass", prc # NoRc
               PROVE  Dead(gate) = {} /\ (SetsMatch(gold, gate) => ResetsMatch(gold, gate))
    BY DEF IndependentFailsStand
  <2>1. pc = "exit"  BY DEF Inv, TypeOK
  <2>2. Dead(gate) = {} /\ prc \in {0, 3, 4}  BY <2>1 DEF Inv, Judged
  <2> QED  BY <2>2 DEF Inv, StatusSound
<1> QED  BY <1>1, Invariant, PTL

(* For any netlists: regpair reports a state encoding only of next states  *)
(* that differ, by replay, by SAT or by the affine comparison.             *)
THEOREM InconclusiveOnlyIfDifferent == Spec => []InconclusiveIsReal
<1>1. Inv => InconclusiveIsReal  BY DEF Inv
<1> QED  BY <1>1, Invariant, PTL

(* For any netlists: what regpair left open is settled by DEADREG or by    *)
(* the sequential proof.                                                   *)
THEOREM SequentialProofDecides == Spec => SeqDecides
<1>1. Inv /\ [Next]_vars =>
        [(verdict' # verdict /\ prc \in {3, 4}) =>
           pc = "seq" \/ (pc = "judge" /\ Dead(gate) # {})]_vars
  <2> SUFFICES ASSUME Inv, [Next]_vars, verdict' # verdict, prc \in {3, 4}
               PROVE  pc = "seq" \/ (pc = "judge" /\ Dead(gate) # {})
    BY DEF vars
  <2>1. prc # NoRc  BY MethodsAssumption
  <2>2. pc \in {"judge", "seq", "exit"}  BY <2>1 DEF Inv, AfterRegpair
  <2>3. CASE Early  BY <2>2, <2>3, EarlyPc
  <2>4. CASE Judge
    <3>1. prc # 0  OBVIOUS
    <3>2. ASSUME Dead(gate) = {} PROVE TryFrom(8, TRUE)
      BY <2>4, <3>1, <3>2, Zenon DEF Judge
    <3>3. pc = "judge"  BY <2>4 DEF Judge
    <3> QED  BY <3>2, <3>3, ForcedSeq
  <2>5. CASE SeqOut  BY <2>5 DEF SeqOut
  <2>6. CASE UNCHANGED vars  BY <2>6 DEF vars
  <2> QED  BY <2>3, <2>4, <2>5, <2>6 DEF Next, Early, Done
<1> QED  BY <1>1, Invariant, PTL DEF Spec, SeqDecides

-----------------------------------------------------------------------------
(* What two netlists reach together.                                       *)
States(g, t) == (SUBSET Cells(g)) \X (SUBSET Cells(t))

ReachedSteps(f, g, t, start, n) ==
  /\ f[0] = start
  /\ \A k \in 1 .. n : f[k] = f[k - 1] \cup Onward(g, t, f[k - 1])

\* A cycle leads to states of the two netlists.
LEMMA OnwardInStates ==
  ASSUME NEW g, NEW t, NEW S
  PROVE  Onward(g, t, S) \subseteq States(g, t)
<1> SUFFICES ASSUME NEW q \in Onward(g, t, S) PROVE q \in States(g, t)
  OBVIOUS
<1>1. PICK p \in S, i \in SUBSET Ins : q = << NextState(g, p[1], i), NextState(t, p[2], i) >>
  BY DEF Onward
<1>2. NextState(g, p[1], i) \in SUBSET Cells(g) /\ NextState(t, p[2], i) \in SUBSET Cells(t)
  BY DEF NextState
<1> QED BY <1>1, <1>2 DEF States

\* There are finitely many pairs of states.
LEMMA StatesFinite ==
  ASSUME NEW g, NEW t, IsNetlist(g), IsNetlist(t)
  PROVE  IsFiniteSet(States(g, t)) /\ Cardinality(States(g, t)) \in Nat
<1>1. IsFiniteSet(SUBSET Cells(g)) /\ IsFiniteSet(SUBSET Cells(t))
  BY FS_SUBSET DEF IsNetlist
<1>2. IsFiniteSet((SUBSET Cells(g)) \X (SUBSET Cells(t)))
  BY <1>1, FS_Product
<1> QED BY <1>2, FS_CardinalityType DEF States

\* Reached is the last of the sets that are reached in so many cycles.
LEMMA ReachedIsLast ==
  ASSUME NEW g, NEW t, IsNetlist(g), IsNetlist(t), NEW start \in SUBSET States(g, t)
  PROVE  \E f \in [0 .. Cardinality(States(g, t)) -> SUBSET States(g, t)] :
           /\ ReachedSteps(f, g, t, start, Cardinality(States(g, t)))
           /\ Reached(g, t, start) = f[Cardinality(States(g, t))]
<1> DEFINE n == Cardinality(States(g, t))
           step == [p \in (1 .. n) \X (SUBSET States(g, t)) |-> p[2] \cup Onward(g, t, p[2])]
           Run(f) == f = [k \in 0 .. n |-> IF k = 0 THEN start
                                           ELSE f[k - 1] \cup Onward(g, t, f[k - 1])]
<1>1. n \in Nat
  BY StatesFinite
<1>2. step \in [(1 .. n) \X (SUBSET States(g, t)) -> SUBSET States(g, t)]
  BY OnwardInStates
<1>3. Reached(g, t, start) = (CHOOSE f : Run(f))[n]
  BY DEF Reached, States
<1>4. \E f : Run(f)
  <2>1. PICK r \in [0 .. n -> SUBSET States(g, t)] : StepsOver(r, n, start, step)
    <3> HIDE DEF n, step
    <3> QED BY <1>1, <1>2, StepsExist
  <2>2. ASSUME NEW k \in 0 .. n, k # 0 PROVE r[k] = r[k - 1] \cup Onward(g, t, r[k - 1])
    <3>1. k \in 1 .. n /\ k - 1 \in 0 .. n
      BY <1>1, <2>2
    <3>2. <<k, r[k - 1]>> \in (1 .. n) \X (SUBSET States(g, t))
      BY <3>1
    <3>3. r[k] = step[<<k, r[k - 1]>>]
      BY <2>1, <3>1 DEF StepsOver
    <3> QED BY <3>2, <3>3
  <2>3. r[0] = start
    BY <2>1 DEF StepsOver
  <2>4. Run(r)
    BY <2>2, <2>3
  <2> QED BY <2>4
<1>5. PICK f : Run(f) /\ Reached(g, t, start) = f[n]
  <2> DEFINE c == CHOOSE f : Run(f)
  <2>1. Run(c)
    BY <1>4
  <2> QED BY <1>3, <2>1
<1>6. f[0] = start
  BY <1>1, <1>5
<1>7. ASSUME NEW k \in 1 .. n PROVE f[k] = f[k - 1] \cup Onward(g, t, f[k - 1])
  <2>1. k \in 0 .. n /\ k # 0
    BY <1>1
  <2> QED BY <1>5, <2>1
<1>8. \A k \in 0 .. n : f[k] \in SUBSET States(g, t)
  <2> DEFINE T == {k \in 0 .. n : f[k] \in SUBSET States(g, t)}
  <2>1. 0 \in T
    BY <1>1, <1>6
  <2>2. ASSUME NEW k \in 0 .. n - 1, k \in T PROVE k + 1 \in T
    <3>1. k + 1 \in 1 .. n /\ k + 1 \in 0 .. n /\ (k + 1) - 1 = k
      BY <1>1
    <3>2. f[k + 1] = f[k] \cup Onward(g, t, f[k])
      BY <1>7, <3>1
    <3> QED BY <2>2, <3>1, <3>2, OnwardInStates
  <2>3. 0 .. n \subseteq T
    <3> HIDE DEF T, n
    <3> QED BY <1>1, <2>1, <2>2, InductUpTo
  <2> QED BY <2>3
<1>9. f \in [0 .. n -> SUBSET States(g, t)]
  <2>1. f = [k \in 0 .. n |-> f[k]]
    BY <1>5
  <2> QED BY <1>8, <2>1
<1>10. ReachedSteps(f, g, t, start, n)
  BY <1>6, <1>7 DEF ReachedSteps
<1> HIDE DEF n, Run
<1> QED BY <1>5, <1>9, <1>10 DEF n

\* What holds at the start and is kept by a cycle holds of all that is reached.
LEMMA ReachedWithin ==
  ASSUME NEW g, NEW t, IsNetlist(g), IsNetlist(t), NEW start \in SUBSET States(g, t),
         NEW R, start \subseteq R, \A S \in SUBSET R : Onward(g, t, S) \subseteq R
  PROVE  Reached(g, t, start) \subseteq R
<1> DEFINE n == Cardinality(States(g, t))
<1>1. n \in Nat
  BY StatesFinite
<1>2. PICK f : ReachedSteps(f, g, t, start, n) /\ Reached(g, t, start) = f[n]
  BY ReachedIsLast
<1> DEFINE T == {k \in 0 .. n : f[k] \subseteq R}
<1> HIDE DEF n
<1>3. 0 \in T
  BY <1>1, <1>2 DEF ReachedSteps
<1>4. ASSUME NEW k \in 0 .. n - 1, k \in T PROVE k + 1 \in T
  <2>1. k + 1 \in 1 .. n /\ k + 1 \in 0 .. n /\ (k + 1) - 1 = k
    BY <1>1
  <2>2. f[k + 1] = f[k] \cup Onward(g, t, f[k])
    BY <1>2, <2>1 DEF ReachedSteps
  <2>3. f[k] \subseteq R
    BY <1>4
  <2> QED BY <2>1, <2>2, <2>3
<1>5. 0 .. n \subseteq T
  <2> HIDE DEF T
  <2> QED BY <1>1, <1>3, <1>4, InductUpTo
<1>6. n \in T
  <2>1. n \in 0 .. n
    BY <1>1
  <2> QED BY <1>5, <2>1
<1> QED BY <1>2, <1>6

\* The bound is enough: from what is reached no cycle leads elsewhere.
LEMMA ReachedClosed ==
  ASSUME NEW g, NEW t, IsNetlist(g), IsNetlist(t), NEW start \in SUBSET States(g, t)
  PROVE  /\ start \subseteq Reached(g, t, start)
         /\ Reached(g, t, start) \subseteq States(g, t)
         /\ Onward(g, t, Reached(g, t, start)) \subseteq Reached(g, t, start)
<1> DEFINE n == Cardinality(States(g, t))
<1>1. n \in Nat /\ IsFiniteSet(States(g, t))
  BY StatesFinite
<1>2. PICK f \in [0 .. n -> SUBSET States(g, t)] :
        ReachedSteps(f, g, t, start, n) /\ Reached(g, t, start) = f[n]
  BY ReachedIsLast
<1> HIDE DEF n
<1>3. ASSUME NEW k \in 0 .. n - 1
      PROVE  /\ k \in 0 .. n /\ k + 1 \in 0 .. n
             /\ f[k + 1] = f[k] \cup Onward(g, t, f[k])
             /\ f[k] \in SUBSET States(g, t) /\ f[k + 1] \in SUBSET States(g, t)
  <2>1. k + 1 \in 1 .. n /\ k \in 0 .. n /\ k + 1 \in 0 .. n /\ (k + 1) - 1 = k
    BY <1>1
  <2> QED BY <1>2, <2>1 DEF ReachedSteps
<1>4. start \subseteq f[n]
  <2> DEFINE T == {k \in 0 .. n : start \subseteq f[k]}
  <2>1. 0 \in T
    BY <1>1, <1>2 DEF ReachedSteps
  <2>2. ASSUME NEW k \in 0 .. n - 1, k \in T PROVE k + 1 \in T
    BY <1>3, <2>2
  <2>3. 0 .. n \subseteq T
    <3> HIDE DEF T
    <3> QED BY <1>1, <2>1, <2>2, InductUpTo
  <2> QED BY <1>1, <2>3
<1>5. CASE \E k \in 0 .. n - 1 : f[k + 1] = f[k]
  <2>1. PICK k \in 0 .. n - 1 : f[k + 1] = f[k]
    BY <1>5
  <2> DEFINE T == {j \in 0 .. n : j > k => f[j] = f[k]}
  <2>2. 0 \in T
    BY <1>1
  <2>3. ASSUME NEW j \in 0 .. n - 1, j \in T PROVE j + 1 \in T
    <3>1. f[j + 1] = f[j] \cup Onward(g, t, f[j]) /\ j + 1 \in 0 .. n
      BY <1>3
    <3>2. CASE j + 1 = k + 1
      BY <2>1, <3>1, <3>2
    <3>3. CASE j > k
      <4>1. f[j] = f[k]
        BY <2>3, <3>3
      <4>2. f[j + 1] = f[k + 1]
        BY <1>3, <3>1, <4>1
      <4> QED BY <2>1, <3>1, <4>2
    <3>4. CASE j < k
      BY <3>1, <3>4
    <3> QED BY <3>2, <3>3, <3>4
  <2>4. 0 .. n \subseteq T
    <3> HIDE DEF T
    <3> QED BY <1>1, <2>2, <2>3, InductUpTo
  <2>5. f[n] = f[k]
    BY <1>1, <2>4
  <2>6. Onward(g, t, f[k]) \subseteq f[k]
    BY <1>3, <2>1
  <2>7. f[n] \subseteq States(g, t)
    BY <1>1, <1>2
  <2>8. Onward(g, t, f[n]) \subseteq f[n]
    BY <2>5, <2>6
  <2> QED BY <1>2, <1>4, <2>7, <2>8
<1>6. CASE \A k \in 0 .. n - 1 : f[k + 1] # f[k]
  <2> DEFINE T == {k \in 0 .. n : Cardinality(f[k]) >= k}
  <2>0. ASSUME NEW k \in 0 .. n PROVE IsFiniteSet(f[k]) /\ Cardinality(f[k]) \in Nat
    <3>1. f[k] \subseteq States(g, t)
      BY <1>2
    <3>2. IsFiniteSet(f[k])
      BY <1>1, <3>1, FS_Subset
    <3> QED BY <3>2, FS_CardinalityType
  <2>1. 0 \in T
    BY <1>1, <2>0
  <2>2. ASSUME NEW k \in 0 .. n - 1, k \in T PROVE k + 1 \in T
    <3>1. f[k] \subseteq f[k + 1] /\ f[k] # f[k + 1]
      BY <1>3, <1>6
    <3>2. IsFiniteSet(f[k + 1]) /\ Cardinality(f[k + 1]) \in Nat /\ Cardinality(f[k]) \in Nat
      BY <1>3, <2>0
    <3>3. Cardinality(f[k]) < Cardinality(f[k + 1])
      BY <3>1, <3>2, FS_Subset
    <3>4. Cardinality(f[k]) >= k /\ k + 1 \in 0 .. n /\ k \in Nat
      BY <1>3, <2>2
    <3> QED BY <3>2, <3>3, <3>4
  <2>3. 0 .. n \subseteq T
    <3> HIDE DEF T
    <3> QED BY <1>1, <2>1, <2>2, InductUpTo
  <2>4. Cardinality(f[n]) >= n /\ n \in 0 .. n
    BY <1>1, <2>3
  <2>5. f[n] \subseteq States(g, t)
    BY <1>2, <2>4
  <2>6. f[n] = States(g, t)
    <3>1. /\ Cardinality(f[n]) <= Cardinality(States(g, t))
          /\ Cardinality(States(g, t)) = Cardinality(f[n]) => States(g, t) = f[n]
      <4>1. f[n] \in SUBSET States(g, t)
        BY <2>5
      <4> QED BY <1>1, <4>1, FS_Subset
    <3>2. Cardinality(States(g, t)) = n /\ Cardinality(f[n]) \in Nat
      BY <2>0, <2>4 DEF n
    <3> QED BY <1>1, <2>4, <3>1, <3>2
  <2> QED BY <1>2, <1>4, <2>6, OnwardInStates
<1> QED BY <1>5, <1>6

\* Reset, and all flip-flops at zero, are states.
LEMMA ResetStates ==
  ASSUME NEW g, NEW t
  PROVE  << ResetState(g), ResetState(t) >> \in States(g, t) /\ << {}, {} >> \in States(g, t)
<1>1. ResetState(g) \in SUBSET Cells(g) /\ ResetState(t) \in SUBSET Cells(t)
  BY DEF ResetState
<1> QED BY <1>1 DEF States

\* What is equal from zero as well is equal after reset: more is reached
\* from more states.
LEMMA FromFewer ==
  ASSUME NEW g, NEW t, IsNetlist(g), IsNetlist(t), SameFromZero(g, t)
  PROVE  SameAfterReset(g, t)
<1> DEFINE few == {<< ResetState(g), ResetState(t) >>}
           more == {<< {}, {} >>, << ResetState(g), ResetState(t) >>}
           R == Reached(g, t, more)
<1>1. few \in SUBSET States(g, t) /\ more \in SUBSET States(g, t) /\ few \subseteq more
  BY ResetStates
<1>2. more \subseteq R /\ Onward(g, t, R) \subseteq R
  <2> HIDE DEF more
  <2> QED BY <1>1, ReachedClosed
<1>3. ASSUME NEW S \in SUBSET R PROVE Onward(g, t, S) \subseteq R
  <2>1. Onward(g, t, S) \subseteq Onward(g, t, R)
    <3> HIDE DEF R
    <3> QED BY DEF Onward
  <2> QED BY <1>2, <2>1
<1>4. Reached(g, t, few) \subseteq R
  <2> HIDE DEF few, R, more
  <2>1. few \subseteq R
    BY <1>1, <1>2
  <2> QED BY <1>1, <1>3, <2>1, ReachedWithin
<1> QED BY <1>4 DEF SameAfterReset, SameFromZero, SameFrom

\* A run of a netlist under the inputs is.
RunsFrom(n, s, is) ==
  s[0] = ResetState(n) /\ \A k \in Nat : s[k + 1] = NextState(n, s[k], is[k])

(* What the bounded definition of Reached is worth: netlists that are the  *)
(* same after reset show the same outputs in every cycle, however many     *)
(* there are and whatever the inputs.                                      *)
THEOREM SameInEveryCycle ==
  ASSUME NEW g, NEW t, IsNetlist(g), IsNetlist(t), SameAfterReset(g, t),
         NEW is \in [Nat -> SUBSET Ins], NEW a, RunsFrom(g, a, is), NEW b, RunsFrom(t, b, is),
         NEW n \in Nat
  PROVE  Outputs(g, a[n], is[n]) = Outputs(t, b[n], is[n])
<1> DEFINE start == {<< ResetState(g), ResetState(t) >>}
           R == Reached(g, t, start)
           T == {k \in 0 .. n : << a[k], b[k] >> \in R}
<1>1. start \in SUBSET States(g, t)
  BY ResetStates
<1>2. start \subseteq R /\ Onward(g, t, R) \subseteq R
  <2> HIDE DEF start
  <2> QED BY <1>1, ReachedClosed
<1>3. 0 \in T
  BY <1>2 DEF RunsFrom
<1>4. ASSUME NEW k \in 0 .. n - 1, k \in T PROVE k + 1 \in T
  <2>1. k \in Nat /\ k + 1 \in 0 .. n /\ << a[k], b[k] >> \in R
    BY <1>4
  <2>2. a[k + 1] = NextState(g, a[k], is[k]) /\ b[k + 1] = NextState(t, b[k], is[k])
    BY <2>1 DEF RunsFrom
  <2>3. is[k] \in SUBSET Ins
    BY <2>1
  <2>4. << NextState(g, a[k], is[k]), NextState(t, b[k], is[k]) >> \in Onward(g, t, R)
    <3>1. PICK p \in R : p[1] = a[k] /\ p[2] = b[k]
      <4> HIDE DEF R
      <4> QED BY <2>1
    <3> HIDE DEF R
    <3> QED BY <2>3, <3>1 DEF Onward
  <2> QED BY <1>2, <2>1, <2>2, <2>4
<1>5. << a[n], b[n] >> \in R
  <2>1. 0 .. n \subseteq T
    <3> HIDE DEF T
    <3> QED BY <1>3, <1>4, InductUpTo
  <2>2. n \in T
    <3>1. n \in 0 .. n
      OBVIOUS
    <3> HIDE DEF T
    <3> QED BY <2>1, <3>1
  <2> HIDE DEF R
  <2> QED BY <2>2
<1>6. PICK p \in R : p[1] = a[n] /\ p[2] = b[n]
  <2> HIDE DEF R
  <2> QED BY <1>5
<1>7. is[n] \in SUBSET Ins
  OBVIOUS
<1>8. \A p1 \in R, i \in SUBSET Ins : Outputs(g, p1[1], i) = Outputs(t, p1[2], i)
  BY DEF SameAfterReset, SameFrom
<1> HIDE DEF R
<1> QED BY <1>6, <1>7, <1>8

-----------------------------------------------------------------------------
(* Pairs and cuts.                                                         *)
\* Only registers with a name are paired.
LEMMA PairsFinite ==
  ASSUME NEW g, NEW t, IsNetlist(g), IsNetlist(t)
  PROVE  IsFiniteSet(Pairs(g, t)) /\ Pairs(g, t) \subseteq Named(g) \X Named(t)
<1>1. Pairs(g, t) \subseteq Named(g) \X Named(t)
  BY DEF Pairs
<1>2. IsFiniteSet(Named(g)) /\ IsFiniteSet(Named(t))
  BY FS_Subset DEF Named, IsNetlist
<1>3. IsFiniteSet(Named(g) \X Named(t))
  BY <1>2, FS_Product
<1> QED BY <1>1, <1>3, FS_Subset

\* With register sets that match, the pairs are a bijection.
LEMMA OnePairEach ==
  ASSUME NEW g, NEW t, IsNetlist(g), IsNetlist(t), SetsMatch(g, t)
  PROVE  /\ \A r \in Named(g) : \E p \in Pairs(g, t) : p[1] = r
         /\ \A r \in Named(t) : \E p \in Pairs(g, t) : p[2] = r
         /\ \A p, q \in Pairs(g, t) : p[1] = q[1] \/ p[2] = q[2] => p = q
<1> DEFINE P == Pairs(g, t)
<1>1. IsFiniteSet(P) /\ P \subseteq Named(g) \X Named(t)
  BY PairsFinite
<1> HIDE DEF P
<1>2. ASSUME NEW r \in Named(g) PROVE \E x : {p \in P : p[1] = r} = {x}
  <2>1. Cardinality({p \in P : p[1] = r}) = 1
    BY DEF SetsMatch, P
  <2>2. IsFiniteSet({p \in P : p[1] = r})
    BY <1>1, FS_Subset
  <2> QED BY <2>1, <2>2, FS_Singleton
<1>3. ASSUME NEW r \in Named(t) PROVE \E x : {p \in P : p[2] = r} = {x}
  <2>1. Cardinality({p \in P : p[2] = r}) = 1
    BY DEF SetsMatch, P
  <2>2. IsFiniteSet({p \in P : p[2] = r})
    BY <1>1, FS_Subset
  <2> QED BY <2>1, <2>2, FS_Singleton
<1>4. \A r \in Named(g) : \E p \in P : p[1] = r
  BY <1>2
<1>5. \A r \in Named(t) : \E p \in P : p[2] = r
  BY <1>3
<1>6. ASSUME NEW p \in P, NEW q \in P, p[1] = q[1] \/ p[2] = q[2] PROVE p = q
  <2>1. p[1] \in Named(g) /\ p[2] \in Named(t)
    BY <1>1
  <2>2. CASE p[1] = q[1]
    <3>1. PICK x : {y \in P : y[1] = p[1]} = {x}
      BY <1>2, <2>1
    <3> QED BY <2>2, <3>1
  <2>3. CASE p[2] = q[2]
    <3>1. PICK x : {y \in P : y[2] = p[2]} = {x}
      BY <1>3, <2>1
    <3> QED BY <2>3, <3>1
  <2> QED BY <1>6, <2>2, <2>3
<1> QED BY <1>4, <1>5, <1>6 DEF P

\* The register of the gold whose port stands for a signal of the gate.
AsGold(g, t, x) == IF x \in {y[2] : y \in Pairs(g, t)} THEN GoldCell(g, t, x) ELSE x

\* The cut names a register of the gate by its pair.
LEMMA GoldCellOf ==
  ASSUME NEW g, NEW t, IsNetlist(g), IsNetlist(t), SetsMatch(g, t), NEW p \in Pairs(g, t)
  PROVE  GoldCell(g, t, p[2]) = p[1]
<1>1. \A q \in Pairs(g, t) : q[2] = p[2] => q = p
  BY OnePairEach
<1>2. (CHOOSE q \in Pairs(g, t) : q[2] = p[2]) = p
  BY <1>1
<1> QED BY <1>2 DEF GoldCell

\* States in which paired registers hold the same.
Mirrored(g, t, s, r) == \A p \in Pairs(g, t) : p[1] \in s <=> p[2] \in r

\* Of mirrored states a signal and the one it stands for have the same value.
LEMMA AsGoldMirrored ==
  ASSUME NEW g, NEW t, IsNetlist(g), IsNetlist(t), SetsMatch(g, t),
         NEW s \in SUBSET Cells(g), NEW r \in SUBSET Cells(t), Mirrored(g, t, s, r),
         NEW i \in SUBSET Ins, NEW x \in Ins \cup Named(t)
  PROVE  AsGold(g, t, x) \in s \cup i <=> x \in r \cup i
<1>1. /\ Cells(g) \cap Ins = {} /\ Cells(t) \cap Ins = {}
      /\ Named(g) \subseteq Cells(g) /\ Named(t) \subseteq Cells(t)
      /\ Pairs(g, t) \subseteq Named(g) \X Named(t)
  BY PairsFinite DEF IsNetlist, Named
<1>2. CASE x \in Named(t)
  <2>1. PICK p \in Pairs(g, t) : p[2] = x
    BY <1>2, OnePairEach
  <2>2. AsGold(g, t, x) = p[1]
    BY <2>1, GoldCellOf DEF AsGold
  <2>3. p[1] \in Cells(g) /\ x \in Cells(t) /\ (p[1] \in s <=> x \in r)
    BY <1>1, <2>1 DEF Mirrored
  <2> QED BY <1>1, <2>2, <2>3
<1>3. CASE x \in Ins
  <2>1. AsGold(g, t, x) = x
    BY <1>1, <1>3 DEF AsGold
  <2> QED BY <1>1, <1>3, <2>1
<1> QED BY <1>2, <1>3

\* No two signals of the gate stand for the same.
LEMMA AsGoldInjective ==
  ASSUME NEW g, NEW t, IsNetlist(g), IsNetlist(t), SetsMatch(g, t),
         NEW x \in Ins \cup Named(t), NEW y \in Ins \cup Named(t),
         AsGold(g, t, x) = AsGold(g, t, y)
  PROVE  x = y
<1>1. /\ Cells(g) \cap Ins = {} /\ Cells(t) \cap Ins = {}
      /\ Named(g) \subseteq Cells(g) /\ Named(t) \subseteq Cells(t)
      /\ Pairs(g, t) \subseteq Named(g) \X Named(t)
  BY PairsFinite DEF IsNetlist, Named
<1>2. ASSUME NEW z \in Named(t)
      PROVE  \E p \in Pairs(g, t) : p[2] = z /\ AsGold(g, t, z) = p[1] /\ p[1] \in Cells(g)
  <2>1. PICK p \in Pairs(g, t) : p[2] = z
    BY OnePairEach
  <2>2. AsGold(g, t, z) = p[1]
    BY <2>1, GoldCellOf DEF AsGold
  <2> QED BY <1>1, <2>1, <2>2
<1>3. \A z \in Ins : AsGold(g, t, z) = z
  BY <1>1 DEF AsGold
<1>4. CASE x \in Named(t) /\ y \in Named(t)
  <2>1. PICK p \in Pairs(g, t) : p[2] = x /\ AsGold(g, t, x) = p[1]
    BY <1>2, <1>4
  <2>2. PICK q \in Pairs(g, t) : q[2] = y /\ AsGold(g, t, y) = q[1]
    BY <1>2, <1>4
  <2>3. \A u, v \in Pairs(g, t) : u[1] = v[1] => u = v
    BY OnePairEach
  <2>4. p[1] = q[1] => p = q
    BY <2>3
  <2> QED BY <2>1, <2>2, <2>4
<1>5. CASE x \in Ins /\ y \in Ins
  BY <1>3, <1>5
<1>6. CASE x \in Named(t) /\ y \in Ins
  BY <1>1, <1>2, <1>3, <1>6
<1>7. CASE x \in Ins /\ y \in Named(t)
  BY <1>1, <1>2, <1>3, <1>7
<1> QED BY <1>4, <1>5, <1>6, <1>7

\* A cut function has the value of the gate's own in mirrored states.
LEMMA CutValue ==
  ASSUME NEW g, NEW t, IsNetlist(g), IsNetlist(t), SetsMatch(g, t), IsFiniteSet(Ins),
         NEW s \in SUBSET Cells(g), NEW r \in SUBSET Cells(t), Mirrored(g, t, s, r),
         NEW i \in SUBSET Ins, NEW q \in SUBSET (SUBSET (Ins \cup Named(t)))
  PROVE  Value(GateCut(g, t, q), s \cup i) <=> Value(q, r \cup i)
<1> DEFINE h(x) == AsGold(g, t, x)
           rho(m) == {h(x) : x \in m}
           A == {m \in q : m \subseteq r \cup i}
           B == {m \in GateCut(g, t, q) : m \subseteq s \cup i}
           f == [m \in A |-> rho(m)]
           sig == Ins \cup Named(t)
<1>1. \A x \in sig : h(x) \in s \cup i <=> x \in r \cup i
  BY AsGoldMirrored
<1>2. \A x, y \in sig : h(x) = h(y) => x = y
  BY AsGoldInjective
<1>3. {y[2] : y \in Pairs(g, t)} = Named(t)
  <2>1. Pairs(g, t) \subseteq Named(g) \X Named(t)
    BY PairsFinite
  <2>2. \A z \in Named(t) : \E p \in Pairs(g, t) : p[2] = z
    BY OnePairEach
  <2> QED BY <2>1, <2>2
<1>4. GateCut(g, t, q) = {rho(m) : m \in q}
  <2>1. {m \in q : m \subseteq Ins \cup {y[2] : y \in Pairs(g, t)}} = q
    BY <1>3
  <2> QED BY <2>1 DEF GateCut, AsGold
<1> HIDE DEF h
<1>5. \A m \in q : rho(m) \subseteq s \cup i <=> m \subseteq r \cup i
  <2> TAKE m \in q
  <2>1. m \subseteq sig
    OBVIOUS
  <2> HIDE DEF sig
  <2> QED BY <1>1, <2>1
<1>6. \A m, l \in q : rho(m) = rho(l) => m = l
  <2> SUFFICES ASSUME NEW m \in q, NEW l \in q, rho(m) = rho(l) PROVE m = l
    OBVIOUS
  <2>1. m \subseteq sig /\ l \subseteq sig
    OBVIOUS
  <2> HIDE DEF sig
  <2>2. ASSUME NEW x \in m PROVE x \in l
    <3>1. h(x) \in rho(l)
      <4>1. h(x) \in rho(m)
        OBVIOUS
      <4> HIDE DEF rho
      <4> QED BY <4>1
    <3>2. PICK y \in l : h(x) = h(y)
      BY <3>1
    <3> QED BY <1>2, <2>1, <3>2
  <2>3. ASSUME NEW x \in l PROVE x \in m
    <3>1. h(x) \in rho(m)
      <4>1. h(x) \in rho(l)
        OBVIOUS
      <4> HIDE DEF rho
      <4> QED BY <4>1
    <3>2. PICK y \in m : h(x) = h(y)
      BY <3>1
    <3> QED BY <1>2, <2>1, <3>2
  <2> QED BY <2>2, <2>3
<1>7. \A m \in A : m \in q /\ m \subseteq r \cup i
  OBVIOUS
<1>8. \A n \in B : \E m \in A : n = rho(m)
  <2> TAKE n \in B
  <2>1. PICK m \in q : n = rho(m)
    BY <1>4
  <2>2. m \in A
    BY <1>5, <2>1
  <2> QED BY <2>1, <2>2
<1>9. \A m \in A : rho(m) \in B
  <2> TAKE m \in A
  <2>1. m \in q /\ rho(m) \in GateCut(g, t, q)
    BY <1>4
  <2>2. rho(m) \subseteq s \cup i
    BY <1>5, <1>7, <2>1
  <2> HIDE DEF rho
  <2> QED BY <2>1, <2>2
<1>10. IsFiniteSet(A)
  <2>1. IsFiniteSet(sig)
    <3>1. IsFiniteSet(Named(t))
      BY FS_Subset DEF IsNetlist, Named
    <3> QED BY <3>1, FS_Union
  <2>2. IsFiniteSet(SUBSET sig)
    BY <2>1, FS_SUBSET
  <2>3. A \subseteq SUBSET sig
    OBVIOUS
  <2> HIDE DEF A, sig
  <2> QED BY <2>2, <2>3, FS_Subset
<1>11. Cardinality(B) = Cardinality(A)
  <2> HIDE DEF A, B, rho
  <2>1. f \in Bijection(A, B)
    <3>1. f \in [A -> B]
      BY <1>9
    <3>2. \A m, l \in A : f[m] = f[l] => m = l
      BY <1>6, <1>7
    <3>3. \A n \in B : \E m \in A : f[m] = n
      BY <1>8
    <3> QED BY <3>1, <3>2, <3>3 DEF Bijection, Injection, Surjection, IsInjective
  <2>2. ExistsBijection(A, B)
    BY <2>1 DEF ExistsBijection
  <2> QED BY <1>10, <2>2, FS_Bijection
<1> QED BY <1>11 DEF Value

-----------------------------------------------------------------------------
(* What regpair takes for granted of the netlists it pairs.                *)

\* No register it knows the name of, and no output, reads one it does not.
ReadsNamed(n) ==
  LET signals == Ins \cup Named(n)
  IN  /\ \A r \in Named(n) : n.ff[r].d \subseteq SUBSET signals
      /\ \A o \in DOMAIN n.outs : n.outs[o] \subseteq SUBSET signals

\* A $mux that affine_prove.py reads complemented is on both sides.
MuxAgrees(g, t) == \A p \in Pairs(g, t) : g.ff[p[1]].mux = t.ff[p[2]].mux

\* Its outputs are the registers themselves, or the same function of them.
TakenForGranted(g, t) ==
  ReadsNamed(g) /\ ReadsNamed(t) /\ MuxAgrees(g, t) /\ SameOutputs(g, t)

\* What a comparison that ended in equivalent has established.
AllCompared(g, t) ==
  /\ SetsMatch(g, t) /\ PortsMatch(g, t) /\ ResetsMatch(g, t)
  /\ \A p \in Pairs(g, t) : SameNext(g, t, p)

\* Without reads of unnamed registers the cut leaves a function as it is.
LEMMA GoldCutKeeps ==
  ASSUME NEW g, NEW t, IsNetlist(g), IsNetlist(t), SetsMatch(g, t),
         NEW q \in SUBSET (SUBSET (Ins \cup Named(g)))
  PROVE  GoldCut(g, t, q) = q
<1>1. {x[1] : x \in Pairs(g, t)} = Named(g)
  <2>1. Pairs(g, t) \subseteq Named(g) \X Named(t)
    BY PairsFinite
  <2>2. \A z \in Named(g) : \E p \in Pairs(g, t) : p[1] = z
    BY OnePairEach
  <2> QED BY <2>1, <2>2
<1> QED BY <1>1 DEF GoldCut

\* Mirrored states stay mirrored and show the same outputs.
LEMMA MirroredOn ==
  ASSUME NEW g, NEW t, IsNetlist(g), IsNetlist(t), IsFiniteSet(Ins),
         TakenForGranted(g, t), AllCompared(g, t),
         NEW s \in SUBSET Cells(g), NEW r \in SUBSET Cells(t), Mirrored(g, t, s, r),
         NEW i \in SUBSET Ins
  PROVE  /\ Mirrored(g, t, NextState(g, s, i), NextState(t, r, i))
         /\ Outputs(g, s, i) = Outputs(t, r, i)
<1>1. SetsMatch(g, t) /\ ReadsNamed(g) /\ ReadsNamed(t) /\ SameOutputs(g, t)
  BY DEF AllCompared, TakenForGranted
<1>2. ASSUME NEW p \in Pairs(g, t)
      PROVE  p[1] \in NextState(g, s, i) <=> p[2] \in NextState(t, r, i)
  <2>1. /\ p[1] \in Named(g) /\ p[2] \in Named(t)
        /\ p[1] \in Cells(g) /\ p[2] \in Cells(t)
    BY PairsFinite DEF Named
  <2> DEFINE a == g.ff[p[1]].d
             b == t.ff[p[2]].d
  <2>2. a \in SUBSET (SUBSET (Ins \cup Named(g))) /\ b \in SUBSET (SUBSET (Ins \cup Named(t)))
    BY <1>1, <2>1 DEF ReadsNamed
  <2>3. GoldCut(g, t, a) = GateCut(g, t, b)
    BY DEF AllCompared, SameNext
  <2> HIDE DEF a, b
  <2>4. a = GateCut(g, t, b)
    BY <1>1, <2>2, <2>3, GoldCutKeeps
  <2>5. Value(GateCut(g, t, b), s \cup i) <=> Value(b, r \cup i)
    BY <1>1, <2>2, CutValue
  <2>6. Value(a, s \cup i) <=> Value(b, r \cup i)
    BY <2>4, <2>5
  <2> QED BY <2>1, <2>6 DEF NextState, a, b
<1>3. ASSUME NEW o \in DOMAIN g.outs
      PROVE  Value(g.outs[o], s \cup i) <=> Value(t.outs[o], r \cup i)
  <2> DEFINE a == g.outs[o]
             b == t.outs[o]
  <2>1. o \in DOMAIN t.outs
    BY DEF AllCompared, PortsMatch
  <2>2. a \in SUBSET (SUBSET (Ins \cup Named(g))) /\ b \in SUBSET (SUBSET (Ins \cup Named(t)))
    BY <1>1, <2>1 DEF ReadsNamed
  <2>3. GoldCut(g, t, a) = GateCut(g, t, b)
    BY <1>1 DEF SameOutputs
  <2> HIDE DEF a, b
  <2>4. a = GateCut(g, t, b)
    BY <1>1, <2>2, <2>3, GoldCutKeeps
  <2>5. Value(GateCut(g, t, b), s \cup i) <=> Value(b, r \cup i)
    BY <1>1, <2>2, CutValue
  <2>6. Value(a, s \cup i) <=> Value(b, r \cup i)
    BY <2>4, <2>5
  <2> QED BY <2>6 DEF a, b
<1>4. DOMAIN g.outs = DOMAIN t.outs
  BY DEF AllCompared, PortsMatch
<1>5. Outputs(g, s, i) = Outputs(t, r, i)
  BY <1>3, <1>4 DEF Outputs
<1> QED BY <1>2, <1>5 DEF Mirrored

\* Resets that match are mirrored, so everything after them is.
LEMMA ComparedIsSame ==
  ASSUME NEW g, NEW t, IsNetlist(g), IsNetlist(t), IsFiniteSet(Ins),
         TakenForGranted(g, t), AllCompared(g, t)
  PROVE  SameAfterReset(g, t)
<1> DEFINE start == {<< ResetState(g), ResetState(t) >>}
           R == {p \in States(g, t) : Mirrored(g, t, p[1], p[2])}
<1>1. start \in SUBSET States(g, t)
  BY ResetStates
<1>2. start \subseteq R
  <2>1. Mirrored(g, t, ResetState(g), ResetState(t))
    <3> SUFFICES ASSUME NEW p \in Pairs(g, t)
                 PROVE  p[1] \in ResetState(g) <=> p[2] \in ResetState(t)
      BY DEF Mirrored
    <3>1. p[1] \in Cells(g) /\ p[2] \in Cells(t)
      BY PairsFinite DEF Named
    <3>2. g.ff[p[1]].rst = t.ff[p[2]].rst
      BY DEF AllCompared, ResetsMatch
    <3> QED BY <3>1, <3>2 DEF ResetState
  <2> QED BY <1>1, <2>1
<1>3. ASSUME NEW S \in SUBSET R PROVE Onward(g, t, S) \subseteq R
  <2> SUFFICES ASSUME NEW q \in Onward(g, t, S) PROVE q \in R
    OBVIOUS
  <2>1. PICK p \in S, i \in SUBSET Ins : q = << NextState(g, p[1], i), NextState(t, p[2], i) >>
    BY DEF Onward
  <2>2. p[1] \in SUBSET Cells(g) /\ p[2] \in SUBSET Cells(t) /\ Mirrored(g, t, p[1], p[2])
    BY DEF States
  <2>3. Mirrored(g, t, NextState(g, p[1], i), NextState(t, p[2], i))
    BY <2>2, MirroredOn
  <2>4. q \in States(g, t)
    BY OnwardInStates
  <2> QED BY <2>1, <2>3, <2>4
<1>4. Reached(g, t, start) \subseteq R
  <2> HIDE DEF start, R
  <2> QED BY <1>1, <1>2, <1>3, ReachedWithin
<1>5. ASSUME NEW p \in Reached(g, t, start), NEW i \in SUBSET Ins
      PROVE  Outputs(g, p[1], i) = Outputs(t, p[2], i)
  <2>1. p \in R
    <3> HIDE DEF R, start
    <3> QED BY <1>4
  <2>2. p[1] \in SUBSET Cells(g) /\ p[2] \in SUBSET Cells(t) /\ Mirrored(g, t, p[1], p[2])
    BY <2>1 DEF States
  <2> QED BY <2>2, MirroredOn
<1> QED BY <1>5 DEF SameAfterReset, SameFrom

-----------------------------------------------------------------------------
(* The affine comparison.                                                  *)
\* A function is the parity of the monomials that are 1.
LEMMA OddOrEven ==
  ASSUME NEW q, NEW v, NEW A, {m \in q : m \subseteq v} = A
  PROVE  /\ Cardinality(A) = 1 => Value(q, v)
         /\ Cardinality(A) = 0 => ~ Value(q, v)
         /\ Cardinality(A) = 2 => ~ Value(q, v)
<1>1. Value(q, v) <=> Cardinality(A) % 2 = 1
  BY Zenon DEF Value
<1>2. 1 % 2 = 1 /\ 0 % 2 = 0 /\ 2 % 2 = 0
  OBVIOUS
<1> QED BY <1>1, <1>2

\* With all signals at 0 only the constant counts.
LEMMA ValueAtZero ==
  ASSUME NEW q
  PROVE  Value(q, {}) <=> {} \in q
<1>1. CASE {} \in q
  <2>1. {m \in q : m \subseteq {}} = {{}}
    BY <1>1
  <2>2. Cardinality({{}}) = 1
    BY FS_Singleton, Zenon
  <2>3. Value(q, {})
    BY <2>1, <2>2, OddOrEven
  <2> QED BY <1>1, <2>3
<1>2. CASE {} \notin q
  <2>1. {m \in q : m \subseteq {}} = {}
    BY <1>2
  <2>2. ~ Value(q, {})
    BY <2>1, FS_EmptySet, OddOrEven
  <2> QED BY <1>2, <2>2
<1> QED BY <1>1, <1>2

\* With one signal at 1 the constant and that signal count.
LEMMA ValueAtUnit ==
  ASSUME NEW q, NEW x
  PROVE  Value(q, {x}) <=> ~ ({} \in q <=> {x} \in q)
<1> DEFINE A == {m \in q : m \subseteq {x}}
<1>0. \A m : m \subseteq {x} => m = {} \/ m = {x}
  OBVIOUS
<1>a. \A m : Cardinality({m}) = 1
  BY FS_Singleton, Zenon
<1>1. CASE {} \in q /\ {x} \in q
  <2>1. A = {{}, {x}}
    BY <1>0, <1>1
  <2>2. Cardinality({{}, {x}}) = 2
    <3> DEFINE S == {{}}
    <3>1. IsFiniteSet(S) /\ Cardinality(S) = 1
      BY FS_Singleton, Zenon
    <3>2. {x} \notin S
      OBVIOUS
    <3>3. S \cup {{x}} = {{}, {x}}
      OBVIOUS
    <3> HIDE DEF S
    <3>4. Cardinality(S \cup {{x}}) = Cardinality(S) + 1
      BY <3>1, <3>2, FS_AddElement
    <3>5. Cardinality(S) + 1 = 2
      BY <3>1
    <3> QED BY <3>3, <3>4, <3>5, Zenon
  <2>3. ~ Value(q, {x})
    <3> DEFINE two == {{}, {x}}
    <3>1. Cardinality(two) = 2 /\ A = two
      BY <2>1, <2>2
    <3> HIDE DEF two
    <3> QED BY <3>1, OddOrEven, Zenon
  <2> QED BY <1>1, <2>3
<1>2. CASE {} \in q /\ {x} \notin q
  <2>1. A = {{}}
    BY <1>0, <1>2
  <2>2. Value(q, {x})
    BY <1>a, <2>1, OddOrEven, Zenon
  <2> QED BY <1>2, <2>2
<1>3. CASE {} \notin q /\ {x} \in q
  <2>1. A = {{x}}
    BY <1>0, <1>3
  <2>2. Value(q, {x})
    BY <1>a, <2>1, OddOrEven, Zenon
  <2> QED BY <1>3, <2>2
<1>4. CASE {} \notin q /\ {x} \notin q
  <2>1. A = {}
    BY <1>0, <1>4
  <2>2. ~ Value(q, {x})
    BY <2>1, FS_EmptySet, OddOrEven, Zenon
  <2> QED BY <1>4, <2>2
<1> QED BY <1>1, <1>2, <1>3, <1>4

\* The complement has the other value, there at least.
LEMMA ComplementFlips ==
  ASSUME NEW q, NEW v, v = {} \/ \E x : v = {x}
  PROVE  Value(Complement(q), v) <=> ~ Value(q, v)
<1>1. {} \in Complement(q) <=> {} \notin q
  BY DEF Complement
<1>2. \A x : {x} \in Complement(q) <=> {x} \in q
  BY DEF Complement
<1>3. CASE v = {}
  BY <1>1, <1>3, ValueAtZero
<1>4. ASSUME NEW x, v = {x} PROVE Value(Complement(q), v) <=> ~ Value(q, v)
  <2>1. Value(q, {x}) <=> ~ ({} \in q <=> {x} \in q)
    BY ValueAtUnit
  <2>2. Value(Complement(q), {x}) <=> ~ ({} \in Complement(q) <=> {x} \in Complement(q))
    BY ValueAtUnit
  <2> QED BY <1>1, <1>2, <1>4, <2>1, <2>2, Zenon
<1> QED BY <1>3, <1>4

\* What is at most one signal is none or one.
LEMMA AtMostOne ==
  ASSUME NEW m, NEW S, m \subseteq S, IsFiniteSet(S), Cardinality(m) <= 1
  PROVE  m = {} \/ \E x \in S : m = {x}
<1>1. IsFiniteSet(m) /\ Cardinality(m) \in Nat
  BY FS_Subset, FS_CardinalityType
<1>2. Cardinality(m) = 0 \/ Cardinality(m) = 1
  BY <1>1
<1>3. Cardinality(m) = 0 => m = {}
  BY <1>1, FS_EmptySet
<1>4. Cardinality(m) = 1 => \E x : m = {x}
  BY <1>1, FS_Singleton
<1> QED BY <1>2, <1>3, <1>4

\* At the points agreement is that of the monomials of at most one signal.
LEMMA AffineAgrees ==
  ASSUME NEW g, NEW t, IsNetlist(g), IsNetlist(t), IsFiniteSet(Ins),
         SetsMatch(g, t), ResetsMatch(g, t),
         NEW p \in Pairs(g, t), g.ff[p[1]].mux = t.ff[p[2]].mux,
         ProveAffinePo(g, t, p) = "equivalent"
  PROVE  SameNext(g, t, p)
<1> DEFINE a == g.ff[p[1]].d
           b == t.ff[p[2]].d
           m == g.ff[p[1]].mux
           da == GoldCut(g, t, a)
           db == GateCut(g, t, b)
           ports == Ins \cup {y[1] : y \in Pairs(g, t)}
<1>1. /\ Applies(a, ports)
      /\ Applies(b, Ins \cup {y[2] : y \in Pairs(g, t)})
      /\ \A v \in Points(g, t) : ~ (/\ Value(AffineRead(da, m), v) # Value(AffineRead(db, m), v)
                                    /\ Value(da, v) # Value(db, v))
  BY DEF ProveAffinePo
<1>2. \A v \in Points(g, t) : Value(da, v) = Value(db, v)
  <2> SUFFICES ASSUME NEW v \in Points(g, t) PROVE Value(da, v) = Value(db, v)
    OBVIOUS
  <2> HIDE DEF da, db, m
  <2>1. v = {} \/ \E x : v = {x}
    BY DEF Points
  <2>2. /\ Value(Complement(da), v) <=> ~ Value(da, v)
        /\ Value(Complement(db), v) <=> ~ Value(db, v)
    BY <2>1, ComplementFlips
  <2>3. Value(da, v) \in BOOLEAN /\ Value(db, v) \in BOOLEAN
    BY DEF Value
  <2> QED BY <1>1, <2>2, <2>3 DEF AffineRead
<1> DEFINE gateports == Ins \cup {y[2] : y \in Pairs(g, t)}
<1>a. IsFiniteSet(ports) /\ IsFiniteSet(gateports)
  <2>1. Pairs(g, t) \subseteq Named(g) \X Named(t)
    BY PairsFinite
  <2>2. {y[1] : y \in Pairs(g, t)} \subseteq Cells(g) /\ {y[2] : y \in Pairs(g, t)} \subseteq Cells(t)
    BY <2>1 DEF Named
  <2>3. IsFiniteSet({y[1] : y \in Pairs(g, t)}) /\ IsFiniteSet({y[2] : y \in Pairs(g, t)})
    BY <2>2, FS_Subset DEF IsNetlist
  <2> QED BY <2>3, FS_Union
<1>3. \A n \in da : n = {} \/ \E x \in ports : n = {x}
  <2> SUFFICES ASSUME NEW n \in da PROVE n = {} \/ \E x \in ports : n = {x}
    OBVIOUS
  <2>1. n \in a
    BY DEF GoldCut
  <2>2. n \subseteq ports /\ Cardinality(n) <= 1
    BY <1>1, <2>1 DEF Applies
  <2> HIDE DEF ports, da
  <2> QED BY <1>a, <2>2, AtMostOne
<1>4. \A n \in db : n = {} \/ \E x \in ports : n = {x}
  <2> SUFFICES ASSUME NEW n \in db PROVE n = {} \/ \E x \in ports : n = {x}
    OBVIOUS
  <2>1. PICK l \in b : n = {AsGold(g, t, x) : x \in l}
    BY DEF GateCut, AsGold
  <2>2. l \subseteq gateports /\ Cardinality(l) <= 1
    BY <1>1, <2>1 DEF Applies
  <2>3. l = {} \/ \E x \in gateports : l = {x}
    <3> HIDE DEF gateports
    <3> QED BY <1>a, <2>2, AtMostOne
  <2>4. \A x \in gateports : AsGold(g, t, x) \in ports
    <3> TAKE x \in gateports
    <3>1. CASE x \in {y[2] : y \in Pairs(g, t)}
      <4>1. PICK y \in Pairs(g, t) : x = y[2]
        BY <3>1
      <4>2. AsGold(g, t, x) = y[1]
        BY <3>1, <4>1, GoldCellOf DEF AsGold
      <4> QED BY <4>2
    <3>2. CASE x \notin {y[2] : y \in Pairs(g, t)}
      BY <3>2 DEF AsGold
    <3> QED BY <3>1, <3>2
  <2> HIDE DEF ports, gateports, db
  <2>5. CASE l = {}
    BY <2>1, <2>5
  <2>6. ASSUME NEW x \in gateports, l = {x} PROVE n = {} \/ \E y \in ports : n = {y}
    <3>1. n = {AsGold(g, t, x)}
      BY <2>1, <2>6
    <3> QED BY <2>4, <3>1
  <2> QED BY <2>3, <2>5, <2>6
<1>5. {} \in da <=> {} \in db
  <2>1. Value(da, {}) = Value(db, {})
    BY <1>2 DEF Points
  <2> HIDE DEF da, db
  <2> QED BY <2>1, ValueAtZero, Zenon
<1>6. \A x \in ports : {x} \in da <=> {x} \in db
  <2> TAKE x \in ports
  <2>1. Value(da, {x}) = Value(db, {x})
    <3>1. {x} \in Points(g, t)
      BY DEF Points
    <3> HIDE DEF da, db
    <3> QED BY <1>2, <3>1
  <2> HIDE DEF da, db, ports
  <2>2. Value(da, {x}) <=> ~ ({} \in da <=> {x} \in da)
    BY ValueAtUnit
  <2>3. Value(db, {x}) <=> ~ ({} \in db <=> {x} \in db)
    BY ValueAtUnit
  <2> QED BY <1>5, <2>1, <2>2, <2>3, Zenon
<1>7. da = db
  <2> HIDE DEF da, db, ports
  <2>1. ASSUME NEW n \in da PROVE n \in db
    <3>1. CASE n = {}
      BY <1>5, <3>1
    <3>2. ASSUME NEW x \in ports, n = {x} PROVE n \in db
      BY <1>6, <3>2
    <3> QED BY <1>3, <3>1, <3>2
  <2>2. ASSUME NEW n \in db PROVE n \in da
    <3>1. CASE n = {}
      BY <1>5, <3>1
    <3>2. ASSUME NEW x \in ports, n = {x} PROVE n \in da
      BY <1>6, <3>2
    <3> QED BY <1>4, <3>1, <3>2
  <2> QED BY <2>1, <2>2
<1> QED BY <1>7 DEF SameNext, ResetsMatch

-----------------------------------------------------------------------------
\* What is known of the netlists while regpair runs, when it ends in
\* equivalent, and when another method passed them.
Compared ==
  /\ pc \in {"miter", "replay", "narrow", "affine"} =>
       SetsMatch(gold, gate) /\ PortsMatch(gold, gate)
  /\ pc = "affine" => Differing \subseteq todo
  /\ prc = 0 =>
       /\ SetsMatch(gold, gate) /\ PortsMatch(gold, gate) /\ ResetsMatch(gold, gate)
       /\ MuxAgrees(gold, gate) => Differing = {}
  /\ verdict = "pass" /\ prc # 0 => Equal

\* What is known of the netlists under comparison.
LEMMA NetlistsAre ==
  ASSUME TypeOK
  PROVE  /\ IsNetlist(gold) /\ IsNetlist(gate) /\ IsFiniteSet(Ins)
         /\ Equal <=> SameAfterReset(gold, gate)
         /\ EqualZero <=> SameFromZero(gold, gate)
<1>1. gold \in Golds /\ gate \in Gates
  BY DEF TypeOK
<1>2. << gold, gate >> \in Netlists
  BY <1>1 DEF Netlists
<1>3. Equal <=> SameAfterReset(gold, gate)
  BY <1>2 DEF Equal, EqualAfterReset
<1>4. EqualZero <=> SameFromZero(gold, gate)
  BY <1>2 DEF EqualZero, EqualFromZero
<1> QED BY <1>1, <1>3, <1>4, NetlistsAssumption

\* The steps of methods 1 to 3.
LEMMA MethodCompares ==
  ASSUME Inv, Compared, prc = NoRc, pc # "exit", NothingElse,
         \/ pc' = "exit" /\ (verdict' = "pass" => Equal)
         \/ (\E i \in StepNo : pc' = Steps[i]) /\ verdict' = verdict
  PROVE  Compared'
<1>1. UNCHANGED << gold, gate, prc >> /\ prc # 0 /\ verdict = "none"
  BY MethodsAssumption DEF NothingElse, inputs, Inv, TypeOK
<1>2. pc' \notin {"miter", "replay", "narrow", "affine"}
  BY StepNames
<1>3. (verdict = "pass" => Equal)'
  BY <1>1 DEF Equal, EqualAfterReset
<1> QED BY <1>1, <1>2, <1>3 DEF Compared

\* Steps on within regpair, and its end.
LEMMA GotoCompares ==
  ASSUME Inv, prc = NoRc, pc # "exit", SetsMatch(gold, gate), PortsMatch(gold, gate),
         UNCHANGED << inputs, prc, inconclusive, verdict >>,
         pc' = "affine" => Differing \subseteq todo'
  PROVE  Compared'
<1>1. UNCHANGED << gold, gate, prc >> /\ prc # 0 /\ verdict = "none" /\ verdict' = verdict
  BY MethodsAssumption DEF inputs, Inv, TypeOK
<1>2. (pc = "affine" => Differing \subseteq todo)'
  BY <1>1 DEF Differing, Paired
<1> QED BY <1>1, <1>2 DEF Compared

LEMMA EndCompares ==
  ASSUME Inv, pc # "exit", pc' = "judge", UNCHANGED << inputs, todo, inconclusive, verdict >>,
         prc' = 0 => /\ SetsMatch(gold, gate) /\ PortsMatch(gold, gate)
                     /\ ResetsMatch(gold, gate)
                     /\ MuxAgrees(gold, gate) => Differing = {}
  PROVE  Compared'
<1>1. UNCHANGED << gold, gate >> /\ verdict = "none" /\ verdict' = verdict
  BY DEF inputs, Inv, TypeOK
<1>2. Differing' = Differing
  BY <1>1 DEF Differing, Paired
<1> QED BY <1>1, <1>2 DEF Compared

\* A verdict of equivalent has to be earned.
LEMMA ConcludedCompares ==
  ASSUME Inv, NEW kind, Concluded(kind), pc # "exit",
         SetsMatch(gold, gate), PortsMatch(gold, gate),
         kind = "equivalent" => (MuxAgrees(gold, gate) => Differing = {})
  PROVE  Compared'
<1>1. prc' = ExitStatus(kind) /\ pc' = "judge" /\ UNCHANGED << inputs, todo, inconclusive, verdict >>
  BY DEF Concluded, End
<1>2. ExitStatus(kind) = 0 => kind = "equivalent" /\ ResetsMatch(gold, gate)
  BY DEF ExitStatus
<1> QED BY <1>1, <1>2, EndCompares

\* The affine comparison earns it, for the registers it was asked for.
LEMMA AffineCompares ==
  ASSUME Inv, Compared, AffineOnPos
  PROVE  Compared'
<1>1. PICK failed \in SUBSET todo :
        LET kinds == {ProveAffinePo(gold, gate, p) : p \in todo \ failed}
        IN  Concluded(IF "not_equivalent" \in kinds THEN "not_equivalent"
                      ELSE IF "na" \in kinds \/ failed # {} THEN "unproven"
                      ELSE "equivalent")
  BY DEF AffineOnPos
<1>2. pc = "affine"
  BY DEF AffineOnPos
<1>3. /\ SetsMatch(gold, gate) /\ PortsMatch(gold, gate) /\ Differing \subseteq todo
      /\ todo \subseteq Paired
  BY <1>2 DEF Compared, Inv, TypeOK
<1> DEFINE kinds == {ProveAffinePo(gold, gate, p) : p \in todo \ failed}
           kind == IF "not_equivalent" \in kinds THEN "not_equivalent"
                   ELSE IF "na" \in kinds \/ failed # {} THEN "unproven"
                   ELSE "equivalent"
<1>4. Concluded(kind)
  BY <1>1
<1>5. kind = "equivalent" => failed = {} /\ \A p \in todo : ProveAffinePo(gold, gate, p) = "equivalent"
  <2>1. kind = "equivalent" => failed = {} /\ "not_equivalent" \notin kinds /\ "na" \notin kinds
    OBVIOUS
  <2>2. \A p : ProveAffinePo(gold, gate, p) \in {"na", "not_equivalent", "equivalent"}
    BY DEF ProveAffinePo
  <2> QED BY <2>1, <2>2
<1>6. prc' = 0 => kind = "equivalent" /\ ResetsMatch(gold, gate)
  BY <1>4 DEF Concluded, End, ExitStatus
<1>7. prc' = 0 /\ MuxAgrees(gold, gate) => Differing = {}
  <2> SUFFICES ASSUME prc' = 0, MuxAgrees(gold, gate), NEW p \in Differing PROVE FALSE
    OBVIOUS
  <2>1. p \in Paired /\ p \in Pairs(gold, gate) /\ ~ SameNext(gold, gate, p)
    BY DEF Differing, Paired
  <2>2. ProveAffinePo(gold, gate, p) = "equivalent" /\ ResetsMatch(gold, gate)
    <3> HIDE DEF kind
    <3> QED BY <1>3, <1>5, <1>6
  <2>3. gold.ff[p[1]].mux = gate.ff[p[2]].mux
    BY <2>1 DEF MuxAgrees
  <2>4. IsNetlist(gold) /\ IsNetlist(gate) /\ IsFiniteSet(Ins)
    BY NetlistsAre DEF Inv
  <2> QED BY <1>3, <2>1, <2>2, <2>3, <2>4, AffineAgrees
<1>8. pc' = "judge" /\ UNCHANGED << inputs, todo, inconclusive, verdict >>
  BY <1>4 DEF Concluded, End
<1> QED BY <1>2, <1>3, <1>6, <1>7, <1>8, EndCompares

LEMMA EarlyCompares ==
  ASSUME Inv, Compared, Early
  PROVE  Compared'
<1>1. pc # "exit" /\ prc = NoRc
  BY EarlyPc DEF Inv, AfterRegpair
<1>2. EqualZero => Equal
  BY NetlistsAre, FromFewer DEF Inv
<1>3. ASSUME NEW i \in StepNo, EquivMake(i) \/ SatTempinduct(i) \/ Abc(i)
      PROVE  Compared'
  <2>1. \/ pc' = "exit" /\ (verdict' = "pass" => Equal)
        \/ TryFrom(i + 1, FALSE)
    BY <1>2, <1>3 DEF EquivMake, SatTempinduct, Abc, Exit
  <2>2. i + 1 \in Nat
    BY DEF StepNo
  <2>3. NothingElse
    BY <1>3 DEF EquivMake, SatTempinduct, Abc
  <2>4. CASE pc' = "exit" /\ (verdict' = "pass" => Equal)
    BY <1>1, <2>3, <2>4, MethodCompares
  <2>5. CASE TryFrom(i + 1, FALSE)
    <3>1. \/ pc' = "exit" /\ verdict' = "fail"
          \/ (\E j \in StepNo : pc' = Steps[j]) /\ verdict' = verdict
      BY <2>2, <2>5, TryFromMoves
    <3> QED BY <1>1, <2>3, <3>1, MethodCompares
  <2> QED BY <2>1, <2>4, <2>5
<1>4. ASSUME AbcUnavailable \/ DumpFailed
      PROVE  Compared'
  <2>1. (TryFrom(7, FALSE) \/ TryFrom(8, FALSE)) /\ NothingElse
    BY <1>4 DEF AbcUnavailable, DumpFailed
  <2>2. \/ pc' = "exit" /\ verdict' = "fail"
        \/ (\E j \in StepNo : pc' = Steps[j]) /\ verdict' = verdict
    BY <2>1, TryFromMoves
  <2> QED BY <1>1, <2>1, <2>2, MethodCompares
<1>5. CASE CutFailed
  <2>1. prc' # 0 /\ pc' = "judge" /\ UNCHANGED << inputs, todo, inconclusive, verdict >>
    BY <1>5 DEF CutFailed, End
  <2> QED BY <1>1, <2>1, EndCompares
<1>6. CASE PairRegisters
  <2>1. CASE SetsMatch(gold, gate) /\ PortsMatch(gold, gate)
    <3>1. pc' = "miter" /\ UNCHANGED << inputs, prc, inconclusive, verdict >>
      BY <1>6, <2>1 DEF PairRegisters, Goto
    <3> QED BY <1>1, <2>1, <3>1, GotoCompares
  <2>2. CASE ~ (SetsMatch(gold, gate) /\ PortsMatch(gold, gate))
    <3>1. prc' # 0 /\ pc' = "judge" /\ UNCHANGED << inputs, todo, inconclusive, verdict >>
      BY <1>6, <2>2 DEF PairRegisters, End
    <3> QED BY <1>1, <3>1, EndCompares
  <2> QED BY <2>1, <2>2
<1>7. pc \in {"miter", "replay", "narrow"} => SetsMatch(gold, gate) /\ PortsMatch(gold, gate)
  BY DEF Compared
<1>8. Same => Differing = {}
  BY DEF Same, Differing
<1>9. CASE CecPair
  <2>1. SetsMatch(gold, gate) /\ PortsMatch(gold, gate)
    BY <1>7, <1>9 DEF CecPair
  <2>2. CASE Same /\ Concluded("equivalent")
    BY <1>1, <1>8, <2>1, <2>2, ConcludedCompares
  <2>3. CASE Goto("replay", {})
    BY <1>1, <2>1, <2>3, GotoCompares DEF Goto
  <2>4. CASE Goto("affine", Paired)
    <3>1. Differing \subseteq todo'
      BY <2>4 DEF Goto, Differing
    <3> QED BY <1>1, <2>1, <2>4, <3>1, GotoCompares DEF Goto
  <2>5. CASE Concluded("script_error")
    BY <1>1, <2>1, <2>5, ConcludedCompares
  <2> QED BY <1>9, <2>2, <2>3, <2>4, <2>5 DEF CecPair
<1>10. CASE Replay
  <2>1. SetsMatch(gold, gate) /\ PortsMatch(gold, gate)
    BY <1>7, <1>10 DEF Replay
  <2>2. CASE Concluded("not_equivalent")
    BY <1>1, <2>1, <2>2, ConcludedCompares
  <2>3. CASE Goto("narrow", {})
    BY <1>1, <2>1, <2>3, GotoCompares DEF Goto
  <2> QED BY <1>10, <2>2, <2>3 DEF Replay
<1>11. CASE SatNarrow
  <2>1. SetsMatch(gold, gate) /\ PortsMatch(gold, gate)
    BY <1>7, <1>11 DEF SatNarrow
  <2>2. ASSUME Concluded("not_equivalent") \/ Concluded("script_error")
        PROVE  Compared'
    BY <1>1, <2>1, <2>2, ConcludedCompares
  <2>3. ASSUME Differing \cap Narrow = {}, Wide = {}, Concluded("equivalent")
        PROVE  Compared'
    <3>1. Differing = {}
      BY <2>3 DEF Narrow, Differing
    <3> QED BY <1>1, <2>1, <2>3, <3>1, ConcludedCompares
  <2>4. ASSUME Differing \cap Narrow = {}, Goto("affine", Wide)
        PROVE  Compared'
    <3>1. Differing \subseteq todo'
      BY <2>4 DEF Goto, Differing, Narrow
    <3> QED BY <1>1, <2>1, <2>4, <3>1, GotoCompares DEF Goto
  <2>5. \/ Concluded("not_equivalent") \/ Concluded("script_error")
        \/ Differing \cap Narrow = {} /\ Wide = {} /\ Concluded("equivalent")
        \/ Differing \cap Narrow = {} /\ Goto("affine", Wide)
    BY <1>11 DEF SatNarrow
  <2> QED BY <2>2, <2>3, <2>4, <2>5
<1>12. CASE AffineOnPos
  BY <1>12, AffineCompares
<1> QED BY <1>3, <1>4, <1>5, <1>6, <1>9, <1>10, <1>11, <1>12 DEF Early

LEMMA LateCompares ==
  ASSUME Inv, Compared, Judge \/ SeqOut \/ UNCHANGED vars
  PROVE  Compared'
<1>1. CASE Judge
  <2>1. UNCHANGED << gold, gate, prc >> /\ pc = "judge" /\ verdict = "none"
    BY <1>1 DEF Judge, inputs, Inv, TypeOK
  <2>2. pc' \in {"exit", "seq"} /\ (verdict' = "pass" => prc = 0)
    BY <1>1, <2>1, ForcedSeq DEF Judge, Exit
  <2>3. Differing' = Differing
    BY <2>1 DEF Differing, Paired
  <2> QED BY <2>1, <2>2, <2>3 DEF Compared
<1>2. CASE SeqOut
  <2>1. UNCHANGED << gold, gate, prc >> /\ pc' = "exit" /\ (verdict' = "pass" => Equal)
    BY <1>2 DEF SeqOut, Exit, NothingElse, inputs
  <2>2. Differing' = Differing /\ Equal' = Equal
    BY <2>1 DEF Differing, Paired, Equal, EqualAfterReset
  <2> QED BY <2>1, <2>2 DEF Compared
<1>3. CASE UNCHANGED vars
  BY <1>3 DEF Compared, vars, inputs, Differing, Paired, Equal, EqualAfterReset
<1> QED BY <1>1, <1>2, <1>3

LEMMA InitCompares == Init => Compared
<1> SUFFICES ASSUME Init PROVE Compared
  OBVIOUS
<1>1. Inv
  BY InitInv
<1>2. prc # 0 /\ verdict # "pass"
  BY MethodsAssumption DEF Init
<1>3. pc \notin {"miter", "replay", "narrow", "affine"}
  <2> DEFINE I == From(1, methods, stage, FALSE)
  <2>1. I \in SUBSET StepNo /\ I # {}
    BY SomeMethod DEF From, Init
  <2>2. PICK i \in StepNo : First(I) = Steps[i]
    BY <2>1, FirstIsSelected
  <2>3. pc = Steps[i]
    BY <2>2 DEF Init
  <2> QED BY <2>3, StepNames
<1> QED BY <1>2, <1>3 DEF Compared

LEMMA ComparedInvariant == Spec => [](Inv /\ Compared)
<1>1. Init => Inv /\ Compared
  BY InitInv, InitCompares
<1>2. Inv /\ Compared /\ [Next]_vars => Inv' /\ Compared'
  <2> SUFFICES ASSUME Inv, Compared, [Next]_vars PROVE Compared'
    BY NextKeeps
  <2> QED BY EarlyCompares, LateCompares DEF Next, Early, Done
<1> QED BY <1>1, <1>2, PTL DEF Spec

(* For any netlists: what is passed by a method other than the register    *)
(* pairing, the uncut sequential proof after it included, is equal to the  *)
(* reference in every cycle after reset.                                   *)
THEOREM OtherMethodsProve == Spec => [](verdict = "pass" /\ prc # 0 => Equal)
<1>1. Inv /\ Compared => (verdict = "pass" /\ prc # 0 => Equal)
  BY DEF Compared
<1> QED BY <1>1, ComparedInvariant, PTL

(* For any netlists: a pass means equality, and where it is register       *)
(* pairing's, equality of netlists it is right about: see TakenForGranted. *)
THEOREM PassIsProof ==
  Spec => []((prc = 0 => TakenForGranted(gold, gate)) => PassMeansEqual)
<1>1. Inv /\ Compared => ((prc = 0 => TakenForGranted(gold, gate)) => PassMeansEqual)
  <2> SUFFICES ASSUME Inv, Compared, prc = 0 => TakenForGranted(gold, gate), verdict = "pass"
               PROVE  Equal
    BY DEF PassMeansEqual
  <2>1. CASE prc # 0
    BY <2>1 DEF Compared
  <2>2. CASE prc = 0
    <3>0. TakenForGranted(gold, gate)
      BY <2>2
    <3>1. /\ SetsMatch(gold, gate) /\ PortsMatch(gold, gate) /\ ResetsMatch(gold, gate)
          /\ Differing = {}
      BY <2>2, <3>0 DEF Compared, TakenForGranted
    <3>2. AllCompared(gold, gate)
      BY <3>1 DEF AllCompared, Differing, Paired
    <3> QED BY <3>0, <3>2, NetlistsAre, ComparedIsSame DEF Inv
  <2> QED BY <2>1, <2>2
<1> QED BY <1>1, ComparedInvariant, PTL
=============================================================================
