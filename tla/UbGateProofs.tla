---------------------------- MODULE UbGateProofs ----------------------------
(***************************************************************************)
(* Proofs about UbGateRun, for every set of worlds and waivers and any     *)
(* number of runs.                                                         *)
(***************************************************************************)
EXTENDS UbGateRun, TLAPS

Statuses == {"absent", "PASS", "FAIL", "SKIP", "PRIVATE_SKIP"}

LEMMA StatusType == \A t : EquivStatusOf(t) \in Statuses
  BY DEF EquivStatusOf, Statuses

LEMMA JobsType == \A i \in 1..12 : Jobs[i] \in JobNames
  BY DEF JobNames

(***************************************************************************)
(* The types hold of every reachable state.                                *)
(***************************************************************************)
THEOREM GateTypeOK == Spec => []TypeOK
<1>1. Init => TypeOK
  <2> SUFFICES ASSUME Init PROVE TypeOK
    OBVIOUS
  <2>1. away \subseteq Things /\ WellFormed(tree)
    BY WorldsAssumption DEF Init
  <2>2. failed \in BOOLEAN
    BY Zenon DEF Init
  <2>3. runs \in 0..MaxRuns /\ pc \in 0..13
    BY MaxRunsAssumption DEF Init
  <2> QED BY <2>1, <2>2, <2>3 DEF Init, TypeOK
<1>2. TypeOK /\ [Next]_vars => TypeOK'
  <2> SUFFICES ASSUME TypeOK, [Next]_vars PROVE TypeOK'
    OBVIOUS
  <2>1. CASE StartRun
    <3>1. failed' \in BOOLEAN
      BY <2>1, Zenon DEF StartRun
    <3>2. runs' \in 0..MaxRuns /\ pc' \in 0..13
      BY <2>1, MaxRunsAssumption DEF StartRun, TypeOK
    <3>3. /\ away' \subseteq Things
          /\ WellFormed(tree)'
          /\ mode' \in Modes
      BY <2>1 DEF StartRun, TypeOK, WellFormed
    <3>4. /\ equivStatus' \in Statuses
          /\ proved' = "none" /\ inherited' = "no" /\ verdict' = "none"
      BY <2>1 DEF StartRun, StatusAtStart, TypeOK, Statuses
    <3> QED BY <3>1, <3>2, <3>3, <3>4 DEF TypeOK, Statuses
  <2>2. CASE RunJob
    <3> DEFINE job == Jobs[pc]
               a   == JobAway(mode, job, away)
    <3>1. /\ equivStatus' \in Statuses
          /\ proved' \in Statuses \cup {"none"}
      BY <2>2, StatusType DEF RunJob, TypeOK, Statuses
    <3>2. inherited' \in {"no", "yes", "refused"}
      BY <2>2 DEF RunJob, TypeOK
    <3>3. failed' \in BOOLEAN
      <4>1. failed' = (failed \/ Fails(job, tree, a))
        BY <2>2 DEF RunJob, FailedAfter
      <4> QED BY <4>1
    <3>4. pc' \in 0..13
      BY <2>2 DEF RunJob
    <3> QED BY <2>2, <3>1, <3>2, <3>3, <3>4 DEF RunJob, TypeOK, Statuses
  <2>3. CASE KillJob
    BY <2>3 DEF TypeOK, KillJob
  <2>4. CASE Finish
    BY <2>4 DEF TypeOK, Finish
  <2>5. CASE Edit
    BY <2>5, WorldsAssumption DEF TypeOK, Edit
  <2>6. CASE UNCHANGED vars
    BY <2>6 DEF TypeOK, vars
  <2> QED BY <2>1, <2>2, <2>3, <2>4, <2>5, <2>6 DEF Next
<1> QED BY <1>1, <1>2, PTL DEF Spec

-----------------------------------------------------------------------------
(***************************************************************************)
(* While a run has no failure behind it, each job before pc passes; a      *)
(* verdict is kept only between runs.                                      *)
(***************************************************************************)
FailsHere(i) == Fails(Jobs[i], tree, JobAway(mode, Jobs[i], away))

JobsBehindPass == pc > 0 /\ ~failed => \A i \in 1..(pc - 1) : ~FailsHere(i)

VerdictInv ==
  /\ JobsBehindPass
  /\ pc > 0 => verdict = "none"
  /\ verdict = "PASS" => \A i \in 1..12 : ~FailsHere(i)

LEMMA PassesByIndex == (\A i \in 1..12 : ~FailsHere(i)) <=> Passes(tree, away)
  BY DEF FailsHere, Passes, JobNames

(***************************************************************************)
(* A run that says PASS has run every job on the tree, and each of them    *)
(* passes whatever ran before it.                                          *)
(***************************************************************************)
THEOREM GatePassIsAllJobs == Spec => []AllJobsPassed
<1>1. Init => VerdictInv
  BY DEF Init, VerdictInv, JobsBehindPass
<1>2. TypeOK /\ VerdictInv /\ [Next]_vars => VerdictInv'
  <2> SUFFICES ASSUME TypeOK, VerdictInv, [Next]_vars PROVE VerdictInv'
    OBVIOUS
  <2>1. CASE StartRun
    BY <2>1 DEF StartRun, VerdictInv, JobsBehindPass
  <2>2. CASE RunJob
    <3>1. \A i : FailsHere(i)' <=> FailsHere(i)
      BY <2>2 DEF RunJob, FailsHere
    <3>2. failed' <=> (failed \/ FailsHere(pc))
      BY <2>2 DEF RunJob, FailedAfter, FailsHere
    <3>3. pc \in 1..12 /\ pc' = pc + 1 /\ verdict' = verdict
      BY <2>2 DEF RunJob
    <3> HIDE DEF FailsHere
    <3> QED BY <3>1, <3>2, <3>3 DEF VerdictInv, JobsBehindPass
  <2>3. CASE KillJob
    BY <2>3 DEF KillJob, VerdictInv, JobsBehindPass
  <2>4. CASE Finish
    <3>1. \A i : FailsHere(i)' <=> FailsHere(i)
      BY <2>4 DEF Finish, FailsHere
    <3>2. /\ pc = 13 /\ pc' = 0
          /\ verdict' = "PASS" => ~failed
      BY <2>4 DEF Finish
    <3> QED BY <3>1, <3>2 DEF VerdictInv, JobsBehindPass
  <2>5. CASE Edit
    BY <2>5 DEF Edit, VerdictInv, JobsBehindPass
  <2>6. CASE UNCHANGED vars
    <3>1. \A i : FailsHere(i)' <=> FailsHere(i)
      BY <2>6 DEF vars, FailsHere
    <3> QED BY <2>6, <3>1 DEF vars, VerdictInv, JobsBehindPass
  <2> QED BY <2>1, <2>2, <2>3, <2>4, <2>5, <2>6 DEF Next
<1>3. VerdictInv => AllJobsPassed
  BY PassesByIndex DEF VerdictInv, AllJobsPassed
<1> QED BY <1>1, <1>2, <1>3, GateTypeOK, PTL DEF Spec

-----------------------------------------------------------------------------
(***************************************************************************)
(* A finding of spec-leak is in no bucket but "new".                       *)
(***************************************************************************)
LEMMA LeakIsNew == \A t, f : BucketOf(t, "spec_leak", Finding("LEAK", f)) = "new"
  BY DEF BucketOf, Finding

LEMMA LeakBlocks ==
  ASSUME NEW t, NEW a, ~Fails("spec_leak", t, a), "leak_allowed" \notin t.facts,
         NEW f \in Marked(t, "LEAK", LeafFiles)
  PROVE  Waived(Waivers, "spec_leak", Finding("LEAK", f))
<1> DEFINE leak == Finding("LEAK", f)
<1>1. leak \in FindingsOfLeak(t)
  BY DEF FindingsOfLeak
<1>2. ~Deleted(t, leak)
  BY DEF Deleted, Marked, Finding
<1>3. FindingsOf("spec_leak", t, a) = FindingsOfLeak(t)
  BY DEF FindingsOf
<1>4. Blocking(t, Waivers, "spec_leak", FindingsOfLeak(t)) = {}
  BY <1>3 DEF Fails
<1>5. BucketOf(t, "spec_leak", leak) = "new"
  BY LeakIsNew
<1> QED BY <1>1, <1>2, <1>4, <1>5 DEF Blocking

(***************************************************************************)
(* A leak in a file that exists passes only with an approved entry of      *)
(* leak_allow.yml or an approved waiver for it.                            *)
(***************************************************************************)
THEOREM GateLeaksAreNotListed == Spec => []LeaksAreNotListed
<1>1. AllJobsPassed => LeaksAreNotListed
  <2>1. "spec_leak" \in JobNames
    BY JobsType DEF Jobs
  <2> QED BY <2>1, LeakBlocks DEF AllJobsPassed, Passes, LeaksAreNotListed
<1> QED BY <1>1, GatePassIsAllJobs, PTL

-----------------------------------------------------------------------------
(***************************************************************************)
(* In CI the status file a run reads is the one it has written.            *)
(***************************************************************************)
StatusOfThisRun ==
  mode = "ci" =>
    /\ pc > 0 /\ equivStatus = "PASS" => proved = "PASS"
    /\ inherited = "yes" => proved = "PASS" /\ pc \notin 1..10

(***************************************************************************)
(* In CI a proof is inherited only on an equivalence the same run proved,  *)
(* whichever of its jobs are killed and whatever was pushed before.        *)
(***************************************************************************)
THEOREM GateInheritedInCi == Spec => []InheritedInCi
<1>1. Init => StatusOfThisRun
  BY DEF Init, StatusOfThisRun
<1>2. TypeOK /\ StatusOfThisRun /\ [Next]_vars => StatusOfThisRun'
  <2> SUFFICES ASSUME TypeOK, StatusOfThisRun, [Next]_vars PROVE StatusOfThisRun'
    OBVIOUS
  <2>1. CASE StartRun
    BY <2>1 DEF StartRun, StatusAtStart, StatusOfThisRun, TypeOK
  <2>2. CASE RunJob
    <3> DEFINE job == Jobs[pc]
               a   == JobAway(mode, job, away)
    <3>1. /\ pc \in 1..12 /\ pc' = pc + 1 /\ mode' = mode
          /\ equivStatus' = IF WritesStatus(job, tree, a) THEN EquivStatusOf(tree) ELSE equivStatus
          /\ proved' = IF WritesStatus(job, tree, a) THEN EquivStatusOf(tree) ELSE proved
          /\ job # "formal" => inherited' = inherited
          /\ inherited' = "yes" => inherited = "yes" \/ (job = "formal" /\ equivStatus = "PASS")
      BY <2>2 DEF RunJob
    <3>2. mode = "ci" /\ WritesStatus(job, tree, a) => job = "equiv"
      BY DEF WritesStatus
    <3>3. (job = "equiv" <=> pc = 4) /\ (job = "formal" <=> pc = 10)
      BY <3>1 DEF Jobs
    <3> HIDE DEF job, a
    <3> QED BY <3>1, <3>2, <3>3 DEF StatusOfThisRun
  <2>3. CASE KillJob
    BY <2>3 DEF KillJob, StatusOfThisRun
  <2>4. CASE Finish
    BY <2>4 DEF Finish, StatusOfThisRun
  <2>5. CASE Edit
    BY <2>5 DEF Edit, StatusOfThisRun
  <2>6. CASE UNCHANGED vars
    BY <2>6 DEF vars, StatusOfThisRun
  <2> QED BY <2>1, <2>2, <2>3, <2>4, <2>5, <2>6 DEF Next
<1>3. StatusOfThisRun => InheritedInCi
  BY DEF StatusOfThisRun, InheritedInCi
<1> QED BY <1>1, <1>2, <1>3, GateTypeOK, PTL DEF Spec

-----------------------------------------------------------------------------
(***************************************************************************)
(* A limit of the gate, as the code stands: of a leaf whose PRODUCT and    *)
(* HOOKS files declare one name, no finding of lint, cdc-rdc or            *)
(* synth-check about the content of the PRODUCT can be made.               *)
(***************************************************************************)
THEOREM GateShadowedProduct ==
  ASSUME NEW t, NEW a,
         Exists(t, "product"), Exists(t, "hooks"), "hooks_renamed" \notin t.facts
  PROVE  /\ \A f \in FindingsOfLint(t, a) :
               f.file = "product" =>
                 f.rule \in {"STUB_UNLISTED", "STUB_TIMING", "MULTI_MODULE", "PRIVATE_IN_PARENT"}
         /\ \A f \in FindingsOfCdc(t) : f.file # "product"
         /\ FindingsOfSynth(t) = {}
<1>1. DiscoveredFiles(t) = {"hooks"}
  BY DEF DiscoveredFiles, Netlists
<1>2. \A rules : \A f \in FindEach(t, rules, {"hooks"}) : f.file = "hooks"
  BY DEF FindEach, Finding
<1>3. \A f \in FindingsOfLint(t, a) :
        f.file = "product" =>
          f.rule \in {"STUB_UNLISTED", "STUB_TIMING", "MULTI_MODULE", "PRIVATE_IN_PARENT"}
  <2>1. \A f \in StubFindings(t) :
          f.file = "product" => f.rule \in {"STUB_UNLISTED", "STUB_TIMING"}
    BY DEF StubFindings, Finding, Report
  <2>2. \A f \in OneModuleFindings(t, a) : f.rule \in {"MULTI_MODULE", "PRIVATE_IN_PARENT"}
    BY DEF OneModuleFindings, Switched, Finding, Report
  <2>3. \A f \in {Report("PRIVATE_SKIP", g) : g \in {"hooks"}} : f.file = "hooks"
    BY DEF Report
  <2> QED BY <1>1, <1>2, <2>1, <2>2, <2>3 DEF FindingsOfLint
<1>4. \A f \in FindingsOfCdc(t) : f.file # "product"
  BY <1>1, <1>2 DEF FindingsOfCdc
<1>5. FindingsOfSynth(t) = {}
  BY <1>1 DEF FindingsOfSynth, SynthUnits
<1> QED BY <1>3, <1>4, <1>5

(***************************************************************************)
(* The findings of a job that passes are listed, reported, waived or of a  *)
(* listed file that is gone.                                               *)
(***************************************************************************)

LEMMA NothingBlocks ==
  ASSUME NEW t, NEW a, NEW job \in JobNames, job # "formal",
         ~Fails(job, t, a),
         NEW f \in FindingsOf(job, t, a) \cup LockFindings(t),
         BucketOf(t, job, f) = "new", ~Deleted(t, f)
  PROVE  Waived(Waivers, job, f)
  BY DEF Fails, Blocking

(***************************************************************************)
(* A leaf without an excuse: every finding that is not a report is new.    *)
(***************************************************************************)
Unexcused(t) == t.facts \cap Excusing = {}

LEMMA UnexcusedIsNew ==
  ASSUME NEW t, Unexcused(t), NEW check, NEW rule, NEW file
  PROVE  /\ BucketOf(t, check, Finding(rule, file)) = "new"
         /\ ~Deleted(t, Finding(rule, file))
         /\ \A f : ~IsHandwritten(t, f) /\ ~IsLegacy(t, f)
         /\ ~IsPlaceholder(t) /\ ~IsPrivate(t) /\ ~IsStubListed(t) /\ ~IsLargeMem(t)
         /\ ~HooksRow(t)
<1>1. \A x \in Excusing : x \notin t.facts
  BY DEF Unexcused
<1>2. /\ "handwritten" \notin t.facts /\ "legacy" \notin t.facts /\ "migrate" \notin t.facts
      /\ "placeholder" \notin t.facts /\ "private" \notin t.facts
      /\ "blackbox" \notin t.facts /\ "large" \notin t.facts /\ "hooks_row" \notin t.facts
  BY <1>1 DEF Excusing, GatekeeperTraits
<1> QED BY <1>2 DEF BucketOf, Finding, Deleted, OnRoster, IsHandwritten, IsMigrate, IsLegacy,
     IsPlaceholder, IsPrivate, IsStubListed, IsLargeMem, HooksRow

(***************************************************************************)
(* What no waiver can name.                                                *)
(***************************************************************************)
LEMMA WaivedIsContent ==
  ASSUME NEW job, NEW rule, NEW file, Waived(Waivers, job, Finding(rule, file))
  PROVE  /\ job \in {"lint", "synth", "cdc"}
         /\ rule \in UnitRules \cup SynthRules
         /\ WaivedMark(<<rule, file>>)
<1>1. PICK w \in Waivers : EntryApproved(w) /\ WaiverMatches(w, job, Finding(rule, file))
  BY DEF Waived
<1>2. w.check \in {"lint", "synth", "cdc"} /\ w.rule \in UnitRules \cup SynthRules
  BY <1>1, WaiversAssumption
<1>3. w.check = job /\ w.rule \in {rule, "*"} /\ w.file \in {file, "*"}
  BY <1>1 DEF WaiverMatches, Finding
<1>4. "*" \notin UnitRules \cup SynthRules
  BY DEF UnitRules, SynthRules, ClockRules, ResetRules
<1> QED BY <1>1, <1>2, <1>3, <1>4 DEF WaivedMark

LEMMA UnexcusedFinding ==
  ASSUME NEW t, NEW a, NEW job \in JobNames, job # "formal",
         ~Fails(job, t, a), Unexcused(t), NEW rule, NEW file,
         Finding(rule, file) \in FindingsOf(job, t, a) \cup LockFindings(t)
  PROVE  /\ job \in {"lint", "synth", "cdc"}
         /\ rule \in UnitRules \cup SynthRules
         /\ WaivedMark(<<rule, file>>)
  BY UnexcusedIsNew, NothingBlocks, WaivedIsContent

LEMMA UnexcusedFindings ==
  ASSUME NEW t, NEW a, NEW job \in JobNames, job # "formal",
         ~Fails(job, t, a), Unexcused(t)
  PROVE  \A rule, file :
           Finding(rule, file) \in FindingsOf(job, t, a) =>
             /\ job \in {"lint", "synth", "cdc"}
             /\ rule \in UnitRules \cup SynthRules
             /\ WaivedMark(<<rule, file>>)
  BY UnexcusedFinding

LEMMA JobList ==
  /\ {"spec_leak", "contract", "emit", "equiv", "provenance", "hooks_ports", "lint",
      "synth", "cdc", "formal", "regmap", "tb"} = JobNames
<1>1. \A i \in 1..12 :
        i = 1 \/ i = 2 \/ i = 3 \/ i = 4 \/ i = 5 \/ i = 6 \/ i = 7 \/ i = 8 \/ i = 9
        \/ i = 10 \/ i = 11 \/ i = 12
  OBVIOUS
<1>2. /\ Jobs[1] = "spec_leak" /\ Jobs[2] = "contract" /\ Jobs[3] = "emit"
      /\ Jobs[4] = "equiv" /\ Jobs[5] = "provenance" /\ Jobs[6] = "hooks_ports"
      /\ Jobs[7] = "lint" /\ Jobs[8] = "synth" /\ Jobs[9] = "cdc"
      /\ Jobs[10] = "formal" /\ Jobs[11] = "regmap" /\ Jobs[12] = "tb"
  BY DEF Jobs
<1>3. \A j \in JobNames : \E i \in 1..12 : j = Jobs[i]
  BY DEF JobNames
<1>4. \A i \in 1..12 : Jobs[i] \in JobNames
  BY DEF JobNames
<1> QED BY <1>1, <1>2, <1>3, <1>4

LEMMA CleanEmit ==
  ASSUME NEW t, NEW a, a \subseteq {"origin_main"}, WellFormed(t), Unexcused(t),
         ~Fails("emit", t, a)
  PROVE  /\ {"root_on_path", "emit_broken", "stray_primitive", "PYC_LIB_UNKNOWN", "PYC_LIB_DIFF",
             "private_yml_bad"} \cap t.facts = {}
         /\ (ManifestStatic \cup ManifestRegened) \cap t.facts = {}
         /\ \A f \in LeafFiles : Exists(t, f)
         /\ \A f \in Netlists : <<"no_banner", f>> \notin t.marks /\ <<"edited", f>> \notin t.marks
         /\ "source_changed" \in t.facts => {"dirty", "netlists_renewed"} \cap t.facts # {}
         /\ "product" \in DiscoveredFiles(t) => <<"inst_placeholder", "product">> \notin t.marks
         /\ EquivRoute(t) = "compare" /\ EquivProven(t)
<1> DEFINE found == FindingsOfEmit(t, a)
<1>1. \A rule, file : Finding(rule, file) \notin found
  BY JobList, UnexcusedFinding DEF FindingsOf
<1>2. CanRegenerate(a) /\ "pyc_src" \notin a
  BY DEF CanRegenerate
<1>3. ~IsPlaceholder(t) /\ ~IsPrivate(t) /\ ~IsLargeMem(t)
      /\ \A f : ~IsHandwritten(t, f) /\ ~IsLegacy(t, f)
  BY UnexcusedIsNew
<1>4. "private_yml_bad" \notin t.facts
  BY DEF Fails, Dies
<1>5. "emit_broken" \notin t.facts
  BY <1>1, <1>2 DEF FindingsOfEmit, RegenFindings
<1>6. ~StopsAtEmitFail(t, a)
  BY <1>5 DEF StopsAtEmitFail
<1>7. "root_on_path" \notin t.facts
  BY <1>1 DEF FindingsOfEmit, ImportRootFindings
<1>8. "stray_primitive" \notin t.facts
  BY <1>1 DEF FindingsOfEmit, PycLibFindings
<1>9. {"PYC_LIB_UNKNOWN", "PYC_LIB_DIFF"} \cap t.facts = {}
  <2>1. CASE "pyc_lib_gone" \in t.facts
    BY <2>1 DEF WellFormed
  <2>2. CASE "pyc_lib_gone" \notin t.facts
    <3>1. {Finding(r, "pyclib") : r \in {"PYC_LIB_UNKNOWN", "PYC_LIB_DIFF"} \cap t.facts} \subseteq found
      BY <2>2, <1>2 DEF FindingsOfEmit, PycLibFindings
    <3> QED BY <3>1, <1>1
  <2> QED BY <2>1, <2>2
<1>10. (ManifestStatic \cup ManifestRegened) \cap t.facts = {}
  <2>1. ManifestFindings(t, TRUE) \subseteq found
    BY <1>2 DEF FindingsOfEmit
  <2>2. \A r \in (ManifestStatic \cup ManifestRegened) \cap t.facts :
           Finding(r, "lists") \in ManifestFindings(t, TRUE)
    BY DEF ManifestFindings
  <2> QED BY <2>1, <2>2, <1>1
<1>11. \A f \in Netlists : ~EmitDiffers(t, f)
  <2>1. RegenFindings(t, a) = {Finding("EMIT_DIFF", f) : f \in {g \in Netlists : EmitDiffers(t, g)}}
    BY <1>2, <1>5 DEF RegenFindings
  <2>2. RegenFindings(t, a) \subseteq found
    BY DEF FindingsOfEmit
  <2> QED BY <2>1, <2>2, <1>1
<1>12. \A f \in Netlists : Exists(t, f) => LooksGenerated(t, f)
  <2>1. UnlistedFindings(t) \subseteq found
    BY <1>6 DEF FindingsOfEmit
  <2>2. \A f \in Netlists : Exists(t, f) /\ ~LooksGenerated(t, f) =>
           Finding("HANDWRITTEN_UNLISTED", f) \in UnlistedFindings(t)
    BY <1>3 DEF UnlistedFindings
  <2> QED BY <2>1, <2>2, <1>1
<1>13. Exists(t, "source")
  <2>1. SUFFICES ASSUME ~Exists(t, "source") PROVE FALSE
    OBVIOUS
  <2>2. \A f \in Netlists : ~Exists(t, f)
    BY <2>1, <1>3, <1>11, <1>12 DEF EmitDiffers
  <2> QED BY <2>1, <2>2 DEF WellFormed, LeafFiles, Netlists
<1>14. \A f \in LeafFiles : Exists(t, f)
  BY <1>11, <1>13 DEF EmitDiffers, LeafFiles, Netlists
<1>15. \A f \in Netlists : /\ <<"no_banner", f>> \notin t.marks /\ <<"edited", f>> \notin t.marks
                           /\ ~(("netlists_renewed" \in t.facts) # HeadSourceChanged(t))
  BY <1>3, <1>11, <1>12, <1>13, <1>14 DEF EmitDiffers, LooksGenerated, Netlists, LeafFiles
<1>16. "source_changed" \in t.facts => {"dirty", "netlists_renewed"} \cap t.facts # {}
  BY <1>15 DEF HeadSourceChanged, Netlists
<1>17. ASSUME "product" \in DiscoveredFiles(t), <<"inst_placeholder", "product">> \in t.marks
       PROVE  FALSE
  <2>1. "product" \in Marked(t, "inst_placeholder", {"product"} \cap DiscoveredFiles(t))
    BY <1>14, <1>17 DEF Marked, LeafFiles
  <2>2. Finding("PLACEHOLDER_INSTANTIATED", "product") \in PlaceholderFindings(t)
    BY <2>1, <1>3 DEF PlaceholderFindings
  <2> QED BY <2>2, <1>1 DEF FindingsOfEmit
<1>18. EquivRoute(t) = "compare"
  BY <1>3, <1>14 DEF EquivRoute, IsLeafPair, LeafFiles
<1>19. EquivProven(t)
  <2>1. ~EquivProven(t) => Finding("EQUIV_FAIL", "product") \in EquivFindings(t)
    BY <1>18 DEF EquivFindings
  <2>2. EquivFindings(t) \subseteq found
    BY <1>6 DEF FindingsOfEmit
  <2> QED BY <2>1, <2>2, <1>1
<1> QED BY <1>4, <1>5, <1>7, <1>8, <1>9, <1>10, <1>14, <1>15, <1>16, <1>17, <1>18, <1>19

LEMMA FindingsByJob ==
  ASSUME NEW t, NEW a
  PROVE  /\ FindingsOf("spec_leak", t, a) = FindingsOfLeak(t)
         /\ FindingsOf("contract", t, a) = FindingsOfContract(t, a)
         /\ FindingsOf("emit", t, a) = FindingsOfEmit(t, a)
         /\ FindingsOf("equiv", t, a) = FindingsOfEquiv(t, a)
         /\ FindingsOf("provenance", t, a) = FindingsOfProvenance(t, a)
         /\ FindingsOf("hooks_ports", t, a) = FindingsOfHooks(t)
         /\ FindingsOf("lint", t, a) = FindingsOfLint(t, a)
         /\ FindingsOf("synth", t, a) = FindingsOfSynth(t)
         /\ FindingsOf("cdc", t, a) = FindingsOfCdc(t)
         /\ FindingsOf("regmap", t, a) = FindingsOfRegmap(t)
         /\ FindingsOf("tb", t, a) = {}
  BY DEF FindingsOf

LEMMA CleanContract ==
  ASSUME NEW t, NEW a, Unexcused(t), ~Fails("contract", t, a)
  PROVE  {"CONTRACT_BAD", "TOOLCHAIN_LOCK_CONFLICT", "TOOLCHAIN_LOCK_INCOMPLETE"} \cap t.facts = {}
<1>1. \A rule, file : Finding(rule, file) \notin FindingsOfContract(t, a) \cup LockFindings(t)
  BY JobList, UnexcusedFinding, FindingsByJob
<1>2. {Finding(r, "repo") : r \in {"CONTRACT_BAD"} \cap t.facts} \subseteq FindingsOfContract(t, a)
  BY DEF FindingsOfContract
<1>3. "CONTRACT_BAD" \notin t.facts
  BY <1>1, <1>2
<1>4. {"TOOLCHAIN_LOCK_CONFLICT", "TOOLCHAIN_LOCK_INCOMPLETE"} \cap t.facts = {}
  BY <1>1 DEF LockFindings
<1> QED BY <1>3, <1>4

LEMMA CleanHooks ==
  ASSUME NEW t, NEW a, Unexcused(t), \A f \in LeafFiles : Exists(t, f),
         ~Fails("hooks_ports", t, a)
  PROVE  {"product_tb", "hooks_extra"} \cap t.facts = {}
<1>1. \A rule, file : Finding(rule, file) \notin FindingsOfHooks(t)
  <2>1. "hooks_ports" \in JobNames
    BY JobList
  <2>2. FindingsOf("hooks_ports", t, a) = FindingsOfHooks(t)
    BY FindingsByJob
  <2>3. \A rule, file :
          Finding(rule, file) \in FindingsOf("hooks_ports", t, a) =>
             /\ "hooks_ports" \in {"lint", "synth", "cdc"}
             /\ WaivedMark(<<rule, file>>)
    BY <2>1, UnexcusedFindings
  <2> QED BY <2>2, <2>3
<1>2. /\ ~HooksRow(t) /\ ~IsPlaceholder(t)
      /\ \A f : ~IsHandwritten(t, f) /\ ~IsLegacy(t, f)
  BY UnexcusedIsNew
<1>3. FindingsOfHooks(t) = PortFindings(t)
  BY <1>2 DEF FindingsOfHooks, HooksSkipped, IsLeafPair, LeafFiles
<1>4. "product_tb" \in t.facts => Finding("HOOKS_PORT_ON_PRODUCT", "product") \in PortFindings(t)
  BY DEF PortFindings
<1>5. "hooks_extra" \in t.facts => Finding("HOOKS_PORT_UNEXPECTED", "hooks") \in PortFindings(t)
  <2> DEFINE rules == {q \in {"HOOKS_PORT_MISMATCH", "HOOKS_PORT_UNEXPECTED",
             "HOOKS_PORT_BAD_NAME", "HOOKS_PORT_DIR", "HOOKS_PORT_WIDTH"} :
        \/ q = "HOOKS_PORT_MISMATCH" /\ NamesDiffer(t)
        \/ /\ q = "HOOKS_PORT_UNEXPECTED"
           /\ ~HooksRow(t)
           /\ {"hooks_extra", "product_tb"} \cap t.facts # {}
        \/ q = "HOOKS_PORT_BAD_NAME" /\ HooksRow(t) /\ "bad_style" \in t.facts
        \/ q = "HOOKS_PORT_DIR" /\ HooksRow(t) /\ "obs_input" \in t.facts
        \/ /\ HooksRow(t) \/ ~NamesDiffer(t)
           /\ \/ q = "HOOKS_PORT_DIR"   /\ "port_dir" \in t.facts
              \/ q = "HOOKS_PORT_WIDTH" /\ "port_width" \in t.facts}
  <2>1. {Finding(r, "hooks") : r \in rules} \subseteq PortFindings(t)
    BY DEF PortFindings
  <2>2. "hooks_extra" \in t.facts => "HOOKS_PORT_UNEXPECTED" \in rules
    BY <1>2
  <2> HIDE DEF rules
  <2> QED BY <2>1, <2>2
<1> QED BY <1>1, <1>3, <1>4, <1>5

LEMMA CleanSource ==
  ASSUME NEW t, NEW a, Unexcused(t), \A f \in LeafFiles : Exists(t, f),
         ~Fails("provenance", t, a)
  PROVE  \A r \in {"PY_SYNTAX", "NO_PYCIRCUIT_IMPORT", "VERILOG_SPLICE"} :
            <<r, "source">> \notin t.marks
<1>1. \A rule, file : Finding(rule, file) \notin FindingsOfProvenance(t, a)
  <2>1. "provenance" \in JobNames
    BY JobList
  <2>2. FindingsOf("provenance", t, a) = FindingsOfProvenance(t, a)
    BY FindingsByJob
  <2>3. \A rule, file :
          Finding(rule, file) \in FindingsOf("provenance", t, a) =>
             /\ "provenance" \in {"lint", "synth", "cdc"}
             /\ WaivedMark(<<rule, file>>)
    BY <2>1, UnexcusedFindings
  <2> QED BY <2>2, <2>3
<1>2. Exists(t, "source")
  BY DEF LeafFiles
<1>3. Marked(t, "PY_SYNTAX", {"source"}) = {}
  BY <1>1 DEF FindingsOfProvenance
<1>4. FindEach(t, {"NO_PYCIRCUIT_IMPORT", "VERILOG_SPLICE"}, {"source"}) \subseteq
        FindingsOfProvenance(t, a)
  BY <1>3 DEF FindingsOfProvenance
<1>5. \A r \in {"NO_PYCIRCUIT_IMPORT", "VERILOG_SPLICE"} :
        <<r, "source">> \in t.marks =>
          Finding(r, "source") \in FindEach(t, {"NO_PYCIRCUIT_IMPORT", "VERILOG_SPLICE"}, {"source"})
  BY <1>2 DEF FindEach
<1>6. <<"PY_SYNTAX", "source">> \notin t.marks
  BY <1>2, <1>3 DEF Marked
<1> QED BY <1>1, <1>4, <1>5, <1>6

(***************************************************************************)
(* A mark on a file of FindEach is found.                                  *)
(***************************************************************************)
LEMMA FindEachFinds ==
  ASSUME NEW t, NEW rules, NEW files, NEW r \in rules, NEW f \in files,
         Exists(t, f), <<r, f>> \in t.marks
  PROVE  Finding(r, f) \in FindEach(t, rules, files)
<1>1. <<r, f>> \in rules \X files /\ <<r, f>>[1] = r /\ <<r, f>>[2] = f
  OBVIOUS
<1> QED BY <1>1 DEF FindEach

LEMMA DiscoveredExist ==
  ASSUME NEW t PROVE \A f \in DiscoveredFiles(t) : f \in Netlists /\ Exists(t, f)
  BY DEF DiscoveredFiles, Netlists

LEMMA CleanLint ==
  ASSUME NEW t, NEW a, Unexcused(t), ~Fails("lint", t, a),
         \A f \in LeafFiles : Exists(t, f)
  PROVE  /\ {"BLACKBOX_SCHEMA", "BLACKBOX_KIND"} \cap t.facts = {}
         /\ \A f \in Netlists : <<"looks_like_stub", f>> \notin t.marks
         /\ \A r \in {"LINT", "read_error"}, f \in DiscoveredFiles(t) :
              <<r, f>> \in t.marks => WaivedMark(<<r, f>>)
<1>1. \A rule, file : Finding(rule, file) \in FindingsOfLint(t, a) =>
        rule \in UnitRules \cup SynthRules /\ WaivedMark(<<rule, file>>)
  BY JobList, UnexcusedFinding, FindingsByJob
<1>2. ~IsPrivate(t) /\ ~IsStubListed(t) /\ \A f : ~IsHandwritten(t, f)
  BY UnexcusedIsNew
<1>3. \A r \in {"BLACKBOX_SCHEMA", "BLACKBOX_KIND", "STUB_UNLISTED"} :
         r \notin UnitRules \cup SynthRules
  BY DEF UnitRules, SynthRules, ClockRules, ResetRules
<1>4. StubFindings(t) \subseteq FindingsOfLint(t, a)
  BY DEF FindingsOfLint
<1>5. \A r \in {"BLACKBOX_SCHEMA", "BLACKBOX_KIND"} \cap t.facts :
        Finding(r, "lists") \in StubFindings(t)
  BY DEF StubFindings
<1>6. \A f \in Netlists : <<"looks_like_stub", f>> \in t.marks =>
        Finding("STUB_UNLISTED", f) \in StubFindings(t)
  <2>1. \A f \in Netlists : <<"looks_like_stub", f>> \in t.marks =>
           f \in Marked(t, "looks_like_stub", Netlists)
    BY DEF Marked, Netlists, LeafFiles
  <2> QED BY <2>1, <1>2 DEF StubFindings
<1>7. FindEach(t, {"LINT", "read_error"}, DiscoveredFiles(t)) \subseteq FindingsOfLint(t, a)
  BY <1>2 DEF FindingsOfLint
<1>8. \A r \in {"LINT", "read_error"}, f \in DiscoveredFiles(t) :
        <<r, f>> \in t.marks => WaivedMark(<<r, f>>)
  BY <1>1, <1>7, FindEachFinds, DiscoveredExist
<1> QED BY <1>1, <1>3, <1>4, <1>5, <1>6, <1>8

LEMMA CleanSynth ==
  ASSUME NEW t, NEW a, Unexcused(t), ~Fails("synth", t, a),
         "product" \in DiscoveredFiles(t)
  PROVE  \A r \in SynthRules : <<r, "product">> \in t.marks => WaivedMark(<<r, "product">>)
<1>1. \A rule, file : Finding(rule, file) \in FindingsOfSynth(t) => WaivedMark(<<rule, file>>)
  BY JobList, UnexcusedFinding, FindingsByJob
<1>2. ~IsPrivate(t) /\ ~IsStubListed(t) /\ ~IsPlaceholder(t) /\ ~IsLargeMem(t)
  BY UnexcusedIsNew
<1>3. "product" \in SynthUnits(t)
  BY <1>2 DEF SynthUnits
<1>4. FindEach(t, SynthRules, SynthUnits(t)) \subseteq FindingsOfSynth(t)
  BY <1>2, <1>3 DEF FindingsOfSynth
<1> QED BY <1>1, <1>3, <1>4, FindEachFinds, DiscoveredExist

LEMMA CleanCdc ==
  ASSUME NEW t, NEW a, Unexcused(t), ~Fails("cdc", t, a)
  PROVE  \A r \in ClockRules \cup ResetRules \cup {"RDC_UNRESET_ARRAY"}, f \in DiscoveredFiles(t) :
            <<r, f>> \in t.marks => WaivedMark(<<r, f>>)
<1> DEFINE units == DiscoveredFiles(t)
<1>1. \A rule, file : Finding(rule, file) \in FindingsOfCdc(t) => WaivedMark(<<rule, file>>)
  BY JobList, UnexcusedFinding, FindingsByJob
<1>2. ~IsPlaceholder(t)
  BY UnexcusedIsNew
<1>3. "handwritten" \notin t.facts /\ "valid_outside" \notin t.facts
  BY DEF Unexcused, Excusing, GatekeeperTraits
<1>4. FindEach(t, ClockRules, units) \cup FindEach(t, ResetRules, units) \cup
        FindEach(t, {"RDC_UNRESET_ARRAY"}, units) \subseteq FindingsOfCdc(t)
  BY <1>2, <1>3 DEF FindingsOfCdc
<1> QED BY <1>1, <1>4, FindEachFinds, DiscoveredExist

LEMMA CleanRegmap ==
  ASSUME NEW t, NEW a, Unexcused(t), ~Fails("regmap", t, a), WellFormed(t)
  PROVE  (RegmapRules \cup {"regmap_stale"}) \cap t.facts = {}
<1>1. \A rule, file : Finding(rule, file) \notin FindingsOfRegmap(t)
  <2>1. "regmap" \in JobNames
    BY JobList
  <2>2. FindingsOf("regmap", t, a) = FindingsOfRegmap(t)
    BY FindingsByJob
  <2>3. \A rule, file :
          Finding(rule, file) \in FindingsOf("regmap", t, a) =>
             /\ "regmap" \in {"lint", "synth", "cdc"}
             /\ WaivedMark(<<rule, file>>)
    BY <2>1, UnexcusedFindings
  <2> QED BY <2>2, <2>3
<1>2. RegmapRules \cap t.facts = {}
  <2>1. CASE "no_regmap" \in t.facts
    BY <2>1 DEF WellFormed
  <2>2. CASE "no_regmap" \notin t.facts
    <3>1. "REGMAP_YAML_INVALID" \notin t.facts
      BY <1>1, <2>2 DEF FindingsOfRegmap
    <3>2. {Finding(r, "repo") : r \in RegmapRules \cap t.facts} \subseteq FindingsOfRegmap(t)
      BY <2>2, <3>1 DEF FindingsOfRegmap
    <3> QED BY <3>2, <1>1
  <2> QED BY <2>1, <2>2
<1>3. "regmap_stale" \notin t.facts
  BY <1>1 DEF WellFormed, FindingsOfRegmap
<1> QED BY <1>2, <1>3

LEMMA CleanFormal ==
  ASSUME NEW t, NEW a, Unexcused(t), ~Fails("formal", t, a), WellFormed(t),
         "private_yml_bad" \notin t.facts
  PROVE  {"SBY_FILE_MISSING", "BIND_NETLIST_MISSING", "BIND_SIGNAL_MISSING", "sby_fails"}
            \cap t.facts = {}
<1>1. ~FormalFails(t, a)
  BY DEF Fails
<1>2. Blocking(t, Waivers, "formal", BindFindings(t)) = {}
  BY <1>1 DEF FormalFails, BindsPass
<1>3. ASSUME NEW r \in {"SBY_FILE_MISSING", "BIND_NETLIST_MISSING", "BIND_SIGNAL_MISSING"},
             r \in t.facts
      PROVE  FALSE
  <2>1. Finding(r, "sby") \in BindFindings(t)
    BY <1>3 DEF BindFindings
  <2>2. Waived(Waivers, "formal", Finding(r, "sby"))
    BY <2>1, <1>2, UnexcusedIsNew DEF Blocking
  <2>3. "formal" \in {"lint", "synth", "cdc"}
    BY <2>2, WaivedIsContent
  <2> QED BY <2>3
<1>4. "sby_fails" \notin t.facts
  <2>1. ~IsPrivate(t)
    BY UnexcusedIsNew
  <2> QED BY <1>1, <2>1 DEF FormalFails, WellFormed, SbyListed
<1> QED BY <1>3, <1>4

LEMMA CleanTree ==
  ASSUME NEW t, WellFormed(t), Unexcused(t), Passes(t, {})
  PROVE  CleanOf(t, DiscoveredFiles(t))
<1> DEFINE at(job) == JobAway(mode, job, {})
<1>1. \A job : at(job) \subseteq {"origin_main"}
  BY DEF JobAway
<1>2. \A job \in JobNames : ~Fails(job, t, at(job))
  BY DEF Passes
<1> HIDE DEF at
<1>3. /\ ~Fails("spec_leak", t, at("spec_leak")) /\ ~Fails("contract", t, at("contract"))
      /\ ~Fails("emit", t, at("emit")) /\ ~Fails("provenance", t, at("provenance"))
      /\ ~Fails("hooks_ports", t, at("hooks_ports")) /\ ~Fails("lint", t, at("lint"))
      /\ ~Fails("synth", t, at("synth")) /\ ~Fails("cdc", t, at("cdc"))
      /\ ~Fails("formal", t, at("formal")) /\ ~Fails("regmap", t, at("regmap"))
      /\ ~Fails("tb", t, at("tb"))
  BY <1>2, JobList
<1> DEFINE units == DiscoveredFiles(t)
<1>4. /\ {"root_on_path", "emit_broken", "stray_primitive", "PYC_LIB_UNKNOWN", "PYC_LIB_DIFF",
             "private_yml_bad"} \cap t.facts = {}
      /\ (ManifestStatic \cup ManifestRegened) \cap t.facts = {}
      /\ \A f \in LeafFiles : Exists(t, f)
      /\ \A f \in Netlists : <<"no_banner", f>> \notin t.marks /\ <<"edited", f>> \notin t.marks
      /\ "source_changed" \in t.facts => {"dirty", "netlists_renewed"} \cap t.facts # {}
      /\ "product" \in units => <<"inst_placeholder", "product">> \notin t.marks
      /\ EquivProven(t)
  BY <1>1, <1>3, CleanEmit
<1>5. {"port_missing", "port_dir", "port_width", "differs_early", "differs_late"} \cap t.facts = {}
  BY <1>4 DEF EquivProven, ProvenByInduction, HoldsFor16Cycles, OutputUnproven, PortsClash
<1>6. {"test_fails", "test_skips", "cocotb_fails"} \cap t.facts = {}
  BY <1>3 DEF Fails, Dies, TbPasses
<1>7. {"CONTRACT_BAD", "TOOLCHAIN_LOCK_CONFLICT", "TOOLCHAIN_LOCK_INCOMPLETE"} \cap t.facts = {}
  BY <1>3, CleanContract
<1>8. {"product_tb", "hooks_extra"} \cap t.facts = {}
  BY <1>3, <1>4, CleanHooks
<1>9. {"BLACKBOX_SCHEMA", "BLACKBOX_KIND"} \cap t.facts = {}
  BY <1>3, <1>4, CleanLint
<1>10. (RegmapRules \cup {"regmap_stale"}) \cap t.facts = {}
  BY <1>3, CleanRegmap
<1>11. {"SBY_FILE_MISSING", "BIND_NETLIST_MISSING", "BIND_SIGNAL_MISSING", "sby_fails"} \cap t.facts = {}
  BY <1>3, <1>4, CleanFormal
<1>12. t.facts \cap GatedFacts(t) = {}
  BY <1>4, <1>5, <1>6, <1>7, <1>8, <1>9, <1>10, <1>11 DEF GatedFacts
<1>13. \A f \in LeafFiles : <<"LEAK", f>> \notin t.marks
  <2>1. "leak_allowed" \notin t.facts
    BY DEF Unexcused, Excusing, GatekeeperTraits
  <2>2. ASSUME NEW f \in LeafFiles, <<"LEAK", f>> \in t.marks PROVE FALSE
    <3>1. f \in Marked(t, "LEAK", LeafFiles)
      BY <1>4, <2>2 DEF Marked
    <3>2. Waived(Waivers, "spec_leak", Finding("LEAK", f))
      BY <3>1, <2>1, <1>3, LeakBlocks
    <3>3. "spec_leak" \in {"lint", "synth", "cdc"}
      BY <3>2, WaivedIsContent
    <3> QED BY <3>3
  <2> QED BY <2>2
<1>14. ASSUME NEW m \in t.marks \cap GatedMarks(t, units) PROVE WaivedMark(m)
  <2>1. CASE m \in {"LEAK"} \X LeafFiles
    BY <2>1, <1>13
  <2>2. CASE m \in {"PY_SYNTAX", "NO_PYCIRCUIT_IMPORT", "VERILOG_SPLICE"} \X {"source"}
    BY <2>2, <1>3, <1>4, CleanSource
  <2>3. CASE m \in {"missing"} \X {f \in Netlists : Exists(t, "source")}
    BY <2>3, <1>4 DEF Exists, LeafFiles, Netlists
  <2>4. CASE m \in {"no_banner", "edited", "looks_like_stub"} \X Netlists
    <3>1. PICK r \in {"no_banner", "edited", "looks_like_stub"}, f \in Netlists : m = <<r, f>>
      BY <2>4
    <3>2. <<"looks_like_stub", f>> \notin t.marks
      BY <1>3, <1>4, CleanLint
    <3> QED BY <3>1, <3>2, <1>4
  <2>5. CASE m \in UnitRules \X units
    <3>1. PICK r \in UnitRules, f \in units : m = <<r, f>>
      BY <2>5
    <3>2. r \in {"LINT", "read_error"} \/ r \in ClockRules \cup ResetRules \cup {"RDC_UNRESET_ARRAY"}
      BY DEF UnitRules
    <3> QED BY <3>1, <3>2, <1>3, <1>4, CleanLint, CleanCdc
  <2>6. CASE m \in (SynthRules \cup {"inst_placeholder"}) \X ({"product"} \cap units)
    BY <2>6, <1>3, <1>4, CleanSynth
  <2> QED BY <2>1, <2>2, <2>3, <2>4, <2>5, <2>6 DEF GatedMarks
<1> QED BY <1>12, <1>14 DEF CleanOf

-----------------------------------------------------------------------------
(***************************************************************************)
(* A machine with "less" and one with all of "full", in the eyes of a job. *)
(***************************************************************************)
LessThan(less, full) ==
  /\ full \subseteq less
  /\ full \subseteq {"origin_main"}

LEMMA JobAwayIsLess ==
  ASSUME NEW job, NEW a
  PROVE  /\ LessThan(JobAway(mode, job, a), JobAway(mode, job, {}))
         /\ CanRegenerate(a) <=> CanRegenerate(JobAway(mode, job, a))
         /\ "pyc_src" \in a <=> "pyc_src" \in JobAway(mode, job, a)
         /\ RequiredOnMain(a) =>
              (RequiredOnMain(JobAway(mode, job, {})) <=> RequiredOnMain(JobAway(mode, job, a)))
  BY DEF LessThan, JobAway, CanRegenerate, RequiredOnMain

(***************************************************************************)
(* A job that does not die without something does not die with it.         *)
(***************************************************************************)
LEMMA DiesWithLess ==
  ASSUME NEW t, NEW a, NEW full, LessThan(a, full), NEW job, Dies(job, t, full)
  PROVE  Dies(job, t, a)
<1>1. full \subseteq a /\ CanRegenerate(full)
  BY DEF LessThan, CanRegenerate
<1>2. PortsUnreadable(t, full) => PortsUnreadable(t, a)
  BY <1>1 DEF PortsUnreadable
<1>3. ~StopsAtEmitFail(t, full) => ~StopsAtEmitFail(t, a)
  BY <1>1 DEF StopsAtEmitFail
<1>4. TbPasses(t, a) => TbPasses(t, full)
  BY <1>1 DEF TbPasses
<1> QED BY <1>1, <1>2, <1>3, <1>4 DEF Dies

(***************************************************************************)
(* The rules whose findings may go when the machine has less.              *)
(***************************************************************************)
SkippedBy(less, full) ==
  (IF CanRegenerate(less) THEN {} ELSE {"EMIT_DIFF", "EMIT_FAIL"} \cup ManifestRegened) \cup
  (IF "pyc_src" \in less THEN {"PYC_LIB_UNKNOWN", "PYC_LIB_DIFF"} ELSE {}) \cup
  (IF RequiredOnMain(less) \/ ~RequiredOnMain(full) THEN {}
   ELSE {"HASH_SINGLE", "OWNED_PATHS", "PYCLIB_COPY", "PYCLIB_FETCH",
         "PYC_LIB_MISSING", "PRIVATE_IN_PARENT"})

KeepsBut(found, foundWithLess, rules) ==
  \A f \in found : f.bucket # "report" /\ f.rule \notin rules => f \in foundWithLess

LEMMA SwitchedWithLess ==
  ASSUME NEW a, NEW full, NEW r, NEW f, LessThan(a, full),
         Switched(full, r, f).bucket # "report",
         RequiredOnMain(a) \/ ~RequiredOnMain(full)
  PROVE  Switched(full, r, f) = Switched(a, r, f)
  BY DEF Switched, Report, Finding, LessThan, RequiredOnMain

LEMMA PycLibWithLess ==
  ASSUME NEW t, NEW a, NEW full, LessThan(a, full)
  PROVE  KeepsBut(PycLibFindings(t, full), PycLibFindings(t, a), SkippedBy(a, full))
<1> SUFFICES ASSUME NEW f \in PycLibFindings(t, full), f.bucket # "report",
                    f.rule \notin SkippedBy(a, full)
             PROVE  f \in PycLibFindings(t, a)
  BY DEF KeepsBut
<1>1. "pyc_src" \notin full
  BY DEF LessThan
<1>2. CASE f \in {Finding("PYC_PRIMITIVE_STRAY", "repo") : x \in {"stray_primitive"} \cap t.facts}
  BY <1>2 DEF PycLibFindings
<1>3. CASE \E r \in {"PYCLIB_COPY", "PYCLIB_FETCH"} \cap t.facts : f = Switched(full, r, "repo")
  <2>1. PICK r \in {"PYCLIB_COPY", "PYCLIB_FETCH"} \cap t.facts : f = Switched(full, r, "repo")
    BY <1>3
  <2>2. f.rule = r
    BY <2>1 DEF Switched, Finding, Report
  <2>3. RequiredOnMain(a) \/ ~RequiredOnMain(full)
    BY <2>1, <2>2 DEF SkippedBy
  <2>4. f = Switched(a, r, "repo")
    BY <2>1, <2>3, SwitchedWithLess
  <2> QED BY <2>1, <2>4 DEF PycLibFindings
<1>4. CASE "pyc_lib_gone" \in t.facts /\ f = Switched(full, "PYC_LIB_MISSING", "pyclib")
  <2>1. f.rule = "PYC_LIB_MISSING"
    BY <1>4 DEF Switched, Finding, Report
  <2>2. RequiredOnMain(a) \/ ~RequiredOnMain(full)
    BY <2>1 DEF SkippedBy
  <2>3. f = Switched(a, "PYC_LIB_MISSING", "pyclib")
    BY <1>4, <2>2, SwitchedWithLess
  <2> QED BY <1>4, <2>3 DEF PycLibFindings
<1>5. CASE /\ "pyc_lib_gone" \notin t.facts
           /\ f \in {Finding(r, "pyclib") : r \in {"PYC_LIB_UNKNOWN", "PYC_LIB_DIFF"} \cap t.facts}
  <2>1. f.rule \in {"PYC_LIB_UNKNOWN", "PYC_LIB_DIFF"}
    BY <1>5 DEF Finding
  <2>2. "pyc_src" \notin a
    BY <2>1 DEF SkippedBy
  <2> QED BY <1>5, <2>2 DEF PycLibFindings
<1> QED BY <1>1, <1>2, <1>3, <1>4, <1>5 DEF PycLibFindings

LEMMA ContractWithLess ==
  ASSUME NEW t, NEW a, NEW full, LessThan(a, full)
  PROVE  KeepsBut(FindingsOfContract(t, full), FindingsOfContract(t, a), SkippedBy(a, full))
<1> SUFFICES ASSUME NEW f \in FindingsOfContract(t, full), f.bucket # "report",
                    f.rule \notin SkippedBy(a, full)
             PROVE  f \in FindingsOfContract(t, a)
  BY DEF KeepsBut
<1>1. CASE \E r \in {"HASH_SINGLE", "OWNED_PATHS"} \cap t.facts : f = Switched(full, r, "repo")
  <2>1. PICK r \in {"HASH_SINGLE", "OWNED_PATHS"} \cap t.facts : f = Switched(full, r, "repo")
    BY <1>1
  <2>2. f.rule = r
    BY <2>1 DEF Switched, Finding, Report
  <2>3. RequiredOnMain(a) \/ ~RequiredOnMain(full)
    BY <2>1, <2>2 DEF SkippedBy
  <2>4. f = Switched(a, r, "repo")
    BY <2>1, <2>3, SwitchedWithLess
  <2> QED BY <2>1, <2>4 DEF FindingsOfContract
<1> QED BY <1>1 DEF FindingsOfContract

LEMMA EmitWithLess ==
  ASSUME NEW t, NEW a, NEW full, LessThan(a, full)
  PROVE  KeepsBut(FindingsOfEmit(t, full), FindingsOfEmit(t, a), SkippedBy(a, full))
<1> SUFFICES ASSUME NEW f \in FindingsOfEmit(t, full), f.bucket # "report",
                    f.rule \notin SkippedBy(a, full)
             PROVE  f \in FindingsOfEmit(t, a)
  BY DEF KeepsBut
<1>1. CanRegenerate(full)
  BY DEF LessThan, CanRegenerate
<1>2. CASE f \in ImportRootFindings(t) \cup PlaceholderFindings(t)
  BY <1>2 DEF FindingsOfEmit
<1>3. CASE f \in RegenFindings(t, full)
  <2>1. f.rule \in {"EMIT_FAIL", "EMIT_DIFF"}
    BY <1>1, <1>3 DEF RegenFindings, Finding
  <2>2. CanRegenerate(a)
    BY <2>1 DEF SkippedBy
  <2> QED BY <1>1, <1>3, <2>2 DEF FindingsOfEmit, RegenFindings
<1>4. CASE f \in ManifestFindings(t, TRUE)
  <2>1. CASE f \in {Finding(r, "lists") : r \in ManifestRegened \cap t.facts}
    <3>1. f.rule \in ManifestRegened
      BY <2>1 DEF Finding
    <3>2. CanRegenerate(a)
      BY <3>1 DEF SkippedBy
    <3> QED BY <1>4, <3>2 DEF FindingsOfEmit
  <2>2. CASE f \notin {Finding(r, "lists") : r \in ManifestRegened \cap t.facts}
    <3>1. f \in ManifestFindings(t, CanRegenerate(a))
      BY <1>4, <2>2 DEF ManifestFindings
    <3> QED BY <3>1 DEF FindingsOfEmit
  <2> QED BY <2>1, <2>2
<1>5. CASE f \in PycLibFindings(t, full)
  <2>1. f \in PycLibFindings(t, a)
    BY <1>5, PycLibWithLess DEF KeepsBut
  <2> QED BY <2>1 DEF FindingsOfEmit
<1>6. CASE ~StopsAtEmitFail(t, full) /\ f \in UnlistedFindings(t) \cup EquivFindings(t)
  <2>1. ~StopsAtEmitFail(t, a)
    BY <1>1, <1>6 DEF StopsAtEmitFail
  <2> QED BY <1>6, <2>1 DEF FindingsOfEmit
<1> QED BY <1>1, <1>2, <1>3, <1>4, <1>5, <1>6 DEF FindingsOfEmit

LEMMA EquivWithLess ==
  ASSUME NEW t, NEW a, NEW full, LessThan(a, full)
  PROVE  KeepsBut(FindingsOfEquiv(t, full), FindingsOfEquiv(t, a), SkippedBy(a, full))
  BY PycLibWithLess DEF KeepsBut, FindingsOfEquiv

LEMMA ProvenanceWithLess ==
  ASSUME NEW t, NEW a, NEW full, LessThan(a, full)
  PROVE  KeepsBut(FindingsOfProvenance(t, full), FindingsOfProvenance(t, a), SkippedBy(a, full))
<1>1. \A x : Report("PYCC_UNAVAILABLE", "repo").bucket = "report"
  BY DEF Report
<1> QED BY <1>1 DEF KeepsBut, FindingsOfProvenance

LEMMA LintWithLess ==
  ASSUME NEW t, NEW a, NEW full, LessThan(a, full)
  PROVE  KeepsBut(FindingsOfLint(t, full), FindingsOfLint(t, a), SkippedBy(a, full))
<1> SUFFICES ASSUME NEW f \in FindingsOfLint(t, full), f.bucket # "report",
                    f.rule \notin SkippedBy(a, full)
             PROVE  f \in FindingsOfLint(t, a)
  BY DEF KeepsBut
<1>1. CASE \E g \in Marked(t, "PRIVATE_IN_PARENT", Netlists) :
              f = Switched(full, "PRIVATE_IN_PARENT", g)
  <2>1. PICK g \in Marked(t, "PRIVATE_IN_PARENT", Netlists) :
              f = Switched(full, "PRIVATE_IN_PARENT", g)
    BY <1>1
  <2>2. f.rule = "PRIVATE_IN_PARENT"
    BY <2>1 DEF Switched, Finding, Report
  <2>3. RequiredOnMain(a) \/ ~RequiredOnMain(full)
    BY <2>2 DEF SkippedBy
  <2>4. f = Switched(a, "PRIVATE_IN_PARENT", g)
    BY <2>1, <2>3, SwitchedWithLess
  <2> QED BY <2>1, <2>4 DEF FindingsOfLint, OneModuleFindings
<1> QED BY <1>1 DEF FindingsOfLint, OneModuleFindings

LEMMA FindingsWithLess ==
  ASSUME NEW t, NEW a, NEW full, LessThan(a, full), NEW job \in JobNames
  PROVE  KeepsBut(FindingsOf(job, t, full), FindingsOf(job, t, a), SkippedBy(a, full))
<1>1. job \in {"contract", "emit", "equiv", "provenance", "lint"} =>
        KeepsBut(FindingsOf(job, t, full), FindingsOf(job, t, a), SkippedBy(a, full))
  BY FindingsByJob, ContractWithLess, EmitWithLess, EquivWithLess, ProvenanceWithLess, LintWithLess
<1>2. job \notin {"contract", "emit", "equiv", "provenance", "lint"} =>
        FindingsOf(job, t, full) = FindingsOf(job, t, a)
  BY Zenon DEF FindingsOf
<1> QED BY <1>1, <1>2 DEF KeepsBut

LEMMA FormalWithLess ==
  ASSUME NEW t, NEW a, NEW full, LessThan(a, full),
         ~FormalFails(t, a), FormalFails(t, full)
  PROVE  "private_assume" \in t.facts
<1> SUFFICES ASSUME "private_assume" \notin t.facts PROVE FALSE
  OBVIOUS
<1>1. ParentFreeFindings(t, full) = {} /\ ParentFreeFindings(t, a) = {}
  BY DEF ParentFreeFindings
<1>2. "sby" \notin full
  BY DEF LessThan
<1> QED BY <1>1, <1>2 DEF FormalFails

LEMMA NothingPretended ==
  ASSUME NEW t, NEW a, NEW job \in JobNames, Passes(t, a)
  PROVE  LET full == JobAway(mode, job, {})
         IN /\ ~Dies(job, t, full)
            /\ (job = "formal" /\ FormalFails(t, full)) => "private_assume" \in t.facts
            /\ \A f \in Blocking(t, Waivers, job, FindingsOf(job, t, full)) :
                  f.rule \in SkippedWithout(a)
<1> DEFINE full == JobAway(mode, job, {})
           less == JobAway(mode, job, a)
<1>1. ~Fails(job, t, less)
  BY DEF Passes
<1>2. LessThan(less, full)
  BY JobAwayIsLess
<1>3. SkippedBy(less, full) \subseteq SkippedWithout(a)
  BY JobAwayIsLess DEF SkippedBy, SkippedWithout
<1> HIDE DEF full, less
<1>4. ~Dies(job, t, full)
  <2>1. ~Dies(job, t, less)
    BY <1>1, Zenon DEF Fails, Dies
  <2> QED BY <1>2, <2>1, DiesWithLess
<1>5. (job = "formal" /\ FormalFails(t, full)) => "private_assume" \in t.facts
  BY <1>1, <1>2, FormalWithLess DEF Fails
<1>6. ASSUME NEW f \in Blocking(t, Waivers, job, FindingsOf(job, t, full))
      PROVE  f.rule \in SkippedWithout(a)
  <2>1. CASE job = "formal"
    <3>1. FindingsOf("formal", t, full) = {}
      BY DEF FindingsOf
    <3>2. f \in Blocking(t, Waivers, "formal", BindFindings(t))
      BY <1>6, <2>1, <3>1 DEF Blocking
    <3> QED BY <1>1, <2>1, <3>2 DEF Fails, FormalFails, BindsPass
  <2>2. CASE job # "formal"
    <3>1. Blocking(t, Waivers, job, FindingsOf(job, t, less)) = {}
      BY <1>1, <2>2 DEF Fails
    <3>2. /\ BucketOf(t, job, f) = "new"
          /\ f \in FindingsOf(job, t, full) \cup LockFindings(t)
          /\ f \notin FindingsOf(job, t, less) \cup LockFindings(t)
      BY <1>6, <3>1 DEF Blocking
    <3>3. f.bucket # "report"
      BY <3>2 DEF BucketOf
    <3> QED BY <1>2, <1>3, <3>2, <3>3, FindingsWithLess DEF KeepsBut
  <2> QED BY <2>1, <2>2
<1> QED BY <1>4, <1>5, <1>6 DEF full

(***************************************************************************)
(* What a machine without its tools passes, a full machine refuses for     *)
(* the comparisons that are documented to be skipped and for nothing else. *)
(* An approved waiver names no rule that only a full machine reports.      *)
(***************************************************************************)
THEOREM GateNoPretending == Spec => []NoPretending
<1>1. AllJobsPassed => NoPretending
  <2> SUFFICES ASSUME AllJobsPassed, verdict = "PASS", NEW job \in JobNames
               PROVE  LET full == JobAway(mode, job, {})
                      IN /\ ~Dies(job, tree, full)
                         /\ (job = "formal" /\ FormalFails(tree, full))
                              => "private_assume" \in tree.facts
                         /\ \A f \in Blocking(tree, Waivers, job, FindingsOf(job, tree, full)) :
                               f.rule \in SkippedWithout(away)
    BY DEF NoPretending
  <2> QED BY NothingPretended DEF AllJobsPassed
<1> QED BY <1>1, GatePassIsAllJobs, PTL

(***************************************************************************)
(* A run that passes on a full machine has seen a leaf without the defects *)
(* the gate is there for, when no list names the leaf.                     *)
(***************************************************************************)
THEOREM GatePassMeansClean == Spec => []PassMeansClean
<1>1. TypeOK /\ AllJobsPassed => PassMeansClean
  <2> SUFFICES ASSUME TypeOK, AllJobsPassed, verdict = "PASS", away = {},
                      tree.facts \cap Excusing = {}
               PROVE  CleanOf(tree, DiscoveredFiles(tree))
    BY DEF PassMeansClean
  <2> QED BY CleanTree DEF AllJobsPassed, TypeOK, Unexcused
<1> QED BY <1>1, GateTypeOK, GatePassIsAllJobs, PTL

-----------------------------------------------------------------------------
(***************************************************************************)
(* Taking a fact or an entry away leaves the files as they are.            *)
(***************************************************************************)
LEMMA WithoutKeeps ==
  ASSUME NEW t, NEW x
  PROVE  LET u == Without(t, x) IN
         /\ u.facts = t.facts \ {x}
         /\ u.marks = t.marks
         /\ \A f : Exists(u, f) = Exists(t, f)
         /\ \A f : LooksGenerated(u, f) = LooksGenerated(t, f)
         /\ \A r, files : Marked(u, r, files) = Marked(t, r, files)
         /\ \A rules, files : FindEach(u, rules, files) = FindEach(t, rules, files)
<1> DEFINE u == Without(t, x)
<1>1. u.facts = t.facts \ {x} /\ u.marks = t.marks
  BY DEF Without
<1> HIDE DEF u
<1>2. \A f : Exists(u, f) = Exists(t, f)
  BY <1>1, Zenon DEF Exists
<1>3. \A f : LooksGenerated(u, f) = LooksGenerated(t, f)
  BY <1>1, <1>2 DEF LooksGenerated
<1>4. \A r, files : Marked(u, r, files) = Marked(t, r, files)
  BY <1>1, <1>2 DEF Marked
<1>5. \A rules, files : FindEach(u, rules, files) = FindEach(t, rules, files)
  BY <1>1, <1>2 DEF FindEach
<1> QED BY <1>1, <1>2, <1>3, <1>4, <1>5 DEF u

LEMMA MayExcuseCases ==
  ASSUME NEW t, NEW job, NEW f
  PROVE  /\ MayExcuse("legacy", t, job, f) <=>
              (~LooksGenerated(t, "product") /\ (f.file = "product" \/ f.rule \in PortRules))
         /\ MayExcuse("migrate", t, job, f) <=> (f.file \in LeafFiles /\ job # "spec_leak")
         /\ MayExcuse("handwritten", t, job, f) <=>
              (\/ f.file \in Netlists /\ job \in {"emit", "equiv", "hooks_ports"}
               \/ job = "cdc" /\ f.rule \in ResetRules
               \/ f.rule = "STUB_UNLISTED" /\ f.file = "product")
         /\ MayExcuse("blackbox", t, job, f) <=>
              (job = "synth" \/ f.rule \in {"STUB_UNLISTED", "RDC_UNRESET_ARRAY"})
         /\ MayExcuse("valid_outside", t, job, f) <=> (f.rule = "RDC_UNRESET_ARRAY")
         /\ MayExcuse("hooks_row", t, job, f) <=>
              (f.rule \in {"HOOKS_PORT_MISMATCH", "HOOKS_PORT_UNEXPECTED"})
         /\ MayExcuse("private", t, job, f) <=> (job \in {"lint", "synth", "emit", "equiv"})
         /\ MayExcuse("leak_allowed", t, job, f) <=> (job = "spec_leak")
         /\ MayExcuse("placeholder", t, job, f) <=>
              (\/ job \in {"synth", "cdc", "emit", "equiv", "hooks_ports"}
               \/ f.rule = "PLACEHOLDER_INSTANTIATED")
         /\ MayExcuse("large", t, job, f) <=> (job \in {"synth", "emit", "equiv"})
  BY DEF MayExcuse

Excuses == {"handwritten", "legacy", "migrate", "blackbox", "valid_outside", "hooks_row",
            "private", "leak_allowed", "placeholder", "large"}

LEMMA ExcusesAre == Excusing = Excuses
  BY DEF Excusing, GatekeeperTraits, Excuses

LEMMA ExcuseKeeps ==
  ASSUME NEW t, NEW x \in Excuses
  PROVE  LET u == Without(t, x) IN
         /\ \A y : y \notin Excuses => (y \in u.facts <=> y \in t.facts)
         /\ \A S : S \cap Excuses = {} => S \cap u.facts = S \cap t.facts
         /\ DiscoveredFiles(u) = DiscoveredFiles(t)
         /\ LockFindings(u) = LockFindings(t)
<1> DEFINE u == Without(t, x)
<1>1. u.facts = t.facts \ {x} /\ \A f : Exists(u, f) = Exists(t, f)
  BY WithoutKeeps
<1> HIDE DEF u
<1>2. \A y : y \notin Excuses => (y \in u.facts <=> y \in t.facts)
  BY <1>1
<1>3. \A S : S \cap Excuses = {} => S \cap u.facts = S \cap t.facts
  BY <1>2
<1>4. "hooks_renamed" \notin Excuses
      /\ {"TOOLCHAIN_LOCK_CONFLICT", "TOOLCHAIN_LOCK_INCOMPLETE"} \cap Excuses = {}
  BY DEF Excuses
<1>5. DiscoveredFiles(u) = DiscoveredFiles(t)
  BY <1>1, <1>2, <1>4 DEF DiscoveredFiles
<1>6. LockFindings(u) = LockFindings(t)
  BY <1>3, <1>4 DEF LockFindings
<1> QED BY <1>2, <1>3, <1>5, <1>6 DEF u

(***************************************************************************)
(* A new finding that the entry may not excuse is new with the entry too.  *)
(***************************************************************************)
LEMMA ExcuseClasses ==
  ASSUME NEW t, NEW x \in Excuses, NEW job, NEW f,
         ~MayExcuse(x, Without(t, x), job, f),
         BucketOf(Without(t, x), job, f) = "new", ~Deleted(Without(t, x), f),
         job = "spec_leak" => Exists(t, f.file)
  PROVE  BucketOf(t, job, f) = "new" /\ ~Deleted(t, f)
<1> DEFINE u == Without(t, x)
<1>1. /\ u.facts = t.facts \ {x}
      /\ \A g : Exists(u, g) = Exists(t, g)
      /\ \A g : LooksGenerated(u, g) = LooksGenerated(t, g)
  BY WithoutKeeps
<1>2. /\ BucketOf(u, job, f) = "new" /\ ~Deleted(u, f)
      /\ ~MayExcuse(x, u, job, f)
  OBVIOUS
<1> HIDE DEF u
<1>3. CASE x \notin {"legacy", "migrate", "handwritten"}
  BY <1>1, <1>2, <1>3
     DEF BucketOf, Deleted, OnRoster, IsHandwritten, IsMigrate, IsLegacy
<1>4. CASE x = "handwritten"
  <2>1. \A y \in {"legacy", "migrate"} : y \in u.facts <=> y \in t.facts
    BY <1>1, <1>4
  <2> QED BY <1>1, <1>2, <2>1
       DEF BucketOf, Deleted, OnRoster, IsHandwritten, IsMigrate, IsLegacy
<1>5. CASE x = "legacy"
  <2>1. ~(~LooksGenerated(u, "product") /\ (f.file = "product" \/ f.rule \in PortRules))
    BY <1>2, <1>5, MayExcuseCases
  <2>2. \A y \in {"handwritten", "migrate"} : y \in u.facts <=> y \in t.facts
    BY <1>1, <1>5
  <2>3. f.file = "product" => LooksGenerated(t, "product") /\ Exists(t, "product")
    BY <1>1, <2>1 DEF LooksGenerated
  <2> QED BY <1>1, <1>2, <2>2, <2>3
       DEF BucketOf, Deleted, OnRoster, IsHandwritten, IsMigrate, IsLegacy
<1>6. CASE x = "migrate"
  <2>1. f.file \notin LeafFiles \/ job = "spec_leak"
    BY <1>2, <1>6, MayExcuseCases
  <2>2. \A y \in {"handwritten", "legacy"} : y \in u.facts <=> y \in t.facts
    BY <1>1, <1>6
  <2> QED BY <1>1, <1>2, <2>1, <2>2
       DEF BucketOf, Deleted, OnRoster, IsHandwritten, IsMigrate, IsLegacy
<1> QED BY <1>3, <1>4, <1>5, <1>6

(***************************************************************************)
(* Job by job: what is found without the entry, and what it may not        *)
(* excuse, is found with it.                                               *)
(***************************************************************************)
KeptBy(x, u, job, found, foundWith) ==
  \A f \in found : f.bucket = "report" \/ MayExcuse(x, u, job, f) \/ f \in foundWith

LEMMA ExcuseRegmap ==
  ASSUME NEW t, NEW x \in Excuses
  PROVE  FindingsOfRegmap(Without(t, x)) = FindingsOfRegmap(t)
<1> DEFINE u == Without(t, x)
<1>1. /\ \A y : y \notin Excuses => (y \in u.facts <=> y \in t.facts)
      /\ \A S : S \cap Excuses = {} => S \cap u.facts = S \cap t.facts
  BY ExcuseKeeps
<1> HIDE DEF u
<1>2. /\ "no_regmap" \in u.facts <=> "no_regmap" \in t.facts
      /\ "no_gen_regmap" \in u.facts <=> "no_gen_regmap" \in t.facts
      /\ "REGMAP_YAML_INVALID" \in u.facts <=> "REGMAP_YAML_INVALID" \in t.facts
  BY <1>1 DEF Excuses
<1>3. /\ RegmapRules \cap u.facts = RegmapRules \cap t.facts
      /\ {"regmap_stale"} \cap u.facts = {"regmap_stale"} \cap t.facts
  <2>1. RegmapRules \cap Excuses = {} /\ {"regmap_stale"} \cap Excuses = {}
    BY DEF RegmapRules, Excuses
  <2> QED BY <1>1, <2>1
<1>4. {y \in {"regmap_stale"} \cap u.facts : "no_gen_regmap" \notin u.facts} =
      {y \in {"regmap_stale"} \cap t.facts : "no_gen_regmap" \notin t.facts}
  BY <1>2, <1>3
<1>5. FindingsOfRegmap(u) = FindingsOfRegmap(t)
  BY <1>2, <1>3, <1>4 DEF FindingsOfRegmap
<1> QED BY <1>5 DEF u

LEMMA ExcuseContract ==
  ASSUME NEW t, NEW x \in Excuses, NEW a
  PROVE  FindingsOfContract(Without(t, x), a) = FindingsOfContract(t, a)
<1> DEFINE u == Without(t, x)
<1>1. /\ {"CONTRACT_BAD"} \cap u.facts = {"CONTRACT_BAD"} \cap t.facts
      /\ {"HASH_SINGLE", "OWNED_PATHS"} \cap u.facts = {"HASH_SINGLE", "OWNED_PATHS"} \cap t.facts
  <2>1. {"CONTRACT_BAD"} \cap Excuses = {} /\ {"HASH_SINGLE", "OWNED_PATHS"} \cap Excuses = {}
    BY DEF Excuses
  <2> QED BY <2>1, ExcuseKeeps
<1> QED BY <1>1 DEF FindingsOfContract

LEMMA ExcusePlaceholder ==
  ASSUME NEW t, NEW x \in Excuses, NEW job,
         NEW f \in PlaceholderFindings(Without(t, x))
  PROVE  MayExcuse(x, Without(t, x), job, f) \/ f \in PlaceholderFindings(t)
<1> DEFINE u == Without(t, x)
<1>1. /\ u.facts = t.facts \ {x}
      /\ \A g : Exists(u, g) = Exists(t, g)
      /\ \A r, files : Marked(u, r, files) = Marked(t, r, files)
      /\ DiscoveredFiles(u) = DiscoveredFiles(t)
  BY WithoutKeeps, ExcuseKeeps
<1>2. f \in PlaceholderFindings(u)
  OBVIOUS
<1> HIDE DEF u
<1>3. CASE \E g \in Marked(u, "inst_placeholder", {"product"} \cap DiscoveredFiles(u)) :
             ~IsPlaceholder(u) /\ f = Finding("PLACEHOLDER_INSTANTIATED", g)
  <2>1. CASE x = "placeholder"
    <3>1. f.rule = "PLACEHOLDER_INSTANTIATED"
      BY <1>3 DEF Finding
    <3>2. MayExcuse("placeholder", u, job, f)
      BY <3>1, MayExcuseCases
    <3> QED BY <2>1, <3>2 DEF u
  <2>2. CASE x # "placeholder"
    <3>1. ~IsPlaceholder(t)
      BY <1>1, <1>3, <2>2 DEF IsPlaceholder
    <3> QED BY <1>1, <1>3, <3>1 DEF PlaceholderFindings
  <2> QED BY <2>1, <2>2
<1>4. CASE \E g \in {"source", "product"} :
             /\ IsPlaceholder(u) /\ "no_origin_mark" \in u.facts /\ Exists(u, g)
             /\ g = "product" => ~Exists(u, "source")
             /\ f = Finding("PLACEHOLDER_SOURCE_MISSING", g)
  <2>1. PICK g \in {"source", "product"} :
             /\ IsPlaceholder(u) /\ "no_origin_mark" \in u.facts /\ Exists(u, g)
             /\ g = "product" => ~Exists(u, "source")
             /\ f = Finding("PLACEHOLDER_SOURCE_MISSING", g)
    BY <1>4
  <2>2. /\ IsPlaceholder(t) /\ "no_origin_mark" \in t.facts /\ Exists(t, g)
        /\ g = "product" => ~Exists(t, "source")
    BY <1>1, <2>1 DEF IsPlaceholder
  <2> QED BY <2>1, <2>2 DEF PlaceholderFindings
<1> QED BY <1>2, <1>3, <1>4 DEF PlaceholderFindings

LEMMA PortFindingsAre ==
  ASSUME NEW t, NEW f \in PortFindings(t)
  PROVE  f.rule \in PortRules /\ f.file \in Netlists
  BY DEF PortFindings, Finding, PortRules, Netlists

LEMMA ExcusePorts ==
  ASSUME NEW t, NEW x \in Excuses \cap t.facts, NEW f \in PortFindings(Without(t, x))
  PROVE  \/ x = "hooks_row" /\ f.rule \in {"HOOKS_PORT_MISMATCH", "HOOKS_PORT_UNEXPECTED"}
         \/ f \in PortFindings(t)
<1> DEFINE u == Without(t, x)
<1>1. u.facts = t.facts \ {x} /\ f \in PortFindings(u)
  BY WithoutKeeps
<1>2. \A y \in {"port_missing", "hooks_extra", "product_tb", "bad_style", "obs_input",
                "port_dir", "port_width"} : y \in u.facts <=> y \in t.facts
  <2>1. \A y \in {"port_missing", "hooks_extra", "product_tb", "bad_style", "obs_input",
                  "port_dir", "port_width"} : y \notin Excuses
    BY DEF Excuses
  <2> QED BY <1>1, <2>1
<1> HIDE DEF u
<1>3. CASE f \in {Finding("HOOKS_PORT_ON_PRODUCT", "product") : y \in {"product_tb"} \cap u.facts}
  BY <1>2, <1>3 DEF PortFindings
<1>4. ASSUME NEW q \in {"HOOKS_PORT_MISMATCH", "HOOKS_PORT_UNEXPECTED",
                        "HOOKS_PORT_BAD_NAME", "HOOKS_PORT_DIR", "HOOKS_PORT_WIDTH"},
             f = Finding(q, "hooks"),
             \/ q = "HOOKS_PORT_MISMATCH" /\ NamesDiffer(u)
             \/ /\ q = "HOOKS_PORT_UNEXPECTED"
                /\ ~HooksRow(u)
                /\ {"hooks_extra", "product_tb"} \cap u.facts # {}
             \/ q = "HOOKS_PORT_BAD_NAME" /\ HooksRow(u) /\ "bad_style" \in u.facts
             \/ q = "HOOKS_PORT_DIR" /\ HooksRow(u) /\ "obs_input" \in u.facts
             \/ /\ HooksRow(u) \/ ~NamesDiffer(u)
                /\ \/ q = "HOOKS_PORT_DIR"   /\ "port_dir" \in u.facts
                   \/ q = "HOOKS_PORT_WIDTH" /\ "port_width" \in u.facts
      PROVE  \/ x = "hooks_row" /\ f.rule \in {"HOOKS_PORT_MISMATCH", "HOOKS_PORT_UNEXPECTED"}
             \/ f \in PortFindings(t)
  <2>1. CASE x = "hooks_row" /\ q \in {"HOOKS_PORT_MISMATCH", "HOOKS_PORT_UNEXPECTED"}
    BY <1>4, <2>1 DEF Finding
  <2>2. CASE x = "hooks_row" /\ q \notin {"HOOKS_PORT_MISMATCH", "HOOKS_PORT_UNEXPECTED"}
    <3>1. HooksRow(t) /\ ~HooksRow(u)
      BY <1>1, <2>2 DEF HooksRow
    <3>2. \/ q = "HOOKS_PORT_DIR" /\ "port_dir" \in t.facts
          \/ q = "HOOKS_PORT_WIDTH" /\ "port_width" \in t.facts
      BY <1>2, <1>4, <2>2, <3>1
    <3> QED BY <1>4, <3>1, <3>2 DEF PortFindings
  <2>3. CASE x # "hooks_row"
    <3>1. (HooksRow(u) <=> HooksRow(t)) /\ (NamesDiffer(u) <=> NamesDiffer(t))
      BY <1>1, <1>2, <2>3 DEF HooksRow, NamesDiffer
    <3>2. \/ q = "HOOKS_PORT_MISMATCH" /\ NamesDiffer(t)
          \/ /\ q = "HOOKS_PORT_UNEXPECTED"
             /\ ~HooksRow(t)
             /\ {"hooks_extra", "product_tb"} \cap t.facts # {}
          \/ q = "HOOKS_PORT_BAD_NAME" /\ HooksRow(t) /\ "bad_style" \in t.facts
          \/ q = "HOOKS_PORT_DIR" /\ HooksRow(t) /\ "obs_input" \in t.facts
          \/ /\ HooksRow(t) \/ ~NamesDiffer(t)
             /\ \/ q = "HOOKS_PORT_DIR"   /\ "port_dir" \in t.facts
                \/ q = "HOOKS_PORT_WIDTH" /\ "port_width" \in t.facts
      BY <1>2, <1>4, <3>1
    <3> QED BY <1>4, <3>2 DEF PortFindings
  <2> QED BY <2>1, <2>2, <2>3
<1> QED BY <1>1, <1>3, <1>4 DEF PortFindings

LEMMA ExcuseLegacy ==
  ASSUME NEW t, NEW x \in Excuses, NEW g
  PROVE  LET u == Without(t, x) IN
         /\ IsHandwritten(u, g) => IsHandwritten(t, g)
         /\ x # "handwritten" => (IsHandwritten(u, g) <=> IsHandwritten(t, g))
         /\ x \notin {"handwritten", "legacy"} => (IsLegacy(u, g) <=> IsLegacy(t, g))
         /\ x = "legacy" /\ LooksGenerated(u, "product") => (IsLegacy(u, g) <=> IsLegacy(t, g))
         /\ x # "placeholder" => (IsPlaceholder(u) <=> IsPlaceholder(t))
         /\ x # "private" => (IsPrivate(u) <=> IsPrivate(t))
         /\ x # "blackbox" => (IsStubListed(u) <=> IsStubListed(t))
         /\ x # "large" => (IsLargeMem(u) <=> IsLargeMem(t))
<1> DEFINE u == Without(t, x)
<1>1. u.facts = t.facts \ {x} /\ LooksGenerated(u, "product") = LooksGenerated(t, "product")
      /\ LooksGenerated(u, g) = LooksGenerated(t, g)
  BY WithoutKeeps
<1> HIDE DEF u
<1>2. \A y : y # x => (y \in u.facts <=> y \in t.facts)
  BY <1>1
<1>3. /\ IsHandwritten(u, g) => IsHandwritten(t, g)
      /\ x # "handwritten" => (IsHandwritten(u, g) <=> IsHandwritten(t, g))
  BY <1>1 DEF IsHandwritten
<1>4. /\ x \notin {"handwritten", "legacy"} => (IsLegacy(u, g) <=> IsLegacy(t, g))
      /\ x = "legacy" /\ LooksGenerated(u, "product") => (IsLegacy(u, g) <=> IsLegacy(t, g))
  BY <1>1, <1>3 DEF IsLegacy
<1>5. /\ x # "placeholder" => (IsPlaceholder(u) <=> IsPlaceholder(t))
      /\ x # "private" => (IsPrivate(u) <=> IsPrivate(t))
      /\ x # "blackbox" => (IsStubListed(u) <=> IsStubListed(t))
      /\ x # "large" => (IsLargeMem(u) <=> IsLargeMem(t))
  BY <1>2 DEF IsPlaceholder, IsPrivate, IsStubListed, IsLargeMem
<1> QED BY <1>3, <1>4, <1>5 DEF u

LEMMA ExcuseHooks ==
  ASSUME NEW t, NEW x \in Excuses \cap t.facts
  PROVE  KeptBy(x, Without(t, x), "hooks_ports", FindingsOfHooks(Without(t, x)), FindingsOfHooks(t))
<1> DEFINE u == Without(t, x)
<1> SUFFICES ASSUME NEW f \in FindingsOfHooks(u), ~MayExcuse(x, u, "hooks_ports", f)
             PROVE  f \in FindingsOfHooks(t)
  BY DEF KeptBy
<1>1. \A g : Exists(u, g) = Exists(t, g)
  BY WithoutKeeps
<1>2. ~HooksSkipped(u) /\ f.file \in Netlists /\ (f.rule \in PortRules \/ f.file = "product")
  <2>1. ~HooksSkipped(u)
    BY DEF FindingsOfHooks
  <2>2. f \in PortFindings(u) \/ f = Finding("HOOKS_MISSING", "product")
    BY <2>1 DEF FindingsOfHooks
  <2> QED BY <2>1, <2>2, PortFindingsAre DEF Finding, Netlists
<1>3. x # "placeholder" /\ x # "handwritten" /\ (x = "legacy" => LooksGenerated(u, "product"))
  BY <1>2, MayExcuseCases
<1>4. /\ \A g : IsHandwritten(u, g) <=> IsHandwritten(t, g)
      /\ \A g : IsLegacy(u, g) <=> IsLegacy(t, g)
      /\ IsPlaceholder(u) <=> IsPlaceholder(t)
  <2>1. x \in Excuses
    OBVIOUS
  <2> HIDE DEF u
  <2> QED BY <1>3, <2>1, ExcuseLegacy DEF u
<1>5. ~HooksSkipped(t)
  BY <1>1, <1>2, <1>4 DEF HooksSkipped, IsLeafPair
<1>6. f \in PortFindings(u) => f \in PortFindings(t)
  <2>1. ~(x = "hooks_row" /\ f.rule \in {"HOOKS_PORT_MISMATCH", "HOOKS_PORT_UNEXPECTED"})
    BY MayExcuseCases
  <2> QED BY <2>1, ExcusePorts
<1> QED BY <1>1, <1>2, <1>5, <1>6 DEF FindingsOfHooks

LEMMA ExcuseEquivRoute ==
  ASSUME NEW t, NEW x \in Excuses \cap t.facts,
         x \notin {"handwritten", "private", "placeholder", "large"},
         x = "legacy" => LooksGenerated(Without(t, x), "product")
  PROVE  EquivRoute(Without(t, x)) = EquivRoute(t)
<1> DEFINE u == Without(t, x)
<1>1. \A g : Exists(u, g) = Exists(t, g)
  BY WithoutKeeps
<1>2. /\ \A g : IsHandwritten(u, g) <=> IsHandwritten(t, g)
      /\ \A g : IsLegacy(u, g) <=> IsLegacy(t, g)
      /\ IsPlaceholder(u) <=> IsPlaceholder(t)
      /\ IsPrivate(u) <=> IsPrivate(t)
      /\ IsLargeMem(u) <=> IsLargeMem(t)
  BY ExcuseLegacy
<1> HIDE DEF u
<1>3. IsLeafPair(u) <=> IsLeafPair(t)
  BY <1>1, <1>2 DEF IsLeafPair
<1>4. EquivRoute(u) = EquivRoute(t)
  BY <1>1, <1>2, <1>3 DEF EquivRoute
<1> QED BY <1>4 DEF u

LEMMA EquivFindingsAre ==
  ASSUME NEW t, NEW f \in EquivFindings(t)
  PROVE  \/ f.bucket = "report"
         \/ f.file = "product"
         \/ f \in PortFindings(t)
<1>1. \A r : Finding(r, "product").file = "product"
  BY DEF Finding
<1>2. Report("PRIVATE_SKIP", "product").bucket = "report"
  BY DEF Report
<1>3. \/ f = Report("PRIVATE_SKIP", "product")
      \/ \E r : f = Finding(r, "product")
      \/ f \in PortFindings(t)
  BY Zenon DEF EquivFindings
<1> QED BY <1>1, <1>2, <1>3

LEMMA ExcuseEquiv ==
  ASSUME NEW t, NEW x \in Excuses \cap t.facts, NEW job \in {"emit", "equiv"}
  PROVE  KeptBy(x, Without(t, x), job, EquivFindings(Without(t, x)), EquivFindings(t))
<1> DEFINE u == Without(t, x)
<1> SUFFICES ASSUME NEW f \in EquivFindings(u), ~MayExcuse(x, u, job, f), f.bucket # "report"
             PROVE  f \in EquivFindings(t)
  BY DEF KeptBy
<1>1. f.file \in Netlists /\ (f.rule \in PortRules \/ f.file = "product")
  BY EquivFindingsAre, PortFindingsAre DEF Netlists
<1>2. /\ x \notin {"handwritten", "private", "placeholder", "large"}
      /\ x = "legacy" => LooksGenerated(u, "product")
  BY <1>1, MayExcuseCases
<1>3. EquivRoute(u) = EquivRoute(t)
  BY <1>2, ExcuseEquivRoute
<1>4. f \in PortFindings(u) => f \in PortFindings(t)
  <2>1. ~(x = "hooks_row" /\ f.rule \in {"HOOKS_PORT_MISMATCH", "HOOKS_PORT_UNEXPECTED"})
    BY MayExcuseCases
  <2> QED BY <2>1, ExcusePorts
<1>5. /\ BodiesDiffer(u) <=> BodiesDiffer(t)
      /\ EquivProven(u) <=> EquivProven(t)
  <2>1. u.marks = t.marks
    BY WithoutKeeps
  <2>2. \A S : S \cap Excuses = {} => S \cap u.facts = S \cap t.facts
    BY ExcuseKeeps
  <2>3. /\ {"port_missing", "port_dir", "port_width"} \cap Excuses = {}
        /\ {"differs_early", "differs_late"} \cap Excuses = {}
        /\ {"differs_early", "differs_late", "differs_late_inside",
            "registers_differ"} \cap Excuses = {}
        /\ "differs_early" \notin Excuses
    BY DEF Excuses
  <2>4. "differs_early" \in u.facts <=> "differs_early" \in t.facts
    BY <2>3, ExcuseKeeps
  <2> HIDE DEF u
  <2> QED BY <2>1, <2>2, <2>3, <2>4
       DEF BodiesDiffer, EquivProven, ProvenByInduction, OutputUnproven, HoldsFor16Cycles, PortsClash
<1> HIDE DEF u
<1> QED BY <1>3, <1>4, <1>5, Zenon DEF EquivFindings

LEMMA ExcuseSets ==
  ASSUME NEW t, NEW x \in Excuses, NEW S, S \cap Excuses = {}
  PROVE  S \cap Without(t, x).facts = S \cap t.facts
  BY ExcuseKeeps

LEMMA ExcuseImport ==
  ASSUME NEW t, NEW x \in Excuses
  PROVE  ImportRootFindings(Without(t, x)) = ImportRootFindings(t)
<1> DEFINE S == {"root_on_path"}
<1>1. S \cap Excuses = {}
  BY DEF Excuses
<1>2. S \cap Without(t, x).facts = S \cap t.facts
  BY <1>1, ExcuseSets
<1> QED BY <1>2 DEF ImportRootFindings

LEMMA ExcusePycLib ==
  ASSUME NEW t, NEW x \in Excuses, NEW a
  PROVE  PycLibFindings(Without(t, x), a) = PycLibFindings(t, a)
<1> DEFINE u == Without(t, x)
           rules == {"stray_primitive", "PYC_LIB_UNKNOWN", "PYC_LIB_DIFF", "PYCLIB_COPY",
                     "PYCLIB_FETCH", "pyc_lib_gone"}
<1>1. \A y \in rules : y \notin Excuses
  BY DEF Excuses
<1>2. \A y \in rules : y \in u.facts <=> y \in t.facts
  BY <1>1, ExcuseKeeps
<1> HIDE DEF u
<1>3. /\ {"stray_primitive"} \cap u.facts = {"stray_primitive"} \cap t.facts
      /\ {"PYC_LIB_UNKNOWN", "PYC_LIB_DIFF"} \cap u.facts =
         {"PYC_LIB_UNKNOWN", "PYC_LIB_DIFF"} \cap t.facts
      /\ {"PYCLIB_COPY", "PYCLIB_FETCH"} \cap u.facts = {"PYCLIB_COPY", "PYCLIB_FETCH"} \cap t.facts
      /\ "pyc_lib_gone" \in u.facts <=> "pyc_lib_gone" \in t.facts
  BY <1>2
<1>4. PycLibFindings(u, a) = PycLibFindings(t, a)
  BY <1>3 DEF PycLibFindings
<1> QED BY <1>4 DEF u

LEMMA ExcuseManifest ==
  ASSUME NEW t, NEW x \in Excuses, NEW job \in {"emit", "equiv"}, NEW verify \in BOOLEAN
  PROVE  KeptBy(x, Without(t, x), job, ManifestFindings(Without(t, x), verify),
                ManifestFindings(t, verify))
<1> DEFINE u == Without(t, x)
<1> SUFFICES ASSUME NEW f \in ManifestFindings(u, verify), ~MayExcuse(x, u, job, f)
             PROVE  f \in ManifestFindings(t, verify)
  BY DEF KeptBy
<1>1. /\ ManifestStatic \cap u.facts = ManifestStatic \cap t.facts
      /\ ManifestRegened \cap u.facts = ManifestRegened \cap t.facts
  <2>1. ManifestStatic \cap Excuses = {} /\ ManifestRegened \cap Excuses = {}
    BY DEF Excuses, ManifestStatic, ManifestRegened
  <2> QED BY <2>1, ExcuseSets
<1>2. CASE IsLargeMem(u) /\ Exists(u, "product") /\ ~IsHandwritten(u, "product")
           /\ f = Finding("LARGE_V_COMMITTED", "product")
  <2>1. x # "handwritten" /\ x # "large"
    BY <1>2, MayExcuseCases DEF Finding, Netlists
  <2>2. IsLargeMem(t) /\ Exists(t, "product") /\ ~IsHandwritten(t, "product")
    BY <1>2, <2>1, ExcuseLegacy, WithoutKeeps
  <2> QED BY <1>2, <2>2 DEF ManifestFindings
<1> HIDE DEF u
<1>3. f \in ManifestFindings(u, verify)
  BY DEF u
<1> QED BY <1>1, <1>2, <1>3 DEF ManifestFindings

LEMMA ExcuseRegen ==
  ASSUME NEW t, NEW x \in Excuses, NEW a
  PROVE  KeptBy(x, Without(t, x), "emit", RegenFindings(Without(t, x), a), RegenFindings(t, a))
<1> DEFINE u == Without(t, x)
<1> SUFFICES ASSUME NEW f \in RegenFindings(u, a), ~MayExcuse(x, u, "emit", f), f.bucket # "report"
             PROVE  f \in RegenFindings(t, a)
  BY DEF KeptBy
<1>1. /\ u.marks = t.marks
      /\ \A g : Exists(u, g) = Exists(t, g)
      /\ \A g : LooksGenerated(u, g) = LooksGenerated(t, g)
  BY WithoutKeeps
<1>2. \A y \in {"emit_broken", "netlists_renewed", "source_changed", "dirty"} :
         y \in u.facts <=> y \in t.facts
  <2>1. \A y \in {"emit_broken", "netlists_renewed", "source_changed", "dirty"} : y \notin Excuses
    BY DEF Excuses
  <2> QED BY <2>1, ExcuseKeeps
<1>3. CASE ~CanRegenerate(a)
  BY <1>3 DEF RegenFindings
<1>4. CASE CanRegenerate(a) /\ "emit_broken" \in u.facts
  BY <1>2, <1>4 DEF RegenFindings
<1>5. CASE CanRegenerate(a) /\ "emit_broken" \notin u.facts
  <2>1. PICK g \in Netlists : EmitDiffers(u, g) /\ f = Finding("EMIT_DIFF", g)
    BY <1>5 DEF RegenFindings
  <2>2. f.file = g
    BY <2>1 DEF Finding
  <2>3. x # "handwritten"
    BY <2>2, MayExcuseCases
  <2>4. IsHandwritten(u, g) <=> IsHandwritten(t, g)
    BY <2>3, ExcuseLegacy
  <2>5. HeadSourceChanged(u) <=> HeadSourceChanged(t)
    BY <1>2 DEF HeadSourceChanged
  <2>6. EmitDiffers(t, g)
    <3> HIDE DEF u
    <3>1. ("netlists_renewed" \in u.facts) = ("netlists_renewed" \in t.facts)
      BY <1>2
    <3>2. HeadSourceChanged(u) = HeadSourceChanged(t)
      BY <1>2 DEF HeadSourceChanged
    <3> QED BY <1>1, <2>1, <2>4, <3>1, <3>2, Zenon DEF EmitDiffers
  <2> QED BY <1>2, <1>5, <2>1, <2>6 DEF RegenFindings
<1> QED BY <1>3, <1>4, <1>5

LEMMA ExcuseUnlisted ==
  ASSUME NEW t, NEW x \in Excuses
  PROVE  KeptBy(x, Without(t, x), "emit", UnlistedFindings(Without(t, x)), UnlistedFindings(t))
<1> DEFINE u == Without(t, x)
<1> SUFFICES ASSUME NEW f \in UnlistedFindings(u), ~MayExcuse(x, u, "emit", f)
             PROVE  f \in UnlistedFindings(t)
  BY DEF KeptBy
<1>1. PICK g \in Netlists : /\ Exists(u, g) /\ ~IsHandwritten(u, g) /\ ~LooksGenerated(u, g)
                            /\ f = Finding("HANDWRITTEN_UNLISTED", g)
  BY DEF UnlistedFindings
<1>2. f.file = g
  BY <1>1 DEF Finding
<1>3. x # "handwritten"
  BY <1>2, MayExcuseCases
<1>4. Exists(t, g) /\ ~IsHandwritten(t, g) /\ ~LooksGenerated(t, g)
  BY <1>1, <1>3, ExcuseLegacy, WithoutKeeps
<1> QED BY <1>1, <1>4 DEF UnlistedFindings

LEMMA ExcuseEmit ==
  ASSUME NEW t, NEW x \in Excuses \cap t.facts, NEW a
  PROVE  KeptBy(x, Without(t, x), "emit", FindingsOfEmit(Without(t, x), a), FindingsOfEmit(t, a))
<1> DEFINE u == Without(t, x)
<1>1. StopsAtEmitFail(u, a) <=> StopsAtEmitFail(t, a)
  <2>1. "emit_broken" \in u.facts <=> "emit_broken" \in t.facts
    <3>1. "emit_broken" \notin Excuses
      BY DEF Excuses
    <3> QED BY <3>1, ExcuseKeeps
  <2> QED BY <2>1 DEF StopsAtEmitFail
<1>2. KeptBy(x, u, "emit", PlaceholderFindings(u), PlaceholderFindings(t))
  BY ExcusePlaceholder DEF KeptBy
<1>3. KeptBy(x, u, "emit", RegenFindings(u, a), RegenFindings(t, a))
  BY ExcuseRegen
<1>4. KeptBy(x, u, "emit", ManifestFindings(u, CanRegenerate(a)), ManifestFindings(t, CanRegenerate(a)))
  BY ExcuseManifest DEF CanRegenerate
<1>5. KeptBy(x, u, "emit", UnlistedFindings(u), UnlistedFindings(t))
  BY ExcuseUnlisted
<1>6. KeptBy(x, u, "emit", EquivFindings(u), EquivFindings(t))
  BY ExcuseEquiv
<1>7. ImportRootFindings(u) = ImportRootFindings(t) /\ PycLibFindings(u, a) = PycLibFindings(t, a)
  BY ExcuseImport, ExcusePycLib
<1> HIDE DEF u
<1>8. KeptBy(x, u, "emit", FindingsOfEmit(u, a), FindingsOfEmit(t, a))
  BY <1>1, <1>2, <1>3, <1>4, <1>5, <1>6, <1>7 DEF FindingsOfEmit, KeptBy
<1> QED BY <1>8 DEF u

LEMMA ExcuseEquivJob ==
  ASSUME NEW t, NEW x \in Excuses \cap t.facts, NEW a
  PROVE  KeptBy(x, Without(t, x), "equiv", FindingsOfEquiv(Without(t, x), a), FindingsOfEquiv(t, a))
<1> DEFINE u == Without(t, x)
<1>1. KeptBy(x, u, "equiv", ManifestFindings(u, FALSE), ManifestFindings(t, FALSE))
  BY ExcuseManifest
<1>2. KeptBy(x, u, "equiv", EquivFindings(u), EquivFindings(t))
  BY ExcuseEquiv
<1>3. ImportRootFindings(u) = ImportRootFindings(t) /\ PycLibFindings(u, a) = PycLibFindings(t, a)
  BY ExcuseImport, ExcusePycLib
<1> HIDE DEF u
<1>4. KeptBy(x, u, "equiv", FindingsOfEquiv(u, a), FindingsOfEquiv(t, a))
  BY <1>1, <1>2, <1>3 DEF FindingsOfEquiv, KeptBy
<1> QED BY <1>4 DEF u

LEMMA ExcuseProvenance ==
  ASSUME NEW t, NEW x \in Excuses, NEW a
  PROVE  KeptBy(x, Without(t, x), "provenance", FindingsOfProvenance(Without(t, x), a),
                FindingsOfProvenance(t, a))
<1> DEFINE u == Without(t, x)
<1>1. KeptBy(x, u, "provenance", PlaceholderFindings(u), PlaceholderFindings(t))
  BY ExcusePlaceholder DEF KeptBy
<1>2. ImportRootFindings(u) = ImportRootFindings(t)
  BY ExcuseImport
<1>3. /\ \A r, files : Marked(u, r, files) = Marked(t, r, files)
      /\ \A rules, files : FindEach(u, rules, files) = FindEach(t, rules, files)
  BY WithoutKeeps
<1> HIDE DEF u
<1>4. KeptBy(x, u, "provenance", FindingsOfProvenance(u, a), FindingsOfProvenance(t, a))
  BY <1>1, <1>2, <1>3 DEF FindingsOfProvenance, KeptBy
<1> QED BY <1>4 DEF u

LEMMA ExcuseLeak ==
  ASSUME NEW t, NEW x \in Excuses
  PROVE  KeptBy(x, Without(t, x), "spec_leak", FindingsOfLeak(Without(t, x)), FindingsOfLeak(t))
<1> DEFINE u == Without(t, x)
<1>1. x = "leak_allowed" => \A f : MayExcuse(x, u, "spec_leak", f)
  BY MayExcuseCases
<1>2. x # "leak_allowed" => ("leak_allowed" \in u.facts <=> "leak_allowed" \in t.facts)
  BY WithoutKeeps
<1>3. Marked(u, "LEAK", LeafFiles) = Marked(t, "LEAK", LeafFiles)
  BY WithoutKeeps
<1> HIDE DEF u
<1>4. KeptBy(x, u, "spec_leak", FindingsOfLeak(u), FindingsOfLeak(t))
  BY <1>1, <1>2, <1>3 DEF FindingsOfLeak, KeptBy
<1> QED BY <1>4 DEF u

LEMMA ExcuseLint ==
  ASSUME NEW t, NEW x \in Excuses, NEW a
  PROVE  KeptBy(x, Without(t, x), "lint", FindingsOfLint(Without(t, x), a), FindingsOfLint(t, a))
<1> DEFINE u == Without(t, x)
<1> SUFFICES ASSUME NEW f \in FindingsOfLint(u, a), ~MayExcuse(x, u, "lint", f), f.bucket # "report"
             PROVE  f \in FindingsOfLint(t, a)
  BY DEF KeptBy
<1>1. x # "private"
  BY MayExcuseCases
<1>2. IsPrivate(u) <=> IsPrivate(t)
  BY <1>1, ExcuseLegacy
<1>3. /\ \A r, files : Marked(u, r, files) = Marked(t, r, files)
      /\ \A rules, files : FindEach(u, rules, files) = FindEach(t, rules, files)
      /\ DiscoveredFiles(u) = DiscoveredFiles(t)
  BY WithoutKeeps, ExcuseKeeps
<1>4. f \in StubFindings(u) => f \in StubFindings(t)
  <2>1. CASE f \in {Finding(r, "lists") : r \in {"BLACKBOX_SCHEMA", "BLACKBOX_KIND"} \cap u.facts}
    <3>1. {"BLACKBOX_SCHEMA", "BLACKBOX_KIND"} \cap u.facts =
          {"BLACKBOX_SCHEMA", "BLACKBOX_KIND"} \cap t.facts
      <4>1. {"BLACKBOX_SCHEMA", "BLACKBOX_KIND"} \cap Excuses = {}
        BY DEF Excuses
      <4> QED BY <4>1, ExcuseSets
    <3> QED BY <2>1, <3>1 DEF StubFindings
  <2>2. ASSUME NEW g \in Marked(u, "looks_like_stub", Netlists),
               ~IsHandwritten(u, g), ~IsStubListed(u), f = Finding("STUB_UNLISTED", g)
        PROVE  f \in StubFindings(t)
    <3>1. x # "blackbox" /\ (x = "handwritten" => g # "product")
      BY <2>2, MayExcuseCases DEF Finding
    <3>2. ~IsStubListed(t)
      BY <2>2, <3>1, ExcuseLegacy
    <3>3. ~IsHandwritten(t, g)
      <4>1. CASE x = "handwritten"
        BY <3>1, <4>1 DEF IsHandwritten
      <4>2. CASE x # "handwritten"
        BY <2>2, <4>2, ExcuseLegacy
      <4> QED BY <4>1, <4>2
    <3> QED BY <1>3, <2>2, <3>2, <3>3 DEF StubFindings
  <2>3. \A g : Report("STUB_TIMING", g).bucket = "report"
    BY DEF Report
  <2> HIDE DEF u
  <2> QED BY <2>1, <2>2, <2>3 DEF StubFindings
<1>5. f \in OneModuleFindings(u, a) => f \in OneModuleFindings(t, a)
  BY <1>3 DEF OneModuleFindings
<1>6. f \in FindingsOfLint(u, a)
  OBVIOUS
<1> HIDE DEF u
<1> QED BY <1>2, <1>3, <1>4, <1>5, <1>6 DEF FindingsOfLint

LEMMA ExcuseSynth ==
  ASSUME NEW t, NEW x \in Excuses
  PROVE  KeptBy(x, Without(t, x), "synth", FindingsOfSynth(Without(t, x)), FindingsOfSynth(t))
<1> DEFINE u == Without(t, x)
<1> SUFFICES ASSUME NEW f \in FindingsOfSynth(u), ~MayExcuse(x, u, "synth", f), f.bucket # "report"
             PROVE  f \in FindingsOfSynth(t)
  BY DEF KeptBy
<1>1. x \notin {"private", "blackbox", "placeholder", "large"}
  BY MayExcuseCases
<1>2. /\ IsPrivate(u) <=> IsPrivate(t)
      /\ IsStubListed(u) <=> IsStubListed(t)
      /\ IsPlaceholder(u) <=> IsPlaceholder(t)
      /\ IsLargeMem(u) <=> IsLargeMem(t)
  BY <1>1, ExcuseLegacy
<1>3. /\ \A rules, files : FindEach(u, rules, files) = FindEach(t, rules, files)
      /\ DiscoveredFiles(u) = DiscoveredFiles(t)
  BY WithoutKeeps, ExcuseKeeps
<1>4. f \in FindingsOfSynth(u)
  OBVIOUS
<1> HIDE DEF u
<1>5. SynthUnits(u) = SynthUnits(t)
  BY <1>2, <1>3 DEF SynthUnits
<1> QED BY <1>2, <1>3, <1>4, <1>5 DEF FindingsOfSynth

LEMMA ExcuseCdc ==
  ASSUME NEW t, NEW x \in Excuses
  PROVE  KeptBy(x, Without(t, x), "cdc", FindingsOfCdc(Without(t, x)), FindingsOfCdc(t))
<1> DEFINE u == Without(t, x)
           units == DiscoveredFiles(t)
<1> SUFFICES ASSUME NEW f \in FindingsOfCdc(u), ~MayExcuse(x, u, "cdc", f)
             PROVE  f \in FindingsOfCdc(t)
  BY DEF KeptBy
<1>1. x # "placeholder"
  BY MayExcuseCases
<1>2. ~IsPlaceholder(u) /\ ~IsPlaceholder(t)
  <2>1. ~IsPlaceholder(u)
    BY DEF FindingsOfCdc
  <2> QED BY <1>1, <2>1, ExcuseLegacy
<1>3. /\ \A rules, files : FindEach(u, rules, files) = FindEach(t, rules, files)
      /\ DiscoveredFiles(u) = units
      /\ u.facts = t.facts \ {x}
  BY WithoutKeeps, ExcuseKeeps
<1>4. f \in FindingsOfCdc(u)
  OBVIOUS
<1>5. \A rules, files : \A g \in FindEach(t, rules, files) : g.rule \in rules
  BY DEF FindEach, Finding
<1>6. /\ x = "handwritten" => f.rule \notin ResetRules
      /\ x \in {"blackbox", "valid_outside"} => f.rule # "RDC_UNRESET_ARRAY"
  BY MayExcuseCases
<1> HIDE DEF u, units
<1>7. CASE f \in FindEach(t, ClockRules, units)
  BY <1>2, <1>7 DEF FindingsOfCdc, units
<1>8. CASE "handwritten" \notin u.facts /\ f \in FindEach(t, ResetRules, units)
  <2>1. x # "handwritten"
    BY <1>5, <1>6, <1>8
  <2> QED BY <1>2, <1>3, <1>8, <2>1 DEF FindingsOfCdc, units
<1>9. CASE ~({"blackbox", "valid_outside"} \subseteq u.facts)
           /\ f \in FindEach(t, {"RDC_UNRESET_ARRAY"}, units)
  <2>1. x \notin {"blackbox", "valid_outside"}
    BY <1>5, <1>6, <1>9
  <2>2. ~({"blackbox", "valid_outside"} \subseteq t.facts)
    BY <1>3, <1>9, <2>1
  <2> QED BY <1>2, <1>9, <2>2 DEF FindingsOfCdc, units
<1> QED BY <1>2, <1>3, <1>4, <1>7, <1>8, <1>9 DEF FindingsOfCdc

LEMMA ExcuseFindings ==
  ASSUME NEW t, NEW x \in Excuses \cap t.facts, NEW a, NEW job \in JobNames
  PROVE  KeptBy(x, Without(t, x), job, FindingsOf(job, Without(t, x), a), FindingsOf(job, t, a))
<1> DEFINE u == Without(t, x)
           Kept(j) == KeptBy(x, u, j, FindingsOf(j, u, a), FindingsOf(j, t, a))
<1>1. Kept("spec_leak") /\ Kept("contract") /\ Kept("regmap")
  <2>1. KeptBy(x, u, "spec_leak", FindingsOfLeak(u), FindingsOfLeak(t))
    BY ExcuseLeak
  <2>2. \A S, j : KeptBy(x, u, j, S, S)
    BY DEF KeptBy
  <2>3. FindingsOfContract(u, a) = FindingsOfContract(t, a) /\ FindingsOfRegmap(u) = FindingsOfRegmap(t)
    BY ExcuseContract, ExcuseRegmap
  <2> HIDE DEF u
  <2> QED BY <2>1, <2>2, <2>3, FindingsByJob
<1>2. Kept("emit") /\ Kept("equiv")
  BY ExcuseEmit, ExcuseEquivJob, FindingsByJob
<1>3. Kept("provenance") /\ Kept("hooks_ports")
  BY ExcuseProvenance, ExcuseHooks, FindingsByJob
<1>4. Kept("lint") /\ Kept("synth") /\ Kept("cdc")
  BY ExcuseLint, ExcuseSynth, ExcuseCdc, FindingsByJob
<1>5. Kept("formal") /\ Kept("tb")
  BY DEF KeptBy, FindingsOf
<1> HIDE DEF Kept
<1>6. Kept(job)
  BY <1>1, <1>2, <1>3, <1>4, <1>5, JobList
<1> QED BY <1>6 DEF Kept

LEMMA FindingsPass ==
  ASSUME NEW t, NEW a, NEW job \in JobNames, ~Fails(job, t, a),
         NEW f \in FindingsOf(job, t, a) \cup LockFindings(t)
  PROVE  f \notin Blocking(t, Waivers, job, FindingsOf(job, t, a))
<1>1. CASE job = "formal"
  <2>1. FindingsOf("formal", t, a) = {}
    BY DEF FindingsOf
  <2>2. Blocking(t, Waivers, "formal", BindFindings(t)) = {}
    BY <1>1, Zenon DEF Fails, FormalFails, BindsPass
  <2> QED BY <1>1, <2>1, <2>2 DEF Blocking
<1>2. CASE job # "formal"
  BY <1>2 DEF Fails
<1> QED BY <1>1, <1>2

LEMMA ExcusedOnly ==
  ASSUME NEW t, NEW a, NEW job \in JobNames, ~Fails(job, t, a),
         NEW x \in Excuses \cap t.facts,
         NEW f \in Blocking(Without(t, x), Waivers, job, FindingsOf(job, Without(t, x), a))
  PROVE  MayExcuse(x, Without(t, x), job, f)
<1> DEFINE u == Without(t, x)
<1> SUFFICES ASSUME ~MayExcuse(x, u, job, f) PROVE FALSE
  OBVIOUS
<1>1. /\ f \in FindingsOf(job, u, a) \cup LockFindings(u)
      /\ BucketOf(u, job, f) = "new" /\ ~Waived(Waivers, job, f) /\ ~Deleted(u, f)
  BY DEF Blocking
<1>2. f.bucket # "report"
  BY <1>1 DEF BucketOf
<1>3. f \in FindingsOf(job, t, a) \cup LockFindings(t)
  <2>1. LockFindings(u) = LockFindings(t)
    BY ExcuseKeeps
  <2>2. f \in FindingsOf(job, u, a) => f \in FindingsOf(job, t, a)
    <3>1. KeptBy(x, u, job, FindingsOf(job, u, a), FindingsOf(job, t, a))
      BY ExcuseFindings
    <3> HIDE DEF u
    <3>2. ~MayExcuse(x, u, job, f)
      BY DEF u
    <3> QED BY <1>2, <3>1, <3>2 DEF KeptBy
  <2> QED BY <1>1, <2>1, <2>2
<1>4. job = "spec_leak" => Exists(t, f.file)
  <2>1. f \in FindingsOfLeak(t) => Exists(t, f.file)
    <3>1. f \in FindingsOfLeak(t) =>
            \E g \in LeafFiles : Exists(t, g) /\ f = Finding("LEAK", g)
      BY DEF FindingsOfLeak, Marked
    <3>2. \A g : Finding("LEAK", g).file = g
      BY DEF Finding
    <3> QED BY <3>1, <3>2
  <2>2. f \in LockFindings(t) => f.file = "lists"
    BY DEF LockFindings, Finding
  <2>3. "lists" \notin LeafFiles
    BY DEF LeafFiles
  <2> QED BY <1>3, <2>1, <2>2, <2>3, FindingsByJob DEF Exists
<1>5. BucketOf(t, job, f) = "new" /\ ~Deleted(t, f)
  BY <1>1, <1>4, ExcuseClasses
<1>6. f \in Blocking(t, Waivers, job, FindingsOf(job, t, a))
  BY <1>1, <1>3, <1>5 DEF Blocking
<1> QED BY <1>3, <1>6, FindingsPass

(***************************************************************************)
(* Whatever tree passed: take one entry of one list away, and all that     *)
(* then blocks is what that entry may excuse.                              *)
(***************************************************************************)
THEOREM GateListsExcuseOnlyTheirs == Spec => []ListsExcuseOnlyTheirs
<1>1. AllJobsPassed => ListsExcuseOnlyTheirs
  <2> SUFFICES ASSUME AllJobsPassed, verdict = "PASS",
                      NEW x \in tree.facts \cap Excusing, NEW job \in JobNames,
                      NEW f \in Blocking(Without(tree, x), Waivers, job,
                                 FindingsOf(job, Without(tree, x), JobAway(mode, job, away)))
               PROVE  MayExcuse(x, Without(tree, x), job, f)
    BY DEF ListsExcuseOnlyTheirs
  <2>1. ~Fails(job, tree, JobAway(mode, job, away))
    BY DEF AllJobsPassed, Passes
  <2>2. x \in Excuses \cap tree.facts
    BY ExcusesAre
  <2> QED BY <2>1, <2>2, ExcusedOnly
<1> QED BY <1>1, GatePassIsAllJobs, PTL

-----------------------------------------------------------------------------
(***************************************************************************)
(* Two trees whose files are in the same lists, and a finding of the one   *)
(* that cannot be let through unless a finding of the other is.            *)
(***************************************************************************)
SameLists(u, t) ==
  /\ \A f : IsHandwritten(u, f) <=> IsHandwritten(t, f)
  /\ \A f : IsMigrate(u, f) <=> IsMigrate(t, f)
  /\ \A f : IsLegacy(u, f) <=> IsLegacy(t, f)
  /\ \A f : ~Exists(u, f) /\ OnRoster(u, f) <=> ~Exists(t, f) /\ OnRoster(t, f)
  /\ LockFindings(u) \subseteq LockFindings(t)

Stands(g, f) ==
  \/ f = g
  \/ /\ f.file = g.file
     /\ g.bucket # "report"
     /\ {f.rule, g.rule} \cap AlwaysNew = {}
     /\ \A job : ~Waived(Waivers, job, g)

Covers(found, other) ==
  \A f \in other : f.bucket = "report" \/ \E g \in found : Stands(g, f)

LEMMA CoveredPasses ==
  ASSUME NEW t, NEW u, SameLists(u, t), NEW check, NEW found, NEW other,
         Blocking(t, Waivers, check, found) = {}, Covers(found, other)
  PROVE  Blocking(u, Waivers, check, other) = {}
<1> SUFFICES ASSUME NEW f \in Blocking(u, Waivers, check, other) PROVE FALSE
  OBVIOUS
<1>1. /\ f \in other \cup LockFindings(u)
      /\ BucketOf(u, check, f) = "new" /\ ~Waived(Waivers, check, f) /\ ~Deleted(u, f)
  BY DEF Blocking
<1>2. \A g : BucketOf(u, check, g) = BucketOf(t, check, g) /\ (Deleted(u, g) <=> Deleted(t, g))
  BY DEF SameLists, BucketOf, Deleted
<1>3. f.bucket # "report"
  BY <1>1 DEF BucketOf
<1>4. PICK g \in found \cup LockFindings(t) : Stands(g, f)
  BY <1>1, <1>3 DEF Covers, SameLists, Stands
<1>5. g \notin Blocking(t, Waivers, check, found)
  OBVIOUS
<1>6. CASE f = g
  BY <1>1, <1>2, <1>4, <1>5, <1>6 DEF Blocking
<1>7. CASE f # g
  <2>1. BucketOf(t, check, g) = "new" /\ ~Deleted(t, g)
    BY <1>1, <1>2, <1>3, <1>4, <1>7 DEF Stands, BucketOf, Deleted
  <2>2. ~Waived(Waivers, check, g)
    BY <1>4, <1>7 DEF Stands
  <2> QED BY <1>4, <1>5, <2>1, <2>2 DEF Blocking
<1> QED BY <1>6, <1>7

LEMMA SubsetCovers ==
  ASSUME NEW found, NEW other, \A f \in other : f.bucket = "report" \/ f \in found
  PROVE  Covers(found, other)
  BY DEF Covers, Stands

LEMMA CoversUnion ==
  ASSUME NEW F, NEW G, NEW H, Covers(F, H), Covers(F, G)
  PROVE  Covers(F, H \cup G)
  BY DEF Covers

LEMMA CoversMore ==
  ASSUME NEW F, NEW G, NEW H, Covers(F, H), F \subseteq G
  PROVE  Covers(G, H)
  BY DEF Covers

(***************************************************************************)
(* What no waiver lets through.                                            *)
(***************************************************************************)
LEMMA NeverWaived ==
  ASSUME NEW r, r \notin UnitRules \cup SynthRules, NEW file
  PROVE  \A job : ~Waived(Waivers, job, Finding(r, file))
  BY WaivedIsContent

(***************************************************************************)
(* A tree with a defect less: the lists, and what hides rather than shows  *)
(* a defect, are as they were.                                             *)
(***************************************************************************)
KeptFacts ==
  Excuses \cup
  {"hooks_renamed", "netlists_renewed", "dirty", "no_sby", "no_regmap", "no_gen_regmap",
   "pyc_lib_gone", "no_origin_mark", "REGMAP_YAML_INVALID"}

Better(u, t) ==
  /\ u.facts \subseteq t.facts
  /\ u.marks \subseteq t.marks
  /\ \A y \in KeptFacts : y \in u.facts <=> y \in t.facts
  /\ "hooks_extra" \in t.facts => "hooks_extra" \in u.facts \/ ~HooksRow(t)
  /\ "source_changed" \in t.facts =>
       "source_changed" \in u.facts \/ {"dirty", "netlists_renewed"} \cap t.facts = {}
  /\ \A f : Exists(u, f) <=> Exists(t, f)
  /\ \A f : IsLegacy(u, f) <=> IsLegacy(t, f)

LEMMA BetterLists ==
  ASSUME NEW t, NEW u, Better(u, t)
  PROVE  /\ \A f : Exists(u, f) <=> Exists(t, f)
         /\ \A f : IsHandwritten(u, f) <=> IsHandwritten(t, f)
         /\ \A f : IsLegacy(u, f) <=> IsLegacy(t, f)
         /\ IsPlaceholder(u) <=> IsPlaceholder(t)
         /\ IsPrivate(u) <=> IsPrivate(t)
         /\ IsStubListed(u) <=> IsStubListed(t)
         /\ IsLargeMem(u) <=> IsLargeMem(t)
         /\ HooksRow(u) <=> HooksRow(t)
         /\ DiscoveredFiles(u) = DiscoveredFiles(t)
         /\ IsLeafPair(u) <=> IsLeafPair(t)
         /\ EquivRoute(u) = EquivRoute(t)
         /\ SameLists(u, t)
<1>1. /\ \A f : Exists(u, f) <=> Exists(t, f)
      /\ \A f : IsLegacy(u, f) <=> IsLegacy(t, f)
      /\ \A y \in Excuses \cup {"hooks_renamed"} : y \in u.facts <=> y \in t.facts
  BY DEF Better, KeptFacts
<1>2. /\ \A f : IsHandwritten(u, f) <=> IsHandwritten(t, f)
      /\ \A f : IsMigrate(u, f) <=> IsMigrate(t, f)
      /\ IsPlaceholder(u) <=> IsPlaceholder(t)
      /\ IsPrivate(u) <=> IsPrivate(t)
      /\ IsStubListed(u) <=> IsStubListed(t)
      /\ IsLargeMem(u) <=> IsLargeMem(t)
      /\ HooksRow(u) <=> HooksRow(t)
  BY <1>1 DEF Excuses, IsHandwritten, IsMigrate, IsPlaceholder, IsPrivate, IsStubListed,
     IsLargeMem, HooksRow
<1>3. \A f : OnRoster(u, f) <=> OnRoster(t, f)
  BY <1>1 DEF Excuses, OnRoster
<1>4. DiscoveredFiles(u) = DiscoveredFiles(t)
  BY <1>1 DEF DiscoveredFiles
<1>5. IsLeafPair(u) <=> IsLeafPair(t)
  BY <1>1, <1>2 DEF IsLeafPair
<1>6. EquivRoute(u) = EquivRoute(t)
  BY <1>1, <1>2, <1>5 DEF EquivRoute
<1>7. LockFindings(u) \subseteq LockFindings(t)
  BY DEF LockFindings, Better
<1>8. SameLists(u, t)
  BY <1>1, <1>2, <1>3, <1>7 DEF SameLists
<1> QED BY <1>1, <1>2, <1>4, <1>5, <1>6, <1>8

LEMMA BetterMarks ==
  ASSUME NEW t, NEW u, Better(u, t)
  PROVE  /\ \A r, files : Marked(u, r, files) \subseteq Marked(t, r, files)
         /\ \A rules, files : FindEach(u, rules, files) \subseteq FindEach(t, rules, files)
         /\ \A f : LooksGenerated(t, f) => LooksGenerated(u, f)
         /\ \A a : PortsUnreadable(u, a) => PortsUnreadable(t, a)
<1>1. u.marks \subseteq t.marks /\ \A f : Exists(u, f) <=> Exists(t, f)
  BY DEF Better
<1>2. \A r, files : Marked(u, r, files) \subseteq Marked(t, r, files)
  BY <1>1 DEF Marked
<1>3. \A rules, files : FindEach(u, rules, files) \subseteq FindEach(t, rules, files)
  BY <1>1 DEF FindEach
<1>4. \A f : LooksGenerated(t, f) => LooksGenerated(u, f)
  BY <1>1 DEF LooksGenerated
<1>5. \A a : PortsUnreadable(u, a) => PortsUnreadable(t, a)
  BY <1>2 DEF PortsUnreadable
<1> QED BY <1>2, <1>3, <1>4, <1>5


(***************************************************************************)
(* The rules of the port comparison, one by one.                           *)
(***************************************************************************)
HooksPortRules ==
  {"HOOKS_PORT_MISMATCH", "HOOKS_PORT_UNEXPECTED",
   "HOOKS_PORT_BAD_NAME", "HOOKS_PORT_DIR", "HOOKS_PORT_WIDTH"}

PortRuleApplies(t, q) ==
  \/ q = "HOOKS_PORT_MISMATCH" /\ NamesDiffer(t)
  \/ /\ q = "HOOKS_PORT_UNEXPECTED"
     /\ ~HooksRow(t)
     /\ {"hooks_extra", "product_tb"} \cap t.facts # {}
  \/ q = "HOOKS_PORT_BAD_NAME" /\ HooksRow(t) /\ "bad_style" \in t.facts
  \/ q = "HOOKS_PORT_DIR" /\ HooksRow(t) /\ "obs_input" \in t.facts
  \/ /\ HooksRow(t) \/ ~NamesDiffer(t)
     /\ \/ q = "HOOKS_PORT_DIR"   /\ "port_dir" \in t.facts
        \/ q = "HOOKS_PORT_WIDTH" /\ "port_width" \in t.facts

LEMMA PortFindingsByRule ==
  ASSUME NEW t, NEW f
  PROVE  f \in PortFindings(t) <=>
           \/ "product_tb" \in t.facts /\ f = Finding("HOOKS_PORT_ON_PRODUCT", "product")
           \/ \E q \in HooksPortRules : PortRuleApplies(t, q) /\ f = Finding(q, "hooks")
<1>1. PortFindings(t) =
        {Finding("HOOKS_PORT_ON_PRODUCT", "product") : y \in {"product_tb"} \cap t.facts} \cup
        {Finding(r, "hooks") : r \in {q \in HooksPortRules : PortRuleApplies(t, q)}}
  BY Zenon DEF PortFindings, PortRuleApplies, HooksPortRules
<1> QED BY <1>1

LEMMA BetterPorts ==
  ASSUME NEW t, NEW u, Better(u, t)
  PROVE  Covers(PortFindings(t), PortFindings(u))
<1> SUFFICES ASSUME NEW f \in PortFindings(u)
             PROVE  \E g \in PortFindings(t) : Stands(g, f)
  BY DEF Covers
<1>1. /\ u.facts \subseteq t.facts
      /\ HooksRow(u) <=> HooksRow(t)
      /\ "hooks_extra" \in t.facts => "hooks_extra" \in u.facts \/ ~HooksRow(t)
  BY BetterLists DEF Better
<1>2. NamesDiffer(u) => NamesDiffer(t)
  <2>1. HooksRow(u) = HooksRow(t) /\ HooksRow(t) \in BOOLEAN
    BY <1>1 DEF HooksRow
  <2>2. CASE ("hooks_extra" \in u.facts) = ("hooks_extra" \in t.facts)
    BY <1>1, <2>1, <2>2 DEF NamesDiffer
  <2>3. CASE "hooks_extra" \notin u.facts /\ "hooks_extra" \in t.facts
    BY <1>1, <2>1, <2>3 DEF NamesDiffer
  <2> QED BY <1>1, <2>2, <2>3
<1>3. f \in PortFindings(t) => \E g \in PortFindings(t) : Stands(g, f)
  BY DEF Stands
<1>4. CASE "product_tb" \in u.facts /\ f = Finding("HOOKS_PORT_ON_PRODUCT", "product")
  BY <1>1, <1>3, <1>4, PortFindingsByRule
<1>5. ASSUME NEW q \in HooksPortRules, PortRuleApplies(u, q), f = Finding(q, "hooks")
      PROVE  \E g \in PortFindings(t) : Stands(g, f)
  <2>1. CASE PortRuleApplies(t, q)
    BY <1>3, <1>5, <2>1, PortFindingsByRule
  <2>2. CASE ~PortRuleApplies(t, q)
    <3> DEFINE g == Finding("HOOKS_PORT_MISMATCH", "hooks")
    <3>1. NamesDiffer(t) /\ q \in {"HOOKS_PORT_DIR", "HOOKS_PORT_WIDTH"}
      BY <1>1, <1>2, <1>5, <2>2 DEF PortRuleApplies
    <3>2. g \in PortFindings(t)
      BY <3>1, PortFindingsByRule DEF PortRuleApplies, HooksPortRules
    <3>3. \A job : ~Waived(Waivers, job, g)
      BY NeverWaived DEF UnitRules, SynthRules, ClockRules, ResetRules
    <3>4. Stands(g, f)
      BY <1>5, <3>1, <3>3 DEF Stands, Finding, AlwaysNew
    <3> QED BY <3>2, <3>4
  <2> QED BY <2>1, <2>2
<1>6. \/ "product_tb" \in u.facts /\ f = Finding("HOOKS_PORT_ON_PRODUCT", "product")
      \/ \E q \in HooksPortRules : PortRuleApplies(u, q) /\ f = Finding(q, "hooks")
  BY PortFindingsByRule
<1> QED BY <1>4, <1>5, <1>6

LEMMA BetterHooks ==
  ASSUME NEW t, NEW u, Better(u, t)
  PROVE  /\ Covers(FindingsOfHooks(t), FindingsOfHooks(u))
         /\ HooksCompared(u) <=> HooksCompared(t)
<1>1. /\ \A f : Exists(u, f) <=> Exists(t, f)
      /\ HooksSkipped(u) <=> HooksSkipped(t)
  BY BetterLists DEF HooksSkipped
<1>2. HooksCompared(u) <=> HooksCompared(t)
  BY <1>1 DEF HooksCompared
<1>3. CASE ~HooksSkipped(u) /\ Exists(u, "hooks")
  <2>1. FindingsOfHooks(u) = PortFindings(u) /\ FindingsOfHooks(t) = PortFindings(t)
    BY <1>1, <1>3 DEF FindingsOfHooks
  <2>2. Covers(PortFindings(t), PortFindings(u))
    BY BetterPorts
  <2> QED BY <1>2, <2>1, <2>2
<1>4. CASE HooksSkipped(u) \/ ~Exists(u, "hooks")
  <2>1. FindingsOfHooks(u) = FindingsOfHooks(t)
    BY <1>1, <1>4 DEF FindingsOfHooks
  <2> QED BY <1>2, <2>1, SubsetCovers
<1> QED BY <1>2, <1>3, <1>4

LEMMA BetterEquiv ==
  ASSUME NEW t, NEW u, Better(u, t)
  PROVE  Covers(EquivFindings(t), EquivFindings(u))
<1>1. EquivRoute(u) = EquivRoute(t)
  BY BetterLists
<1>2. EquivProven(t) => EquivProven(u)
  BY DEF Better, EquivProven, ProvenByInduction, OutputUnproven, HoldsFor16Cycles, PortsClash
<1>3. BodiesDiffer(u) => BodiesDiffer(t)
  BY DEF Better, BodiesDiffer
<1>4. CASE EquivRoute(t) = "large"
  <2>1. /\ EquivFindings(u) = PortFindings(u) \cup
              (IF BodiesDiffer(u) THEN {Finding("CMN_MEM_BODY_DIFF", "product")} ELSE {})
        /\ EquivFindings(t) = PortFindings(t) \cup
              (IF BodiesDiffer(t) THEN {Finding("CMN_MEM_BODY_DIFF", "product")} ELSE {})
    BY <1>1, <1>4 DEF EquivFindings
  <2>2. Covers(EquivFindings(t), PortFindings(u))
    BY <2>1, BetterPorts, CoversMore
  <2>3. Covers(EquivFindings(t), IF BodiesDiffer(u) THEN {Finding("CMN_MEM_BODY_DIFF", "product")}
                                 ELSE {})
    BY <1>3, <2>1, SubsetCovers
  <2> QED BY <2>1, <2>2, <2>3, CoversUnion
<1>5. CASE EquivRoute(t) = "compare"
  <2>1. /\ EquivFindings(u) = IF EquivProven(u) THEN {} ELSE {Finding("EQUIV_FAIL", "product")}
        /\ EquivFindings(t) = IF EquivProven(t) THEN {} ELSE {Finding("EQUIV_FAIL", "product")}
    BY <1>1, <1>5 DEF EquivFindings
  <2> QED BY <1>2, <2>1, SubsetCovers
<1>6. CASE EquivRoute(t) \notin {"large", "compare"}
  <2>1. EquivFindings(u) = EquivFindings(t)
    BY <1>1, <1>6 DEF EquivFindings
  <2> QED BY <2>1, SubsetCovers
<1> QED BY <1>4, <1>5, <1>6

(***************************************************************************)
(* What a repaired tree shows of a tree: no fact and no mark that the tree *)
(* does not show, the files the tree has, and of a file that has come back *)
(* nothing.                                                                *)
(***************************************************************************)
Milder(u, t) ==
  /\ u.facts \subseteq t.facts
  /\ \A y \in KeptFacts : y \in u.facts <=> y \in t.facts
  /\ "private_yml_bad" \notin t.facts
  /\ SameLists(u, t)
  /\ \A r, f : <<r, f>> \in u.marks /\ Exists(u, f) =>
                 /\ <<r, f>> \in t.marks /\ Exists(t, f)
                 /\ f \in DiscoveredFiles(u) => f \in DiscoveredFiles(t)
  /\ Exists(u, "source") <=> Exists(t, "source")
  /\ Exists(t, "source") \/ (Exists(u, "product") <=> Exists(t, "product"))
  /\ IsLargeMem(t) /\ Exists(u, "product") => Exists(t, "product")

LEMMA MilderExcuses ==
  ASSUME NEW t, NEW u, Milder(u, t)
  PROVE  /\ IsPlaceholder(u) <=> IsPlaceholder(t)
         /\ IsPrivate(u) <=> IsPrivate(t)
         /\ IsStubListed(u) <=> IsStubListed(t)
         /\ IsLargeMem(u) <=> IsLargeMem(t)
         /\ HooksRow(u) <=> HooksRow(t)
         /\ \A y \in {"handwritten", "blackbox", "valid_outside", "leak_allowed"} :
              y \in u.facts <=> y \in t.facts
         /\ \A f : IsHandwritten(u, f) <=> IsHandwritten(t, f)
  BY DEF Milder, SameLists, KeptFacts, Excuses, IsPlaceholder, IsPrivate, IsStubListed, IsLargeMem,
     HooksRow

LEMMA MilderMarks ==
  ASSUME NEW t, NEW u, Milder(u, t)
  PROVE  /\ \A r, files : Marked(u, r, files) \subseteq Marked(t, r, files)
         /\ \A rules, files : FindEach(u, rules, files) \subseteq FindEach(t, rules, files)
         /\ \A r : Marked(u, r, {"product"} \cap DiscoveredFiles(u))
                     \subseteq Marked(t, r, {"product"} \cap DiscoveredFiles(t))
         /\ \A rules : FindEach(u, rules, DiscoveredFiles(u))
                         \subseteq FindEach(t, rules, DiscoveredFiles(t))
         /\ \A rules : FindEach(u, rules, {"product"} \cap DiscoveredFiles(u))
                         \subseteq FindEach(t, rules, {"product"} \cap DiscoveredFiles(t))
<1>1. \A r, f : <<r, f>> \in u.marks /\ Exists(u, f) =>
                  /\ <<r, f>> \in t.marks /\ Exists(t, f)
                  /\ f \in DiscoveredFiles(u) => f \in DiscoveredFiles(t)
  BY DEF Milder
<1>2. \A r, files : Marked(u, r, files) \subseteq Marked(t, r, files)
  BY <1>1 DEF Marked
<1>3. \A r : Marked(u, r, {"product"} \cap DiscoveredFiles(u))
               \subseteq Marked(t, r, {"product"} \cap DiscoveredFiles(t))
  BY <1>1 DEF Marked
<1>4. ASSUME NEW rules, NEW files, NEW more,
             \A f \in files : Exists(u, f) => f \in more \/ \A r : <<r, f>> \notin u.marks
      PROVE  FindEach(u, rules, files) \subseteq FindEach(t, rules, more)
  <2> SUFFICES ASSUME NEW m \in rules \X files, Exists(u, m[2]), m \in u.marks
               PROVE  m \in rules \X more /\ Exists(t, m[2]) /\ m \in t.marks
    BY DEF FindEach
  <2>1. m = <<m[1], m[2]>> /\ m[1] \in rules /\ m[2] \in files
    OBVIOUS
  <2>2. m[2] \in more
    BY <1>4, <2>1
  <2>3. <<m[1], m[2]>> \in t.marks /\ Exists(t, m[2])
    BY <1>1, <2>1
  <2> QED BY <2>1, <2>2, <2>3
<1>5. \A rules, files : FindEach(u, rules, files) \subseteq FindEach(t, rules, files)
  BY <1>4
<1>6. \A f \in DiscoveredFiles(u) :
        Exists(u, f) => f \in DiscoveredFiles(t) \/ \A r : <<r, f>> \notin u.marks
  BY <1>1
<1>7. \A rules : FindEach(u, rules, DiscoveredFiles(u))
                   \subseteq FindEach(t, rules, DiscoveredFiles(t))
  BY <1>4, <1>6
<1>8. \A f \in {"product"} \cap DiscoveredFiles(u) :
        Exists(u, f) => f \in {"product"} \cap DiscoveredFiles(t) \/ \A r : <<r, f>> \notin u.marks
  BY <1>6
<1>9. \A rules : FindEach(u, rules, {"product"} \cap DiscoveredFiles(u))
                   \subseteq FindEach(t, rules, {"product"} \cap DiscoveredFiles(t))
  BY <1>4, <1>8
<1> QED BY <1>2, <1>3, <1>5, <1>7, <1>9

LEMMA MilderLeak ==
  ASSUME NEW t, NEW u, Milder(u, t)
  PROVE  Covers(FindingsOfLeak(t), FindingsOfLeak(u))
<1>1. /\ Marked(u, "LEAK", LeafFiles) \subseteq Marked(t, "LEAK", LeafFiles)
      /\ "leak_allowed" \in u.facts <=> "leak_allowed" \in t.facts
  BY MilderMarks, MilderExcuses
<1> QED BY <1>1, SubsetCovers DEF FindingsOfLeak

LEMMA MilderContract ==
  ASSUME NEW t, NEW u, Milder(u, t), NEW a
  PROVE  Covers(FindingsOfContract(t, a), FindingsOfContract(u, a))
<1>1. FindingsOfContract(u, a) \subseteq FindingsOfContract(t, a)
  BY DEF FindingsOfContract, Milder
<1> QED BY <1>1, SubsetCovers

LEMMA MilderPlaceholder ==
  ASSUME NEW t, NEW u, Milder(u, t)
  PROVE  PlaceholderFindings(u) \subseteq PlaceholderFindings(t)
<1>1. /\ IsPlaceholder(u) <=> IsPlaceholder(t)
      /\ "no_origin_mark" \in u.facts <=> "no_origin_mark" \in t.facts
      /\ Exists(u, "source") <=> Exists(t, "source")
      /\ Exists(t, "source") \/ (Exists(u, "product") <=> Exists(t, "product"))
      /\ Marked(u, "inst_placeholder", {"product"} \cap DiscoveredFiles(u))
           \subseteq Marked(t, "inst_placeholder", {"product"} \cap DiscoveredFiles(t))
  BY MilderExcuses, MilderMarks DEF Milder, KeptFacts
<1> QED BY <1>1 DEF PlaceholderFindings

LEMMA MilderProvenance ==
  ASSUME NEW t, NEW u, Milder(u, t), NEW a
  PROVE  Covers(FindingsOfProvenance(t, a), FindingsOfProvenance(u, a))
<1> DEFINE found == FindingsOfProvenance(t, a)
           rules == {"NO_PYCIRCUIT_IMPORT", "VERILOG_SPLICE"}
<1>1. /\ PlaceholderFindings(u) \subseteq PlaceholderFindings(t)
      /\ ImportRootFindings(u) \subseteq ImportRootFindings(t)
      /\ Marked(u, "PY_SYNTAX", {"source"}) \subseteq Marked(t, "PY_SYNTAX", {"source"})
      /\ FindEach(u, rules, {"source"}) \subseteq FindEach(t, rules, {"source"})
  <2>1. ImportRootFindings(u) \subseteq ImportRootFindings(t)
    BY DEF ImportRootFindings, Milder
  <2> QED BY <2>1, MilderPlaceholder, MilderMarks
<1>2. SUFFICES ASSUME NEW f \in FindingsOfProvenance(u, a)
               PROVE  f.bucket = "report" \/ \E g \in found : Stands(g, f)
  BY DEF Covers
<1>3. CASE Marked(t, "PY_SYNTAX", {"source"}) # {} /\ Marked(u, "PY_SYNTAX", {"source"}) = {}
           /\ f \in FindEach(u, rules, {"source"})
  <2> DEFINE g == Finding("PY_SYNTAX", "source")
  <2>1. g \in found
    BY <1>3 DEF FindingsOfProvenance
  <2>2. \A job : ~Waived(Waivers, job, g)
    BY NeverWaived DEF UnitRules, SynthRules, ClockRules, ResetRules
  <2>3. f.file = "source" /\ f.rule \in rules
    BY <1>3 DEF FindEach, Finding
  <2>4. Stands(g, f)
    BY <2>2, <2>3 DEF Stands, Finding, AlwaysNew
  <2> QED BY <2>1, <2>4
<1>4. CASE ~(Marked(t, "PY_SYNTAX", {"source"}) # {} /\ Marked(u, "PY_SYNTAX", {"source"}) = {}
             /\ f \in FindEach(u, rules, {"source"}))
  <2>1. f \in found
    <3> HIDE DEF rules
    <3> QED BY <1>1, <1>2, <1>4 DEF FindingsOfProvenance, rules
  <2> QED BY <2>1 DEF Stands
<1> QED BY <1>3, <1>4

LEMMA MilderLint ==
  ASSUME NEW t, NEW u, Milder(u, t), NEW a
  PROVE  Covers(FindingsOfLint(t, a), FindingsOfLint(u, a))
<1> DEFINE rest(x) == IF IsPrivate(x) THEN {Report("PRIVATE_SKIP", f) : f \in DiscoveredFiles(x)}
                      ELSE FindEach(x, {"LINT", "read_error"}, DiscoveredFiles(x))
<1>1. Covers(StubFindings(t), StubFindings(u))
  <2>1. /\ Marked(u, "looks_like_stub", Netlists) \subseteq Marked(t, "looks_like_stub", Netlists)
        /\ \A f : IsHandwritten(u, f) <=> IsHandwritten(t, f)
        /\ IsStubListed(u) <=> IsStubListed(t)
        /\ u.facts \subseteq t.facts
    BY MilderMarks, MilderExcuses DEF Milder
  <2>2. \A f \in StubFindings(u) : f.bucket = "report" \/ f \in StubFindings(t)
    BY <2>1 DEF StubFindings, Report
  <2> QED BY <2>2, SubsetCovers
<1>2. Covers(OneModuleFindings(t, a), OneModuleFindings(u, a))
  <2>1. \A r, files : Marked(u, r, files) \subseteq Marked(t, r, files)
    BY MilderMarks
  <2>2. OneModuleFindings(u, a) \subseteq OneModuleFindings(t, a)
    BY <2>1 DEF OneModuleFindings
  <2> QED BY <2>2, SubsetCovers
<1>3. Covers(rest(t), rest(u))
  <2>1. /\ IsPrivate(u) <=> IsPrivate(t)
        /\ FindEach(u, {"LINT", "read_error"}, DiscoveredFiles(u))
             \subseteq FindEach(t, {"LINT", "read_error"}, DiscoveredFiles(t))
    BY MilderMarks, MilderExcuses
  <2>2. \A f \in rest(u) : f.bucket = "report" \/ f \in rest(t)
    BY <2>1 DEF Report
  <2> QED BY <2>2, SubsetCovers
<1>4. \A x : FindingsOfLint(x, a) = StubFindings(x) \cup OneModuleFindings(x, a) \cup rest(x)
  BY DEF FindingsOfLint
<1> HIDE DEF rest
<1> QED BY <1>1, <1>2, <1>3, <1>4 DEF Covers

LEMMA MilderSynth ==
  ASSUME NEW t, NEW u, Milder(u, t)
  PROVE  Covers(FindingsOfSynth(t), FindingsOfSynth(u))
<1>1. /\ IsPlaceholder(u) <=> IsPlaceholder(t)
      /\ IsPrivate(u) <=> IsPrivate(t)
      /\ IsStubListed(u) <=> IsStubListed(t)
      /\ IsLargeMem(u) <=> IsLargeMem(t)
      /\ FindEach(u, SynthRules, {"product"} \cap DiscoveredFiles(u))
           \subseteq FindEach(t, SynthRules, {"product"} \cap DiscoveredFiles(t))
  BY MilderExcuses, MilderMarks
<1>2. SUFFICES ASSUME NEW f \in FindingsOfSynth(u), f.bucket # "report"
               PROVE  f \in FindingsOfSynth(t)
  BY SubsetCovers
<1>3. /\ ~IsPlaceholder(u) /\ ~IsPrivate(u) /\ ~IsStubListed(u) /\ ~IsLargeMem(u)
      /\ f \in FindEach(u, SynthRules, {"product"} \cap DiscoveredFiles(u))
  BY <1>2 DEF FindingsOfSynth, SynthUnits, Report
<1>4. f \in FindEach(t, SynthRules, {"product"} \cap DiscoveredFiles(t))
  BY <1>1, <1>3
<1>5. {"product"} \cap DiscoveredFiles(t) # {}
  BY <1>4 DEF FindEach
<1> QED BY <1>1, <1>3, <1>4, <1>5 DEF FindingsOfSynth, SynthUnits

LEMMA MilderCdc ==
  ASSUME NEW t, NEW u, Milder(u, t)
  PROVE  Covers(FindingsOfCdc(t), FindingsOfCdc(u))
<1>1. /\ IsPlaceholder(u) <=> IsPlaceholder(t)
      /\ "handwritten" \in u.facts <=> "handwritten" \in t.facts
      /\ {"blackbox", "valid_outside"} \subseteq u.facts <=>
           {"blackbox", "valid_outside"} \subseteq t.facts
      /\ \A rules : FindEach(u, rules, DiscoveredFiles(u))
                      \subseteq FindEach(t, rules, DiscoveredFiles(t))
  BY MilderExcuses, MilderMarks
<1>2. FindingsOfCdc(u) \subseteq FindingsOfCdc(t)
  BY <1>1 DEF FindingsOfCdc
<1> QED BY <1>2, SubsetCovers

LEMMA MilderRegmap ==
  ASSUME NEW t, NEW u, Milder(u, t)
  PROVE  Covers(FindingsOfRegmap(t), FindingsOfRegmap(u))
<1>1. /\ u.facts \subseteq t.facts
      /\ \A y \in {"no_regmap", "REGMAP_YAML_INVALID", "no_gen_regmap"} :
           y \in u.facts <=> y \in t.facts
  BY DEF Milder, KeptFacts
<1>2. FindingsOfRegmap(u) \subseteq FindingsOfRegmap(t)
  BY <1>1 DEF FindingsOfRegmap
<1> QED BY <1>2, SubsetCovers

LEMMA MilderLists ==
  ASSUME NEW t, NEW u, Milder(u, t), NEW a
  PROVE  /\ ImportRootFindings(u) \subseteq ImportRootFindings(t)
         /\ PycLibFindings(u, a) \subseteq PycLibFindings(t, a)
         /\ \A verify : ManifestFindings(u, verify) \subseteq ManifestFindings(t, verify)
<1>1. /\ u.facts \subseteq t.facts
      /\ "pyc_lib_gone" \in u.facts <=> "pyc_lib_gone" \in t.facts
      /\ IsLargeMem(u) <=> IsLargeMem(t)
      /\ \A f : IsHandwritten(u, f) <=> IsHandwritten(t, f)
      /\ IsLargeMem(t) /\ Exists(u, "product") => Exists(t, "product")
  BY MilderExcuses DEF Milder, KeptFacts
<1>2. ImportRootFindings(u) \subseteq ImportRootFindings(t)
  BY <1>1 DEF ImportRootFindings
<1>3. PycLibFindings(u, a) \subseteq PycLibFindings(t, a)
  BY <1>1 DEF PycLibFindings
<1>4. \A verify : ManifestFindings(u, verify) \subseteq ManifestFindings(t, verify)
  BY <1>1 DEF ManifestFindings
<1> QED BY <1>2, <1>3, <1>4

LEMMA MilderFormal ==
  ASSUME NEW t, NEW u, Milder(u, t), NEW a, ~FormalFails(t, a)
  PROVE  ~FormalFails(u, a)
<1>1. /\ u.facts \subseteq t.facts
      /\ SameLists(u, t)
      /\ "no_sby" \in u.facts <=> "no_sby" \in t.facts
      /\ "private_yml_bad" \notin u.facts /\ "private_yml_bad" \notin t.facts
      /\ IsPrivate(u) <=> IsPrivate(t)
  BY MilderExcuses DEF Milder, KeptFacts
<1>2. BindsPass(u)
  <2>1. BindFindings(u) \subseteq BindFindings(t)
    BY <1>1 DEF BindFindings
  <2>2. Covers(BindFindings(t), BindFindings(u))
    BY <2>1, SubsetCovers
  <2>3. Blocking(t, Waivers, "formal", BindFindings(t)) = {}
    BY DEF FormalFails, BindsPass
  <2>4. Blocking(u, Waivers, "formal", BindFindings(u)) = {}
    BY <1>1, <2>2, <2>3, CoveredPasses
  <2> QED BY <2>4 DEF BindsPass
<1>3. SbyListed(u) <=> SbyListed(t)
  BY <1>1 DEF SbyListed
<1>4. CASE SbyListed(t)
  <2>1. /\ "sby" \notin a /\ "sby_fails" \notin t.facts
        /\ Blocking(t, Waivers, "formal_depth", DepthFindings(t, "absent")) = {}
        /\ Blocking(t, Waivers, "formal_parent_free", ParentFreeFindings(t, a)) = {}
    BY <1>4 DEF FormalFails
  <2>2. Covers(DepthFindings(t, "absent"), DepthFindings(u, "absent"))
    <3>1. \A f \in DepthFindings(u, "absent") : f.bucket = "report"
      BY DEF DepthFindings, Report
    <3> QED BY <3>1 DEF Covers
  <2>3. Covers(ParentFreeFindings(t, a), ParentFreeFindings(u, a))
    <3>1. ParentFreeFindings(u, a) \subseteq ParentFreeFindings(t, a)
      BY <1>1 DEF ParentFreeFindings
    <3> QED BY <3>1, SubsetCovers
  <2>4. Blocking(u, Waivers, "formal_depth", DepthFindings(u, "absent")) = {}
    BY <1>1, <2>1, <2>2, CoveredPasses
  <2>5. Blocking(u, Waivers, "formal_parent_free", ParentFreeFindings(u, a)) = {}
    BY <1>1, <2>1, <2>3, CoveredPasses
  <2> QED BY <1>1, <1>2, <2>1, <2>4, <2>5 DEF FormalFails
<1> QED BY <1>2, <1>3, <1>4 DEF FormalFails

(***************************************************************************)
(* What the jobs that look at both netlists, or at a netlist and what is   *)
(* emitted again, need of a repaired tree besides.                         *)
(***************************************************************************)
Follows(u, t, a) ==
  /\ Milder(u, t)
  /\ Covers(EquivFindings(t), EquivFindings(u))
  /\ ComparesPorts(u) => ComparesPorts(t)
  /\ Covers(FindingsOfHooks(t), FindingsOfHooks(u))
  /\ HooksCompared(u) => HooksCompared(t)
  /\ UnlistedFindings(u) \subseteq UnlistedFindings(t)
  /\ ~StopsAtEmitFail(t, a)
  /\ Covers(RegenFindings(t, a) \cup UnlistedFindings(t), RegenFindings(u, a))

LEMMA FollowsDies ==
  ASSUME NEW t, NEW u, NEW a, Follows(u, t, a), NEW job, Dies(job, u, a)
  PROVE  Dies(job, t, a)
<1>1. /\ u.facts \subseteq t.facts
      /\ "private_yml_bad" \notin u.facts
      /\ ~StopsAtEmitFail(t, a)
      /\ ComparesPorts(u) => ComparesPorts(t)
      /\ HooksCompared(u) => HooksCompared(t)
  BY DEF Follows, Milder
<1>2. PortsUnreadable(u, a) => PortsUnreadable(t, a)
  <2>1. Marked(u, "read_error", Netlists) \subseteq Marked(t, "read_error", Netlists)
    BY MilderMarks DEF Follows
  <2> QED BY <2>1 DEF PortsUnreadable
<1>3. TbPasses(t, a) => TbPasses(u, a)
  BY <1>1 DEF TbPasses
<1> QED BY <1>1, <1>2, <1>3 DEF Dies

LEMMA FollowsEmit ==
  ASSUME NEW t, NEW u, NEW a, Follows(u, t, a)
  PROVE  /\ Covers(FindingsOfEmit(t, a), FindingsOfEmit(u, a))
         /\ Covers(FindingsOfEquiv(t, a), FindingsOfEquiv(u, a))
<1>1. /\ ImportRootFindings(u) \subseteq ImportRootFindings(t)
      /\ PycLibFindings(u, a) \subseteq PycLibFindings(t, a)
      /\ \A verify : ManifestFindings(u, verify) \subseteq ManifestFindings(t, verify)
      /\ PlaceholderFindings(u) \subseteq PlaceholderFindings(t)
      /\ UnlistedFindings(u) \subseteq UnlistedFindings(t)
  BY MilderLists, MilderPlaceholder DEF Follows
<1>2. ~StopsAtEmitFail(t, a) /\ ~StopsAtEmitFail(u, a)
  BY DEF Follows, Milder, StopsAtEmitFail
<1>3. \A x : ~StopsAtEmitFail(x, a) =>
        FindingsOfEmit(x, a) =
          (ImportRootFindings(x) \cup PlaceholderFindings(x) \cup
           ManifestFindings(x, CanRegenerate(a)) \cup PycLibFindings(x, a) \cup
           UnlistedFindings(x)) \cup RegenFindings(x, a) \cup EquivFindings(x)
  BY DEF FindingsOfEmit
<1>4. \A x : FindingsOfEquiv(x, a) =
          (ImportRootFindings(x) \cup ManifestFindings(x, FALSE) \cup PycLibFindings(x, a))
          \cup EquivFindings(x)
  BY DEF FindingsOfEquiv
<1>5. /\ Covers(EquivFindings(t), EquivFindings(u))
      /\ Covers(RegenFindings(t, a) \cup UnlistedFindings(t), RegenFindings(u, a))
  BY DEF Follows
<1>6. Covers(FindingsOfEmit(t, a), FindingsOfEmit(u, a))
  <2> SUFFICES ASSUME NEW f \in FindingsOfEmit(u, a), f.bucket # "report"
               PROVE  \E g \in FindingsOfEmit(t, a) : Stands(g, f)
    BY DEF Covers
  <2>1. CASE f \in EquivFindings(u)
    <3>1. \E g \in EquivFindings(t) : Stands(g, f)
      BY <1>5, <2>1 DEF Covers
    <3> QED BY <1>2, <1>3, <3>1
  <2>2. CASE f \in RegenFindings(u, a)
    <3>1. \E g \in RegenFindings(t, a) \cup UnlistedFindings(t) : Stands(g, f)
      BY <1>5, <2>2 DEF Covers
    <3> QED BY <1>2, <1>3, <3>1
  <2>3. CASE f \notin EquivFindings(u) \cup RegenFindings(u, a)
    <3>1. f \in FindingsOfEmit(t, a)
      BY <1>1, <1>2, <1>3, <2>3
    <3> QED BY <3>1 DEF Stands
  <2> QED BY <2>1, <2>2, <2>3
<1>7. Covers(FindingsOfEquiv(t, a), FindingsOfEquiv(u, a))
  <2> SUFFICES ASSUME NEW f \in FindingsOfEquiv(u, a), f.bucket # "report"
               PROVE  \E g \in FindingsOfEquiv(t, a) : Stands(g, f)
    BY DEF Covers
  <2>1. CASE f \in EquivFindings(u)
    <3>1. \E g \in EquivFindings(t) : Stands(g, f)
      BY <1>5, <2>1 DEF Covers
    <3> QED BY <1>4, <3>1
  <2>2. CASE f \notin EquivFindings(u)
    <3>1. f \in FindingsOfEquiv(t, a)
      BY <1>1, <1>4, <2>2
    <3> QED BY <3>1 DEF Stands
  <2> QED BY <2>1, <2>2
<1> QED BY <1>6, <1>7

LEMMA FollowsFindings ==
  ASSUME NEW t, NEW u, NEW a, Follows(u, t, a), NEW job \in JobNames
  PROVE  Covers(FindingsOf(job, t, a), FindingsOf(job, u, a))
<1> DEFINE Holds(j) == Covers(FindingsOf(j, t, a), FindingsOf(j, u, a))
<1>0. Milder(u, t) /\ Covers(FindingsOfHooks(t), FindingsOfHooks(u))
  BY DEF Follows
<1>1. Holds("spec_leak") /\ Holds("contract") /\ Holds("regmap")
  BY <1>0, MilderLeak, MilderContract, MilderRegmap, FindingsByJob
<1>2. Holds("emit") /\ Holds("equiv")
  BY FollowsEmit, FindingsByJob
<1>3. Holds("provenance") /\ Holds("hooks_ports")
  BY <1>0, MilderProvenance, FindingsByJob
<1>4. Holds("lint") /\ Holds("synth") /\ Holds("cdc")
  BY <1>0, MilderLint, MilderSynth, MilderCdc, FindingsByJob
<1>5. Holds("formal") /\ Holds("tb")
  BY DEF Covers, FindingsOf
<1> HIDE DEF Holds
<1>6. Holds(job)
  BY <1>1, <1>2, <1>3, <1>4, <1>5, JobList
<1> QED BY <1>6 DEF Holds

LEMMA FollowsPasses ==
  ASSUME NEW t, NEW u, NEW a, Follows(u, t, a), NEW job \in JobNames, ~Fails(job, t, a)
  PROVE  ~Fails(job, u, a)
<1>1. CASE job = "formal"
  <2>1. ~FormalFails(u, a)
    BY <1>1, MilderFormal DEF Fails, Follows
  <2> QED BY <1>1, <2>1 DEF Fails
<1>2. CASE job # "formal"
  <2>1. ~Dies(job, u, a)
    BY <1>2, FollowsDies DEF Fails
  <2>2. Covers(FindingsOf(job, t, a), FindingsOf(job, u, a)) /\ SameLists(u, t)
    BY FollowsFindings DEF Follows, Milder
  <2>3. Blocking(t, Waivers, job, FindingsOf(job, t, a)) = {}
    BY <1>2 DEF Fails
  <2>4. Blocking(u, Waivers, job, FindingsOf(job, u, a)) = {}
    BY <2>2, <2>3, CoveredPasses
  <2> QED BY <1>2, <2>1, <2>4 DEF Fails
<1> QED BY <1>1, <1>2

-----------------------------------------------------------------------------
(***************************************************************************)
(* A tree that passes has been emitted again, where that can be done.      *)
(***************************************************************************)
LEMMA StopsNot ==
  ASSUME NEW t, NEW a, ~Fails("emit", t, a)
  PROVE  ~StopsAtEmitFail(t, a)
<1> SUFFICES ASSUME StopsAtEmitFail(t, a) PROVE FALSE
  OBVIOUS
<1> DEFINE f == Finding("EMIT_FAIL", "repo")
<1>1. f \in FindingsOf("emit", t, a)
  BY FindingsByJob DEF FindingsOfEmit, RegenFindings, StopsAtEmitFail
<1>2. BucketOf(t, "emit", f) = "new" /\ ~Deleted(t, f)
  BY DEF BucketOf, Finding, AlwaysNew, IsHandwritten, IsMigrate, IsLegacy, LeafFiles,
     Deleted, OnRoster
<1>3. ~Waived(Waivers, "emit", f)
  BY NeverWaived DEF UnitRules, SynthRules, ClockRules, ResetRules
<1> HIDE DEF f
<1>4. f \in Blocking(t, Waivers, "emit", FindingsOf("emit", t, a))
  BY <1>1, <1>2, <1>3 DEF Blocking
<1> QED BY <1>4 DEF Fails

LEMMA BetterRegen ==
  ASSUME NEW t, NEW u, NEW a, Better(u, t), ~StopsAtEmitFail(t, a)
  PROVE  /\ UnlistedFindings(u) \subseteq UnlistedFindings(t)
         /\ Covers(RegenFindings(t, a) \cup UnlistedFindings(t), RegenFindings(u, a))
<1>1. /\ \A f : Exists(u, f) <=> Exists(t, f)
      /\ \A f : IsHandwritten(u, f) <=> IsHandwritten(t, f)
      /\ \A f : LooksGenerated(t, f) => LooksGenerated(u, f)
      /\ u.facts \subseteq t.facts /\ u.marks \subseteq t.marks
  BY BetterLists, BetterMarks DEF Better
<1>2. UnlistedFindings(u) \subseteq UnlistedFindings(t)
  BY <1>1 DEF UnlistedFindings
<1>3. CASE ~CanRegenerate(a)
  BY <1>2, <1>3, SubsetCovers DEF RegenFindings
<1>4. CASE CanRegenerate(a)
  <2>1. "emit_broken" \notin t.facts /\ "emit_broken" \notin u.facts
    BY <1>1, <1>4 DEF StopsAtEmitFail
  <2>2. \A x \in {t, u} : RegenFindings(x, a) =
          {Finding("EMIT_DIFF", f) : f \in {g \in Netlists : EmitDiffers(x, g)}}
    BY <1>4, <2>1 DEF RegenFindings
  <2>3. ("netlists_renewed" \in u.facts) # HeadSourceChanged(u)
          => ("netlists_renewed" \in t.facts) # HeadSourceChanged(t)
    <3>1. /\ "netlists_renewed" \in u.facts <=> "netlists_renewed" \in t.facts
          /\ "dirty" \in u.facts <=> "dirty" \in t.facts
          /\ "source_changed" \in u.facts => "source_changed" \in t.facts
          /\ "source_changed" \in t.facts =>
               "source_changed" \in u.facts \/ {"dirty", "netlists_renewed"} \cap t.facts = {}
      BY DEF Better, KeptFacts
    <3> QED BY <3>1 DEF HeadSourceChanged
  <2>4. ASSUME NEW f \in Netlists, EmitDiffers(u, f)
        PROVE  \E g \in RegenFindings(t, a) \cup UnlistedFindings(t) :
                 Stands(g, Finding("EMIT_DIFF", f))
    <3>1. CASE EmitDiffers(t, f)
      <4>1. Finding("EMIT_DIFF", f) \in RegenFindings(t, a)
        BY <2>2, <3>1
      <4> QED BY <4>1 DEF Stands
    <3>2. CASE ~EmitDiffers(t, f)
      <4> DEFINE g == Finding("HANDWRITTEN_UNLISTED", f)
      <4>1. Exists(t, f) /\ ~IsHandwritten(t, f) /\ ~LooksGenerated(t, f)
        BY <1>1, <2>3, <2>4, <3>2 DEF EmitDiffers
      <4>2. g \in UnlistedFindings(t)
        BY <4>1 DEF UnlistedFindings
      <4>3. \A job : ~Waived(Waivers, job, g)
        BY NeverWaived DEF UnitRules, SynthRules, ClockRules, ResetRules
      <4>4. Stands(g, Finding("EMIT_DIFF", f))
        BY <4>3 DEF Stands, Finding, AlwaysNew
      <4> QED BY <4>2, <4>4
    <3> QED BY <3>1, <3>2
  <2>5. \A h \in RegenFindings(u, a) :
          \E f \in Netlists : EmitDiffers(u, f) /\ h = Finding("EMIT_DIFF", f)
    BY <2>2
  <2>6. Covers(RegenFindings(t, a) \cup UnlistedFindings(t), RegenFindings(u, a))
    BY <2>4, <2>5 DEF Covers
  <2> QED BY <1>2, <2>6
<1> QED BY <1>3, <1>4

LEMMA BetterFollows ==
  ASSUME NEW t, NEW u, NEW a, Better(u, t),
         "private_yml_bad" \notin t.facts, ~StopsAtEmitFail(t, a)
  PROVE  Follows(u, t, a)
<1>1. Milder(u, t)
  <2>1. SameLists(u, t) /\ DiscoveredFiles(u) = DiscoveredFiles(t)
    BY BetterLists
  <2> QED BY <2>1 DEF Milder, Better
<1>2. ComparesPorts(u) => ComparesPorts(t)
  BY BetterLists DEF ComparesPorts
<1> QED BY <1>1, <1>2, BetterEquiv, BetterHooks, BetterRegen DEF Follows

-----------------------------------------------------------------------------
(***************************************************************************)
(* A tree in which a missing netlist is there again, with nothing marked   *)
(* on it.                                                                  *)
(***************************************************************************)
Grown(u, t, f) ==
  /\ f \in Netlists /\ ~Exists(t, f) /\ Exists(t, "source")
  /\ ~OnRoster(t, f)
  /\ f = "product" => ~IsPrivate(t) /\ ~IsLargeMem(t)
  /\ u = WithoutMark(t, <<"missing", f>>)
  /\ \A r : <<r, f>> \notin u.marks

LEMMA GrownTree ==
  ASSUME NEW t, NEW u, NEW f, Grown(u, t, f)
  PROVE  /\ u.facts = t.facts
         /\ \A r, g : g # f => (<<r, g>> \in u.marks <=> <<r, g>> \in t.marks)
         /\ \A g : g # f => (Exists(u, g) <=> Exists(t, g))
         /\ Exists(u, f) /\ LooksGenerated(u, f) /\ f # "source"
         /\ \A g : IsLegacy(u, g) <=> IsLegacy(t, g)
         /\ SameLists(u, t)
<1>1. /\ u = [facts |-> t.facts, marks |-> t.marks \ {<<"missing", f>>}]
      /\ f \in LeafFiles /\ f \in Netlists
      /\ f # "source"
      /\ \A r : <<r, f>> \notin u.marks
      /\ ~OnRoster(t, f)
  BY DEF Grown, WithoutMark, Netlists, LeafFiles
<1>2. /\ u.facts = t.facts
      /\ \A r, g : g # f => (<<r, g>> \in u.marks <=> <<r, g>> \in t.marks)
  BY <1>1
<1>3. \A g : g # f => (Exists(u, g) <=> Exists(t, g))
  BY <1>2 DEF Exists
<1>4. Exists(u, f) /\ LooksGenerated(u, f)
  BY <1>1 DEF Exists, LooksGenerated
<1>5. \A g : IsHandwritten(u, g) <=> IsHandwritten(t, g)
  BY <1>2 DEF IsHandwritten
<1>6. \A g : IsLegacy(u, g) <=> IsLegacy(t, g)
  <2>1. CASE f = "product"
    <3>1. "legacy" \notin t.facts
      BY <1>1, <2>1 DEF OnRoster
    <3> QED BY <1>2, <3>1 DEF IsLegacy
  <2>2. CASE f # "product"
    <3>1. LooksGenerated(u, "product") <=> LooksGenerated(t, "product")
      BY <1>2, <1>3, <2>2 DEF LooksGenerated
    <3> QED BY <1>2, <1>5, <3>1 DEF IsLegacy
  <2> QED BY <2>1, <2>2
<1>7. \A g : OnRoster(u, g) <=> OnRoster(t, g)
  BY <1>2 DEF OnRoster
<1>8. SameLists(u, t)
  <2>1. \A g : ~Exists(u, g) /\ OnRoster(u, g) <=> ~Exists(t, g) /\ OnRoster(t, g)
    BY <1>1, <1>3, <1>4, <1>7
  <2>2. \A g : IsMigrate(u, g) <=> IsMigrate(t, g)
    BY <1>2 DEF IsMigrate
  <2>3. LockFindings(u) \subseteq LockFindings(t)
    BY <1>2 DEF LockFindings
  <2> QED BY <1>5, <1>6, <2>1, <2>2, <2>3 DEF SameLists
<1> QED BY <1>1, <1>2, <1>3, <1>4, <1>6, <1>8

LEMMA GrownMilder ==
  ASSUME NEW t, NEW u, NEW f, Grown(u, t, f), "private_yml_bad" \notin t.facts
  PROVE  Milder(u, t)
<1>1. /\ u.facts = t.facts
      /\ \A r, g : g # f => (<<r, g>> \in u.marks <=> <<r, g>> \in t.marks)
      /\ \A g : g # f => (Exists(u, g) <=> Exists(t, g))
      /\ f # "source" /\ SameLists(u, t) /\ Exists(u, f)
  BY GrownTree
<1>2. /\ \A r : <<r, f>> \notin u.marks
      /\ Exists(t, "source")
      /\ f = "product" => ~IsLargeMem(t)
      /\ f \in Netlists
  BY DEF Grown
<1>3. \A g : g # f /\ g \in DiscoveredFiles(u) => g \in DiscoveredFiles(t)
  <2> SUFFICES ASSUME NEW g, g # f, g \in DiscoveredFiles(u) PROVE g \in DiscoveredFiles(t)
    OBVIOUS
  <2>1. g \in Netlists /\ Exists(t, g)
    BY <1>1 DEF DiscoveredFiles, Netlists
  <2>2. "hooks_renamed" \in t.facts \/ g = "hooks" \/ ~Exists(t, "hooks")
    BY <1>1, <1>2, <2>1 DEF DiscoveredFiles, Netlists
  <2> QED BY <2>1, <2>2 DEF DiscoveredFiles, Netlists
<1>4. \A r, g : <<r, g>> \in u.marks /\ Exists(u, g) =>
                  /\ <<r, g>> \in t.marks /\ Exists(t, g)
                  /\ g \in DiscoveredFiles(u) => g \in DiscoveredFiles(t)
  BY <1>1, <1>2, <1>3
<1>5. IsLargeMem(t) /\ Exists(u, "product") => Exists(t, "product")
  BY <1>1, <1>2
<1> QED BY <1>1, <1>2, <1>4, <1>5 DEF Milder

(***************************************************************************)
(* A finding that names a file none of the lists names blocks its job.     *)
(***************************************************************************)
LEMMA UnlistedBlocks ==
  ASSUME NEW t, NEW a, NEW job \in JobNames, job # "formal", ~Fails(job, t, a),
         NEW r, r \notin UnitRules \cup SynthRules,
         NEW file, ~IsMigrate(t, file), ~IsLegacy(t, file), Exists(t, file) \/ ~OnRoster(t, file)
  PROVE  Finding(r, file) \notin FindingsOf(job, t, a)
<1> SUFFICES ASSUME Finding(r, file) \in FindingsOf(job, t, a) PROVE FALSE
  OBVIOUS
<1>1. BucketOf(t, job, Finding(r, file)) = "new" /\ ~Deleted(t, Finding(r, file))
  BY DEF BucketOf, Deleted, Finding
<1>2. Waived(Waivers, job, Finding(r, file))
  BY <1>1, NothingBlocks
<1> QED BY <1>2, NeverWaived

(***************************************************************************)
(* A passing tree without one of its netlists: nothing is emitted again,   *)
(* a missing PRODUCT is a placeholder's, and a missing HOOKS was not       *)
(* looked for.                                                             *)
(***************************************************************************)
LEMMA GrownPassed ==
  ASSUME NEW t, NEW a, NEW b, NEW c, NEW f, f \in Netlists, ~Exists(t, f), Exists(t, "source"),
         ~OnRoster(t, f), f = "product" => ~IsPrivate(t),
         ~Fails("emit", t, a), ~StopsAtEmitFail(t, a),
         ~Fails("equiv", t, b), ~Fails("hooks_ports", t, c)
  PROVE  /\ ~CanRegenerate(a)
         /\ f = "product" => IsPlaceholder(t)
         /\ f = "hooks" => HooksSkipped(t)
<1>1. /\ {"emit", "equiv", "hooks_ports"} \subseteq JobNames
      /\ {"EMIT_DIFF", "PRODUCT_MISSING", "HOOKS_MISSING"}
            \cap (UnitRules \cup SynthRules) = {}
  BY JobList DEF UnitRules, SynthRules, ClockRules, ResetRules
<1>2. /\ ~IsMigrate(t, f) /\ ~IsLegacy(t, f)
      /\ ~IsMigrate(t, "product")
  BY DEF OnRoster, IsMigrate, IsLegacy, LeafFiles, Netlists
<1>3. ASSUME CanRegenerate(a) PROVE FALSE
  <2>1. EmitDiffers(t, f)
    BY DEF EmitDiffers
  <2>2. Finding("EMIT_DIFF", f) \in RegenFindings(t, a)
    BY <1>3, <2>1 DEF RegenFindings, StopsAtEmitFail
  <2>3. Finding("EMIT_DIFF", f) \in FindingsOf("emit", t, a)
    BY <2>2, FindingsByJob DEF FindingsOfEmit
  <2> QED BY <1>1, <1>2, <2>3, UnlistedBlocks
<1>4. ASSUME f = "product", ~IsPlaceholder(t) PROVE FALSE
  <2>1. EquivRoute(t) = "no_product"
    BY <1>4 DEF EquivRoute, IsLeafPair
  <2>2. Finding("PRODUCT_MISSING", "product") \in FindingsOf("equiv", t, b)
    BY <2>1, FindingsByJob DEF FindingsOfEquiv, EquivFindings
  <2> QED BY <1>1, <1>2, <1>4, <2>2, UnlistedBlocks
<1>5. ASSUME f = "hooks", ~HooksSkipped(t) PROVE FALSE
  <2>1. Exists(t, "product") /\ ~IsLegacy(t, "product")
    BY <1>5 DEF HooksSkipped
  <2>2. Finding("HOOKS_MISSING", "product") \in FindingsOf("hooks_ports", t, c)
    BY <1>5, FindingsByJob DEF FindingsOfHooks
  <2> QED BY <1>1, <1>2, <2>1, <2>2, UnlistedBlocks
<1> QED BY <1>3, <1>4, <1>5 DEF Netlists

LEMMA GrownFollows ==
  ASSUME NEW t, NEW u, NEW f, NEW a, Grown(u, t, f), "private_yml_bad" \notin t.facts,
         ~CanRegenerate(a), f = "product" => IsPlaceholder(t), f = "hooks" => HooksSkipped(t)
  PROVE  Follows(u, t, a)
<1>1. Milder(u, t)
  BY GrownMilder
<1>2. /\ u.facts = t.facts
      /\ \A g : g # f => (Exists(u, g) <=> Exists(t, g))
      /\ \A g : g # f => (LooksGenerated(u, g) <=> LooksGenerated(t, g))
      /\ LooksGenerated(u, f) /\ Exists(u, f)
      /\ \A g : IsLegacy(u, g) <=> IsLegacy(t, g)
      /\ \A g : IsHandwritten(u, g) <=> IsHandwritten(t, g)
      /\ IsPlaceholder(u) <=> IsPlaceholder(t)
      /\ IsPrivate(u) <=> IsPrivate(t)
      /\ Exists(t, "source") /\ Exists(u, "source")
      /\ f \in {"product", "hooks"}
  BY <1>1, GrownTree, MilderExcuses DEF LooksGenerated, Grown, Netlists
<1>3. HooksSkipped(u)
  BY <1>2 DEF HooksSkipped, IsLeafPair
<1>4. EquivRoute(u) = EquivRoute(t) /\ EquivRoute(t) \notin {"compare", "large", "no_hooks"}
  <2>1. IsLeafPair(u) /\ IsLeafPair(t)
    BY <1>2 DEF IsLeafPair
  <2>2. CASE IsPrivate(t) \/ IsPlaceholder(t)
    BY <1>2, <2>1, <2>2 DEF EquivRoute
  <2>3. CASE ~IsPrivate(t) /\ ~IsPlaceholder(t)
    <3>1. f = "hooks" /\ (Exists(u, "product") <=> Exists(t, "product"))
      BY <1>2, <2>3
    <3>2. ~Exists(t, "product") \/ IsHandwritten(t, "product") \/ IsLegacy(t, "product")
      BY <2>1, <2>3, <3>1 DEF HooksSkipped
    <3> QED BY <1>2, <2>1, <2>3, <3>1, <3>2 DEF EquivRoute
  <2> QED BY <2>2, <2>3
<1>5. Covers(EquivFindings(t), EquivFindings(u))
  <2>1. EquivFindings(u) = EquivFindings(t)
    BY <1>4 DEF EquivFindings
  <2> QED BY <2>1, SubsetCovers
<1>6. ~ComparesPorts(u)
  BY <1>4 DEF ComparesPorts
<1>7. FindingsOfHooks(u) = {} /\ ~HooksCompared(u)
  BY <1>3 DEF FindingsOfHooks, HooksCompared
<1>8. UnlistedFindings(u) \subseteq UnlistedFindings(t)
  BY <1>2 DEF UnlistedFindings
<1>9. Covers(RegenFindings(t, a) \cup UnlistedFindings(t), RegenFindings(u, a))
  BY SubsetCovers DEF RegenFindings
<1>10. Covers(FindingsOfHooks(t), FindingsOfHooks(u)) /\ ~StopsAtEmitFail(t, a)
  BY <1>7 DEF Covers, StopsAtEmitFail
<1> QED BY <1>1, <1>5, <1>6, <1>7, <1>8, <1>9, <1>10 DEF Follows

(***************************************************************************)
(* Every repair is of one of the two kinds.                                *)
(***************************************************************************)
LEMMA RepairedFact ==
  ASSUME NEW t, NEW x \in t.facts \cap GatedFacts(t)
  PROVE  Better(Without(t, x), t)
<1> DEFINE u == Without(t, x)
<1>1. u.facts = t.facts \ {x} /\ u.marks = t.marks
  BY DEF Without
<1>2. x \notin KeptFacts
  BY DEF GatedFacts, KeptFacts, Excuses, RegmapRules, ManifestStatic, ManifestRegened
<1>3. /\ x = "hooks_extra" => ~HooksRow(t)
      /\ x = "source_changed" => {"dirty", "netlists_renewed"} \cap t.facts = {}
  BY DEF GatedFacts, RegmapRules, ManifestStatic, ManifestRegened
<1>4. \A y \in KeptFacts : y \in u.facts <=> y \in t.facts
  BY <1>1, <1>2
<1>5. \A f : (Exists(u, f) <=> Exists(t, f)) /\ (LooksGenerated(u, f) <=> LooksGenerated(t, f))
  BY <1>1 DEF Exists, LooksGenerated
<1>6. \A f : IsLegacy(u, f) <=> IsLegacy(t, f)
  <2>1. \A y \in {"legacy", "handwritten"} : y \in u.facts <=> y \in t.facts
    BY <1>4 DEF KeptFacts, Excuses
  <2> QED BY <1>5, <2>1 DEF IsLegacy, IsHandwritten
<1> HIDE DEF u
<1>7. Better(u, t)
  BY <1>1, <1>3, <1>4, <1>5, <1>6 DEF Better
<1> QED BY <1>7 DEF u

LEMMA RepairedMark ==
  ASSUME NEW t, WellFormed(t), NEW m \in t.marks \cap GatedMarks(t, Netlists), ~ListedAs(t, m)
  PROVE  \/ Better(WithoutMark(t, m), t)
         \/ \E f : Grown(WithoutMark(t, m), t, f)
<1> DEFINE u == WithoutMark(t, m)
<1>1. u.facts = t.facts /\ u.marks = t.marks \ {m}
  BY DEF WithoutMark
<1>2. m = <<m[1], m[2]>>
  BY DEF GatedMarks
<1>3. CASE m[1] # "missing"
  <2>1. \A f : <<"missing", f>> # m
    BY <1>3
  <2>2. \A f : Exists(u, f) <=> Exists(t, f)
    BY <1>1, <2>1 DEF Exists
  <2>3. \A f : IsLegacy(u, f) <=> IsLegacy(t, f)
    <3>1. CASE m = <<"no_banner", "product">>
      <4>1. ~IsLegacy(t, "product")
        BY <3>1 DEF ListedAs
      <4>2. ~LooksGenerated(t, "product")
        BY <3>1 DEF LooksGenerated
      <4>3. "legacy" \notin t.facts \/ IsHandwritten(t, "product")
        BY <4>1, <4>2 DEF IsLegacy
      <4> QED BY <1>1, <4>3 DEF IsLegacy, IsHandwritten
    <3>2. CASE m # <<"no_banner", "product">>
      <4>1. LooksGenerated(u, "product") <=> LooksGenerated(t, "product")
        BY <1>1, <2>2, <3>2 DEF LooksGenerated
      <4> QED BY <1>1, <4>1 DEF IsLegacy, IsHandwritten
    <3> QED BY <3>1, <3>2
  <2> HIDE DEF u
  <2>4. Better(u, t)
    BY <1>1, <2>2, <2>3 DEF Better
  <2> QED BY <2>4 DEF u
<1>4. CASE m[1] = "missing"
  <2> DEFINE f == m[2]
  <2>1. f \in Netlists /\ Exists(t, "source")
    BY <1>4 DEF GatedMarks, UnitRules, ClockRules, ResetRules, SynthRules
  <2>2. m = <<"missing", f>>
    BY <1>2, <1>4
  <2>3. ~Exists(t, f)
    BY <2>1, <2>2 DEF Exists, Netlists, LeafFiles
  <2>4. /\ ~OnRoster(t, f)
        /\ f = "product" => ~IsPrivate(t) /\ ~IsLargeMem(t)
    BY <1>4, <2>2 DEF ListedAs
  <2>5. \A r : <<r, f>> \notin u.marks
    <3> SUFFICES ASSUME NEW r, <<r, f>> \in u.marks PROVE FALSE
      OBVIOUS
    <3>1. <<r, f>> \in t.marks /\ <<r, f>> # m
      BY <1>1
    <3>2. m # <<r, f>> /\ m[2] = (<<r, f>>)[2] => m[1] # "missing"
      BY <3>1 DEF WellFormed
    <3> QED BY <1>4, <3>1, <3>2
  <2>6. Grown(u, t, f)
    BY <2>1, <2>2, <2>3, <2>4, <2>5 DEF Grown
  <2> QED BY <2>6
<1> QED BY <1>3, <1>4

LEMMA RepairedFollows ==
  ASSUME NEW t, WellFormed(t), Passes(t, away), NEW u \in Repaired(t), NEW job \in JobNames
  PROVE  Follows(u, t, JobAway(mode, job, away))
<1> DEFINE A(j) == JobAway(mode, j, away)
<1>1. \A j \in JobNames : ~Fails(j, t, A(j))
  BY DEF Passes
<1>2. \A j, x : (CanRegenerate(A(j)) <=> CanRegenerate(away))
                /\ (StopsAtEmitFail(x, A(j)) <=> StopsAtEmitFail(x, away))
  BY JobAwayIsLess DEF StopsAtEmitFail
<1> HIDE DEF A
<1>3. /\ ~Fails("contract", t, A("contract")) /\ ~Fails("emit", t, A("emit"))
      /\ ~Fails("equiv", t, A("equiv")) /\ ~Fails("hooks_ports", t, A("hooks_ports"))
  BY <1>1, JobList
<1>4. "private_yml_bad" \notin t.facts
  BY <1>3 DEF Fails, Dies
<1>5. ~StopsAtEmitFail(t, away)
  BY <1>2, <1>3, StopsNot
<1>6. ASSUME Better(u, t) PROVE Follows(u, t, A(job))
  BY <1>2, <1>4, <1>5, <1>6, BetterFollows
<1>7. ASSUME NEW f, Grown(u, t, f) PROVE Follows(u, t, A(job))
  <2>1. /\ f \in Netlists /\ ~Exists(t, f) /\ Exists(t, "source")
        /\ ~OnRoster(t, f) /\ (f = "product" => ~IsPrivate(t))
    BY <1>7 DEF Grown
  <2>2. /\ ~CanRegenerate(A("emit"))
        /\ f = "product" => IsPlaceholder(t)
        /\ f = "hooks" => HooksSkipped(t)
    BY <1>2, <1>3, <1>5, <2>1, GrownPassed
  <2>3. ~CanRegenerate(A(job))
    BY <1>2, <2>2
  <2> QED BY <1>4, <1>7, <2>2, <2>3, GrownFollows
<1>8. Better(u, t) \/ \E f : Grown(u, t, f)
  BY RepairedFact, RepairedMark DEF Repaired
<1> QED BY <1>6, <1>7, <1>8 DEF A

(***************************************************************************)
(* No defect hides another: of a tree that passed, repair any one of the   *)
(* defects the gate is there for, and every job passes it still (the       *)
(* continues and early returns of scripts/gate/*.py skip nothing that the  *)
(* defect itself did not already fail for).                                *)
(***************************************************************************)
THEOREM GateDefectsDoNotMask == Spec => []DefectsDoNotMask
<1>1. AllJobsPassed /\ TypeOK => DefectsDoNotMask
  <2> SUFFICES ASSUME AllJobsPassed, TypeOK, verdict = "PASS", NEW u \in Repaired(tree),
                      NEW job \in JobNames
               PROVE  ~Fails(job, u, JobAway(mode, job, away))
    BY DEF DefectsDoNotMask, Passes
  <2>1. WellFormed(tree) /\ Passes(tree, away)
    BY DEF TypeOK, AllJobsPassed
  <2>2. Follows(u, tree, JobAway(mode, job, away))
    BY <2>1, RepairedFollows
  <2>3. ~Fails(job, tree, JobAway(mode, job, away))
    BY <2>1 DEF Passes
  <2> QED BY <2>2, <2>3, FollowsPasses
<1> QED BY <1>1, GatePassIsAllJobs, GateTypeOK, PTL
=============================================================================
