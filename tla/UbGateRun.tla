------------------------------ MODULE UbGateRun ------------------------------
(***************************************************************************)
(* A run of the gate: `make gate` on a developer's machine                 *)
(* (scripts/gate/run_all.sh) or the jobs of .github/workflows/gate.yml.    *)
(*                                                                         *)
(* Locally the jobs run one after the other on the working tree and share  *)
(* scripts/gate/out, which also outlives the run.  In CI every job has a   *)
(* fresh checkout; only the equivalence status is handed on, from equiv to *)
(* formal, and only the jobs that fetch it know origin/main.  The jobs of  *)
(* CI read nothing else of each other's, so one order stands for all.      *)
(***************************************************************************)
EXTENDS UbGateChecks, Sequences

CONSTANTS Worlds,     \* the [tree, away] pairs a run may meet
          Edited,     \* the ones that a change leads to and from
          Waivers,    \* the entries of waivers/
          Modes,      \* subset of {"local", "ci"}
          MaxRuns     \* bound: the runs of one behaviour

(***************************************************************************)
(* A leaf has a file; a missing file has no content; netlists are renewed  *)
(* from, and a tree is dirty with, a changed source; what is not there has *)
(* no flaw.                                                                *)
(***************************************************************************)
WellFormed(t) ==
  /\ \A m \in t.marks : m[2] \in LeafFiles
  /\ \E f \in LeafFiles : Exists(t, f)
  /\ \A m, n \in t.marks : m # n /\ m[2] = n[2] => m[1] # "missing"
  /\ {"netlists_renewed", "dirty"} \cap t.facts # {} => "source_changed" \in t.facts
  /\ "pyc_lib_gone" \in t.facts => {"PYC_LIB_UNKNOWN", "PYC_LIB_DIFF"} \cap t.facts = {}
  /\ "no_sby" \in t.facts =>
       {"sby_fails", "bmc_shallow", "private_assume", "product_prove"} \cap t.facts = {}
  /\ "no_regmap" \in t.facts => RegmapRules \cap t.facts = {}
  /\ "no_gen_regmap" \in t.facts => "regmap_stale" \notin t.facts

(***************************************************************************)
(* What waivers/README.md lets an approved waiver name: a rule about the   *)
(* content of a netlist, of one of three checks.                           *)
(***************************************************************************)
UnitRules == {"LINT", "read_error", "RDC_UNRESET_ARRAY"} \cup ClockRules \cup ResetRules

ASSUME WaiversAssumption ==
  \A w \in Waivers : EntryApproved(w) =>
     w.check \in {"lint", "synth", "cdc"} /\ w.rule \in UnitRules \cup SynthRules

ASSUME WorldsAssumption  ==
  \A w \in Worlds \cup Edited : w.away \subseteq Things /\ WellFormed(w.tree)
ASSUME ModesAssumption   == Modes \subseteq {"local", "ci"}
ASSUME MaxRunsAssumption == MaxRuns \in Nat \ {0}

Jobs == <<"spec_leak", "contract", "emit", "equiv", "provenance",
          "hooks_ports", "lint", "synth", "cdc", "formal", "regmap", "tb">>

JobNames == {Jobs[i] : i \in 1..12}

FetchesMain == {"spec_leak", "contract"}

VARIABLES tree, away,     \* the tree under test, and what the machine lacks
          mode,
          pc,             \* the job that runs next, 0 between runs
          failed,         \* a job of this run exited with an error
          equivStatus,    \* the leaf's entry in equiv_status.json
          proved,         \* history: the status this run's equiv wrote
          inherited,      \* history: formal took the PRODUCT's proof from it
          verdict, runs

vars == <<tree, away, mode, pc, failed, equivStatus, proved, inherited,
          verdict, runs>>

JobAway(m, job, a) ==
  IF m = "ci" /\ job \notin FetchesMain THEN a \cup {"origin_main"} ELSE a

-----------------------------------------------------------------------------
(***************************************************************************)
(* The jobs that end before they report: a tool is gone, a list cannot be  *)
(* parsed, or yosys cannot read a netlist whose ports are compared.        *)
(***************************************************************************)
Dies(job, t, a) ==
  \/ /\ job \in {"contract", "emit", "equiv"}
     /\ "private_yml_bad" \in t.facts
  \/ /\ job = "lint"
     /\ \/ "verilator" \in a
        \/ "private_yml_bad" \in t.facts /\ DiscoveredFiles(t) # {}
  \/ /\ job = "synth"
     /\ \/ "yosys" \in a
        \/ "private_yml_bad" \in t.facts /\ SynthUnits(t) # {}
  \/ /\ job = "emit"
     /\ ~StopsAtEmitFail(t, a) /\ ComparesPorts(t) /\ PortsUnreadable(t, a)
  \/ /\ job = "equiv"
     /\ ComparesPorts(t) /\ PortsUnreadable(t, a)
  \/ /\ job = "hooks_ports"
     /\ HooksCompared(t) /\ PortsUnreadable(t, a)
  \/ /\ job = "tb"
     /\ ~TbPasses(t, a)

FindingsOf(job, t, a) ==
  CASE job = "spec_leak"   -> FindingsOfLeak(t)
    [] job = "contract"    -> FindingsOfContract(t, a)
    [] job = "emit"        -> FindingsOfEmit(t, a)
    [] job = "equiv"       -> FindingsOfEquiv(t, a)
    [] job = "provenance"  -> FindingsOfProvenance(t, a)
    [] job = "hooks_ports" -> FindingsOfHooks(t)
    [] job = "lint"        -> FindingsOfLint(t, a)
    [] job = "synth"       -> FindingsOfSynth(t)
    [] job = "cdc"         -> FindingsOfCdc(t)
    [] job = "regmap"      -> FindingsOfRegmap(t)
    [] OTHER -> {}

(***************************************************************************)
(* formal is four programs under set -e: the binds' report ends it, an     *)
(* empty list passes, and what the rest report is counted.                 *)
(***************************************************************************)
BindsPass(t)   == Blocking(t, Waivers, "formal", BindFindings(t)) = {}
ReachesDepth(t, a) == BindsPass(t) /\ SbyListed(t) /\ "sby" \notin a

FormalFails(t, a) ==
  \/ ~BindsPass(t)
  \/ /\ SbyListed(t)
     /\ \/ "sby" \in a
        \/ "sby_fails" \in t.facts
        \/ Blocking(t, Waivers, "formal_depth", DepthFindings(t, "absent")) # {}
        \/ Blocking(t, Waivers, "formal_parent_free", ParentFreeFindings(t, a)) # {}

Fails(job, t, a) ==
  IF job = "formal" THEN FormalFails(t, a)
  ELSE \/ Dies(job, t, a)
       \/ Blocking(t, Waivers, job, FindingsOf(job, t, a)) # {}

-----------------------------------------------------------------------------
Init ==
  /\ \E w \in Worlds : tree = w.tree /\ away = w.away
  /\ mode \in Modes
  /\ pc = 0 /\ failed = FALSE /\ runs = 0 /\ verdict = "none"
  /\ equivStatus = "absent" /\ proved = "none" /\ inherited = "no"

(***************************************************************************)
(* A run starts; in CI on a runner with nothing in out/.  What is pushed   *)
(* has been committed.                                                     *)
(***************************************************************************)
StatusKept == equivStatus           \* fault: a runner that is used again

StatusAtStart == IF mode = "ci" THEN "absent" ELSE equivStatus

StartRun ==
  /\ pc = 0 /\ runs < MaxRuns
  /\ mode = "ci" => "dirty" \notin tree.facts
  /\ pc' = 1 /\ failed' = FALSE /\ verdict' = "none" /\ runs' = runs + 1
  /\ proved' = "none" /\ inherited' = "no"
  /\ equivStatus' = StatusAtStart
  /\ UNCHANGED <<tree, away, mode>>

(***************************************************************************)
(* The two jobs that prove PRODUCT against HOOKS write the status at their *)
(* end, right before they report.  In CI only equiv's is kept.             *)
(***************************************************************************)
WritesStatus(job, t, a) ==
  /\ ~Dies(job, t, a)
  /\ \/ job = "equiv"
     \/ job = "emit" /\ mode = "local" /\ ~StopsAtEmitFail(t, a)

LastStatus(job, t, a) == Fails(job, t, a)   \* fault: only the last job counts

FailedAfter(job, t, a) == failed \/ Fails(job, t, a)

RunJob ==
  /\ pc \in 1..12
  /\ LET job == Jobs[pc]
         a   == JobAway(mode, job, away)
     IN /\ failed' = FailedAfter(job, tree, a)
        /\ equivStatus' = IF WritesStatus(job, tree, a)
                          THEN EquivStatusOf(tree) ELSE equivStatus
        /\ proved' = IF WritesStatus(job, tree, a)
                     THEN EquivStatusOf(tree) ELSE proved
        /\ inherited' =
             IF job = "formal" /\ ReachesDepth(tree, a) /\ "product_prove" \in tree.facts
             THEN IF equivStatus = "PASS" THEN "yes" ELSE "refused"
             ELSE inherited
  /\ pc' = pc + 1
  /\ UNCHANGED <<tree, away, mode, verdict, runs>>

(***************************************************************************)
(* A job is killed, or ends in an exception: it has written nothing, and   *)
(* the run goes on with the next one.                                      *)
(***************************************************************************)
KillJob ==
  /\ pc \in 1..12
  /\ failed' = TRUE
  /\ pc' = pc + 1
  /\ UNCHANGED <<tree, away, mode, equivStatus, proved, inherited, verdict, runs>>

FinishAgain ==                      \* fault: the run does not end
  /\ pc = 13
  /\ verdict' = IF failed THEN "FAIL" ELSE "PASS"
  /\ pc' = pc + 1
  /\ UNCHANGED <<tree, away, mode, failed, equivStatus, proved, inherited, runs>>

Finish ==
  /\ pc = 13
  /\ verdict' = IF failed THEN "FAIL" ELSE "PASS"
  /\ pc' = 0
  /\ UNCHANGED <<tree, away, mode, failed, equivStatus, proved, inherited, runs>>

(***************************************************************************)
(* Between runs something of the tree, of its lists or of the machine      *)
(* changes.                                                                *)
(***************************************************************************)
OneStep(S, T) == Cardinality((S \ T) \cup (T \ S)) = 1

OneChange(t, u) ==
  \/ t.marks = u.marks /\ OneStep(t.facts, u.facts)
  \/ t.facts = u.facts /\ OneStep(t.marks, u.marks)

Edit ==
  /\ pc = 0 /\ runs \in 1..(MaxRuns - 1)
  /\ [tree |-> tree, away |-> away] \in Edited
  /\ \E w \in Edited :
       /\ \/ w.away = away /\ OneChange(w.tree, tree)
          \/ w.tree = tree /\ OneStep(w.away, away)
       /\ tree' = w.tree /\ away' = w.away
  /\ verdict' = "none" /\ failed' = FALSE
  /\ UNCHANGED <<mode, pc, equivStatus, proved, inherited, runs>>

Next == StartRun \/ RunJob \/ KillJob \/ Finish \/ Edit

Spec == Init /\ [][Next]_vars

-----------------------------------------------------------------------------
(***************************************************************************)
(* The types of the state of a run.                                        *)
(***************************************************************************)
TypeOK ==
  /\ away \subseteq Things
  /\ WellFormed(tree)
  /\ mode \in Modes
  /\ pc \in 0..13
  /\ failed \in BOOLEAN
  /\ equivStatus \in {"absent", "PASS", "FAIL", "SKIP", "PRIVATE_SKIP"}
  /\ proved \in {"none", "absent", "PASS", "FAIL", "SKIP", "PRIVATE_SKIP"}
  /\ inherited \in {"no", "yes", "refused"}
  /\ verdict \in {"none", "PASS", "FAIL"}
  /\ runs \in 0..MaxRuns

(***************************************************************************)
(* Every job passes on its own.                                            *)
(***************************************************************************)
Passes(t, a) == \A job \in JobNames : ~Fails(job, t, JobAway(mode, job, a))

(***************************************************************************)
(* The jobs a tree passes do not depend on their order or on what an       *)
(* earlier run left in out/: a run says PASS only for a tree every job     *)
(* passes by itself (run_all.sh goes on after a failure, and keeps it).    *)
(***************************************************************************)
AllJobsPassed == verdict = "PASS" => Passes(tree, away)

(***************************************************************************)
(* The defects verif_gate.md says a job fails on, in a leaf no list        *)
(* excuses.  The units a job sees are the discovered ones.                 *)
(***************************************************************************)
GatedFacts(t) ==
  {"CONTRACT_BAD", "root_on_path", "emit_broken", "stray_primitive",
   "PYC_LIB_UNKNOWN", "PYC_LIB_DIFF", "BLACKBOX_SCHEMA", "BLACKBOX_KIND",
   "SBY_FILE_MISSING", "BIND_NETLIST_MISSING", "BIND_SIGNAL_MISSING",
   "sby_fails", "regmap_stale", "test_fails", "test_skips", "cocotb_fails",
   "private_yml_bad", "TOOLCHAIN_LOCK_CONFLICT", "TOOLCHAIN_LOCK_INCOMPLETE",
   "product_tb", "port_missing", "port_dir", "port_width",
   "differs_early", "differs_late"} \cup RegmapRules \cup ManifestStatic \cup
  ManifestRegened \cup
  {x \in {"hooks_extra"} : ~HooksRow(t)} \cup
  {x \in {"source_changed"} : {"dirty", "netlists_renewed"} \cap t.facts = {}}

GatedMarks(t, units) ==
  ({"LEAK"} \X LeafFiles) \cup
  ({"PY_SYNTAX", "NO_PYCIRCUIT_IMPORT", "VERILOG_SPLICE"} \X {"source"}) \cup
  ({"missing"} \X {f \in Netlists : Exists(t, "source")}) \cup
  ({"no_banner", "edited", "looks_like_stub"} \X Netlists) \cup
  (UnitRules \X units) \cup
  ((SynthRules \cup {"inst_placeholder"}) \X ({"product"} \cap units))

Excusing == GatekeeperTraits \cup {"placeholder", "large"}

WaivedMark(m) ==
  \E w \in Waivers :
    EntryApproved(w) /\ w.rule \in {m[1], "*"} /\ w.file \in {m[2], "*"}

CleanOf(t, units) ==
  /\ t.facts \cap GatedFacts(t) = {}
  /\ \A m \in t.marks \cap GatedMarks(t, units) : WaivedMark(m)

(***************************************************************************)
(* A run that passes on a full machine, of a leaf that no list names, has  *)
(* seen a leaf without any of the defects the gate is there for.  The      *)
(* units are the discovered ones: docs/rules/verif_gate.md:162 has both    *)
(* netlists scanned, see GateShadowedProduct.                              *)
(***************************************************************************)
PassMeansClean ==
  (verdict = "PASS" /\ away = {} /\ tree.facts \cap Excusing = {})
    => CleanOf(tree, DiscoveredFiles(tree))

(***************************************************************************)
(* verif_gate.md:137: a line of the specification in a file is let through *)
(* by an entry of leak_allow.yml or a waiver, and by none of the lists     *)
(* that let other findings through.                                        *)
(***************************************************************************)
LeaksAreNotListed ==
  (verdict = "PASS" /\ "leak_allowed" \notin tree.facts) =>
    \A f \in Marked(tree, "LEAK", LeafFiles) :
      Waived(Waivers, "spec_leak", Finding("LEAK", f))

PortRules ==
  {"HOOKS_PORT_ON_PRODUCT", "HOOKS_PORT_MISMATCH", "HOOKS_PORT_UNEXPECTED",
   "HOOKS_PORT_BAD_NAME", "HOOKS_PORT_DIR", "HOOKS_PORT_WIDTH"}

(***************************************************************************)
(* What a list entry, or what a leaf is, may excuse: the rules and files   *)
(* of verif_gate.md 1 to 1.4, 3 and 6.                                     *)
(***************************************************************************)
MayExcuse(x, t, job, f) ==
  CASE x = "legacy"        ->
         /\ ~LooksGenerated(t, "product")   \* nor does a deleted file
         /\ f.file = "product" \/ f.rule \in PortRules
    [] x = "migrate"       -> f.file \in LeafFiles /\ job # "spec_leak"
    [] x = "handwritten"   ->
         \/ f.file \in Netlists /\ job \in {"emit", "equiv", "hooks_ports"}
         \/ job = "cdc" /\ f.rule \in ResetRules
         \/ f.rule = "STUB_UNLISTED" /\ f.file = "product"
    [] x = "blackbox"      -> job = "synth" \/ f.rule \in {"STUB_UNLISTED", "RDC_UNRESET_ARRAY"}
    [] x = "valid_outside" -> f.rule = "RDC_UNRESET_ARRAY"
    [] x = "hooks_row"     -> f.rule \in {"HOOKS_PORT_MISMATCH", "HOOKS_PORT_UNEXPECTED"}
    [] x = "private"       -> job \in {"lint", "synth", "emit", "equiv"}
    [] x = "leak_allowed"  -> job = "spec_leak"
    [] x = "placeholder"   ->
         \/ job \in {"synth", "cdc", "emit", "equiv", "hooks_ports"}
         \/ f.rule = "PLACEHOLDER_INSTANTIATED"
    [] x = "large"         -> job \in {"synth", "emit", "equiv"}

Without(t, x) == [facts |-> t.facts \ {x}, marks |-> t.marks]

WithoutMark(t, m) == [facts |-> t.facts, marks |-> t.marks \ {m}]

(***************************************************************************)
(* When an entry is taken away, what then blocks is only what that entry   *)
(* may excuse.                                                             *)
(***************************************************************************)
ListsExcuseOnlyTheirs ==
  verdict = "PASS" =>
    \A x \in tree.facts \cap Excusing, job \in JobNames :
      LET t == Without(tree, x)
      IN \A f \in Blocking(t, Waivers, job, FindingsOf(job, t, JobAway(mode, job, away))) :
           MayExcuse(x, t, job, f)

(***************************************************************************)
(* No defect hides another: what passes goes on passing when one of its    *)
(* defects is repaired.                                                    *)
(***************************************************************************)
ListedAs(t, m) ==
  \/ m[1] = "no_banner" /\ IsLegacy(t, m[2])
  \/ m[1] = "missing" /\ OnRoster(t, m[2])
  \/ m = <<"missing", "product">> /\ (IsPrivate(t) \/ IsLargeMem(t))

Repaired(t) ==
  {Without(t, x) : x \in t.facts \cap GatedFacts(t)} \cup
  {WithoutMark(t, m) : m \in
     {n \in t.marks \cap GatedMarks(t, Netlists) : ~ListedAs(t, n)}}

DefectsDoNotMask == verdict = "PASS" => \A t \in Repaired(tree) : Passes(t, away)

(***************************************************************************)
(* A machine that lacks something passes what a full machine refuses only  *)
(* for the comparisons that are documented to be skipped without it.       *)
(***************************************************************************)
SkippedWithout(a) ==
  (IF CanRegenerate(a) THEN {} ELSE {"EMIT_DIFF", "EMIT_FAIL"} \cup ManifestRegened) \cup
  (IF "pyc_src" \in a THEN {"PYC_LIB_UNKNOWN", "PYC_LIB_DIFF"} ELSE {}) \cup
  (IF RequiredOnMain(a) THEN {}
   ELSE {"HASH_SINGLE", "OWNED_PATHS", "PYCLIB_COPY", "PYCLIB_FETCH",
         "PYC_LIB_MISSING", "PRIVATE_IN_PARENT"})

NoPretending ==
  verdict = "PASS" =>
    \A job \in JobNames :
      LET full == JobAway(mode, job, {})
      IN /\ ~Dies(job, tree, full)
         /\ (job = "formal" /\ FormalFails(tree, full)) => "private_assume" \in tree.facts
         /\ \A f \in Blocking(tree, Waivers, job, FindingsOf(job, tree, full)) :
               f.rule \in SkippedWithout(away)

(***************************************************************************)
(* formal_depth.py:3-5, GATE-FORMAL-DEPTH (4): a proof on the HOOKS is     *)
(* taken over to the PRODUCT when equiv of the same run passed.  In CI the *)
(* status is handed on inside a run; locally an earlier run's file stays,  *)
(* and is believed when emit and equiv of this run wrote none.             *)
(***************************************************************************)
InheritedInCi == mode = "ci" /\ inherited = "yes" => proved = "PASS"
=============================================================================
