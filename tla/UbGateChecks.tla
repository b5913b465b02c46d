---------------------------- MODULE UbGateChecks ----------------------------
(***************************************************************************)
(* What each job of the gate finds in a tree (scripts/gate/*.py).          *)
(*                                                                         *)
(* An operator FindingsOf<Job> is the whole of the job's main: the files   *)
(* it visits, the ones it skips and the rules it reports.  "away" is what  *)
(* the machine that runs the job lacks: a tool, the locked pyCircuit       *)
(* source, or the ref origin/main that the switches of the newer rules     *)
(* are read from.                                                          *)
(***************************************************************************)
EXTENDS UbGateTree

Things == {"verilator", "yosys", "sby", "iverilog", "pytest", "pycc",
           "pyc_src", "emit_script", "origin_main"}

(***************************************************************************)
(* A rule that blocks "once #47 is on main" reads its switch from          *)
(* origin/main, and only reports where that ref is unknown.                *)
(***************************************************************************)
RequiredOnMain(away) == "origin_main" \notin away

Switched(away, rule, file) ==
  IF RequiredOnMain(away) THEN Finding(rule, file) ELSE Report(rule, file)

Marked(t, rule, files) == {f \in files : Exists(t, f) /\ <<rule, f>> \in t.marks}

FindEach(t, rules, files) ==
  {Finding(m[1], m[2]) : m \in
     {p \in rules \X files : Exists(t, p[2]) /\ p \in t.marks}}

-----------------------------------------------------------------------------
(***************************************************************************)
(* spec-leak: every file but the approved ones of leak_allow.yml.          *)
(***************************************************************************)
FindingsOfLeak(t) ==
  {Finding("LEAK", f) : f \in
     {g \in Marked(t, "LEAK", LeafFiles) : "leak_allowed" \notin t.facts}}

(***************************************************************************)
(* contract-check: contracts, stubs and attests (UbPrivateLeaf), with the  *)
(* two rules whose switch is on main.                                      *)
(***************************************************************************)
FindingsOfContract(t, away) ==
  {Finding(r, "repo") : r \in {"CONTRACT_BAD"} \cap t.facts} \cup
  {Switched(away, r, "repo") : r \in {"HASH_SINGLE", "OWNED_PATHS"} \cap t.facts}

(***************************************************************************)
(* hooks-port-consistency.                                                 *)
(***************************************************************************)
HooksRow(t) == "hooks_row" \in t.facts

NamesDiffer(t) ==
  \/ "port_missing" \in t.facts
  \/ ("hooks_extra" \in t.facts) # HooksRow(t)

PortFindings(t) ==
  {Finding("HOOKS_PORT_ON_PRODUCT", "product") : x \in {"product_tb"} \cap t.facts} \cup
  {Finding(r, "hooks") : r \in
     {q \in {"HOOKS_PORT_MISMATCH", "HOOKS_PORT_UNEXPECTED",
             "HOOKS_PORT_BAD_NAME", "HOOKS_PORT_DIR", "HOOKS_PORT_WIDTH"} :
        \/ q = "HOOKS_PORT_MISMATCH" /\ NamesDiffer(t)
        \/ /\ q = "HOOKS_PORT_UNEXPECTED"
           /\ ~HooksRow(t)
           /\ {"hooks_extra", "product_tb"} \cap t.facts # {}
        \/ q = "HOOKS_PORT_BAD_NAME" /\ HooksRow(t) /\ "bad_style" \in t.facts
        \/ q = "HOOKS_PORT_DIR" /\ HooksRow(t) /\ "obs_input" \in t.facts
        \/ /\ HooksRow(t) \/ ~NamesDiffer(t)
           /\ \/ q = "HOOKS_PORT_DIR"   /\ "port_dir" \in t.facts
              \/ q = "HOOKS_PORT_WIDTH" /\ "port_width" \in t.facts}}

HooksSkipped(t) ==
  \/ ~IsLeafPair(t) \/ IsPlaceholder(t) \/ ~Exists(t, "product")
  \/ IsHandwritten(t, "product") \/ IsLegacy(t, "product")

HooksCompared(t) == ~HooksSkipped(t) /\ Exists(t, "hooks")

FindingsOfHooks(t) ==
  IF HooksSkipped(t) THEN {}
  ELSE IF Exists(t, "hooks") THEN PortFindings(t)
  ELSE {Finding("HOOKS_MISSING", "product")}

-----------------------------------------------------------------------------
(***************************************************************************)
(* rtl-emit-consistency and equiv: the static part.                        *)
(***************************************************************************)
ImportRootFindings(t) ==
  {Finding("IMPORT_ROOT_SHADOW", "repo") : x \in {"root_on_path"} \cap t.facts}

(***************************************************************************)
(* A PRODUCT netlist may not instantiate a placeholder cell; the parent is *)
(* looked up among the units, so a PRODUCT shadowed by its HOOKS is not.   *)
(***************************************************************************)
PlaceholderFindings(t) ==
  {Finding("PLACEHOLDER_INSTANTIATED", f) : f \in
     {g \in Marked(t, "inst_placeholder", {"product"} \cap DiscoveredFiles(t)) :
        ~IsPlaceholder(t)}} \cup
  {Finding("PLACEHOLDER_SOURCE_MISSING", f) : f \in
     {g \in {"source", "product"} :
        /\ IsPlaceholder(t) /\ "no_origin_mark" \in t.facts
        /\ Exists(t, g)
        /\ g = "product" => ~Exists(t, "source")}}

(***************************************************************************)
(* emit_rtl.py runs in a detached worktree of HEAD, and what it writes is  *)
(* compared with the files of the working tree.  A "dirty" tree has not    *)
(* been committed: HEAD holds the source as it was.                        *)
(***************************************************************************)
HeadSourceChanged(t) == "source_changed" \in t.facts /\ "dirty" \notin t.facts

EmitDiffers(t, f) ==
  IF ~Exists(t, f) THEN Exists(t, "source")
  ELSE /\ ~IsHandwritten(t, f)
       /\ IF Exists(t, "source")
          THEN \/ <<"edited", f>> \in t.marks
               \/ ("netlists_renewed" \in t.facts) # HeadSourceChanged(t)
          ELSE LooksGenerated(t, f)

CanRegenerate(away) == {"emit_script", "pycc"} \cap away = {}

RegenReported(t, away) ==          \* fault: a failed emit only reports
  IF ~CanRegenerate(away) THEN {Report("EMIT_SKIP", "repo")}
  ELSE IF "emit_broken" \in t.facts THEN {Report("EMIT_FAIL", "repo")}
  ELSE {Finding("EMIT_DIFF", f) : f \in {g \in Netlists : EmitDiffers(t, g)}}

RegenFindings(t, away) ==
  IF ~CanRegenerate(away) THEN {Report("EMIT_SKIP", "repo")}
  ELSE IF "emit_broken" \in t.facts THEN {Finding("EMIT_FAIL", "repo")}
  ELSE {Finding("EMIT_DIFF", f) : f \in {g \in Netlists : EmitDiffers(t, g)}}

(***************************************************************************)
(* Variants over the threshold: never committed as .v, listed in the       *)
(* manifest instead; what can only be seen by emitting them again is       *)
(* checked when that is possible.                                          *)
(***************************************************************************)
ManifestStatic  == {"MANIFEST_UNREADABLE", "MANIFEST_EMPTY", "MANIFEST_FIELDS"}
ManifestRegened == {"MANIFEST_UNPRODUCIBLE", "MANIFEST_SHA", "MANIFEST_BODY_DIFF"}

ManifestFindings(t, verify) ==
  {Finding("LARGE_V_COMMITTED", f) : f \in
     {g \in {"product"} : IsLargeMem(t) /\ Exists(t, g) /\ ~IsHandwritten(t, g)}} \cup
  {Finding(r, "lists") : r \in ManifestStatic \cap t.facts} \cup
  (IF verify THEN {Finding(r, "lists") : r \in ManifestRegened \cap t.facts}
   ELSE {Report("MANIFEST_SKIP", "lists")})

PycLibFindings(t, away) ==
  {Finding("PYC_PRIMITIVE_STRAY", "repo") : x \in {"stray_primitive"} \cap t.facts} \cup
  (IF "pyc_lib_gone" \in t.facts THEN {Switched(away, "PYC_LIB_MISSING", "pyclib")}
   ELSE IF "pyc_src" \in away THEN {Report("PYC_LIB_SKIP", "pyclib")}
   ELSE {Finding(r, "pyclib") : r \in {"PYC_LIB_UNKNOWN", "PYC_LIB_DIFF"} \cap t.facts}) \cup
  {Switched(away, r, "repo") : r \in {"PYCLIB_COPY", "PYCLIB_FETCH"} \cap t.facts}

UnlistedFindings(t) ==
  {Finding("HANDWRITTEN_UNLISTED", f) : f \in
     {g \in Netlists :
        Exists(t, g) /\ ~IsHandwritten(t, g) /\ ~LooksGenerated(t, g)}}

-----------------------------------------------------------------------------
(***************************************************************************)
(* PRODUCT against HOOKS on the PRODUCT's ports, the HOOKS' other inputs   *)
(* tied low.  What can differ: an output within 16 cycles of all-zero      *)
(* registers ("differs_early"); only later, with the $equiv cell of the    *)
(* output itself unproven ("differs_late") or only cells of registers      *)
(* ("differs_late_inside"); only while a test input is high                *)
(* ("differs_under_test"); nothing, but the registers do not pair up       *)
(* ("registers_differ").                                                   *)
(***************************************************************************)
PortsClash(t) == {"port_missing", "port_dir", "port_width"} \cap t.facts # {}

OutputUnproven(t) == {"differs_early", "differs_late"} \cap t.facts # {}

ProvenByInduction(t) ==
  /\ ~PortsClash(t)
  /\ {"differs_early", "differs_late", "differs_late_inside",
      "registers_differ"} \cap t.facts = {}

HoldsFor16Cycles(t) == ~PortsClash(t) /\ "differs_early" \notin t.facts

EquivProven(t) ==
  \/ ProvenByInduction(t)
  \/ ~OutputUnproven(t) /\ HoldsFor16Cycles(t)

(***************************************************************************)
(* The loop over the leaf pairs: why a leaf is not compared, in the order  *)
(* of the code's continues.                                                *)
(***************************************************************************)
EquivRoute(t) ==
  IF ~IsLeafPair(t) THEN "no_pair"
  ELSE IF IsPrivate(t) THEN "private"
  ELSE IF IsPlaceholder(t) THEN "placeholder"
  ELSE IF Exists(t, "product") /\ IsHandwritten(t, "product") THEN "handwritten"
  ELSE IF ~Exists(t, "product") THEN "no_product"
  ELSE IF IsLegacy(t, "product") THEN "legacy"
  ELSE IF ~Exists(t, "hooks") THEN "no_hooks"
  ELSE IF IsLargeMem(t) THEN "large"
  ELSE "compare"

BodiesDiffer(t) ==
  \E p \in {"edited"} \X Netlists : p \in t.marks

EquivFindings(t) ==
  CASE EquivRoute(t) = "private"    -> {Report("PRIVATE_SKIP", "product")}
    [] EquivRoute(t) = "no_product" -> {Finding("PRODUCT_MISSING", "product")}
    [] EquivRoute(t) = "no_hooks"   -> {Finding("HOOKS_MISSING", "product")}
    [] EquivRoute(t) = "large"      ->
         PortFindings(t) \cup
         (IF BodiesDiffer(t) THEN {Finding("CMN_MEM_BODY_DIFF", "product")} ELSE {})
    [] EquivRoute(t) = "compare"    ->
         IF EquivProven(t) THEN {} ELSE {Finding("EQUIV_FAIL", "product")}
    [] OTHER -> {}

(***************************************************************************)
(* The entry of the leaf in equiv_status.json, "absent" for none.          *)
(***************************************************************************)
EquivStatusOf(t) ==
  CASE EquivRoute(t) = "private"     -> "PRIVATE_SKIP"
    [] EquivRoute(t) = "placeholder" -> "SKIP"
    [] EquivRoute(t) = "compare"     -> IF EquivProven(t) THEN "PASS" ELSE "FAIL"
    [] OTHER -> "absent"

StopsAtEmitFail(t, away) ==
  CanRegenerate(away) /\ "emit_broken" \in t.facts

FindingsOfEmit(t, away) ==
  ImportRootFindings(t) \cup PlaceholderFindings(t) \cup RegenFindings(t, away) \cup
  ManifestFindings(t, CanRegenerate(away)) \cup
  PycLibFindings(t, away) \cup
  (IF StopsAtEmitFail(t, away) THEN {}
   ELSE UnlistedFindings(t) \cup EquivFindings(t))

FindingsOfEquiv(t, away) ==
  ImportRootFindings(t) \cup ManifestFindings(t, FALSE) \cup
  PycLibFindings(t, away) \cup EquivFindings(t)

(***************************************************************************)
(* parse_port_decls has yosys read the two netlists, and ends the job when *)
(* it is not there or cannot.                                              *)
(***************************************************************************)
PortsUnreadable(t, away) ==
  "yosys" \in away \/ Marked(t, "read_error", Netlists) # {}

ComparesPorts(t) == EquivRoute(t) \in {"compare", "large"}

-----------------------------------------------------------------------------
(***************************************************************************)
(* pycircuit-provenance: the source as Python, without and with pycc.      *)
(***************************************************************************)
FindingsOfProvenance(t, away) ==
  ImportRootFindings(t) \cup PlaceholderFindings(t) \cup
  (IF Marked(t, "PY_SYNTAX", {"source"}) # {} THEN {Finding("PY_SYNTAX", "source")}
   ELSE FindEach(t, {"NO_PYCIRCUIT_IMPORT", "VERILOG_SPLICE"}, {"source"})) \cup
  {Report("PYCC_UNAVAILABLE", "repo") : x \in {"pycc"} \cap away}

(***************************************************************************)
(* lint: the list of stubs and the files that look like one, one module a  *)
(* file, and verilator on every unit that is no private leaf.              *)
(***************************************************************************)
StubFindings(t) ==
  {Finding(r, "lists") : r \in {"BLACKBOX_SCHEMA", "BLACKBOX_KIND"} \cap t.facts} \cup
  {Finding("STUB_UNLISTED", f) : f \in
     {g \in Marked(t, "looks_like_stub", Netlists) :
        ~IsHandwritten(t, g) /\ ~IsStubListed(t)}} \cup
  {Report("STUB_TIMING", f) : f \in
     {g \in Netlists : Exists(t, g) /\ IsStubListed(t) /\ ~IsHandwritten(t, g)}}

OneModuleFindings(t, away) ==
  {Switched(away, "PRIVATE_IN_PARENT", f) : f \in Marked(t, "PRIVATE_IN_PARENT", Netlists)} \cup
  {Report("MULTI_MODULE", f) : f \in Marked(t, "MULTI_MODULE", Netlists)}

FindingsOfLint(t, away) ==
  StubFindings(t) \cup OneModuleFindings(t, away) \cup
  (IF IsPrivate(t) THEN {Report("PRIVATE_SKIP", f) : f \in DiscoveredFiles(t)}
   ELSE FindEach(t, {"LINT", "read_error"}, DiscoveredFiles(t)))

(***************************************************************************)
(* synth-check: the PRODUCT units.  Of the errors that end yosys only the  *)
(* ones of reading a file are parsed; the fall-back for any other exit     *)
(* code asks that nothing was found, and COMBO_DEPTH always is: a netlist  *)
(* that hierarchy -check refuses ("hierarchy_error") yields nothing new.   *)
(***************************************************************************)
SynthRules == {"LATCH", "MULTI_DRIVE", "COMBO_LOOP", "SYNTH_TIMEOUT", "read_error"}

SynthUnits(t) == IF IsPlaceholder(t) THEN {} ELSE {"product"} \cap DiscoveredFiles(t)

FindingsOfSynth(t) ==
  IF SynthUnits(t) = {} THEN {}
  ELSE IF IsPrivate(t) THEN {Report("PRIVATE_SKIP", "product")}
  ELSE IF IsStubListed(t) THEN {}
  ELSE IF IsLargeMem(t) THEN {Report("CMN_MEM_LARGE", "product")}
  ELSE FindEach(t, SynthRules, SynthUnits(t)) \cup {Report("COMBO_DEPTH", "product")}

(***************************************************************************)
(* cdc-rdc: every unit that is no placeholder.  A handwritten cell is a    *)
(* reset synchroniser and may have what only those may have.               *)
(***************************************************************************)
ClockRules == {"CLOCK_MULTI", "CLOCK_FORBIDDEN", "CLOCK_NOT_CORE"}
ResetRules == {"RST_ASYNC_NOT_VIA_SYNC", "RST_SYNC_MISSING", "ASYNC_INPUT_UNSYNC"}

FindingsOfCdc(t) ==
  IF IsPlaceholder(t) THEN {}
  ELSE LET units == DiscoveredFiles(t)
       IN FindEach(t, ClockRules, units) \cup
          (IF "handwritten" \in t.facts THEN {} ELSE FindEach(t, ResetRules, units)) \cup
          (IF {"blackbox", "valid_outside"} \subseteq t.facts THEN {}
           ELSE FindEach(t, {"RDC_UNRESET_ARRAY"}, units))

(***************************************************************************)
(* formal: the binds, then every .sby of the list, then the depth report   *)
(* and the parents' assumptions.  The list is read through a process       *)
(* substitution: a lister that dies leaves it empty, and an empty list is  *)
(* a pass.                                                                 *)
(***************************************************************************)
BindFindings(t) ==
  {Finding(r, "sby") : r \in
     {"SBY_FILE_MISSING", "BIND_NETLIST_MISSING", "BIND_SIGNAL_MISSING"} \cap t.facts}

SbyListed(t) == "no_sby" \notin t.facts /\ "private_yml_bad" \notin t.facts /\ ~IsPrivate(t)

DepthFindings(t, equivStatus) ==
  {Report("FORMAL_BMC_SHALLOW", "sby") : x \in {"bmc_shallow"} \cap t.facts} \cup
  {Report("FORMAL_INHERIT_NO_EQUIV", "sby") : x \in
     {y \in {"product_prove"} \cap t.facts : equivStatus # "PASS"}}

ParentFreeFindings(t, away) ==
  {Switched(away, "FORMAL_PRIVATE_ASSUME", "sby") : x \in {"private_assume"} \cap t.facts}

(***************************************************************************)
(* regmap-consistency.  What is not on the tree yet is skipped.            *)
(***************************************************************************)
RegmapRules == {"REGMAP_VARIANTS_MISSING", "REGMAP_PRODUCT_SCR_PLACEHOLDER",
                "REGMAP_SCR_PLACEHOLDER_VALUE", "REGMAP_VARIANT_LANES",
                "REGMAP_VARIANT_VL"}

FindingsOfRegmap(t) ==
  (IF "no_regmap" \in t.facts THEN {}
   ELSE IF "REGMAP_YAML_INVALID" \in t.facts THEN {Finding("REGMAP_YAML_INVALID", "repo")}
   ELSE {Finding(r, "repo") : r \in RegmapRules \cap t.facts}) \cup
  {Finding("REGMAP_GEN_CHECK", "repo") : x \in
     {y \in {"regmap_stale"} \cap t.facts : "no_gen_regmap" \notin t.facts}}

(***************************************************************************)
(* tb-selfcheck exits 0 only with its tools there, no suite's test failed  *)
(* or skipped, and make at 0; it makes no findings.                        *)
(***************************************************************************)
TbPassesUnrun(t, away) ==          \* fault: tools that are gone are skipped
  \/ {"pytest", "iverilog", "verilator"} \cap away # {}
  \/ {"test_fails", "test_skips", "cocotb_fails"} \cap t.facts = {}

TbPasses(t, away) ==
  /\ {"pytest", "iverilog", "verilator"} \cap away = {}
  /\ {"test_fails", "test_skips", "cocotb_fails"} \cap t.facts = {}
=============================================================================
