---------------------------- MODULE MCUbGateRun ----------------------------
(***************************************************************************)
(* The trees a run may meet: up to two of the defects of a leaf, or one of *)
(* them with up to two of the facts and list entries, on a full machine;   *)
(* and one defect on a machine that lacks one thing.                       *)
(***************************************************************************)
EXTENDS UbGateRun

NetlistRules ==
  {"missing", "no_banner", "edited", "looks_like_stub", "LINT", "read_error",
   "LATCH", "CLOCK_MULTI", "RST_ASYNC_NOT_VIA_SYNC", "RDC_UNRESET_ARRAY", "LEAK",
   "inst_placeholder", "MULTI_MODULE", "PRIVATE_IN_PARENT"}

Marks == (NetlistRules \X Netlists) \cup
         ({"missing", "LEAK", "PY_SYNTAX", "VERILOG_SPLICE"} \X {"source"})

Flaws ==
  {"CONTRACT_BAD", "OWNED_PATHS", "root_on_path", "emit_broken", "stray_primitive",
   "PYC_LIB_DIFF", "pyc_lib_gone", "PYCLIB_COPY", "BLACKBOX_SCHEMA",
   "SBY_FILE_MISSING", "sby_fails", "private_assume", "bmc_shallow", "regmap_stale",
   "REGMAP_VARIANT_VL", "test_skips", "private_yml_bad", "TOOLCHAIN_LOCK_CONFLICT",
   "product_tb", "hooks_extra", "port_missing", "port_dir", "port_width",
   "obs_input", "bad_style", "differs_early", "differs_late", "differs_late_inside",
   "differs_under_test", "registers_differ", "MANIFEST_FIELDS", "MANIFEST_SHA",
   "no_origin_mark"}

Facts ==
  GatekeeperTraits \cup
  {"placeholder", "large", "hooks_renamed", "source_changed", "netlists_renewed",
   "dirty", "no_sby", "product_prove", "no_regmap"}

Single(S) == {{}} \cup {{x} : x \in S}
Pairs(S)  == {{}} \cup {{x, y} : x, y \in S}

T(f, m) == [facts |-> f, marks |-> m]

Trees ==
  {t \in {T(f, {}) : f \in Pairs(Flaws)} \cup {T({}, m) : m \in Pairs(Marks)} \cup
         {T({x}, {m}) : x \in Flaws, m \in Marks} \cup
         {T(f \cup g, m) : f \in Pairs(Facts), g \in Single(Flaws), m \in {{}}} \cup
         {T(f, {m}) : f \in Pairs(Facts), m \in Marks} \cup
         {T({"source_changed", "netlists_renewed", "dirty"}, {})} : WellFormed(t)}

MCWorlds ==
  {[tree |-> t, away |-> {}] : t \in Trees} \cup
  {[tree |-> t, away |-> {x}] :
     t \in {T(f, {}) : f \in Single(Flaws)} \cup {T({}, {m}) : m \in Marks}, x \in Things}

(***************************************************************************)
(* Few trees, for the behaviours of two runs with a change between them.   *)
(***************************************************************************)
TwoRunFlaws == {"differs_early", "emit_broken", "bmc_shallow", "sby_fails", "private_yml_bad"}

TwoRunTrees ==
  {T(f \cup g, m) : f \in Pairs(TwoRunFlaws),
                    g \in SUBSET {"product_prove", "private"},
                    m \in Single({"read_error"} \X Netlists)}

TwoRunWorlds ==
  {[tree |-> t, away |-> a] : t \in TwoRunTrees, a \in Single({"yosys", "sby", "pycc"})}

AllWorlds == MCWorlds \cup TwoRunWorlds

(***************************************************************************)
(* One approved waiver, one draft, and one of an approver who may not.     *)
(***************************************************************************)
Entry(check, rule, file, approver, status) ==
  [check |-> check, rule |-> rule, file |-> file, approver |-> approver, status |-> status]

MCWaivers ==
  {Entry("lint", "LINT", "product", "gatekeeper", "approved"),
   Entry("synth", "LATCH", "*", "gatekeeper", "draft"),
   Entry("lint", "read_error", "hooks", "author", "approved")}
=============================================================================
