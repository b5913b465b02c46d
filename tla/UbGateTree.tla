----------------------------- MODULE UbGateTree -----------------------------
(***************************************************************************)
(* One RTL leaf as the gate's jobs see it (scripts/gate/gatelib.py).       *)
(*                                                                         *)
(* A tree is the set of traits by which a leaf of the repository differs   *)
(* from a clean, freshly generated, unlisted one.  A trait is either a     *)
(* defect, a fact about how the leaf is named or kept, or an entry on one  *)
(* of the lists the gatekeeper owns.  A defect of one netlist is a pair    *)
(* <<kind, file>>.                                                         *)
(***************************************************************************)
EXTENDS Naturals, FiniteSets

(***************************************************************************)
(* The files of the leaf, and the repository files a finding can name.     *)
(***************************************************************************)
LeafFiles == {"product", "hooks", "source"}
Netlists  == {"product", "hooks"}
Files     == LeafFiles \cup {"sby", "lists", "pyclib", "repo"}

(***************************************************************************)
(* What a file of the repository can be, in the lists' eyes.  An entry is  *)
(* a trait only when its approver is a gatekeeper of waivers/approvers.yml *)
(* and its status is not a draft; "draft" stands for any entry that fails  *)
(* that test.                                                              *)
(***************************************************************************)
GatekeeperTraits ==
  {"handwritten", "legacy", "migrate", "blackbox", "valid_outside",
   "hooks_row", "private", "leak_allowed"}

EntryApproved(entry) ==
  /\ entry.approver = "gatekeeper"
  /\ entry.status \notin {"draft", "pending", "todo"}

IsHandwritten(t, f) == f = "product" /\ "handwritten" \in t.facts

IsMigrate(t, f) == f \in LeafFiles /\ "migrate" \in t.facts

Exists(t, f) == f \in LeafFiles => <<"missing", f>> \notin t.marks

LooksGenerated(t, f) ==
  f \in Netlists /\ Exists(t, f) /\ <<"no_banner", f>> \notin t.marks

(***************************************************************************)
(* legacy.txt names the PRODUCT file.  A generated file is never legacy,   *)
(* and neither is a handwritten cell.                                      *)
(***************************************************************************)
IsLegacyAnyway(t, f) ==          \* fault: a rewritten file stays legacy
  f = "product" /\ "legacy" \in t.facts /\ ~IsHandwritten(t, f)

IsLegacy(t, f) ==
  /\ f = "product"
  /\ "legacy" \in t.facts
  /\ ~LooksGenerated(t, f)
  /\ ~IsHandwritten(t, f)

OnRoster(t, f) ==
  \/ f = "product" /\ "legacy" \in t.facts
  \/ f \in LeafFiles /\ "migrate" \in t.facts

IsPlaceholder(t) == "placeholder" \in t.facts
IsPrivate(t)     == "private" \in t.facts
IsStubListed(t)  == "blackbox" \in t.facts
IsLargeMem(t)    == "large" \in t.facts

(***************************************************************************)
(* discover_rtl keys the units by the name the module declares, and reads  *)
(* rtl/<layer>/ before rtl/<layer>/hooks/: of a PRODUCT and a HOOKS file   *)
(* that declare the same name only the HOOKS file is a unit.               *)
(***************************************************************************)
DiscoveredFiles(t) ==
  LET there == {f \in Netlists : Exists(t, f)}
  IN IF "hooks_renamed" \in t.facts \/ "hooks" \notin there
     THEN there
     ELSE {"hooks"}

(***************************************************************************)
(* A leaf is paired with its HOOKS when it has a source, or a PRODUCT file *)
(* that the handwritten list does not name.                                *)
(***************************************************************************)
IsLeafPair(t) ==
  \/ Exists(t, "source")
  \/ Exists(t, "product") /\ ~IsHandwritten(t, "product")

-----------------------------------------------------------------------------
(***************************************************************************)
(* Findings, and what emit_report makes of them.                           *)
(***************************************************************************)
Buckets == {"new", "legacy", "migrate", "report"}

Finding(rule, file)  == [rule |-> rule, file |-> file, bucket |-> "new"]
Report(rule, file)   == [rule |-> rule, file |-> file, bucket |-> "report"]

AlwaysNew == {"PLACEHOLDER_INSTANTIATED", "PLACEHOLDER_SOURCE_MISSING"}

BucketOfAnyCheck(t, check, f) ==   \* fault: leaks are classified like the rest
  IF f.bucket = "report" THEN "report"
  ELSE IF f.rule \in AlwaysNew \/ IsHandwritten(t, f.file) THEN "new"
  ELSE IF IsMigrate(t, f.file) THEN "migrate"
  ELSE IF IsLegacy(t, f.file) THEN "legacy"
  ELSE "new"

BucketOf(t, check, f) ==
  IF f.bucket = "report" THEN "report"
  ELSE IF check = "spec_leak" \/ f.rule \in AlwaysNew THEN "new"
  ELSE IF IsHandwritten(t, f.file) THEN "new"
  ELSE IF IsMigrate(t, f.file) THEN "migrate"
  ELSE IF IsLegacy(t, f.file) THEN "legacy"
  ELSE "new"

(***************************************************************************)
(* A waiver names a check and, unless the field is left out ("*"), a rule  *)
(* and a file.                                                             *)
(***************************************************************************)
WaiverMatches(w, check, f) ==
  /\ w.check = check
  /\ w.rule \in {f.rule, "*"}
  /\ w.file \in {f.file, "*"}

WaivedByAny(waivers, check, f) ==   \* fault: drafts and authors waive
  \E w \in waivers : WaiverMatches(w, check, f)

Waived(waivers, check, f) ==
  \E w \in waivers : EntryApproved(w) /\ WaiverMatches(w, check, f)

Deleted(t, f) == ~Exists(t, f.file) /\ OnRoster(t, f.file)

LockFindings(t) ==
  {Finding(r, "lists") : r \in
     {"TOOLCHAIN_LOCK_CONFLICT", "TOOLCHAIN_LOCK_INCOMPLETE"} \cap t.facts}

(***************************************************************************)
(* The findings that make the job exit with 1: the lock's findings are     *)
(* added, each finding is classified and matched with the waivers, the     *)
(* ones of a listed file that is gone are taken out, and of the rest the   *)
(* unwaived "new" ones block.                                              *)
(***************************************************************************)
Blocking(t, waivers, check, findings) ==
  {f \in findings \cup LockFindings(t) :
     /\ BucketOf(t, check, f) = "new"
     /\ ~Waived(waivers, check, f)
     /\ ~Deleted(t, f)}
=============================================================================
