--------------------------- MODULE UbPrivateLeaf ---------------------------
(***************************************************************************)
(* The public side of private leaves: a contract, and what is made of it.  *)
(*                                                                         *)
(*   gen_private_stub.py   contract -> rtl/<layer>/stub/<leaf>.v, and      *)
(*                         formal/<layer>/cut/<leaf>.sv                    *)
(*   quick_synth --attest  contract, private netlist -> attest, published  *)
(*                         as reports/private/<layer>/<leaf>.yml           *)
(*   contract-check        compares the digests in all of them             *)
(*   quick_synth           puts black boxes and attested areas for them    *)
(*                                                                         *)
(* A digest is sha256 of the contract's YAML: here the YAML itself.  The   *)
(* port list of a leaf is one port, which stands by its width.             *)
(***************************************************************************)
EXTENDS Integers

CONSTANTS
  Leaf,         \* leaves of one layer, numbered as their contracts sort
  Registered,   \* those of private_leaves.yml
  Contracts,    \* what a contract file may hold: its YAML and its prose
  Delays,       \* the worst path a private netlist may have
  OnMain,       \* what origin/main may have: gen_private_stub.py ("script"),
                \* the rule on cuts ("cut_rule")
  MayKeep,      \* --scratch directories: {FALSE} own, TRUE kept by the caller
  MaxSteps,     \* bound: the steps of one behaviour
  None, Handwritten, Unmarked

Widths == {"1", "8", "EID_W"}   \* a number or, as README 8 allows, a parameter

Yaml(c) == c.head               \* the YAML segment, None when there is none

ASSUME LeafAssumption == Leaf \subseteq Nat /\ Registered \subseteq Leaf
ASSUME ContractsAssumption ==
  \A c \in Contracts :
    c.head # None =>
      /\ c.head.leaf \in Leaf /\ c.head.width \in Widths /\ c.head.period \in Nat
      /\ c.head \notin {Handwritten, Unmarked}
ASSUME DelaysAssumption == Delays \subseteq Nat
ASSUME MarksAssumption == Handwritten # Unmarked
ASSUME KeepAssumption == MayKeep \subseteq BOOLEAN
ASSUME StepsAssumption == MaxSteps \in Nat

VARIABLES
  contract,     \* docs/arch/<layer>/contracts/<leaf>.md, or None
  stubDir,      \* the .v files left in pycircuit/<layer>/stub
  stub, cut,    \* what the header says and what the module shows, or None
  setupReport,  \* sta_worst_setup.rpt in the kept scratch directory
  attest,       \* the published attest, or None
  landed,       \* one of OnMain, the same in all of a behaviour
  killed,       \* history: a run of gen_private_stub.py was killed
  steps

plVars == << contract, stubDir, stub, cut, setupReport, attest,
             landed, killed, steps >>

(* What the files may hold.                                                *)
Heads == {Yaml(c) : c \in Contracts} \ {None}

DrawnModules == {[leaf |-> l, width |-> w] : l \in Leaf, w \in Widths}

Drawing == [header : Heads \cup {Handwritten, Unmarked}, body : DrawnModules]

Attest == [digest : Heads, period : Nat, wns : Int \cup {None},
           status : {"PASS", "FAIL"}, met : BOOLEAN]

ASSUME NoneAssumption ==
  None \notin Contracts \cup Drawing \cup Attest /\ None \notin Int

-----------------------------------------------------------------------------
(* Contract files.                                                         *)

Parsed(f) == contract[f] # None /\ Yaml(contract[f]) # None

HeadOf(f) == Yaml(contract[f])

\* by_leaf: of the files that name a leaf the last one counts.
IsDataOf(f, leaf) ==
  /\ Parsed(f) /\ HeadOf(f).leaf = leaf
  /\ \A g \in Leaf : g > f /\ Parsed(g) => HeadOf(g).leaf # leaf

HasData(leaf) == \E f \in Leaf : IsDataOf(f, leaf)

AssertionFindings(c) ==
  {r \in {"CONTRACT_FIELD_MISSING"} : c.head.asserts = {}} \cup
  {r \in {"CONTRACT_ASSERT_UNLISTED"} : c.prose \ c.head.asserts # {}} \cup
  {r \in {"CONTRACT_ASSERT_UNUSED"} : c.head.asserts \ c.prose # {}}

ContractFindings(f) ==
  IF contract[f] = None THEN {}
  ELSE IF ~Parsed(f) THEN {"CONTRACT_YAML"}
  ELSE {r \in {"CONTRACT_FIELD"} : HeadOf(f).leaf # f \/ ~HeadOf(f).sound}
       \cup AssertionFindings(contract[f])

-----------------------------------------------------------------------------
(* gen_private_stub.py.                                                    *)

\* A width that is no number is drawn as one bit, in the stub and the cut.
Drawn(w) == IF w = "EID_W" THEN "1" ELSE w

Module(h) == [leaf |-> h.leaf, width |-> Drawn(h.width)]

\* What lies in the directory when pycc has written its .v.
AfterPycc(h) == {v \in stubDir : v.leaf # h.leaf} \cup {Module(h)}

ProducedKept(dir, v) == dir                          \* fault: no unlink

\* The .v that was taken for the stub is removed, the others stay.
LeftAfter(dir, v) == dir \ {v}

Write(file, leaf, header, body) ==
  [file EXCEPT ![leaf] = [header |-> header, body |-> body]]

\* emit_verilog takes the first .v that glob finds: any of them.
GenerateStub(f) ==
  /\ Parsed(f)
  /\ LET h == HeadOf(f)
     IN \E v \in AfterPycc(h) :
          /\ stub' = Write(stub, h.leaf, h, v)
          /\ stubDir' = LeftAfter(AfterPycc(h), v)
  /\ UNCHANGED << contract, cut, setupReport, attest, landed, killed >>

\* Killed after pycc, before or after the stub is written.
KillGenerateStub(f) ==
  /\ Parsed(f)
  /\ LET h == HeadOf(f)
     IN /\ \/ stub' = stub
           \/ \E v \in AfterPycc(h) : stub' = Write(stub, h.leaf, h, v)
        /\ stubDir' = AfterPycc(h)
  /\ killed' = TRUE
  /\ UNCHANGED << contract, cut, setupReport, attest, landed >>

GenerateCut(f) ==
  /\ Parsed(f)
  /\ cut' = Write(cut, HeadOf(f).leaf, HeadOf(f), Module(HeadOf(f)))
  /\ UNCHANGED << contract, stubDir, stub, setupReport, attest, landed, killed >>

-----------------------------------------------------------------------------
(* quick_synth --attest, on whatever netlist the private repository has by *)
(* now.  A contract that cannot be read, or a tool that times out, ends it *)
(* before anything is written.                                             *)

AttestUntimed(ok, wns) == ok /\ (wns = None \/ wns >= 0)   \* fault: no slack is fine

AttestPasses(ok, wns) == ok /\ wns # None /\ wns >= 0

\* sta's reports are parsed when they are there, whatever sta's status is.
ReportRead(leaf, kept, sta, slack) ==
  CASE sta -> slack
    [] ~sta /\ kept -> setupReport[leaf]
    [] OTHER -> None

RunAttest(leaf, f, kept, yosys, sta, delay) ==
  /\ Parsed(f)
  /\ LET h     == HeadOf(f)
         slack == h.period - delay
         wns   == IF yosys THEN ReportRead(leaf, kept, sta, slack) ELSE None
     IN /\ attest' =
             [attest EXCEPT ![leaf] =
                [digest |-> h, period |-> h.period, wns |-> wns,
                 status |-> IF AttestPasses(yosys, wns) THEN "PASS" ELSE "FAIL",
                 met    |-> yosys /\ sta /\ slack >= 0]]
        /\ setupReport' = IF kept /\ yosys /\ sta
                          THEN [setupReport EXCEPT ![leaf] = slack] ELSE setupReport
  /\ UNCHANGED << contract, stubDir, stub, cut, landed, killed >>

-----------------------------------------------------------------------------
(* A contract is edited.  A stub or a cut is written by hand, the          *)
(* placeholder it is, and says so or has no header.                        *)

EditContract(f) ==
  /\ \E c \in Contracts \cup {None} : contract' = [contract EXCEPT ![f] = c]
  /\ UNCHANGED << stubDir, stub, cut, setupReport, attest, landed, killed >>

WriteByHand(leaf) ==
  /\ \E mark \in {Handwritten, Unmarked} :
       LET body == [leaf |-> leaf, width |-> "1"]
       IN \/ stub' = Write(stub, leaf, mark, body) /\ UNCHANGED cut
          \/ cut' = Write(cut, leaf, mark, body) /\ UNCHANGED stub
  /\ UNCHANGED << contract, stubDir, setupReport, attest, landed, killed >>

-----------------------------------------------------------------------------
(* contract-check: the findings that block.  README 8 marks the assertions *)
(* as required.                                                            *)

HeaderFindings(file, leaf, refused) ==
  CASE file.header = Unmarked    -> {"STUB_HASH_MISSING"}
    [] file.header = Handwritten -> {r \in {"STUB_HANDWRITTEN"} : refused}
    [] OTHER -> {r \in {"STUB_HASH_MISMATCH"} :
                   \E f \in Leaf : IsDataOf(f, leaf) /\ file.header # HeadOf(f)}

LeafStubFindings(leaf) ==
  IF stub[leaf] = None THEN {"STUB_MISSING"}
  ELSE HeaderFindings(stub[leaf], leaf, "script" \in landed)

CutMarkFindings(leaf) ==                     \* fault: the digest is not compared
  {r \in {"STUB_HASH_MISSING"} : cut[leaf] # None /\ cut[leaf].header = Unmarked}

\* A cut is checked where there is one, registered or not.
CutFindings(leaf) ==
  IF cut[leaf] = None THEN {}
  ELSE HeaderFindings(cut[leaf], leaf, "cut_rule" \in landed)

AttestFieldFindings(a) ==
  {r \in {"ATTEST_STATUS"} : a.status # "PASS"} \cup
  {r \in {"ATTEST_WNS"} : a.wns = None \/ ~(a.wns >= 0)}

AttestClockOnly(leaf) ==                     \* fault: the digest is not compared
  IF attest[leaf] = None THEN {"ATTEST_MISSING"}
  ELSE {r \in {"ATTEST_CLOCK_MISMATCH"} : \E f \in Leaf :
          IsDataOf(f, leaf) /\ attest[leaf].period # HeadOf(f).period} \cup
       AttestFieldFindings(attest[leaf])

AttestFindings(leaf) ==
  IF attest[leaf] = None THEN {"ATTEST_MISSING"}
  ELSE {r \in {"ATTEST_HASH_MISMATCH"} : \E f \in Leaf :
          IsDataOf(f, leaf) /\ attest[leaf].digest # HeadOf(f)} \cup
       {r \in {"ATTEST_CLOCK_MISMATCH"} : \E f \in Leaf :
          IsDataOf(f, leaf) /\ attest[leaf].period # HeadOf(f).period} \cup
       AttestFieldFindings(attest[leaf])

ContractCheckPasses ==
  /\ \A f \in Leaf : ContractFindings(f) = {} /\ CutFindings(f) = {}
  /\ \A l \in Registered : LeafStubFindings(l) = {} /\ AttestFindings(l) = {}

-----------------------------------------------------------------------------
(* The public quick synthesis: every leaf with a contract or a stub is a   *)
(* black box with the contract's ports, parameters resolved, and with the  *)
(* area of the attest, whatever contract that is of.                       *)

Resolved(w) == IF w = "EID_W" THEN "8" ELSE w

BlackboxWidth(leaf) ==
  IF HasData(leaf)
  THEN Resolved(HeadOf(CHOOSE f \in Leaf : IsDataOf(f, leaf)).width)
  ELSE stub[leaf].body.width

PrivateFigure(leaf) == attest[leaf]

-----------------------------------------------------------------------------
PlInit ==
  /\ contract \in [Leaf -> Contracts \cup {None}]
  /\ stubDir = {}
  /\ stub = [l \in Leaf |-> None] /\ cut = stub /\ attest = stub
  /\ setupReport = [l \in Leaf |-> None]
  /\ landed \in OnMain /\ killed = FALSE /\ steps = 0

PlStep ==
  \E f \in Leaf :
    \/ GenerateStub(f) \/ KillGenerateStub(f) \/ GenerateCut(f)
    \/ EditContract(f) \/ WriteByHand(f)
    \/ \E leaf \in Leaf, kept \in MayKeep, yosys, sta \in BOOLEAN, delay \in Delays :
         RunAttest(leaf, f, kept, yosys, sta, delay)

PlNext == steps < MaxSteps /\ steps' = steps + 1 /\ PlStep

PlSpec == PlInit /\ [][PlNext]_plVars

-----------------------------------------------------------------------------
(* The types of the files.                                                 *)
PlTypeOK ==
  /\ contract \in [Leaf -> Contracts \cup {None}]
  /\ stubDir \subseteq DrawnModules
  /\ stub \in [Leaf -> Drawing \cup {None}] /\ cut \in [Leaf -> Drawing \cup {None}]
  /\ setupReport \in [Leaf -> Int \cup {None}]
  /\ attest \in [Leaf -> Attest \cup {None}]
  /\ landed \in OnMain /\ killed \in BOOLEAN
  /\ steps \in 0 .. MaxSteps

(* When contract-check passes, the stub of a registered leaf that has a    *)
(* contract is a drawing of its contract file as it is now, unless the     *)
(* rules have not landed and it is marked as written by hand.  A run of    *)
(* the generator that was killed leaves a .v behind that a later run takes *)
(* for the stub of another leaf, under a right digest.                     *)
StubsAreCurrent ==
  ContractCheckPasses /\ ~killed =>
    \A l \in Registered :
      HasData(l) =>
        \/ "script" \notin landed /\ stub[l].header = Handwritten
        \/ stub[l].body = Module(HeadOf(l))

(* What formal cuts out and what lint and emit see of a private leaf has   *)
(* the same ports: two generated drawings never differ when the check      *)
(* passes.                                                                 *)
CutShowsStub ==
  ContractCheckPasses /\ ~killed =>
    \A l \in Registered :
      HasData(l) /\ cut[l] # None /\ Handwritten \notin {stub[l].header, cut[l].header}
        => cut[l].body = stub[l].body

(* The figures that the public report shows of a registered leaf were      *)
(* measured under its present contract, with no path too slow, although    *)
(* quick_synth compares nothing: contract-check has.  That holds while no  *)
(* scratch directory is kept, see PassIsMeasured.                          *)
FiguresAreMeasured ==
  ContractCheckPasses /\ MayKeep = {FALSE} =>
    \A l \in Registered :
      HasData(l) => PrivateFigure(l).digest = HeadOf(l) /\ PrivateFigure(l).met

(* IMP-QS-014: an attest says PASS when the synthesis succeeded and its    *)
(* worst slack is not negative.                                            *)
PassIsMeasured ==
  \A l \in Leaf : attest[l] # None /\ attest[l].status = "PASS" => attest[l].met

(* README 8 of the contracts: a width is a number or a parameter.  What    *)
(* the parents of a leaf are linted and emitted against has the ports of   *)
(* the black box they are synthesised with.                                *)
StubShowsBlackbox ==
  ContractCheckPasses /\ ~killed =>
    \A l \in Registered :
      (HasData(l) /\ stub[l].header \in Heads) => stub[l].body.width = BlackboxWidth(l)
=============================================================================
