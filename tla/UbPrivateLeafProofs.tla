------------------------ MODULE UbPrivateLeafProofs ------------------------
(***************************************************************************)
(* Proofs about UbPrivateLeaf, for every set of leaves, contracts and      *)
(* delays, and any number of steps.                                        *)
(***************************************************************************)
EXTENDS UbPrivateLeaf, TLAPS

(***************************************************************************)
(* Contracts and what is drawn of them.                                    *)
(***************************************************************************)
LEMMA HeadsType ==
  ASSUME NEW h \in Heads
  PROVE  /\ h.leaf \in Leaf /\ h.width \in Widths /\ h.period \in Nat
         /\ h # Handwritten /\ h # Unmarked /\ h # None
  BY ContractsAssumption DEF Heads, Yaml

LEMMA ModuleType ==
  ASSUME NEW h \in Heads
  PROVE  Module(h) \in DrawnModules
<1>1. Drawn(h.width) \in Widths
  BY HeadsType DEF Drawn, Widths
<1> QED BY <1>1, HeadsType DEF Module, DrawnModules

LEMMA HeadOfType ==
  ASSUME PlTypeOK, NEW f \in Leaf, Parsed(f)
  PROVE  HeadOf(f) \in Heads
  BY DEF PlTypeOK, Parsed, HeadOf, Heads, Yaml

LEMMA WriteType ==
  ASSUME NEW file \in [Leaf -> Drawing \cup {None}], NEW l \in Leaf,
         NEW h \in Heads \cup {Handwritten, Unmarked}, NEW v \in DrawnModules
  PROVE  /\ Write(file, l, h, v) \in [Leaf -> Drawing \cup {None}]
         /\ Write(file, l, h, v)[l] = [header |-> h, body |-> v]
         /\ \A m \in Leaf : m # l => Write(file, l, h, v)[m] = file[m]
<1>1. [header |-> h, body |-> v] \in Drawing
  BY DEF Drawing
<1> QED BY <1>1 DEF Write

LEMMA AfterPyccType ==
  ASSUME PlTypeOK, NEW h \in Heads
  PROVE  AfterPycc(h) \subseteq DrawnModules
  BY ModuleType DEF AfterPycc, PlTypeOK

(***************************************************************************)
(* The attest that one run writes: its type, and when the scratch          *)
(* directory is its own, that a PASS was measured.                         *)
(***************************************************************************)
LEMMA AttestWritten ==
  ASSUME PlTypeOK, NEW leaf \in Leaf, NEW f \in Leaf, NEW kept \in MayKeep,
         NEW yosys \in BOOLEAN, NEW sta \in BOOLEAN, NEW delay \in Delays,
         RunAttest(leaf, f, kept, yosys, sta, delay)
  PROVE  /\ attest' \in [Leaf -> Attest \cup {None}]
         /\ setupReport' \in [Leaf -> Int \cup {None}]
         /\ kept = FALSE => (attest'[leaf].status = "PASS" => attest'[leaf].met)
         /\ \A l \in Leaf : l # leaf => attest'[l] = attest[l]
<1> DEFINE h     == HeadOf(f)
           slack == h.period - delay
           wns   == IF yosys THEN ReportRead(leaf, kept, sta, slack) ELSE None
           a     == [digest |-> h, period |-> h.period, wns |-> wns,
                     status |-> IF AttestPasses(yosys, wns) THEN "PASS" ELSE "FAIL",
                     met    |-> yosys /\ sta /\ slack >= 0]
<1>1. h \in Heads /\ h.period \in Nat
  BY HeadOfType, HeadsType DEF RunAttest
<1>2. slack \in Int
  BY <1>1, DelaysAssumption
<1>3. setupReport[leaf] \in Int \cup {None}
  BY DEF PlTypeOK
<1>4. /\ attest' = [attest EXCEPT ![leaf] = a]
      /\ setupReport' = IF kept /\ yosys /\ sta
                        THEN [setupReport EXCEPT ![leaf] = slack] ELSE setupReport
  BY DEF RunAttest
<1> HIDE DEF h
<1>5. wns \in Int \cup {None}
  BY <1>2, <1>3 DEF ReportRead
<1>6. a.met \in BOOLEAN
  OBVIOUS
<1>7. a \in Attest
  BY <1>1, <1>5, <1>6 DEF Attest
<1>8. kept = FALSE => (a.status = "PASS" => a.met)
  <2> SUFFICES ASSUME kept = FALSE, a.status = "PASS" PROVE a.met
    OBVIOUS
  <2>1. AttestPasses(yosys, wns)
    OBVIOUS
  <2>2. yosys /\ wns # None /\ wns >= 0
    BY <2>1 DEF AttestPasses
  <2>3. sta /\ wns = slack
    BY <2>2 DEF ReportRead
  <2> QED BY <2>2, <2>3
<1> HIDE DEF a, slack
<1>9. attest' \in [Leaf -> Attest \cup {None}] /\ attest'[leaf] = a
  BY <1>4, <1>7 DEF PlTypeOK
<1>10. setupReport' \in [Leaf -> Int \cup {None}]
  BY <1>2, <1>4 DEF PlTypeOK
<1>11. \A l \in Leaf : l # leaf => attest'[l] = attest[l]
  BY <1>4 DEF PlTypeOK
<1> QED BY <1>8, <1>9, <1>10, <1>11

-----------------------------------------------------------------------------
(***************************************************************************)
(* The types hold of every reachable state.                                *)
(***************************************************************************)
THEOREM PlTypeCorrect == PlSpec => []PlTypeOK
<1>1. PlInit => PlTypeOK
  <2> SUFFICES ASSUME PlInit PROVE PlTypeOK
    OBVIOUS
  <2>1. killed \in BOOLEAN
    BY Zenon DEF PlInit
  <2> QED BY <2>1, StepsAssumption DEF PlInit, PlTypeOK
<1>2. PlTypeOK /\ [PlNext]_plVars => PlTypeOK'
  <2> SUFFICES ASSUME PlTypeOK, [PlNext]_plVars PROVE PlTypeOK'
    OBVIOUS
  <2>1. CASE UNCHANGED plVars
    BY <2>1 DEF plVars, PlTypeOK
  <2>2. CASE PlNext
    <3>1. steps' \in 0 .. MaxSteps
      BY <2>2, StepsAssumption DEF PlNext, PlTypeOK
    <3>2. PICK f \in Leaf :
            \/ GenerateStub(f) \/ KillGenerateStub(f) \/ GenerateCut(f)
            \/ EditContract(f) \/ WriteByHand(f)
            \/ \E leaf \in Leaf, kept \in MayKeep, yosys, sta \in BOOLEAN, delay \in Delays :
                 RunAttest(leaf, f, kept, yosys, sta, delay)
      BY <2>2 DEF PlNext, PlStep
    <3>3. CASE GenerateStub(f)
      <4>1. HeadOf(f) \in Heads /\ HeadOf(f).leaf \in Leaf
        BY <3>3, HeadOfType, HeadsType DEF GenerateStub
      <4>2. PICK v \in AfterPycc(HeadOf(f)) :
              /\ stub' = Write(stub, HeadOf(f).leaf, HeadOf(f), v)
              /\ stubDir' = LeftAfter(AfterPycc(HeadOf(f)), v)
        BY <3>3 DEF GenerateStub
      <4>3. AfterPycc(HeadOf(f)) \subseteq DrawnModules
        BY <4>1, AfterPyccType
      <4>4. stub' \in [Leaf -> Drawing \cup {None}]
        BY <4>1, <4>2, <4>3, WriteType DEF PlTypeOK
      <4>5. stubDir' \subseteq DrawnModules
        BY <4>2, <4>3 DEF LeftAfter
      <4> QED BY <3>1, <3>3, <4>4, <4>5 DEF GenerateStub, PlTypeOK
    <3>4. CASE KillGenerateStub(f)
      <4>1. HeadOf(f) \in Heads /\ HeadOf(f).leaf \in Leaf
        BY <3>4, HeadOfType, HeadsType DEF KillGenerateStub
      <4>2. AfterPycc(HeadOf(f)) \subseteq DrawnModules
        BY <4>1, AfterPyccType
      <4>3. \/ stub' = stub
            \/ \E v \in AfterPycc(HeadOf(f)) :
                 stub' = Write(stub, HeadOf(f).leaf, HeadOf(f), v)
        BY <3>4 DEF KillGenerateStub
      <4>4. stub' \in [Leaf -> Drawing \cup {None}]
        <5>1. CASE stub' = stub
          BY <5>1 DEF PlTypeOK
        <5>2. CASE \E v \in AfterPycc(HeadOf(f)) :
                     stub' = Write(stub, HeadOf(f).leaf, HeadOf(f), v)
          <6>1. PICK v \in DrawnModules : stub' = Write(stub, HeadOf(f).leaf, HeadOf(f), v)
            BY <4>2, <5>2
          <6> QED BY <4>1, <6>1, WriteType DEF PlTypeOK
        <5> QED BY <4>3, <5>1, <5>2
      <4>5. stubDir' \subseteq DrawnModules /\ killed' \in BOOLEAN
        BY <3>4, <4>2 DEF KillGenerateStub
      <4> QED BY <3>1, <3>4, <4>4, <4>5 DEF KillGenerateStub, PlTypeOK
    <3>5. CASE GenerateCut(f)
      <4>1. HeadOf(f) \in Heads /\ HeadOf(f).leaf \in Leaf
        BY <3>5, HeadOfType, HeadsType DEF GenerateCut
      <4>2. Module(HeadOf(f)) \in DrawnModules
        BY <4>1, ModuleType
      <4>3. cut' \in [Leaf -> Drawing \cup {None}]
        BY <3>5, <4>1, <4>2, WriteType DEF GenerateCut, PlTypeOK
      <4> QED BY <3>1, <3>5, <4>3 DEF GenerateCut, PlTypeOK
    <3>6. CASE EditContract(f)
      <4>1. contract' \in [Leaf -> Contracts \cup {None}]
        BY <3>6 DEF EditContract, PlTypeOK
      <4> QED BY <3>1, <3>6, <4>1 DEF EditContract, PlTypeOK
    <3>7. CASE WriteByHand(f)
      <4>1. [leaf |-> f, width |-> "1"] \in DrawnModules
        BY DEF DrawnModules, Widths
      <4>2. PICK mark \in {Handwritten, Unmarked} :
              LET body == [leaf |-> f, width |-> "1"]
              IN \/ stub' = Write(stub, f, mark, body) /\ UNCHANGED cut
                 \/ cut' = Write(cut, f, mark, body) /\ UNCHANGED stub
        BY <3>7 DEF WriteByHand
      <4>3. stub' \in [Leaf -> Drawing \cup {None}] /\ cut' \in [Leaf -> Drawing \cup {None}]
        <5> DEFINE body == [leaf |-> f, width |-> "1"]
        <5>1. /\ Write(stub, f, mark, body) \in [Leaf -> Drawing \cup {None}]
              /\ Write(cut, f, mark, body) \in [Leaf -> Drawing \cup {None}]
          BY <4>1, WriteType DEF PlTypeOK
        <5> QED BY <4>2, <5>1 DEF PlTypeOK
      <4> QED BY <3>1, <3>7, <4>3 DEF WriteByHand, PlTypeOK
    <3>8. CASE \E leaf \in Leaf, kept \in MayKeep, yosys, sta \in BOOLEAN, delay \in Delays :
                 RunAttest(leaf, f, kept, yosys, sta, delay)
      <4>1. PICK leaf \in Leaf, kept \in MayKeep, yosys \in BOOLEAN, sta \in BOOLEAN,
                 delay \in Delays : RunAttest(leaf, f, kept, yosys, sta, delay)
        BY <3>8
      <4>2. attest' \in [Leaf -> Attest \cup {None}] /\ setupReport' \in [Leaf -> Int \cup {None}]
        BY <4>1, AttestWritten
      <4> QED BY <3>1, <4>1, <4>2 DEF RunAttest, PlTypeOK
    <3> QED BY <3>2, <3>3, <3>4, <3>5, <3>6, <3>7, <3>8
  <2> QED BY <2>1, <2>2
<1> QED BY <1>1, <1>2, PTL DEF PlSpec

-----------------------------------------------------------------------------
(***************************************************************************)
(* What holds the stubs and cuts together: as long as no run was killed    *)
(* the generator finds its directory empty, so that under a digest there   *)
(* is always a drawing of the contract with that digest, in the file of    *)
(* its leaf.                                                               *)
(***************************************************************************)
DrawnFrom(file) ==
  \A l \in Leaf :
    (file[l] # None /\ file[l].header \in Heads)
      => file[l].header.leaf = l /\ file[l].body = Module(file[l].header)

DrawnInv ==
  /\ PlTypeOK
  /\ ~killed => stubDir = {} /\ DrawnFrom(stub)
  /\ DrawnFrom(cut)

LEMMA WriteDrawn ==
  ASSUME NEW file \in [Leaf -> Drawing \cup {None}], DrawnFrom(file), NEW h \in Heads
  PROVE  DrawnFrom(Write(file, h.leaf, h, Module(h)))
<1>1. h.leaf \in Leaf /\ Module(h) \in DrawnModules
  BY HeadsType, ModuleType
<1> DEFINE new == Write(file, h.leaf, h, Module(h))
<1>2. new[h.leaf] = [header |-> h, body |-> Module(h)]
  BY <1>1, WriteType
<1>3. \A m \in Leaf : m # h.leaf => new[m] = file[m]
  BY <1>1 DEF Write
<1> HIDE DEF new
<1>4. SUFFICES ASSUME NEW l \in Leaf, new[l] # None, new[l].header \in Heads
               PROVE  new[l].header.leaf = l /\ new[l].body = Module(new[l].header)
  BY DEF DrawnFrom, new
<1>5. CASE l = h.leaf
  BY <1>2, <1>5
<1>6. CASE l # h.leaf
  BY <1>3, <1>4, <1>6 DEF DrawnFrom
<1> QED BY <1>5, <1>6

LEMMA WriteByHandDrawn ==
  ASSUME NEW file \in [Leaf -> Drawing \cup {None}], DrawnFrom(file),
         NEW f \in Leaf, NEW mark \in {Handwritten, Unmarked}, NEW v \in DrawnModules
  PROVE  DrawnFrom(Write(file, f, mark, v))
<1>1. mark \notin Heads
  BY HeadsType
<1> DEFINE new == Write(file, f, mark, v)
<1>2. new[f] = [header |-> mark, body |-> v]
  BY WriteType
<1>3. \A m \in Leaf : m # f => new[m] = file[m]
  BY DEF Write
<1> HIDE DEF new
<1>4. SUFFICES ASSUME NEW l \in Leaf, new[l] # None, new[l].header \in Heads
               PROVE  new[l].header.leaf = l /\ new[l].body = Module(new[l].header)
  BY DEF DrawnFrom, new
<1>5. CASE l = f
  BY <1>1, <1>2, <1>4, <1>5
<1>6. CASE l # f
  BY <1>3, <1>4, <1>6 DEF DrawnFrom
<1> QED BY <1>5, <1>6

LEMMA DrawnInvHolds == PlSpec => []DrawnInv
<1>1. PlInit => ((~killed => stubDir = {} /\ DrawnFrom(stub)) /\ DrawnFrom(cut))
  BY DEF PlInit, DrawnFrom
<1>2. /\ PlTypeOK /\ PlTypeOK'
      /\ (~killed => stubDir = {} /\ DrawnFrom(stub)) /\ DrawnFrom(cut)
      /\ [PlNext]_plVars
      => ((~killed => stubDir = {} /\ DrawnFrom(stub)) /\ DrawnFrom(cut))'
  <2> SUFFICES ASSUME PlTypeOK, PlTypeOK',
                      ~killed => stubDir = {} /\ DrawnFrom(stub), DrawnFrom(cut),
                      [PlNext]_plVars
               PROVE  ((~killed => stubDir = {} /\ DrawnFrom(stub)) /\ DrawnFrom(cut))'
    OBVIOUS
  <2>1. CASE UNCHANGED plVars
    BY <2>1 DEF plVars, DrawnFrom
  <2>2. CASE PlNext
    <3>2. PICK f \in Leaf :
            \/ GenerateStub(f) \/ KillGenerateStub(f) \/ GenerateCut(f)
            \/ EditContract(f) \/ WriteByHand(f)
            \/ \E leaf \in Leaf, kept \in MayKeep, yosys, sta \in BOOLEAN, delay \in Delays :
                 RunAttest(leaf, f, kept, yosys, sta, delay)
      BY <2>2 DEF PlNext, PlStep
    <3>3. CASE GenerateStub(f)
      <4>1. HeadOf(f) \in Heads
        BY <3>3, HeadOfType DEF GenerateStub
      <4>2. SUFFICES ASSUME ~killed PROVE (stubDir = {} /\ DrawnFrom(stub))'
        BY <3>3 DEF GenerateStub, DrawnFrom
      <4>3. AfterPycc(HeadOf(f)) = {Module(HeadOf(f))}
        BY <4>2 DEF AfterPycc
      <4>4. /\ stub' = Write(stub, HeadOf(f).leaf, HeadOf(f), Module(HeadOf(f)))
            /\ stubDir' = {}
        BY <3>3, <4>3 DEF GenerateStub, LeftAfter
      <4>5. DrawnFrom(Write(stub, HeadOf(f).leaf, HeadOf(f), Module(HeadOf(f))))
        BY <4>1, <4>2, WriteDrawn DEF PlTypeOK
      <4> QED BY <4>4, <4>5 DEF DrawnFrom
    <3>4. CASE KillGenerateStub(f)
      BY <3>4 DEF KillGenerateStub, DrawnFrom
    <3>5. CASE GenerateCut(f)
      <4>1. HeadOf(f) \in Heads
        BY <3>5, HeadOfType DEF GenerateCut
      <4>2. DrawnFrom(Write(cut, HeadOf(f).leaf, HeadOf(f), Module(HeadOf(f))))
        BY <4>1, WriteDrawn DEF PlTypeOK
      <4>3. cut' = Write(cut, HeadOf(f).leaf, HeadOf(f), Module(HeadOf(f)))
        BY <3>5 DEF GenerateCut
      <4> QED BY <3>5, <4>2, <4>3 DEF GenerateCut, DrawnFrom
    <3>6. CASE EditContract(f)
      BY <3>6 DEF EditContract, DrawnFrom
    <3>7. CASE WriteByHand(f)
      <4> DEFINE body == [leaf |-> f, width |-> "1"]
      <4>1. body \in DrawnModules
        BY DEF DrawnModules, Widths
      <4>2. PICK mark \in {Handwritten, Unmarked} :
              \/ stub' = Write(stub, f, mark, body) /\ UNCHANGED cut
              \/ cut' = Write(cut, f, mark, body) /\ UNCHANGED stub
        BY <3>7 DEF WriteByHand
      <4> HIDE DEF body
      <4>3. ~killed => DrawnFrom(Write(stub, f, mark, body))
        BY <4>1, WriteByHandDrawn DEF PlTypeOK
      <4>4. DrawnFrom(Write(cut, f, mark, body))
        BY <4>1, WriteByHandDrawn DEF PlTypeOK
      <4>5. stubDir' = stubDir /\ killed' = killed
        BY <3>7 DEF WriteByHand
      <4> QED BY <4>2, <4>3, <4>4, <4>5 DEF DrawnFrom
    <3>8. CASE \E leaf \in Leaf, kept \in MayKeep, yosys, sta \in BOOLEAN, delay \in Delays :
                 RunAttest(leaf, f, kept, yosys, sta, delay)
      BY <3>8 DEF RunAttest, DrawnFrom
    <3> QED BY <3>2, <3>3, <3>4, <3>5, <3>6, <3>7, <3>8
  <2> QED BY <2>1, <2>2
<1> QED BY <1>1, <1>2, PlTypeCorrect, PTL DEF PlSpec, DrawnInv

-----------------------------------------------------------------------------
(***************************************************************************)
(* Where contract-check passes, the contract of a registered leaf is the   *)
(* file of its name: by_leaf cannot have found another.                    *)
(***************************************************************************)
LEMMA PassedOwnFile ==
  ASSUME ContractCheckPasses, NEW l \in Registered, HasData(l)
  PROVE  IsDataOf(l, l)
<1>1. l \in Leaf
  BY LeafAssumption
<1>2. PICK f \in Leaf : IsDataOf(f, l)
  BY DEF HasData
<1>3. ContractFindings(f) = {}
  BY DEF ContractCheckPasses
<1>4. HeadOf(f).leaf = f
  BY <1>2, <1>3 DEF ContractFindings, IsDataOf, Parsed
<1> QED BY <1>2, <1>4 DEF IsDataOf

(***************************************************************************)
(* ... and a generated stub or cut of it has its digest.                   *)
(***************************************************************************)
LEMMA PassedHeader ==
  ASSUME NEW file, NEW l \in Leaf, NEW refused, HeaderFindings(file, l, refused) = {},
         IsDataOf(l, l)
  PROVE  /\ file.header # Unmarked
         /\ file.header = Handwritten => ~refused
         /\ file.header # Handwritten => file.header = HeadOf(l)
<1>1. file.header # Unmarked
  <2>1. file.header = Unmarked => HeaderFindings(file, l, refused) = {"STUB_HASH_MISSING"}
    BY MarksAssumption DEF HeaderFindings
  <2> QED BY <2>1
<1>2. file.header = Handwritten => ~refused
  BY <1>1 DEF HeaderFindings
<1>3. file.header # Handwritten => file.header = HeadOf(l)
  BY <1>1 DEF HeaderFindings
<1> QED BY <1>1, <1>2, <1>3

(***************************************************************************)
(* A stub that contract-check lets pass is a drawing of the contract as it *)
(* is now.                                                                 *)
(***************************************************************************)
THEOREM StubsAreCurrentAlways == PlSpec => []StubsAreCurrent
<1>1. DrawnInv => StubsAreCurrent
  <2> SUFFICES ASSUME DrawnInv, ContractCheckPasses, ~killed,
                      NEW l \in Registered, HasData(l)
               PROVE  \/ "script" \notin landed /\ stub[l].header = Handwritten
                      \/ stub[l].body = Module(HeadOf(l))
    BY DEF StubsAreCurrent
  <2>1. l \in Leaf /\ IsDataOf(l, l)
    BY LeafAssumption, PassedOwnFile
  <2>2. stub[l] # None /\ HeaderFindings(stub[l], l, "script" \in landed) = {}
    BY DEF ContractCheckPasses, LeafStubFindings
  <2>3. CASE stub[l].header = Handwritten
    BY <2>1, <2>2, <2>3, PassedHeader
  <2>4. CASE stub[l].header # Handwritten
    <3>1. stub[l].header = HeadOf(l)
      BY <2>1, <2>2, <2>4, PassedHeader
    <3>2. HeadOf(l) \in Heads
      BY <2>1, HeadOfType DEF IsDataOf, DrawnInv
    <3> QED BY <2>1, <2>2, <3>1, <3>2 DEF DrawnInv, DrawnFrom
  <2> QED BY <2>3, <2>4
<1> QED BY <1>1, DrawnInvHolds, PTL

(***************************************************************************)
(* A generated stub and a generated cut that pass show the same ports.     *)
(***************************************************************************)
THEOREM CutShowsStubAlways == PlSpec => []CutShowsStub
<1>1. DrawnInv => CutShowsStub
  <2> SUFFICES ASSUME DrawnInv, ContractCheckPasses, ~killed,
                      NEW l \in Registered, HasData(l), cut[l] # None,
                      Handwritten \notin {stub[l].header, cut[l].header}
               PROVE  cut[l].body = stub[l].body
    BY DEF CutShowsStub
  <2>1. l \in Leaf /\ IsDataOf(l, l)
    BY LeafAssumption, PassedOwnFile
  <2>2. stub[l] # None /\ HeaderFindings(stub[l], l, "script" \in landed) = {}
    BY DEF ContractCheckPasses, LeafStubFindings
  <2>3. CutFindings(l) = {}
    BY <2>1 DEF ContractCheckPasses
  <2>4. HeaderFindings(cut[l], l, "cut_rule" \in landed) = {}
    BY <2>3 DEF CutFindings
  <2>5. stub[l].header = HeadOf(l) /\ cut[l].header = HeadOf(l)
    BY <2>1, <2>2, <2>4, PassedHeader
  <2>6. HeadOf(l) \in Heads
    BY <2>1, HeadOfType DEF IsDataOf, DrawnInv
  <2> QED BY <2>1, <2>2, <2>5, <2>6 DEF DrawnInv, DrawnFrom
<1> QED BY <1>1, DrawnInvHolds, PTL

-----------------------------------------------------------------------------
(***************************************************************************)
(* With a scratch directory of its own for each run, an attest says PASS   *)
(* only of a netlist that was measured and met its period.                 *)
(***************************************************************************)
THEOREM PassIsMeasuredAlways ==
  ASSUME MayKeep = {FALSE}
  PROVE  PlSpec => []PassIsMeasured
<1>1. PlInit => PassIsMeasured
  BY DEF PlInit, PassIsMeasured
<1>2. PlTypeOK /\ PassIsMeasured /\ [PlNext]_plVars => PassIsMeasured'
  <2> SUFFICES ASSUME PlTypeOK, PassIsMeasured, [PlNext]_plVars PROVE PassIsMeasured'
    OBVIOUS
  <2>1. CASE UNCHANGED attest
    BY <2>1 DEF PassIsMeasured
  <2>2. CASE \E f \in Leaf, leaf \in Leaf, kept \in MayKeep, yosys, sta \in BOOLEAN,
                delay \in Delays : RunAttest(leaf, f, kept, yosys, sta, delay)
    <3>1. PICK f \in Leaf, leaf \in Leaf, kept \in MayKeep, yosys \in BOOLEAN,
               sta \in BOOLEAN, delay \in Delays :
            RunAttest(leaf, f, kept, yosys, sta, delay)
      BY <2>2
    <3>2. attest'[leaf].status = "PASS" => attest'[leaf].met
      BY <3>1, AttestWritten
    <3>3. \A l \in Leaf : l # leaf => attest'[l] = attest[l]
      BY <3>1, AttestWritten
    <3> QED BY <3>2, <3>3 DEF PassIsMeasured
  <2>3. UNCHANGED attest \/
        \E f \in Leaf, leaf \in Leaf, kept \in MayKeep, yosys, sta \in BOOLEAN,
           delay \in Delays : RunAttest(leaf, f, kept, yosys, sta, delay)
    BY DEF PlNext, PlStep, plVars, GenerateStub, KillGenerateStub, GenerateCut,
           EditContract, WriteByHand
  <2> QED BY <2>1, <2>2, <2>3
<1> QED BY <1>1, <1>2, PlTypeCorrect, PTL DEF PlSpec

(***************************************************************************)
(* The figures of a registered leaf, under the same assumption.            *)
(***************************************************************************)
THEOREM FiguresAreMeasuredAlways == PlSpec => []FiguresAreMeasured
<1>1. CASE MayKeep = {FALSE}
  <2>1. PlTypeOK /\ PassIsMeasured => FiguresAreMeasured
    <3> SUFFICES ASSUME PlTypeOK, PassIsMeasured, ContractCheckPasses,
                        NEW l \in Registered, HasData(l)
                 PROVE  attest[l].digest = HeadOf(l) /\ attest[l].met
      BY DEF FiguresAreMeasured, PrivateFigure
    <3>1. l \in Leaf /\ IsDataOf(l, l)
      BY LeafAssumption, PassedOwnFile
    <3>2. AttestFindings(l) = {}
      BY DEF ContractCheckPasses
    <3>3. attest[l] # None
      BY <3>2 DEF AttestFindings
    <3>4. attest[l].digest = HeadOf(l) /\ AttestFieldFindings(attest[l]) = {}
      BY <3>1, <3>2, <3>3 DEF AttestFindings
    <3>5. attest[l].status = "PASS"
      BY <3>4 DEF AttestFieldFindings
    <3> QED BY <3>1, <3>3, <3>4, <3>5 DEF PassIsMeasured
  <2> QED BY <1>1, <2>1, PassIsMeasuredAlways, PlTypeCorrect, PTL
<1>2. CASE MayKeep # {FALSE}
  <2>1. FiguresAreMeasured
    BY <1>2 DEF FiguresAreMeasured
  <2> QED BY <2>1, PTL
<1> QED BY <1>1, <1>2
=============================================================================
