-------------------------- MODULE UbGoldensProofs --------------------------
(***************************************************************************)
(* Proofs about the golden models and the bench skeleton:                  *)
(*   UbVibeUvm, for any payloads: the monitors, the answers to accesses,   *)
(*     the hooks while they are off, and that both streams implement       *)
(*     UbFlitChannel;                                                      *)
(*   UbTpBypass, for any set of transaction and message numbers: its       *)
(*     types, that flush is held only with nothing pending, and that it    *)
(*     implements UbTpContract when the callers of complete() pass only    *)
(*     message numbers that fit;                                           *)
(*   UbCmnMem1r1w and UbCmnMemBench, for any depth, number of segments and *)
(*     data: the model is a read-old memory with undefined segments, and   *)
(*     the netlist agrees with it wherever it is defined.                  *)
(***************************************************************************)
EXTENDS UbTpBypass, UbCmnMemBench, UbVibeUvm, TLAPS

-----------------------------------------------------------------------------
(***************************************************************************)
(* UbVibeUvm                                                               *)
(***************************************************************************)
CsrAnswer  == [rvalid : BOOLEAN, rdata : Payload, err : BOOLEAN]
HarnessNet == [vr_out : Items, vo_out : Items, port_cna : Payload,
               test_reg : Payload, answer : CsrAnswer, obs : Items]

UvmTypes ==
  /\ vr_in \in Items /\ vr_out_ready \in BOOLEAN /\ vo_in \in Items
  /\ csr \in Access \cup {NoBeat} /\ awaiting \in Access \cup {NoBeat}
  /\ test_mode \in BOOLEAN /\ inj \in Payload
  /\ hooks \in HarnessNet /\ product \in HarnessNet
  /\ cnaWritten \in Payload

LEMMA ClearedType == Cleared \in HarnessNet
<1>1. NoAnswer \in CsrAnswer
  BY UvmAssumption DEF NoAnswer, CsrAnswer
<1> QED BY <1>1, UvmAssumption DEF Cleared, HarnessNet, Items

(***************************************************************************)
(* What a netlist answers to a request, and what it is after an edge, have *)
(* their types.                                                            *)
(***************************************************************************)
LEMMA AnswerType ==
  ASSUME UvmTypes, NEW n \in HarnessNet, NEW live \in BOOLEAN
  PROVE  Answer(n, live) \in CsrAnswer
<1>1. \A addr : ReadOf(n, addr, live) \in Payload
  BY UvmAssumption DEF ReadOf, HarnessNet
<1>2. CASE csr = NoBeat
  BY <1>2, UvmAssumption DEF Answer, NoAnswer, CsrAnswer
<1>3. CASE csr # NoBeat
  <2>1. csr.write \in BOOLEAN
    BY <1>3 DEF UvmTypes, Access
  <2>2. (IF csr.write THEN ZeroPayload ELSE ReadOf(n, csr.addr, live)) \in Payload
    BY <1>1, UvmAssumption
  <2>3. (~csr.write) \in BOOLEAN /\ (csr.addr = "UNMAPPED") \in BOOLEAN
    OBVIOUS
  <2> QED BY <1>3, <2>2, <2>3 DEF Answer, CsrAnswer
<1> QED BY <1>2, <1>3

LEMMA ClockedType ==
  ASSUME UvmTypes, NEW n \in HarnessNet, NEW live \in BOOLEAN
  PROVE  Clocked(n, live) \in HarnessNet
<1>1. \A addr : \A old \in Payload : WrittenTo(old, addr) \in Payload
  BY DEF WrittenTo, UvmTypes, Access
<1>2. /\ WrittenTo(n.port_cna, "PORT_CNA") \in Payload
      /\ (IF live THEN WrittenTo(n.test_reg, "TEST") ELSE n.test_reg) \in Payload
  BY <1>1 DEF HarnessNet
<1>3. (IF vr_in # NoBeat /\ InReady(n) THEN vr_in
       ELSE IF vr_out_ready THEN NoBeat ELSE n.vr_out) \in Items
  BY DEF UvmTypes, HarnessNet, Items
<1>4. (IF live THEN inj ELSE NoBeat) \in Items
  BY DEF UvmTypes, Items
<1>5. vo_in \in Items
  BY DEF UvmTypes
<1> QED BY <1>2, <1>3, <1>4, <1>5, AnswerType DEF Clocked, HarnessNet

(* Pins, netlists and coroutines keep their types.                         *)
LEMMA UvmTyped == UvmSpec => []UvmTypes
<1>1. UvmInit => UvmTypes
  BY ClearedType, UvmAssumption DEF UvmInit, UvmTypes, Items
<1>2. UvmTypes /\ [UvmNext]_uvmVars => UvmTypes'
  <2> SUFFICES ASSUME UvmTypes, [UvmNext]_uvmVars PROVE UvmTypes'
    OBVIOUS
  <2>1. CASE Edge
    <3>1. hooks' \in HarnessNet /\ product' \in HarnessNet
      BY <2>1, ClockedType DEF Edge, UvmTypes
    <3>2. vr_in' \in Items /\ vo_in' \in Items
      BY <2>1 DEF Edge, VrDriver, VoAgent, UvmTypes
    <3>3. csr' \in Access \cup {NoBeat} /\ awaiting' \in Access \cup {NoBeat}
      BY <2>1 DEF Edge, CsrDriver, NextAccess, UvmTypes
    <3>4. vr_out_ready' \in BOOLEAN /\ test_mode' \in BOOLEAN /\ inj' \in Payload
      BY <2>1 DEF Edge, VrSink, HookAgent
    <3>5. cnaWritten' \in Payload
      BY <2>1 DEF Edge, UvmTypes, Access
    <3> QED BY <3>1, <3>2, <3>3, <3>4, <3>5 DEF UvmTypes
  <2>2. CASE ApplyReset
    BY <2>2, ClearedType, UvmAssumption DEF ApplyReset, UvmTypes
  <2>3. CASE UNCHANGED uvmVars
    BY <2>3 DEF uvmVars, UvmTypes
  <2> QED BY <2>1, <2>2, <2>3 DEF UvmNext
<1> QED BY <1>1, <1>2, PTL DEF UvmSpec

(***************************************************************************)
(* The driver leaves the pins free for the edge at which it reads, so the  *)
(* monitor is never busy with one access when the next is on the pins.     *)
(***************************************************************************)
InStep ==
  /\ MonitorsAgree
  /\ monitoring = awaiting
  /\ csr # NoBeat => awaiting = NoBeat

(* Every monitor of tb/vibe_uvm reports what its driver finished, at the   *)
(* same edge and with the same answer.                                     *)
THEOREM UvmMonitorsAgree == UvmSpec => []MonitorsAgree
<1>1. UvmInit => InStep
  BY DEF UvmInit, InStep, MonitorsAgree
<1>2. InStep /\ [UvmNext]_uvmVars => InStep'
  <2> SUFFICES ASSUME InStep, [UvmNext]_uvmVars PROVE InStep'
    OBVIOUS
  <2>1. CASE Edge
    <3>1. vrSeen' = vrDone'
      BY <2>1 DEF Edge, VrDriver, VrMonitor
    <3>2. voSeen' = voDone'
      BY <2>1 DEF Edge, VoAgent
    <3>3. /\ csrSeen' = csrDone' /\ monitoring' = awaiting'
          /\ csr' # NoBeat => awaiting' = NoBeat
      BY <2>1 DEF Edge, CsrDriver, CsrMonitor, InStep
    <3> QED BY <3>1, <3>2, <3>3 DEF InStep, MonitorsAgree
  <2>2. CASE ApplyReset
    BY <2>2 DEF ApplyReset, InStep, MonitorsAgree
  <2>3. CASE UNCHANGED uvmVars
    BY <2>3 DEF uvmVars, reports, InStep, MonitorsAgree
  <2> QED BY <2>1, <2>2, <2>3 DEF UvmNext
<1>3. InStep => MonitorsAgree
  BY DEF InStep
<1> QED BY <1>1, <1>2, <1>3, PTL DEF UvmSpec

(***************************************************************************)
(* Between the request and the answer the netlist holds both: the register *)
(* is what the write that awaits its answer wrote, the answer is the one   *)
(* to the access awaited.                                                  *)
(***************************************************************************)
CnaAwaited == awaiting # NoBeat /\ awaiting.write /\ awaiting.addr = "PORT_CNA"

AnswerIsToAwaited ==
  awaiting # NoBeat =>
    /\ hooks.answer.rvalid = ~awaiting.write
    /\ hooks.answer.err <=> awaiting.addr = "UNMAPPED"
    /\ awaiting.addr = "PORT_CNA" /\ ~awaiting.write =>
         hooks.answer.rdata = hooks.port_cna

AccessInv ==
  /\ AccessesAnswered
  /\ AnswerIsToAwaited
  /\ hooks.port_cna = IF CnaAwaited THEN awaiting.wdata ELSE cnaWritten
  /\ csr # NoBeat => awaiting = NoBeat

\* A request is answered out of the registers it finds; the answer is read
\* before the next request can change them.
LEMMA AccessEdge ==
  ASSUME UvmTypes, AccessInv, Edge
  PROVE  AccessInv'
<1>1. /\ hooks'.answer = Answer(hooks, test_mode)
      /\ hooks'.port_cna = WrittenTo(hooks.port_cna, "PORT_CNA")
  BY DEF Edge, Clocked
<1>2. CASE csr # NoBeat
  <2>1. /\ awaiting = NoBeat /\ awaiting' = csr /\ csr' = NoBeat
        /\ csrDone' = NoBeat /\ cnaWritten' = cnaWritten
    BY <1>2 DEF Edge, CsrDriver, AccessInv
  <2>2. hooks.port_cna = cnaWritten
    BY <2>1 DEF AccessInv, CnaAwaited
  <2> DEFINE rv == ~csr.write
             rd == IF csr.write THEN ZeroPayload ELSE ReadOf(hooks, csr.addr, test_mode)
             er == csr.addr = "UNMAPPED"
  <2>3. hooks'.answer = [rvalid |-> rv, rdata |-> rd, err |-> er]
    BY <1>1, <1>2 DEF Answer
  <2>4. ~csr.write /\ csr.addr = "PORT_CNA" => rd = hooks.port_cna
    BY DEF ReadOf
  <2>5. AnswerIsToAwaited'
    <3> HIDE DEF rv, rd, er
    <3>1. hooks'.answer.rvalid = rv /\ hooks'.answer.rdata = rd /\ hooks'.answer.err = er
      BY <2>3
    <3>2. ASSUME awaiting'.addr = "PORT_CNA", ~awaiting'.write
          PROVE  hooks'.answer.rdata = hooks'.port_cna
      BY <1>1, <2>1, <2>4, <3>1, <3>2 DEF WrittenTo
    <3>3. rv = ~awaiting'.write /\ (er <=> awaiting'.addr = "UNMAPPED")
      BY <2>1, Zenon DEF rv, er
    <3> QED BY <3>1, <3>2, <3>3, Zenon DEF AnswerIsToAwaited
  <2>6. hooks'.port_cna = IF CnaAwaited' THEN awaiting'.wdata ELSE cnaWritten'
    BY <1>1, <1>2, <2>1, <2>2 DEF WrittenTo, CnaAwaited
  <2> QED BY <2>1, <2>5, <2>6 DEF AccessInv, AccessesAnswered, AnswerIsToAwaited
<1>3. CASE csr = NoBeat
  <2>1. /\ awaiting' = NoBeat
        /\ csrDone' = IF awaiting = NoBeat THEN NoBeat ELSE Completed(awaiting, hooks)
        /\ hooks'.port_cna = hooks.port_cna
        /\ cnaWritten' = IF CnaAwaited THEN awaiting.wdata ELSE cnaWritten
    BY <1>1, <1>3 DEF Edge, CsrDriver, WrittenTo, CnaAwaited
  <2>2. csrDone' # NoBeat =>
          /\ csrDone'.err <=> csrDone'.access.addr = "UNMAPPED"
          /\ (csrDone'.access.addr = "PORT_CNA" /\ ~csrDone'.access.write)
               => csrDone'.rdata = cnaWritten'
    BY <2>1 DEF AccessInv, AnswerIsToAwaited, CnaAwaited, Completed
  <2> QED BY <2>1, <2>2 DEF AccessInv, AccessesAnswered, AnswerIsToAwaited, CnaAwaited
<1> QED BY <1>2, <1>3

(* Each access is answered as SPEC 3.2.3 has it, and PORT_CNA reads back   *)
(* what the last completed write wrote.                                    *)
THEOREM UvmAccessesAnswered == UvmSpec => []AccessesAnswered
<1>1. UvmInit => AccessInv
  BY DEF UvmInit, AccessInv, AccessesAnswered, AnswerIsToAwaited, CnaAwaited, Cleared
<1>2. UvmTypes /\ AccessInv /\ [UvmNext]_uvmVars => AccessInv'
  <2>1. ASSUME AccessInv, ApplyReset PROVE AccessInv'
    BY <2>1 DEF ApplyReset, AccessInv, AccessesAnswered, AnswerIsToAwaited, CnaAwaited,
               Cleared
  <2>2. ASSUME AccessInv, UNCHANGED uvmVars PROVE AccessInv'
    BY <2>2 DEF uvmVars, reports, AccessInv, AccessesAnswered, AnswerIsToAwaited,
               CnaAwaited
  <2> QED BY <2>1, <2>2, AccessEdge DEF UvmNext
<1>3. AccessInv => AccessesAnswered
  BY DEF AccessInv
<1> QED BY <1>1, <1>2, <1>3, UvmTyped, PTL DEF UvmSpec

(* With tb_test_mode 0 the netlist with hooks behaves as the one without.  *)
(* The streams and PORT_CNA agree in every mode, so what was written to    *)
(* the test window or injected before leaves no trace.                     *)
THEOREM UvmQuietIsProduct == UvmSpec => []QuietIsProduct
<1>1. UvmInit => QuietIsProduct
  BY DEF UvmInit, QuietIsProduct
<1>2. UvmTypes /\ QuietIsProduct /\ [UvmNext]_uvmVars => QuietIsProduct'
  <2> SUFFICES ASSUME UvmTypes, QuietIsProduct, [UvmNext]_uvmVars PROVE QuietIsProduct'
    OBVIOUS
  <2>1. CASE Edge
    <3>1. hooks' = Clocked(hooks, test_mode) /\ product' = Clocked(product, FALSE)
      BY <2>1 DEF Edge
    <3>2. hooks'.vr_out = product'.vr_out /\ hooks'.vo_out = product'.vo_out
      BY <3>1 DEF Clocked, InReady, QuietIsProduct
    <3>3. hooks'.port_cna = product'.port_cna
      BY <3>1 DEF Clocked, WrittenTo, QuietIsProduct
    <3>4. ASSUME quiet' PROVE hooks'.answer = product'.answer /\ hooks'.obs = product'.obs
      <4>1. test_mode = FALSE
        BY <2>1, <3>4 DEF Edge, UvmTypes
      <4>2. \A addr : ReadOf(hooks, addr, FALSE) = ReadOf(product, addr, FALSE)
        BY DEF ReadOf, QuietIsProduct
      <4>3. Answer(hooks, FALSE) = Answer(product, FALSE)
        BY <4>2 DEF Answer
      <4> QED BY <3>1, <4>1, <4>3 DEF Clocked
    <3> QED BY <3>2, <3>3, <3>4 DEF QuietIsProduct
  <2>2. CASE ApplyReset
    BY <2>2 DEF ApplyReset, QuietIsProduct
  <2>3. CASE UNCHANGED uvmVars
    BY <2>3 DEF uvmVars, QuietIsProduct
  <2> QED BY <2>1, <2>2, <2>3 DEF UvmNext
<1> QED BY <1>1, <1>2, UvmTyped, PTL DEF UvmSpec

\* A register slice as the queue of the channel.
Slice(beat) == IF beat = NoBeat THEN << >> ELSE << beat >>

\* What the refinement needs of it.
LEMMA SliceIsQueue ==
  /\ Slice(NoBeat) = << >>
  /\ \A b : b # NoBeat => Slice(b) = << b >> /\ Slice(b) # << >>
                          /\ Head(Slice(b)) = b /\ Tail(Slice(b)) = << >>
  /\ \A b : Slice(b) \o << >> = Slice(b) /\ << >> \o Slice(b) = Slice(b)
  /\ << >> \o << >> = << >>
  BY DEF Slice

(* A clock edge is a step of the channel: the ready/valid slice holds or   *)
(* delivers, the valid-only one delivers what it holds.                    *)
LEMMA VrStep ==
  ASSUME UvmTypes, [UvmNext]_uvmVars
  PROVE  [VrStream!Next]_(VrStream!vars)
<1> DEFINE q == Slice(hooks.vr_out)
<1>1. CASE Edge
  <2>1. /\ vrDone' \in Items
        /\ hooks' = Clocked(hooks, test_mode)
        /\ vrLeft' = IF vr_out_ready THEN hooks.vr_out ELSE NoBeat
        /\ vrDone' = IF vr_in # NoBeat /\ ~InReady(hooks) THEN NoBeat ELSE vr_in
    BY <1>1, UvmAssumption DEF Edge, VrDriver, VrSink, UvmTypes, Items
  <2>2. hooks'.vr_out = IF vr_in # NoBeat /\ InReady(hooks) THEN vr_in
                        ELSE IF vr_out_ready THEN NoBeat ELSE hooks.vr_out
    BY <2>1 DEF Clocked
  <2>3. CASE hooks.vr_out # NoBeat /\ vr_out_ready
    <3>1. /\ q # << >> /\ Head(q) = hooks.vr_out /\ Tail(q) = << >>
          /\ vrLeft' = hooks.vr_out
      BY <2>1, <2>3, SliceIsQueue
    <3>2. hooks'.vr_out = vrDone'
      BY <2>1, <2>2, <2>3 DEF InReady
    <3>3. Slice(hooks.vr_out)' = Tail(q) \o Slice(vrDone')
      BY <3>1, <3>2, SliceIsQueue
    <3>4. VrStream!Deliver
      BY <2>1, <3>1, <3>3 DEF VrStream!Deliver, VrStream!Entering, Slice, Items
    <3> QED BY <3>4 DEF VrStream!Next
  <2>4. CASE hooks.vr_out = NoBeat \/ ~vr_out_ready
    <3>1. vrLeft' = NoBeat
      BY <2>1, <2>4
    <3>2. \/ vrDone' = NoBeat /\ hooks'.vr_out = hooks.vr_out
          \/ hooks.vr_out = NoBeat /\ hooks'.vr_out = vrDone'
      BY <2>1, <2>2, <2>4 DEF InReady
    <3>3. Slice(hooks.vr_out)' = q \o Slice(vrDone')
      BY <3>2, SliceIsQueue
    <3>4. VrStream!Hold
      BY <2>1, <3>1, <3>3 DEF VrStream!Hold, VrStream!Entering, Slice, Items
    <3> QED BY <3>4 DEF VrStream!Next
  <2> QED BY <2>3, <2>4
<1>2. CASE ApplyReset
  BY <1>2 DEF ApplyReset, Cleared, VrStream!Next, VrStream!Reset
<1>3. CASE UNCHANGED uvmVars
  BY <1>3 DEF uvmVars, reports, VrStream!vars
<1> QED BY <1>1, <1>2, <1>3 DEF UvmNext

LEMMA VoStep ==
  ASSUME UvmTypes, [UvmNext]_uvmVars
  PROVE  [VoStream!Next]_(VoStream!vars)
<1> DEFINE q == Slice(hooks.vo_out)
<1>1. CASE Edge
  <2>1. /\ voDone' = vo_in /\ vo_in \in Items /\ voLeft' = hooks.vo_out
        /\ hooks'.vo_out = vo_in
    BY <1>1 DEF Edge, VoAgent, UvmTypes, Clocked
  <2>2. CASE hooks.vo_out = NoBeat
    <3>1. Slice(hooks.vo_out)' = q \o Slice(voDone')
      BY <2>1, <2>2, SliceIsQueue
    <3>2. VoStream!Hold
      BY <2>1, <2>2, <3>1 DEF VoStream!Hold, VoStream!Entering, Slice, Items
    <3> QED BY <3>2 DEF VoStream!Next
  <2>3. CASE hooks.vo_out # NoBeat
    <3>1. q # << >> /\ Head(q) = hooks.vo_out /\ Tail(q) = << >>
      BY <2>3, SliceIsQueue
    <3>2. Slice(hooks.vo_out)' = Tail(q) \o Slice(voDone')
      BY <2>1, <3>1, SliceIsQueue
    <3>3. VoStream!Deliver
      BY <2>1, <3>1, <3>2 DEF VoStream!Deliver, VoStream!Entering, Slice, Items
    <3> QED BY <3>3 DEF VoStream!Next
  <2> QED BY <2>2, <2>3
<1>2. CASE ApplyReset
  BY <1>2 DEF ApplyReset, Cleared, VoStream!Next, VoStream!Reset
<1>3. CASE UNCHANGED uvmVars
  BY <1>3 DEF uvmVars, reports, VoStream!vars
<1> QED BY <1>1, <1>2, <1>3 DEF UvmNext

(* Both streams are lossless, in order and free of duplicates, whatever    *)
(* the sink does.                                                          *)
THEOREM UvmStreamsImplementChannel == UvmSpec => StreamsImplementChannel
<1>1. UvmInit => VrStream!Init /\ VoStream!Init
  BY DEF UvmInit, Cleared, VrStream!Init, VoStream!Init
<1>2. UvmTypes /\ [UvmNext]_uvmVars =>
        [VrStream!Next]_(VrStream!vars) /\ [VoStream!Next]_(VoStream!vars)
  BY VrStep, VoStep
<1> QED BY <1>1, <1>2, UvmTyped, PTL
        DEF UvmSpec, StreamsImplementChannel, VrStream!Spec, VoStream!Spec

-----------------------------------------------------------------------------
(***************************************************************************)
(* UbTpBypass                                                              *)
(***************************************************************************)
USE BypassAssumption

Owed == {<< t, pending[t] >> : t \in pending_tassn}
Answers == {<< r.tassn, r.tpmsn, r.done >> : r \in reported}

-----------------------------------------------------------------------------
LEMMA TpTypeInit == TpInit => TpTypeOK
BY DEF TpInit, TpTypeOK, Returns

LEMMA ReportedType ==
  ASSUME TpTypeOK, NEW t \in pending_tassn, NEW fail \in BOOLEAN, NEW msn \in Bound
  PROVE Reported(t, fail, msn) \in TaComplete
BY DEF TpTypeOK, Reported, TaComplete, pending_tassn, Bound

LEMMA TpTypeStep == TpTypeOK /\ [TpNext]_tpVars => TpTypeOK'
<1> SUFFICES ASSUME TpTypeOK, [TpNext]_tpVars PROVE TpTypeOK'
  OBVIOUS
<1>1. CASE Reset
  BY <1>1 DEF Reset, Returns, TpTypeOK
<1>2. CASE Submit
  BY <1>2 DEF Submit, SubmitAccepted, SubmitRefused, Acceptable, Returns, Raises, TpTypeOK, Bound
<1>3. CASE ReceiveAny
  BY <1>3 DEF ReceiveAny, Receive, TpTypeOK
<1>4. ASSUME NEW t \in Tassn, NEW fail \in BOOLEAN, NEW msn \in CompleteTpmsn \cup {None},
             Complete(t, fail, msn)
      PROVE TpTypeOK'
  <2>1. pending' \in [Tassn -> Bound \cup {Free}]
    BY <1>4 DEF Complete, TpTypeOK
  <2>2. raised' \in BOOLEAN /\ delivered' \in BOOLEAN /\ reported' \subseteq TaComplete
    <3>1. CASE msn = Wide
      BY <1>4, <3>1 DEF Complete, Raises
    <3>2. CASE msn # Wide
      <4>1. t \in pending_tassn /\ msn \in Bound
        BY <1>4, <3>2 DEF Complete, Bound
      <4>2. Reported(t, fail, msn) \in TaComplete
        BY <4>1, ReportedType
      <4> QED BY <1>4, <3>2, <4>2 DEF Complete, Returns
    <3> QED BY <3>1, <3>2
  <2> QED BY <1>4, <2>1, <2>2 DEF Complete, TpTypeOK
<1>5. CASE CompleteAny
  BY <1>4, <1>5 DEF CompleteAny
<1>6. ASSUME NEW t \in Tassn, ApplyDrop(t) PROVE TpTypeOK'
  BY <1>4, <1>6 DEF ApplyDrop
<1>7. ASSUME NEW t \in Tassn \cup {Wide}, CompleteUnknown(t) PROVE TpTypeOK'
  BY <1>7 DEF CompleteUnknown, Raises, TpTypeOK
<1>8. FailAllPending => /\ pending' \in [Tassn -> Bound \cup {Free}]
                        /\ raised' \in BOOLEAN /\ delivered' \in BOOLEAN
                        /\ reported' \subseteq TaComplete
  <2>1. \A t \in pending_tassn : Reported(t, TRUE, None) \in TaComplete
    BY ReportedType DEF Bound
  <2>2. [t \in Tassn |-> Free] \in [Tassn -> Bound \cup {Free}]
    OBVIOUS
  <2> QED BY <2>1, <2>2 DEF FailAllPending, Returns
<1>9. CASE ApplyFlush \/ ApplyLinkDown
  BY <1>8, <1>9 DEF ApplyFlush, ApplyLinkDown, TpTypeOK
<1>10. CASE EndFlush \/ EndFlushRefused
  BY <1>10 DEF EndFlush, EndFlushRefused, Returns, Raises, TpTypeOK
<1>11. CASE UNCHANGED tpVars
  BY <1>11 DEF tpVars, TpTypeOK
<1> QED BY <1>1, <1>2, <1>3, <1>5, <1>6, <1>7, <1>9, <1>10, <1>11 DEF TpNext

(* The attributes and every completion keep their types.                   *)
THEOREM TpTypeCorrect == TpSpec => []TpTypeOK
BY TpTypeInit, TpTypeStep, PTL DEF TpSpec

-----------------------------------------------------------------------------
LEMMA DrainedStep ==
  TpTypeOK /\ FlushDrained /\ [TpNext]_tpVars => FlushDrained'
<1> SUFFICES ASSUME TpTypeOK, FlushDrained, [TpNext]_tpVars PROVE FlushDrained'
  OBVIOUS
<1> USE DEF FlushDrained, pending_tassn
<1>1. CASE Reset
  BY <1>1 DEF Reset
<1>2. CASE Submit
  BY <1>2 DEF Submit, SubmitAccepted, SubmitRefused, Acceptable
<1>3. CASE ReceiveAny
  BY <1>3 DEF ReceiveAny, Receive
<1>4. CASE CompleteAny
  BY <1>4 DEF CompleteAny, Complete, TpTypeOK
<1>5. ASSUME NEW t \in Tassn, ApplyDrop(t) PROVE FlushDrained'
  BY <1>5 DEF ApplyDrop, Complete, TpTypeOK
<1>6. ASSUME NEW t, CompleteUnknown(t) PROVE FlushDrained'
  BY <1>6 DEF CompleteUnknown
<1>7. CASE ApplyFlush \/ ApplyLinkDown
  BY <1>7 DEF ApplyFlush, ApplyLinkDown, FailAllPending
<1>8. CASE EndFlush \/ EndFlushRefused
  <2>1. flush \in BOOLEAN /\ nw_link_up \in BOOLEAN
    BY DEF TpTypeOK
  <2>2. CASE EndFlush
    BY <2>1, <2>2 DEF EndFlush
  <2>3. CASE EndFlushRefused
    BY <2>3 DEF EndFlushRefused
  <2> QED BY <1>8, <2>2, <2>3
<1>9. CASE UNCHANGED tpVars
  BY <1>9 DEF tpVars
<1> QED BY <1>1, <1>2, <1>3, <1>4, <1>5, <1>6, <1>7, <1>8, <1>9 DEF TpNext

(* Nothing is pending while flush is held, and flush is held while the     *)
(* link is down: an accepted transaction never outlives either.            *)
THEOREM FlushIsDrained == TpSpec => []FlushDrained
<1>1. TpInit => FlushDrained
  BY DEF TpInit, FlushDrained, pending_tassn
<1> QED BY <1>1, TpTypeCorrect, DrainedStep, PTL DEF TpSpec

-----------------------------------------------------------------------------
(* The refinement, one call at a time.                                     *)

\* The numbers owed in the contract are the pending ones.
LEMMA OwedNumbers == Contract!Numbers(Owed) = pending_tassn
<1>1. ASSUME NEW t \in pending_tassn PROVE t \in Contract!Numbers(Owed)
  <2>1. << t, pending[t] >> \in Owed /\ << t, pending[t] >>[1] = t
    BY DEF Owed
  <2> QED BY <2>1 DEF Contract!Numbers
<1>2. ASSUME NEW t \in Contract!Numbers(Owed) PROVE t \in pending_tassn
  BY DEF Contract!Numbers, Owed
<1> QED BY <1>1, <1>2

LEMMA ContractInit == TpInit => Contract!Init
BY DEF TpInit, Contract!Init, pending_tassn

LEMMA AcceptRefines ==
  ASSUME TpTypeOK, NEW t \in Tassn, NEW msn \in Tpmsn \cup {None, Wide},
         NEW bypass \in BOOLEAN, NEW framed \in BOOLEAN,
         SubmitAccepted(t, bypass, framed, msn)
  PROVE Contract!Next
<1> USE DEF SubmitAccepted, Acceptable
<1>1. msn \in Bound /\ msn # Free
  BY DEF Bound
<1>2. pending_tassn' = pending_tassn \cup {t}
  BY <1>1 DEF pending_tassn, TpTypeOK
<1>3. \A u \in pending_tassn : pending'[u] = pending[u]
  BY DEF pending_tassn, TpTypeOK
<1>4. pending'[t] = msn
  BY DEF TpTypeOK
<1>5. Owed' = Owed \cup {<< t, msn >>}
  BY <1>2, <1>3, <1>4 DEF Owed
<1>6. Answers' = {}
  BY DEF Returns, Answers
<1>7. Contract!Accept(t, msn)
  BY <1>5, <1>6, OwedNumbers DEF Contract!Accept, Owed, Answers
<1> QED BY <1>1, <1>7 DEF Contract!Next

LEMMA CompleteRefines ==
  ASSUME TpTypeOK, NEW t \in Tassn, NEW fail \in BOOLEAN, NEW msn \in Bound,
         Complete(t, fail, msn)
  PROVE Contract!Next
<1> USE DEF Complete
<1> DEFINE m == Reported(t, fail, msn).tpmsn
<1>1. m \in Bound /\ msn # Wide
  BY DEF Reported, TpTypeOK, pending_tassn, Bound
<1>2. Reported(t, fail, msn) = [tassn |-> t, done |-> ~fail, tpmsn |-> m]
  BY DEF Reported
<1> HIDE DEF m
<1>3. Answers' = {<< t, m, ~fail >>}
  BY <1>1, <1>2 DEF Answers, Returns
<1>4. pending_tassn' = pending_tassn \ {t}
  BY DEF pending_tassn, TpTypeOK
<1>5. \A u \in pending_tassn' : pending'[u] = pending[u]
  BY <1>4 DEF pending_tassn, TpTypeOK
<1>6. Owed' = {x \in Owed : x[1] # t}
  BY <1>4, <1>5 DEF Owed
<1>7. Contract!Answer(t, m, ~fail)
  BY <1>3, <1>6, OwedNumbers DEF Contract!Answer, Owed, Answers
<1> QED BY <1>1, <1>7 DEF Contract!Next

LEMMA FailAllRefines ==
  ASSUME TpTypeOK, FailAllPending, flush' = TRUE, nw_link_up' \in {nw_link_up, FALSE}
  PROVE Contract!Next
<1>1. Owed' = {}
  BY DEF FailAllPending, Owed, pending_tassn
<1>2. Answers' = {<< x[1], x[2], FALSE >> : x \in Owed}
  <2> DEFINE failed(t) == << t, pending[t], FALSE >>
  <2>1. Answers' = {failed(t) : t \in pending_tassn}
    <3>1. \A t \in pending_tassn :
            Reported(t, TRUE, None) = [tassn |-> t, done |-> FALSE, tpmsn |-> pending[t]]
      BY DEF Reported
    <3>2. reported' = {Reported(t, TRUE, None) : t \in pending_tassn}
      BY DEF FailAllPending, Returns
    <3>3. ASSUME NEW a \in Answers' PROVE \E t \in pending_tassn : a = failed(t)
      <4>1. PICK r \in reported' : a = << r.tassn, r.tpmsn, r.done >>
        BY DEF Answers
      <4>2. PICK t \in pending_tassn : r = Reported(t, TRUE, None)
        BY <3>2
      <4>3. r = [tassn |-> t, done |-> FALSE, tpmsn |-> pending[t]]
        BY <3>1, <4>2
      <4>4. r.tassn = t /\ r.tpmsn = pending[t] /\ r.done = FALSE
        BY <4>3
      <4> QED BY <4>1, <4>4
    <3>4. ASSUME NEW t \in pending_tassn PROVE failed(t) \in Answers'
      <4>1. PICK r \in reported' : r = [tassn |-> t, done |-> FALSE, tpmsn |-> pending[t]]
        BY <3>1, <3>2
      <4>2. r.tassn = t /\ r.tpmsn = pending[t] /\ r.done = FALSE
        BY <4>1
      <4>3. << r.tassn, r.tpmsn, r.done >> \in Answers'
        BY DEF Answers
      <4> QED BY <4>2, <4>3
    <3> QED BY <3>3, <3>4
  <2>2. {<< x[1], x[2], FALSE >> : x \in Owed} = {failed(t) : t \in pending_tassn}
    <3>1. \A t \in pending_tassn :
            /\ << t, pending[t] >>[1] = t
            /\ << t, pending[t] >>[2] = pending[t]
      OBVIOUS
    <3>2. ASSUME NEW x \in Owed PROVE \E t \in pending_tassn : << x[1], x[2], FALSE >> = failed(t)
      BY DEF Owed
    <3>3. ASSUME NEW t \in pending_tassn
          PROVE \E x \in Owed : failed(t) = << x[1], x[2], FALSE >>
      <4>1. << t, pending[t] >> \in Owed
        BY DEF Owed
      <4> QED BY <3>1, <4>1
    <3> HIDE DEF failed
    <3>4. \A y : y \in {<< x[1], x[2], FALSE >> : x \in Owed}
                <=> y \in {failed(t) : t \in pending_tassn}
      BY <3>2, <3>3
    <3> QED BY <3>4
  <2> QED BY <2>1, <2>2
<1>3. Contract!FailAll
  BY <1>1, <1>2 DEF Contract!FailAll, Owed, Answers
<1> QED BY <1>3 DEF Contract!Next

\* A call that changes nothing and answers nothing.
LEMMA SilentRefines ==
  ASSUME UNCHANGED << nw_link_up, flush, pending >>, reported' = {}
  PROVE Contract!Next
<1>1. Contract!Silent
  BY DEF Contract!Silent, pending_tassn
<1> QED BY <1>1 DEF Contract!Next

LEMMA ContractStep ==
  ASSUME CompleteTpmsn \subseteq Bound
  PROVE TpTypeOK /\ [TpNext]_tpVars => [Contract!Next]_(Contract!vars)
<1> SUFFICES ASSUME TpTypeOK, [TpNext]_tpVars PROVE [Contract!Next]_(Contract!vars)
  OBVIOUS
<1>1. CASE Reset
  <2>1. Contract!EntityReset
    BY <1>1 DEF Reset, Returns, Contract!EntityReset, pending_tassn
  <2> QED BY <2>1 DEF Contract!Next
<1>2. CASE Submit
  <2>1. PICK t \in Tassn, bypass \in BOOLEAN, framed \in BOOLEAN, msn \in Tpmsn \cup {None, Wide} :
          SubmitAccepted(t, bypass, framed, msn) \/ SubmitRefused(t, bypass, framed, msn)
    BY <1>2 DEF Submit
  <2>2. CASE SubmitAccepted(t, bypass, framed, msn)
    BY <2>2, AcceptRefines
  <2>3. CASE SubmitRefused(t, bypass, framed, msn)
    BY <2>3, SilentRefines DEF SubmitRefused, Raises
  <2> QED BY <2>1, <2>2, <2>3
<1>3. CASE ReceiveAny
  BY <1>3, SilentRefines DEF ReceiveAny, Receive
<1>4. CASE CompleteAny
  BY <1>4, CompleteRefines DEF CompleteAny
<1>5. ASSUME NEW t \in Tassn, ApplyDrop(t) PROVE Contract!Next
  BY <1>5, CompleteRefines DEF ApplyDrop, Bound
<1>6. ASSUME NEW t, CompleteUnknown(t) PROVE Contract!Next
  BY <1>6, SilentRefines DEF CompleteUnknown, Raises
<1>7. CASE ApplyFlush \/ ApplyLinkDown
  BY <1>7, FailAllRefines DEF ApplyFlush, ApplyLinkDown
<1>8. CASE EndFlush
  <2>1. CASE nw_link_up
    <3>1. Contract!Release
      BY <1>8, <2>1 DEF EndFlush, Returns, Contract!Release, pending_tassn
    <3> QED BY <3>1 DEF Contract!Next
  <2>2. CASE ~nw_link_up
    BY <1>8, <2>2, SilentRefines DEF EndFlush, Returns
  <2> QED BY <2>1, <2>2
<1>9. CASE EndFlushRefused
  BY <1>9, SilentRefines DEF EndFlushRefused, Raises
<1>10. CASE UNCHANGED tpVars
  BY <1>10 DEF tpVars, Contract!vars, pending_tassn
<1> QED BY <1>1, <1>2, <1>3, <1>4, <1>5, <1>6, <1>7, <1>8, <1>9, <1>10 DEF TpNext

(* Every accepted transaction is answered exactly once, with the number    *)
(* bound to it, provided complete() is only given message numbers that     *)
(* fit 24 bits.                                                            *)
THEOREM BypassImplementsContract ==
  ASSUME CompleteTpmsn \subseteq Bound
  PROVE TpSpec => ImplementsContract
BY ContractInit, ContractStep, TpTypeCorrect, PTL
   DEF TpSpec, ImplementsContract, Contract!Spec

-----------------------------------------------------------------------------
(***************************************************************************)
(* UbCmnMem1r1w and UbCmnMemBench                                          *)
(***************************************************************************)
USE MemAssumption, BenchAssumption

-----------------------------------------------------------------------------
LEMMA MaskedType ==
  ASSUME NEW old \in Word, NEW new \in Word, NEW mask \in SUBSET Seg
  PROVE Masked(old, new, mask) \in Word
BY DEF Masked, Word

LEMMA FlagsType ==
  ASSUME NEW c \in Cycle PROVE CycleFlags(c) \in Seq(Flag)
<1>1. << >> \in Seq(Flag) /\ << "waddr" >> \in Seq(Flag) /\ << "raddr" >> \in Seq(Flag)
      /\ << "unwritten" >> \in Seq(Flag)
  BY DEF Flag
<1>2. WriteFlag(c) \in Seq(Flag) /\ ReadFlag(c) \in Seq(Flag)
  BY <1>1 DEF WriteFlag, ReadFlag
<1> QED BY <1>2 DEF CycleFlags

LEMMA MemTypeInit == Init => TypeOK
BY DEF Init, TypeOK, Word, ZeroWord

LEMMA TickType == ASSUME TypeOK, NEW c \in Cycle, Tick(c) PROVE TypeOK'
<1>1. /\ c.wdata \in Word /\ c.wmask \in SUBSET Seg
  BY DEF Cycle
<1>2. rdata' \in Word /\ rdata_valid' \in SUBSET Seg
  <2>1. CASE c.re /\ c.raddr \in Addr
    <3> DEFINE shown(s) == IF s \in written[c.raddr] THEN mem[c.raddr][s] ELSE Zero
    <3>1. mem[c.raddr] \in Word /\ written[c.raddr] \in SUBSET Seg
      BY <2>1 DEF TypeOK
    <3>2. \A s \in Seg : shown(s) \in Data
      BY <3>1 DEF Word
    <3>3. rdata' = [s \in Seg |-> shown(s)] /\ rdata_valid' = written[c.raddr]
      BY <2>1 DEF Tick, ReadPort
    <3> HIDE DEF shown
    <3> QED BY <3>1, <3>2, <3>3 DEF Word
  <2>2. CASE ~(c.re /\ c.raddr \in Addr)
    BY <2>2 DEF Tick, ReadPort, TypeOK
  <2> QED BY <2>1, <2>2
<1>3. mem' \in [Addr -> Word] /\ written' \in [Addr -> SUBSET Seg]
  <2>1. CASE c.we /\ c.waddr \in Addr
    <3>1. mem[c.waddr] \in Word /\ written[c.waddr] \in SUBSET Seg
      BY <2>1 DEF TypeOK
    <3>2. Masked(mem[c.waddr], c.wdata, c.wmask) \in Word
      BY <1>1, <3>1, MaskedType
    <3>3. /\ mem' = [mem EXCEPT ![c.waddr] = Masked(mem[c.waddr], c.wdata, c.wmask)]
          /\ written' = [written EXCEPT ![c.waddr] = written[c.waddr] \cup c.wmask]
      BY <2>1 DEF Tick, WritePort
    <3> QED BY <1>1, <3>1, <3>2, <3>3 DEF TypeOK
  <2>2. CASE ~(c.we /\ c.waddr \in Addr)
    BY <2>2 DEF Tick, WritePort, TypeOK
  <2> QED BY <2>1, <2>2
<1>4. flags' \in Seq(Flag)
  BY FlagsType DEF Tick, TypeOK
<1> QED BY <1>2, <1>3, <1>4 DEF Tick, TypeOK

LEMMA ResetType == ASSUME TypeOK, ResetWritten PROVE TypeOK'
BY DEF ResetWritten, TypeOK, Word, ZeroWord

(* The model's attributes keep their types.                                *)
THEOREM MemTypeCorrect == Spec => []TypeOK
<1>1. TypeOK /\ [Next]_memVars => TypeOK'
  <2> SUFFICES ASSUME TypeOK, [Next]_memVars PROVE TypeOK'
    OBVIOUS
  <2>1. CASE UNCHANGED memVars
    BY <2>1 DEF memVars, TypeOK
  <2> QED BY <2>1, TickType, ResetType DEF Next
<1> QED BY <1>1, MemTypeInit, PTL DEF Spec

-----------------------------------------------------------------------------
(* The refinement.                                                         *)

Content == [a \in Addr |-> Known(mem[a], written[a])]
Shown == Known(rdata, rdata_valid)

\* A read shows what the abstract memory held before the edge.
LEMMA ReadRefines ==
  ASSUME TypeOK, NEW c \in Cycle, ReadPort(c)
  PROVE Shown' = Shown \/ \E a \in Addr : Shown' = Content[a]
<1>1. CASE c.re /\ c.raddr \in Addr
  <2>1. \A s \in Seg : s \in written[c.raddr] => rdata'[s] = mem[c.raddr][s]
    BY <1>1 DEF ReadPort
  <2>2. rdata_valid' = written[c.raddr]
    BY <1>1 DEF ReadPort
  <2>3. Shown' = Known(mem[c.raddr], written[c.raddr])
    BY <2>1, <2>2 DEF Shown, Known
  <2> QED BY <1>1, <2>3 DEF Content
<1>2. CASE ~(c.re /\ c.raddr \in Addr)
  BY <1>2 DEF ReadPort, Shown
<1> QED BY <1>1, <1>2

\* A masked write defines the masked segments and leaves the others.
LEMMA MaskedKnown ==
  ASSUME NEW old \in Word, NEW new \in Word, NEW mask \in SUBSET Seg, NEW w \in SUBSET Seg
  PROVE Known(Masked(old, new, mask), w \cup mask)
          = [s \in Seg |-> IF s \in mask THEN new[s] ELSE Known(old, w)[s]]
BY DEF Known, Masked

LEMMA WriteRefines ==
  ASSUME TypeOK, NEW c \in Cycle, WritePort(c)
  PROVE \/ Content' = Content
        \/ \E a \in Addr, d \in Word, m \in SUBSET Seg :
             Content' = [Content EXCEPT ![a] =
                           [s \in Seg |-> IF s \in m THEN d[s] ELSE @[s]]]
<1>1. CASE c.we /\ c.waddr \in Addr
  <2> DEFINE w == c.waddr
  <2>1. c.wdata \in Word /\ c.wmask \in SUBSET Seg /\ w \in Addr
    BY <1>1 DEF Cycle
  <2>2. /\ mem[w] \in Word /\ written[w] \in SUBSET Seg
        /\ mem'[w] = Masked(mem[w], c.wdata, c.wmask)
        /\ written'[w] = written[w] \cup c.wmask
        /\ \A a \in Addr : a # w => mem'[a] = mem[a] /\ written'[a] = written[a]
    BY <1>1 DEF WritePort, TypeOK
  <2>3. Known(mem'[w], written'[w])
          = [s \in Seg |-> IF s \in c.wmask THEN c.wdata[s] ELSE Content[w][s]]
    <3>1. Content[w] = Known(mem[w], written[w])
      BY <2>1 DEF Content
    <3>2. Known(Masked(mem[w], c.wdata, c.wmask), written[w] \cup c.wmask)
            = [s \in Seg |-> IF s \in c.wmask THEN c.wdata[s] ELSE Known(mem[w], written[w])[s]]
      BY <2>1, <2>2, MaskedKnown
    <3> QED BY <2>2, <3>1, <3>2, Zenon
  <2>4. Content' = [Content EXCEPT ![w] =
                      [s \in Seg |-> IF s \in c.wmask THEN c.wdata[s] ELSE @[s]]]
    BY <2>1, <2>2, <2>3 DEF Content
  <2> QED BY <2>1, <2>4
<1>2. CASE ~(c.we /\ c.waddr \in Addr)
  BY <1>2 DEF WritePort, Content
<1> QED BY <1>1, <1>2

LEMMA TickRefines == ASSUME TypeOK, NEW c \in Cycle, Tick(c) PROVE Abstract!Next
<1>1. Abstract!ReadOrNot
  BY ReadRefines DEF Tick, Abstract!ReadOrNot, Shown, Content
<1>2. Abstract!WriteOrNot
  BY WriteRefines DEF Tick, Abstract!WriteOrNot, Abstract!Write, Content, Word
<1> QED BY <1>1, <1>2 DEF Abstract!Next, Abstract!Edge

LEMMA ForgetRefines == ASSUME ResetWritten PROVE Abstract!Next
<1>1. Abstract!Forget
  BY DEF ResetWritten, Abstract!Forget, Abstract!Nothing, Known
<1> QED BY <1>1 DEF Abstract!Next

(* Whatever is written, masked, read on the same edge, out of range or     *)
(* reset, the model behaves as a read-old memory in which a segment is     *)
(* undefined until it is written.                                          *)
THEOREM ModelIsReadOldMemory == Spec => ImplementsMemory
<1>1. Init => Abstract!Init
  BY DEF Init, Abstract!Init, Abstract!Nothing, Known
<1>2. TypeOK /\ [Next]_memVars => [Abstract!Next]_(Abstract!vars)
  <2> SUFFICES ASSUME TypeOK, [Next]_memVars PROVE [Abstract!Next]_(Abstract!vars)
    OBVIOUS
  <2>1. CASE UNCHANGED memVars
    BY <2>1 DEF memVars, Abstract!vars, Known
  <2> QED BY <2>1, TickRefines, ForgetRefines DEF Next
<1> QED BY <1>1, <1>2, MemTypeCorrect, PTL DEF Spec, ImplementsMemory, Abstract!Spec

-----------------------------------------------------------------------------
(* The bench.  Until its last cycle no flag has been raised, so that the   *)
(* scoreboard's index into the list is 0 and the last cycle's flags are    *)
(* all of it.                                                              *)

BenchInv ==
  /\ BenchTypeOK
  /\ CellsAgree
  /\ NeverFails
  /\ verdict = "running" => flags = << >> /\ n_flags_seen = 0

LEMMA BenchStart == BenchInit => BenchInv
<1> SUFFICES ASSUME BenchInit PROVE BenchInv
  OBVIOUS
<1>1. TypeOK
  BY MemTypeInit DEF BenchInit
<1>2. PICK w \in PowerUp : cells = [a \in BusAddr |-> w] /\ rdata_q = w
  BY DEF BenchInit
<1>3. cells \in [BusAddr -> Word] /\ rdata_q \in Word
  BY <1>2
<1>4. BenchTypeOK
  BY <1>1, <1>3 DEF BenchInit, BenchTypeOK
<1>5. CellsAgree
  BY DEF BenchInit, Init, CellsAgree, CompareValid
<1> QED BY <1>4, <1>5 DEF BenchInit, Init, BenchInv, NeverFails

LEMMA NetlistType ==
  ASSUME cells \in [BusAddr -> Word], rdata_q \in Word, NEW c \in Cycle, Netlist(c)
  PROVE cells' \in [BusAddr -> Word] /\ rdata_q' \in Word
<1>1. c.wdata \in Word /\ c.wmask \in SUBSET Seg /\ c.waddr \in BusAddr /\ c.raddr \in BusAddr
  BY DEF Cycle
<1>2. Masked(cells[c.waddr], c.wdata, c.wmask) \in Word
  BY <1>1, MaskedType
<1> QED BY <1>1, <1>2 DEF Netlist

\* The same masked write on both sides keeps the written segments equal.
LEMMA WriteAgrees ==
  ASSUME BenchTypeOK, CellsAgree, NEW c \in Cycle, Tick(c), Netlist(c)
  PROVE \A a \in Addr : \A s \in written'[a] : cells'[a][s] = mem'[a][s]
<1>1. /\ c.wmask \in SUBSET Seg /\ c.waddr \in BusAddr
      /\ mem \in [Addr -> Word] /\ written \in [Addr -> SUBSET Seg]
      /\ cells \in [BusAddr -> Word] /\ Addr \subseteq BusAddr
  BY DEF Cycle, BenchTypeOK, TypeOK, Addr
<1>2. CASE c.we /\ c.waddr \in Addr
  <2>1. /\ cells'[c.waddr] = Masked(cells[c.waddr], c.wdata, c.wmask)
        /\ mem'[c.waddr] = Masked(mem[c.waddr], c.wdata, c.wmask)
        /\ written'[c.waddr] = written[c.waddr] \cup c.wmask
    BY <1>1, <1>2 DEF Netlist, Tick, WritePort
  <2>2. \A a \in Addr : a # c.waddr =>
          cells'[a] = cells[a] /\ mem'[a] = mem[a] /\ written'[a] = written[a]
    BY <1>1, <1>2 DEF Netlist, Tick, WritePort
  <2>3. \A s \in written'[c.waddr] : cells'[c.waddr][s] = mem'[c.waddr][s]
    <3> SUFFICES ASSUME NEW s \in written'[c.waddr]
                 PROVE cells'[c.waddr][s] = mem'[c.waddr][s]
      OBVIOUS
    <3>1. s \in Seg /\ (s \in c.wmask \/ s \in written[c.waddr])
      BY <1>1, <1>2, <2>1
    <3>2. cells[c.waddr][s] = mem[c.waddr][s] \/ s \in c.wmask
      BY <1>2, <3>1 DEF CellsAgree
    <3> QED BY <2>1, <3>1, <3>2 DEF Masked
  <2> QED BY <2>2, <2>3 DEF CellsAgree
<1>3. CASE ~(c.we /\ c.waddr \in Addr)
  <2>1. \A a \in Addr : cells'[a] = cells[a]
    BY <1>1, <1>3 DEF Netlist
  <2>2. mem' = mem /\ written' = written
    BY <1>3 DEF Tick, WritePort
  <2> QED BY <2>1, <2>2 DEF CellsAgree
<1> QED BY <1>2, <1>3

\* A cycle that reads within DEPTH, or not at all, keeps the outputs equal.
LEMMA ReadAgrees ==
  ASSUME BenchTypeOK, CellsAgree, verdict = "running", NEW c \in Cycle,
         Tick(c), Netlist(c), c.re => c.raddr \in Addr
  PROVE CompareValid(rdata_q', rdata', rdata_valid')
<1>1. CASE c.re
  <2>1. written[c.raddr] \subseteq Seg
    BY <1>1 DEF BenchTypeOK, TypeOK
  <2>2. \A s \in written[c.raddr] : rdata'[s] = mem[c.raddr][s]
    BY <1>1, <2>1 DEF Tick, ReadPort
  <2>3. rdata_q' = cells[c.raddr] /\ rdata_valid' = written[c.raddr]
    BY <1>1 DEF Netlist, Tick, ReadPort
  <2> QED BY <1>1, <2>2, <2>3 DEF CompareValid, CellsAgree
<1>2. CASE ~c.re
  BY <1>2 DEF Netlist, Tick, ReadPort, CompareValid, CellsAgree
<1> QED BY <1>1, <1>2

\* What the scoreboard extracts are the flags of the cycle.
LEMMA CycleFlagsSeen ==
  ASSUME BenchInv, verdict = "running", NEW c \in Cycle, Predict(c)
  PROVE cycle_flags' = CycleFlags(c) /\ flags' = CycleFlags(c) /\ n_flags_seen' \in Nat
<1>1. CycleFlags(c) \in Seq(Flag)
  BY FlagsType
<1>2. flags' = CycleFlags(c)
  BY <1>1 DEF BenchInv, Predict, Tick
<1>3. cycle_flags' = SubSeq(CycleFlags(c), 1, Len(CycleFlags(c)))
  BY <1>2 DEF BenchInv, Predict
<1>4. SubSeq(CycleFlags(c), 1, Len(CycleFlags(c))) = CycleFlags(c)
  <2> DEFINE s == CycleFlags(c)
  <2> SUFFICES ASSUME s \in Seq(Flag) PROVE SubSeq(s, 1, Len(s)) = s
    BY <1>1
  <2> HIDE DEF s
  <2> QED OBVIOUS
<1>5. Len(CycleFlags(c)) \in Nat
  BY <1>1
<1> QED BY <1>2, <1>3, <1>4, <1>5 DEF Predict

LEMMA CleanReads ==
  ASSUME NEW c \in Cycle, Clean(c) PROVE c.re => c.raddr \in Addr
BY DEF Clean, CycleFlags, WriteFlag, ReadFlag

\* The flag a case waits for is among those its last cycle raises.
LEMMA ViolationFlagged ==
  ASSUME NEW c \in Cycle, Violating(c) PROVE LastSaw(want, CycleFlags(c))
<1>1. CASE want = "oor"
  <2>1. CASE c.we /\ c.waddr \notin Addr
    <3>1. CycleFlags(c)[1] = "waddr" /\ 1 \in 1 .. Len(CycleFlags(c))
      BY <2>1 DEF CycleFlags, WriteFlag, ReadFlag
    <3> QED BY <1>1, <3>1 DEF LastSaw
  <2>2. CASE ~(c.we /\ c.waddr \notin Addr)
    <3>1. CycleFlags(c)[1] = "raddr" /\ 1 \in 1 .. Len(CycleFlags(c))
      BY <1>1, <2>2 DEF Violating, OutOfRange, CycleFlags, WriteFlag, ReadFlag
    <3> QED BY <1>1, <3>1 DEF LastSaw
  <2> QED BY <2>1, <2>2
<1>2. CASE want # "oor"
  <2>1. want = "uninit" /\ assert_no_uninit_read /\ Uninit(c)
    BY <1>2 DEF Violating
  <2>2. ReadFlag(c) = << "unwritten" >>
    BY <2>1 DEF Uninit, ReadFlag
  <2>3. PICK i \in 1 .. Len(CycleFlags(c)) : CycleFlags(c)[i] = "unwritten"
    BY <2>2 DEF CycleFlags, WriteFlag
  <2> QED BY <2>1, <2>3 DEF LastSaw
<1> QED BY <1>1, <1>2

LEMMA BenchStep == BenchInv /\ [BenchNext]_vars => BenchInv'
<1> SUFFICES ASSUME BenchInv, [BenchNext]_vars PROVE BenchInv'
  OBVIOUS
<1>0. BenchTypeOK /\ CellsAgree /\ TypeOK
  BY DEF BenchInv, BenchTypeOK
<1>1. ASSUME NEW c \in Cycle, CompareCycle(c) PROVE BenchInv'
  <2>1. Tick(c) /\ Netlist(c) /\ Predict(c) /\ verdict = "running" /\ Clean(c)
    BY <1>1 DEF CompareCycle, Predict
  <2>2. cycle_flags' = << >> /\ flags' = << >> /\ n_flags_seen' = 0
    BY <2>1, CycleFlagsSeen DEF Clean, Predict
  <2>3. CompareValid(rdata_q', rdata', rdata_valid')
    BY <1>0, <2>1, CleanReads, ReadAgrees
  <2>4. verdict' = "running" /\ want' = want
    BY <1>1, <2>2, <2>3 DEF CompareCycle
  <2>5. CellsAgree'
    BY <1>0, <2>1, <2>3, WriteAgrees DEF CellsAgree
  <2>6. BenchTypeOK'
    BY <1>0, <2>1, <2>2, <2>4, TickType, NetlistType DEF BenchTypeOK
  <2> QED BY <2>2, <2>4, <2>5, <2>6 DEF BenchInv, NeverFails
<1>2. ASSUME NEW c \in Cycle, ViolatingCycle(c) PROVE BenchInv'
  <2>1. Tick(c) /\ Netlist(c) /\ Predict(c) /\ verdict = "running" /\ Violating(c)
    BY <1>2 DEF ViolatingCycle, Predict
  <2>2. cycle_flags' = CycleFlags(c) /\ n_flags_seen' \in Nat
    BY <2>1, CycleFlagsSeen
  <2>3. verdict' = "passed" /\ want' = want
    BY <1>2, <2>1, <2>2, ViolationFlagged DEF ViolatingCycle
  <2>4. CellsAgree'
    BY <1>0, <2>1, <2>3, WriteAgrees DEF CellsAgree
  <2>5. BenchTypeOK'
    BY <1>0, <2>1, <2>2, <2>3, TickType, NetlistType, FlagsType DEF BenchTypeOK
  <2> QED BY <2>3, <2>4, <2>5 DEF BenchInv, NeverFails
<1>3. CASE Finish
  <2>1. verdict' = "passed"
    BY <1>3 DEF Finish, BenchInv
  <2>2. UNCHANGED << mem, written, rdata, rdata_valid, flags, assert_no_uninit_read,
                     cells, rdata_q, n_flags_seen, cycle_flags, want >>
    BY <1>3 DEF Finish, memVars
  <2>3. CellsAgree'
    BY <1>0, <2>1, <2>2 DEF CellsAgree
  <2>4. BenchTypeOK'
    BY <1>0, <2>1, <2>2 DEF BenchTypeOK, TypeOK
  <2> QED BY <2>1, <2>3, <2>4 DEF BenchInv, NeverFails
<1>4. CASE Forget
  <2>1. TypeOK'
    BY <1>0, <1>4, ResetType DEF Forget
  <2>2. CellsAgree'
    BY <1>0, <1>4 DEF Forget, ResetWritten, CellsAgree, CompareValid, bench
  <2> QED BY <1>0, <1>4, <2>1, <2>2
          DEF Forget, ResetWritten, bench, BenchInv, BenchTypeOK, NeverFails
<1>5. CASE UNCHANGED vars
  BY <1>5 DEF vars, memVars, bench, BenchInv, BenchTypeOK, TypeOK, CellsAgree, CompareValid,
              NeverFails
<1> QED BY <1>1, <1>2, <1>3, <1>4, <1>5 DEF BenchNext

(* The state of the bench keeps its type.                                  *)
THEOREM BenchTypeCorrect == BenchSpec => []BenchTypeOK
<1>1. BenchInv => BenchTypeOK
  BY DEF BenchInv
<1> QED BY <1>1, BenchStart, BenchStep, PTL DEF BenchSpec

(* In the bench too the model behaves as a read-old memory.                *)
THEOREM BenchModelIsReadOldMemory == BenchSpec => ImplementsMemory
<1>1. BenchInit => Abstract!Init
  BY DEF BenchInit, Init, Abstract!Init, Abstract!Nothing, Known
<1>2. BenchInv /\ [BenchNext]_vars => [Abstract!Next]_(Abstract!vars)
  <2> SUFFICES ASSUME BenchInv, [BenchNext]_vars PROVE [Abstract!Next]_(Abstract!vars)
    OBVIOUS
  <2>1. TypeOK
    BY DEF BenchInv, BenchTypeOK
  <2>2. ASSUME NEW c \in Cycle, CompareCycle(c) \/ ViolatingCycle(c) PROVE Abstract!Next
    <3>1. Tick(c)
      BY <2>2 DEF CompareCycle, ViolatingCycle, Predict
    <3> QED BY <2>1, <3>1, TickRefines
  <2>3. CASE Forget
    BY <2>3, ForgetRefines DEF Forget
  <2>4. CASE Finish \/ UNCHANGED vars
    BY <2>4 DEF Finish, vars, memVars, Abstract!vars, Known
  <2> QED BY <2>2, <2>3, <2>4 DEF BenchNext
<1> QED BY <1>1, <1>2, BenchStart, BenchStep, PTL DEF BenchSpec, ImplementsMemory, Abstract!Spec

(* Whatever the netlist powers up with, its cells and its output agree     *)
(* with the model in every segment the model knows to be written.          *)
THEOREM NetlistAgrees == BenchSpec => []CellsAgree
<1>1. BenchInv => CellsAgree
  BY DEF BenchInv
<1> QED BY <1>1, BenchStart, BenchStep, PTL DEF BenchSpec

(* The bench passes every correct netlist, and sees every violation a case *)
(* ends with.                                                              *)
THEOREM BenchNeverFails == BenchSpec => []NeverFails
<1>1. BenchInv => NeverFails
  BY DEF BenchInv
<1> QED BY <1>1, BenchStart, BenchStep, PTL DEF BenchSpec
=============================================================================
