----------------------------- MODULE UbVibeUvm -----------------------------
(***************************************************************************)
(* The bench skeleton: the agents of tb/vibe_uvm on both netlists of the   *)
(* passthrough harness, with the test hooks and without.                   *)
(*                                                                         *)
(* Drivers, monitors and the test are coroutines that all wake at a rising *)
(* edge.  They read what the pins and registers were before it, and what   *)
(* they write is on the pins at the next one: one action is one edge.      *)
(***************************************************************************)
EXTENDS Naturals, Sequences

CONSTANTS
  Payload,       \* payloads and register words
  ZeroPayload,   \* the word after reset
  NoBeat         \* no beat and no access

\* What a CSR address may be: one register that is written and read, those that
\* read 0 here and ignore a write, the test window, and no register at all.
CsrAddr == {"PORT_CNA", "STATUS", "TEST", "UNMAPPED"}

Access == [write : BOOLEAN, addr : CsrAddr, wdata : Payload]

ASSUME UvmAssumption == ZeroPayload \in Payload /\ NoBeat \notin Payload /\ NoBeat \notin Access

VARIABLES
  \* the inputs of both netlists, as the coroutines left them
  vr_in,        \* beat offered, or NoBeat for valid = 0
  vr_out_ready,
  vo_in,        \* beat of the valid-only stream, or NoBeat
  csr,          \* access requested, or NoBeat for req = 0
  test_mode, inj,   \* inputs of the netlist with hooks only
  \* the two netlists
  hooks, product,
  \* the coroutines between two edges
  awaiting,     \* access the CSR driver has asked for and reads next, or NoBeat
  monitoring,   \* access the CSR monitor saw and reads next, or NoBeat
  \* what they reported at the last edge
  vrDone, vrSeen, vrLeft, voDone, voSeen, voLeft, csrDone, csrSeen,
  \* history
  cnaWritten,   \* word of the last completed write of PORT_CNA
  quiet         \* test_mode was 0 at the edge before

reports == << vrDone, vrSeen, vrLeft, voDone, voSeen, voLeft, csrDone, csrSeen >>

uvmVars == << vr_in, vr_out_ready, vo_in, csr, test_mode, inj, hooks, product,
              awaiting, monitoring, reports, cnaWritten, quiet >>

NoAnswer == [rvalid |-> FALSE, rdata |-> ZeroPayload, err |-> FALSE]

\* No obs: all of tb_obs_* are 0.
Cleared ==
  [vr_out |-> NoBeat, vo_out |-> NoBeat, port_cna |-> ZeroPayload,
   test_reg |-> ZeroPayload, answer |-> NoAnswer, obs |-> NoBeat]

-----------------------------------------------------------------------------
(* The harness.                                                            *)

ReadOfUngated(n, addr, live) ==          \* fault: the test window is always read
  CASE addr = "PORT_CNA" -> n.port_cna
    [] addr = "TEST"     -> n.test_reg
    [] OTHER             -> ZeroPayload

ReadOf(n, addr, live) ==
  CASE addr = "PORT_CNA"       -> n.port_cna
    [] addr = "TEST" /\ live   -> n.test_reg
    [] OTHER                   -> ZeroPayload

Answer(n, live) ==
  IF csr = NoBeat THEN NoAnswer
  ELSE [rvalid |-> ~csr.write,
        rdata  |-> IF csr.write THEN ZeroPayload ELSE ReadOf(n, csr.addr, live),
        err    |-> csr.addr = "UNMAPPED"]

WrittenToAny(old, addr) ==               \* fault: the address is not decoded
  IF csr # NoBeat /\ csr.write THEN csr.wdata ELSE old

WrittenTo(old, addr) ==
  IF csr # NoBeat /\ csr.write /\ csr.addr = addr THEN csr.wdata ELSE old

InReadyAlways(n) == TRUE                 \* fault: a full slice takes a beat

InReady(n) == n.vr_out = NoBeat \/ vr_out_ready

Clocked(n, live) ==
  [vr_out   |-> IF vr_in # NoBeat /\ InReady(n) THEN vr_in
                ELSE IF vr_out_ready THEN NoBeat ELSE n.vr_out,
   vo_out   |-> vo_in,
   port_cna |-> WrittenTo(n.port_cna, "PORT_CNA"),
   test_reg |-> IF live THEN WrittenTo(n.test_reg, "TEST") ELSE n.test_reg,
   answer   |-> Answer(n, live),
   obs      |-> IF live THEN inj ELSE NoBeat]

-----------------------------------------------------------------------------
(* The agents.  The test may hand a driver its next item as soon as it is  *)
(* done: the pin that the driver has just lowered goes up again at once.   *)

Items == Payload \cup {NoBeat}

VrDriver ==
  IF vr_in # NoBeat /\ ~InReady(hooks)
  THEN vr_in' = vr_in /\ vrDone' = NoBeat
  ELSE vr_in' \in Items /\ vrDone' = vr_in

VrMonitor == vrSeen' = IF vr_in # NoBeat /\ InReady(hooks) THEN vr_in ELSE NoBeat

VrSink ==
  /\ vrLeft' = IF vr_out_ready THEN hooks.vr_out ELSE NoBeat
  /\ vr_out_ready' \in BOOLEAN

VoAgent ==
  /\ vo_in' \in Items /\ voDone' = vo_in
  /\ voSeen' = vo_in
  /\ voLeft' = hooks.vo_out

Completed(access, n) == [access |-> access, rdata |-> n.answer.rdata, err |-> n.answer.err]

NextAccess == csr' \in Access \cup {NoBeat}

\* The request is up for one edge, the answer is read at the one after.
CsrDriver ==
  IF csr # NoBeat
  THEN csr' = NoBeat /\ awaiting' = csr /\ csrDone' = NoBeat
  ELSE /\ NextAccess /\ awaiting' = NoBeat
       /\ csrDone' = IF awaiting = NoBeat THEN NoBeat ELSE Completed(awaiting, hooks)

MonitorEarly ==                         \* fault: the answer at the request's edge
  /\ monitoring' = NoBeat
  /\ csrSeen' = IF csr = NoBeat THEN NoBeat ELSE Completed(csr, hooks)

\* While it waits for an answer the monitor does not look at the request.
CsrMonitor ==
  IF monitoring = NoBeat
  THEN monitoring' = csr /\ csrSeen' = NoBeat
  ELSE monitoring' = NoBeat /\ csrSeen' = Completed(monitoring, hooks)

\* set_test_mode, drive_inj, idle_inj.
HookAgent == test_mode' \in BOOLEAN /\ inj' \in Payload

-----------------------------------------------------------------------------
UvmInit ==
  /\ vr_in = NoBeat /\ vr_out_ready = TRUE /\ vo_in = NoBeat /\ csr = NoBeat
  /\ test_mode = FALSE /\ inj = ZeroPayload
  /\ hooks = Cleared /\ product = Cleared
  /\ awaiting = NoBeat /\ monitoring = NoBeat
  /\ vrDone = NoBeat /\ vrSeen = NoBeat /\ vrLeft = NoBeat
  /\ voDone = NoBeat /\ voSeen = NoBeat /\ voLeft = NoBeat
  /\ csrDone = NoBeat /\ csrSeen = NoBeat
  /\ cnaWritten = ZeroPayload /\ quiet = TRUE

Edge ==
  /\ VrDriver /\ VrMonitor /\ VrSink /\ VoAgent /\ CsrDriver /\ CsrMonitor /\ HookAgent
  /\ hooks' = Clocked(hooks, test_mode) /\ product' = Clocked(product, FALSE)
  /\ cnaWritten' = IF awaiting # NoBeat /\ awaiting.write /\ awaiting.addr = "PORT_CNA"
                THEN awaiting.wdata ELSE cnaWritten
  /\ quiet' = ~test_mode

\* apply_reset, by a test whose drivers have nothing to do, then idle_inj.
ApplyReset ==
  /\ vr_in = NoBeat /\ vo_in = NoBeat /\ csr = NoBeat /\ awaiting = NoBeat
  /\ UNCHANGED << vr_in, vr_out_ready, vo_in, csr, awaiting >>
  /\ test_mode' = FALSE /\ inj' = ZeroPayload
  /\ hooks' = Cleared /\ product' = Cleared
  /\ monitoring' = NoBeat
  /\ vrDone' = NoBeat /\ vrSeen' = NoBeat /\ vrLeft' = NoBeat
  /\ voDone' = NoBeat /\ voSeen' = NoBeat /\ voLeft' = NoBeat
  /\ csrDone' = NoBeat /\ csrSeen' = NoBeat
  /\ cnaWritten' = ZeroPayload /\ quiet' = TRUE

UvmNext == Edge \/ ApplyReset

UvmSpec == UvmInit /\ [][UvmNext]_uvmVars

-----------------------------------------------------------------------------
(* A monitor reports what its driver finished, at the same edge and with   *)
(* the same answer.  The monitor of the CSR is deaf for one edge after     *)
(* each request: it misses none as long as the driver leaves that edge     *)
(* free.                                                                   *)
MonitorsAgree == vrSeen = vrDone /\ voSeen = voDone /\ csrSeen = csrDone

(* The driver finds rvalid as SPEC 3.2.3 has it, reads back of PORT_CNA    *)
(* what the last completed write wrote, and an error for exactly the       *)
(* unmapped, whatever accesses, mode changes and resets came before.       *)
AccessesAnswered ==
  /\ awaiting # NoBeat => hooks.answer.rvalid = ~awaiting.write
  /\ csrDone # NoBeat =>
       /\ csrDone.err <=> csrDone.access.addr = "UNMAPPED"
       /\ (csrDone.access.addr = "PORT_CNA" /\ ~csrDone.access.write)
            => csrDone.rdata = cnaWritten

(* docs/SPEC.md:352: while tb_test_mode is 0 the netlist with the hooks    *)
(* behaves as the one without, whatever was written to the test window or  *)
(* injected while it was 1.                                                *)
QuietIsProduct ==
  /\ hooks.vr_out = product.vr_out /\ hooks.vo_out = product.vo_out
  /\ hooks.port_cna = product.port_cna
  /\ quiet => hooks.answer = product.answer /\ hooks.obs = product.obs

VrStream == INSTANCE UbFlitChannel WITH
  Item <- Payload, NoItem <- NoBeat, inp <- vrDone, out <- vrLeft,
  queue <- IF hooks.vr_out = NoBeat THEN << >> ELSE << hooks.vr_out >>

VoStream == INSTANCE UbFlitChannel WITH
  Item <- Payload, NoItem <- NoBeat, inp <- voDone, out <- voLeft,
  queue <- IF hooks.vo_out = NoBeat THEN << >> ELSE << hooks.vo_out >>

(* Items that a driver of a stream was given leave the harness once, in    *)
(* order, whatever the sink does, unless a reset comes first.              *)
StreamsImplementChannel == VrStream!Spec /\ VoStream!Spec
=============================================================================
