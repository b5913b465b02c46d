---------------------------- MODULE UbCmnMem1r1w ----------------------------
(***************************************************************************)
(* model/ub_cmn_mem_1r1w.py, class UbCmnMem1r1w: the behavioural model of  *)
(* the 1R1W memory with a write mask per segment.  tick() is one rising    *)
(* edge.  A word is a function of its segments, so masking and assembling  *)
(* need no bit arithmetic.  A word is None in the source exactly while     *)
(* none of its segments is written, rdata is None exactly while            *)
(* rdata_valid is 0.  This is strict=False, as the scoreboard uses it;     *)
(* strict=True only stops after recording the first flag of a tick, when   *)
(* all the rest of the tick is done.                                       *)
(***************************************************************************)
EXTENDS Integers, Sequences

CONSTANTS
  Depth,
  BusAddr,              \* what waddr and raddr can carry
  Seg, Data,
  Zero,
  Undef                 \* what a never-written segment holds

ASSUME MemAssumption ==
  /\ Depth \in Nat \ {0}
  /\ 0 .. Depth - 1 \subseteq BusAddr /\ BusAddr \subseteq Int
  /\ Zero \in Data
  /\ Undef \notin Data

VARIABLES mem, written, rdata, rdata_valid, flags,
          assert_no_uninit_read   \* an argument of the constructor

memVars == << mem, written, rdata, rdata_valid, flags, assert_no_uninit_read >>

Addr == 0 .. Depth - 1
Word == [Seg -> Data]
ZeroWord == [s \in Seg |-> Zero]
Flag == {"waddr", "raddr", "unwritten"}

\* The arguments of one tick().
Cycle == [we : BOOLEAN, waddr : BusAddr, wdata : Word, wmask : SUBSET Seg,
          re : BOOLEAN, raddr : BusAddr]

-----------------------------------------------------------------------------
WriteFlag(c) == IF c.we /\ c.waddr \notin Addr THEN << "waddr" >> ELSE << >>

ReadFlag(c) ==
  IF c.re /\ c.raddr \notin Addr THEN << "raddr" >>
  ELSE IF c.re /\ assert_no_uninit_read /\ written[c.raddr] # Seg THEN << "unwritten" >>
  ELSE << >>

CycleFlags(c) == WriteFlag(c) \o ReadFlag(c)

\* Fault: the read forwards the word the same edge writes.
ReadPortForwards(c) ==
  IF c.re /\ c.raddr \in Addr
  THEN /\ rdata' = IF c.we /\ c.waddr = c.raddr THEN c.wdata ELSE mem[c.raddr]
       /\ rdata_valid' = written[c.raddr]
  ELSE UNCHANGED << rdata, rdata_valid >>

\* The read captures the word before the write of the same tick.
ReadPort(c) ==
  IF c.re /\ c.raddr \in Addr
  THEN /\ rdata' = [s \in Seg |-> IF s \in written[c.raddr] THEN mem[c.raddr][s] ELSE Zero]
       /\ rdata_valid' = written[c.raddr]
  ELSE UNCHANGED << rdata, rdata_valid >>

Masked(old, new, mask) == [s \in Seg |-> IF s \in mask THEN new[s] ELSE old[s]]

\* Fault: a masked write marks the whole word written.
WritePortWhole(c) ==
  IF c.we /\ c.waddr \in Addr
  THEN /\ mem' = [mem EXCEPT ![c.waddr] = Masked(@, c.wdata, c.wmask)]
       /\ written' = [written EXCEPT ![c.waddr] = Seg]
  ELSE UNCHANGED << mem, written >>

WritePort(c) ==
  IF c.we /\ c.waddr \in Addr
  THEN /\ mem' = [mem EXCEPT ![c.waddr] = Masked(@, c.wdata, c.wmask)]
       /\ written' = [written EXCEPT ![c.waddr] = @ \cup c.wmask]
  ELSE UNCHANGED << mem, written >>

Tick(c) ==
  /\ ReadPort(c)
  /\ WritePort(c)
  /\ flags' = flags \o CycleFlags(c)
  /\ UNCHANGED assert_no_uninit_read

\* rdata is not reset.
ResetWritten ==
  /\ mem' = [a \in Addr |-> ZeroWord]
  /\ written' = [a \in Addr |-> {}]
  /\ flags' = << >>
  /\ UNCHANGED << rdata, rdata_valid, assert_no_uninit_read >>

Init ==
  /\ mem = [a \in Addr |-> ZeroWord]
  /\ written = [a \in Addr |-> {}]
  /\ rdata = ZeroWord /\ rdata_valid = {}
  /\ flags = << >>
  /\ assert_no_uninit_read \in BOOLEAN

Next == (\E c \in Cycle : Tick(c)) \/ ResetWritten

Spec == Init /\ [][Next]_memVars

-----------------------------------------------------------------------------
(* Every attribute has its type.                                           *)
TypeOK ==
  /\ mem \in [Addr -> Word]
  /\ written \in [Addr -> SUBSET Seg]
  /\ rdata \in Word /\ rdata_valid \in SUBSET Seg
  /\ flags \in Seq(Flag)
  /\ assert_no_uninit_read \in BOOLEAN

(* The mask of written segments is all that separates data from garbage:   *)
(* under it the model is a read-old memory whose unwritten segments read   *)
(* as undefined, for masked writes, out-of-range addresses and same-edge   *)
(* reads of the word being written.                                        *)
Known(word, valid) == [s \in Seg |-> IF s \in valid THEN word[s] ELSE Undef]

Abstract == INSTANCE UbReadOldMemory WITH
  Address <- Addr, Segment <- Seg, Value <- Data,
  content <- [a \in Addr |-> Known(mem[a], written[a])],
  q <- Known(rdata, rdata_valid)

ImplementsMemory == Abstract!Spec
=============================================================================
