---------------------------- MODULE UbCmnMemBench ----------------------------
(***************************************************************************)
(* tb/cmn: the netlist of pycircuit/cmn/ub_cmn_mem_1r1w.py and the         *)
(* behavioural model on one clock, driven with the same cycles, compared   *)
(* after every edge by Mem1r1wScoreboard.  A run whose case expects a      *)
(* violation ends with one cycle that commits it, which is not compared;   *)
(* any other flag, and any mismatch, fails the run.                        *)
(*                                                                         *)
(* The netlist has a cell for every value of the address bus, no idea of   *)
(* which segments were written, and no reset: it powers up with anything.  *)
(***************************************************************************)
EXTENDS UbCmnMem1r1w

CONSTANTS
  PowerUp   \* words the cells and the output register may power up with

ASSUME BenchAssumption == PowerUp \subseteq Word

VARIABLES
  cells, rdata_q,            \* the netlist
  n_flags_seen, cycle_flags, \* the scoreboard
  want,                      \* the violation the case ends with, or "none"
  verdict

bench == << n_flags_seen, cycle_flags, want, verdict >>
vars == << memVars, cells, rdata_q, bench >>

-----------------------------------------------------------------------------
\* Fault: the netlist's read sees the same edge's write.
NetlistReadNew(c) ==
  /\ cells' = IF c.we THEN [cells EXCEPT ![c.waddr] = Masked(@, c.wdata, c.wmask)]
                      ELSE cells
  /\ rdata_q' = IF c.re THEN cells'[c.raddr] ELSE rdata_q

\* One clock edge of the netlist.
Netlist(c) ==
  /\ cells' = IF c.we THEN [cells EXCEPT ![c.waddr] = Masked(@, c.wdata, c.wmask)]
                      ELSE cells
  /\ rdata_q' = IF c.re THEN cells[c.raddr] ELSE rdata_q

Predict(c) ==
  /\ Tick(c)
  /\ cycle_flags' = SubSeq(flags', n_flags_seen + 1, Len(flags'))
  /\ n_flags_seen' = Len(flags')

\* Only the segments marked valid are compared.
CompareValid(actual, expected, valid) == \A s \in valid : actual[s] = expected[s]

LastSaw(kind, seen) ==
  \E i \in 1 .. Len(seen) :
    seen[i] \in IF kind = "oor" THEN {"waddr", "raddr"} ELSE {"unwritten"}

\* What tb/cmn/sequences.py generates: addresses within DEPTH, and only
\* fully written words are read where the assertion is on.
Clean(c) == CycleFlags(c) = << >>

CompareCycle(c) ==
  /\ verdict = "running"
  /\ Clean(c)
  /\ Predict(c) /\ Netlist(c)
  /\ verdict' = IF cycle_flags' # << >> \/ ~CompareValid(rdata_q', rdata', rdata_valid')
                THEN "failed" ELSE "running"
  /\ UNCHANGED want

\* The case's last cycle, and what it is meant to provoke.
OutOfRange(c) == (c.we /\ c.waddr \notin Addr) \/ (c.re /\ c.raddr \notin Addr)
Uninit(c) == c.re /\ c.raddr \in Addr /\ written[c.raddr] # Seg

Violating(c) ==
  \/ want = "oor" /\ OutOfRange(c)
  \/ want = "uninit" /\ assert_no_uninit_read /\ Uninit(c)

ViolatingCycle(c) ==
  /\ verdict = "running"
  /\ Violating(c)
  /\ Predict(c) /\ Netlist(c)
  /\ verdict' = IF LastSaw(want, cycle_flags') THEN "passed" ELSE "failed"
  /\ UNCHANGED want

\* reset_written() between two cycles: the model forgets, the netlist does
\* not, and the scoreboard keeps its place in the list of flags.
Forget ==
  /\ verdict = "running"
  /\ ResetWritten
  /\ UNCHANGED << cells, rdata_q, bench >>

\* assert_clean() at the end of a case that expects no violation.
Finish ==
  /\ verdict = "running" /\ want = "none"
  /\ verdict' = IF flags = << >> THEN "passed" ELSE "failed"
  /\ UNCHANGED << memVars, cells, rdata_q, n_flags_seen, cycle_flags, want >>

BenchInit ==
  /\ Init
  /\ \E w \in PowerUp : cells = [a \in BusAddr |-> w] /\ rdata_q = w
  /\ n_flags_seen = 0 /\ cycle_flags = << >>
  /\ want \in {"none", "oor", "uninit"}
  /\ verdict = "running"

BenchNext == (\E c \in Cycle : CompareCycle(c) \/ ViolatingCycle(c)) \/ Forget \/ Finish

BenchSpec == BenchInit /\ [][BenchNext]_vars

-----------------------------------------------------------------------------
(* The state of the bench has its type.                                    *)
BenchTypeOK ==
  /\ TypeOK
  /\ cells \in [BusAddr -> Word] /\ rdata_q \in Word
  /\ n_flags_seen \in Nat /\ cycle_flags \in Seq(Flag)
  /\ want \in {"none", "oor", "uninit"}
  /\ verdict \in {"running", "passed", "failed"}

(* The netlist holds what the model holds in every segment the model knows *)
(* to be written, and shows it while the model's output is valid: what it  *)
(* powered up with never reaches a comparison.                             *)
CellsAgree ==
  /\ \A a \in Addr : \A s \in written[a] : cells[a][s] = mem[a][s]
  /\ verdict = "running" => CompareValid(rdata_q, rdata, rdata_valid)

(* The bench neither fails a correct netlist nor misses the violation its  *)
(* case ends with.                                                         *)
NeverFails == verdict # "failed"
=============================================================================
