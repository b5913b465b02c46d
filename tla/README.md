# Formal models of Vibe-UB

TLA+ models, TLC runs and TLAPS proofs for the UB link controller of this
repository, its golden models, its benches, and the gate that decides what may
be merged: its jobs, its equivalence check and the files of private leaves.
Definitions keep the names of the source; `PROJECT.json` maps each one to the
lines it stands for.

## 1. The system

| part | state | operations | talks to | hard about it |
| --- | --- | --- | --- | --- |
| `rtl/ub_controller_tx.v` with `dll/ub_dll_segmenter.v`, `pcs/ub_pcs_scrambler.v`, `pcs/ub_pcs_fec_enc.v` | one register stage per block, a 6-flit accumulator, an 8-cycle lane serialiser | one clock edge; reset | network layer (valid, `net_ready` tied to 1), four lanes | no back pressure anywhere, so stages meet only by timing |
| `rtl/ub_controller_rx.v` with `pcs/ub_pcs_fec_dec.v`, `pcs/ub_pcs_descrambler.v`, `dll/ub_dll_reassembler.v` | codeword accumulator, decoder, 6-flit de-accumulator, LFSR, output register | one clock edge; reset | lanes (`lane_valid`, no framing), network layer (`net_ready` unread) | decoder latency depends on the data; three buffers overwrite silently |
| `pcs/ub_pcs_fec_dec.v` with `_syndrome`, `_ibm`, `_chien_forney` | state, codeword register, start and done pulses, solver and search registers | accept, solve, search, deliver | its input port, which it reads again one cycle after accepting a word | hand-shakes by one-cycle pulses |
| `pcs/ub_pcs_lane_dist.v`, `_lane_dedist`, `_gray_coder`, `_gray_decoder` | none | wires | the controllers | two orders that must undo each other |
| `model/tp/ub_tp_bypass.py` | pending transactions, `flush`, `nw_link_up` | submit, receive, complete, drop, flush, link down, end of flush, reset | transaction layer above, network layer below | order of calls; refused calls that have already changed state |
| `model/ub_cmn_mem_1r1w.py` | words, written mask, output, flags | tick, reset_written | scoreboard | read and write on one edge, masks, undefined segments |
| `pycircuit/cmn/ub_cmn_mem_1r1w.py`, emitted to `rtl/cmn/` | 2^AW cells, output register | one clock edge | bench | no reset, no range check |
| `tb/cmn/` | scoreboard counters, the cycle loop | predict, compare, judge the last cycle | golden and netlist in lockstep | a violation must be seen on its cycle, and never compared |
| `tb/models/` with `formal/dll/ref`, `formal/pcs/ref` | block CRC (streaming), RS code, lane distribution, scrambler; the netlists product leaves are compared with | start, eat, encode, decode, distribute, recover; one clock edge | leaf benches, the equivalence check | blocks cut short, begun twice or without start; more errors than can be corrected; an order that is wrong both ways |
| `tb/vibe_uvm/`, `tb/harness/` | what each coroutine waits for; the registers of the pass-through netlists, with and without test hooks | drive, sample, read, write, reset; one clock edge | simulator | every coroutine wakes at the same edge; a monitor that is deaf for an edge |
| `rtl/pcs/ub_pcs_lmsm.v`, `rtl/dll/ub_dll_crc32.v`, `ub_dll_crc_check.v` | a 3-state machine; running CRCs | one clock edge | connected to nothing, or to a status bit only | – |
| `scripts/gate/equiv_ref.sh` with `equiv_regpair.py`, `affine_prove.py`, `seq_bmc.py`, `deadreg.py` | which method is next, the register pairing, exit statuses | run a method, pair, cut, compare, judge | Yosys and ABC, which may give up | many verdicts that are neither pass nor fail; only a proof may pass |
| `scripts/gate/run_all.sh` and the twelve jobs, `gatelib.py` | exit statuses, `scripts/gate/out` | start a run, run a job, be killed, report | the tree, its lists and waivers, tools that may be missing | lists that excuse; rules that only report; skips; files of an earlier run |
| private leaves: `gen_private_stub.py`, `private_leaves.py`, `contract_hash.py`, `impl/priv_leaf.py`, `quick_synth.py --attest` | contract, stub, cut, attest, each with a digest | generate, edit, attest, check | pycc, yosys, sta, which may fail | each file is compared with the contract alone, at another time |
| the rest of `scripts/impl/` | netlists, timing reports | synthesis, fan-out buffering | yosys, OpenSTA | – |

What makes each modelled part correct: the transmitter never loads a codeword
over unsent slices; the decoder delivers the right message or does not claim
to and never hangs; the receiver never drops, confuses or overwrites a word;
end to end the link is a FIFO; the bypass answers each transaction once; the
memory is read-old with undefined unwritten segments; a bench passes a right
netlist and misses no violation; agents lose, double and reorder nothing and
their monitors see what their drivers did; a block CRC is over its block and
nothing else; the golden decoder finds the one codeword within its distance or
says that there is none; the equivalence check passes only a netlist that is
equivalent, and what one method refuses no later one passes; the gate passes
only what every job passes, and a list excuses only what it is for; what a
private leaf shows in lint, in formal and in the reports is of one contract.

## 2. Modules

| module | models | notes |
| --- | --- | --- |
| `UbPcsCodeword` | data: flits, messages, codewords, slices, the LFSR | operators only |
| `UbControllerTx` | transmitter and its source | `Clk` is a conjunction of one operator per always block |
| `UbPcsFecDec` | decoder, solver, search | one action per branch of each always block |
| `UbControllerRx` | receiver, with `UbPcsFecDec` as an instance | no specification of its own |
| `UbRxLanes` | receiver fed by lanes with gaps and byte errors | environment explicit |
| `UbFlitChannel` | abstract: a lossless FIFO | of flits, and of stream beats |
| `UbLink` | both controllers in loopback, as `tb/ub_controller_rx_tb.v` wires them | refines `UbFlitChannel` |
| `UbTpContract` | abstract: one answer per accepted transaction | |
| `UbTpBypass` | `class UbTpBypass`, one action per method and per refusal | refines `UbTpContract` |
| `UbReadOldMemory` | abstract: read-old memory of segments | |
| `UbCmnMem1r1w` | `class UbCmnMem1r1w` | refines `UbReadOldMemory` |
| `UbCmnMemBench` | netlist, scoreboard and cycle loop around the golden | extends `UbCmnMem1r1w` |
| `UbVibeUvm` | drivers, monitors, reset, and both netlists of the pass-through harness | each stream refines `UbFlitChannel` |
| `UbDllBcrc` | the block CRC three times: streamed model, model on a block, reference netlist and its checker | one action per edge, calls of the model beside it |
| `UbPcsFec` | golden Reed-Solomon encoder and decoder, with their field arithmetic | operators and one action |
| `UbPcsLanes` | golden lane distribution, its reference netlists, the lanes and Gray coding of `rtl/` | operators; the state is a configuration |
| `UbEquivNetlist` | what is compared: two netlists, the registers alive in them, their pairing, cut and affine comparison | operators only |
| `UbEquivRef` | `equiv_ref.sh` and the scripts it runs, one action per method or per stage of `equiv_regpair.py` | extends `UbEquivNetlist` |
| `UbGateTree` | one leaf in the eyes of the gate: its traits, the lists, waivers and the bucket of a finding | operators only |
| `UbGateChecks` | `FindingsOf<Job>`: what each job reports of a tree on a machine | operators only |
| `UbGateRun` | a run, local or in CI: the jobs, their exit statuses, what outlives the run | extends `UbGateChecks` |
| `UbPrivateLeaf` | contracts, stubs, cuts, attests, what writes them and what checks them | one action per command |
| `MC*` | the instances TLC checks | |
| `*Proofs` | theorems and proofs | |

Operators whose comment starts with "fault" are plausible bugs.  Nothing uses
them; each has been put in place of the definition after it to confirm that
the property named for it in `PROJECT.json` notices.

### Abstractions

*Clocked code.*  All non-blocking assignments of one edge read the values
before it, so an edge is one action.  Asynchronous reset is an action that may
come between any two edges; the network or lane side starts over with it.

*Data.*  A flit is the value of its top 32 bits (the segmenter writes them, the
reassembler looks at them), a payload tag, and whether all its bits are
inverted: each block XORs the whole flit with one bit of the LFSR, because the
160 assignments of the loop all read the same register.  A codeword is the
message it encodes; a received word is eight slices, each with the codeword it
came from, its index and its byte errors.  It is a codeword if its slices
belong together and are in place, it is correctable if it also has at most T
errors, and anything else decodes to junk.  Which word a syndrome, a locator or
an error pattern was computed from is carried along, so an error pattern
applied to another word is junk too.  The LFSR has two bits in the runs and any
length in the modules.

*Golden FEC.*  Here the arithmetic is the model: `UbPcsFec` computes in GF(2^m)
for any code, and the run has a code of 6 symbols over GF(8).

*Block CRC.*  Remainders are computed bit by bit for a polynomial of any length;
a flit is its data bits and the word in its last bytes.

*Lanes.*  Every symbol of a codeword is a value of its own, so a symbol in a
wrong place shows whatever the data.

*Bypass.*  Flits and sidebands are copied by calls and kept by none: a payload
is well framed or not, a number fits its field or does not.

*Memory.*  A word is a function of its segments.  A Python `None` word is one
without written segments.

*Agents.*  All coroutines wake at a rising edge, read the pins as they were
before it and write what is there at the next: one action is one edge of all of
them and of both netlists.  The address `STATUS` stands for every register that
is mapped and reads 0.  The streams and the CSR port share no register of the
harness and are run separately.  The code's own sink always holds ready at 1;
the sink of the model stalls as it likes.  Reset comes when the drivers are
idle, as in `env.py`.  `HookAgent` sees the observers of the edge before.

*Equivalence check.*  A netlist is its flip-flops and outputs, and the logic
between them a polynomial over GF(2), so two functions are equal exactly when
the polynomials are.  Whether a register is wider than four bits, how it is
reset and whether its D is a `$mux` whose arms differ by a constant are marks
on the flip-flop, as the code asks nothing else about them.  The reset input is
not a variable: a flip-flop has a value it takes in reset and a D for
every other cycle, and where reset is part of D both belong to `rp_d_*`.
Yosys and ABC are external.  Each call either answers what is true of what it
was given or gives up, at any time; `&cec` may also answer NOT EQ of equal
circuits, for which `equiv_regpair.py` is prepared.  Reading, flattening and
writing netlists is left out, but not that it may fail.

*Gate.*  A tree is the set of traits by which a leaf differs from a clean one:
facts (how it is named, listed, kept) and marks (a defect of one netlist or of
the source).  What a job's parsers and tools would find in the text is the
trait; which files a job visits, which it skips, which rules only report, which
bucket a finding falls into and what a missing tool does is the code.  A waiver
is an entry with its approver and its status.  A job may be killed.  In CI each
job has a fresh checkout, and only `equiv_status.json` is handed on; locally
`scripts/gate/out` outlives the run.

*Private leaves.*  A contract is its YAML (a leaf, the width of a port, a period,
its assertions) and its prose.  A digest is the YAML itself: two contracts
have the same digest only if they are the same.  A drawing is a header and a
body.  A run of the generator may be killed between pycc and the clean-up; a
pycc that fails changes nothing.  Which rules have landed on `origin/main` is
fixed in a behaviour.  The `.py` stub is left out: nothing compares it.

## 3. Runs

Parts that share no state are checked in one run: a behaviour is one of one
part, and the others stay as they are.

| run | instance | question and answer |
| --- | --- | --- |
| `pcs` | transmitter: 6 flits, 8 slices, a codeword every 8 cycles at most. Decoder: 2 messages, words with 0, T and T + 1 errors and a misaligned one, any port activity. Block CRC: 2-bit remainder, 4 flits, blocks of up to 3, start, valid, last and reset at will. FEC: RS(6,2) over GF(8), all patterns of up to 3 errors of 3 magnitudes, T = 2, T = 1 and bypass. Lanes: 1, 2, 4, 8 lanes, one and two codewords of 32 symbols, 4 symbols to a word; 64 pairs of bits on the lanes of `rtl/` | `NoOverrun`; `Faithful`, `BecomesIdle`; `RefIsModel`, `WordIsOfItsBlock`, `VerdictIsOfItsBlock`; `DecodesWithinDistance`; `LanesCarryAll` hold |
| `rx_lanes` | codewords 15 cycles apart, a gap of one cycle, one error each | `NoWordDropped`, `SolverSeesWord`, `NoMessageOverwritten` hold |
| `rx_line_rate` | codewords back to back, one error | `NoWordDropped` fails: finding 1 |
| `link_errors` | 6 flits, 8 slices, a codeword every 15 cycles, one error each, 3 payloads | `ImplementsChannel`, `LfsrsInStep`, `CodewordsComeOut` hold |
| `link_data` | 2 flits, 5 slices, a codeword every 5 cycles, no errors, both SOP values and a top word that scrambles into a header | `ImplementsChannel` holds |
| `goldens` | bypass: 3 transactions, 2 message numbers, arguments that fit. Memory bench: 2 words, 1 address beyond them, 2 segments of 1 bit, any power-up, assertion on and off. Agents: 2 payloads, every kind of address, a sink that stalls at will, test mode and injection at will | `FlushDrained`, `ImplementsContract`; `ImplementsMemory`, `CellsAgree`, `NeverFails`; `MonitorsAgree`, `AccessesAnswered`, `QuietIsProduct`, `StreamsImplementChannel` hold |
| `tp_complete` | the bypass, and a message number that is too wide | `ImplementsContract` fails: finding 2 |
| `equiv_ref` | 3 references, 18 netlists, all 31 choices of methods, all 3 stages of ABC | `PassMeansEqual`, `IndependentFailsStand`, `InconclusiveIsReal`, `SeqDecides` hold |
| `equiv_outputs` | register pairing alone; output logic that is not a register | `PassMeansEqual` fails: finding 3 |
| `equiv_affine` | register pairing alone; a reference with a `$mux`, a netlist without | `PassMeansEqual` fails: finding 4 |
| `gate` | trees with up to two defects, or a defect with up to two facts or list entries; one thing away; a few trees in two runs with a change between; local and CI; any job killed. Private leaves: 2 leaves, 5 contract files, 4 steps | `AllJobsPassed`, `LeaksAreNotListed`, `PassMeansClean`, `ListsExcuseOnlyTheirs`, `DefectsDoNotMask`, `NoPretending`, `InheritedInCi`; `StubsAreCurrent`, `CutShowsStub`, `FiguresAreMeasured`, `PassIsMeasured` hold |
| `private_width` | the files of private leaves, 5 steps | `StubShowsBlackbox` fails: finding 5 |

Deadlock is checked except where the model stops of itself: the memory bench of
`goldens` ends when its case is over, and behaviours of `gate` and
`private_width` end after `MaxRuns` runs or `MaxSteps` steps.

*Bounds.*  The runs about timing use the source's own 6 flits and 8 slices, as
the answers depend on them.  With errors the receiver is lossless exactly when
codewords are at least 9 + 6 = 15 cycles apart and followed by an idle cycle:
at 14, a corrected message is overwritten by the clean one behind it; below 11
a word is dropped; with no gap the solver reads a shifted word.  `link_data`
shrinks the geometry to 2 and 5 so that the flits may differ; with a codeword
every 4 cycles TLC finds flits lost.  Payload tags count modulo 3, enough to see a loss, a repetition or a swap.  T = 1 and at most
one error per codeword: the decoder asks only whether there is one and whether
it is correctable.  Three transactions let one be answered while others wait.
Two words let a write and a read differ in address; one address stands for all
beyond `DEPTH`.

Blocks of up to three flits have a first, a middle and a last one, and a block
that breaks off after one or two.  Four flits tell data from the word, and a
word that fits from one that does not.  RS(6,2) has the shape of the source's
code, parity of 2T symbols of which T = T/2 uses half; three errors are one more
than can be corrected, and with them words near another codeword, near none,
and words that only the residual syndromes give away.  32 symbols are the least
that fill a word on each of 8 lanes.

The references of `equiv_ref` have one input bit and up to two registers, one
wide and one narrow, which is what the comparison treats differently; two
registers that are always equal, to tell equal next states from equal outputs;
or none.  The netlists are right under other names or in another encoding, or
wrong in one way: a reset value, a reset kind, a next state of either width, a
width, an ambiguous name, a register too many that is dead or alive, a next
state that is not affine.  Every live register has an architectural name, no D
is a `$mux`, outputs are registers (or a re-encoding that D or reset shows),
and a reference without registers meets its own netlist and ones with
registers.  Outside these `PassMeansEqual` is false: `equiv_outputs` and
`equiv_affine` show two ways, the hazards at `equiv_regpair.py:277` and `:1320`
name two more, and theorem `PassIsProof` shows that in the model there are no others.

The trees of `gate` carry two traits besides what makes them well formed: a
defect with what might excuse it, or with what might hide it.  A machine lacks
at most one thing.  Two runs are enough for what one leaves to the next.  Four
steps on private leaves generate a stub and a cut, attest, and edit between any
two of them; two leaves let a file of one be taken for the other's.

*Fairness.*  Only `BecomesIdle` and `CodewordsComeOut` are liveness, under weak
fairness of the clock edge (`Clk`, `AnyClk`): the clock runs for ever.  Nothing is
assumed of the source, the lanes or reset.  `CodewordsComeOut` speaks of six
flits or more because the transmitter never flushes an incomplete codeword.

## 4. Findings

1. The receiver cannot keep up with the transmitter once a codeword needs
   correction (`rtl/pcs/ub_pcs_fec_dec.v:74`): the codeword behind it is lost,
   six flits go missing, and the descrambler is out of step from then on.
2. `complete()` forgets the transaction before it refuses its message number
   (`model/tp/ub_tp_bypass.py:349`).
3. Register pairing compares next states only
   (`scripts/gate/equiv_regpair.py:1291`).  The outputs of the leaf are assumed
   to be registers, which `crc_ok` of `ub_dll_bcrc_check` is not, so
   `EQUIV_METHODS=regpair` passes a netlist with wrong output logic.
4. The affine comparison reads `$mux` with its arms exchanged
   (`scripts/gate/affine_prove.py:216`).  Where one side is a mux and the
   other is not, it agrees on a netlist that computes the complement, and what
   it agrees on is not replayed.
5. The generator of stubs draws a width that is a parameter as one bit
   (`scripts/gate/gen_private_stub.py:39`), while quick synthesis gives the
   black box of the same leaf the default of the parameter.

Limits of the code that the models show and no run is named for:

* `net_ready` is constant, so only a source that paces itself is safe; `fec_fail`
  is never raised; a payload byte 0x80 is taken for a packet start.
* The gate's table of units is keyed by module name (`gatelib.py:1318`).  Of a
  leaf whose HOOKS file declares the name of the PRODUCT, lint, CDC and
  synth-check see the HOOKS file only: theorem `GateShadowedProduct`.
  `PassMeansClean` asks about the files that were found.
* synth-check has a fall-back for an exit status of yosys that no message
  explains (`synth_check.py:244`), which needs that nothing else was found; the
  depth of logic is always reported, so it is never taken.
* A local run believes the `equiv_status.json` of an earlier one when its own
  emit and equiv wrote none.  `InheritedInCi` is about CI.
* A bounded proof of a formal harness counts as a pass and is only reported as
  shallow.  The list of `.sby` files comes through a process substitution
  (`formal.sh:12`): a lister that dies leaves an empty list, which passes.  What
  makes it die also fails other jobs, which is why `PassMeansClean` holds.
* emit runs on HEAD and is compared with the working tree, so a source that is
  edited and not committed passes with netlists that were not renewed.
* A killed generator leaves a file that a later run takes for the stub of another
  leaf, under a right digest: `StubsAreCurrent` and `CutShowsStub` say "unless
  killed".
* With a scratch directory that is kept, an attest may be made of the timing
  report of an earlier netlist: `PassIsMeasured` fails for
  `MayKeep = {FALSE, TRUE}`.

## 5. Proofs

For every value of the constants that meets the named assumptions:

* `UbFoldProofs`, lemmas.  The library's induction theorems take an operator as
  a parameter, so nothing is instantiated from them; instead a counterexample
  has a least one (`LeastOf`), from `NatLessThanWellFounded` and `WFMin`, and the
  step is shown of that one (`InductUpTo`).  `FoldExists` and `StepsExist` show that
  the functions which the folds of the community modules choose are there and
  obey their recursion; the proofs about folds below rest on these two.
* `UbControllerTxProofs`: types; `PacedSourceNeverOverruns`, for any size of
  codeword and `Spacing >= BeatsPerCw`, `Spacing >= 5`.  `NoOverrun` relates the
  serialiser to a register five stages from the source.  The inductive
  `PacedInv` says where the last completed codeword can be as a function of
  `src_hold`, and that `tx_flit_cnt` is the source's count less the flits still in
  the stages between.
* `UbLinkProofs`, the receiver fed by lanes and the loopback, for any geometry,
  number of codewords and errors, and LFSRs of any length and tap.
  - Receiver: `SpacedWordsAreAccepted` when `CwSpacing >= 11`; `GapLetsSolverSee`
    when `LaneGap >= 1`; `SpacedMessagesAreEmitted` when `CwSpacing >= 11` and
    `CwSpacing >= FlitsPerCw + 9`.  `InStep` ties the lane side's count of slices
    to the receiver's and the decoder to its hand-shakes.  `DecodedInTime` bounds,
    for each state of the decoder and its blocks, how many cycles can have passed
    since the word was accepted, and `EmittedInTime` goes on with the same clock
    to the last flit.  The three bounds are tight: with one cycle less TLC finds
    a counterexample in the instance of `rx_lanes`.
  - Loopback: `LoopbackIsLossless`, that it implements `UbFlitChannel`, and
    `LfsrsStayInStep`, when `Spacing` is at least 11, `FlitsPerCw + 9` and
    `BeatsPerCw + 1` (`Paced`), at most T byte errors are put on a codeword and, for the
    first, no top word of the source is the header.  With `FlitsPerCw = 6` and
    `BeatsPerCw = 8` that is the 15 cycles of `link_errors`.  The clock of the
    receiver's invariants is now `Ahead`, the cycles until the serialiser's next
    last slice at the earliest, which `PacedInv` of the transmitter bounds from
    what the source may do.  `LinkInv` adds what the data are: the slices in the
    accumulator are those the serialiser has sent (`SlicesReceived`), and each
    word in the decoder is a codeword with few enough errors, so what is solved
    and corrected is the message that was sent (`Carried`).  Then the registers
    between scrambler and descrambler are nine stages, and one edge takes flits
    from the front of each and puts them at the back of the next (`Moves`), so
    the nine together are a queue (`ScrambledMoves`).  `ScramInv` is about keys: the
    receiver's LFSR, shifted once for each flit in that queue, is the
    transmitter's, and each flit carries the key of its turn (`Keyed`).  As both
    ends of the queue strip what the keys do, the flits in flight as the network
    sees them are the queue of the channel (`QueueMoves`, `ChannelEdge`).
  - The same at the full rate: `LoopbackAtLineRate`, that on a line without errors
    the pacing of `PacedSourceNeverOverruns` is all the loopback needs.  Slices of
    one codeword then follow those of the other without a gap, so the port of
    the decoder moves while it works (`FreeInTime`, `KeptOrClean`); as `Carried`
    says that its words have no more than `MaxErrs` errors, they are clean, take
    the decoder one cycle (`CleanWord`) and never meet the solver.  `Slowest` is
    the decoder's share in both bounds of `Paced`.  This is the case of
    `link_data`.
  - Latency: `CodewordsComeNearer`, that a codeword's worth of flits in the pipeline
    has one due at the network side in at most `BeatsPerCw + 18` edges
    (`FullIsDue`), each of which puts a flit out or brings what is due closer
    (`DueEdge`).  TLC finds states of `link_errors` where nothing is due sooner.
    `CodewordsComeOut` follows when the clock keeps running; that last step
    needs ENABLED and stays with TLC.
* `UbPcsProofs`, the golden and the netlist side of PCS and DLL.
  - Decoder: types; `DecoderFaithful`, for any code and any words.  `DecInv`
    adds that exactly one of a block's start, active and done flags is up while
    the state machine waits for it and none otherwise (`Handshakes`), that the
    word solved is handed from block to block (`Carried`), and that the clean flag
    still belongs to the accepted word (`Remembered`).
    `DecoderDrains`: with those flags and the solver's counter the decoder is a
    countdown of at most ten edges to idle (`Left`), whatever stands on its port;
    with a clock that keeps running that is `BecomesIdle`.
  - Block CRC, for any polynomial, flits and length of blocks:
    `NetlistIsStreamedModel` from `LockStep`, that the netlist has what the
    model has, or all ones where the model has ended its block and will start
    over; `VerdictStaysWithItsBlock` from `VerdictInv`, that in the cycle a word
    comes the checker has the word received with it, and after that the
    verdict.  Neither needs to know what a remainder is: both sides fold the
    same bits.  `WordOfItsBlock` does: the streamed remainder is that of the
    concatenated flits, by induction over the block, as a remainder of s \o t
    is the remainder of t begun at that of s.
  - Lanes: `LanesCarry`, for any number of symbols that fills the words of each
    number of lanes, and any multiple of four pairs of bits on the lanes of
    `rtl/`: each of the seven claims of `LanesCarryAll` is an equality of
    places, of quotients and remainders of one index, and Gray coding is undone
    pair by pair.
* `UbGoldensProofs`.  Bypass: types; `FlushIsDrained`; `BypassImplementsContract`
  when message numbers given to `complete()` fit, the assumption that separates
  `goldens` from `tp_complete`.  Every call maps to one step of the contract or
  a stutter; the invariant needed is `FlushDrained`.  Memory: types; the golden
  refines the read-old memory, alone and in the bench; `NetlistAgrees` and
  `BenchNeverFails` from `BenchInv`, which adds that no flag has been raised while
  a case is running.  Agents, for any payloads, addresses and any sink:
  `UvmMonitorsAgree`, `UvmAccessesAnswered`, `UvmQuietIsProduct`, and
  `UvmStreamsImplementChannel`, that each stream is a lossless FIFO.
* `UbEquivRefProofs`, for any netlists, methods and stage: types;
  `IndependentFailsAreFinal`, `InconclusiveOnlyIfDifferent` and
  `SequentialProofDecides`.  The inductive `Inv` adds that once `equiv_regpair.py` has
  ended only the judgement and the uncut proof are left (`AfterRegpair`), what
  each exit status says of sets and resets (`StatusSound`), and that whatever
  gets past the judgement has no dead register (`Judged`).  The lemma
  `AffineDiffers` carries the affine comparison: a difference it reports is
  one, whatever it misreads.
  - `PassIsProof` says what a pass is worth: equality in every cycle after
    reset, where a pass that register pairing gave (`prc = 0`) needs
    `TakenForGranted`, the three things `equiv_regpair.py` does not check: nothing
    named reads a register without a name (`ReadsNamed`, hazard at
    `equiv_regpair.py:277`), a `$mux` read complemented is on both sides
    (`MuxAgrees`, finding 4), and the outputs are the same logic (`SameOutputs`,
    finding 3 and the hazard at `:1320`).  `OtherMethodsProve`: a pass of any
    other method, the sequential proof after it included, needs nothing.
  - The invariant `Compared` follows what has been established: sets and ports
    match while regpair runs, no pair that differs is missing from the list the
    affine comparison is asked for, and status 0 leaves no pair that differs.
    `AffineAgrees`: functions of degree one that agree at zero and at each unit
    point are the same, if both are read alike.
  - From there on it is about netlists.  Matching sets make the pairs a
    bijection (`OnePairEach`), so the cut renames signals without merging any,
    and a cut function has the gate's value in states where paired registers
    hold the same (`CutValue`: the monomials that are 1 correspond one to one).
    Such states follow reset and each other (`MirroredOn`).
  - `Reached` is a bounded iteration.  `ReachedWithin` is induction over it,
    `ReachedClosed` that the bound is enough: as long as a set of pairs grows it
    has a member more each cycle.  So `SameInEveryCycle`: what the model calls
    equal after reset shows the same outputs in every cycle of every run.
* `UbGateProofs`, for any well-formed trees, lists and number of runs: types;
  `GatePassIsAllJobs` and, from it, `GateLeaksAreNotListed`; the inductive
  `VerdictInv` says that as long as no job has failed, every job before `pc`
  passes this tree.  `GateInheritedInCi` from `StatusOfThisRun`: in CI the status
  that formal reads was written in this run.  `GateShadowedProduct` is about the
  operators alone.
  - `GateNoPretending`: a job that says PASS on a machine that lacks something
    says PASS on a complete one.  Job by job, each finding on the complete
    machine is one on the poorer machine too, or the poorer machine stops.
  - `GatePassMeansClean`: one lemma per rule of each job shows that a fact or
    mark which is gated leaves a finding that blocks.
  - `GateListsExcuseOnlyTheirs`: a finding that comes up when a tree leaves a
    list is one that the list may excuse (`MayExcuse`), for each list and job.
  - `GateDefectsDoNotMask`: a repaired tree is `Better`, a fact or mark less with
    the same files in the same lists, or `Grown`, a missing netlist that is there
    again with nothing marked on it.  Each finding of it is one of the tree that
    passed, or the tree has another finding on the same file that no waiver lets
    through (`Covers`): a source that does not parse hides its other rules, and
    fails by itself.  A passing tree without its product is a placeholder, one
    without its hooks was not looked at for them (`GrownPassed`).  The lemmas
    `Milder...` go through the jobs, `FollowsPasses` puts them together.
  - `GatePassMeansClean` and `GateDefectsDoNotMask` need `WellFormed`, that a
    tree's parts agree (a missing file has no marks, a list of proofs that is not
    there no proof that fails), and `WaiversAssumption`: an approved waiver is of
    lint, synth-check or CDC and one of their rules, which is what
    `waivers/README.md` lets be waived and the owners' approval stands for.
    Proving these theorems showed what the instance of `gate` is too small to
    meet: a leaf that is both legacy and large, whose port findings both lists
    touch; a missing netlist of a leaf that no source emits, and a missing
    product of one that is private or large, which are not defects the gate
    could see.  The properties now say so.
* `UbPrivateLeafProofs`, for any leaves, contracts and number of steps:
  `StubsAreCurrentAlways` and `CutShowsStubAlways` from `DrawnInv`: unless a run
  was killed, the generator's directory is empty between runs, and a digest is
  over the contract that its body was drawn from.  `PassIsMeasuredAlways` and
  `FiguresAreMeasuredAlways` when no scratch directory is kept.

The type invariants of the transmitter, the decoder, the bypass, the memory
bench and the equivalence check are proved and are no longer part of a run.

Model-checked only: `DecodesWithinDistance`, whose field arithmetic is bitwise, out
of the provers' reach; liveness (`BecomesIdle`, `CodewordsComeOut`), of which the
part that is about steps is proved, see above.

## 6. Not modelled

* The CRC generator and checker and the link state machine of `rtl/`: they steer
  nothing, and what could be said of them repeats an assignment.
* A lane that loses or repeats a beat: nothing frames a codeword, so every later
  word is misaligned.  No property could survive it; see the hazards.
* Of the golden models, the scrambler: its parameters are still open (SPEC 13).
* Of the equivalence check: argument parsing, polarity and parameter overrides,
  the self-test switches `--omit-po` and `--affine-only`, counterexample files,
  and the splitting of an affine comparison by control inputs.  A flip-flop
  that reset does not reach has no place in the model.  `equiv_seq_basis.py`,
  which the cascade does not call.
* Of the gate: the scanning of Verilog, Markdown and logs (a trait stands for
  what is found), its self-tests, and the rules on who may change what
  (`check_role_dirs`, `check_owned_paths`, `check_waiver_approvals`), which read a
  pull request and keep no state; of these only the findings are there.
* Of quick synthesis: everything but attests and private rows.  It calls yosys
  and sta once for each leaf and formats what they print; no state is kept
  from one leaf to the next.
* Discovery of leaves and simulator start-up of `tb/cmn`, the memory harness of
  `formal/cmn`, which restates what `UbCmnMemBench` checks.
* Simulator, synthesis tools, file formats, reports, wording of errors.

## 7. What could come next

1. Netlists for `UbEquivRef` that its instances leave out: a live register
   without a name, a leaf without registers that is wrong, a flip-flop that
   reset does not reach.
2. Fan-out buffering of `scripts/impl/buffer_fanout.py`: terminates, keeps every
   load connected to its driver, respects the limit.
