--------------------------- MODULE UbPcsCodeword ---------------------------
(***************************************************************************)
(* The data that moves through the PCS/DLL pipeline of rtl/: flits,        *)
(* messages (FlitsPerCw flits), RS codewords, the 128-bit slices of a      *)
(* codeword that the lanes carry in one cycle, and the LFSR of scrambler   *)
(* and descrambler.                                                        *)
(*                                                                         *)
(* A flit is what the pipeline can tell apart: the value of its top 32     *)
(* bits (the segmenter writes them, the reassembler looks at them), the    *)
(* payload it carries, and whether all its bits are inverted: the          *)
(* scrambler XORs the whole flit with one bit of its LFSR.  A codeword is  *)
(* identified with the message it encodes; a slice is the index-th part of *)
(* it with a number of byte errors put on it by the channel.               *)
(***************************************************************************)
EXTENDS Integers, Sequences, Functions

CONSTANTS
  Body,        \* the payloads of net_data[127:0]
  Blank,       \* the all-zero payload, also every register's reset value
  Junk,        \* the payload of a flit that was decoded wrongly
  FlitsPerCw,  \* flits per RS(128,120) message: 6 in the source
  BeatsPerCw,  \* lane cycles per codeword: 8 in the source
  T,           \* byte errors per codeword the code corrects: 4 in the source
  LfsrLen, LfsrTap   \* 58 and 38 in the source

ASSUME CodewordAssumption ==
  /\ FlitsPerCw \in Nat \ {0}
  /\ BeatsPerCw \in Nat \ {0}
  /\ FlitsPerCw < BeatsPerCw
  /\ T \in Nat
  /\ LfsrLen \in Nat \ {0}
  /\ LfsrTap \in 0 .. LfsrLen - 1

(***************************************************************************)
(* Values of the top word of a flit, closed under inversion.  "80000000"   *)
(* is the link packet header (CRD=1, VL=0).                                *)
(***************************************************************************)
TopWord == {"00000000", "FFFFFFFF", "80000000", "7FFFFFFF"}

Inverted == [t \in TopWord |->
               CASE t = "00000000" -> "FFFFFFFF"
                 [] t = "FFFFFFFF" -> "00000000"
                 [] t = "80000000" -> "7FFFFFFF"
                 [] t = "7FFFFFFF" -> "80000000"]

Lph == "80000000"

Flit == [top : TopWord, body : Body \cup {Blank, Junk}, inv : BOOLEAN]

ZeroFlit == [top |-> "00000000", body |-> Blank, inv |-> FALSE]
JunkFlit == [top |-> "00000000", body |-> Junk, inv |-> FALSE]

\* data ^ {160{key}}
XorKey(f, key) ==
  IF key THEN [top |-> Inverted[f.top], body |-> f.body, inv |-> ~f.inv]
         ELSE f

Message == [1 .. FlitsPerCw -> Flit]
ZeroMessage == [i \in 1 .. FlitsPerCw |-> ZeroFlit]
JunkMessage == [i \in 1 .. FlitsPerCw |-> JunkFlit]

SliceIndex == 0 .. BeatsPerCw - 1

Slice == [msg : Message, idx : SliceIndex, err : Nat]

\* What BeatsPerCw lane cycles leave in the receiver's 1024-bit register.
Word == [SliceIndex -> Slice]
ZeroWord == [i \in SliceIndex |-> [msg |-> ZeroMessage, idx |-> i, err |-> 0]]

\* All slices of one codeword, each at its place: the only way a register
\* filled from the lanes is a codeword plus the channel's errors.
Aligned(w) ==
  \A i \in SliceIndex : w[i].idx = i /\ w[i].msg = w[0].msg

ByteErrors(w) ==
  FoldFunction(LAMBDA s, n : s.err + n, 0, w)

MsgOf(w) == w[0].msg

\* The eight syndromes of w are zero.
SyndromesZero(w) == Aligned(w) /\ ByteErrors(w) = 0

\* The first 120 bytes of w as they are: a message only if no byte is wrong.
MsgBytes(w) == IF SyndromesZero(w) THEN MsgOf(w) ELSE JunkMessage

\* At most T byte errors: the error pattern has a unique solution.
Correctable(w) == Aligned(w) /\ ByteErrors(w) <= T

\* The message got by XORing w with the error pattern solved from the
\* syndromes of s, parity stripped.  It is the right one when the pattern
\* belongs to w itself and is within the capability of the code.
Corrected(w, s) ==
  IF s = w /\ Correctable(w) THEN MsgOf(w) ELSE JunkMessage

-----------------------------------------------------------------------------
Lfsr == [0 .. LfsrLen - 1 -> BOOLEAN]

\* Its state after reset.
OnesLfsr == [i \in 0 .. LfsrLen - 1 |-> TRUE]

\* {lfsr[56:0], lfsr[57] ^ lfsr[38]}, once per flit: the 160 nonblocking
\* assignments of the loop all read the same lfsr.
NextLfsr(l) ==
  [i \in 0 .. LfsrLen - 1 |->
     IF i = 0 THEN l[LfsrLen - 1] # l[LfsrTap] ELSE l[i - 1]]

=============================================================================
