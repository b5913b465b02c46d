--------------------------- MODULE UbReadOldMemory ---------------------------
(***************************************************************************)
(* What a user of ub_cmn_mem_1r1w may rely on: a memory of segments, with  *)
(* one write and one read port on one clock.  A read returns what the word *)
(* held before the same edge's write, segment by segment, Undef for the    *)
(* segments never written; the output holds while nothing is read.         *)
(***************************************************************************)
CONSTANTS Address, Segment, Value, Undef

VARIABLES content, q

vars == << content, q >>

Nothing == [s \in Segment |-> Undef]
Init == content = [a \in Address |-> Nothing] /\ q = Nothing

Write(a, d, m) ==
  content' = [content EXCEPT ![a] = [s \in Segment |-> IF s \in m THEN d[s] ELSE @[s]]]

WriteOrNot ==
  \/ UNCHANGED content
  \/ \E a \in Address, d \in [Segment -> Value], m \in SUBSET Segment : Write(a, d, m)

ReadOrNot ==
  \/ UNCHANGED q
  \/ \E a \in Address : q' = content[a]

Edge == WriteOrNot /\ ReadOrNot

Forget == content' = [a \in Address |-> Nothing] /\ UNCHANGED q

Next == Edge \/ Forget

Spec == Init /\ [][Next]_vars
=============================================================================
