--------------------------- MODULE UbFlitChannel ---------------------------
(***************************************************************************)
(* What the network layers at the two ends of a link may expect of it:     *)
(* every flit handed over comes out once, in order, with its payload and   *)
(* its start-of-packet mark.  How long it takes is left open.              *)
(***************************************************************************)
EXTENDS Sequences

CONSTANTS
  Item,     \* flits as the network layer sees them
  NoItem

VARIABLES
  inp,      \* handed over in this cycle, or NoItem
  queue,    \* handed over and not yet put out
  out       \* put out in this cycle, or NoItem

vars == << inp, queue, out >>

Init == inp = NoItem /\ queue = << >> /\ out = NoItem

Entering == IF inp' = NoItem THEN << >> ELSE << inp' >>

Hold ==
  /\ inp' \in Item \cup {NoItem}
  /\ queue' = queue \o Entering
  /\ out' = NoItem

Deliver ==
  /\ queue # << >>
  /\ inp' \in Item \cup {NoItem}
  /\ queue' = Tail(queue) \o Entering
  /\ out' = Head(queue)

Reset == inp' = NoItem /\ queue' = << >> /\ out' = NoItem

Next == Hold \/ Deliver \/ Reset

Spec == Init /\ [][Next]_vars
=============================================================================
