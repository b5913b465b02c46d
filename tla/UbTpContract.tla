---------------------------- MODULE UbTpContract ----------------------------
(***************************************************************************)
(* What the transaction layer may rely on, whatever sits below it: each    *)
(* operation it gets accepted is owed exactly one answer, done or fail,    *)
(* with the message number bound to it.  While the port refuses (flush)    *)
(* nothing is accepted, and it refuses from the moment everything owed was *)
(* failed.  A link that went down stays down until the entity is reset.    *)
(***************************************************************************)
CONSTANTS
  Tassn,   \* transaction numbers
  Tpmsn    \* message numbers, the absent one included

VARIABLES
  owed,       \* accepted and unanswered: set of << tassn, tpmsn >>
  answers,    \* what the last call answered: set of << tassn, tpmsn, done >>
  refusing, link

vars == << owed, answers, refusing, link >>

Numbers(S) == {x[1] : x \in S}

Init == owed = {} /\ answers = {} /\ refusing = FALSE /\ link = TRUE

Accept(t, m) ==
  /\ link /\ ~refusing
  /\ t \notin Numbers(owed)
  /\ owed' = owed \cup {<< t, m >>}
  /\ answers' = {}
  /\ UNCHANGED << refusing, link >>

\* The caller that reports the completion may override the message number.
Answer(t, m, d) ==
  /\ t \in Numbers(owed)
  /\ owed' = {x \in owed : x[1] # t}
  /\ answers' = {<< t, m, d >>}
  /\ UNCHANGED << refusing, link >>

\* All that is owed fails, each with the message number bound to it.
FailAll ==
  /\ answers' = {<< x[1], x[2], FALSE >> : x \in owed}
  /\ owed' = {}
  /\ refusing' = TRUE
  /\ link' \in {link, FALSE}

Release ==
  /\ owed = {} /\ link
  /\ refusing' = FALSE
  /\ answers' = {}
  /\ UNCHANGED << owed, link >>

Silent == answers' = {} /\ UNCHANGED << owed, refusing, link >>

EntityReset == owed' = {} /\ answers' = {} /\ refusing' = FALSE /\ link' = TRUE

Next ==
  \/ \E t \in Tassn, m \in Tpmsn : Accept(t, m)
  \/ \E t \in Tassn, m \in Tpmsn, d \in BOOLEAN : Answer(t, m, d)
  \/ FailAll
  \/ Release
  \/ Silent
  \/ EntityReset

Spec == Init /\ [][Next]_vars
=============================================================================
