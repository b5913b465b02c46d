----------------------------- MODULE UbTpBypass -----------------------------
(***************************************************************************)
(* model/tp/ub_tp_bypass.py, class UbTpBypass: the transaction-level       *)
(* golden of the TA-to-NW bypass.  A call is one action; a call that       *)
(* raises is one too, and changes what the code changed before raising.    *)
(*                                                                         *)
(* Payload flits and sidebands are copied by the calls and kept by none:   *)
(* of a payload the model has whether check_payload accepts it, of a       *)
(* number whether it fits its field (Wide does not).                       *)
(***************************************************************************)
EXTENDS Integers

CONSTANTS
  Tassn,           \* transaction numbers that fit 16 bits
  Tpmsn,           \* message numbers that fit 24 bits
  Wide,            \* a number that fits no field
  None,            \* the keyword argument tpmsn left out
  Free,            \* not pending
  CompleteTpmsn    \* what callers pass to complete() as tpmsn

ASSUME BypassAssumption ==
  /\ Wide \notin Tassn \cup Tpmsn
  /\ None \notin Tpmsn \cup {Wide}
  /\ Free \notin Tpmsn \cup {None}
  /\ CompleteTpmsn \subseteq Tpmsn \cup {Wide, None}

VARIABLES
  nw_link_up, flush,
  pending,    \* _pending: the tpmsn submit bound to each number, or Free
  raised,     \* the last call raised
  reported,   \* the TaCompletes the last call returned
  delivered   \* the last call returned a TaDelivery

tpVars == << nw_link_up, flush, pending, raised, reported, delivered >>

Bound == Tpmsn \cup {None}
TaComplete == [tassn : Tassn, done : BOOLEAN, tpmsn : Bound]

pending_tassn == {t \in Tassn : pending[t] # Free}

-----------------------------------------------------------------------------
Returns(S) == raised' = FALSE /\ reported' = S /\ delivered' = FALSE
Raises == raised' = TRUE /\ reported' = {} /\ delivered' = FALSE

TpInit ==
  /\ nw_link_up = TRUE /\ flush = FALSE
  /\ pending = [t \in Tassn |-> Free]
  /\ raised = FALSE /\ reported = {} /\ delivered = FALSE

Reset ==
  /\ nw_link_up' = TRUE /\ flush' = FALSE
  /\ pending' = [t \in Tassn |-> Free]
  /\ Returns({})

\* TaOp's constructor has already refused a tassn that does not fit.
Acceptable(t, bypass, framed, msn) ==
  /\ nw_link_up /\ ~flush /\ bypass
  /\ t \notin pending_tassn
  /\ framed /\ msn # Wide

SubmitAccepted(t, bypass, framed, msn) ==
  /\ Acceptable(t, bypass, framed, msn)
  /\ pending' = [pending EXCEPT ![t] = msn]
  /\ Returns({})
  /\ UNCHANGED << nw_link_up, flush >>

SubmitRefused(t, bypass, framed, msn) ==
  /\ ~Acceptable(t, bypass, framed, msn)
  /\ Raises
  /\ UNCHANGED << nw_link_up, flush, pending >>

\* The receive side looks at neither the link nor flush nor pending.
Receive(framed, drop, tag, msn) ==
  /\ raised' = (~framed \/ (~drop /\ Wide \in {tag, msn}))
  /\ delivered' = (~raised' /\ ~drop)
  /\ reported' = {}
  /\ UNCHANGED << nw_link_up, flush, pending >>

\* The number leaves the pending set before tpmsn is looked at.
Reported(t, fail, msn) ==
  [tassn |-> t, done |-> ~fail,
   tpmsn |-> IF msn = None THEN pending[t] ELSE msn]

Complete(t, fail, msn) ==
  /\ t \in pending_tassn
  /\ pending' = [pending EXCEPT ![t] = Free]
  /\ IF msn = Wide THEN Raises ELSE Returns({Reported(t, fail, msn)})
  /\ UNCHANGED << nw_link_up, flush >>

CompleteUnknown(t) ==
  /\ t \notin pending_tassn
  /\ Raises
  /\ UNCHANGED << nw_link_up, flush, pending >>

\* apply_drop is complete(tassn, fail=True).
ApplyDrop(t) == Complete(t, TRUE, None)

FailAllPending ==
  /\ Returns({Reported(t, TRUE, None) : t \in pending_tassn})
  /\ pending' = [t \in Tassn |-> Free]

ApplyFlush ==
  /\ flush' = TRUE
  /\ FailAllPending
  /\ UNCHANGED nw_link_up

\* Fault: link down fails what is pending and goes on accepting.
ApplyLinkDownUnheld ==
  /\ nw_link_up' = FALSE
  /\ FailAllPending
  /\ UNCHANGED flush

ApplyLinkDown ==
  /\ nw_link_up' = FALSE
  /\ flush' = TRUE
  /\ FailAllPending

\* Fault: flush is released although the link is down.
EndFlushAnyLink ==
  /\ pending_tassn = {}
  /\ flush' = FALSE
  /\ Returns({})
  /\ UNCHANGED << nw_link_up, pending >>

\* Returns silently, with flush still held, when the link is down.
EndFlush ==
  /\ pending_tassn = {}
  /\ flush' = IF nw_link_up THEN FALSE ELSE flush
  /\ Returns({})
  /\ UNCHANGED << nw_link_up, pending >>

EndFlushRefused ==
  /\ pending_tassn # {}
  /\ Raises
  /\ UNCHANGED << nw_link_up, flush, pending >>

Submit ==
  \E t \in Tassn, bypass, framed \in BOOLEAN, msn \in Tpmsn \cup {None, Wide} :
    \/ SubmitAccepted(t, bypass, framed, msn)
    \/ SubmitRefused(t, bypass, framed, msn)

ReceiveAny ==
  \E framed, drop \in BOOLEAN, tag \in Tassn \cup {None, Wide},
     msn \in Tpmsn \cup {None, Wide} : Receive(framed, drop, tag, msn)

CompleteAny ==
  \E t \in Tassn, fail \in BOOLEAN, msn \in CompleteTpmsn : Complete(t, fail, msn)

TpNext ==
  \/ Reset
  \/ Submit
  \/ ReceiveAny
  \/ CompleteAny
  \/ \E t \in Tassn \cup {Wide} : CompleteUnknown(t)
  \/ \E t \in Tassn : ApplyDrop(t)
  \/ ApplyFlush
  \/ ApplyLinkDown
  \/ EndFlush
  \/ EndFlushRefused

TpSpec == TpInit /\ [][TpNext]_tpVars

-----------------------------------------------------------------------------
(* Every attribute and every completion has its type.                      *)
TpTypeOK ==
  /\ nw_link_up \in BOOLEAN /\ flush \in BOOLEAN
  /\ pending \in [Tassn -> Bound \cup {Free}]
  /\ raised \in BOOLEAN /\ delivered \in BOOLEAN
  /\ reported \subseteq TaComplete

(* While flush is held nothing is pending, and it is held as long as the   *)
(* link is down: end_flush may release it only with both cleared.          *)
FlushDrained ==
  /\ flush => pending_tassn = {}
  /\ ~nw_link_up => flush

(* Each accepted submit is answered exactly once, done or fail, by         *)
(* complete, drop, flush or link down, with the tpmsn bound at submit when *)
(* the network side decides; nothing is accepted while flush is held, and  *)
(* a link that went down is only brought back by reset.                    *)
Contract == INSTANCE UbTpContract WITH
  Tpmsn <- Bound,
  owed <- {<< t, pending[t] >> : t \in pending_tassn},
  answers <- {<< r.tassn, r.tpmsn, r.done >> : r \in reported},
  refusing <- flush,
  link <- nw_link_up

ImplementsContract == Contract!Spec
=============================================================================
