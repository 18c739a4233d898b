---------------------------- MODULE OrderMachine ----------------------------
(***************************************************************************)
(* One order under every sequence of lifecycle events, in any order and    *)
(* repeated any number of times: what transition() promises whoever calls  *)
(* it.  The order is the only state of the code.  gross, resolved and last *)
(* are history: the executions accepted so far, whether a reconciliation   *)
(* has replaced our belief, and the event delivered last.                  *)
(***************************************************************************)
EXTENDS OrderLifecycle

CONSTANTS Quantities,   \* the sizes an intent may authorise
          FillSizes,    \* the sizes an execution report may carry
          MaxGross      \* bound on gross, the cumulative executed quantity

ASSUME QuantitiesAssumption == Quantities \subseteq Nat \ {0}
ASSUME FillSizesAssumption  == FillSizes \subseteq Int
ASSUME MaxGrossAssumption   == MaxGross \in Nat

VARIABLES order, gross, resolved, last

vars == <<order, gross, resolved, last>>

TypeOK ==
  /\ order \in OrderCore(Quantities)
  /\ gross \in Nat
  /\ resolved \in BOOLEAN
  /\ last \in EventKinds \cup {"None"}

Init ==
  /\ \E q \in Quantities : order = CreatedCore(q)
  /\ gross = 0
  /\ resolved = FALSE
  /\ last = "None"

(* The caller keeps the order the transition returns, and the old one when  *)
(* it is refused.                                                           *)
Deliver(ev) ==
  /\ order' = Transition(order, ev).core
  /\ last' = ev.kind

Signal(kind) ==
  /\ Deliver([kind |-> kind])
  /\ UNCHANGED <<gross, resolved>>

SubmissionStarted  == Signal("SubmissionStarted")
VenueAcked         == Signal("VenueAcked")
VenueRejected      == Signal("VenueRejected")
SubmissionTimedOut == Signal("SubmissionTimedOut")
CancelRequested    == Signal("CancelRequested")
CancelConfirmed    == Signal("CancelConfirmed")
ReconcileStarted   == Signal("ReconcileStarted")

FillReceived(q) ==
  LET ev == [kind |-> "FillReceived", qty |-> q]
  IN  /\ gross + q <= MaxGross
      /\ Deliver(ev)
      /\ gross' = IF Transition(order, ev).tag = "ok" THEN gross + q ELSE gross
      /\ UNCHANGED resolved

ReconcileResolved(s, named, filled) ==
  LET ev == [kind |-> "ReconcileResolved", state |-> s, named |-> named,
             filled |-> filled]
  IN  /\ Deliver(ev)
      /\ resolved' = (resolved \/ Transition(order, ev).tag = "ok")
      /\ UNCHANGED gross

Next ==
  \/ SubmissionStarted
  \/ VenueAcked
  \/ VenueRejected
  \/ SubmissionTimedOut
  \/ \E q \in FillSizes : FillReceived(q)
  \/ CancelRequested
  \/ CancelConfirmed
  \/ ReconcileStarted
  \/ \E s \in OrderStates, named \in BOOLEAN, filled \in FillSizes :
       ReconcileResolved(s, named, filled)

Spec == Init /\ [][Next]_vars
-----------------------------------------------------------------------------
(* However executions arrive, the order records exactly what was executed,  *)
(* clamped to what was authorised: apply_fill neither loses nor repeats a   *)
(* quantity, and after a reconciliation the venue's figure is clamped too.  *)
RecordedIsClampedGross ==
  /\ order.filled <= order.qty
  /\ ~resolved => order.filled = MinQty(gross, order.qty)

(* An order that no reconciliation has touched is Filled exactly when its   *)
(* executions cover it, unless a reconciliation is still open: no completed *)
(* order is left live, none is closed as Filled early.                      *)
FilledMeansCovered ==
  ~resolved => /\ order.state = "Filled" => gross >= order.qty
               /\ gross >= order.qty => order.state \in {"Filled", "Reconciling"}

(* R1.3, R1.4, R1.7: what we believed finished, or cannot prove, is left    *)
(* only into reconciliation, and reconciliation is left only by an answer   *)
(* of the venue; no fill, acknowledgement or cancel concludes it.           *)
OnlyReconciliationRevises ==
  [][order'.state # order.state =>
       /\ IsTerminal(order.state) \/ order.state = "Unknown"
            => order'.state = "Reconciling"
       /\ order.state = "Reconciling" => last' = "ReconcileResolved"]_vars
=============================================================================
