--------------------------- MODULE OrderLifecycle ---------------------------
(***************************************************************************)
(* The pure order state machine of crate sentinel-domain: the lifecycle    *)
(* states, the allowed-transition map and transition(order, event).        *)
(*                                                                         *)
(* A transition yields a result record: [tag |-> "ok", core |-> order] or  *)
(* one of the four refusals of TransitionError with the order unchanged.   *)
(* Quantities are naturals in units of the venue's step; identifiers,      *)
(* prices and reject reasons are left out, since no rule reads them.       *)
(***************************************************************************)
EXTENDS Integers

OrderStates ==
  {"Created", "Submitting", "Working", "Partial", "CancelPending",
   "Unknown", "Reconciling", "Filled", "Canceled", "Rejected"}

IsTerminal(s) == s \in {"Filled", "Canceled", "Rejected"}

LocksInstrument(s) == s \in {"Unknown", "Reconciling"}

(* OrderState::allowed, the map every arm of transition is checked against. *)
Allowed ==
  [s \in OrderStates |->
     CASE s = "Created"       -> {"Submitting", "Reconciling"}
       [] s = "Submitting"    -> {"Working", "Partial", "Filled", "Rejected",
                                  "Unknown", "Reconciling"}
       [] s = "Working"       -> {"Partial", "Filled", "CancelPending",
                                  "Canceled", "Reconciling"}
       [] s = "Partial"       -> {"Partial", "Filled", "CancelPending",
                                  "Canceled", "Reconciling"}
       [] s = "CancelPending" -> {"CancelPending", "Canceled", "Filled",
                                  "Reconciling"}
       [] s = "Reconciling"   -> {"Reconciling", "Working", "Partial",
                                  "Filled", "Canceled", "Rejected"}
       [] OTHER               -> {"Reconciling"}]

(* An OrderCore: what was authorised, what has filled, where the order is   *)
(* and whether the venue's name for it is known.                            *)
OrderCore(Q) == [state: OrderStates, qty: Q, filled: Nat, named: BOOLEAN]

CreatedCore(q) == [state |-> "Created", qty |-> q, filled |-> 0, named |-> FALSE]

RemainingQty(c) == IF c.filled >= c.qty THEN 0 ELSE c.qty - c.filled

EventKinds ==
  {"SubmissionStarted", "VenueAcked", "VenueRejected", "SubmissionTimedOut",
   "FillReceived", "CancelRequested", "CancelConfirmed", "ReconcileStarted",
   "ReconcileResolved"}

IsVenueEvidence(k) ==
  k \in {"VenueAcked", "VenueRejected", "FillReceived", "CancelConfirmed",
         "ReconcileResolved"}

(* TransitionError, with the two questions the callers ask of one.          *)
Refusals == {"Illegal", "NeedsReconciliation", "Overfill", "NonPositiveFill"}

IsIntegrityViolation(tag) == tag = "Overfill"

Refuse(c, tag) == [tag |-> tag, core |-> c]

(* guard(): the map has the last word on every move.                        *)
Move(c, moved) ==
  IF moved.state \in Allowed[c.state]
    THEN [tag |-> "ok", core |-> moved]
    ELSE Refuse(c, "Illegal")

GrossMultiple == 2

GrossCeiling(q) == GrossMultiple * q

MinQty(a, b) == IF a <= b THEN a ELSE b

(* Mutant: an open cancel outranks a completing fill.                       *)
FillTargetCancelFirst(s, recorded, qty) ==
  IF s \in {"Reconciling", "CancelPending"} THEN s
  ELSE IF recorded >= qty THEN "Filled"
  ELSE "Partial"

(* Mutant: a completing fill concludes a reconciliation.                    *)
FillTargetConcluding(s, recorded, qty) ==
  IF recorded >= qty THEN "Filled"
  ELSE IF s \in {"Reconciling", "CancelPending"} THEN s
  ELSE "Partial"

FillTarget(s, recorded, qty) ==
  IF s = "Reconciling" THEN "Reconciling"
  ELSE IF recorded >= qty THEN "Filled"
  ELSE IF s = "CancelPending" THEN "CancelPending"
  ELSE "Partial"

(* Mutant: an execution of zero or less is not refused.                     *)
ApplyFillUnchecked(c, q) ==
  LET recorded == MinQty(c.filled + q, c.qty)
  IN  IF c.state \in {"Created", "Filled", "Canceled", "Rejected", "Unknown"}
        THEN Refuse(c, "NeedsReconciliation")
      ELSE Move(c, [c EXCEPT !.state  = FillTarget(c.state, recorded, c.qty),
                             !.filled = recorded])

(* Mutant: the order records the whole of an over-match.                    *)
ApplyFillUnclamped(c, q) ==
  IF c.state \in {"Created", "Filled", "Canceled", "Rejected", "Unknown"} \/ q <= 0
    THEN Refuse(c, "NeedsReconciliation")
  ELSE Move(c, [c EXCEPT !.state  = FillTarget(c.state, c.filled + q, c.qty),
                         !.filled = c.filled + q])

(* Mutant: a fill is not accepted while a cancel is in flight (R1.6).       *)
ApplyFillUnlessCanceling(c, q) ==
  LET recorded == MinQty(c.filled + q, c.qty)
  IN  IF IsTerminal(c.state) \/ c.state = "Unknown"
        THEN Refuse(c, "NeedsReconciliation")
      ELSE IF c.state \in {"Created", "CancelPending"} THEN Refuse(c, "Illegal")
      ELSE Move(c, [c EXCEPT !.state  = FillTarget(c.state, recorded, c.qty),
                             !.filled = recorded])

ApplyFill(c, q) ==
  LET total    == c.filled + q
      recorded == MinQty(total, c.qty)
  IN  IF IsTerminal(c.state) \/ c.state = "Unknown"
        THEN Refuse(c, "NeedsReconciliation")
      ELSE IF c.state = "Created"           THEN Refuse(c, "Illegal")
      ELSE IF q <= 0                        THEN Refuse(c, "NonPositiveFill")
      ELSE IF total > GrossCeiling(c.qty)   THEN Refuse(c, "Overfill")
      ELSE Move(c, [c EXCEPT !.state  = FillTarget(c.state, recorded, c.qty),
                             !.filled = recorded])

ApplyCancelConfirmed(c) ==
  CASE c.state \in {"Reconciling", "Canceled"} -> [tag |-> "ok", core |-> c]
    [] c.state \in {"Filled", "Rejected", "Unknown"} ->
         Refuse(c, "NeedsReconciliation")
    [] c.state \in {"CancelPending", "Working", "Partial"} ->
         Move(c, [c EXCEPT !.state = "Canceled"])
    [] OTHER -> Refuse(c, "Illegal")

(* An arm that pins its source state before moving.                         *)
From(c, sources, moved) ==
  IF c.state \in sources THEN Move(c, moved) ELSE Refuse(c, "Illegal")

Resolve(c, ev) ==
  IF c.state # "Reconciling" \/ ev.state \notin Allowed["Reconciling"]
    THEN Refuse(c, "Illegal")
  ELSE IF ev.filled < 0 \/ ev.filled > GrossCeiling(c.qty)
    THEN Refuse(c, "Overfill")
  ELSE Move(c, [c EXCEPT !.state  = ev.state,
                         !.named  = ev.named \/ c.named,
                         !.filled = MinQty(ev.filled, c.qty)])

Transition(c, ev) ==
  CASE ev.kind = "SubmissionStarted"  ->
         From(c, {"Created"}, [c EXCEPT !.state = "Submitting"])
    [] ev.kind = "VenueAcked"         ->
         From(c, {"Submitting"}, [c EXCEPT !.state = "Working", !.named = TRUE])
    [] ev.kind = "VenueRejected"      ->
         From(c, {"Submitting"}, [c EXCEPT !.state = "Rejected"])
    [] ev.kind = "SubmissionTimedOut" ->
         From(c, {"Submitting"}, [c EXCEPT !.state = "Unknown"])
    [] ev.kind = "FillReceived"       -> ApplyFill(c, ev.qty)
    [] ev.kind = "CancelRequested"    ->
         From(c, {"Working", "Partial"}, [c EXCEPT !.state = "CancelPending"])
    [] ev.kind = "CancelConfirmed"    -> ApplyCancelConfirmed(c)
    [] ev.kind = "ReconcileStarted"   ->
         From(c, OrderStates \ {"Reconciling"}, [c EXCEPT !.state = "Reconciling"])
    [] ev.kind = "ReconcileResolved"  -> Resolve(c, ev)
=============================================================================
