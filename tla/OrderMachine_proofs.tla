------------------------ MODULE OrderMachine_proofs ------------------------
(***************************************************************************)
(* For every set of order sizes, every set of execution sizes and every    *)
(* bound: what OrderMachine's runs check on small ones.                    *)
(*                                                                         *)
(* The lemmas say what one application of transition() can do, case by     *)
(* case; the theorems combine them.  The inductive invariant is the type   *)
(* invariant with the two properties on executions: FilledMeansCovered is  *)
(* not inductive alone, since whether a fill completes an order is decided *)
(* on the recorded quantity, and RecordedIsClampedGross ties that to the   *)
(* executed one.                                                           *)
(***************************************************************************)
EXTENDS OrderMachine, TLAPS

Cores == OrderCore(Quantities)

(* The states an order may be in before the venue has said it is over, with *)
(* our belief about it intact.                                              *)
Believed == {"Created", "Submitting", "Working", "Partial", "CancelPending"}

(* guard() yields the proposed order, or refuses and keeps the old one.     *)
LEMMA MoveOutcome ==
  ASSUME NEW c, NEW moved
  PROVE  /\ Move(c, moved).core \in {c, moved}
         /\ Move(c, moved).tag = "ok" => Move(c, moved).core = moved
         /\ Move(c, moved).tag # "ok" => Move(c, moved).core = c
  BY DEF Move, Refuse

(* The same of an arm that pins its source state.                           *)
LEMMA FromOutcome ==
  ASSUME NEW c, NEW sources, NEW moved
  PROVE  \/ From(c, sources, moved).core = c
         \/ c.state \in sources /\ From(c, sources, moved).core = moved
  BY MoveOutcome DEF From, Refuse

(* Where an event without a payload may take an order: into reconciliation, *)
(* or out of a state we believe to one that is not Filled.                  *)
SignalMove(c, d) ==
  /\ d \in Cores
  /\ d.qty = c.qty
  /\ d.filled = c.filled
  /\ \/ d.state = c.state
     \/ c.state # "Reconciling" /\ d.state = "Reconciling"
     \/ c.state \in Believed /\ d.state # "Filled"

(* An arm out of a state we believe.                                        *)
LEMMA SignalFrom ==
  ASSUME NEW c \in Cores, NEW sources \in SUBSET Believed,
         NEW s \in OrderStates \ {"Filled"}
  PROVE  SignalMove(c, From(c, sources, [c EXCEPT !.state = s]).core)
  BY FromOutcome DEF SignalMove, Cores, OrderCore

(* transition() on each of the seven events without a payload.              *)
LEMMA SignalOutcome ==
  ASSUME NEW c \in Cores,
         NEW k \in EventKinds \ {"FillReceived", "ReconcileResolved"}
  PROVE  SignalMove(c, Transition(c, [kind |-> k]).core)
<1>1. CASE k = "SubmissionStarted"
  <2>1. Transition(c, [kind |-> k])
          = From(c, {"Created"}, [c EXCEPT !.state = "Submitting"])
    BY <1>1 DEF Transition
  <2>2. {"Created"} \in SUBSET Believed /\ "Submitting" \in OrderStates \ {"Filled"}
    BY DEF Believed, OrderStates
  <2> QED
    BY <2>1, <2>2, SignalFrom
<1>2. CASE k = "VenueAcked"
  <2> DEFINE moved == [c EXCEPT !.state = "Working", !.named = TRUE]
  <2>1. Transition(c, [kind |-> k]) = From(c, {"Submitting"}, moved)
    BY <1>2 DEF Transition
  <2>2. moved \in Cores /\ moved.qty = c.qty /\ moved.filled = c.filled
        /\ moved.state = "Working"
    BY DEF Cores, OrderCore, OrderStates
  <2> HIDE DEF moved
  <2> QED
    BY <2>1, <2>2, FromOutcome DEF SignalMove, Believed
<1>3. CASE k = "VenueRejected"
  <2>1. Transition(c, [kind |-> k])
          = From(c, {"Submitting"}, [c EXCEPT !.state = "Rejected"])
    BY <1>3 DEF Transition
  <2>2. {"Submitting"} \in SUBSET Believed /\ "Rejected" \in OrderStates \ {"Filled"}
    BY DEF Believed, OrderStates
  <2> QED
    BY <2>1, <2>2, SignalFrom
<1>4. CASE k = "SubmissionTimedOut"
  <2>1. Transition(c, [kind |-> k])
          = From(c, {"Submitting"}, [c EXCEPT !.state = "Unknown"])
    BY <1>4 DEF Transition
  <2>2. {"Submitting"} \in SUBSET Believed /\ "Unknown" \in OrderStates \ {"Filled"}
    BY DEF Believed, OrderStates
  <2> QED
    BY <2>1, <2>2, SignalFrom
<1>5. CASE k = "CancelRequested"
  <2>1. Transition(c, [kind |-> k])
          = From(c, {"Working", "Partial"}, [c EXCEPT !.state = "CancelPending"])
    BY <1>5 DEF Transition
  <2>2. {"Working", "Partial"} \in SUBSET Believed /\ "CancelPending" \in OrderStates \ {"Filled"}
    BY DEF Believed, OrderStates
  <2> QED
    BY <2>1, <2>2, SignalFrom
<1>6. CASE k = "CancelConfirmed"
  <2>1. Transition(c, [kind |-> k]) = ApplyCancelConfirmed(c)
    BY <1>6 DEF Transition
  <2>2. \/ ApplyCancelConfirmed(c).core = c
        \/ /\ c.state \in {"CancelPending", "Working", "Partial"}
           /\ ApplyCancelConfirmed(c).core = [c EXCEPT !.state = "Canceled"]
    BY MoveOutcome DEF ApplyCancelConfirmed, Refuse, Cores, OrderCore, OrderStates
  <2> QED
    BY <2>1, <2>2 DEF SignalMove, Believed, Cores, OrderCore, OrderStates
<1>7. CASE k = "ReconcileStarted"
  <2>1. Transition(c, [kind |-> k])
          = From(c, OrderStates \ {"Reconciling"}, [c EXCEPT !.state = "Reconciling"])
    BY <1>7 DEF Transition
  <2> QED
    BY <2>1, FromOutcome DEF SignalMove, Cores, OrderCore, OrderStates
<1> QED
  BY <1>1, <1>2, <1>3, <1>4, <1>5, <1>6, <1>7 DEF EventKinds

(* What accepting an execution does: the quantity is added and clamped, and *)
(* the new state is the one FillTarget names.  A refused one changes        *)
(* nothing.                                                                 *)
FillMove(c, q, r) ==
  \/ r.tag # "ok" /\ r.core = c
  \/ /\ r.tag = "ok"
     /\ q > 0
     /\ c.state \in (Believed \cup {"Reconciling"}) \ {"Created"}
     /\ LET recorded == MinQty(c.filled + q, c.qty)
        IN  r.core = [c EXCEPT !.state  = FillTarget(c.state, recorded, c.qty),
                               !.filled = recorded]

LEMMA FillOutcome ==
  ASSUME NEW c \in Cores, NEW q \in Int
  PROVE  FillMove(c, q, Transition(c, [kind |-> "FillReceived", qty |-> q]))
<1> DEFINE recorded == MinQty(c.filled + q, c.qty)
           moved == [c EXCEPT !.state  = FillTarget(c.state, recorded, c.qty),
                              !.filled = recorded]
<1>1. Transition(c, [kind |-> "FillReceived", qty |-> q]) = ApplyFill(c, q)
  BY DEF Transition
<1>2. CASE IsTerminal(c.state) \/ c.state \in {"Unknown", "Created"} \/ q <= 0
           \/ c.filled + q > GrossCeiling(c.qty)
  BY <1>1, <1>2 DEF ApplyFill, FillMove, Refuse
<1>3. CASE ~(IsTerminal(c.state) \/ c.state \in {"Unknown", "Created"} \/ q <= 0
             \/ c.filled + q > GrossCeiling(c.qty))
  <2>1. ApplyFill(c, q) = Move(c, moved)
    BY <1>3 DEF ApplyFill
  <2>2. c.state \in (Believed \cup {"Reconciling"}) \ {"Created"}
    BY <1>3 DEF Believed, IsTerminal, Cores, OrderCore, OrderStates
  <2>3. q > 0
    BY <1>3
  <2> HIDE DEF moved
  <2>4. \/ Move(c, moved).tag # "ok" /\ Move(c, moved).core = c
        \/ Move(c, moved).tag = "ok" /\ Move(c, moved).core = moved
    BY MoveOutcome
  <2> QED
    BY <1>1, <2>1, <2>2, <2>3, <2>4 DEF FillMove, moved
<1> QED
  BY <1>2, <1>3

(* The events a reconciliation may end with.                                *)
Resolutions ==
  [kind: {"ReconcileResolved"}, state: OrderStates, named: BOOLEAN, filled: Int]

(* An accepted answer replaces state and quantity of an order that is       *)
(* reconciling, the quantity clamped; a refused one changes nothing.        *)
ResolveMove(c, r) ==
  \/ r.tag # "ok" /\ r.core = c
  \/ /\ r.tag = "ok"
     /\ c.state = "Reconciling"
     /\ r.core \in Cores
     /\ r.core.qty = c.qty
     /\ r.core.filled <= c.qty

LEMMA ResolveOutcome ==
  ASSUME NEW c \in Cores, NEW ev \in Resolutions
  PROVE  ResolveMove(c, Transition(c, ev))
<1> DEFINE moved == [c EXCEPT !.state  = ev.state,
                              !.named  = ev.named \/ c.named,
                              !.filled = MinQty(ev.filled, c.qty)]
<1>1. Transition(c, ev) = Resolve(c, ev)
  BY DEF Transition, Resolutions
<1>2. CASE c.state # "Reconciling" \/ ev.state \notin Allowed["Reconciling"]
           \/ ev.filled < 0 \/ ev.filled > GrossCeiling(c.qty)
  BY <1>1, <1>2 DEF Resolve, ResolveMove, Refuse
<1>3. CASE ~(c.state # "Reconciling" \/ ev.state \notin Allowed["Reconciling"]
             \/ ev.filled < 0 \/ ev.filled > GrossCeiling(c.qty))
  <2>1. Resolve(c, ev) = Move(c, moved)
    BY <1>3 DEF Resolve
  <2>2. c.qty \in Nat /\ ev.filled \in Nat
    <3>1. c.qty \in Nat
      BY QuantitiesAssumption DEF Cores, OrderCore
    <3>2. ev.filled \in Int
      BY DEF Resolutions
    <3>3. ~(ev.filled < 0)
      BY <1>3
    <3> QED
      BY <3>1, <3>2, <3>3
  <2>3. MinQty(ev.filled, c.qty) \in Nat /\ MinQty(ev.filled, c.qty) <= c.qty
    BY <2>2 DEF MinQty
  <2>4. (ev.named \/ c.named) \in BOOLEAN
    BY DEF Cores, OrderCore, Resolutions
  <2>5. moved \in Cores /\ moved.qty = c.qty /\ moved.filled <= c.qty
    BY <2>3, <2>4 DEF Cores, OrderCore, Resolutions
  <2> HIDE DEF moved
  <2> QED
    BY <1>1, <1>3, <2>1, <2>5, MoveOutcome DEF ResolveMove
<1> QED
  BY <1>2, <1>3
-----------------------------------------------------------------------------
(* The inductive invariant.                                                 *)
Inv == TypeOK /\ RecordedIsClampedGross /\ FilledMeansCovered

SignalKinds == EventKinds \ {"FillReceived", "ReconcileResolved"}

LEMMA InitInv == Init => Inv
<1> SUFFICES ASSUME Init PROVE Inv
  OBVIOUS
<1>1. PICK q \in Quantities : order = CreatedCore(q)
  BY DEF Init
<1>2. q \in Nat \ {0}
  BY QuantitiesAssumption
<1>3. gross = 0 /\ resolved = FALSE /\ last = "None"
  BY DEF Init
<1>4. TypeOK
  BY <1>1, <1>2, <1>3 DEF TypeOK, CreatedCore, OrderCore, OrderStates
<1>5. RecordedIsClampedGross
  BY <1>1, <1>2, <1>3 DEF RecordedIsClampedGross, CreatedCore, MinQty
<1>6. FilledMeansCovered
  BY <1>1, <1>2, <1>3 DEF FilledMeansCovered, CreatedCore
<1> QED
  BY <1>4, <1>5, <1>6 DEF Inv

LEMMA SignalInv ==
  ASSUME Inv, NEW k \in SignalKinds, Signal(k)
  PROVE  Inv'
<1>1. SignalMove(order, order')
  BY SignalOutcome DEF Inv, TypeOK, Cores, Signal, Deliver, SignalKinds
<1>2. gross' = gross /\ resolved' = resolved /\ last' = k
  BY DEF Signal, Deliver
<1>3. TypeOK'
  BY <1>1, <1>2 DEF Inv, TypeOK, SignalMove, Cores, SignalKinds
<1>4. RecordedIsClampedGross'
  BY <1>1, <1>2 DEF Inv, RecordedIsClampedGross, SignalMove
<1>5. FilledMeansCovered'
  BY <1>1, <1>2 DEF Inv, FilledMeansCovered, SignalMove, Believed
<1> QED
  BY <1>3, <1>4, <1>5 DEF Inv

LEMMA FillInv ==
  ASSUME Inv, NEW q \in FillSizes, FillReceived(q)
  PROVE  Inv'
<1> DEFINE r == Transition(order, [kind |-> "FillReceived", qty |-> q])
           recorded == MinQty(order.filled + q, order.qty)
<1>1. q \in Int /\ order \in Cores /\ order.qty \in Nat \ {0} /\ order.filled \in Nat
      /\ gross \in Nat
  BY FillSizesAssumption, QuantitiesAssumption DEF Inv, TypeOK, Cores, OrderCore
<1>2. FillMove(order, q, r)
  BY <1>1, FillOutcome
<1>3. order' = r.core /\ gross' = (IF r.tag = "ok" THEN gross + q ELSE gross)
      /\ resolved' = resolved /\ last' = "FillReceived"
  BY DEF FillReceived, Deliver
<1> HIDE DEF r
<1>4. CASE r.tag # "ok"
  <2>1. order' = order /\ gross' = gross
    BY <1>2, <1>3, <1>4 DEF FillMove
  <2> QED
    BY <1>3, <2>1 DEF Inv, TypeOK, RecordedIsClampedGross, FilledMeansCovered, EventKinds
<1>5. CASE r.tag = "ok"
  <2>1. /\ q > 0
        /\ order.state \in (Believed \cup {"Reconciling"}) \ {"Created"}
        /\ order' = [order EXCEPT !.state  = FillTarget(order.state, recorded, order.qty),
                                  !.filled = recorded]
        /\ gross' = gross + q
    BY <1>2, <1>3, <1>5 DEF FillMove
  <2>2. recorded \in Nat /\ recorded <= order.qty
    BY <1>1, <2>1 DEF MinQty
  <2>3. FillTarget(order.state, recorded, order.qty) \in OrderStates
    BY <2>1 DEF FillTarget, OrderStates
  <2>4. order' \in Cores /\ order'.qty = order.qty /\ order'.filled = recorded
        /\ order'.state = FillTarget(order.state, recorded, order.qty)
    BY <1>1, <2>1, <2>2, <2>3 DEF Cores, OrderCore
  <2>5. ~resolved => recorded = MinQty(gross + q, order.qty)
    BY <1>1, <2>1 DEF Inv, RecordedIsClampedGross, MinQty
  <2>6. TypeOK'
    BY <1>1, <1>3, <2>1, <2>4 DEF Inv, TypeOK, Cores, EventKinds
  <2>7. RecordedIsClampedGross'
    BY <1>3, <2>1, <2>2, <2>4, <2>5 DEF RecordedIsClampedGross
  <2>8. ~resolved => (recorded >= order.qty <=> gross + q >= order.qty)
    BY <1>1, <2>1, <2>2, <2>5 DEF MinQty
  <2>9. FilledMeansCovered'
    BY <1>1, <1>3, <2>1, <2>2, <2>4, <2>8 DEF FilledMeansCovered, FillTarget, Believed
  <2> QED
    BY <2>6, <2>7, <2>9 DEF Inv
<1> QED
  BY <1>4, <1>5

LEMMA ResolveInv ==
  ASSUME Inv, NEW s \in OrderStates, NEW named \in BOOLEAN, NEW filled \in FillSizes,
         ReconcileResolved(s, named, filled)
  PROVE  Inv'
<1> DEFINE ev == [kind |-> "ReconcileResolved", state |-> s, named |-> named,
                  filled |-> filled]
           r == Transition(order, ev)
<1>1. order \in Cores /\ gross \in Nat /\ resolved \in BOOLEAN
  BY DEF Inv, TypeOK, Cores
<1>2. ev \in Resolutions
  BY FillSizesAssumption DEF Resolutions
<1>3. order' = r.core /\ gross' = gross /\ last' = "ReconcileResolved"
      /\ resolved' = (resolved \/ r.tag = "ok")
  BY DEF ReconcileResolved, Deliver
<1> HIDE DEF ev
<1>4. ResolveMove(order, r)
  BY <1>1, <1>2, ResolveOutcome
<1> HIDE DEF r
<1>5. CASE r.tag # "ok"
  <2>1. order' = order /\ resolved' = resolved
    BY <1>1, <1>3, <1>4, <1>5 DEF ResolveMove
  <2> QED
    BY <1>3, <2>1 DEF Inv, TypeOK, RecordedIsClampedGross, FilledMeansCovered, EventKinds
<1>6. CASE r.tag = "ok"
  <2>1. resolved' = TRUE /\ order' \in Cores /\ order'.filled <= order'.qty
    BY <1>3, <1>4, <1>6 DEF ResolveMove
  <2> QED
    BY <1>1, <1>3, <2>1
    DEF Inv, TypeOK, Cores, RecordedIsClampedGross, FilledMeansCovered, EventKinds
<1> QED
  BY <1>5, <1>6

(* Every step is a signal, an execution or an answer.                       *)
LEMMA NextCases ==
  ASSUME Next
  PROVE  \/ \E k \in SignalKinds : Signal(k)
         \/ \E q \in FillSizes : FillReceived(q)
         \/ \E s \in OrderStates, named \in BOOLEAN, filled \in FillSizes :
              ReconcileResolved(s, named, filled)
  BY DEF Next, SubmissionStarted, VenueAcked, VenueRejected, SubmissionTimedOut,
         CancelRequested, CancelConfirmed, ReconcileStarted, SignalKinds, EventKinds

LEMMA NextInv == Inv /\ [Next]_vars => Inv'
<1> SUFFICES ASSUME Inv, [Next]_vars PROVE Inv'
  OBVIOUS
<1>1. CASE UNCHANGED vars
  BY <1>1 DEF vars, Inv, TypeOK, RecordedIsClampedGross, FilledMeansCovered
<1>2. CASE Next
  BY <1>2, NextCases, SignalInv, FillInv, ResolveInv
<1> QED
  BY <1>1, <1>2
-----------------------------------------------------------------------------
(* Under every sequence of events the order stays an order: its quantity is *)
(* one that was authorised, what it records is a natural number, and        *)
(* transition() has an answer for each event.                               *)
THEOREM TypeCorrect == Spec => []TypeOK
<1>1. Spec => []Inv
  BY InitInv, NextInv, PTL DEF Spec
<1>2. Inv => TypeOK
  BY DEF Inv
<1> QED
  BY <1>1, <1>2, PTL

(* apply_fill neither loses nor repeats a quantity: the order records what  *)
(* was executed, clamped to what was authorised.                            *)
THEOREM ExecutionsAreRecorded == Spec => []RecordedIsClampedGross
<1>1. Spec => []Inv
  BY InitInv, NextInv, PTL DEF Spec
<1>2. Inv => RecordedIsClampedGross
  BY DEF Inv
<1> QED
  BY <1>1, <1>2, PTL

(* An order no reconciliation has touched is Filled exactly when its        *)
(* executions cover it, unless it is being reconciled.                      *)
THEOREM CoveredOrdersAreFilled == Spec => []FilledMeansCovered
<1>1. Spec => []Inv
  BY InitInv, NextInv, PTL DEF Spec
<1>2. Inv => FilledMeansCovered
  BY DEF Inv
<1> QED
  BY <1>1, <1>2, PTL

(* What one step may revise, in any state the invariant allows.             *)
Revises ==
  order'.state # order.state =>
    /\ IsTerminal(order.state) \/ order.state = "Unknown"
         => order'.state = "Reconciling"
    /\ order.state = "Reconciling" => last' = "ReconcileResolved"

LEMMA NextRevises == Inv /\ [Next]_vars => [Revises]_vars
<1> SUFFICES ASSUME Inv, Next PROVE Revises
  OBVIOUS
<1>1. order \in Cores
  BY DEF Inv, TypeOK, Cores
<1>2. CASE \E k \in SignalKinds : Signal(k)
  <2>1. SignalMove(order, order')
    BY <1>1, <1>2, SignalOutcome DEF Signal, Deliver, SignalKinds
  <2> QED
    BY <2>1 DEF SignalMove, Believed, Revises, IsTerminal
<1>3. CASE \E q \in FillSizes : FillReceived(q)
  <2>1. PICK q \in FillSizes : FillReceived(q)
    BY <1>3
  <2> DEFINE r == Transition(order, [kind |-> "FillReceived", qty |-> q])
  <2>2. FillMove(order, q, r)
    BY <1>1, FillOutcome, FillSizesAssumption
  <2>3. order' = r.core
    BY <2>1 DEF FillReceived, Deliver
  <2> HIDE DEF r
  <2>4. \/ order' = order
        \/ /\ order.state \in Believed \cup {"Reconciling"}
           /\ order.state = "Reconciling" => order'.state = "Reconciling"
    BY <1>1, <2>2, <2>3 DEF FillMove, FillTarget, Cores, OrderCore
  <2> QED
    BY <2>4 DEF Revises, Believed, IsTerminal
<1>4. CASE \E s \in OrderStates, named \in BOOLEAN, filled \in FillSizes :
             ReconcileResolved(s, named, filled)
  <2>1. PICK s \in OrderStates, named \in BOOLEAN, filled \in FillSizes :
          ReconcileResolved(s, named, filled)
    BY <1>4
  <2> DEFINE ev == [kind |-> "ReconcileResolved", state |-> s, named |-> named,
                    filled |-> filled]
  <2>2. order' = Transition(order, ev).core /\ last' = "ReconcileResolved"
    BY <2>1 DEF ReconcileResolved, Deliver
  <2>3. ev \in Resolutions
    BY FillSizesAssumption DEF Resolutions
  <2> HIDE DEF ev
  <2>4. order' = order \/ order.state = "Reconciling"
    BY <1>1, <2>2, <2>3, ResolveOutcome DEF ResolveMove
  <2> QED
    BY <2>2, <2>4 DEF Revises, IsTerminal
<1> QED
  BY <1>2, <1>3, <1>4, NextCases

(* R1.3, R1.4, R1.7: a finished or unprovable order is left only into       *)
(* reconciliation, and reconciliation is left only by the venue's answer.   *)
THEOREM ReconciliationRevises == Spec => OnlyReconciliationRevises
<1>1. Spec => []Inv
  BY InitInv, NextInv, PTL DEF Spec
<1> QED
  BY <1>1, NextRevises, PTL DEF Spec, OnlyReconciliationRevises, Revises
=============================================================================
