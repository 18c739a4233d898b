------------------------------- MODULE Ledger -------------------------------
(***************************************************************************)
(* The book of crate sentinel-ledger: orders, executions and the position, *)
(* folded record by record from the journal, and the questions the engine  *)
(* asks of it.                                                             *)
(*                                                                         *)
(* One instrument: every rule of the engine compares an order only with    *)
(* the orders, the fills and the position of its own instrument.  Prices,  *)
(* marks, balances and cost basis are left out, so the check that a flat   *)
(* position holds no basis is too.                                         *)
(***************************************************************************)
EXTENDS OrderLifecycle, FiniteSetsExt

CONSTANTS Orders,       \* the client order ids callers may use
          Intent,       \* what each of them asks for
          Adopted       \* the id of the order a position is inherited under

Sides == {1, -1}

(* An EconomicOrderIntent: validated to a positive quantity when it is made. *)
Intents == [side: Sides, qty: Nat \ {0}, exit: BOOLEAN, traced: BOOLEAN]

ASSUME OrdersAssumption ==
  /\ IsFiniteSet(Orders)
  /\ Intent \in [Orders -> Intents]
  /\ Adopted \notin Orders

OrderIds == Orders \cup {Adopted}

(* A journalled order: the core of the lifecycle, the intent behind it and  *)
(* when the venue last said anything about it.                              *)
OrderRecord ==
  [state: OrderStates, qty: Nat \ {0}, filled: Nat, named: BOOLEAN,
   side: Sides, exit: BOOLEAN, traced: BOOLEAN, evidence: Nat]

NoOrder == [state |-> "None"]

(* Executions are keyed by an execution id: the venue's own, one derived    *)
(* from an order and the quantity the venue reports, or the adoption's.     *)
VenueExec(o, n) == <<"V", o, n>>
ReconciliationExecId(o, n) == <<"RCN", o, n>>
AdoptionExecId == <<"ADOPT", Adopted, 0>>

ExecIds == {"V", "RCN", "ADOPT"} \X OrderIds \X Nat

FillRecord == [exec: ExecIds, order: OrderIds, qty: Nat \ {0}, side: Sides]

Books ==
  [orders: [OrderIds -> OrderRecord \cup {NoOrder}],
   fills: SUBSET FillRecord, pos: Int, now: Nat, halted: BOOLEAN]

NewBook ==
  [orders |-> [o \in OrderIds |-> NoOrder], fills |-> {}, pos |-> 0, now |-> 0,
   halted |-> FALSE]

Known(b, o) == b.orders[o].state # "None"

KnownOrders(b) == {o \in OrderIds : Known(b, o)}

HasExec(b, exec) == \E f \in b.fills : f.exec = exec
-----------------------------------------------------------------------------
(* Book::apply, one operator per kind of record that changes the book.      *)

PersistIntent(b, o, i) ==
  IF Known(b, o) THEN b
  ELSE [b EXCEPT !.orders[o] =
          [state |-> "Created", qty |-> i.qty, filled |-> 0, named |-> FALSE,
           side |-> i.side, exit |-> i.exit, traced |-> i.traced,
           evidence |-> b.now]]

Advance(b, now) == [b EXCEPT !.now = IF now > @ THEN now ELSE @]

SetHalted(b, halted) == [b EXCEPT !.halted = halted]

(* Mutant: the position moves by what the order could still take.           *)
BookFillClamped(b, o, ev) ==
  [b EXCEPT !.fills = @ \cup {[exec |-> ev.exec, order |-> o, qty |-> ev.qty,
                               side |-> b.orders[o].side]},
            !.pos = @ + b.orders[o].side
                          * MinQty(ev.qty, RemainingQty(b.orders[o]))]

BookFill(b, o, ev) ==
  [b EXCEPT !.fills = @ \cup {[exec |-> ev.exec, order |-> o, qty |-> ev.qty,
                               side |-> b.orders[o].side]},
            !.pos = @ + b.orders[o].side * ev.qty]

(* What applying an order event did: the book after it, and whether it      *)
(* changed, was a duplicate, needs reconciliation, or was refused.  A       *)
(* refusal is fatal when it shows that the book itself is wrong.  The       *)
(* from/to states a record carries were computed by the same transition     *)
(* against the same book, so they always agree with it.                     *)
ApplyOrderEvent(b, o, ev) ==
  IF ~Known(b, o) THEN [tag |-> "fatal", book |-> b]
  ELSE IF ev.kind = "FillReceived" /\ HasExec(b, ev.exec)
         THEN [tag |-> "duplicate", book |-> b]
  ELSE LET r     == Transition(b.orders[o], ev)
           moved == IF ev.kind = "FillReceived" THEN BookFill(b, o, ev) ELSE b
           seen  == IF IsVenueEvidence(ev.kind) THEN b.now
                    ELSE b.orders[o].evidence
       IN  IF r.tag = "ok"
             THEN [tag  |-> "changed",
                   book |-> [moved EXCEPT !.orders[o] =
                               [r.core EXCEPT !.evidence = seen]]]
           ELSE IF r.tag = "NeedsReconciliation"
             THEN [tag |-> "needs", book |-> b]
           ELSE IF IsIntegrityViolation(r.tag)
             THEN [tag |-> "fatal", book |-> b]
           ELSE [tag |-> "refused", book |-> b]
-----------------------------------------------------------------------------
(* What the engine reads from the book.                                     *)

LiveOrders(b) == {o \in KnownOrders(b) : ~IsTerminal(b.orders[o].state)}

InstrumentLocked(b) ==
  \E o \in LiveOrders(b) : LocksInstrument(b.orders[o].state)

LiveExits(b) == {o \in LiveOrders(b) : b.orders[o].exit}

CommittedToExits(b) ==
  MapThenSumSet(LAMBDA o : RemainingQty(b.orders[o]), LiveExits(b))

FillsFor(b, o) == {f \in b.fills : f.order = o}

BookedQty(b, o) == MapThenSumSet(LAMBDA f : f.qty, FillsFor(b, o))

AbsQty(n) == IF n < 0 THEN -n ELSE n

(* An order already reconciling is being dealt with and is not stale.       *)
StaleOrders(b, maxAge) ==
  {o \in LiveOrders(b) : /\ b.orders[o].state # "Reconciling"
                         /\ b.now - b.orders[o].evidence > maxAge}
-----------------------------------------------------------------------------
(* The invariants the ledger states about itself, check(): sentineld runs   *)
(* it on the rebuilt book and does not start when one of them fails.        *)

PositionsEqualFills(b) ==
  b.pos = MapThenSumSet(LAMBDA f : f.side * f.qty, b.fills)

NoOverfill(b) == \A o \in KnownOrders(b) : b.orders[o].filled <= b.orders[o].qty

ExitsBounded(b) ==
  LiveExits(b) # {} => CommittedToExits(b) <= AbsQty(b.pos)

OrdersTraced(b) == \A o \in KnownOrders(b) : b.orders[o].traced

Sound(b) ==
  PositionsEqualFills(b) /\ NoOverfill(b) /\ ExitsBounded(b) /\ OrdersTraced(b)
=============================================================================
