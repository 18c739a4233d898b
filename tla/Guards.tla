------------------------------- MODULE Guards -------------------------------
(***************************************************************************)
(* The pre-trade guards of crate sentinel-engine: whether an intent may    *)
(* become an order, and for how much.                                      *)
(***************************************************************************)
EXTENDS Ledger

CONSTANT MaxPosition    \* limits.max_position, the fat-finger cap

ASSUME MaxPositionAssumption == MaxPosition \in Nat

Allow(i)  == [verdict |-> "Allow", qty |-> i.qty]
Clamp(to) == [verdict |-> "Clamp", qty |-> to]
Refused   == [verdict |-> "Refuse", qty |-> 0]

(* Mutant: a live entry does not keep another one out.                      *)
EvaluateEntryAnyway(b, i, confirmed, halted) ==
  IF \/ halted
     \/ ~confirmed
     \/ InstrumentLocked(b)
     \/ AbsQty(b.pos + i.side * i.qty) > MaxPosition
    THEN Refused
    ELSE Allow(i)

EvaluateEntry(b, i, confirmed, halted) ==
  IF \/ halted
     \/ ~confirmed
     \/ InstrumentLocked(b)
     \/ \E o \in LiveOrders(b) : ~b.orders[o].exit
     \/ AbsQty(b.pos + i.side * i.qty) > MaxPosition
    THEN Refused
    ELSE Allow(i)

(* Mutant: live exits are not counted against the position.                 *)
EvaluateExitUncommitted(b, i) ==
  LET held   == AbsQty(b.pos)
      closes == (b.pos > 0) = (i.side = -1)
  IN  IF held = 0 \/ ~closes THEN Refused
      ELSE IF i.qty > held THEN Clamp(held)
      ELSE Allow(i)

(* Mutant: an exit with nothing left to close is reduced to nothing.        *)
EvaluateExitToZero(b, i) ==
  LET held      == AbsQty(b.pos)
      available == IF held > CommittedToExits(b)
                     THEN held - CommittedToExits(b) ELSE 0
      closes    == (b.pos > 0) = (i.side = -1)
  IN  IF held = 0 \/ ~closes THEN Refused
      ELSE IF i.qty > available THEN Clamp(available)
      ELSE Allow(i)

(* Bounded by what the book holds less what live exits already cover; an    *)
(* exit that is too large is reduced, one that would not close is refused.  *)
EvaluateExit(b, i) ==
  LET held      == AbsQty(b.pos)
      available == IF held > CommittedToExits(b)
                     THEN held - CommittedToExits(b) ELSE 0
      closes    == (b.pos > 0) = (i.side = -1)
  IN  IF held = 0 \/ ~closes \/ available = 0 THEN Refused
      ELSE IF i.qty > available THEN Clamp(available)
      ELSE Allow(i)

Evaluate(b, i, confirmed, halted) ==
  IF ~i.exit THEN EvaluateEntry(b, i, confirmed, halted)
  ELSE EvaluateExit(b, i)
=============================================================================
