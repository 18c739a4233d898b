------------------------------ MODULE Position ------------------------------
(* What is held in one instrument and what it cost: position.rs, folded by  *)
(* the book from the fills of the log, and its twin in book.go, folded by   *)
(* the projector from the same fills.  A fill the arithmetic refuses is an  *)
(* integrity violation and stops the writer, so nothing is applied after    *)
(* it and it is never durable.                                              *)
EXTENDS FixedPoint

CONSTANTS
  Qtys, Prices,   \* what one fill may report, in units
  MaxFills        \* bound: fills folded

VARIABLES
  pos,      \* the book's position
  proj,     \* the projector's position
  stopped,  \* a fill was refused and the writer has stopped
  past      \* history: what the folded fills add up to

posVars == <<pos, proj, stopped, past>>

ASSUME FillAssumption == Qtys \subseteq 1..MAX /\ Prices \subseteq 0..MAX

Flat == [qty |-> 0, cost_basis |-> 0, realized |-> 0]

is_flat(p) == p.qty = 0

avg_entry(p) ==
  IF p.qty = 0 THEN Refused ELSE Fit(TruncDiv(p.cost_basis * SCALE, p.qty))

(* What does not fit is shown as nothing.                                   *)
unrealized(p, mark) ==
  LET value == Notional(mark, p.qty)
      shown == IF value = Refused THEN 0 ELSE value
      gain  == CheckedSub(shown, p.cost_basis)
  IN  IF p.qty = 0 \/ gain = Refused THEN 0 ELSE gain

(* Mutant: the last slice is apportioned like the others, from a rounded    *)
(* price per unit.                                                          *)
SliceByAverage(p, closing, held) ==
  IF held = 0 THEN 0 ELSE Fit(TruncDiv(Abs(p.cost_basis), held) * closing)

(* The share of the basis that leaves with closing out of held.             *)
slice_of_basis(p, closing, held) ==
  IF held = 0 THEN 0
  ELSE IF closing = held THEN Abs(p.cost_basis)
  ELSE Fit(TruncDiv(Abs(p.cost_basis) * closing, held))

Opening(p, side) == p.qty = 0 \/ (p.qty > 0) = (side > 0)

Open(p, side, qty, price) ==
  LET cost == Notional(price, qty)
      size == CheckedAdd(p.qty, side * qty)
      base == CheckedAdd(p.cost_basis, side * cost)
  IN  IF cost = Refused \/ size = Refused \/ base = Refused THEN Refused
      ELSE [p EXCEPT !.qty = size, !.cost_basis = base]

(* The part of the fill that closes what is held, and its profit.           *)
Close(p, closing, held, price) ==
  LET direction == IF p.qty > 0 THEN 1 ELSE -1
      closed    == slice_of_basis(p, closing, held)
      proceeds  == Notional(price, closing)
      gross     == CheckedSub(proceeds, closed)
      profit    == CheckedAdd(p.realized, direction * gross)
      base      == CheckedSub(p.cost_basis, direction * closed)
      size      == CheckedSub(p.qty, direction * closing)
  IN  IF \/ closed = Refused \/ proceeds = Refused \/ gross = Refused
         \/ direction * gross \notin Raw
         \/ profit = Refused \/ base = Refused \/ size = Refused
      THEN Refused
      ELSE [qty        |-> size,
            cost_basis |-> IF size = 0 THEN 0 ELSE base,
            realized   |-> profit]

(* Mutant: the far side of a flip inherits the old basis.                   *)
FlipKeepsBasis(p, side, qty, price) ==
  [p EXCEPT !.qty = side * qty]

(* Mutant: the basis of the far side is booked without its direction.       *)
FlipUnsigned(p, side, qty, price) ==
  LET opened == Notional(price, qty)
  IN  IF opened = Refused THEN Refused
      ELSE [p EXCEPT !.qty = side * qty, !.cost_basis = opened]

(* The part of the fill past flat opens the other side at this price.       *)
Flip(p, side, qty, price) ==
  LET opened == Notional(price, qty)
  IN  IF opened = Refused THEN Refused
      ELSE [p EXCEPT !.qty = side * qty, !.cost_basis = side * opened]

Reduce(p, side, qty, price) ==
  LET held    == Abs(p.qty)
      closing == Lesser(qty, held)
      rest    == Close(p, closing, held, price)
  IN  IF Notional(price, qty) = Refused \/ rest = Refused THEN Refused
      ELSE IF qty > closing THEN Flip(rest, side, qty - closing, price)
      ELSE rest

apply_fill(p, side, qty, price) ==
  IF Opening(p, side) THEN Open(p, side, qty, price)
                      ELSE Reduce(p, side, qty, price)

----------------------------------------------------------------------------
(* The Go twin: sums wrap and products saturate, and nothing is refused.    *)

GoAbs(a)        == GoWrap(IF a < 0 THEN -a ELSE a)
GoMulDiv(a, b, d) == IF d = 0 THEN 0 ELSE Saturate(TruncDiv(a * b, d))
GoMul(a, b)     == GoMulDiv(a, b, SCALE)

(* Mutant: the projector truncates the price per unit, then multiplies.     *)
GoSliceDividesFirst(p, closing, held) ==
  IF held = 0 THEN 0
  ELSE IF closing = held THEN GoAbs(p.cost_basis)
  ELSE TruncDiv(GoAbs(p.cost_basis), held) * closing

GoSliceOfBasis(p, closing, held) ==
  IF held = 0 THEN 0
  ELSE IF closing = held THEN GoAbs(p.cost_basis)
  ELSE GoMulDiv(GoAbs(p.cost_basis), closing, held)

GoApplyFill(p, side, qty, price) ==
  IF Opening(p, side)
  THEN [p EXCEPT !.qty        = GoWrap(@ + side * qty),
                 !.cost_basis = GoWrap(@ + side * GoMul(price, qty))]
  ELSE LET held      == GoAbs(p.qty)
           closing   == Lesser(qty, held)
           direction == IF p.qty < 0 THEN -1 ELSE 1
           closed    == GoSliceOfBasis(p, closing, held)
           size      == GoWrap(p.qty - direction * closing)
           base      == GoWrap(p.cost_basis - direction * closed)
           flipped   == GoWrap(qty - closing)
       IN  [qty        |-> IF flipped > 0 THEN side * flipped ELSE size,
            cost_basis |-> IF flipped > 0 THEN side * GoMul(price, flipped)
                           ELSE IF size = 0 THEN 0 ELSE base,
            realized   |-> GoWrap(p.realized
                             + direction * GoWrap(GoMul(price, closing) - closed))]

----------------------------------------------------------------------------
(* The history a position's numbers are judged against: the fills folded,   *)
(* the money they moved, the fills that flipped the position, and, since it *)
(* was last opened, the lowest and highest price paid and the fills that    *)
(* added to it and took from it.  floor: some number has stood at MIN,      *)
(* whose magnitude neither language can hold (Rust is one unit short of it, *)
(* Go wraps), so the properties claim nothing from there on.                *)
NoPast == [fills |-> 0, cash |-> 0, flips |-> 0, low |-> 0, high |-> 0,
           adds |-> 0, takes |-> 0, floor |-> FALSE]

Opened(h, price) == [h EXCEPT !.low = price, !.high = price, !.adds = 1, !.takes = 0]
Added(h, price)  == [h EXCEPT !.low = Lesser(@, price), !.high = Greater(@, price), !.adds = @ + 1]
Taken(h)         == [h EXCEPT !.takes = @ + 1]

Recall(p, h, side, qty, price) ==
  LET flips == ~Opening(p, side) /\ qty > Abs(p.qty)
      told  == [h EXCEPT !.fills = @ + 1,
                         !.cash  = @ + side * TruncDiv(price * qty, SCALE),
                         !.flips = @ + (IF flips THEN 1 ELSE 0)]
  IN  IF p.qty = 0 \/ flips THEN Opened(told, price)
      ELSE IF Opening(p, side) THEN Added(told, price)
      ELSE Taken(told)

PositionInit ==
  /\ pos = Flat
  /\ proj = Flat
  /\ stopped = FALSE
  /\ past = NoPast

(* A fill the lifecycle accepted, so of a positive quantity.                *)
FoldFill(side, qty, price) ==
  /\ ~stopped
  /\ past.fills < MaxFills
  /\ LET next == apply_fill(pos, side, qty, price)
     IN  IF next = Refused
         THEN /\ stopped' = TRUE
              /\ UNCHANGED <<pos, proj, past>>
         ELSE /\ pos' = next
              /\ proj' = GoApplyFill(proj, side, qty, price)
              /\ past' = [Recall(pos, past, side, qty, price) EXCEPT
                            !.floor = @ \/ MIN \in {next.qty, next.cost_basis}]
              /\ UNCHANGED stopped

PositionNext ==
  \E side \in {1, -1}, qty \in Qtys, price \in Prices : FoldFill(side, qty, price)

----------------------------------------------------------------------------
(* No money appears or disappears: what the position has earned, realized   *)
(* and at any mark, is the value of what is held less all the money the     *)
(* fills moved, to within one unit for each fill that was split in two at   *)
(* flat.  Closing part of a position, closing all of it and turning it over *)
(* book their profit against the basis they take out.                       *)
MoneyConserved ==
  \A mark \in Prices :
    LET value  == Notional(mark, pos.qty)
        earned == pos.realized + unrealized(pos, mark)
        drift  == earned - (value - past.cash)
    IN  ~past.floor /\ value # Refused /\ CheckedSub(value, pos.cost_basis) # Refused
          => drift \in -past.flips .. past.flips

(* The basis has the direction of the position, and a flat position has     *)
(* none: there is no profit on nothing, whatever was rounded on the way.    *)
BasisFollowsSize ==
  /\ pos.qty > 0 => pos.cost_basis >= 0
  /\ pos.qty < 0 => pos.cost_basis <= 0
  /\ pos.qty = 0 => pos.cost_basis = 0

(* Rounding does not compound: the basis of the open size stays within one  *)
(* unit per fill of that size at the lowest and at the highest price paid   *)
(* since it was opened, however often it was added to and taken from, as    *)
(* long as no number has stood at MIN: a basis there is apportioned one     *)
(* unit short, and the share that leaves may then be two units short.       *)
RoundingIsBounded ==
  LET size  == IF pos.qty < 0 THEN -pos.qty ELSE pos.qty
      basis == IF pos.cost_basis < 0 THEN -pos.cost_basis ELSE pos.cost_basis
  IN  ~past.floor /\ pos.qty # 0 =>
        /\ basis * SCALE >= past.low * size - SCALE * past.adds
        /\ basis * SCALE <= past.high * size + SCALE * past.takes

(* The projector's position is the book's, to the unit, for every fill the  *)
(* book could fold.                                                         *)
ProjectionAgrees == ~past.floor => proj = pos
=============================================================================
