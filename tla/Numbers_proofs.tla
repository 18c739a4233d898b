--------------------------- MODULE Numbers_proofs ---------------------------
(***************************************************************************)
(* What the arithmetic of positions, of sizes and of trailing stops keeps, *)
(* for integers of any width and any scale that is a power of ten, any     *)
(* prices and quantities, and any number of fills, marks and bars; and     *)
(* that the two readers of a record agree, whatever its bytes.             *)
(***************************************************************************)
EXTENDS Numbers, WellFoundedInduction, TLAPS

Books == [qty: Raw, cost_basis: Raw, realized: Raw]

Pasts == [fills: Nat, cash: Int, flips: Nat, low: 0..MAX, high: 0..MAX,
          adds: Nat, takes: Nat, floor: BOOLEAN]

(* The units of a product of two fixed-point values.                        *)
Units(n) == TruncDiv(n, SCALE)
-----------------------------------------------------------------------------
(* One unit is a positive number of the smallest steps, and the width has   *)
(* room for it on both sides of zero.                                       *)
LEMMA ScaleIs ==
  /\ SCALE \in Nat /\ SCALE > 0 /\ SCALE \in Int
  /\ MAX \in Nat /\ MAX > 0 /\ MIN \in Int /\ MIN = -MAX - 1
  /\ Refused \notin Int
<1>1. SCALE \in Int
  BY WidthAssumption DEF SCALE
<1>2. SCALE \in Nat /\ SCALE > 0
  BY <1>1, WidthAssumption
<1> QED
  BY <1>1, <1>2, WidthAssumption DEF MIN

(* A value is held when it lies between the ends of the range.              *)
LEMMA RawIs ==
  ASSUME NEW n \in Int
  PROVE  /\ n \in Raw <=> (-MAX - 1 <= n /\ n <= MAX)
         /\ Raw \subseteq Int
  BY ScaleIs DEF Raw

(* Narrowing keeps the value or refuses it.                                 *)
LEMMA FitIs ==
  ASSUME NEW n \in Int
  PROVE  /\ Fit(n) # Refused <=> n \in Raw
         /\ Fit(n) # Refused => Fit(n) = n
  BY ScaleIs DEF Fit

(* A product with a factor that is not negative keeps the order.            *)
LEMMA MulOrder ==
  ASSUME NEW a \in Int, NEW b \in Int, NEW c \in Int, c >= 0, a <= b
  PROVE  a * c <= b * c /\ c * a <= c * b
  OBVIOUS

(* A positive factor cancels.                                               *)
LEMMA MulCancel ==
  ASSUME NEW a \in Int, NEW b \in Int, NEW c \in Int, c > 0
  PROVE  /\ c * a <= c * b => a <= b
         /\ c * a < c * b => a < b
  OBVIOUS

(* The quotient of two numbers that are not negative.                       *)
LEMMA DivIs ==
  ASSUME NEW n \in Nat, NEW d \in Nat, d > 0
  PROVE  /\ n \div d \in Nat
         /\ d * (n \div d) <= n
         /\ n < d * (n \div d) + d
  OBVIOUS

(* Division toward zero, of a number and of its negation.                   *)
LEMMA TruncIs ==
  ASSUME NEW n \in Nat, NEW d \in Nat, d > 0
  PROVE  /\ TruncDiv(n, d) \in Nat
         /\ d * TruncDiv(n, d) <= n
         /\ n < d * TruncDiv(n, d) + d
         /\ TruncDiv(-n, d) = -TruncDiv(n, d)
<1>1. TruncDiv(n, d) = n \div d
  BY DEF TruncDiv
<1>2. CASE n = 0
  <2>1. 0 \div d = 0
    BY DivIs
  <2>2. TruncDiv(-n, d) = n \div d
    BY <1>2 DEF TruncDiv
  <2> QED
    BY <1>1, <1>2, <2>1, <2>2, DivIs
<1>3. CASE n > 0
  <2>1. TruncDiv(-n, d) = -(n \div d)
    BY <1>3 DEF TruncDiv
  <2> QED
    BY <1>1, <2>1, DivIs
<1> QED
  BY <1>2, <1>3

(* The same for the units of a product.                                     *)
LEMMA UnitsAre ==
  ASSUME NEW n \in Nat
  PROVE  /\ Units(n) \in Nat
         /\ SCALE * Units(n) <= n
         /\ n < SCALE * Units(n) + SCALE
         /\ Units(-n) = -Units(n)
  BY ScaleIs, TruncIs DEF Units

(* A number split in two loses at most one unit.                            *)
LEMMA TruncSplit ==
  ASSUME NEW m \in Nat, NEW n \in Nat
  PROVE  Units(m + n) - Units(m) - Units(n) \in {0, 1}
<1>1. PICK S \in Nat : S = SCALE /\ S > 0
  BY ScaleIs
<1>2. m + n \in Nat
  OBVIOUS
<1>3. PICK a \in Nat, b \in Nat, c \in Nat :
         a = Units(m) /\ b = Units(n) /\ c = Units(m + n)
  BY <1>2, UnitsAre
<1>4. /\ S * a <= m /\ m < S * a + S /\ S * b <= n /\ n < S * b + S
      /\ S * c <= m + n /\ m + n < S * c + S
  BY <1>1, <1>2, <1>3, UnitsAre
<1>5. S * (c - a - b) = S * c - S * a - S * b
  OBVIOUS
<1>6. S * (c - a - b) < S * 2 /\ S * (0 - 1) < S * (c - a - b)
  BY <1>1, <1>4, <1>5
<1>7. c - a - b < 2 /\ 0 - 1 < c - a - b
  BY <1>1, <1>6, MulCancel
<1> QED
  BY <1>3, <1>7

(* A magnitude that does not fit is one unit short.                         *)
LEMMA AbsIs ==
  ASSUME NEW n \in Raw
  PROVE  /\ Abs(n) \in 0..MAX
         /\ n >= 0 => Abs(n) = n
         /\ n < 0 /\ n # MIN => Abs(n) = -n
         /\ n = MIN => Abs(n) = MAX
         /\ n < 0 => Abs(n) <= -n /\ Abs(n) > 0
<1>1. n \in Int /\ -MAX - 1 <= n /\ n <= MAX
  BY RawIs, ScaleIs DEF Raw
<1> QED
  BY <1>1, ScaleIs DEF Abs, Saturate, Greater, Lesser

(* What fits is neither saturated nor wrapped.                              *)
LEMMA KeptByGo ==
  ASSUME NEW n \in Raw
  PROVE  Saturate(n) = n /\ GoWrap(n) = n
<1>1. n \in Int /\ -MAX - 1 <= n /\ n <= MAX
  BY RawIs, ScaleIs DEF Raw
<1>2. Saturate(n) = n
  BY <1>1, ScaleIs DEF Saturate, Greater, Lesser
<1>3. PICK a \in Nat, m \in Nat : a = n - MIN /\ m = 2 * (MAX + 1)
  BY <1>1, ScaleIs
<1>4. a < m /\ m > 0
  BY <1>1, <1>3, ScaleIs
<1>5. a % m = a
  BY <1>4
<1>6. GoWrap(n) = (a % m) + MIN
  BY <1>3 DEF GoWrap
<1> QED
  BY <1>1, <1>2, <1>3, <1>5, <1>6, ScaleIs

-----------------------------------------------------------------------------
(* The book.  What a fill costs, when it is not refused.                    *)
LEMMA NotionalIs ==
  ASSUME NEW price \in Nat, NEW qty \in Nat
  PROVE  /\ price * qty \in Nat /\ Units(price * qty) \in Nat
         /\ Notional(price, qty) # Refused =>
              /\ Notional(price, qty) = Units(price * qty)
              /\ Units(price * qty) \in 0..MAX
<1>1. PICK n \in Nat : n = price * qty
  OBVIOUS
<1>2. Units(n) \in Nat
  BY UnitsAre
<1>3. Notional(price, qty) = Fit(Units(n))
  BY <1>1 DEF Notional, Units
<1>4. Units(n) \in Int /\ (Units(n) \in Raw => Units(n) <= MAX)
  BY <1>2, RawIs
<1>5. Notional(price, qty) # Refused => Notional(price, qty) = Units(n) /\ Units(n) \in Raw
  BY <1>3, <1>4, FitIs
<1> QED
  BY <1>1, <1>2, <1>4, <1>5, ScaleIs

(* A fill on the side of what is held, or of a flat position.               *)
LEMMA OpenIs ==
  ASSUME NEW p \in Books, NEW side \in {1, -1}, NEW qty \in 1..MAX, NEW price \in 0..MAX,
         Open(p, side, qty, price) # Refused
  PROVE  LET next == Open(p, side, qty, price)
             cost == Units(price * qty)
         IN  /\ next \in Books /\ cost \in 0..MAX
             /\ next.qty = p.qty + side * qty
             /\ next.cost_basis = p.cost_basis + side * cost
             /\ next.realized = p.realized
<1>1. /\ p.qty \in Raw /\ p.cost_basis \in Raw /\ p.realized \in Raw
      /\ p = [qty |-> p.qty, cost_basis |-> p.cost_basis, realized |-> p.realized]
  BY DEF Books
<1>2. price \in Nat /\ qty \in Nat /\ p.qty \in Int /\ p.cost_basis \in Int
  BY <1>1, ScaleIs, RawIs DEF Raw
<1>3. PICK cost, size, base : /\ cost = Notional(price, qty)
                              /\ size = CheckedAdd(p.qty, side * qty)
                              /\ base = CheckedAdd(p.cost_basis, side * cost)
  OBVIOUS
<1>4. /\ cost # Refused /\ size # Refused /\ base # Refused
      /\ Open(p, side, qty, price) = [p EXCEPT !.qty = size, !.cost_basis = base]
  BY <1>3 DEF Open
<1>5. cost = Units(price * qty) /\ cost \in 0..MAX /\ cost \in Int
  BY <1>2, <1>3, <1>4, NotionalIs, ScaleIs
<1>6. side * qty \in Int /\ side * cost \in Int
  BY <1>2, <1>5
<1>7. /\ p.qty + side * qty \in Int
      /\ p.cost_basis + side * cost \in Int
  BY <1>2, <1>6
<1>8. /\ size = p.qty + side * qty /\ size \in Raw
      /\ base = p.cost_basis + side * cost /\ base \in Raw
  BY <1>3, <1>4, <1>7, FitIs DEF CheckedAdd
<1>9. PICK next : next = [p EXCEPT !.qty = size, !.cost_basis = base]
  OBVIOUS
<1>10. next.qty = size /\ next.cost_basis = base /\ next.realized = p.realized /\ next \in Books
  BY <1>1, <1>8, <1>9 DEF Books
<1> QED
  BY <1>4, <1>5, <1>8, <1>9, <1>10

Dir(p)         == IF p.qty > 0 THEN 1 ELSE -1
Closing(p, qty) == Lesser(qty, Abs(p.qty))

(* The basis that leaves with closing out of what is held.                  *)
Closed(p, closing) ==
  IF closing = Abs(p.qty) THEN Abs(p.cost_basis)
  ELSE TruncDiv(Abs(p.cost_basis) * closing, Abs(p.qty))

(* A share of a whole.                                                      *)
LEMMA ShareIs ==
  ASSUME NEW whole \in Nat, NEW part \in Nat, NEW held \in Nat, held > 0, part <= held
  PROVE  /\ whole * part \in Nat
         /\ TruncDiv(whole * part, held) \in 0..whole
<1>1. PICK n \in Nat : n = whole * part
  OBVIOUS
<1>2. PICK t \in Nat : t = TruncDiv(n, held)
  BY TruncIs
<1>3. held * t <= n
  BY <1>2, TruncIs
<1>4. n <= whole * held
  BY <1>1, MulOrder
<1>5. held * t <= held * whole
  BY <1>3, <1>4
<1>6. t <= whole
  BY <1>5, MulCancel
<1> QED
  BY <1>1, <1>2, <1>6

(* The basis that leaves is not more than there is.                         *)
LEMMA ClosedIs ==
  ASSUME NEW p \in Books, p.qty # 0, NEW qty \in 1..MAX
  PROVE  /\ Abs(p.qty) \in 1..MAX /\ Abs(p.cost_basis) \in 0..MAX
         /\ Closing(p, qty) \in 1..MAX /\ Closing(p, qty) <= Abs(p.qty)
         /\ Closing(p, qty) <= qty
         /\ Closing(p, qty) < qty => Closing(p, qty) = Abs(p.qty)
         /\ Closed(p, Closing(p, qty)) \in 0..Abs(p.cost_basis)
         /\ slice_of_basis(p, Closing(p, qty), Abs(p.qty)) = Closed(p, Closing(p, qty))
<1>1. p.qty \in Raw /\ p.cost_basis \in Raw /\ p.qty \in Int
  BY ScaleIs DEF Books, Raw
<1>2. PICK held \in 0..MAX, mag \in 0..MAX : held = Abs(p.qty) /\ mag = Abs(p.cost_basis)
  BY <1>1, AbsIs
<1>3. held > 0
  BY <1>1, <1>2, AbsIs
<1>4. MAX \in Nat /\ held \in Nat /\ mag \in Nat /\ qty \in Nat
  BY ScaleIs
<1>5. PICK c \in 1..MAX : c = Closing(p, qty) /\ c <= held /\ c <= qty /\ (c < qty => c = held)
  BY <1>2, <1>3, <1>4 DEF Closing, Lesser
<1>6. PICK t \in 0..mag : t = TruncDiv(mag * c, held)
  <2>1. c \in Nat
    BY <1>4, <1>5
  <2>2. TruncDiv(mag * c, held) \in 0..mag
    BY <1>3, <1>4, <1>5, <2>1, ShareIs
  <2> QED
    BY <2>2
<1>7. Closed(p, c) \in 0..mag /\ Closed(p, c) = IF c = held THEN mag ELSE t
  BY <1>2, <1>4, <1>6 DEF Closed
<1>8. t \in Int /\ t \in Raw
  BY <1>4, <1>6, RawIs, ScaleIs
<1>9. Fit(t) = t
  BY <1>8 DEF Fit
<1>10. slice_of_basis(p, c, held) = Closed(p, c)
  BY <1>2, <1>3, <1>6, <1>7, <1>9 DEF slice_of_basis
<1> QED
  BY <1>2, <1>3, <1>4, <1>5, <1>7, <1>10
Gross(p, c, price) == Units(price * c) - Closed(p, c)
Base(p, c)         == p.cost_basis - Dir(p) * Closed(p, c)

(* What is left when closing leaves, and every number on the way fits.      *)
Remains(p, c, price, rest) ==
  /\ rest \in Books
  /\ rest.qty = p.qty - Dir(p) * c
  /\ rest.cost_basis = IF rest.qty = 0 THEN 0 ELSE Base(p, c)
  /\ rest.realized = p.realized + Dir(p) * Gross(p, c, price)
  /\ Units(price * c) \in 0..MAX /\ Gross(p, c, price) \in Raw /\ Base(p, c) \in Raw

(* The part of a fill that closes.                                          *)
LEMMA CloseIs ==
  ASSUME NEW p \in Books, p.qty # 0, NEW qty \in 1..MAX, NEW price \in 0..MAX,
         NEW c, c = Closing(p, qty), Close(p, c, Abs(p.qty), price) # Refused
  PROVE  Remains(p, c, price, Close(p, c, Abs(p.qty), price))
<1>1. p.qty \in Raw /\ p.cost_basis \in Raw /\ p.realized \in Raw
  BY DEF Books
<1>2. p.qty \in Int /\ p.cost_basis \in Int /\ p.realized \in Int
  BY <1>1, ScaleIs DEF Raw
<1>3. c \in 1..MAX /\ c \in Nat /\ price \in Nat /\ c \in Int
  BY ClosedIs, ScaleIs
<1>4. PICK d \in {1, -1} : d = Dir(p)
  BY DEF Dir
<1>5. PICK closed, proceeds : closed = Closed(p, c) /\ proceeds = Notional(price, c)
  OBVIOUS
<1>6. closed = slice_of_basis(p, c, Abs(p.qty)) /\ closed \in Int
  <2>1. slice_of_basis(p, Closing(p, qty), Abs(p.qty)) = Closed(p, Closing(p, qty))
    BY ClosedIs
  <2>2. Closed(p, Closing(p, qty)) \in 0..Abs(p.cost_basis) /\ Abs(p.cost_basis) \in 0..MAX
    BY ClosedIs
  <2>3. Closed(p, Closing(p, qty)) \in Int
    BY <2>2, ScaleIs
  <2> QED
    BY <1>5, <2>1, <2>3
<1>7. PICK gross, profit, base, size :
         /\ gross = CheckedSub(proceeds, closed)
         /\ profit = CheckedAdd(p.realized, d * gross)
         /\ base = CheckedSub(p.cost_basis, d * closed)
         /\ size = CheckedSub(p.qty, d * c)
  OBVIOUS
<1>8. /\ proceeds # Refused /\ gross # Refused /\ profit # Refused /\ base # Refused
      /\ size # Refused
      /\ Close(p, c, Abs(p.qty), price)
           = [qty |-> size, cost_basis |-> IF size = 0 THEN 0 ELSE base, realized |-> profit]
  BY <1>4, <1>5, <1>6, <1>7 DEF Close, Dir
<1>9. proceeds = Units(price * c) /\ proceeds \in 0..MAX /\ proceeds \in Int
  <2>1. Notional(price, c) # Refused
    BY <1>5, <1>8
  <2>2. Notional(price, c) = Units(price * c) /\ Units(price * c) \in 0..MAX
    BY <1>3, <2>1, NotionalIs
  <2> QED
    BY <1>5, <2>2, ScaleIs
<1>10. gross = proceeds - closed /\ gross \in Raw /\ gross \in Int
  <2>1. proceeds - closed \in Int
    BY <1>6, <1>9
  <2> QED
    BY <1>7, <1>8, <2>1, FitIs DEF CheckedSub
<1>11. base = p.cost_basis - d * closed /\ base \in Raw
  <2>1. p.cost_basis - d * closed \in Int
    BY <1>2, <1>4, <1>6
  <2> QED
    BY <1>7, <1>8, <2>1, FitIs DEF CheckedSub
<1>12. size = p.qty - d * c /\ size \in Raw
  <2>1. p.qty - d * c \in Int
    BY <1>2, <1>3, <1>4
  <2> QED
    BY <1>7, <1>8, <2>1, FitIs DEF CheckedSub
<1>13. profit = p.realized + d * gross /\ profit \in Raw
  <2>1. p.realized + d * gross \in Int
    BY <1>2, <1>4, <1>10
  <2> QED
    BY <1>7, <1>8, <2>1, FitIs DEF CheckedAdd
<1>14. PICK rest : rest = Close(p, c, Abs(p.qty), price)
  OBVIOUS
<1>15. rest.qty = size /\ rest.cost_basis = (IF size = 0 THEN 0 ELSE base) /\ rest.realized = profit
  BY <1>8, <1>14
<1>16. 0 \in Raw
  BY ScaleIs, RawIs
<1>17. rest \in Books
  BY <1>8, <1>11, <1>12, <1>13, <1>14, <1>16 DEF Books
<1>18. Gross(p, c, price) = gross /\ Base(p, c) = base
  BY <1>4, <1>5, <1>9, <1>10, <1>11 DEF Gross, Base
<1> QED
  BY <1>4, <1>9, <1>10, <1>11, <1>12, <1>13, <1>14, <1>15, <1>17, <1>18 DEF Remains

(* next is what remains, or what the rest of the fill opens on the other    *)
(* side.                                                                    *)
Reduced(p, side, qty, price, c, rest, next) ==
  /\ next \in Books /\ Remains(p, c, price, rest)
  /\ qty = c => next = rest
  /\ qty > c => /\ c = Abs(p.qty)
                /\ next.qty = side * (qty - c)
                /\ next.cost_basis = side * Units(price * (qty - c))
                /\ next.realized = rest.realized
                /\ Units(price * (qty - c)) \in 0..MAX

(* A fill against what is held: it takes from the position, or closes it    *)
(* and opens the other side.                                                *)
LEMMA ReduceIs ==
  ASSUME NEW p \in Books, p.qty # 0, NEW side \in {1, -1}, NEW qty \in 1..MAX,
         NEW price \in 0..MAX, Reduce(p, side, qty, price) # Refused
  PROVE  Reduced(p, side, qty, price, Closing(p, qty),
                 Close(p, Closing(p, qty), Abs(p.qty), price), Reduce(p, side, qty, price))
<1>1. PICK c \in 1..MAX : c = Closing(p, qty) /\ c <= qty /\ (c < qty => c = Abs(p.qty))
  BY ClosedIs
<1>2. c \in Nat /\ qty \in Nat /\ price \in Nat
  BY ScaleIs
<1>3. PICK rest : rest = Close(p, c, Abs(p.qty), price)
  OBVIOUS
<1>4. /\ rest # Refused
      /\ Reduce(p, side, qty, price)
           = IF qty > c THEN Flip(rest, side, qty - c, price) ELSE rest
  BY <1>1, <1>3 DEF Reduce, Closing
<1>5. Remains(p, c, price, rest)
  BY <1>1, <1>3, <1>4, CloseIs
<1>6. rest \in Books
  BY <1>5 DEF Remains
<1>7. CASE qty = c
  BY <1>1, <1>2, <1>3, <1>4, <1>5, <1>6, <1>7 DEF Reduced
<1>8. CASE qty > c
  <2>1. PICK more \in Nat : more = qty - c /\ more \in 1..MAX
    BY <1>1, <1>2, <1>8, ScaleIs
  <2>2. Reduce(p, side, qty, price) = Flip(rest, side, more, price)
    BY <1>4, <1>8, <2>1
  <2>3. PICK opened : opened = Notional(price, more)
    OBVIOUS
  <2>4. /\ opened # Refused
        /\ Flip(rest, side, more, price) = [rest EXCEPT !.qty = side * more,
                                                        !.cost_basis = side * opened]
    BY <2>2, <2>3 DEF Flip
  <2>5. opened = Units(price * more) /\ opened \in 0..MAX
    BY <1>2, <2>1, <2>3, <2>4, NotionalIs
  <2>6. side * more \in Raw /\ side * opened \in Raw
    <3>1. opened \in Nat /\ opened <= MAX /\ more <= MAX
      BY <2>1, <2>5, ScaleIs
    <3>2. \A x \in Nat : x <= MAX => side * x \in Raw
      BY ScaleIs DEF Raw
    <3> QED
      BY <2>1, <3>1, <3>2
  <2>7. PICK next : next = [rest EXCEPT !.qty = side * more, !.cost_basis = side * opened]
    OBVIOUS
  <2>8. /\ next \in Books /\ next.qty = side * more /\ next.cost_basis = side * opened
        /\ next.realized = rest.realized
    BY <1>6, <2>6, <2>7 DEF Books
  <2>9. c # qty /\ c = Abs(p.qty)
    BY <1>1, <1>2, <1>8
  <2> QED
    BY <1>1, <1>3, <1>5, <2>1, <2>2, <2>4, <2>5, <2>7, <2>8, <2>9 DEF Reduced
<1> QED
  BY <1>1, <1>2, <1>7, <1>8

-----------------------------------------------------------------------------
(* What the position must keep, of a position p and its past h.             *)
RightSide(p) ==
  /\ p.qty > 0 => p.cost_basis >= 0
  /\ p.qty < 0 => p.cost_basis <= 0
  /\ p.qty = 0 => p.cost_basis = 0

Balanced(p, h) == p.realized - p.cost_basis + h.cash \in -h.flips .. h.flips

Size(p)  == IF p.qty < 0 THEN -p.qty ELSE p.qty
Basis(p) == IF p.cost_basis < 0 THEN -p.cost_basis ELSE p.cost_basis

Within(basis, size, h) ==
  /\ basis * SCALE >= h.low * size - SCALE * h.adds
  /\ basis * SCALE <= h.high * size + SCALE * h.takes

Above(p) == p.qty # MIN /\ p.cost_basis # MIN

(* The fields of a position and of its past are numbers.                    *)
LEMMA FieldsAre ==
  /\ \A p \in Books : /\ p.qty \in Raw /\ p.cost_basis \in Raw /\ p.realized \in Raw
                      /\ p.qty \in Int /\ p.cost_basis \in Int /\ p.realized \in Int
                      /\ p.qty >= MIN /\ p.qty <= MAX
                      /\ p.cost_basis >= MIN /\ p.cost_basis <= MAX
  /\ \A h \in Pasts : /\ h.cash \in Int /\ h.flips \in Nat /\ h.low \in Nat /\ h.high \in Nat
                      /\ h.adds \in Nat /\ h.takes \in Nat /\ h.floor \in BOOLEAN
                      /\ h.fills \in Nat /\ h.low \in 0..MAX /\ h.high \in 0..MAX
<1>1. ASSUME NEW p \in Books
      PROVE  p.qty \in Raw /\ p.cost_basis \in Raw /\ p.realized \in Raw
  BY DEF Books
<1>2. \A n \in Raw : n \in Int /\ n >= MIN /\ n <= MAX
  BY ScaleIs DEF Raw
<1>3. ASSUME NEW h \in Pasts
      PROVE  /\ h.cash \in Int /\ h.flips \in Nat /\ h.low \in 0..MAX /\ h.high \in 0..MAX
             /\ h.adds \in Nat /\ h.takes \in Nat /\ h.floor \in BOOLEAN /\ h.fills \in Nat
  BY DEF Pasts
<1>4. \A n \in 0..MAX : n \in Nat
  BY ScaleIs
<1> QED
  BY <1>1, <1>2, <1>3, <1>4

(* A fill that opens or adds keeps the basis on the position's side.        *)
LEMMA OpenSigned ==
  ASSUME NEW p \in Books, RightSide(p), NEW side \in {1, -1}, Opening(p, side), NEW qty \in 1..MAX,
         NEW cost \in 0..MAX, NEW next \in Books, next.qty = p.qty + side * qty,
         next.cost_basis = p.cost_basis + side * cost
  PROVE  /\ RightSide(next) /\ next.qty # 0
         /\ Size(next) = Size(p) + qty /\ Basis(next) = Basis(p) + cost
<1>1. /\ p.qty \in Int /\ p.cost_basis \in Int /\ qty \in Nat /\ qty > 0 /\ cost \in Nat
      /\ next.qty \in Int /\ next.cost_basis \in Int
  BY FieldsAre, ScaleIs
<1>2. CASE side = 1
  <2>1. p.qty >= 0
    BY <1>1, <1>2 DEF Opening
  <2>2. p.cost_basis >= 0
    BY <1>1, <2>1 DEF RightSide
  <2>3. next.qty = p.qty + qty /\ next.cost_basis = p.cost_basis + cost
    BY <1>1, <1>2
  <2> QED
    BY <1>1, <2>1, <2>2, <2>3 DEF RightSide, Size, Basis
<1>3. CASE side = -1
  <2>1. p.qty <= 0
    BY <1>1, <1>3 DEF Opening
  <2>2. p.cost_basis <= 0
    BY <1>1, <2>1 DEF RightSide
  <2>3. next.qty = p.qty - qty /\ next.cost_basis = p.cost_basis - cost
    BY <1>1, <1>3
  <2> QED
    BY <1>1, <2>1, <2>2, <2>3 DEF RightSide, Size, Basis
<1> QED
  BY <1>2, <1>3

(* A fill against the position is on the other side.                        *)
LEMMA OtherSide ==
  ASSUME NEW p \in Books, NEW side \in {1, -1}, ~Opening(p, side)
  PROVE  p.qty # 0 /\ Dir(p) = -side /\ (side = 1 => p.qty < 0) /\ (side = -1 => p.qty > 0)
<1>1. p.qty \in Int
  BY FieldsAre
<1> QED
  BY <1>1 DEF Opening, Dir

(* What remains when a fill only takes.                                     *)
LEMMA TakeSigned ==
  ASSUME NEW p \in Books, RightSide(p), p.qty # 0, NEW qty \in 1..MAX, NEW price \in 0..MAX,
         NEW c, c = Closing(p, qty), NEW next, Remains(p, c, price, next)
  PROVE  /\ RightSide(next)
         /\ Above(p) /\ next.qty # 0 =>
              Size(next) = Size(p) - c /\ Basis(next) = Basis(p) - Closed(p, c)
<1>1. /\ next \in Books /\ next.qty = p.qty - Dir(p) * c
      /\ next.cost_basis = IF next.qty = 0 THEN 0 ELSE p.cost_basis - Dir(p) * Closed(p, c)
  BY DEF Remains, Base
<1>2. PICK held \in Nat, mag \in Nat : held = Abs(p.qty) /\ mag = Abs(p.cost_basis)
  BY ClosedIs, ScaleIs
<1>3. PICK k \in Nat : k = Closed(p, c) /\ k <= mag
  BY <1>2, ClosedIs
<1>4. c \in Nat /\ c > 0 /\ c <= held
  BY <1>2, ClosedIs, ScaleIs
<1>5. /\ p.qty \in Int /\ p.cost_basis \in Int /\ p.qty \in Raw /\ p.cost_basis \in Raw
      /\ next.qty \in Int /\ next.cost_basis \in Int
  BY <1>1, FieldsAre
<1>6. CASE p.qty > 0
  <2>1. held = p.qty /\ p.cost_basis >= 0 /\ mag = p.cost_basis
    BY <1>2, <1>5, <1>6, AbsIs DEF RightSide
  <2>2. next.qty = p.qty - c /\ next.cost_basis = IF next.qty = 0 THEN 0 ELSE p.cost_basis - k
    BY <1>1, <1>3, <1>4, <1>5, <1>6 DEF Dir
  <2> QED
    BY <1>3, <1>4, <1>5, <1>6, <2>1, <2>2 DEF RightSide, Size, Basis
<1>7. CASE p.qty < 0
  <2>1. held <= -p.qty /\ p.cost_basis <= 0 /\ mag <= -p.cost_basis
    BY <1>2, <1>5, <1>7, AbsIs DEF RightSide
  <2>2. next.qty = p.qty + c /\ next.cost_basis = IF next.qty = 0 THEN 0 ELSE p.cost_basis + k
    BY <1>1, <1>3, <1>4, <1>5, <1>7 DEF Dir
  <2> QED
    BY <1>3, <1>4, <1>5, <1>7, <2>1, <2>2 DEF RightSide, Size, Basis
<1> QED
  BY <1>5, <1>6, <1>7

(* The far side of a flip.                                                  *)
LEMMA FlipSigned ==
  ASSUME NEW next \in Books, NEW side \in {1, -1}, NEW more \in Nat, more > 0,
         NEW opened \in Nat, next.qty = side * more, next.cost_basis = side * opened
  PROVE  RightSide(next) /\ next.qty # 0 /\ Size(next) = more /\ Basis(next) = opened
<1>1. CASE side = 1
  <2>1. next.qty = more /\ next.cost_basis = opened
    BY <1>1
  <2> QED
    BY <2>1 DEF RightSide, Size, Basis
<1>2. CASE side = -1
  <2>1. next.qty = -more /\ next.cost_basis = -opened
    BY <1>2
  <2> QED
    BY <2>1 DEF RightSide, Size, Basis
<1> QED
  BY <1>1, <1>2

(* A position just opened.                                                  *)
LEMMA OpenWithin ==
  ASSUME NEW price \in Nat, NEW qty \in Nat, NEW h, h.low = price, h.high = price,
         h.adds = 1, h.takes = 0
  PROVE  Within(Units(price * qty), qty, h)
<1>1. PICK n \in Nat, S \in Nat : n = price * qty /\ S = SCALE
  BY ScaleIs
<1>2. PICK u \in Nat : u = Units(n)
  BY UnitsAre
<1>3. S * u <= n /\ n < S * u + S
  BY <1>1, <1>2, UnitsAre
<1>4. u * S = S * u
  OBVIOUS
<1>5. u * S >= n - S * 1 /\ u * S <= n + S * 0
  BY <1>3, <1>4
<1> QED
  BY <1>1, <1>2, <1>5 DEF Within

(* A position added to: one unit more may be lost.                          *)
LEMMA AddWithin ==
  ASSUME NEW price \in Nat, NEW qty \in Nat, NEW size \in Nat, NEW basis \in Nat,
         NEW h \in Pasts, Within(basis, size, h),
         NEW g \in Pasts, g.low = Lesser(h.low, price), g.high = Greater(h.high, price),
         g.adds = h.adds + 1, g.takes = h.takes
  PROVE  Within(basis + Units(price * qty), size + qty, g)
<1>1. PICK S \in Nat, u \in Nat, n \in Nat : S = SCALE /\ n = price * qty /\ u = Units(n)
  <2>1. price * qty \in Nat
    OBVIOUS
  <2>2. Units(price * qty) \in Nat
    BY <2>1, UnitsAre
  <2> QED
    BY <2>1, <2>2, ScaleIs
<1>2. S * u <= n /\ n < S * u + S
  BY <1>1, UnitsAre
<1>3. PICK low \in Nat, high \in Nat, adds \in Nat, takes \in Nat :
         low = h.low /\ high = h.high /\ adds = h.adds /\ takes = h.takes
  BY FieldsAre
<1>4. PICK lo \in Nat, hi \in Nat : lo = g.low /\ hi = g.high
  BY FieldsAre
<1>5. lo <= low /\ lo <= price /\ high <= hi /\ price <= hi
  BY <1>3, <1>4 DEF Lesser, Greater
<1>6. basis * S >= low * size - S * adds /\ basis * S <= high * size + S * takes
  BY <1>1, <1>3 DEF Within
<1>7. lo * size <= low * size /\ lo * qty <= n /\ high * size <= hi * size /\ n <= hi * qty
  BY <1>1, <1>5, MulOrder
<1>8. /\ lo * (size + qty) = lo * size + lo * qty /\ hi * (size + qty) = hi * size + hi * qty
      /\ (basis + u) * S = basis * S + S * u /\ S * (adds + 1) = S * adds + S
  OBVIOUS
<1>9. PICK a \in Int, b \in Int, x \in Int, y \in Int, z \in Int, w \in Int :
         /\ a = basis * S /\ b = S * u /\ x = lo * (size + qty) /\ y = hi * (size + qty)
         /\ z = S * adds /\ w = S * takes
  OBVIOUS
<1>10. (basis + u) * S >= x - S * (adds + 1)
  BY <1>2, <1>6, <1>7, <1>8, <1>9
<1>11. (basis + u) * S <= y + w
  BY <1>2, <1>6, <1>7, <1>8, <1>9
<1> QED
  BY <1>1, <1>3, <1>4, <1>9, <1>10, <1>11 DEF Within

(* A position taken from: the share that leaves is rounded down, so the     *)
(* basis stays above its lower bound and gains at most a unit on the other. *)
LEMMA TakeWithin ==
  ASSUME NEW size \in Nat, NEW basis \in Nat, NEW c \in Nat, c < size,
         NEW h \in Pasts, Within(basis, size, h),
         NEW g \in Pasts, g.low = h.low, g.high = h.high, g.adds = h.adds,
         g.takes = h.takes + 1
  PROVE  Within(basis - TruncDiv(basis * c, size), size - c, g)
<1>1. PICK S \in Nat : S = SCALE /\ S > 0
  BY ScaleIs
<1>2. PICK n \in Nat : n = basis * c
  OBVIOUS
<1>3. size > 0
  OBVIOUS
<1>4. PICK k \in Nat : k = TruncDiv(n, size) /\ size * k <= n /\ n < size * k + size
  BY <1>3, TruncIs
<1>5. PICK low \in Nat, high \in Nat, adds \in Nat, takes \in Nat :
         low = h.low /\ high = h.high /\ adds = h.adds /\ takes = h.takes
  BY FieldsAre
<1>6. basis * S >= low * size - S * adds /\ basis * S <= high * size + S * takes
  BY <1>1, <1>5 DEF Within
<1>7. PICK left \in Nat : left = size - c /\ left > 0 /\ left <= size
  OBVIOUS
<1>8. PICK kept \in Int : kept = basis - k
  OBVIOUS
<1>9. size * kept = size * basis - size * k /\ basis * left = size * basis - n
  BY <1>2, <1>7, <1>8
<1>10. basis * left <= size * kept /\ size * kept < basis * left + size
  BY <1>4, <1>9
<1>11. kept * S >= low * left - S * adds
  <2>1. (low * size - S * adds) * left <= (basis * S) * left
    BY <1>6, <1>7, MulOrder
  <2>2. (basis * left) * S <= (size * kept) * S
    BY <1>1, <1>7, <1>8, <1>10, MulOrder
  <2>3. (S * adds) * left <= (S * adds) * size
    BY <1>1, <1>7, MulOrder
  <2>4. /\ (basis * S) * left = (basis * left) * S
        /\ (low * size - S * adds) * left = size * (low * left) - (S * adds) * left
        /\ (size * kept) * S = size * (kept * S)
        /\ size * (low * left - S * adds) = size * (low * left) - (S * adds) * size
    OBVIOUS
  <2>5. size * (low * left - S * adds) <= size * (kept * S)
    <3>1. PICK a \in Int, b \in Int, d \in Int, e \in Int :
             /\ a = size * (low * left) /\ b = (S * adds) * left
             /\ d = (S * adds) * size /\ e = size * (kept * S)
      BY <1>8
    <3>2. a - b <= e /\ b <= d
      BY <2>1, <2>2, <2>3, <2>4, <3>1
    <3> QED
      BY <2>4, <3>1, <3>2
  <2>6. low * left - S * adds \in Int /\ kept * S \in Int
    BY <1>8
  <2> QED
    BY <1>3, <2>5, <2>6, MulCancel
<1>12. kept * S <= high * left + S * (takes + 1)
  <2>1. (basis * S) * left <= (high * size + S * takes) * left
    BY <1>6, <1>7, MulOrder
  <2>2. (size * kept) * S <= (basis * left + size) * S
    BY <1>1, <1>7, <1>8, <1>10, MulOrder
  <2>3. (S * takes) * left <= (S * takes) * size
    BY <1>1, <1>7, MulOrder
  <2>4. /\ (basis * left + size) * S = (basis * S) * left + size * S
        /\ (high * size + S * takes) * left = size * (high * left) + (S * takes) * left
        /\ (size * kept) * S = size * (kept * S)
        /\ size * (high * left + S * (takes + 1))
             = size * (high * left) + (S * takes) * size + size * S
    OBVIOUS
  <2>5. size * (kept * S) <= size * (high * left + S * (takes + 1))
    <3>1. PICK a \in Int, b \in Int, d \in Int, e \in Int, f \in Int :
             /\ a = size * (high * left) /\ b = (S * takes) * left
             /\ d = (S * takes) * size /\ e = size * (kept * S) /\ f = size * S
      BY <1>8
    <3>2. e <= a + b + f /\ b <= d
      BY <2>1, <2>2, <2>3, <2>4, <3>1
    <3> QED
      BY <2>4, <3>1, <3>2
  <2>6. high * left + S * (takes + 1) \in Int /\ kept * S \in Int
    BY <1>8
  <2> QED
    BY <1>3, <2>5, <2>6, MulCancel
<1> QED
  BY <1>1, <1>2, <1>4, <1>5, <1>7, <1>8, <1>11, <1>12 DEF Within
Flips(p, side, qty) == ~Opening(p, side) /\ qty > Abs(p.qty)

(* What the past remembers of a fill.                                       *)
LEMMA RecallIs ==
  ASSUME NEW p \in Books, NEW h \in Pasts, NEW side \in {1, -1}, NEW qty \in 1..MAX,
         NEW price \in 0..MAX
  PROVE  LET g == Recall(p, h, side, qty, price)
         IN  /\ g \in Pasts /\ g.floor = h.floor
             /\ g.cash = h.cash + side * Units(price * qty)
             /\ g.flips = h.flips + (IF Flips(p, side, qty) THEN 1 ELSE 0)
             /\ p.qty = 0 \/ Flips(p, side, qty) =>
                  g.low = price /\ g.high = price /\ g.adds = 1 /\ g.takes = 0
             /\ p.qty # 0 /\ Opening(p, side) =>
                  /\ g.low = Lesser(h.low, price) /\ g.high = Greater(h.high, price)
                  /\ g.adds = h.adds + 1 /\ g.takes = h.takes
             /\ ~Opening(p, side) /\ ~Flips(p, side, qty) =>
                  /\ g.low = h.low /\ g.high = h.high /\ g.adds = h.adds
                  /\ g.takes = h.takes + 1
<1>1. /\ h.cash \in Int /\ h.flips \in Nat /\ h.low \in 0..MAX /\ h.high \in 0..MAX
      /\ h.adds \in Nat /\ h.takes \in Nat /\ h.fills \in Nat
  BY FieldsAre
<1>2. PICK cash \in Int : cash = h.cash + side * Units(price * qty)
  <2>1. price \in Nat /\ qty \in Nat
    BY ScaleIs
  <2>2. PICK u \in Int : u = Units(price * qty)
    BY <2>1, NotionalIs
  <2>3. h.cash + side * u \in Int
    BY <1>1, <2>2
  <2> QED
    BY <2>2, <2>3
<1>3. PICK flips \in Nat : flips = h.flips + (IF Flips(p, side, qty) THEN 1 ELSE 0)
  BY <1>1
<1>4. PICK fills \in Nat : fills = h.fills + 1
  BY <1>1
<1>5. PICK told : told = [h EXCEPT !.fills = fills, !.cash = cash, !.flips = flips]
  OBVIOUS
<1>6. /\ told \in Pasts /\ told.cash = cash /\ told.flips = flips /\ told.low = h.low
      /\ told.high = h.high /\ told.adds = h.adds /\ told.takes = h.takes
      /\ told.floor = h.floor
  BY <1>5 DEF Pasts
<1>7. /\ told.low \in 0..MAX /\ told.high \in 0..MAX /\ told.adds \in Nat /\ told.takes \in Nat
  BY <1>1, <1>6
<1>8. Recall(p, h, side, qty, price) =
        IF p.qty = 0 \/ Flips(p, side, qty) THEN Opened(told, price)
        ELSE IF Opening(p, side) THEN Added(told, price)
        ELSE Taken(told)
  <2> DEFINE X == [h EXCEPT !.fills = @ + 1,
                            !.cash  = @ + side * TruncDiv(price * qty, SCALE),
                            !.flips = @ + (IF Flips(p, side, qty) THEN 1 ELSE 0)]
  <2>1. Recall(p, h, side, qty, price) =
          IF p.qty = 0 \/ Flips(p, side, qty) THEN Opened(X, price)
          ELSE IF Opening(p, side) THEN Added(X, price)
          ELSE Taken(X)
    BY Zenon DEF Recall, Flips
  <2>2. told = X
    BY <1>2, <1>3, <1>4, <1>5 DEF Units
  <2> QED
    BY <2>1, <2>2, Zenon
<1>9. PICK g : g = Recall(p, h, side, qty, price)
  OBVIOUS
<1>10. CASE p.qty = 0 \/ Flips(p, side, qty)
  <2>1. g = [told EXCEPT !.low = price, !.high = price, !.adds = 1, !.takes = 0]
    BY <1>8, <1>9, <1>10 DEF Opened
  <2>2. /\ g \in Pasts /\ g.floor = h.floor /\ g.cash = cash /\ g.flips = flips
        /\ g.low = price /\ g.high = price /\ g.adds = 1 /\ g.takes = 0
    BY <1>6, <2>1 DEF Pasts
  <2>3. ~(p.qty # 0 /\ Opening(p, side)) /\ ~(~Opening(p, side) /\ ~Flips(p, side, qty))
    BY <1>10 DEF Flips, Opening
  <2> QED
    BY <1>2, <1>3, <1>9, <1>10, <2>2, <2>3
<1>11. CASE p.qty # 0 /\ Opening(p, side)
  <2>1. ~Flips(p, side, qty)
    BY <1>11 DEF Flips
  <2>2. PICK lo \in 0..MAX, hi \in 0..MAX : lo = Lesser(h.low, price) /\ hi = Greater(h.high, price)
    BY <1>1 DEF Lesser, Greater
  <2>3. PICK adds \in Nat : adds = h.adds + 1
    BY <1>1
  <2>4. g = [told EXCEPT !.low = lo, !.high = hi, !.adds = adds]
    BY <1>6, <1>8, <1>9, <1>11, <2>1, <2>2, <2>3 DEF Added
  <2>5. /\ g \in Pasts /\ g.floor = h.floor /\ g.cash = cash /\ g.flips = flips
        /\ g.low = lo /\ g.high = hi /\ g.adds = adds /\ g.takes = h.takes
    BY <1>6, <2>4 DEF Pasts
  <2> QED
    BY <1>2, <1>3, <1>9, <1>11, <2>1, <2>2, <2>3, <2>5
<1>12. CASE ~Opening(p, side) /\ ~Flips(p, side, qty)
  <2>1. p.qty # 0
    BY <1>12 DEF Opening
  <2>2. PICK takes \in Nat : takes = h.takes + 1
    BY <1>1
  <2>3. g = [told EXCEPT !.takes = takes]
    BY <1>6, <1>8, <1>9, <1>12, <2>1, <2>2 DEF Taken
  <2>4. /\ g \in Pasts /\ g.floor = h.floor /\ g.cash = cash /\ g.flips = flips
        /\ g.low = h.low /\ g.high = h.high /\ g.adds = h.adds /\ g.takes = takes
    BY <1>6, <2>3 DEF Pasts
  <2> QED
    BY <1>2, <1>3, <1>9, <1>12, <2>1, <2>2, <2>4
<1> QED
  BY <1>10, <1>11, <1>12

(* The mark at the floor changes nothing else.                              *)
LEMMA FloorIs ==
  ASSUME NEW h \in Pasts, NEW low \in BOOLEAN
  PROVE  LET g == [h EXCEPT !.floor = @ \/ low]
         IN  /\ g \in Pasts /\ g.floor = (h.floor \/ low)
             /\ g.cash = h.cash /\ g.flips = h.flips /\ g.low = h.low /\ g.high = h.high
             /\ g.adds = h.adds /\ g.takes = h.takes
<1>1. PICK f \in BOOLEAN : f = (h.floor \/ low)
  OBVIOUS
<1>2. PICK g : g = [h EXCEPT !.floor = f]
  OBVIOUS
<1>3. /\ g \in Pasts /\ g.floor = f /\ g.cash = h.cash /\ g.flips = h.flips /\ g.low = h.low
      /\ g.high = h.high /\ g.adds = h.adds /\ g.takes = h.takes
  BY <1>2 DEF Pasts
<1>4. g = [h EXCEPT !.floor = @ \/ low]
  BY <1>1, <1>2
<1> QED
  BY <1>1, <1>3, <1>4

-----------------------------------------------------------------------------
(* The projector's twin.  A product that fits is the book's.                *)
LEMMA GoMulIs ==
  ASSUME NEW price, NEW qty, Units(price * qty) \in Raw
  PROVE  GoMul(price, qty) = Units(price * qty)
<1>1. SCALE # 0
  BY ScaleIs
<1>2. GoMul(price, qty) = Saturate(Units(price * qty))
  BY <1>1 DEF GoMul, GoMulDiv, Units
<1> QED
  BY <1>2, KeptByGo

(* Above the floor a magnitude fits in both.                                *)
LEMMA GoAbsIs ==
  ASSUME NEW n \in Raw, n # MIN
  PROVE  GoAbs(n) = Abs(n)
<1>1. PICK a : a = IF n < 0 THEN -n ELSE n
  OBVIOUS
<1>2. a \in Raw /\ a = Abs(n)
  BY <1>1, AbsIs, ScaleIs, RawIs DEF Raw
<1> QED
  BY <1>1, <1>2, KeptByGo DEF GoAbs

(* The share of the basis is the same one.                                  *)
LEMMA GoSliceIs ==
  ASSUME NEW p \in Books, p.qty # 0, Above(p), NEW qty \in 1..MAX, NEW c, c = Closing(p, qty)
  PROVE  GoSliceOfBasis(p, c, Abs(p.qty)) = Closed(p, c)
<1>1. PICK held : held = Abs(p.qty) /\ held # 0
  BY ClosedIs, ScaleIs
<1>2. PICK k : k = Closed(p, c)
  OBVIOUS
<1>3. k \in Raw
  <2>1. k \in 0..Abs(p.cost_basis) /\ Abs(p.cost_basis) \in 0..MAX
    BY <1>2, ClosedIs
  <2> QED
    BY <2>1, ScaleIs DEF Raw
<1>4. GoAbs(p.cost_basis) = Abs(p.cost_basis)
  BY FieldsAre, GoAbsIs DEF Above
<1>5. CASE c = held
  BY <1>1, <1>2, <1>4, <1>5 DEF GoSliceOfBasis, Closed
<1>6. CASE c # held
  <2>1. k = TruncDiv(Abs(p.cost_basis) * c, held)
    BY <1>1, <1>2, <1>6 DEF Closed
  <2>2. GoSliceOfBasis(p, c, held) = Saturate(k)
    BY <1>1, <1>4, <1>6, <2>1 DEF GoSliceOfBasis, GoMulDiv
  <2> QED
    BY <1>1, <1>2, <1>3, <2>2, KeptByGo
<1> QED
  BY <1>5, <1>6

(* Positions with the same numbers are the same.                            *)
LEMMA SameBook ==
  ASSUME NEW p \in Books, NEW q \in Books, p.qty = q.qty, p.cost_basis = q.cost_basis,
         p.realized = q.realized
  PROVE  p = q
  BY DEF Books

(* A fill that the book folds is folded by the projector to the same        *)
(* position.                                                                *)
LEMMA GoAgrees ==
  ASSUME NEW p \in Books, Above(p), NEW side \in {1, -1}, NEW qty \in 1..MAX,
         NEW price \in 0..MAX, apply_fill(p, side, qty, price) # Refused
  PROVE  GoApplyFill(p, side, qty, price) = apply_fill(p, side, qty, price)
<1>1. p.qty \in Raw /\ p.cost_basis \in Raw /\ p.qty \in Int
  BY FieldsAre
<1>2. \A n \in 0..MAX : n \in Raw /\ n \in Int
  BY ScaleIs DEF Raw
<1>3. CASE Opening(p, side)
  <2>1. PICK next \in Books :
          next = apply_fill(p, side, qty, price) /\ next = Open(p, side, qty, price)
    BY <1>3, OpenIs DEF apply_fill
  <2>2. /\ Units(price * qty) \in 0..MAX /\ next.qty = p.qty + side * qty
        /\ next.cost_basis = p.cost_basis + side * Units(price * qty)
        /\ next.realized = p.realized
    BY <1>3, <2>1, OpenIs DEF apply_fill
  <2>3. GoMul(price, qty) = Units(price * qty)
    BY <1>2, <2>2, GoMulIs
  <2>4. GoWrap(next.qty) = next.qty /\ GoWrap(next.cost_basis) = next.cost_basis
    BY FieldsAre, KeptByGo
  <2>5. GoApplyFill(p, side, qty, price)
          = [p EXCEPT !.qty = next.qty, !.cost_basis = next.cost_basis]
    BY <1>3, <2>2, <2>3, <2>4 DEF GoApplyFill
  <2>6. next.qty \in Raw /\ next.cost_basis \in Raw
    BY FieldsAre
  <2>7. PICK q : q = [p EXCEPT !.qty = next.qty, !.cost_basis = next.cost_basis]
    OBVIOUS
  <2>8. /\ q \in Books /\ q.qty = next.qty /\ q.cost_basis = next.cost_basis
        /\ q.realized = p.realized
    BY <2>6, <2>7 DEF Books
  <2>9. q = next
    BY <2>2, <2>8, SameBook
  <2> QED
    BY <2>1, <2>5, <2>7, <2>9
<1>4. CASE ~Opening(p, side)
  <2>1. p.qty # 0
    BY <1>4 DEF Opening
  <2>2. PICK c \in 1..MAX : c = Closing(p, qty) /\ c <= qty
    BY <2>1, ClosedIs
  <2>3. PICK next : next = Reduce(p, side, qty, price)
    OBVIOUS
  <2>4. next = apply_fill(p, side, qty, price) /\ next # Refused
    BY <1>4, <2>3 DEF apply_fill
  <2>5. PICK rest : rest = Close(p, c, Abs(p.qty), price)
    OBVIOUS
  <2>6. /\ next \in Books /\ Remains(p, c, price, rest)
        /\ qty = c => next = rest
        /\ qty > c => /\ next.qty = side * (qty - c)
                      /\ next.cost_basis = side * Units(price * (qty - c))
                      /\ next.realized = rest.realized
                      /\ Units(price * (qty - c)) \in 0..MAX
    <3>1. Reduced(p, side, qty, price, c, rest, next)
      BY <2>1, <2>2, <2>3, <2>4, <2>5, ReduceIs
    <3> QED
      BY <3>1 DEF Reduced
  <2>7. PICK d, k, f : /\ d = Dir(p) /\ k = Closed(p, c) /\ f = qty - c
    OBVIOUS
  <2>8. f \in 0..MAX /\ f \in Int /\ f \in Raw /\ (f > 0 <=> qty > c) /\ (~(f > 0) => qty = c)
    BY <2>2, <2>7, ScaleIs DEF Raw
  <2>9. /\ rest \in Books /\ rest.qty = p.qty - d * c
        /\ rest.cost_basis = IF rest.qty = 0 THEN 0 ELSE p.cost_basis - d * k
        /\ rest.realized = p.realized + d * (Units(price * c) - k)
        /\ Units(price * c) \in 0..MAX /\ Units(price * c) - k \in Raw
        /\ p.cost_basis - d * k \in Raw
    BY <2>6, <2>7 DEF Remains, Gross, Base
  <2>10. GoAbs(p.qty) = Abs(p.qty) /\ Lesser(qty, Abs(p.qty)) = c
    BY <1>1, <2>2, GoAbsIs DEF Above, Closing
  <2>11. GoSliceOfBasis(p, c, Abs(p.qty)) = k
    BY <2>1, <2>2, <2>7, GoSliceIs
  <2>12. (IF p.qty < 0 THEN -1 ELSE 1) = d
    BY <1>1, <2>1, <2>7 DEF Dir
  <2>13. GoWrap(p.qty - d * c) = rest.qty
    BY <2>9, FieldsAre, KeptByGo
  <2>14. GoWrap(p.cost_basis - d * k) = p.cost_basis - d * k
    BY <2>9, KeptByGo
  <2>15. GoWrap(qty - c) = f
    BY <2>7, <2>8, KeptByGo
  <2>16. GoMul(price, c) = Units(price * c)
    BY <1>2, <2>9, GoMulIs
  <2>17. GoWrap(p.realized + d * GoWrap(GoMul(price, c) - k)) = rest.realized
    <3>1. GoWrap(GoMul(price, c) - k) = Units(price * c) - k
      BY <2>9, <2>16, KeptByGo
    <3> QED
      BY <2>9, <3>1, FieldsAre, KeptByGo
  <2>18. GoApplyFill(p, side, qty, price)
           = [qty        |-> IF f > 0 THEN side * f ELSE rest.qty,
              cost_basis |-> IF f > 0 THEN side * GoMul(price, f)
                             ELSE IF rest.qty = 0 THEN 0 ELSE p.cost_basis - d * k,
              realized   |-> rest.realized]
    BY <1>4, <2>10, <2>11, <2>12, <2>13, <2>14, <2>15, <2>17 DEF GoApplyFill
  <2>19. CASE f > 0
    <3>1. GoMul(price, f) = Units(price * f)
      BY <1>2, <2>6, <2>7, <2>8, <2>19, GoMulIs
    <3>2. GoApplyFill(p, side, qty, price)
            = [qty |-> next.qty, cost_basis |-> next.cost_basis, realized |-> next.realized]
      BY <2>6, <2>7, <2>8, <2>18, <2>19, <3>1
    <3>3. next = [qty |-> next.qty, cost_basis |-> next.cost_basis, realized |-> next.realized]
      BY <2>6 DEF Books
    <3> QED
      BY <2>4, <3>2, <3>3
  <2>20. CASE ~(f > 0)
    <3>1. next = rest
      BY <2>6, <2>8, <2>20
    <3>2. GoApplyFill(p, side, qty, price)
            = [qty |-> rest.qty, cost_basis |-> rest.cost_basis, realized |-> rest.realized]
      BY <2>9, <2>18, <2>20
    <3>3. rest = [qty |-> rest.qty, cost_basis |-> rest.cost_basis, realized |-> rest.realized]
      BY <2>9 DEF Books
    <3> QED
      BY <2>4, <3>1, <3>2, <3>3
  <2> QED
    BY <2>19, <2>20
<1> QED
  BY <1>3, <1>4

-----------------------------------------------------------------------------
(* Above the floor the magnitudes are exact.                                *)
LEMMA MagnitudesAre ==
  ASSUME NEW p \in Books, Above(p)
  PROVE  /\ Abs(p.qty) = Size(p) /\ Abs(p.cost_basis) = Basis(p)
         /\ Size(p) \in Nat /\ Basis(p) \in Nat
         /\ p.qty # 0 => Size(p) > 0
         /\ p.qty # 0 /\ RightSide(p) =>
              p.cost_basis = Dir(p) * Basis(p) /\ p.qty = Dir(p) * Size(p)
         /\ p.qty = 0 => Size(p) = 0
         /\ p.cost_basis = 0 => Basis(p) = 0
<1>1. p.qty \in Raw /\ p.cost_basis \in Raw /\ p.qty \in Int /\ p.cost_basis \in Int
  BY FieldsAre
<1>2. Abs(p.qty) = Size(p) /\ Abs(p.cost_basis) = Basis(p)
  BY <1>1, AbsIs DEF Above, Size, Basis
<1>3. Size(p) \in Nat /\ Basis(p) \in Nat
  BY <1>1 DEF Size, Basis
<1>4. /\ p.qty # 0 => Size(p) > 0 /\ p.qty = Dir(p) * Size(p)
      /\ p.qty = 0 => Size(p) = 0
      /\ p.cost_basis = 0 => Basis(p) = 0
  BY <1>1 DEF Size, Basis, Dir
<1>5. p.qty # 0 /\ RightSide(p) => p.cost_basis = Dir(p) * Basis(p)
  BY <1>1 DEF RightSide, Basis, Dir
<1> QED
  BY <1>2, <1>3, <1>4, <1>5

(* A position that is judged: its money and its rounding are as they must.  *)
Judged(p, h) == Balanced(p, h) /\ (p.qty # 0 => Within(Basis(p), Size(p), h))

(* A fill that opens or adds.                                               *)
LEMMA OpenKeeps ==
  ASSUME NEW p \in Books, RightSide(p), NEW h \in Pasts, NEW side \in {1, -1}, NEW qty \in 1..MAX,
         NEW price \in 0..MAX, Opening(p, side), Open(p, side, qty, price) # Refused,
         NEW next, next = Open(p, side, qty, price),
         NEW g, g = Recall(p, h, side, qty, price)
  PROVE  /\ next \in Books /\ RightSide(next)
         /\ Above(p) /\ Judged(p, h) => Judged(next, g)
<1>1. PICK u : u = Units(price * qty)
  OBVIOUS
<1>2. /\ next \in Books /\ u \in 0..MAX /\ next.qty = p.qty + side * qty
      /\ next.cost_basis = p.cost_basis + side * u /\ next.realized = p.realized
  BY <1>1, OpenIs
<1>3. u \in Nat /\ u \in Int /\ price \in Nat /\ qty \in Nat
  BY <1>2, ScaleIs
<1>4. RightSide(next) /\ next.qty # 0 /\ Size(next) = Size(p) + qty /\ Basis(next) = Basis(p) + u
  BY <1>2, OpenSigned
<1>5. ~Flips(p, side, qty)
  BY DEF Flips
<1>6. /\ g \in Pasts /\ g.cash = h.cash + side * u /\ g.flips = h.flips
      /\ p.qty = 0 => g.low = price /\ g.high = price /\ g.adds = 1 /\ g.takes = 0
      /\ p.qty # 0 => /\ g.low = Lesser(h.low, price) /\ g.high = Greater(h.high, price)
                      /\ g.adds = h.adds + 1 /\ g.takes = h.takes
  <2>1. h.flips \in Nat
    BY FieldsAre
  <2> QED
    BY <1>1, <1>5, <2>1, RecallIs
<1>7. ASSUME Balanced(p, h) PROVE Balanced(next, g)
  <2>1. /\ p.realized \in Int /\ p.cost_basis \in Int /\ h.cash \in Int /\ h.flips \in Int
    BY FieldsAre
  <2>2. PICK m \in Int : m = side * u
    BY <1>3
  <2>3. p.realized - p.cost_basis + h.cash = p.realized - (p.cost_basis + m) + (h.cash + m)
    BY <2>1, <2>2
  <2> QED
    BY <1>2, <1>6, <1>7, <2>2, <2>3 DEF Balanced
<1>8. ASSUME Above(p), p.qty # 0 => Within(Basis(p), Size(p), h)
      PROVE  Within(Basis(next), Size(next), g)
  <2>1. Size(p) \in Nat /\ Basis(p) \in Nat
    BY <1>8, MagnitudesAre
  <2>2. CASE p.qty = 0
    <3>1. Size(p) = 0 /\ Basis(p) = 0
      BY <1>8, <2>2, MagnitudesAre DEF RightSide
    <3>2. Size(next) = qty /\ Basis(next) = u
      BY <1>3, <1>4, <3>1
    <3>3. Within(Units(price * qty), qty, g)
      BY <1>3, <1>6, <2>2, OpenWithin
    <3> QED
      BY <1>1, <3>2, <3>3
  <2>3. CASE p.qty # 0
    <3>1. Within(Basis(p) + Units(price * qty), Size(p) + qty, g)
      BY <1>3, <1>6, <1>8, <2>1, <2>3, AddWithin
    <3> QED
      BY <1>1, <1>4, <3>1
  <2> QED
    BY <2>2, <2>3
<1> QED
  BY <1>2, <1>4, <1>7, <1>8 DEF Judged

(* A fill that takes from the position, or closes it.                       *)
LEMMA TakeKeeps ==
  ASSUME NEW p \in Books, RightSide(p), NEW h \in Pasts, NEW side \in {1, -1}, NEW qty \in 1..MAX,
         NEW price \in 0..MAX, ~Opening(p, side), ~Flips(p, side, qty), qty = Closing(p, qty),
         NEW next, Remains(p, qty, price, next),
         NEW g, g = Recall(p, h, side, qty, price)
  PROVE  /\ next \in Books /\ RightSide(next)
         /\ Above(p) /\ Judged(p, h) => Judged(next, g)
<1>1. PICK d \in {1, -1} : d = Dir(p) /\ d = -side /\ p.qty # 0
  BY OtherSide DEF Dir
<1>2. PICK u, k : u = Units(price * qty) /\ k = Closed(p, qty)
  OBVIOUS
<1>3. /\ next \in Books /\ next.qty = p.qty - d * qty
      /\ next.cost_basis = IF next.qty = 0 THEN 0 ELSE p.cost_basis - d * k
      /\ next.realized = p.realized + d * (u - k)
      /\ u \in 0..MAX
  BY <1>1, <1>2 DEF Remains, Base, Gross
<1>4. /\ Abs(p.qty) \in 1..MAX /\ Abs(p.cost_basis) \in 0..MAX /\ qty <= Abs(p.qty)
      /\ k \in 0..Abs(p.cost_basis)
  BY <1>1, <1>2, ClosedIs
<1>5. u \in Int /\ k \in Int /\ qty \in Nat /\ price \in Nat
  BY <1>3, <1>4, ScaleIs
<1>6. /\ RightSide(next)
      /\ Above(p) /\ next.qty # 0 => Size(next) = Size(p) - qty /\ Basis(next) = Basis(p) - k
  BY <1>1, <1>2, TakeSigned
<1>7. /\ g \in Pasts /\ g.cash = h.cash + side * u /\ g.flips = h.flips
      /\ g.low = h.low /\ g.high = h.high /\ g.adds = h.adds /\ g.takes = h.takes + 1
  <2>1. h.flips \in Nat
    BY FieldsAre
  <2> QED
    BY <1>1, <1>2, <2>1, RecallIs
<1>8. ASSUME Above(p) PROVE next.cost_basis = p.cost_basis - d * k
  <2>1. CASE next.qty # 0
    BY <1>3, <2>1
  <2>2. CASE next.qty = 0
    <3>1. PICK s \in Nat, b \in Nat : /\ s = Size(p) /\ b = Basis(p)
                                      /\ p.qty = d * s /\ p.cost_basis = d * b
                                      /\ Abs(p.qty) = s /\ Abs(p.cost_basis) = b
      BY <1>1, <1>8, MagnitudesAre
    <3>2. qty = s
      BY <1>1, <1>3, <1>5, <2>2, <3>1
    <3>3. k = b
      BY <1>2, <3>1, <3>2 DEF Closed
    <3>4. d * b - d * k = 0
      BY <1>5, <3>3
    <3> QED
      BY <1>3, <2>2, <3>1, <3>4
  <2> QED
    BY <2>1, <2>2
<1>9. ASSUME Above(p), Balanced(p, h) PROVE Balanced(next, g)
  <2>1. /\ p.realized \in Int /\ p.cost_basis \in Int /\ h.cash \in Int /\ h.flips \in Int
    BY FieldsAre
  <2>2. (p.realized + d * (u - k)) - (p.cost_basis - d * k) + (h.cash + side * u)
          = p.realized - p.cost_basis + h.cash
    BY <1>1, <1>5, <2>1
  <2> QED
    BY <1>3, <1>7, <1>8, <1>9, <2>2 DEF Balanced
<1>10. ASSUME Above(p), Within(Basis(p), Size(p), h), next.qty # 0
       PROVE  Within(Basis(next), Size(next), g)
  <2>1. PICK s \in Nat, b \in Nat : /\ s = Size(p) /\ b = Basis(p) /\ p.qty = d * s
                                    /\ Abs(p.qty) = s /\ Abs(p.cost_basis) = b
    BY <1>1, <1>10, MagnitudesAre
  <2>2. qty < s
    <3>1. qty # s
      BY <1>1, <1>3, <1>5, <1>10, <2>1
    <3> QED
      BY <1>4, <1>5, <2>1, <3>1
  <2>3. k = TruncDiv(b * qty, s)
    BY <1>2, <1>5, <2>1, <2>2 DEF Closed
  <2>4. Within(b - TruncDiv(b * qty, s), s - qty, g)
    BY <1>5, <1>7, <1>10, <2>1, <2>2, TakeWithin
  <2> QED
    BY <1>6, <1>10, <2>1, <2>3, <2>4
<1> QED
  BY <1>1, <1>3, <1>6, <1>9, <1>10 DEF Judged

(* A fill that turns the position over.                                     *)
LEMMA FlipKeeps ==
  ASSUME NEW p \in Books, RightSide(p), NEW h \in Pasts, NEW side \in {1, -1}, NEW qty \in 1..MAX,
         NEW price \in 0..MAX, ~Opening(p, side), Flips(p, side, qty),
         NEW c, c = Closing(p, qty), c < qty,
         NEW rest, NEW next, Reduced(p, side, qty, price, c, rest, next),
         NEW g, g = Recall(p, h, side, qty, price)
  PROVE  /\ next \in Books /\ RightSide(next)
         /\ Above(p) /\ Judged(p, h) => Judged(next, g)
<1>1. PICK d \in {1, -1} : d = Dir(p) /\ d = -side /\ p.qty # 0
  BY OtherSide DEF Dir
<1>2. c \in 1..MAX /\ c \in Nat /\ qty \in Nat /\ price \in Nat
  BY <1>1, ClosedIs, ScaleIs
<1>3. PICK more \in Nat : more = qty - c /\ more > 0
  BY <1>2
<1>4. PICK u \in Nat, v \in Nat, w \in Nat :
         u = Units(price * c) /\ v = Units(price * more) /\ w = Units(price * qty)
  BY <1>2, NotionalIs
<1>5. PICK k : k = Closed(p, c)
  OBVIOUS
<1>6. /\ next \in Books /\ next.qty = side * more /\ next.cost_basis = side * v
      /\ next.realized = rest.realized /\ c = Abs(p.qty) /\ Remains(p, c, price, rest)
  BY <1>2, <1>3, <1>4 DEF Reduced
<1>7. rest.realized = p.realized + d * (u - k)
  BY <1>1, <1>4, <1>5, <1>6 DEF Remains, Gross
<1>8. RightSide(next) /\ next.qty # 0 /\ Size(next) = more /\ Basis(next) = v
  BY <1>3, <1>6, FlipSigned
<1>9. /\ g \in Pasts /\ g.cash = h.cash + side * w /\ g.flips = h.flips + 1
      /\ g.low = price /\ g.high = price /\ g.adds = 1 /\ g.takes = 0
  BY <1>4, RecallIs
<1>10. w - u - v \in {0, 1}
  <2>1. PICK m \in Nat, n \in Nat : m = price * c /\ n = price * more
    BY <1>2
  <2>2. m + n = price * qty
    BY <1>2, <1>3, <2>1
  <2>3. Units(m + n) - Units(m) - Units(n) \in {0, 1}
    BY TruncSplit
  <2> QED
    BY <1>4, <2>1, <2>2, <2>3
<1>11. ASSUME Above(p), Balanced(p, h) PROVE Balanced(next, g)
  <2>1. PICK b \in Nat : b = Basis(p) /\ p.cost_basis = d * b /\ Abs(p.cost_basis) = b
    BY <1>1, <1>11, MagnitudesAre
  <2>2. k = b
    BY <1>5, <1>6, <2>1 DEF Closed
  <2>3. PICK r \in Int, m \in Int, f \in Nat : r = p.realized /\ m = h.cash /\ f = h.flips
    BY FieldsAre
  <2>4. r - d * b + m \in -f .. f
    BY <1>11, <2>1, <2>3 DEF Balanced
  <2>5. (r + d * (u - k)) - side * v + (m + side * w) = (r - d * b + m) + side * (w - u - v)
    BY <1>1, <2>2
  <2>6. side * (w - u - v) \in -1 .. 1
    BY <1>10
  <2>7. (r - d * b + m) + side * (w - u - v) \in -(f + 1) .. (f + 1)
    <3>1. PICK x \in Int, y \in Int : x = r - d * b + m /\ y = side * (w - u - v)
      BY <1>1
    <3> QED
      BY <2>4, <2>6, <3>1
  <2> QED
    BY <1>6, <1>7, <1>9, <2>3, <2>5, <2>7 DEF Balanced
<1>12. Within(Basis(next), Size(next), g)
  BY <1>2, <1>3, <1>4, <1>8, <1>9, OpenWithin
<1> QED
  BY <1>6, <1>8, <1>11, <1>12 DEF Judged

(* Any fill that is not refused.                                            *)
LEMMA FillKeeps ==
  ASSUME NEW p \in Books, RightSide(p), NEW h \in Pasts, NEW side \in {1, -1}, NEW qty \in 1..MAX,
         NEW price \in 0..MAX, apply_fill(p, side, qty, price) # Refused,
         NEW next, next = apply_fill(p, side, qty, price),
         NEW g, g = Recall(p, h, side, qty, price)
  PROVE  /\ next \in Books /\ RightSide(next) /\ g \in Pasts /\ g.floor = h.floor
         /\ Above(p) /\ Judged(p, h) => Judged(next, g)
<1>1. g \in Pasts /\ g.floor = h.floor
  BY RecallIs
<1>2. CASE Opening(p, side)
  <2>1. next = Open(p, side, qty, price)
    BY <1>2 DEF apply_fill
  <2> QED
    BY <1>1, <1>2, <2>1, OpenKeeps
<1>3. CASE ~Opening(p, side)
  <2>1. p.qty # 0
    BY <1>3 DEF Opening
  <2>2. next = Reduce(p, side, qty, price)
    BY <1>3 DEF apply_fill
  <2>3. PICK c : c = Closing(p, qty)
    OBVIOUS
  <2>4. PICK rest : rest = Close(p, c, Abs(p.qty), price)
    OBVIOUS
  <2>5. Reduced(p, side, qty, price, c, rest, next)
    BY <2>1, <2>2, <2>3, <2>4, ReduceIs
  <2>6. c \in Nat /\ qty \in Nat /\ c <= qty /\ Abs(p.qty) \in Nat /\ c <= Abs(p.qty)
        /\ (c < qty => c = Abs(p.qty))
    BY <2>1, <2>3, ClosedIs, ScaleIs
  <2>7. CASE c < qty
    <3>1. Flips(p, side, qty)
      BY <1>3, <2>6, <2>7 DEF Flips
    <3> QED
      BY <1>1, <1>3, <2>3, <2>5, <2>7, <3>1, FlipKeeps
  <2>8. CASE c = qty
    <3>1. ~Flips(p, side, qty)
      BY <2>6, <2>8 DEF Flips
    <3>2. Remains(p, qty, price, next)
      BY <2>5, <2>8 DEF Reduced
    <3>3. qty = Closing(p, qty)
      BY <2>3, <2>8
    <3>4. /\ next \in Books /\ RightSide(next)
          /\ Above(p) /\ Judged(p, h) => Judged(next, g)
      BY <1>3, <3>1, <3>2, <3>3, TakeKeeps, SMTT(30)
    <3> QED
      BY <1>1, <3>4
  <2>9. c < qty \/ c = qty
    BY <2>6
  <2> QED
    BY <2>7, <2>8, <2>9
<1> QED
  BY <1>2, <1>3

(* The position's inductive invariant: until a number stands at MIN, its    *)
(* twin is the same and its money and its rounding are in order; its basis  *)
(* is on its own side always.                                               *)
BookInv ==
  /\ pos \in Books /\ past \in Pasts /\ RightSide(pos)
  /\ ~past.floor => proj = pos /\ Above(pos) /\ Judged(pos, past)

(* Folding a fill keeps it.                                                 *)
LEMMA FoldKeeps ==
  ASSUME BookInv, NEW side \in {1, -1}, NEW qty \in Qtys, NEW price \in Prices,
         FoldFill(side, qty, price)
  PROVE  BookInv'
<1>1. qty \in 1..MAX /\ price \in 0..MAX
  BY FillAssumption
<1>2. PICK p \in Books, h \in Pasts : p = pos /\ h = past
  BY DEF BookInv
<1>3. RightSide(p) /\ (~h.floor => proj = p /\ Above(p) /\ Judged(p, h))
  BY <1>2 DEF BookInv
<1>4. PICK next : next = apply_fill(p, side, qty, price)
  OBVIOUS
<1>5. CASE next = Refused
  <2>1. UNCHANGED <<pos, proj, past>>
    BY <1>2, <1>4, <1>5 DEF FoldFill
  <2>2. pos' = p /\ past' = h /\ proj' = proj
    BY <1>2, <2>1
  <2> QED
    BY <1>3, <2>2 DEF BookInv
<1>6. CASE next # Refused
  <2>1. PICK g : g = Recall(p, h, side, qty, price)
    OBVIOUS
  <2>2. PICK low \in BOOLEAN : low = (MIN \in {next.qty, next.cost_basis})
    <3>1. CASE MIN \in {next.qty, next.cost_basis}
      <4>1. TRUE = (MIN \in {next.qty, next.cost_basis})
        BY <3>1
      <4> QED
        BY <4>1, Zenon
    <3>2. CASE MIN \notin {next.qty, next.cost_basis}
      <4>1. FALSE = (MIN \in {next.qty, next.cost_basis})
        BY <3>2
      <4> QED
        BY <4>1, Zenon
    <3> QED
      BY <3>1, <3>2
  <2>3. /\ pos' = next /\ proj' = GoApplyFill(proj, side, qty, price)
        /\ past' = [g EXCEPT !.floor = @ \/ low]
    BY <1>2, <1>4, <1>6, <2>1, <2>2 DEF FoldFill
  <2>4. /\ next \in Books /\ RightSide(next) /\ g \in Pasts /\ g.floor = h.floor
        /\ Above(p) /\ Judged(p, h) => Judged(next, g)
    BY <1>1, <1>3, <1>4, <1>6, <2>1, FillKeeps
  <2>5. PICK e \in Pasts : /\ e = past' /\ e.floor = (g.floor \/ low)
                           /\ e.cash = g.cash /\ e.flips = g.flips /\ e.low = g.low
                           /\ e.high = g.high /\ e.adds = g.adds /\ e.takes = g.takes
    BY <2>3, <2>4, FloorIs
  <2>6. ASSUME ~e.floor PROVE proj' = next /\ Above(next) /\ Judged(next, e)
    <3>1. ~h.floor /\ ~low
      BY <2>4, <2>5, <2>6
    <3>2. Above(next)
      BY <2>2, <3>1 DEF Above
    <3>3. proj = p /\ Above(p) /\ Judged(p, h)
      BY <1>3, <3>1
    <3>4. proj' = next
      BY <1>1, <1>4, <1>6, <2>3, <3>3, GoAgrees
    <3>5. Judged(next, g)
      BY <2>4, <3>3
    <3>6. Judged(next, e)
      BY <2>5, <3>5 DEF Judged, Balanced, Within
    <3> QED
      BY <3>2, <3>4, <3>6
  <2>7. pos' = next /\ past' = e
    BY <2>3, <2>5
  <2> QED
    BY <2>4, <2>6, <2>7 DEF BookInv
<1> QED
  BY <1>5, <1>6

(* A flat position with no past.                                            *)
LEMMA BookStarts ==
  ASSUME PositionInit
  PROVE  BookInv
<1>1. pos = Flat /\ proj = Flat /\ past = NoPast
  BY DEF PositionInit
<1>2. 0 \in Raw /\ MIN # 0 /\ 0 \in 0..MAX
  BY ScaleIs DEF Raw
<1>3. pos \in Books /\ pos.qty = 0 /\ pos.cost_basis = 0 /\ pos.realized = 0
  BY <1>1, <1>2 DEF Flat, Books
<1>4. past \in Pasts /\ past.cash = 0 /\ past.flips = 0
  BY <1>1, <1>2 DEF NoPast, Pasts
<1>5. Balanced(pos, past)
  BY <1>3, <1>4 DEF Balanced
<1> QED
  BY <1>1, <1>2, <1>3, <1>4, <1>5 DEF BookInv, RightSide, Above, Judged

(* The invariant holds of every behaviour.                                  *)
LEMMA BookInvHolds == Spec => []BookInv
<1>1. Init => BookInv
  BY BookStarts DEF Init
<1>2. BookInv /\ [Next]_vars => BookInv'
  <2> SUFFICES ASSUME BookInv, [Next]_vars
               PROVE  BookInv'
    OBVIOUS
  <2>1. CASE PositionNext
    BY <2>1, FoldKeeps DEF PositionNext
  <2>2. CASE UNCHANGED posVars
    BY <2>2 DEF BookInv, posVars
  <2>3. PositionNext \/ UNCHANGED posVars
    BY DEF Next, vars
  <2> QED
    BY <2>1, <2>2, <2>3
<1> QED
  BY <1>1, <1>2, PTL DEF Spec

(* No money appears or disappears: the partial close, the exact close and   *)
(* the flip of position.rs book their profit against the basis they take    *)
(* out, for any sequence of fills.                                          *)
THEOREM MoneyIsConserved == Spec => []MoneyConserved
<1>1. BookInv => MoneyConserved
  <2> SUFFICES ASSUME BookInv, NEW mark \in Prices, ~past.floor,
                      Notional(mark, pos.qty) # Refused,
                      CheckedSub(Notional(mark, pos.qty), pos.cost_basis) # Refused
               PROVE  (pos.realized + unrealized(pos, mark))
                        - (Notional(mark, pos.qty) - past.cash) \in -past.flips .. past.flips
    BY DEF MoneyConserved
  <2>1. PICK p \in Books, h \in Pasts : p = pos /\ h = past
    BY DEF BookInv
  <2>2. Balanced(p, h) /\ RightSide(p)
    BY <2>1 DEF BookInv, Judged
  <2>3. PICK value : value = Notional(mark, p.qty)
    OBVIOUS
  <2>4. /\ p.qty \in Int /\ p.cost_basis \in Int /\ p.realized \in Int /\ h.cash \in Int
        /\ h.flips \in Nat
    BY FieldsAre
  <2>5. mark \in Nat
    BY FillAssumption, ScaleIs
  <2>6. Units(mark * p.qty) \in Int /\ (p.qty = 0 => Units(mark * p.qty) = 0)
    <3>1. CASE p.qty >= 0
      <4>1. PICK n \in Nat : n = mark * p.qty
        BY <2>4, <2>5, <3>1
      <4>2. Units(n) \in Nat /\ SCALE * Units(n) <= n /\ n < SCALE * Units(n) + SCALE
        BY UnitsAre
      <4>3. ASSUME p.qty = 0 PROVE Units(n) = 0
        <5>1. PICK S \in Nat, t \in Nat : S = SCALE /\ S > 0 /\ t = Units(n)
          BY <4>2, ScaleIs
        <5>2. n = 0
          BY <2>5, <4>1, <4>3
        <5>3. S * t <= S * 0
          BY <4>2, <5>1, <5>2
        <5> QED
          BY <5>1, <5>3, MulCancel
      <4> QED
        BY <4>1, <4>2, <4>3
    <3>2. CASE p.qty < 0
      <4>1. PICK n \in Nat : n = mark * (-p.qty)
        BY <2>4, <2>5, <3>2
      <4>2. mark * p.qty = -n
        BY <2>4, <2>5, <4>1
      <4>3. Units(n) \in Nat /\ Units(-n) = -Units(n)
        BY UnitsAre
      <4> QED
        BY <3>2, <4>2, <4>3
    <3> QED
      BY <2>4, <3>1, <3>2
  <2>7. value \in Int /\ (p.qty = 0 => value = 0)
    <3>1. value = Fit(Units(mark * p.qty)) /\ value # Refused
      BY <2>1, <2>3 DEF Notional, Units
    <3> QED
      BY <2>6, <3>1, FitIs
  <2>8. CheckedSub(value, p.cost_basis) = value - p.cost_basis
    <3>1. value - p.cost_basis \in Int /\ CheckedSub(value, p.cost_basis) # Refused
      BY <2>1, <2>3, <2>4, <2>7
    <3> QED
      BY <3>1, FitIs DEF CheckedSub
  <2>9. unrealized(p, mark) = value - p.cost_basis
    <3>1. value # Refused /\ value - p.cost_basis # Refused
      BY <2>4, <2>7, ScaleIs
    <3>2. CASE p.qty = 0
      <4>1. p.cost_basis = 0
        BY <2>2, <3>2 DEF RightSide
      <4> QED
        BY <2>7, <3>2, <4>1 DEF unrealized
    <3>3. CASE p.qty # 0
      BY <2>3, <2>8, <3>1, <3>3 DEF unrealized
    <3> QED
      BY <3>2, <3>3
  <2>10. (p.realized + (value - p.cost_basis)) - (value - h.cash)
           = p.realized - p.cost_basis + h.cash
    BY <2>4, <2>7
  <2> QED
    BY <2>1, <2>2, <2>3, <2>9, <2>10 DEF Balanced
<1> QED
  BY <1>1, BookInvHolds, PTL

(* The basis has the direction of the position and a flat position has      *)
(* none, at both ends of the range too.                                     *)
THEOREM BasisIsSigned == Spec => []BasisFollowsSize
<1>1. BookInv => BasisFollowsSize
  BY DEF BookInv, RightSide, BasisFollowsSize
<1> QED
  BY <1>1, BookInvHolds, PTL

(* Rounding does not compound, whatever is added and taken.                 *)
THEOREM RoundingStaysBounded == Spec => []RoundingIsBounded
<1>1. BookInv => RoundingIsBounded
  BY DEF BookInv, Judged, Within, Basis, Size, RoundingIsBounded
<1> QED
  BY <1>1, BookInvHolds, PTL

(* The projector's arithmetic, which wraps and saturates where the book's   *)
(* refuses, gives the book's position for every fill the book could fold.   *)
THEOREM TwinsAgree == Spec => []ProjectionAgrees
<1>1. BookInv => ProjectionAgrees
  BY DEF BookInv, ProjectionAgrees
<1> QED
  BY <1>1, BookInvHolds, PTL

-----------------------------------------------------------------------------
(* The trailing stop.                                                       *)

Quotes == [price: Raw, dist: Raw]

(* w is the best of the first i marks of s.                                 *)
Best(long, s, i, w) ==
  /\ \E k \in 1..i : w = s[k].price
  /\ \A k \in 1..i : IF long THEN w >= s[k].price ELSE w <= s[k].price

(* Where the stop is due, the distance behind the best mark or the entry.   *)
DueAt(long, entry, w, dist) ==
  IF long THEN SaturatingSub(Greater(entry, w), dist)
          ELSE SaturatingAdd(Lesser(entry, w), dist)

Tighter(long, a, b) == IF long THEN a >= b ELSE a <= b

(* The stop was due at some mark, and at none was a tighter one due.        *)
Tightest(long, entry, s, stop) ==
  /\ \E i \in 1..Len(s), w \in Raw :
       Best(long, s, i, w) /\ stop = DueAt(long, entry, w, s[i].dist)
  /\ \A i \in 1..Len(s), w \in Raw :
       Best(long, s, i, w) => Tighter(long, stop, DueAt(long, entry, w, s[i].dist))

(* Every mark shown has a best one so far, the last of them is the          *)
(* watermark, and the stop is the tightest that was due.                    *)
Trailing(long, entry, s, wm, stop) ==
  /\ \A i \in 1..Len(s) : \E w \in Raw : Best(long, s, i, w)
  /\ s = <<>> => wm = None /\ stop = None
  /\ s # <<>> => /\ wm \in Raw /\ Best(long, s, Len(s), wm)
                 /\ stop \in Raw /\ Tightest(long, entry, s, stop)

Trails == [is_long: BOOLEAN, entry: Raw, watermark: Raw \cup {None}, stop: Raw \cup {None}]

TrailInv ==
  /\ trail \in Trails /\ seen \in Seq(Quotes)
  /\ Trailing(trail.is_long, trail.entry, seen, trail.watermark, trail.stop)

(* A sum that does not fit stops at the end of the range.                   *)
LEMMA SaturateIs ==
  ASSUME NEW a \in Int
  PROVE  /\ Saturate(a) \in Raw
         /\ a < MIN => Saturate(a) = MIN
         /\ a > MAX => Saturate(a) = MAX
         /\ a \in Raw => Saturate(a) = a
  BY ScaleIs DEF Saturate, Greater, Lesser, Raw

(* The tighter of the two stops is the stop behind the better price.        *)
LEMMA DueIs ==
  ASSUME NEW entry \in Raw, NEW w \in Raw, NEW d \in Raw
  PROVE  /\ Greater(SaturatingSub(entry, d), SaturatingSub(w, d)) = DueAt(TRUE, entry, w, d)
         /\ Lesser(SaturatingAdd(entry, d), SaturatingAdd(w, d)) = DueAt(FALSE, entry, w, d)
         /\ DueAt(TRUE, entry, w, d) \in Raw /\ DueAt(FALSE, entry, w, d) \in Raw
<1>1. entry \in Int /\ w \in Int /\ d \in Int
  BY RawIs, ScaleIs
<1>2. ASSUME NEW x \in Int, NEW y \in Int, x <= y
      PROVE  Saturate(x) <= Saturate(y) /\ Saturate(x) \in Raw /\ Saturate(y) \in Raw
             /\ Saturate(x) \in Int /\ Saturate(y) \in Int
  BY <1>2, ScaleIs DEF Saturate, Greater, Lesser, Raw
<1>3. CASE entry <= w
  <2>1. /\ Saturate(entry - d) <= Saturate(w - d) /\ Saturate(entry - d) \in Int
        /\ Saturate(w - d) \in Int /\ Saturate(w - d) \in Raw
    BY <1>1, <1>2, <1>3
  <2>2. /\ Saturate(entry + d) <= Saturate(w + d) /\ Saturate(entry + d) \in Int
        /\ Saturate(w + d) \in Int /\ Saturate(entry + d) \in Raw
    BY <1>1, <1>2, <1>3
  <2>3. Lesser(entry, w) = entry /\ (Greater(entry, w) = w)
    BY <1>1, <1>3 DEF Lesser, Greater
  <2> QED
    BY <2>1, <2>2, <2>3 DEF DueAt, SaturatingAdd, SaturatingSub, Greater, Lesser
<1>4. CASE w <= entry
  <2>1. /\ Saturate(w - d) <= Saturate(entry - d) /\ Saturate(entry - d) \in Int
        /\ Saturate(w - d) \in Int /\ Saturate(entry - d) \in Raw
    BY <1>1, <1>2, <1>4
  <2>2. /\ Saturate(w + d) <= Saturate(entry + d) /\ Saturate(entry + d) \in Int
        /\ Saturate(w + d) \in Int /\ Saturate(w + d) \in Raw
    BY <1>1, <1>2, <1>4
  <2>3. Lesser(entry, w) = w /\ Greater(entry, w) = entry
    BY <1>1, <1>4 DEF Lesser, Greater
  <2> QED
    BY <2>1, <2>2, <2>3 DEF DueAt, SaturatingAdd, SaturatingSub, Greater, Lesser
<1>5. entry <= w \/ w <= entry
  BY <1>1
<1> QED
  BY <1>3, <1>4, <1>5

(* A mark shown is a price, and so is its distance.                         *)
LEMMA QuotesAre ==
  ASSUME NEW s \in Seq(Quotes), NEW k \in 1..Len(s)
  PROVE  /\ s[k] \in Quotes /\ s[k].price \in Raw /\ s[k].dist \in Raw
         /\ s[k].price \in Int /\ s[k].dist \in Int
<1>1. s[k] \in Quotes
  OBVIOUS
<1>2. s[k].price \in Raw /\ s[k].dist \in Raw
  BY <1>1 DEF Quotes
<1> QED
  BY <1>1, <1>2, ScaleIs DEF Raw

(* There is one best mark.                                                  *)
LEMMA BestIsOne ==
  ASSUME NEW long \in BOOLEAN, NEW s \in Seq(Quotes), NEW i \in 1..Len(s), NEW v, NEW w,
         Best(long, s, i, v), Best(long, s, i, w)
  PROVE  v = w
<1>1. \A k \in 1..i : s[k].price \in Int
  BY QuotesAre
<1>2. PICK k \in 1..i : v = s[k].price
  BY DEF Best
<1>3. PICK m \in 1..i : w = s[m].price
  BY DEF Best
<1>4. v \in Int /\ w \in Int
  BY <1>1, <1>2, <1>3
<1>5. CASE long
  <2>1. v >= w /\ w >= v
    BY <1>2, <1>3, <1>5 DEF Best
  <2> QED
    BY <1>4, <2>1
<1>6. CASE ~long
  <2>1. v <= w /\ w <= v
    BY <1>2, <1>3, <1>6 DEF Best
  <2> QED
    BY <1>4, <2>1
<1> QED
  BY <1>5, <1>6

(* A mark that is shown changes no earlier best.                            *)
LEMMA BestStays ==
  ASSUME NEW s \in Seq(Quotes), NEW q \in Quotes, NEW long, NEW i \in 1..Len(s), NEW w
  PROVE  /\ Best(long, Append(s, q), i, w) <=> Best(long, s, i, w)
         /\ Append(s, q)[i] = s[i]
<1>1. PICK n : n = Append(s, q)
  OBVIOUS
<1>2. \A k \in 1..i : n[k] = s[k]
  BY <1>1
<1> QED
  BY <1>1, <1>2 DEF Best

(* The watermark follows the mark when it is better.                        *)
LEMMA BestMoves ==
  ASSUME NEW long \in BOOLEAN, NEW s \in Seq(Quotes), NEW q \in Quotes, NEW w \in Raw,
         s = <<>> => w = q.price,
         s # <<>> => \E v \in Raw : /\ Best(long, s, Len(s), v)
                                    /\ w = IF long THEN Greater(v, q.price) ELSE Lesser(v, q.price)
  PROVE  Best(long, Append(s, q), Len(s) + 1, w)
<1>1. PICK n : n = Append(s, q)
  OBVIOUS
<1>2. PICK L \in Nat : L = Len(s)
  OBVIOUS
<1>3. n[L + 1] = q /\ \A k \in 1..L : n[k] = s[k] /\ s[k].price \in Int
  BY <1>1, <1>2, QuotesAre
<1>4. q.price \in Int /\ w \in Int
  BY RawIs, ScaleIs DEF Quotes
<1>5. CASE s = <<>>
  <2>1. L = 0
    BY <1>2, <1>5
  <2> QED
    BY <1>1, <1>2, <1>3, <1>4, <1>5, <2>1 DEF Best
<1>6. CASE s # <<>>
  <2>1. PICK v \in Raw : /\ Best(long, s, L, v)
                         /\ w = IF long THEN Greater(v, q.price) ELSE Lesser(v, q.price)
    BY <1>2, <1>6
  <2>2. PICK m \in 1..L : v = s[m].price
    BY <2>1 DEF Best
  <2>3. v \in Int /\ m \in 1..(L + 1) /\ L + 1 \in 1..(L + 1)
    BY RawIs, ScaleIs
  <2>4. \E k \in 1..(L + 1) : w = n[k].price
    <3>1. w = v \/ w = q.price
      BY <2>1 DEF Greater, Lesser
    <3> QED
      BY <1>3, <2>2, <2>3, <3>1
  <2>5. ASSUME NEW k \in 1..(L + 1) PROVE IF long THEN w >= n[k].price ELSE w <= n[k].price
    <3>1. CASE k = L + 1
      BY <1>3, <1>4, <2>1, <2>3, <3>1 DEF Greater, Lesser
    <3>2. CASE k \in 1..L
      <4>1. PICK x \in Int : x = n[k].price /\ (IF long THEN v >= x ELSE v <= x)
        BY <1>3, <2>1, <3>2 DEF Best
      <4> QED
        BY <1>4, <2>1, <2>3, <4>1 DEF Greater, Lesser
    <3> QED
      BY <3>1, <3>2
  <2> QED
    BY <1>1, <1>2, <2>4, <2>5 DEF Best
<1> QED
  BY <1>5, <1>6

(* What one call of trail_ratchet returns.                                  *)
LEMMA RatchetIs ==
  ASSUME NEW long \in BOOLEAN, NEW entry \in Raw, NEW price \in Raw, NEW dist \in Raw,
         NEW wm \in Raw \cup {None}, NEW stop \in Raw \cup {None}, wm = None <=> stop = None,
         NEW next, next = trail_ratchet(long, entry, price, dist, wm, stop)
  PROVE  /\ next.watermark \in Raw /\ next.stop \in Raw
         /\ DueAt(long, entry, next.watermark, dist) \in Raw
         /\ wm = None => /\ next.watermark = price
                         /\ next.stop = DueAt(long, entry, next.watermark, dist)
         /\ wm # None =>
              /\ next.watermark = IF long THEN Greater(wm, price) ELSE Lesser(wm, price)
              /\ next.stop \in {stop, DueAt(long, entry, next.watermark, dist)}
              /\ Tighter(long, next.stop, stop)
              /\ Tighter(long, next.stop, DueAt(long, entry, next.watermark, dist))
<1>1. Raw \subseteq Int /\ None \notin Int /\ None \notin Raw
  BY RiskAssumption, ScaleIs DEF Raw
<1>2. PICK w : w = next.watermark
  OBVIOUS
<1>3. w = IF wm = None THEN price ELSE IF long THEN Greater(wm, price) ELSE Lesser(wm, price)
  BY <1>2 DEF trail_ratchet
<1>4. w \in Raw
  BY <1>1, <1>3 DEF Greater, Lesser
<1>5. PICK due : due = DueAt(long, entry, w, dist)
  OBVIOUS
<1>6. due \in Raw
  BY <1>4, <1>5, DueIs
<1>7. CASE long
  <2>1. due = Greater(SaturatingSub(entry, dist), SaturatingSub(w, dist))
    <3>1. due = DueAt(TRUE, entry, w, dist)
      BY <1>5, <1>7 DEF DueAt
    <3> QED
      BY <1>4, <3>1, DueIs
  <2>2. next.stop = IF stop = None THEN due ELSE Greater(due, stop)
    BY <1>3, <1>7, <2>1 DEF trail_ratchet
  <2>3. CASE stop = None
    BY <1>2, <1>3, <1>4, <1>5, <1>6, <2>2, <2>3
  <2>4. CASE stop \in Raw
    <3>1. next.stop \in {stop, due} /\ next.stop >= stop /\ next.stop >= due
      BY <1>1, <1>6, <2>2, <2>4 DEF Greater
    <3> QED
      BY <1>1, <1>2, <1>3, <1>4, <1>5, <1>6, <1>7, <2>4, <3>1 DEF Tighter
  <2> QED
    BY <2>3, <2>4
<1>8. CASE ~long
  <2>1. due = Lesser(SaturatingAdd(entry, dist), SaturatingAdd(w, dist))
    <3>1. due = DueAt(FALSE, entry, w, dist)
      BY <1>5, <1>8 DEF DueAt
    <3> QED
      BY <1>4, <3>1, DueIs
  <2>2. next.stop = IF stop = None THEN due ELSE Lesser(due, stop)
    BY <1>3, <1>8, <2>1 DEF trail_ratchet
  <2>3. CASE stop = None
    BY <1>2, <1>3, <1>4, <1>5, <1>6, <2>2, <2>3
  <2>4. CASE stop \in Raw
    <3>1. next.stop \in {stop, due} /\ next.stop <= stop /\ next.stop <= due
      BY <1>1, <1>6, <2>2, <2>4 DEF Lesser
    <3> QED
      BY <1>1, <1>2, <1>3, <1>4, <1>5, <1>6, <1>8, <2>4, <3>1 DEF Tighter
  <2> QED
    BY <2>3, <2>4
<1> QED
  BY <1>7, <1>8

(* One more mark leaves the stop at the tightest place it was due.          *)
LEMMA RatchetKeeps ==
  ASSUME NEW long \in BOOLEAN, NEW entry \in Raw, NEW s \in Seq(Quotes), NEW q \in Quotes,
         NEW wm, NEW stop, Trailing(long, entry, s, wm, stop),
         NEW next, next = trail_ratchet(long, entry, q.price, q.dist, wm, stop)
  PROVE  /\ next.watermark \in Raw /\ next.stop \in Raw
         /\ Trailing(long, entry, Append(s, q), next.watermark, next.stop)
<1>1. Raw \subseteq Int /\ None \notin Int /\ None \notin Raw
  BY RiskAssumption, ScaleIs DEF Raw
<1>2. q.price \in Raw /\ q.dist \in Raw
  BY DEF Quotes
<1>3. PICK n : n = Append(s, q)
  OBVIOUS
<1>4. PICK L \in Nat : L = Len(s)
  OBVIOUS
<1>5. n \in Seq(Quotes) /\ Len(n) = L + 1 /\ n # <<>> /\ n[L + 1] = q
  BY <1>3, <1>4
<1>6. /\ wm \in Raw \cup {None} /\ stop \in Raw \cup {None} /\ (wm = None <=> stop = None)
      /\ wm = None <=> s = <<>>
  BY <1>1 DEF Trailing
<1>7. PICK w, t : w = next.watermark /\ t = next.stop
  OBVIOUS
<1>8. PICK due : due = DueAt(long, entry, w, q.dist)
  OBVIOUS
<1>9. /\ w \in Raw /\ t \in Raw /\ due \in Raw
      /\ wm = None => w = q.price /\ t = due
      /\ wm # None => /\ w = IF long THEN Greater(wm, q.price) ELSE Lesser(wm, q.price)
                      /\ t \in {stop, due}
                      /\ Tighter(long, t, stop) /\ Tighter(long, t, due)
  BY <1>2, <1>6, <1>7, <1>8, RatchetIs
<1>10. Best(long, n, L + 1, w)
  <2>1. s # <<>> => wm \in Raw /\ Best(long, s, Len(s), wm)
    BY DEF Trailing
  <2> QED
    BY <1>3, <1>4, <1>6, <1>9, <2>1, BestMoves
<1>11. ASSUME NEW i \in 1..Len(n) PROVE \E v \in Raw : Best(long, n, i, v)
  <2>1. CASE i = L + 1
    BY <1>9, <1>10, <2>1
  <2>2. CASE i \in 1..L
    <3>1. PICK v \in Raw : Best(long, s, i, v)
      BY <1>4, <2>2 DEF Trailing
    <3> QED
      BY <1>3, <1>4, <2>2, <3>1, BestStays
  <2> QED
    BY <1>5, <2>1, <2>2
<1>12. ASSUME NEW i \in 1..Len(n), NEW v \in Raw, Best(long, n, i, v)
       PROVE  Tighter(long, t, DueAt(long, entry, v, n[i].dist))
  <2>1. CASE i = L + 1
    <3>1. v = w
      BY <1>5, <1>10, <1>12, <2>1, BestIsOne
    <3>2. Tighter(long, t, due)
      BY <1>1, <1>9 DEF Tighter
    <3> QED
      BY <1>5, <1>8, <2>1, <3>1, <3>2
  <2>2. CASE i \in 1..L
    <3>1. Best(long, s, i, v) /\ n[i] = s[i]
      BY <1>3, <1>4, <1>12, <2>2, BestStays
    <3>2. s # <<>> /\ wm # None /\ stop \in Raw
      BY <1>4, <1>6, <2>2 DEF Trailing
    <3>3. PICK d : d = DueAt(long, entry, v, s[i].dist)
      OBVIOUS
    <3>4. d \in Raw
      <4>1. s[i].dist \in Raw
        BY <1>4, <2>2, QuotesAre
      <4> QED
        BY <3>3, <4>1, DueIs
    <3>5. Tighter(long, stop, d)
      BY <1>4, <2>2, <3>1, <3>2, <3>3 DEF Trailing, Tightest
    <3>6. Tighter(long, t, d)
      BY <1>1, <1>9, <3>2, <3>4, <3>5 DEF Tighter
    <3> QED
      BY <3>1, <3>3, <3>6
  <2> QED
    BY <1>5, <2>1, <2>2
<1>13. \E i \in 1..Len(n), v \in Raw : Best(long, n, i, v) /\ t = DueAt(long, entry, v, n[i].dist)
  <2>1. CASE t = due
    BY <1>5, <1>8, <1>9, <1>10, <2>1
  <2>2. CASE t # due
    <3>1. s # <<>> /\ t = stop
      BY <1>6, <1>9, <2>2
    <3>2. PICK i \in 1..L, v \in Raw :
            Best(long, s, i, v) /\ stop = DueAt(long, entry, v, s[i].dist)
      BY <1>4, <3>1 DEF Trailing, Tightest
    <3>3. Best(long, n, i, v) /\ n[i] = s[i] /\ i \in 1..Len(n)
      BY <1>3, <1>4, <1>5, <3>2, BestStays
    <3> QED
      BY <3>1, <3>2, <3>3
  <2> QED
    BY <2>1, <2>2
<1>14. Tightest(long, entry, n, t)
  BY <1>12, <1>13 DEF Tightest
<1> QED
  BY <1>3, <1>5, <1>7, <1>9, <1>10, <1>11, <1>14 DEF Trailing

(* A trail is always where its marks put it.                                *)
LEMMA TrailInvHolds == Spec => []TrailInv
<1>1. Raw \subseteq Int /\ None \notin Int /\ None \notin Raw
  BY RiskAssumption, ScaleIs DEF Raw
<1>2. ASSUME RiskInit PROVE TrailInv
  <2>1. trail \in Trails /\ trail.watermark = None /\ trail.stop = None
    BY <1>2, RiskAssumption DEF RiskInit, Trails
  <2>2. seen = <<>>
    BY <1>2 DEF RiskInit
  <2> QED
    BY <2>1, <2>2 DEF TrailInv, Trailing
<1>3. ASSUME TrailInv, NEW m \in Marks, NEW d \in Dists, FollowMark(m, d) PROVE TrailInv'
  <2>1. PICK t \in Trails, s \in Seq(Quotes) : t = trail /\ s = seen
    BY <1>3 DEF TrailInv
  <2>2. PICK q \in Quotes : q = [price |-> m, dist |-> d]
    BY RiskAssumption DEF Quotes
  <2>3. q.price = m /\ q.dist = d
    BY <2>2
  <2>4. /\ t.is_long \in BOOLEAN /\ t.entry \in Raw
        /\ Trailing(t.is_long, t.entry, s, t.watermark, t.stop)
    BY <1>3, <2>1 DEF TrailInv, Trails
  <2>5. PICK next : next = trail_ratchet(t.is_long, t.entry, q.price, q.dist, t.watermark, t.stop)
    OBVIOUS
  <2>6. /\ next.watermark \in Raw /\ next.stop \in Raw
        /\ Trailing(t.is_long, t.entry, Append(s, q), next.watermark, next.stop)
    BY <2>4, <2>5, RatchetKeeps
  <2>7. trail' = [t EXCEPT !.watermark = next.watermark, !.stop = next.stop]
    BY <1>3, <2>1, <2>3, <2>5 DEF FollowMark
  <2>8. PICK n : n = Append(s, q) /\ n \in Seq(Quotes)
    <3>1. Append(s, q) \in Seq(Quotes)
      OBVIOUS
    <3> QED
      BY <3>1
  <2>9. seen' = n
    BY <1>3, <2>1, <2>2, <2>8 DEF FollowMark
  <2>10. PICK u : u = [t EXCEPT !.watermark = next.watermark, !.stop = next.stop]
    OBVIOUS
  <2>11. /\ trail' = u /\ u \in Trails /\ u.is_long = t.is_long /\ u.entry = t.entry
         /\ u.watermark = next.watermark /\ u.stop = next.stop
    BY <2>6, <2>7, <2>10 DEF Trails
  <2>12. Trailing(u.is_long, u.entry, n, u.watermark, u.stop)
    BY <2>6, <2>8, <2>11
  <2> QED
    BY <2>8, <2>9, <2>11, <2>12 DEF TrailInv
<1>4. TrailInv /\ [Next]_vars => TrailInv'
  <2> SUFFICES ASSUME TrailInv, [Next]_vars
               PROVE  TrailInv'
    OBVIOUS
  <2>1. CASE \E m \in Marks, d \in Dists : FollowMark(m, d)
    BY <1>3, <2>1
  <2>2. CASE UNCHANGED <<trail, seen>>
    BY <2>2 DEF TrailInv
  <2>3. (\E m \in Marks, d \in Dists : FollowMark(m, d)) \/ UNCHANGED <<trail, seen>>
    BY DEF Next, vars, riskVars, SizeTrade
  <2> QED
    BY <2>1, <2>2, <2>3
<1> QED
  BY <1>2, <1>4, PTL DEF Spec, Init

(* The stop that trail_ratchet returns is the tightest it was ever due: a   *)
(* distance that widens and a mark that falls back never loosen it, however *)
(* many marks the position is followed through.                             *)
THEOREM StopOnlyTightens == Spec => []StopIsTightestDue
<1>1. TrailInv => StopIsTightestDue
  <2> SUFFICES ASSUME TrailInv, seen # <<>>
               PROVE  StopIsTightestDue
    BY DEF StopIsTightestDue
  <2>1. /\ seen \in Seq(Quotes) /\ trail.is_long \in BOOLEAN /\ trail.entry \in Raw
        /\ \A i \in 1..Len(seen) : \E w \in Raw : Best(trail.is_long, seen, i, w)
        /\ Tightest(trail.is_long, trail.entry, seen, trail.stop)
    BY DEF TrailInv, Trails, Trailing
  <2> DEFINE best(i) == CHOOSE p \in {seen[k].price : k \in 1..i} :
                          \A k \in 1..i : IF trail.is_long THEN p >= seen[k].price
                                          ELSE p <= seen[k].price
  <2>2. ASSUME NEW i \in 1..Len(seen) PROVE best(i) \in Raw /\ Best(trail.is_long, seen, i, best(i))
    <3>1. PICK w \in Raw : Best(trail.is_long, seen, i, w)
      BY <2>1
    <3>2. /\ w \in {seen[k].price : k \in 1..i}
          /\ \A k \in 1..i : IF trail.is_long THEN w >= seen[k].price ELSE w <= seen[k].price
      BY <3>1 DEF Best
    <3>3. /\ best(i) \in {seen[k].price : k \in 1..i}
          /\ \A k \in 1..i : IF trail.is_long THEN best(i) >= seen[k].price
                             ELSE best(i) <= seen[k].price
      BY <3>2
    <3>4. Best(trail.is_long, seen, i, best(i))
      BY <3>3 DEF Best
    <3> QED
      BY <2>1, <3>1, <3>4, BestIsOne
  <2> HIDE DEF best
  <2> DEFINE due(i) == IF trail.is_long
                       THEN SaturatingSub(Greater(trail.entry, best(i)), seen[i].dist)
                       ELSE SaturatingAdd(Lesser(trail.entry, best(i)), seen[i].dist)
  <2>3. ASSUME NEW i \in 1..Len(seen)
        PROVE  due(i) = DueAt(trail.is_long, trail.entry, best(i), seen[i].dist)
    BY DEF DueAt
  <2> HIDE DEF due
  <2>4. \A i \in 1..Len(seen) : IF trail.is_long THEN trail.stop >= due(i) ELSE trail.stop <= due(i)
    BY <2>1, <2>2, <2>3 DEF Tightest, Tighter
  <2>5. \E i \in 1..Len(seen) : trail.stop = due(i)
    <3>1. PICK i \in 1..Len(seen), w \in Raw :
            /\ Best(trail.is_long, seen, i, w)
            /\ trail.stop = DueAt(trail.is_long, trail.entry, w, seen[i].dist)
      BY <2>1 DEF Tightest
    <3>2. w = best(i)
      BY <2>1, <2>2, <3>1, BestIsOne
    <3> QED
      BY <2>3, <3>1, <3>2
  <2>6. /\ trail.stop \in {due(i) : i \in 1..Len(seen)}
        /\ \A d \in {due(i) : i \in 1..Len(seen)} :
             IF trail.is_long THEN trail.stop >= d ELSE trail.stop <= d
    BY <2>4, <2>5
  <2> QED
    BY <2>6 DEF StopIsTightestDue, best, due
<1> QED
  BY <1>1, TrailInvHolds, PTL

-----------------------------------------------------------------------------
(* Sizing.                                                                  *)

(* What scale and divide return is held by a number, whatever they are of.  *)
LEMMA OrZeroIs ==
  ASSUME NEW n
  PROVE  /\ OrZero(Fit(n)) \in Raw
         /\ n \in Raw => OrZero(Fit(n)) = n
         /\ n \notin Raw => OrZero(Fit(n)) = 0
<1>1. 0 \in Raw /\ Refused \notin Raw
  BY ScaleIs DEF Raw
<1>2. CASE n \in Raw
  <2>1. Fit(n) = n /\ n # Refused
    BY <1>1, <1>2 DEF Fit
  <2> QED
    BY <1>2, <2>1 DEF OrZero
<1>3. CASE n \notin Raw
  <2>1. Fit(n) = Refused
    BY <1>3 DEF Fit
  <2> QED
    BY <1>1, <1>3, <2>1 DEF OrZero
<1> QED
  BY <1>2, <1>3

(* A fraction of an amount, rounded down; a part of it is no more than it.  *)
LEMMA FractionIs ==
  ASSUME NEW a \in Nat, NEW r \in Nat
  PROVE  /\ scale(a, r) \in Nat
         /\ r <= SCALE => scale(a, r) <= a
<1>1. PICK S \in Nat : S = SCALE /\ S > 0
  BY ScaleIs
<1>2. PICK n \in Nat : n = a * r
  OBVIOUS
<1>3. PICK u \in Nat : u = Units(n) /\ S * u <= n
  BY <1>1, UnitsAre
<1>4. scale(a, r) = OrZero(Fit(u))
  BY <1>2, <1>3 DEF scale, Units
<1>5. scale(a, r) \in {0, u}
  BY <1>4, OrZeroIs
<1>6. ASSUME r <= S PROVE u <= a
  <2>1. a * r <= a * S
    BY <1>1, <1>6, MulOrder
  <2>2. a * S = S * a
    BY <1>1
  <2>3. S * u <= S * a
    <3>1. PICK x \in Int, y \in Int : x = S * u /\ y = S * a
      BY <1>1, <1>3
    <3> QED
      BY <1>2, <1>3, <2>1, <2>2, <3>1
  <2> QED
    BY <1>1, <1>3, <2>3, MulCancel
<1> QED
  BY <1>1, <1>5, <1>6

(* The sizing division never rounds up.                                     *)
LEMMA DivideIs ==
  ASSUME NEW a \in Nat, NEW price \in Nat, price > 0
  PROVE  divide(a, price) \in Nat /\ divide(a, price) * price <= a * SCALE
<1>1. PICK S \in Nat : S = SCALE /\ S > 0
  BY ScaleIs
<1>2. PICK n \in Nat : n = a * S
  BY <1>1
<1>3. PICK u \in Nat : u = TruncDiv(n, price) /\ price * u <= n
  BY TruncIs
<1>4. divide(a, price) = OrZero(Fit(u))
  BY <1>1, <1>2, <1>3 DEF divide
<1>5. divide(a, price) \in {0, u}
  BY <1>4, OrZeroIs
<1>6. u * price = price * u /\ 0 * price = 0
  OBVIOUS
<1> QED
  BY <1>1, <1>2, <1>3, <1>5, <1>6

(* A cap only ever makes a size smaller, and none makes it negative.        *)
LEMMA CapsAre ==
  ASSUME NEW caps \in [{"margin", "bracket", "available"} -> Raw \cup {None}], NEW qty \in Nat
  PROVE  CapsApply(caps, qty) \in Nat /\ CapsApply(caps, qty) <= qty
<1>1. Raw \subseteq Int /\ None \notin Int /\ None \notin Raw
  BY RiskAssumption, ScaleIs DEF Raw
<1> DEFINE room == {Greater(caps[c], 0) : c \in {k \in DOMAIN caps : caps[k] # None}}
           cap(c) == IF caps[c] = None THEN qty ELSE Greater(caps[c], 0)
<1>2. ASSUME NEW c \in {"margin", "bracket", "available"} PROVE cap(c) \in Nat
  <2>1. caps[c] = None \/ caps[c] \in Int
    BY <1>1
  <2> QED
    BY <2>1 DEF Greater
<1>3. room \cup {qty} = {cap("margin"), cap("bracket"), cap("available"), qty}
  <2>1. ASSUME NEW x \in room
        PROVE  x \in {cap("margin"), cap("bracket"), cap("available"), qty}
    <3>1. PICK k \in {"margin", "bracket", "available"} : caps[k] # None /\ x = Greater(caps[k], 0)
      OBVIOUS
    <3>2. x = cap(k)
      BY <3>1
    <3> QED
      BY <3>1, <3>2
  <2>2. ASSUME NEW k \in {"margin", "bracket", "available"}
        PROVE  cap(k) \in room \cup {qty}
    <3>1. CASE caps[k] = None
      BY <3>1
    <3>2. CASE caps[k] # None
      <4>1. cap(k) = Greater(caps[k], 0) /\ k \in {d \in DOMAIN caps : caps[d] # None}
        BY <3>2
      <4> QED
        BY <4>1
    <3> QED
      BY <3>1, <3>2
  <2> HIDE DEF room, cap
  <2> QED
    BY <2>1, <2>2
<1>4. PICK a \in Nat, b \in Nat, c \in Nat :
        a = cap("margin") /\ b = cap("bracket") /\ c = cap("available")
  BY <1>2
<1>5. PICK least \in {a, b, c, qty} : \A other \in {a, b, c, qty} : least <= other
  <2>1. PICK x \in {a, b} : x <= a /\ x <= b
    OBVIOUS
  <2>2. PICK y \in {c, qty} : y <= c /\ y <= qty
    OBVIOUS
  <2>3. PICK z \in {x, y} : z <= x /\ z <= y
    OBVIOUS
  <2> QED
    BY <2>1, <2>2, <2>3
<1>6. room \cup {qty} = {a, b, c, qty}
  BY <1>3, <1>4
<1>7. CapsApply(caps, qty) = CHOOSE q \in {a, b, c, qty} : \A other \in {a, b, c, qty} : q <= other
  BY <1>6 DEF CapsApply
<1>8. /\ CapsApply(caps, qty) \in {a, b, c, qty}
      /\ \A other \in {a, b, c, qty} : CapsApply(caps, qty) <= other
  BY <1>5, <1>7
<1> QED
  BY <1>4, <1>8

(* What the caller asks a size for.                                         *)
LEMMA TradesAre ==
  ASSUME NEW t \in Trades
  PROVE  /\ t.params.risk_pct \in Nat /\ t.params.max_leverage \in Nat
         /\ t.equity \in Raw /\ t.price \in Raw /\ t.conviction \in Raw
         /\ t.caps \in [{"margin", "bracket", "available"} -> Raw \cup {None}]
         /\ t.is_long \in BOOLEAN
<1>1. /\ t.params.risk_pct \in 0..MAX /\ t.params.max_leverage \in 0..MAX
      /\ t.equity \in Raw /\ t.price \in Raw /\ t.conviction \in Raw
      /\ t.caps \in [{"margin", "bracket", "available"} -> Raw \cup {None}]
      /\ t.is_long \in BOOLEAN
  BY TradeAssumption
<1> QED
  BY <1>1, ScaleIs

(* A size is worth no more at the stop than the budget, and no more at the  *)
(* price than the leverage allows.                                          *)
LEMMA SizeIs ==
  ASSUME NEW t \in Trades, NEW dist \in Raw, NEW qty,
         qty = risk_sized_qty(t.params, t.equity, t.price, dist, t.conviction, t.caps)
  PROVE  /\ qty \in Nat
         /\ t.equity > 0 => /\ scale(t.equity, t.params.risk_pct) \in Nat
                            /\ scale(t.equity, t.params.max_leverage) \in Nat
         /\ qty # 0 => t.equity > 0 /\ t.price > 0 /\ dist > 0
         /\ t.equity > 0 /\ t.price > 0 /\ dist > 0 =>
              /\ qty * dist <= scale(t.equity, t.params.risk_pct) * SCALE
              /\ qty * t.price <= scale(t.equity, t.params.max_leverage) * SCALE
<1>1. PICK equity \in Int, price \in Int, risk \in Nat, lever \in Nat, conviction \in Int :
        /\ equity = t.equity /\ price = t.price /\ risk = t.params.risk_pct
        /\ lever = t.params.max_leverage /\ conviction = t.conviction
  <2>1. /\ t.equity \in Int /\ t.price \in Int /\ t.conviction \in Int
        /\ t.params.risk_pct \in Nat /\ t.params.max_leverage \in Nat
    BY TradesAre, ScaleIs DEF Raw
  <2> QED
    BY <2>1, Zenon
<1>2. dist \in Int /\ None \notin Int /\ dist # None
  BY RiskAssumption, ScaleIs DEF Raw
<1>3. PICK budget, most : budget = scale(equity, risk) /\ most = scale(equity, lever)
  OBVIOUS
<1>4. ASSUME equity > 0 PROVE budget \in Nat /\ most \in Nat
  <2>1. equity \in Nat
    BY <1>1, <1>4
  <2> QED
    BY <1>1, <1>3, <2>1, FractionIs
<1>5. CASE ~(equity > 0 /\ price > 0 /\ dist > 0)
  <2>1. equity <= 0 \/ price <= 0 \/ dist <= 0
    BY <1>1, <1>2, <1>5
  <2>2. qty = 0
    BY <1>1, <2>1 DEF risk_sized_qty
  <2> QED
    BY <1>1, <1>3, <1>4, <1>5, <2>2
<1>6. CASE equity > 0 /\ price > 0 /\ dist > 0
  <2>1. PICK part : part = clamped(conviction)
    OBVIOUS
  <2>2. part \in Nat /\ part <= SCALE
    BY <1>1, <2>1, ScaleIs DEF clamped, Greater, Lesser
  <2>3. PICK risked \in Nat : risked = scale(budget, part) /\ risked <= budget
    BY <1>4, <1>6, <2>2, FractionIs
  <2>4. PICK a \in Nat : a = divide(risked, dist) /\ a * dist <= risked * SCALE
    BY <1>2, <1>6, <2>3, DivideIs
  <2>5. PICK b \in Nat : b = divide(most, price) /\ b * price <= most * SCALE
    BY <1>1, <1>4, <1>6, DivideIs
  <2>6. qty = CapsApply(t.caps, Lesser(a, b))
    <3>1. ~(dist = None \/ equity <= 0 \/ price <= 0 \/ dist <= 0)
      BY <1>1, <1>2, <1>6
    <3> QED
      BY <1>1, <1>3, <2>1, <2>3, <2>4, <2>5, <3>1 DEF risk_sized_qty
  <2>7. PICK c \in Nat : c = Lesser(a, b) /\ c <= a /\ c <= b
    BY DEF Lesser
  <2>8. qty \in Nat /\ qty <= c
    BY <2>6, <2>7, CapsAre, TradesAre
  <2>9. qty * dist <= a * dist /\ qty * price <= b * price
    BY <1>1, <1>2, <1>6, <2>7, <2>8, MulOrder
  <2>10. risked * SCALE <= budget * SCALE
    BY <1>4, <1>6, <2>3, ScaleIs, MulOrder
  <2>11. PICK S \in Nat : S = SCALE
    BY ScaleIs
  <2>12. qty * dist <= budget * S /\ qty * price <= most * S
    <3>1. PICK x \in Int, y \in Int, z \in Int, v \in Int :
            x = qty * dist /\ y = a * dist /\ z = risked * S /\ v = budget * S
      BY <1>2, <1>4, <1>6, <2>8
    <3>2. x <= v
      BY <2>4, <2>9, <2>10, <2>11, <3>1
    <3>3. PICK p \in Int, q \in Int, r \in Int : p = qty * price /\ q = b * price /\ r = most * S
      BY <1>1, <1>4, <1>6, <2>8
    <3>4. p <= r
      BY <2>5, <2>9, <2>11, <3>3
    <3> QED
      BY <3>1, <3>2, <3>3, <3>4
  <2> QED
    BY <1>1, <1>3, <1>4, <1>6, <2>8, <2>11, <2>12
<1> QED
  BY <1>5, <1>6

(* The stop of a bracket is the distance away, or nearer at the end of the  *)
(* range.                                                                   *)
LEMMA BracketIs ==
  ASSUME NEW price \in Raw, NEW dist \in Raw, NEW rr, price > 0, dist > 0
  PROVE  /\ brackets(price, TRUE, dist, rr).stop = price - dist
         /\ brackets(price, FALSE, dist, rr).stop \in Int
         /\ brackets(price, FALSE, dist, rr).stop <= price + dist
<1>1. price \in Int /\ dist \in Int /\ price <= MAX /\ dist <= MAX
  BY ScaleIs DEF Raw
<1>2. brackets(price, TRUE, dist, rr).stop = Saturate(price - dist)
  BY DEF brackets, SaturatingSub
<1>3. brackets(price, FALSE, dist, rr).stop = Saturate(price + dist)
  BY DEF brackets, SaturatingAdd
<1>4. Saturate(price - dist) = price - dist
  BY <1>1, ScaleIs DEF Saturate, Greater, Lesser
<1>5. Saturate(price + dist) \in Int /\ Saturate(price + dist) <= price + dist
  BY <1>1, ScaleIs DEF Saturate, Greater, Lesser
<1> QED
  BY <1>2, <1>3, <1>4, <1>5

(* A trade that was sized, with what sizing gave it.                        *)
Sized(t) ==
  LET dist  == stop_distance(t.params, t.price, atr(t.candles, t.period))
      exits == brackets(t.price, t.is_long, dist, t.params.rr)
  IN  [asked |-> t, dist |-> dist, stop |-> exits.stop, take |-> exits.take,
       qty |-> risk_sized_qty(t.params, t.equity, t.price, dist, t.conviction, t.caps)]

TradeInv == trade = None \/ \E t \in Trades : trade = Sized(t)

(* Sizing is the only step that makes a trade.                              *)
LEMMA TradeInvHolds == Spec => []TradeInv
<1>1. Init => TradeInv
  BY DEF Init, RiskInit, TradeInv
<1>2. TradeInv /\ [Next]_vars => TradeInv'
  <2> SUFFICES ASSUME TradeInv, [Next]_vars
               PROVE  TradeInv'
    OBVIOUS
  <2>1. CASE \E t \in Trades : SizeTrade(t)
    <3>1. PICK t \in Trades : SizeTrade(t)
      BY <2>1
    <3>2. trade' = Sized(t)
      BY <3>1 DEF SizeTrade, Sized
    <3> QED
      BY <3>2 DEF TradeInv
  <2>2. CASE UNCHANGED trade
    BY <2>2 DEF TradeInv
  <2>3. (\E t \in Trades : SizeTrade(t)) \/ UNCHANGED trade
    BY DEF Next, vars, riskVars, FollowMark
  <2> QED
    BY <2>1, <2>2, <2>3
<1> QED
  BY <1>1, <1>2, PTL DEF Spec

(* A distance is a number, whether it comes from the bars or the price.     *)
LEMMA DistanceIs ==
  ASSUME NEW params, NEW price, NEW value
  PROVE  stop_distance(params, price, value) \in Raw
  BY OrZeroIs DEF stop_distance, scale

(* How far a mark lies on the losing side.                                  *)
Away(long, price, mark) == IF long THEN price - mark ELSE mark - price

(* Until the stop fires, and at the stop, the loss is within the budget.    *)
LEMMA LossIs ==
  ASSUME NEW t \in Trades, NEW dist \in Raw, NEW stop, NEW take, NEW qty, NEW mark \in Int,
         stop = brackets(t.price, t.is_long, dist, t.params.rr).stop,
         qty = risk_sized_qty(t.params, t.equity, t.price, dist, t.conviction, t.caps),
         t.equity > 0, mark = stop \/ breached(t.is_long, mark, stop, take) # "Stop"
  PROVE  Away(t.is_long, t.price, mark) * qty <= scale(t.equity, t.params.risk_pct) * SCALE
<1>1. PICK long \in BOOLEAN, price \in Raw : long = t.is_long /\ price = t.price
  BY TradesAre
<1>2. price \in Int /\ dist \in Int
  BY ScaleIs DEF Raw
<1>3. PICK S \in Nat, budget \in Nat : S = SCALE /\ budget = scale(t.equity, t.params.risk_pct)
  <2>1. scale(t.equity, t.params.risk_pct) \in Nat
    BY SizeIs
  <2> QED
    BY <2>1, ScaleIs
<1>4. /\ qty \in Nat /\ budget \in Nat
      /\ qty # 0 => price > 0 /\ dist > 0 /\ qty * dist <= budget * S
  BY <1>1, <1>3, SizeIs
<1>5. PICK x \in Int : x = Away(long, price, mark)
  <2>1. Away(long, price, mark) \in Int
    BY <1>2 DEF Away
  <2> QED
    BY <2>1
<1>6. CASE qty = 0
  <2>1. x * qty = 0 /\ budget * S >= 0
    BY <1>4, <1>6
  <2> QED
    BY <1>1, <1>3, <1>5, <2>1
<1>7. CASE qty # 0
  <2>1. x <= dist
    <3>1. CASE long
      <4>1. stop = price - dist
        BY <1>1, <1>4, <1>7, <3>1, BracketIs
      <4>2. mark = stop \/ ~(mark <= stop)
        BY <1>1, <3>1 DEF breached
      <4>3. mark >= stop
        BY <1>2, <4>1, <4>2
      <4> QED
        BY <1>2, <1>5, <3>1, <4>1, <4>3 DEF Away
    <3>2. CASE ~long
      <4>1. stop \in Int /\ stop <= price + dist
        <5>1. long = FALSE
          BY <3>2
        <5> QED
          BY <1>1, <1>4, <1>7, <5>1, BracketIs
      <4>2. mark = stop \/ ~(mark >= stop)
        BY <1>1, <3>2 DEF breached
      <4>3. mark <= stop
        BY <1>2, <4>1, <4>2
      <4> QED
        BY <1>2, <1>5, <3>2, <4>1, <4>3 DEF Away
    <3> QED
      BY <3>1, <3>2
  <2>2. x * qty <= dist * qty
    BY <1>2, <1>4, <2>1, MulOrder
  <2>3. dist * qty = qty * dist
    BY <1>2, <1>4
  <2>4. PICK a \in Int, b \in Int, c \in Int : a = x * qty /\ b = qty * dist /\ c = budget * S
    BY <1>2, <1>4
  <2>5. a <= c
    BY <1>4, <1>7, <2>2, <2>3, <2>4
  <2> QED
    BY <1>1, <1>3, <1>5, <2>4, <2>5
<1> QED
  BY <1>6, <1>7

(* Being wrong costs what was budgeted and no more, whatever the bars, the  *)
(* conviction, the caps and the rounding: the one thing risk_sized_qty      *)
(* exists to guarantee.                                                     *)
THEOREM LossStaysBudgeted == Spec => []LossIsBudgeted
<1>1. TradeInv => LossIsBudgeted
  <2> SUFFICES ASSUME TradeInv, trade # None
               PROVE  LossIsBudgeted
    BY DEF LossIsBudgeted
  <2>1. PICK t \in Trades : trade = Sized(t)
    BY DEF TradeInv
  <2>2. PICK dist \in Raw : dist = stop_distance(t.params, t.price, atr(t.candles, t.period))
    BY DistanceIs
  <2>3. /\ trade.asked = t
        /\ trade.stop = brackets(t.price, t.is_long, dist, t.params.rr).stop
        /\ trade.qty = risk_sized_qty(t.params, t.equity, t.price, dist, t.conviction, t.caps)
    BY <2>1, <2>2 DEF Sized
  <2>4. PICK qty, stop, take :
          qty = trade.qty /\ stop = trade.stop /\ take = trade.take /\ qty \in Nat
    <3>1. trade.qty \in Nat
      BY <2>3, SizeIs
    <3> QED
      BY <3>1
  <2>5. PICK price \in Raw : price = t.price
    BY TradesAre
  <2>6. Raw \subseteq Int /\ price \in Int
    BY ScaleIs DEF Raw
  <2>7. ASSUME t.equity > 0,
               NEW mark \in {m \in Raw : breached(t.is_long, m, stop, take) # "Stop"} \cup {stop}
        PROVE  Away(t.is_long, t.price, mark) * qty <= scale(t.equity, t.params.risk_pct) * SCALE
    <3>1. stop \in Int
      <4>1. stop = IF t.is_long THEN Saturate(t.price - dist) ELSE Saturate(t.price + dist)
        BY <2>3, <2>4 DEF brackets, SaturatingSub, SaturatingAdd
      <4>2. t.price - dist \in Int /\ t.price + dist \in Int
        BY <2>5, <2>6
      <4>3. Saturate(t.price - dist) \in Raw /\ Saturate(t.price + dist) \in Raw
        BY <4>2, SaturateIs
      <4> QED
        BY <2>6, <4>1, <4>3
    <3>2. mark \in Int /\ (mark = stop \/ breached(t.is_long, mark, stop, take) # "Stop")
      BY <2>6, <3>1
    <3> QED
      BY <2>3, <2>4, <2>7, <3>2, LossIs
  <2>8. ASSUME t.equity > 0
        PROVE  qty * t.price <= Greater(0, scale(t.equity, t.params.max_leverage)) * SCALE
    <3>1. PICK most \in Nat : most = scale(t.equity, t.params.max_leverage)
      BY <2>3, <2>8, SizeIs
    <3>2. Greater(0, most) = most
      BY DEF Greater
    <3>3. CASE qty = 0
      <4>1. qty * price = 0 /\ most * SCALE >= 0
        BY <2>6, <3>3, ScaleIs
      <4> QED
        BY <2>5, <3>1, <3>2, <4>1
    <3>4. CASE qty # 0
      BY <2>3, <2>4, <2>8, <3>1, <3>2, <3>4, SizeIs
    <3> QED
      BY <3>3, <3>4
  <2> QED
    BY <2>3, <2>4, <2>7, <2>8 DEF LossIsBudgeted, Away
<1> QED
  BY <1>1, TradeInvHolds, PTL

-----------------------------------------------------------------------------
(* Average ranges: sums over a window of bars, by least counterexample.     *)

(* A set of numbers that has a member has a smallest one.                   *)
LEMMA SmallestIs ==
  ASSUME NEW T, T \subseteq Nat, T # {}
  PROVE  \E x \in T : \A y \in T : x <= y
<1>1. PICK x \in T : \A y \in T : ~ (<<y, x>> \in OpToRel(<, Nat))
  BY NatLessThanWellFounded, WFMin
<1>2. ASSUME NEW y \in T PROVE x <= y
  <2>1. ~(y < x)
    BY <1>1 DEF OpToRel
  <2> QED
    BY <2>1
<1> QED
  BY <1>2

(* So a set closed under counting, from zero, has every number in it.       *)
LEMMA Counting ==
  ASSUME NEW P, 0 \in P, \A n \in Nat : n \in P => n + 1 \in P
  PROVE  Nat \subseteq P
<1>1. SUFFICES ASSUME NEW n \in Nat, n \notin P PROVE FALSE
  OBVIOUS
<1> DEFINE T == {m \in Nat : m \notin P}
<1>2. T \subseteq Nat /\ T # {}
  BY <1>1
<1>3. PICK x \in T : \A y \in T : x <= y
  <2> HIDE DEF T
  <2> QED
    BY <1>2, SmallestIs
<1>4. x \in Nat /\ x # 0 /\ x - 1 \in Nat
  OBVIOUS
<1>5. x - 1 \in P
  BY <1>3, <1>4
<1> QED
  BY <1>4, <1>5

(* A window's last bar is the largest index.                                *)
LEMMA MaxIs ==
  ASSUME NEW n \in Nat, NEW s \in SUBSET (1..n), s # {}
  PROVE  Max(s) \in s /\ \A y \in s : Max(s) >= y
<1> DEFINE T == {n - y : y \in s}
<1>1. T \subseteq Nat /\ T # {}
  <2>1. \A y \in s : y \in 1..n /\ n - y \in Nat
    OBVIOUS
  <2> QED
    BY <2>1
<1>2. PICK x \in T : \A y \in T : x <= y
  <2> HIDE DEF T
  <2> QED
    BY <1>1, SmallestIs
<1>3. PICK top \in s : x = n - top
  OBVIOUS
<1>4. \A y \in s : top >= y
  BY <1>2, <1>3
<1> QED
  BY <1>4 DEF Max

(* h is the table of the sums of g over the subsets of 1..n, each built the *)
(* way a fold of a sequence builds it: the last term onto the rest.         *)
Totals(h, g, n) ==
  h = [s \in SUBSET (1..n) |-> IF s = {} THEN 0 ELSE h[s \ {Max(s)}] + g[Max(s)]]

(* There is such a table.                                                   *)
LEMMA TotalsExist ==
  ASSUME NEW n \in Nat, NEW g, \A i \in 1..n : g[i] \in Int
  PROVE  \E h \in [SUBSET (1..n) -> Int] : Totals(h, g, n)
<1> DEFINE Step(h, s) == IF s = {} THEN 0 ELSE h[s \ {Max(s)}] + g[Max(s)]
           P == {k \in Nat : k <= n => \E h \in [SUBSET (1..k) -> Int] :
                               \A s \in SUBSET (1..k) : h[s] = Step(h, s)}
<1>1. 0 \in P
  <2>1. \A s \in SUBSET (1..0) : s = {}
    OBVIOUS
  <2>2. PICK h : h = [s \in SUBSET (1..0) |-> 0]
    OBVIOUS
  <2>3. h \in [SUBSET (1..0) -> Int] /\ \A s \in SUBSET (1..0) : h[s] = Step(h, s)
    BY <2>1, <2>2
  <2> QED
    BY <2>3
<1>2. ASSUME NEW k \in Nat, k \in P PROVE k + 1 \in P
  <2> HIDE DEF Step
  <2> SUFFICES ASSUME k + 1 <= n
               PROVE  \E h \in [SUBSET (1..(k + 1)) -> Int] :
                        \A s \in SUBSET (1..(k + 1)) : h[s] = Step(h, s)
    <3>1. k + 1 \in Nat
      OBVIOUS
    <3> QED
      BY <3>1, Zenon
  <2>1. PICK h \in [SUBSET (1..k) -> Int] : \A s \in SUBSET (1..k) : h[s] = Step(h, s)
    <3>1. k <= n
      OBVIOUS
    <3> QED
      BY <1>2, <3>1, Zenon
  <2>2. PICK w : w = [s \in SUBSET (1..(k + 1)) |->
                        IF k + 1 \in s THEN h[s \ {k + 1}] + g[k + 1] ELSE h[s]]
    OBVIOUS
  <2>3. ASSUME NEW s \in SUBSET (1..(k + 1)), k + 1 \in s
        PROVE  Max(s) = k + 1 /\ s \ {k + 1} \in SUBSET (1..k) /\ s # {}
    <3>1. k + 1 \in Nat /\ s # {}
      BY <2>3
    <3>2. Max(s) \in s /\ Max(s) >= k + 1
      BY <2>3, <3>1, MaxIs
    <3>3. Max(s) \in 1..(k + 1)
      BY <3>2
    <3> QED
      BY <2>3, <3>1, <3>2, <3>3
  <2>4. ASSUME NEW s \in SUBSET (1..(k + 1)), k + 1 \notin s
        PROVE  s \in SUBSET (1..k)
    BY <2>4
  <2>5. ASSUME NEW s \in SUBSET (1..k) PROVE w[s] = h[s] /\ h[s] \in Int
    BY <2>1, <2>2
  <2>6. ASSUME NEW s \in SUBSET (1..(k + 1)) PROVE w[s] \in Int
    <3>1. CASE k + 1 \in s
      BY <2>1, <2>2, <2>3, <3>1
    <3>2. CASE k + 1 \notin s
      BY <2>1, <2>2, <2>4, <3>2
    <3> QED
      BY <3>1, <3>2
  <2>7. ASSUME NEW s \in SUBSET (1..(k + 1)) PROVE w[s] = Step(w, s)
    <3>1. CASE k + 1 \in s
      <4>1. w[s] = h[s \ {k + 1}] + g[k + 1]
        BY <2>2, <3>1
      <4>2. w[s \ {k + 1}] = h[s \ {k + 1}]
        BY <2>3, <2>5, <3>1
      <4> QED
        BY <2>3, <3>1, <4>1, <4>2 DEF Step
    <3>2. CASE k + 1 \notin s
      <4>1. s \in SUBSET (1..k) /\ s \ {Max(s)} \in SUBSET (1..k)
        BY <2>4, <3>2
      <4>2. w[s] = Step(h, s) /\ w[s \ {Max(s)}] = h[s \ {Max(s)}]
        BY <2>1, <2>5, <4>1
      <4> QED
        BY <4>2 DEF Step
    <3> QED
      BY <3>1, <3>2
  <2>8. w \in [SUBSET (1..(k + 1)) -> Int]
    BY <2>2, <2>6
  <2> QED
    BY <2>7, <2>8
<1>3. n \in P
  <2> HIDE DEF P
  <2> QED
    BY <1>1, <1>2, Counting
<1>4. PICK h \in [SUBSET (1..n) -> Int] : \A s \in SUBSET (1..n) : h[s] = Step(h, s)
  <2>1. n <= n
    OBVIOUS
  <2> HIDE DEF Step
  <2> QED
    BY <1>3, <2>1, Zenon
<1>5. Totals(h, g, n)
  BY <1>4 DEF Totals
<1> QED
  BY <1>5

(* A sum over a window is the sum up to the bar before, and the bar.        *)
LEMMA TotalsGrow ==
  ASSUME NEW n \in Nat, NEW g, NEW h, Totals(h, g, n)
  PROVE  /\ h[1..0] = 0
         /\ \A k \in Nat : k + 1 <= n => h[1..(k + 1)] = h[1..k] + g[k + 1]
<1>1. ASSUME NEW s \in SUBSET (1..n)
      PROVE  h[s] = IF s = {} THEN 0 ELSE h[s \ {Max(s)}] + g[Max(s)]
  BY DEF Totals
<1>2. h[1..0] = 0
  <2>1. 1..0 = {}
    OBVIOUS
  <2> QED
    BY <1>1, <2>1
<1>3. ASSUME NEW k \in Nat, k + 1 <= n
      PROVE  h[1..(k + 1)] = h[1..k] + g[k + 1]
  <2>1. PICK s \in SUBSET (1..n) : s = 1..(k + 1)
    BY <1>3
  <2>2. k + 1 \in s /\ s # {}
    BY <2>1
  <2>3. Max(s) \in s /\ Max(s) >= k + 1
    BY <2>2, MaxIs
  <2>4. Max(s) = k + 1
    BY <2>1, <2>3
  <2>5. s \ {k + 1} = 1..k
    BY <2>1
  <2> QED
    BY <1>1, <2>1, <2>2, <2>4, <2>5
<1> QED
  BY <1>2, <1>3

(* Terms that are no larger add up to no more.                              *)
LEMMA TotalsOrder ==
  ASSUME NEW n \in Nat, NEW g, NEW h, NEW f, NEW m, Totals(h, g, n), Totals(m, f, n),
         \A i \in 1..n : f[i] \in Nat /\ g[i] \in Nat /\ f[i] <= g[i]
  PROVE  h[1..n] \in Nat /\ m[1..n] \in Nat /\ m[1..n] <= h[1..n]
<1> DEFINE P == {k \in Nat : k <= n => /\ h[1..k] \in Nat /\ m[1..k] \in Nat
                                       /\ m[1..k] <= h[1..k]}
<1>1. 0 \in P
  BY TotalsGrow
<1>2. ASSUME NEW k \in Nat, k \in P PROVE k + 1 \in P
  <2> SUFFICES ASSUME k + 1 <= n
               PROVE  /\ h[1..(k + 1)] \in Nat /\ m[1..(k + 1)] \in Nat
                      /\ m[1..(k + 1)] <= h[1..(k + 1)]
    OBVIOUS
  <2>1. h[1..k] \in Nat /\ m[1..k] \in Nat /\ m[1..k] <= h[1..k]
    BY <1>2
  <2>2. h[1..(k + 1)] = h[1..k] + g[k + 1] /\ m[1..(k + 1)] = m[1..k] + f[k + 1]
    BY TotalsGrow
  <2>3. k + 1 \in 1..n
    OBVIOUS
  <2>4. g[k + 1] \in Nat /\ f[k + 1] \in Nat /\ f[k + 1] <= g[k + 1]
    BY <2>3
  <2> QED
    BY <2>1, <2>2, <2>4
<1>3. n \in P
  <2> HIDE DEF P
  <2> QED
    BY <1>1, <1>2, Counting
<1> QED
  BY <1>3

(* How far the close moved in bar first + i.                                *)
MoveAt(candles, first, i) ==
  LET d == candles[first + i].close - candles[first + i - 1].close
  IN  IF d < 0 THEN -d ELSE d

(* The true range of bar first + i.                                         *)
RangeAt(candles, first, i) == TrueRange(candles[first + i - 1].close, candles[first + i])

(* The sum of those moves over n bars, as the property folds them.          *)
MovesOf(candles, first, n) ==
  FoldLeft(LAMBDA sum, i : sum + MoveAt(candles, first, i), 0, [i \in 1..n |-> i])

(* That sum is the last entry of a table of totals.                         *)
LEMMA MovesAre ==
  ASSUME NEW n \in Nat, NEW candles, NEW first, NEW f,
         f = [i \in 1..n |-> MoveAt(candles, first, i)], \A i \in 1..n : f[i] \in Int
  PROVE  \E h : Totals(h, f, n) /\ MovesOf(candles, first, n) = h[1..n]
<1> DEFINE last(s) == MoveAt(candles, first, [i \in 1..n |-> i][Max(s)])
           R(k) == k = [s \in SUBSET (1..n) |-> IF s = {} THEN 0
                                                 ELSE k[s \ {Max(s)}] + last(s)]
<1>1. ASSUME NEW s \in SUBSET (1..n), s # {}
      PROVE  f[Max(s)] = last(s)
  <2>1. Max(s) \in 1..n
    BY <1>1, MaxIs
  <2>2. [i \in 1..n |-> i][Max(s)] = Max(s)
    BY <2>1
  <2> QED
    BY <2>1, <2>2
<1>2. PICK h : R(h)
  <2>1. PICK h : Totals(h, f, n)
    BY TotalsExist
  <2>2. R(h)
    <3> HIDE DEF last
    <3> QED
      BY <1>1, <2>1 DEF Totals
  <2> QED
    BY <2>2
<1>3. PICK k : k = (CHOOSE j : R(j))
  OBVIOUS
<1>4. R(k)
  <2> HIDE DEF R
  <2> QED
    BY <1>2, <1>3
<1>5. Totals(k, f, n)
  <2> HIDE DEF last
  <2> QED
    BY <1>1, <1>4 DEF Totals
<1>6. DOMAIN [i \in 1..n |-> i] = 1..n
  OBVIOUS
<1>7. MovesOf(candles, first, n) = k[1..n]
  BY <1>3, <1>6 DEF MovesOf, FoldLeft, MapThenFoldSet
<1> QED
  BY <1>5, <1>7

(* A gap is part of the range: the close moved no further than the range    *)
(* that the bar's ends and the close before it span.                        *)
LEMMA RangeIs ==
  ASSUME NEW bar \in Bars, NEW before \in Bars
  PROVE  /\ TrueRange(before.close, bar) \in Nat
         /\ \A d \in Int : d = bar.close - before.close =>
              (IF d < 0 THEN -d ELSE d) <= TrueRange(before.close, bar)
<1>1. PICK high \in 0..MAX, low \in 0..MAX, close \in 0..MAX, prev \in 0..MAX :
        /\ high = bar.high /\ low = bar.low /\ close = bar.close /\ prev = before.close
        /\ low <= close /\ close <= high
  BY DEF Bars
<1>2. /\ high \in Nat /\ low \in Nat /\ close \in Nat /\ prev \in Nat /\ MAX \in Nat
      /\ high <= MAX /\ low <= MAX /\ close <= MAX /\ prev <= MAX
  BY ScaleIs
<1>3. ASSUME NEW x \in Nat, NEW y \in Nat, x <= MAX, y <= MAX
      PROVE  SaturatingSub(x, y) = x - y /\ Abs(x - y) = IF x - y < 0 THEN -(x - y) ELSE x - y
  BY <1>3, ScaleIs DEF SaturatingSub, Saturate, Abs, Greater, Lesser
<1>4. TrueRange(prev, bar) = Greater(high - low,
        Greater(IF high - prev < 0 THEN -(high - prev) ELSE high - prev,
                IF low - prev < 0 THEN -(low - prev) ELSE low - prev))
  <2>1. /\ SaturatingSub(high, low) = high - low
        /\ SaturatingSub(high, prev) = high - prev /\ SaturatingSub(low, prev) = low - prev
    BY <1>2, <1>3
  <2>2. /\ Abs(high - prev) = IF high - prev < 0 THEN -(high - prev) ELSE high - prev
        /\ Abs(low - prev) = IF low - prev < 0 THEN -(low - prev) ELSE low - prev
    BY <1>2, <1>3
  <2>3. TrueRange(prev, bar) = Greater(high - low, Greater(Abs(high - prev), Abs(low - prev)))
    BY <1>1, <2>1 DEF TrueRange
  <2> QED
    BY <2>2, <2>3
<1>5. PICK r : r = TrueRange(prev, bar)
  OBVIOUS
<1>6. /\ r \in Nat /\ r >= high - low /\ r >= high - prev
      /\ r >= prev - high /\ r >= low - prev /\ r >= prev - low
  BY <1>1, <1>2, <1>4, <1>5 DEF Greater
<1> QED
  BY <1>1, <1>2, <1>5, <1>6

(* Over the last n bars, and the one before them, every close moved no      *)
(* further than its bar's true range.                                       *)
LEMMA WindowIs ==
  ASSUME NEW n \in Nat, NEW candles \in Seq(Bars), Len(candles) >= n + 1,
         NEW first, first = Len(candles) - n, NEW i \in 1..n
  PROVE  /\ RangeAt(candles, first, i) \in Nat /\ MoveAt(candles, first, i) \in Nat
         /\ MoveAt(candles, first, i) <= RangeAt(candles, first, i)
<1>1. first \in Nat /\ first + i \in 1..Len(candles) /\ first + i - 1 \in 1..Len(candles)
  OBVIOUS
<1>2. PICK bar \in Bars, before \in Bars :
        bar = candles[first + i] /\ before = candles[first + i - 1]
  BY <1>1
<1>3. bar.close \in Int /\ before.close \in Int
  BY ScaleIs DEF Bars
<1>4. PICK d \in Int : d = bar.close - before.close
  BY <1>3
<1>5. MoveAt(candles, first, i) = IF d < 0 THEN -d ELSE d
  BY <1>2, <1>4 DEF MoveAt
<1>6. RangeAt(candles, first, i) = TrueRange(before.close, bar)
  BY <1>2 DEF RangeAt
<1>7. /\ TrueRange(before.close, bar) \in Nat
      /\ (IF d < 0 THEN -d ELSE d) <= TrueRange(before.close, bar)
  BY <1>4, RangeIs
<1> QED
  BY <1>4, <1>5, <1>6, <1>7

(* What atr computes: the mean of the table's sum.                          *)
LEMMA AtrIs ==
  ASSUME NEW n \in Nat, NEW candles, NEW first, first = Len(candles) - n, NEW g,
         g = [i \in 1..n |-> RangeAt(candles, first, i)], \A i \in 1..n : g[i] \in Int,
         atr(candles, n) # None
  PROVE  /\ n # 0 /\ ~(Len(candles) < n + 1)
         /\ \E h : /\ Totals(h, g, n)
                   /\ Fit(TruncDiv(h[1..n], n)) # Refused
                   /\ atr(candles, n) = Fit(TruncDiv(h[1..n], n))
<1> DEFINE ranges == [i \in 1..n |-> TrueRange(candles[(Len(candles) - n) + i - 1].close,
                                               candles[(Len(candles) - n) + i])]
           R(k) == k = [s \in SUBSET (1..n) |-> IF s = {} THEN 0
                                                ELSE k[s \ {Max(s)}] + ranges[Max(s)]]
<1>1. ranges = g
  BY DEF RangeAt
<1>2. PICK h : R(h)
  <2>1. PICK h : Totals(h, g, n)
    BY TotalsExist
  <2>2. R(h)
    <3> HIDE DEF ranges
    <3> QED
      BY <1>1, <2>1 DEF Totals
  <2> QED
    BY <2>2
<1>3. PICK k : k = (CHOOSE j : R(j))
  OBVIOUS
<1>4. R(k)
  <2> HIDE DEF R
  <2> QED
    BY <1>2, <1>3
<1>5. Totals(k, g, n)
  <2> HIDE DEF ranges
  <2> QED
    BY <1>1, <1>4 DEF Totals
<1>6. DOMAIN ranges = 1..n
  OBVIOUS
<1>7. FoldLeft(LAMBDA a, b : a + b, 0, ranges) = k[1..n]
  BY <1>3, <1>6 DEF FoldLeft, MapThenFoldSet
<1>8. atr(candles, n) = IF n = 0 \/ Len(candles) < n + 1 \/ Fit(TruncDiv(k[1..n], n)) = Refused
                        THEN None ELSE Fit(TruncDiv(k[1..n], n))
  BY <1>7 DEF atr, FoldLeft, MapThenFoldSet
<1> QED
  BY <1>5, <1>8

(* The mean of the ranges, rounded down, is less than one step below them.  *)
LEMMA MeanCovers ==
  ASSUME NEW n \in Nat, NEW candles \in Seq(Bars), NEW first, first = Len(candles) - n,
         NEW value, value = atr(candles, n), value # None
  PROVE  MovesOf(candles, first, n) < (value + 1) * n
<1>1. PICK g : g = [i \in 1..n |-> RangeAt(candles, first, i)]
  OBVIOUS
<1>2. PICK f : f = [i \in 1..n |-> MoveAt(candles, first, i)]
  OBVIOUS
<1>3. n # 0 /\ ~(Len(candles) < n + 1)
  BY DEF atr, FoldLeft, MapThenFoldSet
<1>4. \A i \in 1..n : f[i] \in Nat /\ g[i] \in Nat /\ f[i] <= g[i]
  BY <1>1, <1>2, <1>3, WindowIs
<1>5. \A i \in 1..n : f[i] \in Int /\ g[i] \in Int
  BY <1>4
<1>6. PICK h : /\ Totals(h, g, n) /\ Fit(TruncDiv(h[1..n], n)) # Refused
               /\ value = Fit(TruncDiv(h[1..n], n))
  BY <1>1, <1>5, AtrIs
<1>7. PICK m : Totals(m, f, n) /\ MovesOf(candles, first, n) = m[1..n]
  BY <1>2, <1>5, MovesAre
<1>8. PICK a \in Nat, b \in Nat : a = h[1..n] /\ b = m[1..n] /\ b <= a
  <2>1. h[1..n] \in Nat /\ m[1..n] \in Nat /\ m[1..n] <= h[1..n]
    BY <1>4, <1>6, <1>7, TotalsOrder
  <2> QED
    BY <2>1
<1>9. PICK q \in Nat : q = TruncDiv(a, n) /\ a < n * q + n
  <2>1. n > 0
    BY <1>3
  <2>2. TruncDiv(a, n) \in Nat /\ a < n * TruncDiv(a, n) + n
    BY <2>1, TruncIs
  <2> QED
    BY <2>2, Zenon
<1>10. value = q
  BY <1>6, <1>8, <1>9, FitIs
<1>11. n * q + n = (q + 1) * n
  OBVIOUS
<1>12. b < (value + 1) * n
  BY <1>8, <1>9, <1>10, <1>11
<1> QED
  BY <1>7, <1>8, <1>12

(* A quiet bar does not hide a gap, for any bars and any period.            *)
THEOREM RangesCoverGaps == Spec => []RangeCoversGaps
<1>1. TradeInv => RangeCoversGaps
  <2> SUFFICES ASSUME TradeInv, trade # None
               PROVE  RangeCoversGaps
    BY DEF RangeCoversGaps
  <2>1. trade.asked \in Trades
    BY DEF TradeInv, Sized
  <2>2. trade.asked.period \in Nat /\ trade.asked.candles \in Seq(Bars)
    BY <2>1, TradeAssumption
  <2>3. ASSUME atr(trade.asked.candles, trade.asked.period) # None
        PROVE  MovesOf(trade.asked.candles, Len(trade.asked.candles) - trade.asked.period,
                       trade.asked.period)
                 < (atr(trade.asked.candles, trade.asked.period) + 1) * trade.asked.period
    BY <2>2, <2>3, MeanCovers
  <2> QED
    BY <2>3 DEF RangeCoversGaps, MovesOf, MoveAt, FoldLeft, MapThenFoldSet
<1> QED
  BY <1>1, TradeInvHolds, PTL

-----------------------------------------------------------------------------
(* The two readers of a record.                                             *)

(* One field of a walk, read by record.rs or by record.go.                  *)
Reading(who, field, b) == IF who = "go" THEN GoGet(field, b) ELSE Get(TypeOf[field], b)

Took(who, bytes, w, field) ==
  LET end   == w.at + Width(TypeOf[field])
      value == Reading(who, field, SubSeq(bytes, w.at + 1, end))
  IN  IF ~w.ok THEN w
      ELSE IF end > Len(bytes) THEN [w EXCEPT !.ok = FALSE]
      ELSE IF value = Bad THEN [w EXCEPT !.ok = FALSE]
      ELSE [at |-> end, ok |-> TRUE, of |-> With(w.of, field, value)]

(* The table of the walks over the subsets of the fields.                   *)
Walks(h, who, bytes, fields, from) ==
  h = [s \in SUBSET (1..Len(fields)) |->
         IF s = {} THEN from ELSE Took(who, bytes, h[s \ {Max(s)}], fields[Max(s)])]

(* There is such a table.                                                   *)
LEMMA WalksExist ==
  ASSUME NEW fields, Len(fields) \in Nat, NEW who, NEW bytes, NEW from
  PROVE  \E h : Walks(h, who, bytes, fields, from)
<1> DEFINE Step(h, s) == IF s = {} THEN from
                         ELSE Took(who, bytes, h[s \ {Max(s)}], fields[Max(s)])
           P == {k \in Nat : \E h : /\ h = [s \in SUBSET (1..k) |-> h[s]]
                                    /\ \A s \in SUBSET (1..k) : h[s] = Step(h, s)}
<1>1. 0 \in P
  <2>1. \A s \in SUBSET (1..0) : s = {}
    OBVIOUS
  <2>2. PICK h : h = [s \in SUBSET (1..0) |-> from]
    OBVIOUS
  <2>3. h = [s \in SUBSET (1..0) |-> h[s]] /\ \A s \in SUBSET (1..0) : h[s] = Step(h, s)
    BY <2>1, <2>2
  <2> QED
    BY <2>3
<1>2. ASSUME NEW k \in Nat, k \in P PROVE k + 1 \in P
  <2> HIDE DEF Step
  <2>1. PICK h : \A s \in SUBSET (1..k) : h[s] = Step(h, s)
    BY <1>2, Zenon
  <2>2. PICK w : w = [s \in SUBSET (1..(k + 1)) |->
                        IF k + 1 \in s THEN Took(who, bytes, h[s \ {k + 1}], fields[k + 1])
                        ELSE h[s]]
    OBVIOUS
  <2>3. ASSUME NEW s \in SUBSET (1..(k + 1)), k + 1 \in s
        PROVE  Max(s) = k + 1 /\ s \ {k + 1} \in SUBSET (1..k) /\ s # {}
    <3>1. k + 1 \in Nat /\ s # {}
      BY <2>3
    <3>2. Max(s) \in s /\ Max(s) >= k + 1
      BY <2>3, <3>1, MaxIs
    <3>3. Max(s) \in 1..(k + 1)
      BY <3>2
    <3> QED
      BY <2>3, <3>1, <3>2, <3>3
  <2>4. ASSUME NEW s \in SUBSET (1..(k + 1)), k + 1 \notin s
        PROVE  s \in SUBSET (1..k)
    BY <2>4
  <2>5. ASSUME NEW s \in SUBSET (1..k) PROVE w[s] = h[s]
    BY <2>2
  <2>6. ASSUME NEW s \in SUBSET (1..(k + 1)) PROVE w[s] = Step(w, s)
    <3>1. CASE k + 1 \in s
      <4>1. w[s] = Took(who, bytes, h[s \ {k + 1}], fields[k + 1])
        BY <2>2, <3>1
      <4>2. w[s \ {k + 1}] = h[s \ {k + 1}]
        BY <2>3, <2>5, <3>1
      <4> QED
        BY <2>3, <3>1, <4>1, <4>2 DEF Step
    <3>2. CASE k + 1 \notin s
      <4>1. s \in SUBSET (1..k) /\ s \ {Max(s)} \in SUBSET (1..k)
        BY <2>4, <3>2
      <4>2. w[s] = Step(h, s) /\ w[s \ {Max(s)}] = h[s \ {Max(s)}]
        BY <2>1, <2>5, <4>1
      <4> QED
        BY <4>2 DEF Step
    <3> QED
      BY <3>1, <3>2
  <2>7. w = [s \in SUBSET (1..(k + 1)) |-> w[s]]
    BY <2>2
  <2>8. k + 1 \in Nat
    OBVIOUS
  <2> QED
    BY <2>6, <2>7, <2>8, Zenon
<1>3. Len(fields) \in P
  <2> HIDE DEF P
  <2> QED
    BY <1>1, <1>2, Counting
<1>4. PICK h : /\ h = [s \in SUBSET (1..Len(fields)) |-> h[s]]
               /\ \A s \in SUBSET (1..Len(fields)) : h[s] = Step(h, s)
  <2> HIDE DEF Step
  <2> QED
    BY <1>3, Zenon
<1>5. Walks(h, who, bytes, fields, from)
  BY <1>4 DEF Walks
<1> QED
  BY <1>5

(* A walk over the fields up to one is the walk before it, and that field.  *)
LEMMA WalksGrow ==
  ASSUME NEW fields, Len(fields) \in Nat, NEW who, NEW bytes, NEW from, NEW h,
         Walks(h, who, bytes, fields, from)
  PROVE  /\ h[1..0] = from
         /\ \A k \in Nat : k + 1 <= Len(fields) =>
              h[1..(k + 1)] = Took(who, bytes, h[1..k], fields[k + 1])
<1>1. ASSUME NEW s \in SUBSET (1..Len(fields))
      PROVE  h[s] = IF s = {} THEN from ELSE Took(who, bytes, h[s \ {Max(s)}], fields[Max(s)])
  BY DEF Walks
<1>2. h[1..0] = from
  <2>1. 1..0 = {}
    OBVIOUS
  <2> QED
    BY <1>1, <2>1
<1>3. ASSUME NEW k \in Nat, k + 1 <= Len(fields)
      PROVE  h[1..(k + 1)] = Took(who, bytes, h[1..k], fields[k + 1])
  <2>1. PICK s \in SUBSET (1..Len(fields)) : s = 1..(k + 1)
    <3>1. PICK n \in Nat : n = Len(fields)
      OBVIOUS
    <3>2. 1..(k + 1) \in SUBSET (1..n)
      BY <1>3, <3>1
    <3> QED
      BY <3>1, <3>2
  <2>2. k + 1 \in s /\ s # {}
    <3>1. k + 1 \in 1..(k + 1)
      OBVIOUS
    <3> QED
      BY <2>1, <3>1, Zenon
  <2>3. Max(s) \in s /\ Max(s) >= k + 1
    BY <2>2, MaxIs
  <2>4. Max(s) = k + 1
    BY <2>1, <2>3
  <2>5. s \ {k + 1} = 1..k
    BY <2>1
  <2> QED
    BY <1>1, <2>1, <2>2, <2>4, <2>5
<1> QED
  BY <1>2, <1>3

(* A place in a walk.                                                       *)
Walking(w) == w = [at |-> w.at, ok |-> w.ok, of |-> w.of] /\ w.ok \in BOOLEAN

(* A field is a text, or of one vocabulary, or of neither kind.             *)
LEMMA KindsOfField ==
  ASSUME NEW as
  PROVE  /\ as \in DOMAIN TextWidth =>
              /\ as \notin DOMAIN Variants /\ as # "flag" /\ as # "nonzero"
              /\ as # "opt_price" /\ as \notin {"u64", "trace"}
         /\ as \in DOMAIN Variants =>
              /\ as \notin DOMAIN TextWidth /\ as # "flag" /\ as # "nonzero"
              /\ as # "opt_price" /\ as \notin {"u64", "trace"}
<1>1. DOMAIN TextWidth = {"text8", "text16", "text32", "text36", "text40", "text64", "text96"}
  BY DEF TextWidth
<1>2. DOMAIN Variants = {"Side", "OrderKind", "Authority", "OrderState", "EventKind", "Actor",
                         "DecisionKind", "ReconcileCause"}
  BY DEF Variants
<1> QED
  BY <1>1, <1>2

(* How record.rs reads a text and a variant.                                *)
LEMMA GetIs ==
  ASSUME NEW as, NEW b
  PROVE  /\ as \in DOMAIN TextWidth => Get(as, b) = from_padded(b)
         /\ as \in DOMAIN Variants =>
              Get(as, b) = IF b[1] \in 1..Variants[as] THEN b[1] ELSE Bad
<1>1. CASE as \in DOMAIN TextWidth
  <2>1. /\ as \notin DOMAIN Variants /\ as # "flag" /\ as # "nonzero"
        /\ as # "opt_price" /\ as \notin {"u64", "trace"}
    BY <1>1, KindsOfField
  <2> QED
    BY <1>1, <2>1, Zenon DEF Get
<1>2. CASE as \in DOMAIN Variants
  <2>1. /\ as \notin DOMAIN TextWidth /\ as # "flag" /\ as # "nonzero"
        /\ as # "opt_price" /\ as \notin {"u64", "trace"}
    BY <1>2, KindsOfField
  <2> QED
    BY <1>2, <2>1, Zenon DEF Get
<1> QED
  BY <1>1, <1>2

(* And how record.go does; anything else it reads the same way.             *)
LEMMA GoGetIs ==
  ASSUME NEW field, NEW b, NEW as, as = TypeOf[field]
  PROVE  /\ as \in DOMAIN TextWidth =>
              GoGet(field, b) = IF PaddedRight(b) THEN SubSeq(b, 1, TextLen(b)) ELSE Bad
         /\ as \in DOMAIN Variants =>
              GoGet(field, b) = IF field \in GoChecked /\ b[1] \notin 1..Variants[as]
                                THEN Bad ELSE b[1]
         /\ as \notin DOMAIN TextWidth /\ as \notin DOMAIN Variants => GoGet(field, b) = Get(as, b)
<1>1. CASE as \in DOMAIN TextWidth
  <2>1. as \notin DOMAIN Variants
    BY <1>1, KindsOfField
  <2> QED
    BY <1>1, <2>1, Zenon DEF GoGet
<1>2. CASE as \in DOMAIN Variants
  <2>1. as \notin DOMAIN TextWidth
    BY <1>2, KindsOfField
  <2> QED
    BY <1>2, <2>1, Zenon DEF GoGet
<1>3. CASE as \notin DOMAIN TextWidth /\ as \notin DOMAIN Variants
  BY <1>3, Zenon DEF GoGet
<1> QED
  BY <1>1, <1>2, <1>3

(* What record.rs reads of a field, record.go reads of it too.              *)
LEMMA GoReads ==
  ASSUME NEW field, NEW b, Get(TypeOf[field], b) # Bad
  PROVE  GoGet(field, b) = Get(TypeOf[field], b)
<1>1. PICK as : as = TypeOf[field]
  OBVIOUS
<1>2. CASE as \in DOMAIN TextWidth
  <2>1. from_padded(b) # Bad /\ Get(as, b) = from_padded(b)
    BY <1>1, <1>2, GetIs
  <2>2. from_padded(b) = SubSeq(b, 1, TextLen(b)) /\ PaddedRight(b)
    BY <2>1 DEF from_padded
  <2>3. GoGet(field, b) = IF PaddedRight(b) THEN SubSeq(b, 1, TextLen(b)) ELSE Bad
    BY <1>1, <1>2, GoGetIs
  <2> QED
    BY <1>1, <2>1, <2>2, <2>3
<1>3. CASE as \in DOMAIN Variants
  <2>1. Get(as, b) = IF b[1] \in 1..Variants[as] THEN b[1] ELSE Bad
    BY <1>3, GetIs
  <2>2. b[1] \in 1..Variants[as] /\ Get(as, b) = b[1]
    BY <1>1, <2>1
  <2>3. GoGet(field, b) = IF field \in GoChecked /\ b[1] \notin 1..Variants[as] THEN Bad ELSE b[1]
    BY <1>1, <1>3, GoGetIs
  <2> QED
    BY <1>1, <2>2, <2>3
<1>4. CASE as \notin DOMAIN TextWidth /\ as \notin DOMAIN Variants
  BY <1>1, <1>4, GoGetIs
<1> QED
  BY <1>2, <1>3, <1>4

(* So a walk that record.rs finishes is the one record.go makes.            *)
LEMMA GoTakes ==
  ASSUME NEW bytes, NEW w, Walking(w), NEW field
  PROVE  /\ Walking(Took("rust", bytes, w, field))
         /\ Took("rust", bytes, w, field).ok =>
              w.ok /\ Took("go", bytes, w, field) = Took("rust", bytes, w, field)
<1>1. PICK end : end = w.at + Width(TypeOf[field])
  OBVIOUS
<1>2. PICK b : b = SubSeq(bytes, w.at + 1, end)
  OBVIOUS
<1>3. PICK v, x : v = Get(TypeOf[field], b) /\ x = GoGet(field, b)
  OBVIOUS
<1>4. Took("rust", bytes, w, field) =
        IF ~w.ok THEN w
        ELSE IF end > Len(bytes) THEN [w EXCEPT !.ok = FALSE]
        ELSE IF v = Bad THEN [w EXCEPT !.ok = FALSE]
        ELSE [at |-> end, ok |-> TRUE, of |-> With(w.of, field, v)]
  BY <1>1, <1>2, <1>3 DEF Took, Reading
<1>5. Took("go", bytes, w, field) =
        IF ~w.ok THEN w
        ELSE IF end > Len(bytes) THEN [w EXCEPT !.ok = FALSE]
        ELSE IF x = Bad THEN [w EXCEPT !.ok = FALSE]
        ELSE [at |-> end, ok |-> TRUE, of |-> With(w.of, field, x)]
  BY <1>1, <1>2, <1>3 DEF Took, Reading
<1>6. v # Bad => x = v
  BY <1>3, GoReads
<1>7. PICK fail : fail = [w EXCEPT !.ok = FALSE]
  OBVIOUS
<1>8. Walking(fail) /\ ~fail.ok
  BY <1>7 DEF Walking
<1>9. PICK went : went = [at |-> end, ok |-> TRUE, of |-> With(w.of, field, v)]
  OBVIOUS
<1>10. Walking(went) /\ went.ok
  BY <1>9 DEF Walking
<1>11. CASE ~w.ok
  BY <1>4, <1>11
<1>12. CASE w.ok /\ (end > Len(bytes) \/ v = Bad)
  BY <1>4, <1>7, <1>8, <1>12
<1>13. CASE w.ok /\ ~(end > Len(bytes)) /\ v # Bad
  BY <1>4, <1>5, <1>6, <1>9, <1>10, <1>13
<1> QED
  BY <1>11, <1>12, <1>13

(* Field by field, from the same place.                                     *)
LEMMA WalksAgree ==
  ASSUME NEW fields, Len(fields) \in Nat, NEW bytes, NEW from, Walking(from),
         NEW h, Walks(h, "rust", bytes, fields, from),
         NEW g, Walks(g, "go", bytes, fields, from)
  PROVE  /\ Walking(h[1..Len(fields)])
         /\ h[1..Len(fields)].ok => g[1..Len(fields)] = h[1..Len(fields)]
<1> DEFINE Same(k) == Walking(h[1..k]) /\ (h[1..k].ok => g[1..k] = h[1..k])
           P == {k \in Nat : k <= Len(fields) => Same(k)}
<1>1. /\ h[1..0] = from
      /\ \A k \in Nat : k + 1 <= Len(fields) =>
           h[1..(k + 1)] = Took("rust", bytes, h[1..k], fields[k + 1])
  BY WalksGrow
<1>2. /\ g[1..0] = from
      /\ \A k \in Nat : k + 1 <= Len(fields) =>
           g[1..(k + 1)] = Took("go", bytes, g[1..k], fields[k + 1])
  BY WalksGrow
<1>3. 0 \in P
  BY <1>1, <1>2
<1>4. ASSUME NEW k \in Nat, k \in P PROVE k + 1 \in P
  <2> SUFFICES ASSUME k + 1 <= Len(fields) PROVE Same(k + 1)
    OBVIOUS
  <2>1. Same(k)
    BY <1>4
  <2>2. PICK w, x, y, z : w = h[1..k] /\ x = g[1..k] /\ y = h[1..(k + 1)] /\ z = g[1..(k + 1)]
    OBVIOUS
  <2>3. PICK field : field = fields[k + 1]
    OBVIOUS
  <2>4. y = Took("rust", bytes, w, field) /\ z = Took("go", bytes, x, field)
    BY <1>1, <1>2, <2>2, <2>3
  <2>5. Walking(w) /\ (w.ok => x = w)
    BY <2>1, <2>2
  <2>6. Walking(y) /\ (y.ok => w.ok /\ Took("go", bytes, w, field) = y)
    BY <2>4, <2>5, GoTakes
  <2>7. y.ok => z = y
    BY <2>4, <2>5, <2>6
  <2> QED
    BY <2>2, <2>6, <2>7
<1>5. Len(fields) \in P
  <2> HIDE DEF P
  <2> QED
    BY <1>3, <1>4, Counting
<1> QED
  BY <1>5

RustWalk(bytes, fields, from) ==
  Walk(LAMBDA field, b : Get(TypeOf[field], b), bytes, fields, from)
GoWalk(bytes, fields, from) == Walk(GoGet, bytes, fields, from)

(* The walk of record.rs is the last entry of its table.                    *)
LEMMA RustWalkIs ==
  ASSUME NEW fields, Len(fields) \in Nat, DOMAIN fields = 1..Len(fields), NEW bytes, NEW from
  PROVE  \E h : /\ Walks(h, "rust", bytes, fields, from)
                /\ RustWalk(bytes, fields, from) = h[1..Len(fields)]
<1> DEFINE step(w, field) ==
             LET as    == TypeOf[field]
                 end   == w.at + Width(as)
                 value == Get(TypeOf[field], SubSeq(bytes, w.at + 1, end))
             IN  IF ~w.ok THEN w
                 ELSE IF end > Len(bytes) THEN [w EXCEPT !.ok = FALSE]
                 ELSE IF value = Bad THEN [w EXCEPT !.ok = FALSE]
                 ELSE [at |-> end, ok |-> TRUE, of |-> With(w.of, field, value)]
           R(k) == k = [s \in SUBSET (DOMAIN fields) |->
                          IF s = {} THEN from ELSE step(k[s \ {Max(s)}], fields[Max(s)])]
<1>1. ASSUME NEW w, NEW field PROVE step(w, field) = Took("rust", bytes, w, field)
  BY DEF Took, Reading
<1>2. ASSUME NEW h PROVE R(h) <=> Walks(h, "rust", bytes, fields, from)
  <2> HIDE DEF step
  <2> QED
    BY <1>1 DEF Walks
<1>3. PICK h : R(h)
  <2> HIDE DEF R
  <2> QED
    BY <1>2, WalksExist
<1>4. PICK k : k = (CHOOSE j : R(j))
  OBVIOUS
<1>5. R(k)
  <2> HIDE DEF R
  <2> QED
    BY <1>3, <1>4
<1>6. Walks(k, "rust", bytes, fields, from)
  <2> HIDE DEF R
  <2> QED
    BY <1>2, <1>5
<1>7. RustWalk(bytes, fields, from) = k[DOMAIN fields]
  BY <1>4 DEF RustWalk, Walk, FoldLeft, MapThenFoldSet
<1> QED
  BY <1>6, <1>7

(* And the walk of record.go is the last entry of its own.                  *)
LEMMA GoWalkIs ==
  ASSUME NEW fields, Len(fields) \in Nat, DOMAIN fields = 1..Len(fields), NEW bytes, NEW from
  PROVE  \E h : /\ Walks(h, "go", bytes, fields, from)
                /\ GoWalk(bytes, fields, from) = h[1..Len(fields)]
<1> DEFINE step(w, field) ==
             LET as    == TypeOf[field]
                 end   == w.at + Width(as)
                 value == GoGet(field, SubSeq(bytes, w.at + 1, end))
             IN  IF ~w.ok THEN w
                 ELSE IF end > Len(bytes) THEN [w EXCEPT !.ok = FALSE]
                 ELSE IF value = Bad THEN [w EXCEPT !.ok = FALSE]
                 ELSE [at |-> end, ok |-> TRUE, of |-> With(w.of, field, value)]
           R(k) == k = [s \in SUBSET (DOMAIN fields) |->
                          IF s = {} THEN from ELSE step(k[s \ {Max(s)}], fields[Max(s)])]
<1>1. ASSUME NEW w, NEW field PROVE step(w, field) = Took("go", bytes, w, field)
  BY DEF Took, Reading
<1>2. ASSUME NEW h PROVE R(h) <=> Walks(h, "go", bytes, fields, from)
  <2> HIDE DEF step
  <2> QED
    BY <1>1 DEF Walks
<1>3. PICK h : R(h)
  <2> HIDE DEF R
  <2> QED
    BY <1>2, WalksExist
<1>4. PICK k : k = (CHOOSE j : R(j))
  OBVIOUS
<1>5. R(k)
  <2> HIDE DEF R
  <2> QED
    BY <1>3, <1>4
<1>6. Walks(k, "go", bytes, fields, from)
  <2> HIDE DEF R
  <2> QED
    BY <1>2, <1>5
<1>7. GoWalk(bytes, fields, from) = k[DOMAIN fields]
  BY <1>4 DEF GoWalk, Walk, FoldLeft, MapThenFoldSet
<1> QED
  BY <1>6, <1>7

(* The lists of fields are sequences.                                       *)
Listed(fields) == Len(fields) \in Nat /\ fields = [i \in 1..Len(fields) |-> fields[i]]

(* Over one list, the walk record.rs finishes is the walk of record.go.     *)
LEMMA WalkedAlike ==
  ASSUME NEW fields, Listed(fields), NEW bytes, NEW from, Walking(from),
         NEW w, w = RustWalk(bytes, fields, from)
  PROVE  Walking(w) /\ (w.ok => GoWalk(bytes, fields, from) = w)
<1>1. Len(fields) \in Nat /\ DOMAIN fields = 1..Len(fields)
  BY DEF Listed
<1>2. PICK h : Walks(h, "rust", bytes, fields, from) /\ w = h[1..Len(fields)]
  BY <1>1, RustWalkIs
<1>3. PICK g : /\ Walks(g, "go", bytes, fields, from)
               /\ GoWalk(bytes, fields, from) = g[1..Len(fields)]
  BY <1>1, GoWalkIs
<1> QED
  BY <1>1, <1>2, <1>3, WalksAgree

(* The encoder and the two decoders list the same fields for every kind.    *)
LEMMA FieldsOfKind ==
  ASSUME NEW kind \in RecordKinds
  PROVE  /\ Listed(Read(kind))
         /\ GoFields(kind) = Read(kind) /\ Written(kind) = Read(kind)
         /\ kind = "OrderEvent" => Len(Read(kind)) = 6 /\ Read(kind)[6] = "event"
<1>1. CASE kind = "EpochClaimed"
  <2>1. Read(kind) = <<"epoch", "resumed_from">>
    BY <1>1 DEF Read
  <2> QED
    BY <2>1, <1>1 DEF GoFields, Written, Listed
<1>2. CASE kind = "IntentPersisted"
  <2>1. Read(kind) = <<"client_order_id", "instrument", "side", "order_kind", "authority", "qty",
                       "limit_price", "stop_price", "quote_at_decision", "trace_id">>
    BY <1>2 DEF Read
  <2> QED
    BY <2>1, <1>2 DEF GoFields, Written, Listed
<1>3. CASE kind = "OrderEvent"
  <2>1. Read(kind) = <<"client_order_id", "trace_id", "from_state", "to_state", "applied",
                       "event">>
    BY <1>3 DEF Read
  <2> QED
    BY <2>1, <1>3 DEF GoFields, Written, Listed
<1>4. CASE kind = "Decision"
  <2>1. Read(kind) = <<"instrument", "actor", "decision_kind", "trace_id", "value", "note">>
    BY <1>4 DEF Read
  <2> QED
    BY <2>1, <1>4 DEF GoFields, Written, Listed
<1>5. CASE kind = "Mark"
  <2>1. Read(kind) = <<"instrument", "price">>
    BY <1>5 DEF Read
  <2> QED
    BY <2>1, <1>5 DEF GoFields, Written, Listed
<1>6. CASE kind = "Balance"
  <2>1. Read(kind) = <<"asset", "amount">>
    BY <1>6 DEF Read
  <2> QED
    BY <2>1, <1>6 DEF GoFields, Written, Listed
<1>7. CASE kind = "Ticked"
  <2>1. Read(kind) = <<>>
    BY <1>7 DEF Read
  <2> QED
    BY <2>1, <1>7 DEF GoFields, Written, Listed
<1> QED
  BY <1>1, <1>2, <1>3, <1>4, <1>5, <1>6, <1>7 DEF RecordKinds

(* And for every event, the ones without fields of their own included.      *)
LEMMA FieldsOfEvent ==
  ASSUME NEW event
  PROVE  /\ Listed(decode_event(event))
         /\ GoEventFields(event) = decode_event(event)
         /\ encode_event(event) = decode_event(event)
<1>1. CASE event = 2
  <2>1. decode_event(event) = <<"venue_order_id">>
    BY <1>1 DEF decode_event
  <2> QED
    BY <2>1, <1>1 DEF GoEventFields, encode_event, Listed
<1>2. CASE event = 3
  <2>1. decode_event(event) = <<"code", "text">>
    BY <1>2 DEF decode_event
  <2> QED
    BY <2>1, <1>2 DEF GoEventFields, encode_event, Listed
<1>3. CASE event = 5
  <2>1. decode_event(event) = <<"exec_id", "qty", "price">>
    BY <1>3 DEF decode_event
  <2> QED
    BY <2>1, <1>3 DEF GoEventFields, encode_event, Listed
<1>4. CASE event = 8
  <2>1. decode_event(event) = <<"cause">>
    BY <1>4 DEF decode_event
  <2> QED
    BY <2>1, <1>4 DEF GoEventFields, encode_event, Listed
<1>5. CASE event = 9
  <2>1. decode_event(event) = <<"state", "known", "venue_order_id", "filled_qty">>
    BY <1>5 DEF decode_event
  <2> QED
    BY <2>1, <1>5 DEF GoEventFields, encode_event, Listed
<1>6. CASE event # 2 /\ event # 3 /\ event # 5 /\ event # 8 /\ event # 9
  <2>1. decode_event(event) = <<>>
    BY <1>6 DEF decode_event
  <2> QED
    BY <2>1, <1>6 DEF GoEventFields, encode_event, Listed
<1> QED
  BY <1>1, <1>2, <1>3, <1>4, <1>5, <1>6

(* A whole record: its own fields and, of an order event, the event's.      *)
RustRead(kind, bytes) ==
  LET head == RustWalk(bytes, Read(kind), Start)
  IN  IF kind = "OrderEvent" /\ head.ok
      THEN RustWalk(bytes, decode_event(head.of.event), head) ELSE head
GoRead(kind, bytes) ==
  LET head == GoWalk(bytes, GoFields(kind), Start)
  IN  IF kind = "OrderEvent" /\ head.ok
      THEN GoWalk(bytes, GoEventFields(head.of.event), head) ELSE head

(* What the engine makes of it, and what the projector does.                *)
LEMMA DecodeIs ==
  ASSUME NEW kind, NEW bytes
  PROVE  /\ decode(kind, bytes) =
              IF /\ finish(RustRead(kind, bytes), bytes)
                 /\ kind = "IntentPersisted" => IntentAllowed(RustRead(kind, bytes).of)
              THEN [kind |-> kind, of |-> OnlyIfKnown(RustRead(kind, bytes).of)]
              ELSE Bad
         /\ GoDecode(kind, bytes) =
              IF finish(GoRead(kind, bytes), bytes)
              THEN [kind |-> kind, of |-> GoView(GoRead(kind, bytes).of)] ELSE Bad
<1>1. decode(kind, bytes) =
        IF /\ finish(RustRead(kind, bytes), bytes)
           /\ kind = "IntentPersisted" => IntentAllowed(RustRead(kind, bytes).of)
        THEN [kind |-> kind, of |-> OnlyIfKnown(RustRead(kind, bytes).of)]
        ELSE Bad
  BY DEF decode, RustRead, RustWalk, Walk, FoldLeft, MapThenFoldSet
<1>2. GoDecode(kind, bytes) =
        IF finish(GoRead(kind, bytes), bytes)
        THEN [kind |-> kind, of |-> GoView(GoRead(kind, bytes).of)] ELSE Bad
  BY DEF GoDecode, GoRead, GoWalk, Walk, FoldLeft, MapThenFoldSet
<1> QED
  BY <1>1, <1>2

(* The two read a whole record alike.                                       *)
LEMMA ReadAlike ==
  ASSUME NEW kind \in RecordKinds, NEW bytes, NEW all, all = RustRead(kind, bytes)
  PROVE  Walking(all) /\ (all.ok => GoRead(kind, bytes) = all)
<1>1. Walking(Start)
  BY DEF Walking, Start
<1>2. Listed(Read(kind)) /\ GoFields(kind) = Read(kind)
  BY FieldsOfKind
<1>3. PICK head : head = RustWalk(bytes, Read(kind), Start)
  OBVIOUS
<1>4. Walking(head) /\ (head.ok => GoWalk(bytes, GoFields(kind), Start) = head)
  BY <1>1, <1>2, <1>3, WalkedAlike
<1>5. CASE kind = "OrderEvent" /\ head.ok
  <2>1. PICK fields : fields = decode_event(head.of.event)
    OBVIOUS
  <2>2. Listed(fields) /\ GoEventFields(head.of.event) = fields
    BY <2>1, FieldsOfEvent
  <2>3. all = RustWalk(bytes, fields, head)
    BY <1>3, <1>5, <2>1 DEF RustRead
  <2>4. Walking(all) /\ (all.ok => GoWalk(bytes, fields, head) = all)
    BY <1>4, <2>2, <2>3, WalkedAlike
  <2>5. GoRead(kind, bytes) = GoWalk(bytes, fields, head)
    BY <1>4, <1>5, <2>2 DEF GoRead
  <2> QED
    BY <2>4, <2>5
<1>6. CASE ~(kind = "OrderEvent" /\ head.ok)
  <2>1. all = head
    BY <1>3, <1>6 DEF RustRead
  <2>2. head.ok => GoRead(kind, bytes) = head
    BY <1>4, <1>6 DEF GoRead
  <2> QED
    BY <1>4, <2>1, <2>2
<1> QED
  BY <1>5, <1>6

(* Dropping an unknown id twice is dropping it once.                        *)
LEMMA ViewIs ==
  ASSUME NEW of
  PROVE  GoView(OnlyIfKnown(of)) = GoView(of)
<1>1. CASE "known" \in DOMAIN of /\ ~of.known
  <2>1. PICK less : less = [of EXCEPT !.venue_order_id = <<>>]
    OBVIOUS
  <2>2. DOMAIN less = DOMAIN of /\ less.known = of.known
    BY <1>1, <2>1
  <2>3. [less EXCEPT !.venue_order_id = <<>>] = less
    BY <2>1
  <2>4. OnlyIfKnown(of) = less
    BY <1>1, <2>1 DEF OnlyIfKnown
  <2>5. OnlyIfKnown(less) = less
    BY <1>1, <2>2, <2>3 DEF OnlyIfKnown
  <2> QED
    BY <2>2, <2>4, <2>5 DEF GoView
<1>2. CASE ~("known" \in DOMAIN of /\ ~of.known)
  BY <1>2 DEF OnlyIfKnown
<1> QED
  BY <1>1, <1>2

(* Whatever bytes the engine can fold, the projector decodes to the same    *)
(* record.                                                                  *)
LEMMA DecodedAlike ==
  ASSUME NEW kind \in RecordKinds, NEW bytes, NEW rust, rust = decode(kind, bytes), rust # Bad
  PROVE  GoDecode(kind, bytes) = [kind |-> rust.kind, of |-> GoView(rust.of)]
<1>1. PICK all : all = RustRead(kind, bytes)
  OBVIOUS
<1>2. finish(all, bytes) /\ rust = [kind |-> kind, of |-> OnlyIfKnown(all.of)]
  BY <1>1, DecodeIs
<1>3. GoRead(kind, bytes) = all
  BY <1>1, <1>2, ReadAlike DEF finish
<1>4. GoDecode(kind, bytes) = [kind |-> kind, of |-> GoView(all.of)]
  BY <1>2, <1>3, DecodeIs
<1>5. rust.kind = kind /\ rust.of = OnlyIfKnown(all.of)
  BY <1>2
<1>6. GoView(rust.of) = GoView(all.of)
  BY <1>5, ViewIs
<1> QED
  BY <1>4, <1>5, <1>6

(* Whatever happens to the bytes of a record, its kind is one of the seven: *)
(* the frame's header holds it, and refuses one that is not (format.rs).    *)
KindInv == record.kind \in RecordKinds

(* The kind is kept: damage is done to the bytes.                           *)
LEMMA KindInvHolds == Spec => []KindInv
<1>1. Init => KindInv
  <2> SUFFICES ASSUME Init PROVE KindInv
    OBVIOUS
  <2>1. CASE desk = "record"
    <3>1. record \in Samples
      BY <2>1 DEF Init, CodecInit
    <3> QED
      BY <3>1, RecordAssumption DEF KindInv, IsRecord
  <2>2. CASE desk # "record"
    <3>1. record = [kind |-> "Ticked", of |-> <<>>]
      BY <2>2 DEF Init
    <3> QED
      BY <3>1 DEF KindInv, RecordKinds
  <2> QED
    BY <2>1, <2>2
<1>2. KindInv /\ [Next]_vars => KindInv'
  <2> SUFFICES ASSUME KindInv, [Next]_vars PROVE KindInv'
    OBVIOUS
  <2>1. UNCHANGED record
    BY DEF Next, vars, codecVars, CodecNext, Cut, Lengthen, Change
  <2> QED
    BY <2>1 DEF KindInv
<1> QED
  BY <1>1, <1>2, PTL DEF Spec

(* The two readers never tell different stories: whatever the bytes, cut,   *)
(* lengthened or changed, what record.rs decodes record.go decodes to the   *)
(* same record.                                                             *)
THEOREM ReadersTellOneStory == Spec => []ReadersAgree
<1>1. KindInv => ReadersAgree
  <2> SUFFICES ASSUME KindInv, decode(record.kind, payload) # Bad
               PROVE  GoDecode(record.kind, payload) =
                        [kind |-> decode(record.kind, payload).kind,
                         of   |-> GoView(decode(record.kind, payload).of)]
    BY DEF ReadersAgree
  <2>1. record.kind \in RecordKinds
    BY DEF KindInv
  <2> QED
    BY <2>1, DecodedAlike
<1> QED
  BY <1>1, KindInvHolds, PTL

-----------------------------------------------------------------------------
(* The length of a payload.                                                 *)

(* Bytes appended to bytes.                                                 *)
LEMMA JoinedIs ==
  ASSUME NEW S, NEW s \in Seq(S), NEW t \in Seq(S)
  PROVE  /\ s \o t \in Seq(S) /\ Len(s \o t) = Len(s) + Len(t)
         /\ Len(s) \in Nat /\ Len(t) \in Nat
         /\ \A i \in 1..Len(s) : (s \o t)[i] = s[i]
         /\ \A i \in 1..Len(t) : (s \o t)[Len(s) + i] = t[i]
  OBVIOUS

(* A field as it is written takes its width.                                *)
LEMMA WidthIs ==
  ASSUME NEW kind
  PROVE  /\ Width(kind) \in 1..8
         /\ kind \in {"flag", "nonzero"} \/ kind \in DOMAIN Variants => Width(kind) = 1
         /\ kind = "opt_price" => Width(kind) = 3
<1>1. DOMAIN TextWidth = {"text8", "text16", "text32", "text36", "text40", "text64", "text96"}
  BY DEF TextWidth
<1>2. ASSUME kind \in DOMAIN TextWidth
      PROVE  TextWidth[kind] \in 1..8
  <2>1. /\ TextWidth["text8"] = 2 /\ TextWidth["text16"] = 3 /\ TextWidth["text32"] = 4
        /\ TextWidth["text36"] = 5 /\ TextWidth["text40"] = 6 /\ TextWidth["text64"] = 7
        /\ TextWidth["text96"] = 8
    BY DEF TextWidth
  <2>2. TextWidth[kind] \in {2, 3, 4, 5, 6, 7, 8}
    BY <1>1, <1>2, <2>1
  <2>3. {2, 3, 4, 5, 6, 7, 8} \subseteq 1..8
    OBVIOUS
  <2> QED
    BY <2>2, <2>3, Zenon
<1>3. CASE kind \in DOMAIN TextWidth
  <2>1. kind \notin {"i64", "u64"} /\ kind \notin {"trace", "opt_price"}
    BY <1>1, <1>3
  <2>2. kind \notin {"flag", "nonzero"} /\ kind \notin DOMAIN Variants /\ kind # "opt_price"
    BY <1>3, KindsOfField
  <2>3. Width(kind) = TextWidth[kind]
    BY <1>3, <2>1, Zenon DEF Width
  <2> QED
    BY <1>2, <1>3, <2>2, <2>3
<1>4. CASE kind \in {"i64", "u64"}
  <2>1. kind \notin DOMAIN TextWidth /\ kind \notin {"trace", "opt_price"}
    BY <1>1, <1>4
  <2>2. Width(kind) = 2
    BY <1>4, <2>1, Zenon DEF Width
  <2>3. kind \notin DOMAIN Variants /\ kind \notin {"flag", "nonzero"}
    BY <1>4 DEF Variants
  <2>4. kind # "opt_price"
    BY <1>4
  <2>5. 2 \in 1..8
    OBVIOUS
  <2> QED
    BY <2>2, <2>3, <2>4, <2>5, Zenon
<1>5. CASE kind \in {"trace", "opt_price"}
  <2>1. kind \notin DOMAIN TextWidth /\ kind \notin {"i64", "u64"}
    BY <1>1, <1>5
  <2>2. Width(kind) = 3
    BY <1>5, <2>1, Zenon DEF Width
  <2>3. kind \notin DOMAIN Variants /\ kind \notin {"flag", "nonzero"}
    BY <1>5 DEF Variants
  <2>4. 3 \in 1..8
    OBVIOUS
  <2> QED
    BY <2>2, <2>3, <2>4, Zenon
<1>6. CASE /\ kind \notin DOMAIN TextWidth /\ kind \notin {"i64", "u64"}
           /\ kind \notin {"trace", "opt_price"}
  <2>1. Width(kind) = 1
    BY <1>6, Zenon DEF Width
  <2>2. kind # "opt_price"
    BY <1>6
  <2>3. 1 \in 1..8
    OBVIOUS
  <2> QED
    BY <2>1, <2>2, <2>3, Zenon
<1> QED
  BY <1>3, <1>4, <1>5, <1>6

(* A sequence given byte by byte.                                           *)
OfWidth(p, w) == p = [i \in 1..w |-> p[i]]

(* A field is written at its width, and a variant as a byte.                *)
LEMMA PutIs ==
  ASSUME NEW kind, NEW v
  PROVE  /\ OfWidth(Put(kind, v), Width(kind))
         /\ kind \in DOMAIN Variants => Put(kind, v) = LittleEndian(v, 1)
<1>1. PICK w \in Nat : w = Width(kind)
  <2>1. Width(kind) \in 1..8 /\ 1..8 \subseteq Nat
    BY WidthIs
  <2> QED
    BY <2>1, Zenon
<1>2. CASE kind \in DOMAIN TextWidth
  <2>1. kind \notin {"flag", "nonzero"} /\ kind # "opt_price" /\ kind \notin DOMAIN Variants
    BY <1>2, KindsOfField
  <2>2. Put(kind, v) = Pad(v, Width(kind))
    BY <1>2, <2>1, Zenon DEF Put
  <2>3. OfWidth(Pad(v, w), w)
    BY DEF OfWidth, Pad
  <2> QED
    BY <1>1, <2>1, <2>2, <2>3
<1>3. CASE kind \in {"flag", "nonzero"}
  <2>1. kind \notin DOMAIN TextWidth /\ kind # "opt_price" /\ kind \notin DOMAIN Variants
    BY <1>3, KindsOfField
  <2>2. Put(kind, v) = <<Flag(v)>>
    BY <1>3, <2>1, Zenon DEF Put
  <2>3. w = 1
    BY <1>1, <1>3, WidthIs
  <2>4. OfWidth(<<Flag(v)>>, 1)
    BY DEF OfWidth
  <2> QED
    BY <1>1, <2>1, <2>2, <2>3, <2>4
<1>4. CASE kind = "opt_price"
  <2>1. /\ kind \notin DOMAIN TextWidth /\ kind \notin {"flag", "nonzero"}
        /\ kind \notin DOMAIN Variants
    BY <1>4, KindsOfField
  <2>2. PICK x, y : x = Flag(v # Nothing) /\ y = (IF v = Nothing THEN 0 ELSE v)
    OBVIOUS
  <2>3. Put(kind, v) = <<x>> \o LittleEndian(y, 2)
    BY <1>4, <2>1, <2>2, Zenon DEF Put
  <2>4. PICK z : z = LittleEndian(y, 2)
    OBVIOUS
  <2>5. z = [i \in 1..2 |-> z[i]]
    BY <2>4 DEF LittleEndian
  <2>6. PICK S : x \in S /\ z[1] \in S /\ z[2] \in S
    <3>1. x \in {x, z[1], z[2]} /\ z[1] \in {x, z[1], z[2]} /\ z[2] \in {x, z[1], z[2]}
      OBVIOUS
    <3> QED
      BY <3>1, Zenon
  <2>7. z \in Seq(S) /\ Len(z) = 2 /\ <<x>> \in Seq(S) /\ Len(<<x>>) = 1
    <3>1. \A i \in 1..2 : z[i] \in S
      BY <2>6
    <3>2. z \in Seq(S) /\ Len(z) = 2
      BY <2>5, <3>1
    <3> QED
      BY <2>6, <3>2
  <2>8. OfWidth(<<x>> \o z, 3)
    <3>1. PICK u : u = <<x>> /\ u \in Seq(S) /\ Len(u) = 1
      BY <2>7
    <3>2. u \o z \in Seq(S) /\ Len(u \o z) = Len(u) + Len(z)
      BY <2>7, <3>1, JoinedIs
    <3>3. Len(u \o z) = 3
      BY <2>7, <3>1, <3>2
    <3> QED
      BY <3>1, <3>2, <3>3 DEF OfWidth
  <2>9. w = 3
    BY <1>1, <1>4, WidthIs
  <2> QED
    BY <1>1, <2>1, <2>3, <2>4, <2>8, <2>9
<1>5. CASE kind \notin DOMAIN TextWidth /\ kind \notin {"flag", "nonzero"} /\ kind # "opt_price"
  <2>1. Put(kind, v) = LittleEndian(v, Width(kind))
    BY <1>5, Zenon DEF Put
  <2>2. OfWidth(LittleEndian(v, w), w)
    BY DEF OfWidth, LittleEndian
  <2> QED
    BY <1>1, <2>1, <2>2, WidthIs
<1> QED
  BY <1>2, <1>3, <1>4, <1>5

(* The table of what is written of a record, over the subsets of fields.    *)
Puts(rec, field) == Put(TypeOf[field], rec.of[field])

Encodes(h, rec, fields) ==
  h = [s \in SUBSET (1..Len(fields)) |->
         IF s = {} THEN <<>> ELSE h[s \ {Max(s)}] \o Puts(rec, fields[Max(s)])]

(* There is such a table.                                                   *)
LEMMA EncodesExist ==
  ASSUME NEW fields, Len(fields) \in Nat, NEW rec
  PROVE  \E h : Encodes(h, rec, fields)
<1> DEFINE Step(h, s) == IF s = {} THEN <<>> ELSE h[s \ {Max(s)}] \o Puts(rec, fields[Max(s)])
           P == {k \in Nat : \E h : /\ h = [s \in SUBSET (1..k) |-> h[s]]
                                    /\ \A s \in SUBSET (1..k) : h[s] = Step(h, s)}
<1>1. 0 \in P
  <2>1. \A s \in SUBSET (1..0) : s = {}
    OBVIOUS
  <2>2. PICK h : h = [s \in SUBSET (1..0) |-> <<>>]
    OBVIOUS
  <2>3. h = [s \in SUBSET (1..0) |-> h[s]] /\ \A s \in SUBSET (1..0) : h[s] = Step(h, s)
    BY <2>1, <2>2
  <2> QED
    BY <2>3
<1>2. ASSUME NEW k \in Nat, k \in P PROVE k + 1 \in P
  <2> HIDE DEF Step
  <2>1. PICK h : \A s \in SUBSET (1..k) : h[s] = Step(h, s)
    BY <1>2, Zenon
  <2>2. PICK w : w = [s \in SUBSET (1..(k + 1)) |->
                        IF k + 1 \in s THEN h[s \ {k + 1}] \o Puts(rec, fields[k + 1])
                        ELSE h[s]]
    OBVIOUS
  <2>3. ASSUME NEW s \in SUBSET (1..(k + 1)), k + 1 \in s
        PROVE  Max(s) = k + 1 /\ s \ {k + 1} \in SUBSET (1..k) /\ s # {}
    <3>1. k + 1 \in Nat /\ s # {}
      BY <2>3
    <3>2. Max(s) \in s /\ Max(s) >= k + 1
      BY <2>3, <3>1, MaxIs
    <3>3. Max(s) \in 1..(k + 1)
      BY <3>2
    <3> QED
      BY <2>3, <3>1, <3>2, <3>3
  <2>4. ASSUME NEW s \in SUBSET (1..(k + 1)), k + 1 \notin s
        PROVE  s \in SUBSET (1..k)
    BY <2>4
  <2>5. ASSUME NEW s \in SUBSET (1..k) PROVE w[s] = h[s]
    BY <2>2
  <2>6. ASSUME NEW s \in SUBSET (1..(k + 1)) PROVE w[s] = Step(w, s)
    <3>1. CASE k + 1 \in s
      <4>1. w[s] = h[s \ {k + 1}] \o Puts(rec, fields[k + 1])
        BY <2>2, <3>1
      <4>2. w[s \ {k + 1}] = h[s \ {k + 1}]
        BY <2>3, <2>5, <3>1
      <4> QED
        BY <2>3, <3>1, <4>1, <4>2 DEF Step
    <3>2. CASE k + 1 \notin s
      <4>1. s \in SUBSET (1..k) /\ s \ {Max(s)} \in SUBSET (1..k)
        BY <2>4, <3>2
      <4>2. w[s] = Step(h, s) /\ w[s \ {Max(s)}] = h[s \ {Max(s)}]
        BY <2>1, <2>5, <4>1
      <4> QED
        BY <4>2 DEF Step
    <3> QED
      BY <3>1, <3>2
  <2>7. w = [s \in SUBSET (1..(k + 1)) |-> w[s]]
    BY <2>2
  <2>8. k + 1 \in Nat
    OBVIOUS
  <2> QED
    BY <2>6, <2>7, <2>8, Zenon
<1>3. Len(fields) \in P
  <2> HIDE DEF P
  <2> QED
    BY <1>1, <1>2, Counting
<1>4. PICK h : /\ h = [s \in SUBSET (1..Len(fields)) |-> h[s]]
               /\ \A s \in SUBSET (1..Len(fields)) : h[s] = Step(h, s)
  <2> HIDE DEF Step
  <2> QED
    BY <1>3, Zenon
<1>5. Encodes(h, rec, fields)
  BY <1>4 DEF Encodes
<1> QED
  BY <1>5

(* What is written up to a field is what was written before it, and it.     *)
LEMMA EncodesGrow ==
  ASSUME NEW fields, Len(fields) \in Nat, NEW rec, NEW h, Encodes(h, rec, fields)
  PROVE  /\ h[1..0] = <<>>
         /\ \A k \in Nat : k + 1 <= Len(fields) =>
              h[1..(k + 1)] = h[1..k] \o Puts(rec, fields[k + 1])
<1>1. ASSUME NEW s \in SUBSET (1..Len(fields))
      PROVE  h[s] = IF s = {} THEN <<>> ELSE h[s \ {Max(s)}] \o Puts(rec, fields[Max(s)])
  BY DEF Encodes
<1>2. h[1..0] = <<>>
  <2>1. 1..0 = {}
    OBVIOUS
  <2> QED
    BY <1>1, <2>1
<1>3. ASSUME NEW k \in Nat, k + 1 <= Len(fields)
      PROVE  h[1..(k + 1)] = h[1..k] \o Puts(rec, fields[k + 1])
  <2>1. PICK s \in SUBSET (1..Len(fields)) : s = 1..(k + 1)
    <3>1. PICK n \in Nat : n = Len(fields)
      OBVIOUS
    <3>2. 1..(k + 1) \in SUBSET (1..n)
      BY <1>3, <3>1
    <3> QED
      BY <3>1, <3>2
  <2>2. k + 1 \in s /\ s # {}
    <3>1. k + 1 \in 1..(k + 1)
      OBVIOUS
    <3> QED
      BY <2>1, <3>1, Zenon
  <2>3. Max(s) \in s /\ Max(s) >= k + 1
    BY <2>2, MaxIs
  <2>4. Max(s) = k + 1
    BY <2>1, <2>3
  <2>5. s \ {k + 1} = 1..k
    BY <2>1
  <2> QED
    BY <1>1, <2>1, <2>2, <2>4, <2>5
<1> QED
  BY <1>2, <1>3

(* Everything that is written of the fields of a record.                    *)
BytesOf(rec, fields) ==
  {Puts(rec, fields[i])[j] : i \in 1..Len(fields), j \in 1..8}

(* A field is written as so many of them.                                   *)
LEMMA PutsAre ==
  ASSUME NEW fields, Len(fields) \in Nat, NEW rec, NEW k \in Nat, k + 1 <= Len(fields),
         NEW p, p = Puts(rec, fields[k + 1])
  PROVE  /\ p \in Seq(BytesOf(rec, fields)) /\ Len(p) = Width(TypeOf[fields[k + 1]])
         /\ Len(p) \in 1..8
<1>1. PICK w \in Nat : w = Width(TypeOf[fields[k + 1]]) /\ w \in 1..8
  <2>1. Width(TypeOf[fields[k + 1]]) \in 1..8 /\ 1..8 \subseteq Nat
    BY WidthIs
  <2> QED
    BY <2>1, Zenon
<1>2. p = [i \in 1..w |-> p[i]]
  BY <1>1, PutIs DEF Puts, OfWidth
<1>3. PICK S : S = BytesOf(rec, fields)
  OBVIOUS
<1>4. \A j \in 1..w : p[j] \in S
  <2>1. k + 1 \in 1..Len(fields)
    <3>1. PICK n \in Nat : n = Len(fields)
      OBVIOUS
    <3> QED
      BY <3>1
  <2>2. \A j \in 1..8 : p[j] \in S
    BY <1>3, <2>1 DEF BytesOf
  <2>3. 1..w \subseteq 1..8
    BY <1>1
  <2> QED
    BY <2>2, <2>3
<1>5. p \in Seq(S) /\ Len(p) = w
  BY <1>2, <1>4
<1> QED
  BY <1>1, <1>3, <1>5

(* e is the table of what is written of the fields of a record.             *)
Encoded(e, rec, fields) == Len(fields) \in Nat /\ Encodes(e, rec, fields)

(* What is written is bytes, at every field.                                *)
LEMMA EncodedIs ==
  ASSUME NEW fields, NEW rec, NEW e, Encoded(e, rec, fields), NEW d \in Nat, d <= Len(fields)
  PROVE  e[1..d] \in Seq(BytesOf(rec, fields)) /\ Len(e[1..d]) \in Nat
<1>1. PICK S : S = BytesOf(rec, fields)
  OBVIOUS
<1>2. Len(fields) \in Nat /\ Encodes(e, rec, fields)
  BY DEF Encoded
<1> DEFINE P == {k \in Nat : k <= Len(fields) => e[1..k] \in Seq(S)}
<1>3. 0 \in P
  <2>1. e[1..0] = <<>>
    BY <1>2, EncodesGrow
  <2>2. <<>> \in Seq(S)
    OBVIOUS
  <2> QED
    BY <2>1, <2>2
<1>4. ASSUME NEW k \in Nat, k \in P PROVE k + 1 \in P
  <2> SUFFICES ASSUME k + 1 <= Len(fields) PROVE e[1..(k + 1)] \in Seq(S)
    OBVIOUS
  <2>1. PICK s \in Seq(S) : s = e[1..k]
    BY <1>2, <1>4
  <2>2. PICK p : p = Puts(rec, fields[k + 1])
    OBVIOUS
  <2>3. e[1..(k + 1)] = s \o p
    BY <1>2, <2>1, <2>2, EncodesGrow
  <2>4. p \in Seq(S)
    BY <1>1, <1>2, <2>2, PutsAre
  <2>5. s \o p \in Seq(S)
    BY <2>4, JoinedIs
  <2> QED
    BY <2>3, <2>5
<1>5. d \in P
  <2> HIDE DEF P
  <2> QED
    BY <1>3, <1>4, Counting
<1>6. e[1..d] \in Seq(S)
  BY <1>5
<1> QED
  BY <1>1, <1>6

(* Bytes that start like others, and bytes that hold others behind a place. *)
StartsLike(t, s) == /\ Len(s) \in Nat /\ Len(t) \in Nat /\ Len(s) <= Len(t)
                    /\ \A i \in 1..Len(s) : t[i] = s[i]
HoldsAt(t, a, p) == /\ a \in Nat /\ Len(p) \in 1..8 /\ Len(t) \in Nat /\ a + Len(p) <= Len(t)
                    /\ \A i \in 1..Len(p) : t[a + i] = p[i]

(* p, a field's own bytes, behind s are t.                                  *)
Wrote(s, t, p, field) ==
  /\ Len(p) = Width(TypeOf[field]) /\ Len(t) = Len(s) + Len(p)
  /\ StartsLike(t, s) /\ HoldsAt(t, Len(s), p)

(* Bytes appended stand behind the others.                                  *)
LEMMA JoinedHolds ==
  ASSUME NEW S, NEW s \in Seq(S), NEW p \in Seq(S), Len(p) \in 1..8, NEW t, t = s \o p
  PROVE  StartsLike(t, s) /\ HoldsAt(t, Len(s), p) /\ Len(t) = Len(s) + Len(p)
<1>1. /\ Len(t) = Len(s) + Len(p) /\ Len(s) \in Nat /\ Len(p) \in Nat
      /\ \A i \in 1..Len(s) : t[i] = s[i]
      /\ \A i \in 1..Len(p) : t[Len(s) + i] = p[i]
  BY JoinedIs
<1>2. Len(t) \in Nat /\ Len(s) <= Len(t) /\ Len(s) + Len(p) <= Len(t)
  BY <1>1
<1> QED
  BY <1>1, <1>2 DEF StartsLike, HoldsAt

(* One more field written: so many bytes more, and those before it stay.    *)
LEMMA EncodedGrows ==
  ASSUME NEW fields, NEW rec, NEW e, Encoded(e, rec, fields), NEW k \in Nat,
         k + 1 <= Len(fields), NEW s, s = e[1..k], NEW t, t = e[1..(k + 1)],
         NEW p, p = Puts(rec, fields[k + 1])
  PROVE  Wrote(s, t, p, fields[k + 1])
<1>1. PICK S : S = BytesOf(rec, fields)
  OBVIOUS
<1>2. Len(fields) \in Nat /\ Encodes(e, rec, fields)
  BY DEF Encoded
<1>3. s \in Seq(S)
  <2>1. k <= Len(fields)
    BY <1>2
  <2> QED
    BY <1>1, <2>1, EncodedIs
<1>4. p \in Seq(S) /\ Len(p) = Width(TypeOf[fields[k + 1]]) /\ Len(p) \in 1..8
  BY <1>1, <1>2, PutsAre
<1>5. t = s \o p
  BY <1>2, EncodesGrow
<1>6. StartsLike(t, s) /\ HoldsAt(t, Len(s), p) /\ Len(t) = Len(s) + Len(p)
  BY <1>3, <1>4, <1>5, JoinedHolds
<1> QED
  BY <1>4, <1>6 DEF Wrote

(* What is written stays, whatever is written behind it.                    *)
LEMMA EncodedStays ==
  ASSUME NEW fields, NEW rec, NEW e, Encoded(e, rec, fields), NEW k \in Nat, NEW d \in Nat,
         k + d <= Len(fields)
  PROVE  StartsLike(e[1..(k + d)], e[1..k])
<1>1. PICK s : s = e[1..k]
  OBVIOUS
<1>2. PICK n \in Nat : n = Len(fields)
  BY DEF Encoded
<1>3. Len(s) \in Nat
  <2>1. k <= Len(fields)
    BY <1>2
  <2> QED
    BY <1>1, <2>1, EncodedIs
<1> DEFINE P == {j \in Nat : k + j <= n => StartsLike(e[1..(k + j)], s)}
<1>4. 0 \in P
  <2>1. k + 0 = k
    OBVIOUS
  <2>2. StartsLike(s, s)
    BY <1>3 DEF StartsLike
  <2> QED
    BY <1>1, <2>1, <2>2
<1>5. ASSUME NEW j \in Nat, j \in P PROVE j + 1 \in P
  <2> SUFFICES ASSUME k + (j + 1) <= n PROVE StartsLike(e[1..(k + (j + 1))], s)
    OBVIOUS
  <2>1. PICK m \in Nat : m = k + j /\ m + 1 = k + (j + 1)
    OBVIOUS
  <2>2. m + 1 <= Len(fields) /\ k + j <= n
    BY <1>2, <2>1
  <2>3. PICK t, u, p : t = e[1..m] /\ u = e[1..(m + 1)] /\ p = Puts(rec, fields[m + 1])
    OBVIOUS
  <2>4. StartsLike(t, s)
    BY <1>5, <2>1, <2>2, <2>3
  <2>5. Wrote(t, u, p, fields[m + 1])
    BY <2>2, <2>3, EncodedGrows
  <2>6. StartsLike(u, s)
    BY <2>4, <2>5 DEF Wrote, StartsLike
  <2> QED
    BY <2>1, <2>3, <2>6
<1>6. d \in P
  <2> HIDE DEF P
  <2> QED
    BY <1>4, <1>5, Counting
<1> QED
  BY <1>1, <1>2, <1>6

(* What some bytes hold, bytes that start like them hold.                   *)
LEMMA StillHolds ==
  ASSUME NEW t, NEW a, NEW p, HoldsAt(t, a, p), NEW u, StartsLike(u, t)
  PROVE  HoldsAt(u, a, p)
<1>1. /\ a \in Nat /\ Len(p) \in 1..8 /\ Len(t) \in Nat /\ a + Len(p) <= Len(t)
      /\ \A i \in 1..Len(p) : t[a + i] = p[i]
  BY DEF HoldsAt
<1>2. Len(u) \in Nat /\ Len(t) <= Len(u) /\ \A i \in 1..Len(t) : u[i] = t[i]
  BY DEF StartsLike
<1>3. PICK w \in Nat : w = Len(p)
  BY <1>1
<1>4. a + w <= Len(u)
  BY <1>1, <1>2, <1>3
<1>5. ASSUME NEW i \in 1..w PROVE u[a + i] = p[i]
  <2>1. a + i \in 1..Len(t)
    BY <1>1, <1>3
  <2> QED
    BY <1>1, <1>2, <1>3, <2>1
<1> QED
  BY <1>1, <1>2, <1>3, <1>4, <1>5 DEF HoldsAt

(* So every field is in the bytes of the record, where those before it end. *)
LEMMA FieldWritten ==
  ASSUME NEW fields, NEW rec, NEW e, Encoded(e, rec, fields), NEW k \in Nat,
         k + 1 <= Len(fields), NEW p, p = Puts(rec, fields[k + 1])
  PROVE  /\ HoldsAt(e[1..Len(fields)], Len(e[1..k]), p)
         /\ Len(p) = Width(TypeOf[fields[k + 1]])
         /\ Len(e[1..(k + 1)]) = Len(e[1..k]) + Len(p)
<1>1. PICK s, t, whole : s = e[1..k] /\ t = e[1..(k + 1)] /\ whole = e[1..Len(fields)]
  OBVIOUS
<1>2. Wrote(s, t, p, fields[k + 1])
  BY <1>1, EncodedGrows
<1>3. PICK n \in Nat, m \in Nat : n = Len(fields) /\ m = k + 1
  BY DEF Encoded
<1>4. PICK j \in Nat : m + j = n
  <2>1. PICK j : j = n - m
    OBVIOUS
  <2>2. j \in Nat /\ m + j = n
    BY <1>3, <2>1
  <2> QED
    BY <2>2
<1>5. StartsLike(whole, t)
  <2>1. m + j <= Len(fields) /\ t = e[1..m] /\ whole = e[1..(m + j)]
    BY <1>1, <1>3, <1>4
  <2>2. StartsLike(e[1..(m + j)], e[1..m])
    BY <2>1, EncodedStays
  <2> QED
    BY <2>1, <2>2
<1>6. HoldsAt(whole, Len(s), p)
  <2>1. HoldsAt(t, Len(s), p)
    BY <1>2 DEF Wrote
  <2> QED
    BY <1>5, <2>1, StillHolds
<1> QED
  BY <1>1, <1>2, <1>6 DEF Wrote

(* The bytes of a record are the last entry of its table.                   *)
LEMMA EncodeIs ==
  ASSUME NEW rec, NEW fields, fields = FieldsOf(rec), Listed(fields)
  PROVE  \E h : Encoded(h, rec, fields) /\ encode(rec) = h[1..Len(fields)]
<1> DEFINE step(bytes, field) == bytes \o Put(TypeOf[field], rec.of[field])
           R(k) == k = [s \in SUBSET (DOMAIN fields) |->
                          IF s = {} THEN <<>> ELSE step(k[s \ {Max(s)}], fields[Max(s)])]
<1>1. Len(fields) \in Nat /\ DOMAIN fields = 1..Len(fields)
  BY DEF Listed
<1>2. ASSUME NEW h PROVE R(h) <=> Encodes(h, rec, fields)
  BY <1>1 DEF Encodes, Puts
<1>3. PICK h : R(h)
  <2> HIDE DEF R
  <2> QED
    BY <1>1, <1>2, EncodesExist
<1>4. PICK k : k = (CHOOSE j : R(j))
  OBVIOUS
<1>5. R(k)
  <2> HIDE DEF R
  <2> QED
    BY <1>3, <1>4
<1>6. Encodes(k, rec, fields)
  <2> HIDE DEF R
  <2> QED
    BY <1>2, <1>5
<1>7. encode(rec) = k[DOMAIN fields]
  BY <1>4 DEF encode, FoldLeft, MapThenFoldSet
<1>8. Encoded(k, rec, fields) /\ encode(rec) = k[1..Len(fields)]
  BY <1>1, <1>6, <1>7 DEF Encoded
<1> QED
  BY <1>8

(* A field that was read was there, at its width.                           *)
LEMMA TookIs ==
  ASSUME NEW who, NEW bytes, NEW w, Walking(w), NEW field,
         NEW y, y = Took(who, bytes, w, field),
         NEW end, end = w.at + Width(TypeOf[field]),
         NEW v, v = Reading(who, field, SubSeq(bytes, w.at + 1, end))
  PROVE  /\ Walking(y)
         /\ y.ok => /\ w.ok /\ y.at = end /\ ~(end > Len(bytes))
                    /\ v # Bad /\ y.of = With(w.of, field, v)
<1>1. y = IF ~w.ok THEN w
          ELSE IF end > Len(bytes) THEN [w EXCEPT !.ok = FALSE]
          ELSE IF v = Bad THEN [w EXCEPT !.ok = FALSE]
          ELSE [at |-> end, ok |-> TRUE, of |-> With(w.of, field, v)]
  BY DEF Took
<1>2. PICK fail : fail = [w EXCEPT !.ok = FALSE]
  OBVIOUS
<1>3. Walking(fail) /\ ~fail.ok
  BY <1>2 DEF Walking
<1>4. PICK went : went = [at |-> end, ok |-> TRUE, of |-> With(w.of, field, v)]
  OBVIOUS
<1>5. Walking(went) /\ went.at = end /\ went.of = With(w.of, field, v)
  BY <1>4 DEF Walking
<1>6. CASE ~w.ok
  BY <1>1, <1>6
<1>7. CASE w.ok /\ (end > Len(bytes) \/ v = Bad)
  BY <1>1, <1>2, <1>3, <1>7
<1>8. CASE w.ok /\ ~(end > Len(bytes)) /\ v # Bad
  BY <1>1, <1>4, <1>5, <1>8
<1> QED
  BY <1>6, <1>7, <1>8

(* A list has the fields of another, behind its first m.                    *)
Behind(all, m, fields) ==
  /\ Len(all) \in Nat /\ Len(fields) \in Nat /\ m + Len(fields) <= Len(all)
  /\ \A j \in 1..Len(fields) : all[m + j] = fields[j]

(* A walk that is not refused stands where its fields end.                  *)
LEMMA WalkMeasures ==
  ASSUME NEW all, NEW rec, NEW e, Encoded(e, rec, all),
         NEW fields, NEW m \in Nat, Behind(all, m, fields),
         NEW who, NEW bytes, NEW from, Walking(from), from.ok => from.at = Len(e[1..m]),
         NEW h, Walks(h, who, bytes, fields, from), NEW d \in Nat, d <= Len(fields)
  PROVE  /\ Walking(h[1..d])
         /\ h[1..d].ok => from.ok /\ h[1..d].at = Len(e[1..(m + d)])
<1>1. /\ Len(all) \in Nat /\ Len(fields) \in Nat /\ m + Len(fields) <= Len(all)
      /\ \A j \in 1..Len(fields) : all[m + j] = fields[j]
  BY DEF Behind
<1> DEFINE Good(k) == /\ Walking(h[1..k])
                      /\ h[1..k].ok => from.ok /\ h[1..k].at = Len(e[1..(m + k)])
           P == {k \in Nat : k <= Len(fields) => Good(k)}
<1>2. 0 \in P
  <2>1. h[1..0] = from /\ m + 0 = m
    BY <1>1, WalksGrow
  <2> QED
    BY <2>1
<1>3. ASSUME NEW k \in Nat, k \in P PROVE k + 1 \in P
  <2> SUFFICES ASSUME k + 1 <= Len(fields) PROVE Good(k + 1)
    OBVIOUS
  <2>1. Good(k)
    BY <1>3
  <2>2. PICK n \in Nat : n = m + k /\ n + 1 = m + (k + 1)
    OBVIOUS
  <2>3. n + 1 <= Len(all) /\ n <= Len(all) /\ k + 1 \in 1..Len(fields)
    BY <1>1, <2>2
  <2>4. PICK field : field = fields[k + 1]
    OBVIOUS
  <2>5. all[n + 1] = field
    BY <1>1, <2>2, <2>3, <2>4
  <2>6. PICK x : x = Width(TypeOf[field])
    OBVIOUS
  <2>7. Len(e[1..(n + 1)]) = Len(e[1..n]) + x
    <3>1. PICK s, t, p : s = e[1..n] /\ t = e[1..(n + 1)] /\ p = Puts(rec, all[n + 1])
      OBVIOUS
    <3>2. Wrote(s, t, p, all[n + 1])
      BY <2>3, <3>1, EncodedGrows
    <3> QED
      BY <2>5, <2>6, <3>1, <3>2 DEF Wrote
  <2>8. PICK w, y : w = h[1..k] /\ y = h[1..(k + 1)]
    OBVIOUS
  <2>9. y = Took(who, bytes, w, field)
    BY <1>1, <2>4, <2>8, WalksGrow
  <2>10. Walking(w) /\ (w.ok => from.ok /\ w.at = Len(e[1..n]))
    BY <2>1, <2>2, <2>8
  <2>11. Walking(y) /\ (y.ok => w.ok /\ y.at = w.at + Width(TypeOf[field]))
    <3>1. PICK end : end = w.at + Width(TypeOf[field])
      OBVIOUS
    <3>2. PICK v : v = Reading(who, field, SubSeq(bytes, w.at + 1, end))
      OBVIOUS
    <3> QED
      BY <2>9, <2>10, <3>1, <3>2, TookIs
  <2>12. y.ok => from.ok /\ y.at = Len(e[1..(n + 1)])
    BY <2>6, <2>7, <2>10, <2>11
  <2> QED
    BY <2>2, <2>8, <2>11, <2>12
<1>4. d \in P
  <2> HIDE DEF P
  <2> QED
    BY <1>2, <1>3, Counting
<1> QED
  BY <1>4

(* One list behind another.                                                 *)
LEMMA ListedJoined ==
  ASSUME NEW f, Listed(f), NEW g, Listed(g)
  PROVE  /\ Listed(f \o g) /\ Len(f \o g) = Len(f) + Len(g)
         /\ \A j \in 1..Len(f) : (f \o g)[0 + j] = f[j]
         /\ \A j \in 1..Len(g) : (f \o g)[Len(f) + j] = g[j]
<1>1. PICK m \in Nat, n \in Nat : m = Len(f) /\ n = Len(g)
  BY DEF Listed
<1>2. f = [i \in 1..m |-> f[i]] /\ g = [i \in 1..n |-> g[i]]
  BY <1>1 DEF Listed
<1>3. PICK S : (\A i \in 1..m : f[i] \in S) /\ (\A i \in 1..n : g[i] \in S)
  <2>1. PICK T : T = {f[i] : i \in 1..m} \cup {g[i] : i \in 1..n}
    OBVIOUS
  <2>2. (\A i \in 1..m : f[i] \in T) /\ (\A i \in 1..n : g[i] \in T)
    BY <2>1
  <2> QED
    BY <2>2, Zenon
<1>4. f \in Seq(S)
  BY <1>2, <1>3
<1>5. g \in Seq(S)
  BY <1>2, <1>3
<1>6. PICK u \in Seq(S) : u = f \o g
  BY <1>4, <1>5, JoinedIs
<1>7. Listed(u)
  BY DEF Listed
<1>8. /\ Len(u) = m + n
      /\ \A j \in 1..m : u[j] = f[j]
      /\ \A j \in 1..n : u[m + j] = g[j]
  BY <1>1, <1>4, <1>5, <1>6, JoinedIs
<1>9. \A j \in 1..m : 0 + j = j
  OBVIOUS
<1> QED
  BY <1>1, <1>6, <1>7, <1>8, <1>9

(* What follows the fields every record of a kind has.                      *)
Rest(rec) == IF rec.kind = "OrderEvent" THEN decode_event(rec.of.event) ELSE <<>>

(* A record is written as its kind's fields and the rest.                   *)
LEMMA Layout ==
  ASSUME NEW rec, rec.kind \in RecordKinds, NEW all, all = FieldsOf(rec),
         NEW f, f = Read(rec.kind), NEW g, g = Rest(rec)
  PROVE  /\ Listed(all) /\ Listed(f) /\ Listed(g) /\ Len(all) = Len(f) + Len(g)
         /\ \A j \in 1..Len(f) : all[0 + j] = f[j]
         /\ \A j \in 1..Len(g) : all[Len(f) + j] = g[j]
<1>1. Listed(f) /\ Written(rec.kind) = f
  BY FieldsOfKind
<1>2. Listed(g)
  <2>1. CASE rec.kind = "OrderEvent"
    BY <2>1, FieldsOfEvent DEF Rest
  <2>2. CASE rec.kind # "OrderEvent"
    BY <2>2 DEF Rest, Listed
  <2> QED
    BY <2>1, <2>2
<1>3. all = f \o g
  <2>1. g = IF rec.kind = "OrderEvent" THEN encode_event(rec.of.event) ELSE <<>>
    BY FieldsOfEvent DEF Rest
  <2> QED
    BY <1>1, <2>1 DEF FieldsOf
<1> QED
  BY <1>1, <1>2, <1>3, ListedJoined

(* The byte an event is written as is the event.                            *)
LEMMA EventByte ==
  ASSUME NEW v \in 1..9
  PROVE  LittleEndian(v, 1)[1] = v
<1>1. PICK b \in Nat : b = BASE /\ b > 10
  BY CodecAssumption
<1>2. Place[1] = 1 /\ Place[1 + 1] = b
  BY <1>1 DEF Place
<1>3. LittleEndian(v, 1)[1] = ((v % b) \div 1) % b
  BY <1>1, <1>2 DEF LittleEndian
<1>4. v % b = v
  BY <1>1
<1>5. v \div 1 = v
  OBVIOUS
<1> QED
  BY <1>3, <1>4, <1>5

(* Either reader takes the event from its byte.                             *)
LEMMA EventIs ==
  ASSUME NEW who \in {"rust", "go"}, NEW b, NEW v, v = Reading(who, "event", b), v # Bad
  PROVE  v = b[1]
<1>1. TypeOf["event"] = "EventKind"
  BY DEF TypeOf
<1>2. "EventKind" \in DOMAIN Variants
  BY DEF Variants
<1>3. CASE who = "go"
  <2>1. v = GoGet("event", b)
    BY <1>3 DEF Reading
  <2>2. PICK in : GoGet("event", b) = IF in THEN Bad ELSE b[1]
    BY <1>1, <1>2, GoGetIs
  <2> QED
    BY <2>1, <2>2
<1>4. CASE who = "rust"
  <2>1. v = Get("EventKind", b)
    BY <1>1, <1>4 DEF Reading
  <2>2. PICK in : Get("EventKind", b) = IF in THEN b[1] ELSE Bad
    BY <1>2, GetIs
  <2> QED
    BY <2>1, <2>2
<1> QED
  BY <1>3, <1>4

(* An order event, and one of the nine.                                     *)
IsEvent(rec) == rec.kind = "OrderEvent" /\ rec.of.event \in 1..9

(* Where the event is written, behind the five fields before it.            *)
LEMMA EventWritten ==
  ASSUME NEW rec, IsEvent(rec), NEW all, all = FieldsOf(rec), NEW e, Encoded(e, rec, all),
         NEW a, a = Len(e[1..5]), NEW whole, whole = e[1..Len(all)]
  PROVE  a \in Nat /\ a + 1 <= Len(whole) /\ Len(whole) \in Nat /\ whole[a + 1] = rec.of.event
<1>1. PICK f, g : f = Read(rec.kind) /\ g = Rest(rec)
  OBVIOUS
<1>2. rec.kind \in RecordKinds
  BY DEF RecordKinds, IsEvent
<1>3. /\ Listed(all) /\ Listed(f) /\ Listed(g) /\ Len(all) = Len(f) + Len(g)
      /\ \A j \in 1..Len(f) : all[0 + j] = f[j]
  BY <1>1, <1>2, Layout
<1>4. Len(f) = 6 /\ f[6] = "event"
  BY <1>1, <1>2, FieldsOfKind DEF IsEvent
<1>5. PICK k \in Nat : k = 5 /\ k + 1 = 6 /\ k + 1 <= Len(all)
  <2>1. PICK n \in Nat : n = Len(g)
    BY <1>3 DEF Listed
  <2> QED
    BY <1>3, <1>4, <2>1
<1>6. all[k + 1] = "event"
  <2>1. 6 \in 1..Len(f) /\ 0 + 6 = 6
    BY <1>4
  <2> QED
    BY <1>3, <1>4, <1>5, <2>1
<1>7. PICK p : p = Puts(rec, all[k + 1])
  OBVIOUS
<1>8. p[1] = rec.of.event
  <2>1. TypeOf["event"] = "EventKind" /\ "EventKind" \in DOMAIN Variants
    BY DEF TypeOf, Variants
  <2>2. rec.of["event"] = rec.of.event
    OBVIOUS
  <2>3. p = LittleEndian(rec.of.event, 1)
    BY <1>6, <1>7, <2>1, <2>2, PutIs DEF Puts
  <2> QED
    BY <2>3, EventByte DEF IsEvent
<1>9. HoldsAt(whole, a, p)
  <2>1. HoldsAt(e[1..Len(all)], Len(e[1..k]), p)
    BY <1>5, <1>7, FieldWritten
  <2> QED
    BY <1>5, <2>1
<1>10. Len(p) \in 1..8
  BY <1>9 DEF HoldsAt
<1>11. 1 \in 1..Len(p)
  <2>1. \A x \in 1..8 : 1 \in 1..x
    OBVIOUS
  <2> QED
    BY <1>10, <2>1, Zenon
<1> QED
  BY <1>8, <1>9, <1>10, <1>11 DEF HoldsAt

(* The bytes of a record and the walk over the fields of its kind.          *)
Headed(h, rec, e, who, bytes) ==
  /\ rec.kind \in RecordKinds /\ Encoded(e, rec, FieldsOf(rec))
  /\ Walks(h, who, bytes, Read(rec.kind), Start)

(* That walk, from the start.                                               *)
LEMMA HeadMeasures ==
  ASSUME NEW rec, NEW e, NEW who, NEW bytes, NEW h, Headed(h, rec, e, who, bytes),
         NEW k \in Nat, k <= Len(Read(rec.kind))
  PROVE  Walking(h[1..k]) /\ (h[1..k].ok => h[1..k].at = Len(e[1..k]))
<1>1. PICK all, f, g : all = FieldsOf(rec) /\ f = Read(rec.kind) /\ g = Rest(rec)
  OBVIOUS
<1>2. /\ rec.kind \in RecordKinds /\ Encoded(e, rec, all)
      /\ Walks(h, who, bytes, f, Start) /\ k <= Len(f)
  BY <1>1 DEF Headed
<1>3. /\ Listed(all) /\ Listed(f) /\ Listed(g) /\ Len(all) = Len(f) + Len(g)
      /\ \A j \in 1..Len(f) : all[0 + j] = f[j]
  BY <1>1, <1>2, Layout
<1>4. Len(all) \in Nat /\ Len(f) \in Nat /\ 0 + Len(f) <= Len(all) /\ 0 + k = k
  <2>1. PICK m \in Nat, n \in Nat : m = Len(f) /\ n = Len(g)
    BY <1>3 DEF Listed
  <2> QED
    BY <1>3, <2>1
<1>5. Walking(Start) /\ Start.at = Len(e[1..0])
  <2>1. e[1..0] = <<>>
    BY <1>2, EncodesGrow DEF Encoded
  <2> QED
    BY <2>1 DEF Walking, Start
<1>6. PICK z \in Nat : z = 0
  OBVIOUS
<1>7. Behind(all, z, f) /\ (Start.ok => Start.at = Len(e[1..z]))
  BY <1>3, <1>4, <1>5, <1>6 DEF Behind
<1>8. /\ Walking(h[1..k])
      /\ h[1..k].ok => Start.ok /\ h[1..k].at = Len(e[1..(z + k)])
  BY <1>2, <1>5, <1>7, WalkMeasures
<1>9. z + k = k
  BY <1>6
<1> QED
  BY <1>8, <1>9

(* A step of it.                                                            *)
LEMMA HeadSteps ==
  ASSUME NEW rec, NEW e, NEW who, NEW bytes, NEW h, Headed(h, rec, e, who, bytes),
         NEW k \in Nat, k + 1 <= Len(Read(rec.kind))
  PROVE  /\ Walking(h[1..k]) /\ (h[1..k].ok => h[1..k].at = Len(e[1..k]))
         /\ h[1..(k + 1)] = Took(who, bytes, h[1..k], Read(rec.kind)[k + 1])
<1>1. PICK f : f = Read(rec.kind)
  OBVIOUS
<1>2. Len(f) \in Nat /\ Walks(h, who, bytes, f, Start)
  BY <1>1, FieldsOfKind DEF Listed, Headed
<1>3. k <= Len(f) /\ k + 1 <= Len(f)
  BY <1>1, <1>2
<1>4. Walking(h[1..k]) /\ (h[1..k].ok => h[1..k].at = Len(e[1..k]))
  BY <1>1, <1>3, HeadMeasures
<1>5. h[1..(k + 1)] = Took(who, bytes, h[1..k], f[k + 1])
  BY <1>2, <1>3, WalksGrow
<1> QED
  BY <1>1, <1>4, <1>5

(* Of an order event, the walk to the event and the event.                  *)
LEMMA HeadOfEvent ==
  ASSUME NEW rec, IsEvent(rec), NEW e, NEW who, NEW bytes, NEW h,
         Headed(h, rec, e, who, bytes), NEW w, w = h[1..5]
  PROVE  /\ Walking(w) /\ (w.ok => w.at = Len(e[1..5]))
         /\ h[1..Len(Read(rec.kind))] = Took(who, bytes, w, "event")
<1>1. PICK f : f = Read(rec.kind)
  OBVIOUS
<1>2. Len(f) = 6 /\ f[6] = "event"
  BY <1>1, FieldsOfKind DEF IsEvent, Headed
<1>3. PICK m \in Nat, n \in Nat : m = 5 /\ n = 6 /\ m + 1 = n
  OBVIOUS
<1>4. m + 1 <= Len(f)
  BY <1>2, <1>3
<1>5. /\ Walking(h[1..m]) /\ (h[1..m].ok => h[1..m].at = Len(e[1..m]))
      /\ h[1..(m + 1)] = Took(who, bytes, h[1..m], f[m + 1])
  BY <1>1, <1>4, HeadSteps
<1> QED
  BY <1>1, <1>2, <1>3, <1>5

(* The bytes that are read start like the ones that were written.           *)
Alike(bytes, whole) ==
  /\ Len(bytes) \in Nat /\ Len(whole) \in Nat
  /\ \A i \in 1..Len(bytes) : i <= Len(whole) => bytes[i] = whole[i]

(* One byte of some bytes.                                                  *)
LEMMA OneByte ==
  ASSUME NEW S, NEW bytes \in Seq(S), NEW a \in Nat, a + 1 <= Len(bytes)
  PROVE  SubSeq(bytes, a + 1, a + 1)[1] = bytes[a + 1]
  OBVIOUS

(* So an event that is read is the event that was written.                  *)
LEMMA EventRead ==
  ASSUME NEW rec, IsEvent(rec), NEW e, NEW who \in {"rust", "go"}, NEW S, NEW bytes \in Seq(S),
         NEW h, Headed(h, rec, e, who, bytes), Alike(bytes, e[1..Len(FieldsOf(rec))]),
         NEW y, y = h[1..Len(Read(rec.kind))]
  PROVE  y.ok => y.of.event = rec.of.event
<1>1. PICK w : w = h[1..5]
  OBVIOUS
<1>2. PICK a : a = Len(e[1..5])
  OBVIOUS
<1>3. Walking(w) /\ (w.ok => w.at = a) /\ y = Took(who, bytes, w, "event")
  BY <1>1, <1>2, HeadOfEvent
<1>4. PICK whole : whole = e[1..Len(FieldsOf(rec))]
  OBVIOUS
<1>5. a \in Nat /\ a + 1 <= Len(whole) /\ Len(whole) \in Nat /\ whole[a + 1] = rec.of.event
  <2>1. PICK all : all = FieldsOf(rec) /\ Encoded(e, rec, all) /\ whole = e[1..Len(all)]
    BY <1>4 DEF Headed
  <2> QED
    BY <1>2, <2>1, EventWritten
<1>6. Width(TypeOf["event"]) = 1
  <2>1. TypeOf["event"] = "EventKind" /\ "EventKind" \in DOMAIN Variants
    BY DEF TypeOf, Variants
  <2> QED
    BY <2>1, WidthIs
<1>7. PICK end : end = w.at + Width(TypeOf["event"])
  OBVIOUS
<1>8. PICK v : v = Reading(who, "event", SubSeq(bytes, w.at + 1, end))
  OBVIOUS
<1>9. y.ok => /\ w.ok /\ y.at = end /\ ~(end > Len(bytes))
              /\ v # Bad /\ y.of = With(w.of, "event", v)
  BY <1>3, <1>7, <1>8, TookIs
<1>10. SUFFICES ASSUME y.ok PROVE y.of.event = rec.of.event
  OBVIOUS
<1>11. w.at = a /\ end = a + 1 /\ a + 1 <= Len(bytes)
  <2>1. w.at = a /\ end = a + 1
    BY <1>5, <1>3, <1>6, <1>7, <1>9, <1>10
  <2>2. Len(bytes) \in Nat
    OBVIOUS
  <2> QED
    BY <1>5, <1>9, <1>10, <2>1, <2>2
<1>12. v = SubSeq(bytes, a + 1, a + 1)[1]
  <2>1. PICK b : b = SubSeq(bytes, a + 1, a + 1)
    OBVIOUS
  <2>2. v = Reading(who, "event", b) /\ v # Bad
    BY <1>8, <1>9, <1>10, <1>11, <2>1
  <2>3. v = b[1]
    BY <2>2, EventIs
  <2> QED
    BY <2>1, <2>3
<1>13. v = bytes[a + 1]
  BY <1>5, <1>11, <1>12, OneByte
<1>14. bytes[a + 1] = whole[a + 1]
  <2>1. a + 1 \in 1..Len(bytes)
    BY <1>5, <1>11
  <2> QED
    BY <1>4, <1>5, <2>1 DEF Alike
<1>15. y.of.event = v
  BY <1>9, <1>10 DEF With
<1> QED
  BY <1>5, <1>13, <1>14, <1>15

(* The walk over what is left of a record, from where the first one stands, *)
(* ends where the record does.                                              *)
LEMMA RestMeasures ==
  ASSUME NEW rec, NEW e, NEW who, NEW bytes, NEW h, Headed(h, rec, e, who, bytes),
         NEW w, w = h[1..Len(Read(rec.kind))],
         NEW g, g = Rest(rec), NEW r, Walks(r, who, bytes, g, w), NEW y, y = r[1..Len(g)]
  PROVE  Walking(y) /\ (y.ok => w.ok /\ y.at = Len(e[1..Len(FieldsOf(rec))]))
<1>1. PICK all, f : all = FieldsOf(rec) /\ f = Read(rec.kind)
  OBVIOUS
<1>2. rec.kind \in RecordKinds /\ Encoded(e, rec, all)
  BY <1>1 DEF Headed
<1>3. /\ Listed(all) /\ Listed(f) /\ Listed(g) /\ Len(all) = Len(f) + Len(g)
      /\ \A j \in 1..Len(g) : all[Len(f) + j] = g[j]
  BY <1>1, <1>2, Layout
<1>4. PICK m \in Nat, n \in Nat, k \in Nat :
        m = Len(f) /\ n = Len(g) /\ k = Len(all) /\ k = m + n
  BY <1>3 DEF Listed
<1>5. Behind(all, m, g)
  BY <1>3, <1>4 DEF Behind
<1>6. Walking(w) /\ (w.ok => w.at = Len(e[1..m]))
  <2>1. m <= Len(Read(rec.kind)) /\ w = h[1..m]
    BY <1>1, <1>4
  <2> QED
    BY <2>1, HeadMeasures
<1>7. n <= Len(g) /\ y = r[1..n]
  BY <1>4
<1>8. Walking(r[1..n]) /\ (r[1..n].ok => w.ok /\ r[1..n].at = Len(e[1..(m + n)]))
  BY <1>2, <1>5, <1>6, <1>7, WalkMeasures
<1> QED
  BY <1>1, <1>4, <1>7, <1>8

(* A reader goes on with the fields of the event it has read.               *)
Ends(y, w, kind, who, bytes) ==
  IF kind = "OrderEvent" /\ w.ok
  THEN \E r : /\ Walks(r, who, bytes, decode_event(w.of.event), w)
              /\ y = r[1..Len(decode_event(w.of.event))]
  ELSE y = w

(* A record the engine writes: of a known kind, with a known event.         *)
Sound(rec) == rec.kind \in RecordKinds /\ (rec.kind = "OrderEvent" => rec.of.event \in 1..9)

(* A record that is read is as long as the one that was written.            *)
LEMMA WholeMeasures ==
  ASSUME NEW rec, Sound(rec), NEW e, NEW who \in {"rust", "go"}, NEW S, NEW bytes \in Seq(S),
         NEW h, Headed(h, rec, e, who, bytes), Alike(bytes, e[1..Len(FieldsOf(rec))]),
         NEW w, w = h[1..Len(Read(rec.kind))], NEW y, Ends(y, w, rec.kind, who, bytes), y.ok
  PROVE  y.at = Len(e[1..Len(FieldsOf(rec))])
<1>1. CASE rec.kind = "OrderEvent" /\ w.ok
  <2>1. IsEvent(rec)
    BY <1>1 DEF IsEvent, Sound
  <2>2. w.of.event = rec.of.event
    BY <1>1, <2>1, EventRead
  <2>3. PICK g : g = Rest(rec)
    OBVIOUS
  <2>4. decode_event(w.of.event) = g
    BY <1>1, <2>2, <2>3 DEF Rest
  <2>5. PICK r : Walks(r, who, bytes, g, w) /\ y = r[1..Len(g)]
    BY <1>1, <2>4 DEF Ends
  <2> QED
    BY <2>3, <2>5, RestMeasures
<1>2. CASE rec.kind = "OrderEvent" /\ ~w.ok
  BY <1>2 DEF Ends
<1>3. CASE rec.kind # "OrderEvent"
  <2>1. y = w
    BY <1>3 DEF Ends
  <2>2. PICK all, f, g : all = FieldsOf(rec) /\ f = Read(rec.kind) /\ g = Rest(rec)
    OBVIOUS
  <2>3. Listed(f) /\ Len(all) = Len(f) + Len(g)
    BY <2>2, Layout DEF Sound
  <2>4. g = <<>>
    BY <1>3, <2>2 DEF Rest
  <2>5. PICK m \in Nat : m = Len(f) /\ m = Len(all)
    BY <2>3, <2>4 DEF Listed
  <2>6. m <= Len(Read(rec.kind)) /\ w = h[1..m]
    BY <2>2, <2>5
  <2>7. w.ok => w.at = Len(e[1..m])
    BY <2>6, HeadMeasures
  <2> QED
    BY <2>1, <2>2, <2>5, <2>7
<1> QED
  BY <1>1, <1>2, <1>3

(* And so each reader's walk ends where the record does.                    *)
LEMMA ReadMeasures ==
  ASSUME NEW rec, Sound(rec), NEW S, NEW bytes \in Seq(S), Alike(bytes, encode(rec))
  PROVE  /\ RustRead(rec.kind, bytes).ok => RustRead(rec.kind, bytes).at = Len(encode(rec))
         /\ GoRead(rec.kind, bytes).ok => GoRead(rec.kind, bytes).at = Len(encode(rec))
<1>1. PICK all, f : all = FieldsOf(rec) /\ f = Read(rec.kind)
  OBVIOUS
<1>2. rec.kind \in RecordKinds
  BY DEF Sound
<1>3. Listed(all) /\ Listed(f) /\ GoFields(rec.kind) = f
  BY <1>1, <1>2, Layout, FieldsOfKind
<1>4. PICK e : Encoded(e, rec, all) /\ encode(rec) = e[1..Len(all)]
  BY <1>1, <1>3, EncodeIs
<1>5. Len(f) \in Nat /\ DOMAIN f = 1..Len(f)
  BY <1>3 DEF Listed
<1>6. ASSUME NEW event
      PROVE  /\ Len(decode_event(event)) \in Nat
             /\ DOMAIN decode_event(event) = 1..Len(decode_event(event))
             /\ GoEventFields(event) = decode_event(event)
  BY FieldsOfEvent DEF Listed
<1>7. ASSUME NEW y, y = RustRead(rec.kind, bytes), y.ok PROVE y.at = Len(encode(rec))
  <2>1. PICK h : Walks(h, "rust", bytes, f, Start) /\ RustWalk(bytes, f, Start) = h[1..Len(f)]
    BY <1>5, RustWalkIs
  <2>2. PICK w : w = h[1..Len(f)]
    OBVIOUS
  <2>3. Ends(y, w, rec.kind, "rust", bytes)
    <3>1. PICK g : g = decode_event(w.of.event)
      OBVIOUS
    <3>2. PICK r : Walks(r, "rust", bytes, g, w) /\ RustWalk(bytes, g, w) = r[1..Len(g)]
      BY <1>6, <3>1, RustWalkIs
    <3>3. y = IF rec.kind = "OrderEvent" /\ w.ok THEN RustWalk(bytes, g, w) ELSE w
      BY <1>1, <1>7, <2>1, <2>2, <3>1 DEF RustRead
    <3> QED
      BY <3>1, <3>2, <3>3 DEF Ends
  <2>4. Headed(h, rec, e, "rust", bytes) /\ Alike(bytes, e[1..Len(FieldsOf(rec))])
    BY <1>1, <1>2, <1>4, <2>1 DEF Headed
  <2>5. w = h[1..Len(Read(rec.kind))]
    BY <1>1, <2>2
  <2> QED
    BY <1>1, <1>4, <1>7, <2>3, <2>4, <2>5, WholeMeasures
<1>8. ASSUME NEW y, y = GoRead(rec.kind, bytes), y.ok PROVE y.at = Len(encode(rec))
  <2>1. PICK h : Walks(h, "go", bytes, f, Start) /\ GoWalk(bytes, f, Start) = h[1..Len(f)]
    BY <1>5, GoWalkIs
  <2>2. PICK w : w = h[1..Len(f)]
    OBVIOUS
  <2>3. Ends(y, w, rec.kind, "go", bytes)
    <3>1. PICK g : g = decode_event(w.of.event) /\ g = GoEventFields(w.of.event)
      BY <1>6
    <3>2. PICK r : Walks(r, "go", bytes, g, w) /\ GoWalk(bytes, g, w) = r[1..Len(g)]
      BY <1>6, <3>1, GoWalkIs
    <3>3. y = IF rec.kind = "OrderEvent" /\ w.ok THEN GoWalk(bytes, g, w) ELSE w
      BY <1>3, <1>8, <2>1, <2>2, <3>1 DEF GoRead
    <3> QED
      BY <3>1, <3>2, <3>3 DEF Ends
  <2>4. Headed(h, rec, e, "go", bytes) /\ Alike(bytes, e[1..Len(FieldsOf(rec))])
    BY <1>1, <1>2, <1>4, <2>1 DEF Headed
  <2>5. w = h[1..Len(Read(rec.kind))]
    BY <1>1, <2>2
  <2> QED
    BY <1>1, <1>4, <1>8, <2>3, <2>4, <2>5, WholeMeasures
<1> QED
  BY <1>7, <1>8

(* What is written is bytes.                                                *)
LEMMA EncodeBytes ==
  ASSUME NEW rec, Sound(rec)
  PROVE  \E S : encode(rec) \in Seq(S)
<1>1. PICK all, f, g : all = FieldsOf(rec) /\ f = Read(rec.kind) /\ g = Rest(rec)
  OBVIOUS
<1>2. Listed(all)
  BY <1>1, Layout DEF Sound
<1>3. PICK e : Encoded(e, rec, all) /\ encode(rec) = e[1..Len(all)]
  BY <1>1, <1>2, EncodeIs
<1>4. PICK n \in Nat : n = Len(all) /\ n <= Len(all)
  BY <1>2 DEF Listed
<1>5. e[1..n] \in Seq(BytesOf(rec, all))
  BY <1>3, <1>4, EncodedIs
<1> QED
  BY <1>3, <1>4, <1>5

(* Bytes of another length that start like a record are a record for no     *)
(* reader.                                                                  *)
LEMMA OtherLengths ==
  ASSUME NEW rec, Sound(rec), NEW S, NEW bytes \in Seq(S), Alike(bytes, encode(rec)),
         Len(bytes) # Len(encode(rec))
  PROVE  decode(rec.kind, bytes) = Bad /\ GoDecode(rec.kind, bytes) = Bad
<1>1. /\ RustRead(rec.kind, bytes).ok => RustRead(rec.kind, bytes).at = Len(encode(rec))
      /\ GoRead(rec.kind, bytes).ok => GoRead(rec.kind, bytes).at = Len(encode(rec))
  BY ReadMeasures
<1>2. ~finish(RustRead(rec.kind, bytes), bytes) /\ ~finish(GoRead(rec.kind, bytes), bytes)
  BY <1>1 DEF finish
<1> QED
  BY <1>2, DecodeIs

(* A proper prefix is such bytes.                                           *)
LEMMA CutIs ==
  ASSUME NEW S, NEW whole \in Seq(S), NEW n \in 0..(Len(whole) - 1),
         NEW bytes, bytes = SubSeq(whole, 1, n)
  PROVE  bytes \in Seq(S) /\ Alike(bytes, whole) /\ Len(bytes) # Len(whole)
<1>1. bytes \in Seq(S) /\ Len(bytes) = n /\ \A i \in 1..n : bytes[i] = whole[i]
  OBVIOUS
<1>2. Len(whole) \in Nat /\ n \in Nat /\ n # Len(whole)
  OBVIOUS
<1> QED
  BY <1>1, <1>2 DEF Alike

(* And so is a record with a byte behind it.                                *)
LEMMA LongerIs ==
  ASSUME NEW S, NEW whole \in Seq(S), NEW b, NEW bytes, bytes = Append(whole, b)
  PROVE  bytes \in Seq(S \cup {b}) /\ Alike(bytes, whole) /\ Len(bytes) # Len(whole)
<1>1. whole \in Seq(S \cup {b})
  OBVIOUS
<1>2. /\ bytes \in Seq(S \cup {b}) /\ Len(bytes) = Len(whole) + 1 /\ Len(whole) \in Nat
      /\ \A i \in 1..Len(whole) : bytes[i] = whole[i]
  BY <1>1
<1> QED
  BY <1>2 DEF Alike

(* A record as its types have it is one of a known kind, with a known event. *)
LEMMA RecordIsSound ==
  ASSUME NEW rec, IsRecord(rec)
  PROVE  Sound(rec)
<1>1. rec.kind \in RecordKinds
  BY DEF IsRecord
<1>2. ASSUME rec.kind = "OrderEvent" PROVE rec.of.event \in 1..9
  <2>1. PICK all, f, g : all = FieldsOf(rec) /\ f = Read(rec.kind) /\ g = Rest(rec)
    OBVIOUS
  <2>2. /\ Listed(f) /\ Listed(g) /\ Len(all) = Len(f) + Len(g)
        /\ \A j \in 1..Len(f) : all[0 + j] = f[j]
    BY <1>1, <2>1, Layout
  <2>3. Len(f) = 6 /\ f[6] = "event"
    BY <1>1, <1>2, <2>1, FieldsOfKind
  <2>4. PICK n \in Nat : n = Len(g)
    BY <2>2 DEF Listed
  <2>5. 6 \in 1..Len(all) /\ 6 \in 1..Len(f) /\ 0 + 6 = 6
    BY <2>2, <2>3, <2>4
  <2>6. all[6] = "event"
    BY <2>2, <2>3, <2>5
  <2>7. "event" \in DOMAIN rec.of
    BY <2>1, <2>5, <2>6 DEF IsRecord
  <2>8. Holds(TypeOf["event"], rec.of["event"])
    BY <2>7 DEF IsRecord
  <2>9. TypeOf["event"] = "EventKind" /\ "EventKind" \in DOMAIN Variants
        /\ Variants["EventKind"] = 9
    BY DEF TypeOf, Variants
  <2>10. "EventKind" \notin DOMAIN TextWidth
    BY <2>9, KindsOfField
  <2>11. rec.of["event"] \in 1..Variants["EventKind"]
    BY <2>8, <2>9, <2>10, Zenon DEF Holds
  <2> QED
    BY <2>9, <2>11
<1> QED
  BY <1>1, <1>2 DEF Sound

(* The empty record is one.                                                 *)
LEMMA TickedIsRecord == IsRecord([kind |-> "Ticked", of |-> <<>>])
<1>1. PICK rec : rec = [kind |-> "Ticked", of |-> <<>>]
  OBVIOUS
<1>2. rec.kind = "Ticked" /\ rec.of = <<>> /\ DOMAIN rec.of = {}
  BY <1>1
<1>3. FieldsOf(rec) = <<>>
  <2>1. Written("Ticked") = <<>>
    BY DEF Written
  <2>2. <<>> \o <<>> = <<>>
    OBVIOUS
  <2> QED
    BY <1>2, <2>1, <2>2 DEF FieldsOf
<1>4. DOMAIN rec.of = {FieldsOf(rec)[i] : i \in 1..Len(FieldsOf(rec))}
  BY <1>2, <1>3
<1>5. rec = [kind |-> rec.kind, of |-> [field \in DOMAIN rec.of |-> rec.of[field]]]
  <2>1. [field \in DOMAIN rec.of |-> rec.of[field]] = rec.of
    BY <1>2
  <2> QED
    BY <1>1, <2>1
<1>6. OnlyIfKnown(rec.of) = rec.of
  BY <1>2 DEF OnlyIfKnown
<1>7. rec.kind \in RecordKinds /\ rec.kind # "IntentPersisted"
  BY <1>2 DEF RecordKinds
<1> QED
  BY <1>1, <1>2, <1>4, <1>5, <1>6, <1>7 DEF IsRecord

(* Damage is done once, to what was written.                                *)
LengthInv ==
  /\ IsRecord(record)
  /\ damage = "none" => payload = encode(record)
  /\ damage = "cut" => \E n \in 0..(Len(encode(record)) - 1) :
                         payload = SubSeq(encode(record), 1, n)
  /\ damage = "longer" => \E b \in Damages : payload = Append(encode(record), b)

(* The bytes are the record's, or what one fault has left of them.          *)
LEMMA LengthInvHolds == Spec => []LengthInv
<1>1. Init => LengthInv
  <2> SUFFICES ASSUME Init PROVE LengthInv
    OBVIOUS
  <2>1. payload = encode(record) /\ damage = "none"
    BY DEF Init, CodecInit
  <2>2. IsRecord(record)
    <3>1. CASE desk = "record"
      <4>1. record \in Samples
        BY <3>1 DEF Init, CodecInit
      <4> QED
        BY <4>1, RecordAssumption
    <3>2. CASE desk # "record"
      <4>1. record = [kind |-> "Ticked", of |-> <<>>]
        BY <3>2 DEF Init
      <4> QED
        BY <4>1, TickedIsRecord
    <3> QED
      BY <3>1, <3>2
  <2> QED
    BY <2>1, <2>2 DEF LengthInv
<1>2. LengthInv /\ [Next]_vars => LengthInv'
  <2> SUFFICES ASSUME LengthInv, [Next]_vars PROVE LengthInv'
    OBVIOUS
  <2>1. CASE UNCHANGED codecVars
    BY <2>1 DEF LengthInv, codecVars
  <2>2. ASSUME NEW n \in 0..(Len(payload) - 1), Cut(n) PROVE LengthInv'
    <3>1. payload = encode(record) /\ record' = record /\ IsRecord(record)
      BY <2>2 DEF Cut, LengthInv
    <3>2. payload' = SubSeq(encode(record), 1, n) /\ damage' = "cut"
      BY <2>2, <3>1 DEF Cut
    <3> QED
      BY <2>2, <3>1, <3>2 DEF LengthInv
  <2>3. ASSUME NEW b \in Damages, Lengthen(b) PROVE LengthInv'
    <3>1. payload = encode(record) /\ record' = record /\ IsRecord(record)
      BY <2>3 DEF Lengthen, LengthInv
    <3>2. payload' = Append(encode(record), b) /\ damage' = "longer"
      BY <2>3, <3>1 DEF Lengthen
    <3> QED
      BY <2>3, <3>1, <3>2 DEF LengthInv
  <2>4. ASSUME NEW i, NEW b, Change(i, b) PROVE LengthInv'
    BY <2>4 DEF Change, LengthInv
  <2>5. CASE CodecNext
    BY <2>2, <2>3, <2>4, <2>5 DEF CodecNext
  <2> QED
    BY <2>1, <2>5 DEF Next, vars
<1> QED
  BY <1>1, <1>2, PTL DEF Spec

(* A payload of the wrong length is refused by both readers: the prefix a   *)
(* torn write leaves and a record with bytes behind it are taken for no     *)
(* record, whatever the record, by record.rs or by record.go.               *)
THEOREM WrongLengthsAreRefused == Spec => []WrongLengthIsRefused
<1>1. LengthInv => WrongLengthIsRefused
  <2> SUFFICES ASSUME LengthInv, damage \in {"cut", "longer"}
               PROVE  /\ decode(record.kind, payload) = Bad
                      /\ GoDecode(record.kind, payload) = Bad
    BY DEF WrongLengthIsRefused
  <2>1. Sound(record)
    BY RecordIsSound DEF LengthInv
  <2>2. PICK S : encode(record) \in Seq(S)
    BY <2>1, EncodeBytes
  <2>3. CASE damage = "cut"
    <3>1. PICK n \in 0..(Len(encode(record)) - 1) : payload = SubSeq(encode(record), 1, n)
      BY <2>3 DEF LengthInv
    <3>2. /\ payload \in Seq(S) /\ Alike(payload, encode(record))
          /\ Len(payload) # Len(encode(record))
      BY <2>2, <3>1, CutIs
    <3> QED
      BY <2>1, <3>2, OtherLengths
  <2>4. CASE damage = "longer"
    <3>1. PICK b : payload = Append(encode(record), b)
      BY <2>4 DEF LengthInv
    <3>2. PICK T : T = S \cup {b}
      OBVIOUS
    <3>3. /\ payload \in Seq(T) /\ Alike(payload, encode(record))
          /\ Len(payload) # Len(encode(record))
      BY <2>2, <3>1, <3>2, LongerIs
    <3> QED
      BY <2>1, <3>3, OtherLengths
  <2> QED
    BY <2>3, <2>4
<1> QED
  BY <1>1, LengthInvHolds, PTL

-----------------------------------------------------------------------------
(* What is written is what is read.                                         *)

(* What the bytes of a number are worth.                                    *)
LEMMA FromBytesIs ==
  ASSUME NEW n \in 1..3, NEW b, b = [i \in 1..n |-> b[i]], \A i \in 1..n : b[i] \in Nat
  PROVE  /\ n = 1 => FromBytes(b) = b[1]
         /\ n = 2 => FromBytes(b) = b[1] + b[2] * BASE
         /\ n = 3 => FromBytes(b) = b[1] + b[2] * BASE + b[3] * (BASE * BASE)
<1>1. PICK B \in Nat, B2 \in Nat : B = BASE /\ B2 = B * B
  BY CodecAssumption
<1>2. Place[1] = 1 /\ Place[2] = B /\ Place[3] = B2
  BY <1>1 DEF Place
<1> DEFINE worth == [i \in DOMAIN b |-> b[i] * Place[i]]
           R(k) == k = [s \in SUBSET (1..n) |-> IF s = {} THEN 0
                                                ELSE k[s \ {Max(s)}] + worth[Max(s)]]
<1>3. PICK g : g = [i \in 1..n |-> b[i] * Place[i]]
  OBVIOUS
<1>4. worth = g
  BY <1>3
<1>5. \A i \in 1..n : g[i] \in Int
  <2>1. ASSUME NEW i \in 1..n PROVE b[i] \in Nat /\ Place[i] \in Nat
    BY <1>2
  <2> QED
    BY <1>3, <2>1
<1>6. PICK h : R(h)
  <2>1. PICK h : Totals(h, g, n)
    <3>1. n \in Nat
      OBVIOUS
    <3>2. PICK h \in [SUBSET (1..n) -> Int] : Totals(h, g, n)
      BY <1>5, <3>1, TotalsExist
    <3> QED
      BY <3>2
  <2>2. R(h)
    <3> HIDE DEF worth
    <3> QED
      BY <1>4, <2>1 DEF Totals
  <2> QED
    BY <2>2
<1>7. PICK k : k = (CHOOSE j : R(j))
  OBVIOUS
<1>8. R(k)
  <2> HIDE DEF R
  <2> QED
    BY <1>6, <1>7
<1>9. Totals(k, g, n)
  <2> HIDE DEF worth
  <2> QED
    BY <1>4, <1>8 DEF Totals
<1>10. DOMAIN worth = 1..n
  OBVIOUS
<1>11. FromBytes(b) = k[1..n]
  BY <1>7, <1>10 DEF FromBytes, FoldLeft, MapThenFoldSet
<1>12. n \in Nat /\ k[1..0] = 0
  BY <1>9, TotalsGrow
<1>13. ASSUME NEW i \in Nat, i + 1 <= n PROVE k[1..(i + 1)] = k[1..i] + g[i + 1]
  BY <1>9, <1>12, <1>13, TotalsGrow
<1>14. k[1..1] = b[1]
  <2>1. PICK i \in Nat : i = 0 /\ i + 1 = 1 /\ i + 1 <= n
    OBVIOUS
  <2>2. k[1..(i + 1)] = k[1..i] + g[i + 1]
    BY <1>13, <2>1
  <2>3. g[1] = b[1] * 1 /\ b[1] \in Nat
    BY <1>2, <1>3
  <2> QED
    BY <1>12, <2>1, <2>2, <2>3
<1>15. n >= 2 => k[1..2] = b[1] + b[2] * B
  <2> SUFFICES ASSUME n >= 2 PROVE k[1..2] = b[1] + b[2] * B
    OBVIOUS
  <2>1. PICK i \in Nat : i = 1 /\ i + 1 = 2
    OBVIOUS
  <2>2. k[1..(i + 1)] = k[1..i] + g[i + 1]
    BY <1>13, <2>1
  <2>3. g[2] = b[2] * B
    BY <1>2, <1>3
  <2> QED
    BY <1>14, <2>1, <2>2, <2>3
<1>16. n >= 3 => k[1..3] = b[1] + b[2] * B + b[3] * B2
  <2> SUFFICES ASSUME n >= 3 PROVE k[1..3] = b[1] + b[2] * B + b[3] * B2
    OBVIOUS
  <2>1. PICK i \in Nat : i = 2 /\ i + 1 = 3
    OBVIOUS
  <2>2. k[1..(i + 1)] = k[1..i] + g[i + 1]
    BY <1>13, <2>1
  <2>3. g[3] = b[3] * B2
    BY <1>2, <1>3
  <2> QED
    BY <1>15, <2>1, <2>2, <2>3
<1>17. CASE n = 1
  BY <1>11, <1>14, <1>17
<1>18. CASE n = 2
  BY <1>1, <1>11, <1>15, <1>18
<1>19. CASE n = 3
  <2>1. FromBytes(b) = b[1] + b[2] * B + b[3] * B2
    BY <1>11, <1>16, <1>19
  <2>2. BASE = B /\ BASE * BASE = B2
    BY <1>1
  <2> QED
    BY <1>19, <2>1, <2>2
<1> QED
  BY <1>17, <1>18, <1>19

(* A number is its lowest digit and the rest of it.                         *)
LEMMA DigitIs ==
  ASSUME NEW B \in Nat, B > 0, NEW u \in Nat
  PROVE  /\ u \div B \in Nat /\ u % B \in 0..(B - 1)
         /\ u = B * (u \div B) + (u % B)
  OBVIOUS

(* And is so in one way only.                                               *)
LEMMA DigitOnly ==
  ASSUME NEW B \in Nat, B > 0, NEW c \in Nat, NEW r \in 0..(B - 1), NEW u, u = B * c + r
  PROVE  u \div B = c
<1>1. PICK q \in Nat, s \in 0..(B - 1) : q = u \div B /\ u = B * q + s
  <2>1. u \in Nat
    OBVIOUS
  <2> QED
    BY <2>1, DigitIs
<1>2. CASE q < c
  <2>1. B * (q + 1) <= B * c /\ B * (q + 1) = B * q + B
    BY <1>2, MulOrder
  <2> QED
    BY <1>1, <2>1
<1>3. CASE c < q
  <2>1. B * (c + 1) <= B * q /\ B * (c + 1) = B * c + B
    BY <1>3, MulOrder
  <2> QED
    BY <1>1, <2>1
<1> QED
  BY <1>1, <1>2, <1>3

(* A rest that is smaller than the base is no digit less than itself.       *)
LEMMA DigitBelow ==
  ASSUME NEW B \in Nat, NEW u \in Nat, u < B
  PROVE  u % B = u
  OBVIOUS

(* The rest of a number below a product is below the other factor.          *)
LEMMA RestBelow ==
  ASSUME NEW B \in Nat, B > 0, NEW m \in Nat, NEW u \in Nat, u < B * m, NEW q, q = u \div B
  PROVE  q \in Nat /\ q < m
<1>1. q \in Nat /\ B * q <= u
  BY DivIs
<1>2. CASE m <= q
  <2>1. B * m <= B * q
    BY <1>1, <1>2, MulOrder
  <2>2. PICK x \in Nat, y \in Nat : x = B * m /\ y = B * q
    BY <1>1
  <2> QED
    BY <1>1, <2>1, <2>2
<1> QED
  BY <1>1, <1>2

(* Two digits are a number below the square of the base, and three one      *)
(* below its cube.                                                          *)
LEMMA DigitsAre ==
  ASSUME NEW B \in Nat, B > 0, NEW u \in Nat
  PROVE  /\ u < B * B => (u % B) + ((u \div B) % B) * B = u
         /\ u < B * (B * B) =>
              (u % B) + ((u \div B) % B) * B + ((u \div (B * B)) % B) * (B * B) = u
<1>1. PICK q \in Nat, r \in 0..(B - 1) : q = u \div B /\ r = u % B /\ u = B * q + r
  BY DigitIs
<1>2. ASSUME u < B * B PROVE r + (q % B) * B = u
  <2>1. q < B
    BY <1>1, <1>2, RestBelow
  <2>2. q % B = q
    BY <2>1, DigitBelow
  <2>3. q * B = B * q
    OBVIOUS
  <2> QED
    BY <1>1, <2>2, <2>3
<1>3. ASSUME u < B * (B * B)
      PROVE  r + (q % B) * B + ((u \div (B * B)) % B) * (B * B) = u
  <2>1. PICK M \in Nat : M = B * B
    OBVIOUS
  <2>2. q < M
    BY <1>1, <1>3, <2>1, RestBelow
  <2>3. PICK c \in Nat, d \in 0..(B - 1) : c = q \div B /\ d = q % B /\ q = B * c + d
    BY DigitIs
  <2>4. c < B
    BY <2>1, <2>2, <2>3, RestBelow
  <2>5. B * q = M * c + B * d
    <3>1. B * (B * c + d) = (B * B) * c + B * d
      OBVIOUS
    <3> QED
      BY <2>1, <2>3, <3>1
  <2>6. PICK s \in Nat : s = B * d + r /\ s < M
    <3>1. B * (d + 1) <= B * B /\ B * (d + 1) = B * d + B
      <4>1. d + 1 <= B /\ d + 1 \in Int
        OBVIOUS
      <4> QED
        BY <4>1, MulOrder
    <3>2. PICK x \in Nat : x = B * d
      OBVIOUS
    <3>3. x + B <= M
      BY <2>1, <3>1, <3>2
    <3>4. x + r \in Nat /\ x + r < M
      BY <3>3
    <3> QED
      BY <3>2, <3>4
  <2>7. u = M * c + s
    <3>1. PICK x \in Nat, y \in Nat : x = M * c /\ y = B * d
      OBVIOUS
    <3> QED
      BY <1>1, <2>5, <2>6, <3>1
  <2>8. M > 0 /\ s \in 0..(M - 1)
    BY <2>6
  <2>9. u \div M = c
    BY <2>7, <2>8, DigitOnly
  <2>10. c % B = c
    BY <2>4, DigitBelow
  <2>11. d * B = B * d /\ c * M = M * c
    OBVIOUS
  <2>12. r + d * B + c * M = u
    <3>1. PICK x \in Nat, y \in Nat : x = M * c /\ y = B * d
      OBVIOUS
    <3> QED
      BY <2>6, <2>7, <2>11, <3>1
  <2> QED
    BY <2>1, <2>3, <2>9, <2>10, <2>12
<1> QED
  BY <1>1, <1>2, <1>3

(* What a number is worth, of so many bytes.                                *)
LEMMA PlaceIs ==
  /\ \A w \in 1..3 : Place[w + 1] \in Nat /\ Place[w + 1] > 0
  /\ Place[1] = 1 /\ Place[2] = BASE /\ Place[3] = BASE * BASE
  /\ Place[4] = BASE * (BASE * BASE)
<1>1. PICK B \in Nat : B = BASE /\ B > 0
  BY CodecAssumption
<1>2. Place = <<1, B, B * B, B * B * B>>
  BY <1>1 DEF Place
<1>3. B * B * B = B * (B * B) /\ B * B \in Nat /\ B * B > 0
  BY <1>1
<1>4. PICK M \in Nat : M = B * B /\ M > 0
  BY <1>3
<1>5. B * M \in Nat /\ B * M > 0
  BY <1>1, <1>4
<1>6. Place[1] = 1 /\ Place[2] = B /\ Place[3] = M /\ Place[4] = B * M
  BY <1>2, <1>3, <1>4
<1>7. ASSUME NEW w \in 1..3 PROVE Place[w + 1] \in Nat /\ Place[w + 1] > 0
  <2>1. w = 1 \/ w = 2 \/ w = 3
    OBVIOUS
  <2>2. w = 1 => w + 1 = 2
    OBVIOUS
  <2>3. w = 2 => w + 1 = 3
    OBVIOUS
  <2>4. w = 3 => w + 1 = 4
    OBVIOUS
  <2> QED
    BY <1>1, <1>4, <1>5, <1>6, <2>1, <2>2, <2>3, <2>4
<1> QED
  BY <1>1, <1>4, <1>6, <1>7

(* The three, with the square named.                                        *)
LEMMA ThreeDigits ==
  ASSUME NEW B \in Nat, B > 0, NEW M, M = B * B, NEW u \in Nat, u < B * M
  PROVE  (u % B) + ((u \div B) % B) * B + ((u \div M) % B) * M = u
  BY DigitsAre

(* Bytes of a width that are read as a number below their worth.            *)
ReadsAs(b, v, m, w) == FromBytes(b) = v % m /\ Len(b) = w

(* The bytes of a number are worth it, modulo what they can hold.           *)
LEMMA LittleIs ==
  ASSUME NEW w \in 1..3, NEW v \in Int, NEW b, b = LittleEndian(v, w),
         NEW m, m = Place[w + 1]
  PROVE  ReadsAs(b, v, m, w)
<1> SUFFICES FromBytes(b) = v % m /\ Len(b) = w
  BY DEF ReadsAs
<1>1. PICK B \in Nat, M \in Nat : B = BASE /\ B > 0 /\ M = B * B /\ M > 0
  <2>1. PICK B \in Nat : B = BASE /\ B > 0
    BY CodecAssumption
  <2>2. B * B \in Nat /\ B * B > 0
    BY <2>1
  <2> QED
    BY <2>1, <2>2
<1>2. Place[1] = 1 /\ Place[2] = B /\ Place[3] = M /\ Place[4] = B * M
  BY <1>1, PlaceIs
<1>3. m \in Nat /\ m > 0
  BY PlaceIs
<1>4. PICK u \in Nat : u = v % m /\ u < m /\ u \in 0..(m - 1)
  BY <1>3
<1>5. b = [i \in 1..w |-> (u \div Place[i]) % B]
  BY <1>1, <1>4 DEF LittleEndian
<1>6. ASSUME NEW i \in 1..w PROVE b[i] \in Nat
  <2>1. Place[i] \in Nat /\ Place[i] > 0
    BY <1>1, <1>2
  <2>2. PICK q \in Nat : q = u \div Place[i]
    BY <2>1, DivIs
  <2>3. q % B \in Nat
    BY <1>1
  <2> QED
    BY <1>5, <2>2, <2>3
<1>7. b = [i \in 1..w |-> b[i]] /\ Len(b) = w
  BY <1>5
<1>8. ASSUME NEW i \in 1..w PROVE b[i] = (u \div Place[i]) % B
  BY <1>5
<1>9. CASE w = 1
  <2>1. FromBytes(b) = b[1]
    BY <1>6, <1>7, <1>9, FromBytesIs
  <2>2. m = B
    BY <1>2, <1>9
  <2>3. b[1] = (u \div 1) % B
    BY <1>2, <1>8, <1>9
  <2>4. u \div 1 = u
    OBVIOUS
  <2>5. u % B = u
    BY <1>4, <2>2, DigitBelow
  <2> QED
    BY <1>3, <1>4, <1>7, <2>1, <2>3, <2>4, <2>5
<1>10. CASE w = 2
  <2>1. FromBytes(b) = b[1] + b[2] * B
    BY <1>1, <1>6, <1>7, <1>10, FromBytesIs
  <2>2. m = B * B
    BY <1>1, <1>2, <1>10
  <2>3. b[1] = (u \div 1) % B /\ b[2] = (u \div B) % B
    <3>1. 1 \in 1..w /\ 2 \in 1..w
      BY <1>10
    <3>2. b[1] = (u \div Place[1]) % B /\ b[2] = (u \div Place[2]) % B
      BY <1>8, <3>1, Zenon
    <3> QED
      BY <1>2, <3>2
  <2>4. u \div 1 = u
    OBVIOUS
  <2>5. (u % B) + ((u \div B) % B) * B = u
    BY <1>1, <1>4, <2>2, DigitsAre
  <2>6. FromBytes(b) = u
    BY <2>1, <2>3, <2>4, <2>5
  <2> QED
    BY <1>3, <1>4, <1>7, <2>6
<1>11. CASE w = 3
  <2>1. FromBytes(b) = b[1] + b[2] * B + b[3] * M
    BY <1>1, <1>6, <1>7, <1>11, FromBytesIs
  <2>2. u < B * M
    BY <1>2, <1>4, <1>11
  <2>3. b[1] = (u \div 1) % B /\ b[2] = (u \div B) % B /\ b[3] = (u \div M) % B
    <3>1. 1 \in 1..w /\ 2 \in 1..w /\ 3 \in 1..w
      BY <1>11
    <3>2. /\ b[1] = (u \div Place[1]) % B /\ b[2] = (u \div Place[2]) % B
          /\ b[3] = (u \div Place[3]) % B
      BY <1>8, <3>1, Zenon
    <3> QED
      BY <1>2, <3>2
  <2>4. u \div 1 = u
    OBVIOUS
  <2>5. (u % B) + ((u \div B) % B) * B + ((u \div M) % B) * M = u
    BY <1>1, <2>2, ThreeDigits
  <2>6. FromBytes(b) = u
    BY <2>1, <2>3, <2>4, <2>5
  <2> QED
    BY <1>3, <1>4, <1>7, <2>6
<1> QED
  BY <1>9, <1>10, <1>11

(* A number that is held comes back from its bytes, signed or not.          *)
LEMMA NumbersReturn ==
  ASSUME NEW w \in 1..3, NEW v \in Int, NEW b, b = LittleEndian(v, w)
  PROVE  /\ v \in 0..(Place[w + 1] - 1) => FromBytes(b) = v
         /\ Fits(v, w) => Signed(b) = v
<1>1. PICK m : m = Place[w + 1]
  OBVIOUS
<1>2. /\ m \in Nat /\ m > 0 /\ v % m \in 0..(m - 1)
      /\ FromBytes(b) = v % m /\ Len(b) = w
  <2>1. ReadsAs(b, v, m, w)
    BY <1>1, LittleIs
  <2>2. m \in Nat /\ m > 0
    BY <1>1, PlaceIs
  <2> QED
    BY <2>1, <2>2 DEF ReadsAs
<1>3. v \in 0..(m - 1) => v % m = v
  BY <1>2
<1>4. ASSUME Fits(v, w) PROVE Signed(b) = v
  <2>1. -m <= 2 * v /\ 2 * v < m
    BY <1>1, <1>4 DEF Fits
  <2>2. PICK u \in Nat : u = v % m /\ u = FromBytes(b)
    BY <1>2
  <2>3. Signed(b) = IF 2 * u < m THEN u ELSE u - m
    BY <1>1, <1>2, <2>2 DEF Signed
  <2>4. CASE v >= 0
    <3>1. u = v
      BY <1>2, <2>1, <2>2, <2>4
    <3> QED
      BY <2>1, <2>3, <3>1
  <2>5. CASE v < 0
    <3>1. u = v + m
      BY <1>2, <2>1, <2>2, <2>5
    <3> QED
      BY <1>2, <2>1, <2>3, <3>1
  <2> QED
    BY <2>4, <2>5
<1> QED
  BY <1>1, <1>2, <1>3, <1>4

(* A text that is held comes back from its padded bytes.                    *)
LEMMA TextsReturn ==
  ASSUME NEW w \in Nat, NEW t \in Seq(Byte \ {0, NotUtf8}), Len(t) <= w, NEW b, b = Pad(t, w)
  PROVE  from_padded(b) = t
<1>1. PICK n \in Nat : n = Len(t) /\ n <= w
  OBVIOUS
<1>2. ASSUME NEW i \in 1..n PROVE t[i] # 0 /\ t[i] # NotUtf8 /\ t[i] \in Byte
  BY <1>1
<1>3. /\ b = [i \in 1..w |-> IF i <= n THEN t[i] ELSE 0]
      /\ Len(b) = w /\ DOMAIN b = 1..w
  BY <1>1 DEF Pad
<1>4. ASSUME NEW i \in 1..w PROVE b[i] = 0 <=> i > n
  <2>1. CASE i <= n
    <3>1. i \in 1..n /\ b[i] = t[i]
      BY <1>3, <2>1
    <3> QED
      BY <1>2, <2>1, <3>1
  <2>2. CASE ~(i <= n)
    BY <1>3, <2>2
  <2> QED
    BY <2>1, <2>2
<1>5. TextLen(b) = n
  <2>1. CASE n = w
    <3>1. ~Contains(b, 0)
      BY <1>3, <1>4, <2>1 DEF Contains
    <3> QED
      BY <1>3, <2>1, <3>1 DEF TextLen
  <2>2. CASE n < w
    <3> DEFINE First(i) == b[i] = 0 /\ \A k \in 1..(i - 1) : b[k] # 0
    <3>1. n + 1 \in 1..w
      BY <2>2
    <3>2. Contains(b, 0)
      BY <1>3, <1>4, <3>1 DEF Contains
    <3>3. First(n + 1)
      <4>1. b[n + 1] = 0
        BY <1>4, <3>1
      <4>2. ASSUME NEW k \in 1..((n + 1) - 1) PROVE b[k] # 0
        <5>1. k \in 1..w /\ ~(k > n)
          BY <1>1
        <5> QED
          BY <1>4, <5>1
      <4> QED
        BY <4>1, <4>2
    <3>4. ASSUME NEW i \in 1..w, First(i) PROVE i = n + 1
      <4>1. i > n
        BY <1>4, <3>4
      <4>2. CASE i > n + 1
        <5>1. n + 1 \in 1..(i - 1)
          BY <4>2
        <5>2. b[n + 1] # 0
          BY <3>4, <5>1
        <5> QED
          BY <3>3, <5>2
      <4> QED
        BY <4>1, <4>2
    <3>5. PICK j : j = CHOOSE i \in 1..w : First(i)
      OBVIOUS
    <3>6. j = n + 1
      <4> HIDE DEF First
      <4>1. j \in 1..w /\ First(j)
        BY <3>1, <3>3, <3>5
      <4> QED
        BY <3>4, <4>1
    <3>7. TextLen(b) = j - 1
      BY <1>3, <3>2, <3>5 DEF TextLen
    <3> QED
      BY <3>6, <3>7
  <2> QED
    BY <1>1, <2>1, <2>2
<1>6. PaddedRight(b)
  BY <1>3, <1>4, <1>5 DEF PaddedRight
<1>7. SubSeq(b, 1, n) = t
  <2>1. SubSeq(b, 1, n) = [i \in 1..n |-> b[i]]
    <3>1. PICK S : S = {b[i] : i \in 1..w}
      OBVIOUS
    <3>2. b \in Seq(S)
      BY <1>3, <3>1
    <3> QED
      BY <1>1, <1>3, <3>2
  <2>2. t = [i \in 1..n |-> t[i]]
    BY <1>1
  <2>3. ASSUME NEW i \in 1..n PROVE b[i] = t[i]
    <3>1. i \in 1..w /\ i <= n
      BY <1>1
    <3> QED
      BY <1>3, <3>1
  <2> QED
    BY <2>1, <2>2, <2>3
<1>8. ~Contains(t, NotUtf8)
  BY <1>1, <1>2 DEF Contains
<1> QED
  BY <1>5, <1>6, <1>7, <1>8 DEF from_padded

(* A number takes no more than three bytes.                                 *)
LEMMA NumberWidths ==
  ASSUME NEW kind, kind \notin DOMAIN TextWidth
  PROVE  Width(kind) \in 1..3
<1>1. CASE kind \in {"i64", "u64"}
  <2>1. kind \notin {"trace", "opt_price"}
    BY <1>1
  <2>2. Width(kind) = 2
    BY <1>1, <2>1, Zenon DEF Width
  <2> QED
    BY <2>2
<1>2. CASE kind \in {"trace", "opt_price"}
  <2>1. kind \notin {"i64", "u64"}
    BY <1>2
  <2>2. Width(kind) = 3
    BY <1>2, <2>1, Zenon DEF Width
  <2> QED
    BY <2>2
<1>3. CASE kind \notin {"i64", "u64"} /\ kind \notin {"trace", "opt_price"}
  <2>1. Width(kind) = 1
    BY <1>3, Zenon DEF Width
  <2> QED
    BY <2>1
<1> QED
  BY <1>1, <1>2, <1>3

(* Neither flag is an error.                                                *)
LEMMA FlagsReturn ==
  /\ ReadFlag(0) = FALSE /\ ReadFlag(1) = TRUE /\ TRUE # Bad /\ FALSE # Bad
  /\ Flag(TRUE) = 1 /\ Flag(FALSE) = 0
<1>1. TRUE # Bad /\ FALSE # Bad
  <2>1. Bad \notin BOOLEAN
    BY CodecAssumption
  <2> QED
    BY <2>1, Zenon
<1>2. ReadFlag(0) = FALSE
  BY Zenon DEF ReadFlag
<1>3. ReadFlag(1) = TRUE
  <2>1. 1 # 0
    OBVIOUS
  <2> QED
    BY <2>1, Zenon DEF ReadFlag
<1>4. Flag(TRUE) = 1 /\ Flag(FALSE) = 0
  BY DEF Flag
<1> QED
  BY <1>1, <1>2, <1>3, <1>4, Zenon

(* A byte in front of others.                                               *)
LEMMA FirstIs ==
  ASSUME NEW S, NEW x \in S, NEW z \in Seq(S), NEW b, b = <<x>> \o z
  PROVE  b[1] = x /\ Tail(b) = z
<1>1. PICK u \in Seq(S) : u = <<x>> /\ Len(u) = 1 /\ u[1] = x
  <2>1. <<x>> \in Seq(S) /\ Len(<<x>>) = 1 /\ <<x>>[1] = x
    OBVIOUS
  <2> QED
    BY <2>1
<1>2. PICK n \in Nat : n = Len(z)
  OBVIOUS
<1>3. /\ b \in Seq(S) /\ Len(b) = Len(u) + Len(z)
      /\ \A i \in 1..Len(u) : b[i] = u[i]
      /\ \A i \in 1..Len(z) : b[Len(u) + i] = z[i]
  BY <1>1, JoinedIs
<1>4. b[1] = x /\ Len(b) = 1 + n
  <2>1. 1 \in 1..Len(u)
    BY <1>1
  <2> QED
    BY <1>1, <1>2, <1>3, <2>1
<1>5. ASSUME NEW i \in 1..n PROVE b[i + 1] = z[i]
  <2>1. i \in 1..Len(z) /\ Len(u) + i = i + 1
    BY <1>1, <1>2
  <2> QED
    BY <1>3, <2>1
<1>6. z = [i \in 1..n |-> z[i]]
  BY <1>2
<1>7. Tail(b) = [i \in 1..n |-> b[i + 1]]
  BY <1>2, <1>3, <1>4
<1> QED
  BY <1>4, <1>5, <1>6, <1>7

(* An optional price comes back, or its absence.                            *)
LEMMA PricesReturn ==
  ASSUME NEW v, v = Nothing \/ Fits(v, 2), NEW b, b = Put("opt_price", v)
  PROVE  Get("opt_price", b) = v
<1>1. /\ "opt_price" \notin DOMAIN TextWidth /\ "opt_price" \notin DOMAIN Variants
      /\ "opt_price" \notin {"flag", "nonzero"} /\ "opt_price" # "flag"
      /\ "opt_price" # "nonzero" /\ "opt_price" \notin {"u64", "trace"}
  BY DEF TextWidth, Variants
<1>2. PICK x, y : x = Flag(v # Nothing) /\ y = (IF v = Nothing THEN 0 ELSE v)
  OBVIOUS
<1>3. PICK z : z = LittleEndian(y, 2)
  OBVIOUS
<1>4. b = <<x>> \o z
  BY <1>1, <1>2, <1>3, Zenon DEF Put
<1>5. z = [i \in 1..2 |-> z[i]]
  BY <1>3 DEF LittleEndian
<1>6. b[1] = x /\ Tail(b) = z
  <2>1. PICK S : x \in S /\ z[1] \in S /\ z[2] \in S
    <3>1. x \in {x, z[1], z[2]} /\ z[1] \in {x, z[1], z[2]} /\ z[2] \in {x, z[1], z[2]}
      OBVIOUS
    <3> QED
      BY <3>1, Zenon
  <2>2. \A i \in 1..2 : z[i] \in S
    <3>1. \A i \in 1..2 : i = 1 \/ i = 2
      OBVIOUS
    <3> QED
      BY <2>1, <3>1, Zenon
  <2>3. z \in Seq(S) /\ Len(z) = 2
    BY <1>5, <2>2
  <2> QED
    BY <1>4, <2>1, <2>3, FirstIs
<1>7. Get("opt_price", b) = CASE ReadFlag(b[1]) = Bad -> Bad
                              [] ReadFlag(b[1]) = TRUE -> Signed(Tail(b))
                              [] OTHER -> Nothing
  BY <1>1, Zenon DEF Get
<1>8. CASE v = Nothing
  <2>1. x = 0
    BY <1>2, <1>8, FlagsReturn
  <2>2. ReadFlag(b[1]) = FALSE
    BY <1>6, <2>1, FlagsReturn
  <2>3. ReadFlag(b[1]) # Bad /\ ReadFlag(b[1]) # TRUE
    BY <2>2, FlagsReturn, Zenon
  <2> QED
    BY <1>7, <1>8, <2>3, Zenon
<1>9. CASE v # Nothing
  <2>1. x = 1 /\ y = v
    BY <1>2, <1>9, FlagsReturn
  <2>2. ReadFlag(b[1]) = TRUE
    BY <1>6, <2>1, FlagsReturn
  <2>3. ReadFlag(b[1]) # Bad
    BY <2>2, FlagsReturn, Zenon
  <2>4. Get("opt_price", b) = Signed(Tail(b))
    BY <1>7, <2>2, <2>3, Zenon
  <2>5. Fits(v, 2) /\ v \in Int
    BY <1>9 DEF Fits
  <2>6. PICK w \in 1..3 : w = 2
    OBVIOUS
  <2>7. Signed(z) = v
    BY <1>3, <2>1, <2>5, <2>6, NumbersReturn
  <2> QED
    BY <1>6, <2>4, <2>7
<1> QED
  BY <1>8, <1>9

(* A variant, a flag and a number that is neither come back.                *)
LEMMA VariantsReturn ==
  ASSUME NEW kind \in DOMAIN Variants, NEW v \in 1..Variants[kind], NEW b, b = Put(kind, v)
  PROVE  Get(kind, b) = v
<1>1. b = LittleEndian(v, 1)
  BY PutIs
<1>2. Variants[kind] \in 1..10
  BY DEF Variants
<1>3. v \in 1..10
  BY <1>2
<1>4. b[1] = v
  <2>1. PICK B \in Nat : B = BASE /\ B > 10
    BY CodecAssumption
  <2>2. Place[1] = 1 /\ Place[1 + 1] = B
    BY <2>1 DEF Place
  <2>3. b[1] = ((v % B) \div 1) % B
    BY <1>1, <2>1, <2>2 DEF LittleEndian
  <2>4. v % B = v /\ v \div 1 = v
    BY <1>3, <2>1
  <2> QED
    BY <2>3, <2>4
<1> QED
  BY <1>4, GetIs

(* A flag.                                                                  *)
LEMMA BooleansReturn ==
  ASSUME NEW kind \in {"flag", "nonzero"}, NEW v \in BOOLEAN, NEW b, b = Put(kind, v)
  PROVE  Get(kind, b) = v
<1>1. kind \notin DOMAIN TextWidth /\ kind \notin DOMAIN Variants
  BY KindsOfField
<1>2. b = <<Flag(v)>>
  BY <1>1, Zenon DEF Put
<1>3. b[1] = Flag(v)
  BY <1>2
<1>4. CASE kind = "flag"
  <2>1. Get(kind, b) = ReadFlag(b[1])
    BY <1>1, <1>4, Zenon DEF Get
  <2>2. v = TRUE \/ v = FALSE
    BY Zenon
  <2> QED
    BY <1>3, <2>1, <2>2, FlagsReturn, Zenon
<1>5. CASE kind = "nonzero"
  <2>1. kind # "flag"
    BY <1>5
  <2>2. Get(kind, b) = (b[1] # 0)
    BY <1>1, <1>5, <2>1, Zenon DEF Get
  <2>3. 1 # 0
    OBVIOUS
  <2>4. v = TRUE \/ v = FALSE
    BY Zenon
  <2> QED
    BY <1>3, <2>2, <2>3, <2>4, FlagsReturn, Zenon
<1> QED
  BY <1>4, <1>5

(* Whatever a field holds is what is read of the bytes it is written as.    *)
LEMMA ValuesReturn ==
  ASSUME NEW kind, NEW v, Holds(kind, v), NEW b, b = Put(kind, v)
  PROVE  Get(kind, b) = v
<1>1. CASE kind \in DOMAIN TextWidth
  <2>1. kind \notin {"flag", "nonzero"} /\ kind # "opt_price" /\ kind \notin DOMAIN Variants
    BY <1>1, KindsOfField
  <2>2. v \in Seq(Byte \ {0, NotUtf8}) /\ Len(v) <= Width(kind)
    <3>1. kind \notin {"u64", "trace"}
      BY <1>1 DEF TextWidth
    <3> QED
      BY <1>1, <2>1, <3>1, Zenon DEF Holds
  <2>3. b = Pad(v, Width(kind))
    BY <1>1, <2>1, Zenon DEF Put
  <2>4. Width(kind) \in Nat
    <3>1. Width(kind) \in 1..8 /\ 1..8 \subseteq Nat
      BY WidthIs
    <3> QED
      BY <3>1, Zenon
  <2>5. from_padded(b) = v
    BY <2>2, <2>3, <2>4, TextsReturn
  <2> QED
    BY <1>1, <2>5, GetIs
<1>2. CASE kind \in DOMAIN Variants
  <2>1. kind \notin DOMAIN TextWidth
    BY <1>2, KindsOfField
  <2>2. v \in 1..Variants[kind]
    <3>1. kind \notin {"u64", "trace", "flag", "nonzero"} /\ kind # "opt_price"
      BY <1>2 DEF Variants
    <3>2. kind \notin {"u64", "trace"} /\ kind \notin {"flag", "nonzero"}
      BY <3>1
    <3> QED
      BY <1>2, <2>1, <3>1, <3>2, Zenon DEF Holds
  <2> QED
    BY <1>2, <2>2, VariantsReturn
<1>3. CASE kind \in {"flag", "nonzero"}
  <2>1. kind \notin DOMAIN TextWidth /\ kind \notin DOMAIN Variants
    BY <1>3, KindsOfField
  <2>2. v \in BOOLEAN
    BY <1>3, <2>1, Zenon DEF Holds
  <2> QED
    BY <1>3, <2>2, BooleansReturn
<1>4. CASE kind = "opt_price"
  <2>1. kind \notin DOMAIN TextWidth /\ kind \notin DOMAIN Variants
    BY <1>4, KindsOfField
  <2>2. kind \notin {"flag", "nonzero"} /\ kind \notin {"u64", "trace"}
    BY <1>4
  <2>3. v = Nothing \/ Fits(v, 2)
    BY <1>4, <2>1, <2>2, Zenon DEF Holds
  <2> QED
    BY <1>4, <2>3, PricesReturn
<1>5. ASSUME kind \notin DOMAIN TextWidth, kind \notin DOMAIN Variants,
             kind \notin {"flag", "nonzero"}, kind # "opt_price"
      PROVE  Get(kind, b) = v
  <2>1. b = LittleEndian(v, Width(kind))
    BY <1>5, Zenon DEF Put
  <2>2. PICK w \in 1..3 : w = Width(kind)
    BY <1>5, NumberWidths
  <2>3. kind # "flag" /\ kind # "nonzero"
    BY <1>5
  <2>4. CASE kind \in {"u64", "trace"}
    <3>1. v \in 0..(Place[w + 1] - 1)
      BY <1>5, <2>2, <2>4, Zenon DEF Holds
    <3>2. v \in Int
      <4>1. Place[w + 1] \in Nat
        BY PlaceIs
      <4> QED
        BY <3>1, <4>1
    <3>3. FromBytes(b) = v
      BY <2>1, <2>2, <3>1, <3>2, NumbersReturn
    <3>4. Get(kind, b) = FromBytes(b)
      BY <1>5, <2>3, <2>4, Zenon DEF Get
    <3> QED
      BY <3>3, <3>4
  <2>5. CASE kind \notin {"u64", "trace"}
    <3>1. Fits(v, w)
      BY <1>5, <2>2, <2>5, Zenon DEF Holds
    <3>2. v \in Int
      BY <3>1 DEF Fits
    <3>3. Signed(b) = v
      BY <2>1, <2>2, <3>1, <3>2, NumbersReturn
    <3>4. Get(kind, b) = Signed(b)
      BY <1>5, <2>3, <2>5, Zenon DEF Get
    <3> QED
      BY <3>3, <3>4
  <2> QED
    BY <2>4, <2>5
<1> QED
  BY <1>1, <1>2, <1>3, <1>4, <1>5, Zenon

(* The walk has read the first n fields of a record, as they were written.  *)
Kept(kept, all, n, of) == kept = [f \in {all[i] : i \in 1..n} |-> of[f]]
Recalls(w, rec, e, n) ==
  w.ok /\ w.at = Len(e[1..n]) /\ Kept(w.of, FieldsOf(rec), n, rec.of)

(* A field that is there and is read is kept.                               *)
LEMMA TookKeeps ==
  ASSUME NEW bytes, NEW w, w.ok, NEW field, NEW y, y = Took("rust", bytes, w, field),
         NEW end, end = w.at + Width(TypeOf[field]), ~(end > Len(bytes)),
         NEW v, v = Get(TypeOf[field], SubSeq(bytes, w.at + 1, end)), v # Bad
  PROVE  y.ok /\ y.at = end /\ y.of = With(w.of, field, v)
<1>1. v = Reading("rust", field, SubSeq(bytes, w.at + 1, end))
  BY DEF Reading
<1>2. y = IF ~w.ok THEN w
          ELSE IF end > Len(bytes) THEN [w EXCEPT !.ok = FALSE]
          ELSE IF v = Bad THEN [w EXCEPT !.ok = FALSE]
          ELSE [at |-> end, ok |-> TRUE, of |-> With(w.of, field, v)]
  BY <1>1 DEF Took
<1> QED
  BY <1>2

(* The bytes behind a place.                                                *)
LEMMA TakenIs ==
  ASSUME NEW S, NEW t \in Seq(S), NEW a, NEW p, HoldsAt(t, a, p), OfWidth(p, Len(p))
  PROVE  SubSeq(t, a + 1, a + Len(p)) = p
<1>1. PICK w \in Nat : w = Len(p)
  BY DEF HoldsAt
<1>2. /\ a \in Nat /\ a + w <= Len(t) /\ \A i \in 1..w : t[a + i] = p[i]
      /\ p = [i \in 1..w |-> p[i]]
  BY <1>1 DEF HoldsAt, OfWidth
<1>3. PICK s : s = SubSeq(t, a + 1, a + w)
  OBVIOUS
<1>4. s = [i \in 1..w |-> t[a + i]]
  BY <1>2, <1>3
<1> QED
  BY <1>1, <1>2, <1>3, <1>4

(* What was read, with the next field of the record, is its fields so far.  *)
LEMMA KeptIs ==
  ASSUME NEW all, NEW n \in Nat, NEW of, NEW kept, Kept(kept, all, n, of),
         NEW field, field = all[n + 1], NEW v, v = of[field]
  PROVE  Kept(With(kept, field, v), all, n + 1, of)
<1>1. PICK A, B : A = {all[i] : i \in 1..n} /\ B = {all[i] : i \in 1..(n + 1)}
  OBVIOUS
<1>2. B = A \cup {field}
  BY <1>1
<1>3. With(kept, field, v) = [f \in A \cup {field} |-> of[f]]
  BY <1>1 DEF With, Kept
<1> QED
  BY <1>1, <1>2, <1>3 DEF Kept

(* One field more of the bytes of a record is read as it was written.       *)
LEMMA FieldReturns ==
  ASSUME NEW rec, IsRecord(rec), NEW e, Encoded(e, rec, FieldsOf(rec)),
         NEW whole, whole = e[1..Len(FieldsOf(rec))],
         NEW n \in Nat, n + 1 <= Len(FieldsOf(rec)), NEW w, Recalls(w, rec, e, n),
         NEW y, y = Took("rust", whole, w, FieldsOf(rec)[n + 1])
  PROVE  Recalls(y, rec, e, n + 1)
<1>1. PICK all : all = FieldsOf(rec)
  OBVIOUS
<1>2. PICK field : field = all[n + 1]
  OBVIOUS
<1>3. PICK p : p = Puts(rec, all[n + 1])
  OBVIOUS
<1>4. PICK a : a = Len(e[1..n])
  OBVIOUS
<1>5. HoldsAt(whole, a, p) /\ Len(p) = Width(TypeOf[field]) /\ Len(e[1..(n + 1)]) = a + Len(p)
  <2>1. Encoded(e, rec, all) /\ n + 1 <= Len(all) /\ whole = e[1..Len(all)]
    BY <1>1
  <2>2. HoldsAt(e[1..Len(all)], Len(e[1..n]), p)
    BY <1>3, <2>1, FieldWritten
  <2>3. PICK t : t = e[1..(n + 1)]
    OBVIOUS
  <2>4. PICK s : s = e[1..n]
    OBVIOUS
  <2>5. Wrote(s, t, p, all[n + 1])
    BY <1>3, <2>1, <2>3, <2>4, EncodedGrows
  <2>6. Len(p) = Width(TypeOf[field]) /\ Len(t) = Len(s) + Len(p)
    BY <1>2, <2>5 DEF Wrote
  <2> QED
    BY <1>4, <2>1, <2>2, <2>3, <2>4, <2>6
<1>6. PICK S : whole \in Seq(S)
  <2>1. PICK k \in Nat : k = Len(all) /\ k <= Len(all)
    BY <1>1 DEF Encoded
  <2>2. e[1..k] \in Seq(BytesOf(rec, all))
    BY <1>1, <2>1, EncodedIs
  <2> QED
    BY <1>1, <2>1, <2>2
<1>7. SubSeq(whole, a + 1, a + Len(p)) = p
  <2>1. OfWidth(p, Len(p))
    BY <1>2, <1>3, <1>5, PutIs DEF Puts
  <2> QED
    BY <1>5, <1>6, <2>1, TakenIs
<1>8. field \in DOMAIN rec.of
  <2>1. n + 1 \in 1..Len(all)
    BY <1>1 DEF Encoded
  <2> QED
    BY <1>1, <1>2, <2>1 DEF IsRecord
<1>9. rec.of[field] # Bad /\ Holds(TypeOf[field], rec.of[field])
  BY <1>8 DEF IsRecord
<1>10. Get(TypeOf[field], p) = rec.of[field]
  BY <1>2, <1>3, <1>9, ValuesReturn DEF Puts
<1>11. w.ok /\ w.at = a /\ Kept(w.of, all, n, rec.of)
  BY <1>1, <1>4 DEF Recalls
<1>12. PICK end : end = w.at + Width(TypeOf[field])
  OBVIOUS
<1>13. end = a + Len(p) /\ ~(end > Len(whole))
  <2>1. end = a + Len(p)
    BY <1>5, <1>11, <1>12
  <2>2. a \in Nat /\ Len(p) \in 1..8 /\ Len(whole) \in Nat /\ a + Len(p) <= Len(whole)
    BY <1>5 DEF HoldsAt
  <2>3. ~(a + Len(p) > Len(whole))
    BY <2>2
  <2> QED
    BY <2>1, <2>3
<1>14. PICK v : v = Get(TypeOf[field], SubSeq(whole, w.at + 1, end))
  OBVIOUS
<1>15. v = rec.of[field] /\ v # Bad
  BY <1>7, <1>9, <1>10, <1>11, <1>13, <1>14
<1>16. y.ok /\ y.at = end /\ y.of = With(w.of, field, v)
  <2>1. y = Took("rust", whole, w, field)
    BY <1>1, <1>2
  <2>2. w.ok /\ ~(end > Len(whole)) /\ v # Bad
    BY <1>11, <1>13, <1>15
  <2> QED
    BY <1>12, <1>14, <2>1, <2>2, TookKeeps
<1>17. Kept(With(w.of, field, v), all, n + 1, rec.of)
  BY <1>2, <1>11, <1>15, KeptIs
<1> QED
  BY <1>1, <1>5, <1>13, <1>16, <1>17 DEF Recalls

(* So a walk over fields of the record reads each as it was written.        *)
LEMMA WalkReturns ==
  ASSUME NEW rec, IsRecord(rec), NEW all, all = FieldsOf(rec), NEW e, Encoded(e, rec, all),
         NEW whole, whole = e[1..Len(all)], NEW fields, NEW m \in Nat, Behind(all, m, fields),
         NEW from, Recalls(from, rec, e, m), NEW h, Walks(h, "rust", whole, fields, from),
         NEW d \in Nat, d <= Len(fields)
  PROVE  Recalls(h[1..d], rec, e, m + d)
<1>1. /\ Len(all) \in Nat /\ Len(fields) \in Nat /\ m + Len(fields) <= Len(all)
      /\ \A j \in 1..Len(fields) : all[m + j] = fields[j]
  BY DEF Behind
<1> DEFINE P == {k \in Nat : k <= Len(fields) => Recalls(h[1..k], rec, e, m + k)}
<1>2. 0 \in P
  <2>1. h[1..0] = from /\ m + 0 = m
    BY <1>1, WalksGrow
  <2> QED
    BY <2>1
<1>3. ASSUME NEW k \in Nat, k \in P PROVE k + 1 \in P
  <2> SUFFICES ASSUME k + 1 <= Len(fields) PROVE Recalls(h[1..(k + 1)], rec, e, m + (k + 1))
    OBVIOUS
  <2>1. Recalls(h[1..k], rec, e, m + k)
    BY <1>1, <1>3
  <2>2. PICK n \in Nat : n = m + k /\ n + 1 = m + (k + 1)
    OBVIOUS
  <2>3. n + 1 <= Len(all) /\ k + 1 \in 1..Len(fields)
    BY <1>1, <2>2
  <2>4. all[n + 1] = fields[k + 1]
    BY <1>1, <2>2, <2>3
  <2>5. PICK w, y : w = h[1..k] /\ y = h[1..(k + 1)]
    OBVIOUS
  <2>6. y = Took("rust", whole, w, all[n + 1])
    BY <1>1, <2>4, <2>5, WalksGrow
  <2>7. Recalls(w, rec, e, n)
    BY <2>1, <2>2, <2>5
  <2>8. Recalls(y, rec, e, n + 1)
    BY <2>3, <2>6, <2>7, FieldReturns
  <2> QED
    BY <2>2, <2>5, <2>8
<1>4. d \in P
  <2> HIDE DEF P
  <2> QED
    BY <1>2, <1>3, Counting
<1> QED
  BY <1>4

(* The fields of its kind, from the start.                                  *)
LEMMA HeadReturns ==
  ASSUME NEW rec, IsRecord(rec), NEW e, NEW whole, whole = e[1..Len(FieldsOf(rec))],
         NEW h, Headed(h, rec, e, "rust", whole), NEW f, f = Read(rec.kind)
  PROVE  Recalls(h[1..Len(f)], rec, e, Len(f))
<1>1. PICK all, g : all = FieldsOf(rec) /\ g = Rest(rec)
  OBVIOUS
<1>2. rec.kind \in RecordKinds /\ Encoded(e, rec, all) /\ Walks(h, "rust", whole, f, Start)
  BY <1>1 DEF Headed
<1>3. /\ Listed(all) /\ Listed(f) /\ Listed(g) /\ Len(all) = Len(f) + Len(g)
      /\ \A j \in 1..Len(f) : all[0 + j] = f[j]
  BY <1>1, <1>2, Layout
<1>4. PICK m \in Nat, n \in Nat, k \in Nat :
        m = Len(f) /\ n = Len(g) /\ k = Len(all) /\ k = m + n
  BY <1>3 DEF Listed
<1>5. PICK z \in Nat : z = 0
  OBVIOUS
<1>6. Behind(all, z, f)
  BY <1>3, <1>4, <1>5 DEF Behind
<1>7. Recalls(Start, rec, e, z)
  <2>1. e[1..0] = <<>>
    BY <1>2, EncodesGrow DEF Encoded
  <2>2. Start.ok /\ Start.at = 0 /\ Start.of = <<>>
    BY DEF Start
  <2>3. Kept(<<>>, all, z, rec.of)
    BY <1>5 DEF Kept
  <2>4. Len(e[1..z]) = 0
    BY <1>5, <2>1
  <2> QED
    BY <1>1, <2>2, <2>3, <2>4 DEF Recalls
<1>8. whole = e[1..Len(all)] /\ m <= Len(f) /\ z + m = m
  BY <1>1, <1>4, <1>5
<1>9. Recalls(h[1..m], rec, e, z + m)
  BY <1>1, <1>2, <1>6, <1>7, <1>8, WalkReturns
<1> QED
  BY <1>4, <1>8, <1>9

(* A record read to its end is the record.                                  *)
Returned(y, rec) == y.ok /\ y.at = Len(encode(rec)) /\ y.of = rec.of

(* Every field of it read is the whole of it.                               *)
LEMMA AllReturned ==
  ASSUME NEW rec, IsRecord(rec), NEW e, encode(rec) = e[1..Len(FieldsOf(rec))],
         NEW y, Recalls(y, rec, e, Len(FieldsOf(rec)))
  PROVE  Returned(y, rec)
<1>1. PICK all, of : all = FieldsOf(rec) /\ of = rec.of
  OBVIOUS
<1>2. y.ok /\ y.at = Len(encode(rec)) /\ Kept(y.of, all, Len(all), of)
  BY <1>1 DEF Recalls
<1>3. DOMAIN of = {all[i] : i \in 1..Len(all)}
  BY <1>1 DEF IsRecord
<1>4. y.of = [f \in DOMAIN of |-> of[f]]
  BY <1>2, <1>3 DEF Kept
<1>5. of = [f \in DOMAIN of |-> of[f]]
  <2>1. rec = [kind |-> rec.kind, of |-> [f \in DOMAIN of |-> of[f]]]
    BY <1>1 DEF IsRecord
  <2> QED
    BY <1>1, <2>1
<1> QED
  BY <1>1, <1>2, <1>4, <1>5 DEF Returned

(* The engine reads of the bytes of a record all of its fields.             *)
LEMMA ReadReturns ==
  ASSUME NEW rec, IsRecord(rec)
  PROVE  Returned(RustRead(rec.kind, encode(rec)), rec)
<1>1. PICK all, f, g, whole :
        all = FieldsOf(rec) /\ f = Read(rec.kind) /\ g = Rest(rec) /\ whole = encode(rec)
  OBVIOUS
<1>2. rec.kind \in RecordKinds /\ Sound(rec)
  BY RecordIsSound DEF IsRecord
<1>3. /\ Listed(all) /\ Listed(f) /\ Listed(g) /\ Len(all) = Len(f) + Len(g)
      /\ \A j \in 1..Len(g) : all[Len(f) + j] = g[j]
  BY <1>1, <1>2, Layout
<1>4. PICK e : Encoded(e, rec, all) /\ whole = e[1..Len(all)]
  BY <1>1, <1>3, EncodeIs
<1>5. PICK m \in Nat, n \in Nat, k \in Nat :
        m = Len(f) /\ n = Len(g) /\ k = Len(all) /\ k = m + n
  BY <1>3 DEF Listed
<1>6. DOMAIN f = 1..Len(f) /\ DOMAIN g = 1..Len(g)
  BY <1>3 DEF Listed
<1>7. PICK h : Walks(h, "rust", whole, f, Start) /\ RustWalk(whole, f, Start) = h[1..Len(f)]
  BY <1>5, <1>6, RustWalkIs
<1>8. PICK w : w = h[1..Len(f)]
  OBVIOUS
<1>9. Headed(h, rec, e, "rust", whole) /\ whole = e[1..Len(FieldsOf(rec))]
  BY <1>1, <1>2, <1>4, <1>7 DEF Headed
<1>10. Recalls(w, rec, e, m)
  BY <1>1, <1>5, <1>8, <1>9, HeadReturns
<1>11. w.ok
  BY <1>10 DEF Recalls
<1>12. PICK y : y = RustRead(rec.kind, whole)
  OBVIOUS
<1>13. ASSUME rec.kind = "OrderEvent" PROVE Recalls(y, rec, e, Len(all))
  <2>1. IsEvent(rec)
    BY <1>2, <1>13 DEF IsEvent, Sound
  <2>2. w.of.event = rec.of.event
    <3>1. PICK S : whole \in Seq(S)
      BY <1>1, <1>2, EncodeBytes
    <3>2. Alike(whole, whole)
      BY <3>1 DEF Alike
    <3>3. w = h[1..Len(Read(rec.kind))] /\ Alike(whole, e[1..Len(FieldsOf(rec))])
      BY <1>1, <1>8, <1>9, <3>2
    <3> QED
      BY <1>9, <1>11, <2>1, <3>1, <3>3, EventRead
  <2>3. decode_event(w.of.event) = g
    BY <1>1, <1>13, <2>2 DEF Rest
  <2>4. PICK r : Walks(r, "rust", whole, g, w) /\ RustWalk(whole, g, w) = r[1..Len(g)]
    BY <1>5, <1>6, RustWalkIs
  <2>5. y = RustWalk(whole, g, w)
    BY <1>1, <1>7, <1>8, <1>11, <1>12, <1>13, <2>3 DEF RustRead
  <2>6. Behind(all, m, g)
    BY <1>3, <1>5 DEF Behind
  <2>7. n <= Len(g)
    BY <1>5
  <2>8. Recalls(r[1..n], rec, e, m + n)
    BY <1>1, <1>4, <1>10, <2>4, <2>6, <2>7, WalkReturns
  <2> QED
    BY <1>5, <2>4, <2>5, <2>8
<1>14. ASSUME rec.kind # "OrderEvent" PROVE Recalls(y, rec, e, Len(all))
  <2>1. y = w
    BY <1>1, <1>7, <1>8, <1>12, <1>14 DEF RustRead
  <2>2. g = <<>>
    BY <1>1, <1>14 DEF Rest
  <2>3. m = Len(all)
    BY <1>5, <2>2
  <2> QED
    BY <1>10, <2>1, <2>3
<1>15. Recalls(y, rec, e, Len(FieldsOf(rec))) /\ encode(rec) = e[1..Len(FieldsOf(rec))]
  BY <1>1, <1>4, <1>13, <1>14
<1>16. Returned(y, rec)
  BY <1>15, AllReturned
<1> QED
  BY <1>1, <1>12, <1>16

(* And decodes them to the record.                                          *)
LEMMA RecordReturns ==
  ASSUME NEW rec, IsRecord(rec)
  PROVE  decode(rec.kind, encode(rec)) = rec
<1>1. PICK kind, bytes, y :
        kind = rec.kind /\ bytes = encode(rec) /\ y = RustRead(kind, bytes)
  OBVIOUS
<1>2. y.ok /\ y.at = Len(bytes) /\ y.of = rec.of
  BY <1>1, ReadReturns DEF Returned
<1>3. finish(y, bytes)
  BY <1>2 DEF finish
<1>4. kind = "IntentPersisted" => IntentAllowed(y.of)
  BY <1>1, <1>2 DEF IsRecord
<1>5. OnlyIfKnown(y.of) = rec.of
  BY <1>2 DEF IsRecord
<1>6. decode(kind, bytes) = [kind |-> kind, of |-> OnlyIfKnown(y.of)]
  BY <1>1, <1>3, <1>4, DecodeIs
<1>7. PICK body : rec = [kind |-> kind, of |-> body]
  BY <1>1, Zenon DEF IsRecord
<1>8. rec.of = body
  BY <1>7
<1> QED
  BY <1>1, <1>5, <1>6, <1>7, <1>8

(* What record.rs writes of any record as its types have it, record.rs      *)
(* reads back as that record: no field is read at another's place, at       *)
(* another's width or as another's type, whatever the record holds.         *)
THEOREM RecordsRoundTrip == Spec => []RoundTrips
<1>1. LengthInv => RoundTrips
  <2> SUFFICES ASSUME LengthInv, damage = "none" PROVE decode(record.kind, payload) = record
    BY DEF RoundTrips
  <2>1. IsRecord(record) /\ payload = encode(record)
    BY DEF LengthInv
  <2> QED
    BY <2>1, RecordReturns
<1> QED
  BY <1>1, LengthInvHolds, PTL
=============================================================================
