----------------------------- MODULE FixedPoint -----------------------------
(* The fixed-point numbers of sentinel-types: an integer of one machine     *)
(* width, counted in units of 1/SCALE.  The width and the scale are         *)
(* constants, so that TLC can stand at both ends of the range.  Refused     *)
(* stands for every error (Overflow, and each ParseError): nothing here     *)
(* tells one refusal from another.                                          *)
EXTENDS Integers, Sequences, SequencesExt

CONSTANTS
  MAX,            \* i64::MAX
  SCALE_DIGITS,   \* decimal places of one unit
  MAX_WHOLE,      \* the largest whole part whose units still fit
  Refused         \* no value: the text or the arithmetic was refused

SCALE == 10 ^ SCALE_DIGITS
MIN   == -MAX - 1
Raw   == MIN .. MAX

ASSUME WidthAssumption ==
  /\ MAX \in Nat \ {0}
  /\ SCALE_DIGITS \in Nat \ {0}
  /\ MAX_WHOLE \in Nat
  /\ MAX_WHOLE * SCALE <= MAX + 1
  /\ (MAX_WHOLE + 1) * SCALE > MAX + 1
  /\ Refused \notin Int

(* Narrowing from i128 back to i64, refused when it does not fit.           *)
Fit(n) == IF n \in Raw THEN n ELSE Refused

(* Rust's integer division: toward zero, where \div rounds down.            *)
TruncDiv(n, d) ==
  LET mag(x) == IF x < 0 THEN -x ELSE x
      q      == mag(n) \div mag(d)
  IN  IF (n < 0) = (d < 0) THEN q ELSE -q

Lesser(a, b)  == IF a <= b THEN a ELSE b
Greater(a, b) == IF a >= b THEN a ELSE b

Saturate(n)         == Greater(MIN, Lesser(MAX, n))
SaturatingAdd(a, b) == Saturate(a + b)
SaturatingSub(a, b) == Saturate(a - b)
Abs(a)              == Saturate(IF a < 0 THEN -a ELSE a)
CheckedAdd(a, b)    == Fit(a + b)
CheckedSub(a, b)    == Fit(a - b)

(* The one product of two fixed-point values, rescaled once.                *)
Notional(price, qty) == Fit(TruncDiv(price * qty, SCALE))

----------------------------------------------------------------------------
(* Text.  A text is a sequence of characters; a character that is not a     *)
(* digit has no value.                                                      *)

DigitChars == <<"0", "1", "2", "3", "4", "5", "6", "7", "8", "9">>
IsDigit(c)  == \E d \in 1..10 : DigitChars[d] = c
Value(c)    == (CHOOSE d \in 1..10 : DigitChars[d] = c) - 1
AllDigits(t) == \A i \in DOMAIN t : IsDigit(t[i])

(* The digits of t read as one integer.                                     *)
Number(t) == FoldLeft(LAMBDA n, c : 10 * n + Value(c), 0, t)

Negative(t)  == t # <<>> /\ t[1] = "-"
Unsigned(t)  == IF t # <<>> /\ t[1] \in {"-", "+"} THEN Tail(t) ELSE t
PointAt(b)   == IF Contains(b, ".")
                THEN CHOOSE i \in DOMAIN b : b[i] = "." /\ \A k \in 1..(i-1) : b[k] # "."
                ELSE Len(b) + 1

(* The fractional digits, each worth a tenth of the one before it; digits   *)
(* past the scale are read and carry nothing.                               *)
FractionValue(f) ==
  FoldLeft(LAMBDA sum, i : sum + Value(f[i]) * 10 ^ (SCALE_DIGITS - i), 0,
           [i \in 1..Lesser(Len(f), SCALE_DIGITS) |-> i])

(* Mutant: a digit past the precision is dropped instead of refused.        *)
RoundsExcess(f) == TRUE

(* Only zeros may follow the last place the scale holds.                    *)
NothingLost(f) == \A i \in (SCALE_DIGITS + 1)..Len(f) : f[i] = "0"

Whole(t)    == LET b == Unsigned(t) IN SubSeq(b, 1, PointAt(b) - 1)
Fraction(t) == LET b == Unsigned(t) IN SubSeq(b, PointAt(b) + 1, Len(b))

(* The forms both languages accept: "-12", "12.5", ".5", never "12." or     *)
(* "1e5", and a whole part that still fits once it is scaled.               *)
WellFormed(t) ==
  /\ Unsigned(t) # <<>>
  /\ AllDigits(Whole(t))
  /\ Number(Whole(t)) <= MAX_WHOLE
  /\ Contains(Unsigned(t), ".") => Fraction(t) # <<>>
  /\ AllDigits(Fraction(t))
  /\ NothingLost(Fraction(t))

Magnitude(t) == Number(Whole(t)) * SCALE + FractionValue(Fraction(t))

(* The sign is applied last, to a magnitude that may be one past MAX.       *)
parse_e8(t) ==
  IF WellFormed(t)
  THEN Fit(IF Negative(t) THEN -Magnitude(t) ELSE Magnitude(t))
  ELSE Refused

(* Two's complement.                                                        *)
GoWrap(n) == ((n - MIN) % (2 * (MAX + 1))) + MIN

(* fixed.go reads the same grammar and ends without a check of the range:   *)
(* a magnitude past MAX wraps.                                              *)
GoParse(t) ==
  IF WellFormed(t)
  THEN GoWrap(IF Negative(t) THEN -GoWrap(Magnitude(t)) ELSE GoWrap(Magnitude(t)))
  ELSE Refused

Decimal[n \in Nat] ==
  IF n < 10 THEN <<DigitChars[n + 1]>>
            ELSE Append(Decimal[n \div 10], DigitChars[(n % 10) + 1])

(* Exactly SCALE_DIGITS digits, leading zeros kept.                         *)
Padded(n) == [i \in 1..SCALE_DIGITS |->
                DigitChars[((n \div 10 ^ (SCALE_DIGITS - i)) % 10) + 1]]

Trimmed(d) == SubSeq(d, 1, CHOOSE n \in 1..Len(d) :
                /\ d[n] # "0"
                /\ \A i \in (n + 1)..Len(d) : d[i] = "0")

format_e8(raw) ==
  LET magnitude == IF raw < 0 THEN -raw ELSE raw
      frac      == magnitude % SCALE
  IN  (IF raw < 0 THEN <<"-">> ELSE <<>>)
      \o Decimal[magnitude \div SCALE]
      \o (IF frac = 0 THEN <<>> ELSE <<".">> \o Trimmed(Padded(frac)))
=============================================================================
