-------------------------------- MODULE Risk --------------------------------
(* Sizing and protective prices: sentinel-risk.  The crate is pure; what    *)
(* has a history is its caller's trailing stop, each call of trail_ratchet  *)
(* fed with what the last one returned.                                     *)
EXTENDS FixedPoint

CONSTANTS
  Marks, Dists,   \* prices the market shows, stop distances in force
  MaxMarks,       \* bound: marks one trail follows
  Trades,         \* what the caller asks a size for
  None            \* the absence of an optional value

ASSUME RiskAssumption == Marks \subseteq Raw /\ Dists \subseteq Raw /\ None \notin Int

(* What the market did in one period: prices, and a close between the ends. *)
Bars == {b \in [open : 0..MAX, high : 0..MAX, low : 0..MAX, close : 0..MAX] :
           b.low <= b.close /\ b.close <= b.high}

(* What is risked and the leverage allowed are fractions of the equity, so  *)
(* not negative: the crate is unsigned and leaves that to its caller.       *)
(* Everything else is any number of its type.                               *)
ASSUME TradeAssumption ==
  Trades \subseteq
    [params     : [risk_pct : 0..MAX, max_leverage : 0..MAX, stop_atr_mult : Raw,
                   fallback_stop_pct : Raw, rr : Raw, trail : BOOLEAN],
     equity     : Raw,
     price      : Raw,
     candles    : Seq(Bars),
     period     : Nat,
     conviction : Raw,
     caps       : [{"margin", "bracket", "available"} -> Raw \cup {None}],
     is_long    : BOOLEAN]

OrZero(n)      == IF n = Refused THEN 0 ELSE n
clamped(ratio) == Greater(0, Lesser(SCALE, ratio))

(* amount * ratio; what does not fit is nothing.                            *)
scale(amount, ratio) == OrZero(Fit(TruncDiv(amount * ratio, SCALE)))

(* Mutant: the sizing division rounds up.                                   *)
DivideUp(amount, price) ==
  IF price <= 0 THEN 0 ELSE OrZero(Fit((amount * SCALE + price - 1) \div price))

(* amount / price as a quantity, never rounded up.                          *)
divide(amount, price) ==
  IF price <= 0 THEN 0 ELSE OrZero(Fit(TruncDiv(amount * SCALE, price)))

(* The tightest cap; one below zero is no headroom.                         *)
CapsApply(caps, qty) ==
  LET room == {Greater(caps[c], 0) : c \in {k \in DOMAIN caps : caps[k] # None}}
  IN  CHOOSE q \in room \cup {qty} : \A other \in room \cup {qty} : q <= other

(* Mutant: only the bar's own range counts, never the gap before it.        *)
BarRange(prev, bar) == SaturatingSub(bar.high, bar.low)

(* A price is not negative, so no difference of two is MIN, whose           *)
(* magnitude stops the process.                                             *)
TrueRange(prev, bar) ==
  Greater(SaturatingSub(bar.high, bar.low),
    Greater(Abs(SaturatingSub(bar.high, prev)), Abs(SaturatingSub(bar.low, prev))))

(* The mean true range of the last period bars, once there are enough.      *)
atr(candles, period) ==
  LET first  == Len(candles) - period
      ranges == [i \in 1..period |->
                   TrueRange(candles[first + i - 1].close, candles[first + i])]
      mean   == Fit(TruncDiv(FoldLeft(LAMBDA a, b : a + b, 0, ranges), period))
  IN  IF period = 0 \/ Len(candles) < period + 1 \/ mean = Refused THEN None ELSE mean

stop_distance(params, price, atr_value) ==
  IF atr_value # None /\ atr_value > 0
  THEN scale(atr_value, params.stop_atr_mult)
  ELSE scale(price, params.fallback_stop_pct)

(* The stop on the losing side, the target on the winning one.              *)
brackets(entry, is_long, stop_dist, rr) ==
  LET take == scale(stop_dist, rr)
  IN  IF is_long
      THEN [stop |-> SaturatingSub(entry, stop_dist),
            take |-> IF rr > 0 THEN SaturatingAdd(entry, take) ELSE None]
      ELSE [stop |-> SaturatingAdd(entry, stop_dist),
            take |-> IF rr > 0 THEN SaturatingSub(entry, take) ELSE None]

breached(is_long, mark, stop, take) ==
  IF (is_long /\ mark <= stop) \/ (~is_long /\ mark >= stop) THEN "Stop"
  ELSE IF take # None /\ ((is_long /\ mark >= take) \/ (~is_long /\ mark <= take)) THEN "Take"
  ELSE None

risk_sized_qty(params, equity, price, stop_dist, conviction, caps) ==
  IF stop_dist = None \/ equity <= 0 \/ price <= 0 \/ stop_dist <= 0 THEN 0
  ELSE LET risk_amount  == scale(scale(equity, params.risk_pct), clamped(conviction))
           leverage_cap == divide(scale(equity, params.max_leverage), price)
       IN  CapsApply(caps, Lesser(divide(risk_amount, stop_dist), leverage_cap))

(* Mutant: the trail follows the distance in force and forgets where the    *)
(* stop has been.                                                           *)
TrailForgets(is_long, entry, price, stop_dist, watermark, previous_stop) ==
  LET wm == IF watermark = None THEN price
            ELSE IF is_long THEN Greater(watermark, price) ELSE Lesser(watermark, price)
  IN  IF is_long
      THEN [watermark |-> wm, stop |-> Greater(SaturatingSub(entry, stop_dist),
                                               SaturatingSub(wm, stop_dist))]
      ELSE [watermark |-> wm, stop |-> Lesser(SaturatingAdd(entry, stop_dist),
                                              SaturatingAdd(wm, stop_dist))]

trail_ratchet(is_long, entry, price, stop_dist, watermark, previous_stop) ==
  IF is_long
  THEN LET wm   == IF watermark = None THEN price ELSE Greater(watermark, price)
           stop == Greater(SaturatingSub(entry, stop_dist), SaturatingSub(wm, stop_dist))
       IN  [watermark |-> wm,
            stop      |-> IF previous_stop = None THEN stop ELSE Greater(stop, previous_stop)]
  ELSE LET wm   == IF watermark = None THEN price ELSE Lesser(watermark, price)
           stop == Lesser(SaturatingAdd(entry, stop_dist), SaturatingAdd(wm, stop_dist))
       IN  [watermark |-> wm,
            stop      |-> IF previous_stop = None THEN stop ELSE Lesser(stop, previous_stop)]

----------------------------------------------------------------------------
VARIABLES
  trade,   \* a trade that was sized, with the size and prices it was given
  trail,   \* a position followed, and what the last ratchet returned
  seen     \* history: the marks shown and the distances in force with them

riskVars == <<trade, trail, seen>>

RiskInit ==
  /\ trade = None
  /\ trail \in [is_long : BOOLEAN, entry : Marks, watermark : {None}, stop : {None}]
  /\ seen = <<>>

(* The stop is placed where the size was computed from: one distance.       *)
SizeTrade(t) ==
  LET dist  == stop_distance(t.params, t.price, atr(t.candles, t.period))
      exits == brackets(t.price, t.is_long, dist, t.params.rr)
  IN  /\ trade = None
      /\ trade' = [asked |-> t, dist |-> dist, stop |-> exits.stop, take |-> exits.take,
                   qty |-> risk_sized_qty(t.params, t.equity, t.price, dist,
                                          t.conviction, t.caps)]
      /\ UNCHANGED <<trail, seen>>

(* The market moves, and the distance with it.                              *)
FollowMark(price, stop_dist) ==
  /\ Len(seen) < MaxMarks
  /\ LET next == trail_ratchet(trail.is_long, trail.entry, price, stop_dist,
                               trail.watermark, trail.stop)
     IN  trail' = [trail EXCEPT !.watermark = next.watermark, !.stop = next.stop]
  /\ seen' = Append(seen, [price |-> price, dist |-> stop_dist])
  /\ UNCHANGED trade

----------------------------------------------------------------------------
(* Being wrong costs what was budgeted and no more: at every mark at which  *)
(* the stop has not fired, and at the stop itself, the sized quantity has   *)
(* lost at most risk_pct of the equity, whatever the distance, the caps and *)
(* the rounding; and it is never worth more than the leverage allows.       *)
LossIsBudgeted ==
  trade # None =>
    LET t      == trade.asked
        lost(mark) == (IF t.is_long THEN t.price - mark ELSE mark - t.price) * trade.qty
        budget == scale(t.equity, t.params.risk_pct)
        open   == {mark \in Raw : breached(t.is_long, mark, trade.stop, trade.take) # "Stop"}
    IN  /\ trade.qty >= 0
        /\ \A mark \in open \cup {trade.stop} :
             t.equity > 0 => lost(mark) <= budget * SCALE
        /\ t.equity > 0 =>
             trade.qty * t.price <= Greater(0, scale(t.equity, t.params.max_leverage)) * SCALE

(* A quiet bar does not hide a gap: the average range a stop is set from is *)
(* at least the average distance from close to close over the same bars.    *)
RangeCoversGaps ==
  trade # None =>
    LET t     == trade.asked
        first == Len(t.candles) - t.period
        move(i) == LET d == t.candles[first + i].close - t.candles[first + i - 1].close
                   IN  IF d < 0 THEN -d ELSE d
        value == atr(t.candles, t.period)
    IN  value # None =>
          FoldLeft(LAMBDA sum, i : sum + move(i), 0, [i \in 1..t.period |-> i])
            < (value + 1) * t.period

(* The trailing stop stands at the tightest place it was ever due: the      *)
(* distance in force behind the best mark so far or behind the entry,       *)
(* whichever protects more, at any of the marks shown.  So it never loosens *)
(* when the distance widens, nor when the mark falls back.                  *)
StopIsTightestDue ==
  LET best(i) == CHOOSE p \in {seen[k].price : k \in 1..i} :
                   \A k \in 1..i : IF trail.is_long THEN p >= seen[k].price ELSE p <= seen[k].price
      due == {IF trail.is_long
              THEN SaturatingSub(Greater(trail.entry, best(i)), seen[i].dist)
              ELSE SaturatingAdd(Lesser(trail.entry, best(i)), seen[i].dist) : i \in 1..Len(seen)}
  IN  seen # <<>> =>
        /\ trail.stop \in due
        /\ \A d \in due : IF trail.is_long THEN trail.stop >= d ELSE trail.stop <= d
=============================================================================
