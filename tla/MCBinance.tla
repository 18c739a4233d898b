----------------------------- MODULE MCBinance -----------------------------
(* One order on the second of two symbols, started for both or for one.     *)
EXTENDS Binance

OnSecond  == [o \in Orders |-> "s2"]
OneLimit  == [o \in Orders |-> [qty |-> 4, kind |-> "Limit", limit_price |-> 10,
                                stop_price |-> None, quote |-> None]]
TwoRules  == [s \in {"s1", "s2"} |-> [step_size |-> 2, min_qty |-> 2, min_notional |-> 40]]
BothOrOne == {<<"s1", "s2">>, <<"s1">>}
=============================================================================
