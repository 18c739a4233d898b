----------------------------- MODULE MCNumbers -----------------------------
(* Numbers at eight bits and two decimals, and records of every kind: with  *)
(* empty, short and full texts, numbers at both ends of their width, and    *)
(* prices present or not.                                                   *)
EXTENDS Numbers

Params == [risk_pct : {2, 50}, max_leverage : {100}, stop_atr_mult : {50, 127},
           fallback_stop_pct : {3}, rr : {0, 127}, trail : {TRUE}]
Bar(h, l, c)  == [open |-> c, high |-> h, low |-> l, close |-> c]
CandleRuns == {<<>>, <<Bar(60, 50, 52), Bar(90, 88, 89)>>,
               <<Bar(60, 50, 52), Bar(53, 51, 52), Bar(30, 10, 11)>>,
               <<Bar(60, 60, 60), Bar(60, 60, 60), Bar(60, 60, 60)>>}
CapChoices == {[margin |-> None, bracket |-> None, available |-> None],
               [margin |-> 20, bracket |-> None, available |-> 7],
               [margin |-> None, bracket |-> -1, available |-> None]}

SampleTrades ==
  [params : Params, equity : {-1, 40, 127}, price : {0, 5, 90}, candles : CandleRuns,
   period : {1, 2}, conviction : {-1, 60, 127}, caps : CapChoices, is_long : BOOLEAN]

Text(width) == {<<>>, <<3>>, [i \in 1..width |-> 9]}
Extremes     == {-128, -1, 0, 127}
Traces      == {0, 4095}

Rec(kind, fields) == {[kind |-> kind, of |-> f] : f \in fields}

Intents == [client_order_id : Text(5), instrument : {<<7, 8>>}, side : 1..2, order_kind : 1..3,
            authority : 1..2, qty : {1, 127}, limit_price : {Nothing, 60}, stop_price : {Nothing, 61},
            quote_at_decision : {Nothing, 62}, trace_id : {4095}]

Event(kinds, more) ==
  {common @@ tail : common \in [client_order_id : {<<3>>}, trace_id : Traces,
                                from_state : {1, 10}, to_state : {7}, applied : BOOLEAN,
                                event : kinds],
                    tail \in more}

EventRecords ==
  Event({1, 4, 6, 7}, {<<>>})
    \cup Event({2}, [venue_order_id : Text(4)])
    \cup Event({3}, [code : {-8, 7}, text : Text(7)])
    \cup Event({5}, [exec_id : Text(6), qty : {1, 127}, price : Extremes])
    \cup Event({8}, [cause : 1..7])
    \cup Event({9}, [state : 1..10, known : {TRUE}, venue_order_id : Text(4), filled_qty : {0, 127}])
    \cup Event({9}, [state : 1..10, known : {FALSE}, venue_order_id : {<<>>}, filled_qty : {0, 127}])

SampleRecords ==
  Rec("EpochClaimed", [epoch : {0, 255}, resumed_from : {1, 255}])
    \cup Rec("IntentPersisted", {f \in Intents : IntentAllowed(f)})
    \cup Rec("OrderEvent", EventRecords)
    \cup Rec("Decision", [instrument : Text(3), actor : 1..7, decision_kind : 1..9,
                          trace_id : Traces, value : Extremes, note : {<<9, 9>>}])
    \cup Rec("Mark", [instrument : Text(3), price : Extremes])
    \cup Rec("Balance", [asset : Text(2), amount : Extremes])
    \cup Rec("Ticked", {<<>>})
=============================================================================
