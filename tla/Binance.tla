------------------------------ MODULE Binance ------------------------------
(* The REST side of the Binance adapter: one thread that makes one call at  *)
(* a time, every call a request that may be refused, answered with nothing  *)
(* useful, lost on either leg, or reach the venue after the adapter has     *)
(* given up on it; the estimate of the venue's clock that signs it; and the *)
(* repeat of a refused request.  The venue is external: it is modelled by   *)
(* what the adapter relies on.                                              *)
EXTENDS Integers, Sequences, FiniteSets, TLC

CONSTANTS
  Orders,
  SymbolOf,       \* [Orders -> symbol]
  Intent,         \* [Orders -> [qty, kind, limit_price, stop_price, quote]]
  Rules,          \* [symbol -> [step_size, min_qty, min_notional]]
  Configs,        \* the instruments a start may be configured for, sorted
  RECV_WINDOW,    \* how old a timestamp may be when the venue reads it
  AHEAD,          \* and how far in its future
  REQUEST_TIMEOUT,
  SAMPLES,        \* readings of the venue's clock in one sync
  Skews,          \* the local clock less the venue's
  MaxNow,         \* bound: the venue's clock
  MaxCalls,       \* bound: calls of the engine
  MaxFaults,      \* bound: failures of the venue, the network, the clock and the process
  None

(* What the adapter keeps of one reading of the venue's clock and of a      *)
(* sync, and what it can be answered.                                       *)
Samples == [server: Int, sent: Int, received: Int]
Syncs   == [left: Int, best: Samples \cup {None}]
Replies == [status: Nat, code: Int, text: {"whole", "cut", "garbled"},
            data: Int \cup {None}]
Errors  == {"Transport", "RateLimited", "Unauthorized", "Malformed"}

ASSUME AdapterAssumption ==
  /\ SymbolOf \in [Orders -> DOMAIN Rules]
  /\ Configs \subseteq Seq(DOMAIN Rules)
  /\ RECV_WINDOW \in Nat /\ AHEAD \in Nat /\ REQUEST_TIMEOUT \in Nat /\ SAMPLES \in Nat
  /\ Skews \subseteq Int

(* None is the absent case of each of these options.                        *)
ASSUME NoneAssumption ==
  None \notin Int \cup Samples \cup Syncs \cup Replies \cup Errors

VARIABLES
  now,       \* the venue's clock
  skew,      \* how far the local clock is ahead of it
  offset,    \* ServerClock::offset_ms
  loaded,    \* the symbols whose rules are loaded, in order
  task,      \* the call the thread is making
  sync,      \* the clock sync it makes on the way: [left, best], or None
  req,       \* the request it waits for, or None
  late,      \* requests given up on that may still reach the venue
  book,      \* the venue's orders: "none", "open" or "done"
  bounds,    \* what is left of the bounds
  signed,    \* history: the timestamp each order was sent under, or None
  placed,    \* history: when the venue took each order
  told,      \* history: what the engine was told
  shortest   \* history: the shortest trip of the last sync, and whether the
             \* local clock has not been stepped since that sync began

adapter == <<offset, loaded, task, sync, req>>
venue   == <<book, placed>>
vars    == <<now, skew, adapter, late, venue, bounds, signed, told, shortest>>

ORDER_DOES_NOT_EXIST == -2013
UNKNOWN_ORDER        == -2011
TIMESTAMP_SKEW       == -1021
TOO_MANY_REQUESTS    == -1003
is_retryable(code)   == code \in {TIMESTAMP_SKEW, TOO_MANY_REQUESTS}

----------------------------------------------------------------------------
(* Symbol rules.                                                            *)

check(rules, qty, price) ==
  /\ qty > 0
  /\ rules.step_size > 0 => qty % rules.step_size = 0
  /\ qty >= rules.min_qty
  /\ (rules.min_notional > 0 /\ price > 0) => price * qty >= rules.min_notional

Reference(i) ==
  CASE i.limit_price # None -> i.limit_price
    [] i.limit_price = None /\ i.stop_price # None -> i.stop_price
    [] i.limit_price = None /\ i.stop_price = None /\ i.quote # None -> i.quote
    [] OTHER -> 0

Loaded(s) == \E n \in DOMAIN loaded : loaded[n] = s

Placeable(o) ==
  /\ Loaded(SymbolOf[o])
  /\ check(Rules[SymbolOf[o]], Intent[o].qty, Reference(Intent[o]))
  /\ Intent[o].kind = "StopMarket" => Intent[o].stop_price # None
  /\ Intent[o].kind = "Limit" => Intent[o].limit_price # None

----------------------------------------------------------------------------
(* The clock.                                                               *)

local_ms == now + skew

venue_time_ms(local) == IF local + offset > 0 THEN local + offset ELSE 0

Trip(s)     == IF s.received > s.sent THEN s.received - s.sent ELSE 0

(* Mutant: the venue read its clock when the request was sent.              *)
MidpointAtSending(s) == s.sent

Midpoint(s) == s.sent + Trip(s) \div 2

sync_round_trip(s) == s.server - Midpoint(s)

Shorter(best, s) == IF best = None THEN s ELSE IF Trip(s) < Trip(best) THEN s ELSE best

StartSync ==
  /\ sync' = [left |-> SAMPLES, best |-> None]
  /\ shortest' = [trip |-> None, steady |-> TRUE]

----------------------------------------------------------------------------
(* Requests and answers.                                                    *)

Request(kind, o, s, isSigned) ==
  [kind |-> kind, order |-> o, symbol |-> s, signed |-> isSigned,
   stamp |-> IF isSigned THEN venue_time_ms(local_ms) ELSE 0,
   again |-> FALSE, sent |-> IF kind = "time" THEN local_ms ELSE 0,
   deadline |-> now + REQUEST_TIMEOUT, answer |-> None]

Send(kind, o, s, isSigned) == req = None /\ req' = Request(kind, o, s, isSigned)

(* Mutant: the repeat is signed when it is sent.                            *)
RepeatSignedAfresh(r) ==
  [r EXCEPT !.again = TRUE, !.deadline = now + REQUEST_TIMEOUT, !.answer = None,
            !.stamp = venue_time_ms(local_ms)]

(* The same URL, so the same timestamp and signature, on a new connection.  *)
RepeatOf(r) == [r EXCEPT !.again = TRUE, !.deadline = now + REQUEST_TIMEOUT, !.answer = None]

(* Mutant: a 5xx is repeated as well.                                       *)
RepeatsFailuresToo(r) ==
  ~r.again /\ r.answer.status >= 400 /\ r.answer.status \notin {401, 418, 429}

(* A refusal is repeated, once, to read the code in its body.               *)
Repeats(r) ==
  ~r.again /\ r.answer.status >= 400 /\ r.answer.status \notin {401, 418, 429}
           /\ r.answer.status < 500

NoAnswer        == [kind |-> "none", code |-> 0, data |-> None]
Failure(why)    == [kind |-> why, code |-> 0, data |-> None]
Body(code, d)   == [kind |-> "body", code |-> code, data |-> d]

read_json(a) ==
  CASE a.text = "whole"   -> Body(a.code, a.data)
    [] a.text = "cut"     -> Failure("Transport")
    [] a.text = "garbled" -> Failure("Malformed")

(* What send() returns; on the repeat every status is read for its body.    *)
Returned(r) ==
  CASE r.again                        -> read_json(r.answer)
    [] ~r.again /\ r.answer.status \in {418, 429} -> Failure("RateLimited")
    [] ~r.again /\ r.answer.status = 401 -> Failure("Unauthorized")
    [] ~r.again /\ r.answer.status >= 500 -> NoAnswer
    [] OTHER                          -> read_json(r.answer)

----------------------------------------------------------------------------
(* The venue.                                                               *)

Answer(status, code, text, data) ==
  [status |-> status, code |-> code, text |-> text, data |-> data]
Ok(data)      == Answer(200, 0, "whole", data)
Refused(code) == Answer(400, code, "whole", None)

OutsideWindow(r) ==
  r.signed /\ (r.stamp > now + AHEAD \/ now - r.stamp > RECV_WINDOW)

Take(r) ==
  /\ book' = [book EXCEPT ![r.order] = "open"]
  /\ placed' = [placed EXCEPT ![r.order] = Append(@, now)]

Held(r) == SymbolOf[r.order] = r.symbol /\ book[r.order] # "none"

(* A client order id is refused while an order under it is open, and only   *)
(* then.                                                                    *)
Perform(r, a) ==
  CASE r.kind = "POST" ->
         \/ book[r.order] # "open" /\ a = Ok(None) /\ Take(r)
         \/ a = Refused(IF book[r.order] = "open" THEN -4116 ELSE -2019) /\ UNCHANGED venue
    [] r.kind = "DELETE" ->
         IF book[r.order] = "open"
         THEN a = Ok(None) /\ book' = [book EXCEPT ![r.order] = "done"] /\ UNCHANGED placed
         ELSE a = Refused(UNKNOWN_ORDER) /\ UNCHANGED venue
    [] r.kind = "GET" ->
         /\ a = IF Held(r) THEN Ok(None) ELSE Refused(ORDER_DOES_NOT_EXIST)
         /\ UNCHANGED venue
    [] r.kind = "time" -> a = Ok(now) /\ UNCHANGED venue
    [] OTHER -> a = Ok(None) /\ UNCHANGED venue

(* Every answer there is.                                                   *)
Answers(r) ==
  {Ok(None), Ok(now), Answer(429, TOO_MANY_REQUESTS, "whole", None),
   Answer(401, -2015, "whole", None), Answer(503, -1000, "whole", None),
   Answer(200, 0, "cut", None), Answer(200, 0, "garbled", None)}
    \cup {Refused(code) : code \in {ORDER_DOES_NOT_EXIST, UNKNOWN_ORDER, TIMESTAMP_SKEW,
                                   -4116, -2019}}

(* A failure of the venue: nothing done and a status that says so, or       *)
(* something done and an answer that does not say what.                     *)
Fails(r, a) ==
  \/ /\ a \in {Answer(429, TOO_MANY_REQUESTS, "whole", None), Answer(401, -2015, "whole", None),
               Answer(503, -1000, "whole", None)}
     /\ UNCHANGED venue
  \/ /\ ~OutsideWindow(r)
     /\ \E b \in Answers(r) : Perform(r, b)
     /\ a \in {Answer(503, -1000, "whole", None), Answer(200, 0, "cut", None),
               Answer(200, 0, "garbled", None)}

Fault == bounds.faults > 0 /\ bounds' = [bounds EXCEPT !.faults = @ - 1]

(* The request reaches the venue, which answers it.                         *)
Reach ==
  /\ req # None /\ req.answer = None
  /\ \E a \in Answers(req) :
       /\ req' = [req EXCEPT !.answer = a]
       /\ \/ ~OutsideWindow(req) /\ Perform(req, a) /\ UNCHANGED bounds
          \/ OutsideWindow(req) /\ a = Refused(TIMESTAMP_SKEW) /\ UNCHANGED <<venue, bounds>>
          \/ Fails(req, a) /\ Fault
  /\ UNCHANGED <<now, skew, offset, loaded, task, sync, late, signed, told, shortest>>

(* So does one the adapter has given up on; nobody reads the answer.        *)
ReachLate ==
  /\ \E r \in late :
       /\ late' = late \ {r}
       /\ ~OutsideWindow(r)
       /\ \E a \in Answers(r) : Perform(r, a)
  /\ UNCHANGED <<now, skew, adapter, bounds, signed, told, shortest>>

Executes(o) ==
  /\ book[o] = "open"
  /\ book' = [book EXCEPT ![o] = "done"]
  /\ UNCHANGED <<now, skew, adapter, late, placed, bounds, signed, told, shortest>>

----------------------------------------------------------------------------
(* The calls of the engine.                                                 *)

Idle == [op |-> "idle", order |-> None, todo |-> <<>>, error |-> None, begun |-> 0]
Task(op, o, todo) ==
  [op |-> op, order |-> o, todo |-> todo, error |-> None,
   begun |-> IF op \in {"cancel", "lookup"} THEN now ELSE 0]

Free == task = Idle /\ sync = None /\ req = None

Calling == Free /\ bounds.calls > 0 /\ bounds' = [bounds EXCEPT !.calls = @ - 1]

(* What the engine is told that it concludes from.  guess marks an answer   *)
(* read from the body of a 5xx.  Of an absence: when the call began, if the *)
(* order's symbol is loaded, and if its own request was dead by then.       *)
Tell(o, outcome, guess) ==
  told' = CASE outcome \in {"TimedOut", "Err"} -> told
            [] outcome = "Absent" ->
                 told \cup {[order |-> o, outcome |-> outcome, begun |-> task.begun,
                            listed |-> Loaded(SymbolOf[o]),
                            sure |-> task.begun > signed[o] + RECV_WINDOW]}
            [] OTHER -> told \cup {[order |-> o, outcome |-> outcome, guess |-> guess]}

End(outcome, guess) == task' = Idle /\ Tell(task.order, outcome, guess)

(* The engine submits an order once; what cannot be placed is not sent.     *)
Submit(o) ==
  /\ Calling
  /\ signed[o] = None
  /\ signed' = [signed EXCEPT ![o] = venue_time_ms(local_ms)]
  /\ \/ ~Placeable(o) /\ UNCHANGED <<task, req>>
     \/ Placeable(o) /\ task' = Task("submit", o, <<>>) /\ Send("POST", o, SymbolOf[o], TRUE)
  /\ UNCHANGED <<now, skew, offset, loaded, sync, late, venue, told, shortest>>

FindFor(op, o) ==
  /\ Calling
  /\ signed[o] # None
  /\ task' = Task(op, o, loaded)
  /\ UNCHANGED <<now, skew, offset, loaded, sync, req, late, venue, signed, told, shortest>>

Cancel(o) == FindFor("cancel", o)
Lookup(o) == FindFor("lookup", o)

Finding == task.op \in {"cancel", "lookup"} /\ sync = None /\ req = None

query_order ==
  /\ Finding /\ task.todo # <<>>
  /\ Send("GET", task.order, Head(task.todo), TRUE)
  /\ UNCHANGED <<now, skew, offset, loaded, task, sync, late, venue, bounds, signed, told,
                 shortest>>

(* Mutant: absent whether or not every symbol could be asked.               *)
NotFoundWhateverFailed(error) == "Absent"

(* Every symbol has been asked: absent if all of them said so.              *)
NotFound(error) ==
  CASE error = None -> "Absent"
    [] error \in {"Transport", "RateLimited"} /\ task.op = "lookup" -> "TimedOut"
    [] OTHER -> "Err"

FindEnds ==
  /\ Finding /\ task.todo = <<>>
  /\ End(NotFound(task.error), FALSE)
  /\ UNCHANGED <<now, skew, offset, loaded, sync, req, late, venue, bounds, signed, shortest>>

----------------------------------------------------------------------------
(* What the adapter makes of what send() returned.                          *)

SyncOnSkew(x) == IF x.code = TIMESTAMP_SKEW THEN StartSync ELSE UNCHANGED <<sync, shortest>>

submit(x, guess) ==
  LET outcome == CASE x.kind = "none" -> "TimedOut"
                   [] x.kind # "none" /\ x.kind # "body" -> "Err"
                   [] x.kind = "body" /\ is_retryable(x.code) -> "Err"
                   [] x.kind = "body" /\ x.code # 0 /\ ~is_retryable(x.code) -> "Rejected"
                   [] OTHER -> "Acked"
  IN  req' = None /\ End(outcome, guess) /\ SyncOnSkew(x) /\ UNCHANGED <<offset, loaded>>

Skip(error) ==
  /\ task' = [task EXCEPT !.todo = Tail(@), !.error = IF error = None THEN @ ELSE error]
  /\ req' = None /\ UNCHANGED told

find_order(x) ==
  /\ CASE x.kind = "none" -> Skip("Transport")
       [] x.kind \notin {"none", "body"} -> Skip(x.kind)
       [] x.kind = "body" /\ x.code = ORDER_DOES_NOT_EXIST -> Skip(None)
       [] x.kind = "body" /\ x.code # 0 /\ is_retryable(x.code) -> Skip("Transport")
       [] x.kind = "body" /\ x.code # 0 /\ ~is_retryable(x.code)
                         /\ x.code # ORDER_DOES_NOT_EXIST -> Skip("Malformed")
       [] x.kind = "body" /\ x.code = 0 /\ task.op = "lookup" ->
            req' = None /\ End("Found", FALSE)
       [] OTHER ->
            /\ task' = [task EXCEPT !.op = "delete", !.todo = <<>>]
            /\ req' = Request("DELETE", task.order, req.symbol, TRUE)
            /\ UNCHANGED told
  /\ SyncOnSkew(x) /\ UNCHANGED <<offset, loaded>>

cancel(x, guess) ==
  LET outcome == CASE x.kind = "none" -> "TimedOut"
                   [] x.kind \notin {"none", "body"} -> "Err"
                   [] x.kind = "body" /\ x.code = 0 -> "Requested"
                   [] x.kind = "body" /\ x.code = UNKNOWN_ORDER -> "TimedOut"
                   [] OTHER -> "Err"
  IN  req' = None /\ End(outcome, guess) /\ UNCHANGED <<offset, loaded, sync, shortest>>

(* One reading of the venue's clock.                                        *)
sync_clock(x) ==
  LET s    == [server |-> x.data, sent |-> req.sent, received |-> local_ms]
      read == x.kind = "body" /\ x.data # None
  IN  /\ sync' = [left |-> sync.left - 1,
                  best |-> IF read THEN Shorter(sync.best, s) ELSE sync.best]
      /\ shortest' = IF read /\ (IF shortest.trip = None THEN TRUE ELSE Trip(s) < shortest.trip)
                     THEN [shortest EXCEPT !.trip = Trip(s)] ELSE shortest
      /\ req' = None
      /\ UNCHANGED <<task, told, offset, loaded>>

SendSample ==
  /\ sync # None
  /\ sync.left > 0
  /\ Send("time", None, None, FALSE)
  /\ UNCHANGED <<now, skew, offset, loaded, task, sync, late, venue, bounds, signed, told,
                 shortest>>

Down == [Idle EXCEPT !.op = "down"]

SyncEnds ==
  /\ sync # None
  /\ sync.left = 0 /\ req = None
  /\ sync' = None
  /\ offset' = IF sync.best = None THEN offset ELSE sync_round_trip(sync.best)
  /\ task' = CASE task.op = "connect" /\ sync.best = None -> Down
               [] task.op = "connect" /\ sync.best # None -> [task EXCEPT !.op = "load"]
               [] OTHER -> task
  /\ UNCHANGED <<now, skew, loaded, req, late, venue, bounds, signed, told, shortest>>

----------------------------------------------------------------------------
(* connect: sync, load every symbol or fail.  The position mode and the     *)
(* leverage are set last, whatever comes of it, so nothing here depends on  *)
(* those two calls.                                                         *)

SendLoad ==
  /\ sync = None /\ task.op = "load" /\ task.todo # <<>>
  /\ Send("info", None, Head(task.todo), FALSE)
  /\ UNCHANGED <<now, skew, offset, loaded, task, sync, late, venue, bounds, signed, told,
                 shortest>>

load_symbol(x) ==
  /\ IF x.kind = "body" /\ x.code = 0
     THEN /\ loaded' = Append(loaded, req.symbol)
          /\ task' = IF Tail(task.todo) = <<>> THEN Idle ELSE [task EXCEPT !.todo = Tail(@)]
     ELSE task' = Down /\ UNCHANGED loaded
  /\ req' = None /\ UNCHANGED <<told, offset, sync, shortest>>

(* A request given up on, if the venue has not seen it and would act on it. *)
Abandoned ==
  IF req = None THEN {}
  ELSE IF req.answer = None /\ req.kind \in {"POST", "DELETE"} THEN {req} ELSE {}

(* The process dies, or could not start, and comes up with what may be      *)
(* another configuration.                                                   *)
Restart(config) ==
  /\ Fault
  /\ late' = late \cup Abandoned
  /\ offset' = 0 /\ loaded' = <<>> /\ req' = None
  /\ task' = Task("connect", None, config) /\ StartSync
  /\ UNCHANGED <<now, skew, venue, signed, told>>

----------------------------------------------------------------------------
Continue(x, guess) ==
  CASE sync # None -> sync_clock(x)
    [] sync = None /\ task.op = "submit" -> submit(x, guess)
    [] sync = None /\ task.op \in {"cancel", "lookup"} -> find_order(x)
    [] sync = None /\ task.op = "delete" -> cancel(x, guess)
    [] sync = None /\ task.op = "load" -> load_symbol(x)

Receive ==
  /\ req # None /\ req.answer # None
  /\ IF Repeats(req)
     THEN req' = RepeatOf(req) /\ UNCHANGED <<offset, loaded, task, sync, told, shortest>>
     ELSE Continue(Returned(req), req.answer.status >= 500)
  /\ UNCHANGED <<now, skew, late, venue, bounds, signed>>

(* The request times out, or its connection breaks.                         *)
Unanswered ==
  /\ req # None
  /\ \/ now >= req.deadline /\ UNCHANGED bounds
     \/ Fault
  /\ late' = late \cup Abandoned
  /\ Continue(NoAnswer, FALSE)
  /\ UNCHANGED <<now, skew, venue, signed>>

(* Time passes while a request is out and between calls.                    *)
Tick ==
  /\ now < MaxNow
  /\ req # None \/ Free
  /\ now' = now + 1
  /\ UNCHANGED <<skew, adapter, late, venue, bounds, signed, told, shortest>>

StepClock ==
  /\ Fault
  /\ skew' \in Skews \ {skew}
  /\ shortest' = [shortest EXCEPT !.steady = FALSE]
  /\ UNCHANGED <<now, adapter, late, venue, signed, told>>

Init ==
  /\ now = 0 /\ skew \in Skews /\ offset = 0 /\ loaded = <<>>
  /\ \E config \in Configs : task = [Idle EXCEPT !.op = "connect", !.todo = config]
  /\ sync = [left |-> SAMPLES, best |-> None]
  /\ req = None /\ late = {}
  /\ book = [o \in Orders |-> "none"]
  /\ bounds = [calls |-> MaxCalls, faults |-> MaxFaults]
  /\ signed = [o \in Orders |-> None] /\ placed = [o \in Orders |-> <<>>] /\ told = {}
  /\ shortest = [trip |-> None, steady |-> TRUE]

Next ==
  \/ \E o \in Orders : Submit(o) \/ Cancel(o) \/ Lookup(o)
  \/ query_order \/ FindEnds
  \/ SendSample \/ SyncEnds \/ SendLoad
  \/ Reach \/ ReachLate \/ Receive \/ Unanswered
  \/ \E o \in Orders : Executes(o)
  \/ \E config \in Configs : Restart(config)
  \/ Tick \/ StepClock

Spec == Init /\ [][Next]_vars

----------------------------------------------------------------------------
(* A client order id becomes at most one order, although a refused request  *)
(* is sent twice and the venue accepts an id again once its order is done.  *)
PlacedOnce == \A o \in Orders : Len(placed[o]) <= 1

(* What the engine concludes from is true, now and later: acknowledged,     *)
(* found and cancel-requested orders were taken; a rejected one never was   *)
(* and never will be, unless the refusal was read from the repeat's 5xx;    *)
(* an absent one, its symbol loaded, was not there when it was asked for.   *)
OutcomesAreTrue ==
  \A t \in told :
    LET taken == placed[t.order] # <<>> IN
    /\ t.outcome \in {"Acked", "Found", "Requested"} => taken
    /\ t.outcome = "Requested" => book[t.order] = "done"
    /\ t.outcome = "Rejected" /\ ~t.guess => ~taken
    /\ t.outcome = "Absent" /\ t.listed => (taken => placed[t.order][1] >= t.begun)

(* Absence asked for once the receive window of the order's own request has *)
(* closed is final: no delayed or repeated copy of it is ever taken.        *)
AbsentIsFinal ==
  \A t \in told : t.outcome = "Absent" /\ t.listed /\ t.sure => placed[t.order] = <<>>

(* The estimate of the venue's clock is wrong by at most half the shortest  *)
(* round trip that was measured, unless the local clock was stepped.        *)
ClockWithinTrip ==
  (sync = None /\ shortest.trip # None /\ shortest.steady) =>
    2 * (offset + skew) \in -(shortest.trip + 1)..(shortest.trip + 1)
=============================================================================
