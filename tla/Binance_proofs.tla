--------------------------- MODULE Binance_proofs ---------------------------
(***************************************************************************)
(* What the adapter guarantees for any number of orders, symbols, calls,   *)
(* faults and restarts: one order per client order id, outcomes that are   *)
(* true, and a clock that is off by no more than it was measured to be.    *)
(***************************************************************************)
EXTENDS Binance, TLAPS

Symbols == DOMAIN Rules

Ops == {"idle", "down", "connect", "load", "submit", "cancel", "lookup", "delete"}

Tasks == [op: Ops, order: Orders \cup {None}, todo: Seq(Symbols),
          error: Errors \cup {None}, begun: Nat]

Requests == [kind: {"POST", "DELETE", "GET", "time", "info"},
             order: Orders \cup {None}, symbol: Symbols \cup {None},
             signed: BOOLEAN, stamp: Int, again: BOOLEAN, sent: Int,
             deadline: Int, answer: Replies \cup {None}]

Types ==
  /\ now \in Nat /\ skew \in Int /\ offset \in Int
  /\ loaded \in Seq(Symbols)
  /\ task \in Tasks
  /\ sync \in Syncs \cup {None}
  /\ req \in Requests \cup {None}
  /\ late \subseteq Requests
  /\ \A r \in late : r.kind \in {"POST", "DELETE"} /\ r.order \in Orders
  /\ book \in [Orders -> {"none", "open", "done"}]
  /\ placed \in [Orders -> Seq(Nat)]
  /\ signed \in [Orders -> Nat \cup {None}]
  /\ shortest \in [trip: Int \cup {None}, steady: BOOLEAN]

(* The thread waits for one request at a time, the one its call is at.      *)
Waiting ==
  req # None =>
    IF sync # None THEN req.kind = "time"
    ELSE \/ task.op = "submit" /\ req.kind = "POST" /\ req.order = task.order
         \/ /\ task.op \in {"cancel", "lookup"} /\ req.kind = "GET" /\ req.order = task.order
            /\ task.todo # <<>> /\ req.symbol = Head(task.todo)
         \/ task.op = "delete" /\ req.kind = "DELETE" /\ req.order = task.order
         \/ /\ task.op = "load" /\ req.kind = "info"
            /\ task.todo # <<>> /\ req.symbol \in Symbols

Calls == {"submit", "cancel", "lookup", "delete"}

TaskOK ==
  /\ task.op \in Calls => task.order \in Orders /\ signed[task.order] # None
  /\ task.begun <= now

(* The order o was not at the venue before the time t.                      *)
Since(o, t) == placed[o] = <<>> \/ placed[o][1] >= t

(* While no symbol has failed to answer, those already asked said no.       *)
Asked ==
  /\ task.op \in {"cancel", "lookup"} /\ task.error = None
  /\ Loaded(SymbolOf[task.order])
  /\ \A n \in DOMAIN task.todo : task.todo[n] # SymbolOf[task.order]
  => Since(task.order, task.begun)

(* A copy of the order's own request that the venue may still act on, or    *)
(* that is being answered.                                                  *)
Posts(r, o) == r.kind = "POST" /\ r.order = o
Awaits(o)   == req # None /\ Posts(req, o)
Stray(o)    == \E r \in late : Posts(r, o)

(* There is one copy at most until the order is taken, and none after; all  *)
(* carry the timestamp the order was first signed under.                    *)
OneCopy ==
  \A o \in Orders :
    /\ signed[o] = None => placed[o] = <<>> /\ ~Awaits(o) /\ ~Stray(o)
    /\ Stray(o) => placed[o] = <<>> /\ ~Awaits(o)
    /\ \A r, q \in late : Posts(r, o) /\ Posts(q, o) => q = r
    /\ \A r \in late : Posts(r, o) => r.signed /\ r.stamp = signed[o]
    /\ Awaits(o) => /\ req.signed /\ req.stamp = signed[o]
                    /\ req.answer = None => placed[o] = <<>>
    /\ Len(placed[o]) <= 1
    /\ placed[o] # <<>> => placed[o][1] <= signed[o] + RECV_WINDOW
    /\ book[o] = "none" <=> placed[o] = <<>>

(* What an answer says of the venue is true for as long as it is unread.    *)
Honest ==
  req # None /\ req.answer # None =>
    /\ req.answer.status >= 400 => req.answer.code # 0
    /\ req.answer.text = "whole" /\ req.answer.code = 0 =>
         /\ req.kind \in {"POST", "GET"} => placed[req.order] # <<>>
         /\ req.kind = "DELETE" => book[req.order] = "done"
    /\ req.kind = "POST" /\ req.answer.status < 500 /\ req.answer.code # 0 =>
         placed[req.order] = <<>>
    /\ /\ req.kind = "GET" /\ req.answer.code = ORDER_DOES_NOT_EXIST
       /\ req.symbol = SymbolOf[req.order]
       => Since(req.order, task.begun)

(* And so is what the engine was told; what was rejected has no copy left.  *)
Over(o) == placed[o] = <<>> /\ signed[o] # None /\ ~Awaits(o) /\ ~Stray(o)

TrueOf(t) ==
  /\ t.order \in Orders
  /\ t.outcome \in {"Acked", "Found", "Requested"} => placed[t.order] # <<>>
  /\ t.outcome = "Requested" => book[t.order] = "done"
  /\ t.outcome = "Rejected" /\ ~t.guess => Over(t.order)
  /\ t.outcome = "Absent" =>
       /\ t.begun \in Nat /\ t.begun <= now /\ signed[t.order] # None
       /\ t.listed => Since(t.order, t.begun)
       /\ t.sure => t.begun > signed[t.order] + RECV_WINDOW

ToldOK == \A t \in told : TrueOf(t)

(* A sample brackets the venue's reading, unless the local clock was        *)
(* stepped since the sync began; the best one is the shortest.              *)
ClockOK ==
  /\ sync # None /\ req # None /\ shortest.steady =>
       /\ req.sent - skew <= now
       /\ req.answer # None =>
            (req.answer.data # None =>
               req.sent - skew <= req.answer.data /\ req.answer.data <= now)
  /\ sync # None =>
       /\ sync.best = None <=> shortest.trip = None
       /\ sync.best # None =>
            /\ shortest.trip = Trip(sync.best)
            /\ shortest.steady => /\ sync.best.sent - skew <= sync.best.server
                                  /\ sync.best.server <= sync.best.received - skew
  /\ ClockWithinTrip

AdapterInv ==
  Types /\ Waiting /\ TaskOK /\ Asked /\ OneCopy /\ Honest /\ ToldOK /\ ClockOK
-----------------------------------------------------------------------------
(* None is no number, reading, answer or error.                             *)
LEMMA NoneIs ==
  /\ None \notin Int /\ None \notin Samples /\ None \notin Syncs /\ None \notin Replies
  /\ None \notin Errors
  BY NoneAssumption

(* The fields of a request.                                                 *)
LEMMA RequestIs ==
  ASSUME NEW r \in Requests
  PROVE  /\ r.kind \in {"POST", "DELETE", "GET", "time", "info"}
         /\ r.order \in Orders \cup {None} /\ r.symbol \in Symbols \cup {None}
         /\ r.signed \in BOOLEAN /\ r.stamp \in Int /\ r.again \in BOOLEAN
         /\ r.sent \in Int /\ r.deadline \in Int /\ r.answer \in Replies \cup {None}
  BY DEF Requests

(* The fields of a call.                                                    *)
LEMMA TaskIs ==
  ASSUME NEW t \in Tasks
  PROVE  /\ t.op \in Ops /\ t.order \in Orders \cup {None} /\ t.todo \in Seq(Symbols)
         /\ t.error \in Errors \cup {None} /\ t.begun \in Nat
  BY DEF Tasks

(* Only an unanswered request that the venue would act on is a stray.       *)
LEMMA AbandonedIs ==
  ASSUME NEW r \in Abandoned
  PROVE  r = req /\ req # None /\ req.answer = None /\ req.kind \in {"POST", "DELETE"}
  BY DEF Abandoned

(* A step that leaves the venue and the signatures alone, and makes no copy *)
(* of a request: it may drop one, give one up, or repeat one that was       *)
(* refused.                                                                 *)
LEMMA StillKeeps ==
  ASSUME AdapterInv, UNCHANGED <<book, placed, signed>>,
         now' \in Nat, now <= now',
         late' \subseteq late \/ (late' \subseteq late \cup Abandoned /\ req' = None),
         req' # None /\ req'.kind = "POST" =>
           /\ req # None /\ req.kind = "POST" /\ req'.order = req.order
           /\ req'.stamp = req.stamp /\ req'.signed = req.signed
           /\ req'.answer = None /\ req.answer # None => placed[req.order] = <<>>
  PROVE  OneCopy' /\ \A t \in told : TrueOf(t)'
<1>1. \A o \in Orders : Awaits(o)' => Awaits(o)
  BY DEF Awaits, Posts
<1>2. \A o \in Orders : Stray(o)' => Stray(o) \/ (Awaits(o) /\ req.answer = None /\ req' = None)
  BY AbandonedIs DEF Stray, Awaits, Posts
<1>3. ASSUME NEW o \in Orders
      PROVE  /\ signed'[o] = None => placed'[o] = <<>> /\ ~Awaits(o)' /\ ~Stray(o)'
             /\ Stray(o)' => placed'[o] = <<>> /\ ~Awaits(o)'
             /\ Len(placed'[o]) <= 1
             /\ placed'[o] # <<>> => placed'[o][1] <= signed'[o] + RECV_WINDOW
             /\ book'[o] = "none" <=> placed'[o] = <<>>
  <2>1. /\ signed[o] = None => placed[o] = <<>> /\ ~Awaits(o) /\ ~Stray(o)
        /\ Stray(o) => placed[o] = <<>> /\ ~Awaits(o)
        /\ Awaits(o) => (req.answer = None => placed[o] = <<>>)
        /\ Len(placed[o]) <= 1
        /\ placed[o] # <<>> => placed[o][1] <= signed[o] + RECV_WINDOW
        /\ book[o] = "none" <=> placed[o] = <<>>
    BY DEF AdapterInv, OneCopy
  <2>2. req' = None => ~Awaits(o)'
    BY DEF Awaits
  <2> QED
    BY <1>1, <1>2, <2>1, <2>2
<1>4. ASSUME NEW o \in Orders, NEW r \in late', Posts(r, o)
      PROVE  r.signed /\ r.stamp = signed'[o] /\ \A q \in late' : Posts(q, o) => q = r
  <2>1. ASSUME NEW x \in late', Posts(x, o)
        PROVE  (x \in late /\ Stray(o)) \/ (x = req /\ Awaits(o))
    BY <2>1, AbandonedIs DEF Stray, Awaits
  <2>2. /\ Stray(o) => ~Awaits(o)
        /\ \A p, q \in late : Posts(p, o) /\ Posts(q, o) => q = p
        /\ \A p \in late : Posts(p, o) => p.signed /\ p.stamp = signed[o]
        /\ Awaits(o) => req.signed /\ req.stamp = signed[o]
    BY DEF AdapterInv, OneCopy
  <2> QED
    BY <1>4, <2>1, <2>2
<1>5. ASSUME NEW o \in Orders, Awaits(o)'
      PROVE  req'.signed /\ req'.stamp = signed'[o] /\ (req'.answer = None => placed'[o] = <<>>)
  <2>1. Awaits(o) /\ req.order = o
    BY <1>1, <1>5 DEF Awaits, Posts
  <2>2. req.signed /\ req.stamp = signed[o] /\ (req.answer = None => placed[o] = <<>>)
    BY <2>1 DEF AdapterInv, OneCopy
  <2> QED
    BY <1>5, <2>1, <2>2 DEF Awaits, Posts
<1>6. OneCopy'
  BY <1>3, <1>4, <1>5 DEF OneCopy
<1>7. ASSUME NEW t \in told PROVE TrueOf(t)'
  <2>1. TrueOf(t) /\ t.order \in Orders
    BY DEF AdapterInv, ToldOK, TrueOf
  <2>2. Over(t.order) => Over(t.order)'
    BY <1>1, <1>2, <2>1 DEF Over
  <2>3. \A b \in Nat : b <= now => b <= now'
    BY DEF AdapterInv, Types
  <2> QED
    BY <2>1, <2>2, <2>3 DEF TrueOf, Since
<1> QED
  BY <1>6, <1>7

(* A step that also leaves the call, the request and its answer alone.      *)
LEMMA IdleKeeps ==
  ASSUME AdapterInv, UNCHANGED <<book, placed, signed, told, loaded, task, sync, req, offset>>,
         now' \in Nat, now <= now', skew' \in Int, late' \subseteq late,
         shortest' \in [trip: Int \cup {None}, steady: BOOLEAN],
         ClockOK'
  PROVE  AdapterInv'
<1>1. OneCopy' /\ \A t \in told : TrueOf(t)'
  <2>1. req' # None /\ req'.kind = "POST" =>
           /\ req # None /\ req.kind = "POST" /\ req'.order = req.order
           /\ req'.stamp = req.stamp /\ req'.signed = req.signed
           /\ (req'.answer = None /\ req.answer # None => placed[req.order] = <<>>)
    OBVIOUS
  <2> QED
    BY <2>1, StillKeeps
<1>2. Types'
  BY DEF AdapterInv, Types
<1>3. Waiting' /\ Asked' /\ Honest'
  BY DEF AdapterInv, Waiting, Asked, Honest, Since, Loaded
<1>4. TaskOK'
  <2>1. task.begun \in Nat /\ task.begun <= now /\ now \in Nat
    BY TaskIs DEF AdapterInv, Types, TaskOK
  <2>2. task.begun <= now'
    BY <2>1
  <2> QED
    BY <2>2 DEF AdapterInv, TaskOK
<1> QED
  BY <1>1, <1>2, <1>3, <1>4 DEF AdapterInv, ToldOK

(* Time passes.                                                             *)
LEMMA TickKeeps ==
  ASSUME AdapterInv, Tick
  PROVE  AdapterInv'
<1>1. /\ now \in Nat /\ now' = now + 1 /\ skew \in Int
      /\ UNCHANGED <<skew, adapter, late, venue, signed, told, shortest>>
      /\ shortest \in [trip: Int \cup {None}, steady: BOOLEAN]
  BY DEF AdapterInv, Types, Tick
<1>2. now' \in Nat /\ now <= now'
  BY <1>1
<1>3. ASSUME sync # None, req # None, shortest.steady
      PROVE  /\ req.sent - skew <= now'
             /\ req.answer # None =>
                 (req.answer.data # None =>
                    req.sent - skew <= req.answer.data /\ req.answer.data <= now')
  <2>1. req \in Requests
    BY <1>3 DEF AdapterInv, Types
  <2>2. req.sent \in Int /\ (req.answer # None => req.answer.data \in Int \cup {None})
    BY <2>1, RequestIs DEF Replies
  <2>3. /\ req.sent - skew <= now
        /\ req.answer # None =>
             (req.answer.data # None =>
                req.sent - skew <= req.answer.data /\ req.answer.data <= now)
    BY <1>3 DEF AdapterInv, ClockOK
  <2> QED
    BY <1>1, <2>2, <2>3
<1>4. ClockOK'
  BY <1>1, <1>3 DEF AdapterInv, ClockOK, ClockWithinTrip, adapter, Trip
<1> QED
  BY <1>1, <1>2, <1>4, IdleKeeps DEF adapter, venue

(* The local clock is stepped: no sample counts any more.                   *)
LEMMA StepClockKeeps ==
  ASSUME AdapterInv, StepClock
  PROVE  AdapterInv'
<1>1. /\ now \in Nat /\ skew' \in Int
      /\ UNCHANGED <<now, adapter, late, venue, signed, told>>
      /\ shortest \in [trip: Int \cup {None}, steady: BOOLEAN]
      /\ shortest' = [shortest EXCEPT !.steady = FALSE]
  BY AdapterAssumption DEF AdapterInv, Types, StepClock
<1>2. /\ shortest' \in [trip: Int \cup {None}, steady: BOOLEAN]
      /\ shortest'.steady = FALSE /\ shortest'.trip = shortest.trip
  BY <1>1
<1>3. ClockOK'
  BY <1>1, <1>2 DEF AdapterInv, ClockOK, ClockWithinTrip, adapter, Trip
<1>4. now <= now
  BY <1>1
<1> QED
  BY <1>1, <1>2, <1>3, <1>4, IdleKeeps DEF adapter, venue

(* The venue acts: it takes the orders in W, each the last copy of its      *)
(* request, and finishes what is open.                                      *)
LEMMA VenueKeeps ==
  ASSUME AdapterInv, UNCHANGED <<now, signed>>, late' \subseteq late,
         NEW W \in SUBSET Orders,
         \A o \in Orders : Awaits(o)' =>
            /\ Awaits(o) /\ req'.signed = req.signed /\ req'.stamp = req.stamp
            /\ req'.answer = None => req.answer = None /\ o \notin W,
         \A o \in Orders \ W :
            /\ placed'[o] = placed[o]
            /\ book'[o] = book[o] \/ (book[o] = "open" /\ book'[o] = "done"),
         \A o \in W :
            /\ placed[o] = <<>> /\ placed'[o] = <<now>> /\ book'[o] = "open"
            /\ signed[o] # None /\ now <= signed[o] + RECV_WINDOW
            /\ Awaits(o) \/ Stray(o)
            /\ ~Stray(o)'
  PROVE  /\ OneCopy'
         /\ \A t \in told : TrueOf(t)'
         /\ \A o \in Orders : /\ placed[o] # <<>> => placed'[o] # <<>>
                              /\ book[o] = "done" => book'[o] = "done"
         /\ \A o \in Orders, b \in Nat : b <= now /\ Since(o, b) => Since(o, b)'
<1>1. /\ now \in Nat
      /\ \A o \in Orders : /\ placed[o] \in Seq(Nat) /\ (signed[o] # None => signed[o] \in Nat)
  BY DEF AdapterInv, Types
<1>2. <<now>> # <<>> /\ <<now>>[1] = now /\ Len(<<now>>) = 1 /\ now >= now
  BY <1>1
<1>3. \A o \in Orders : Stray(o)' => Stray(o) /\ o \notin W
  BY DEF Stray
<1>4. ASSUME NEW o \in Orders
      PROVE  /\ signed[o] = None => placed[o] = <<>> /\ ~Awaits(o) /\ ~Stray(o)
             /\ Stray(o) => placed[o] = <<>> /\ ~Awaits(o)
             /\ \A r, q \in late : Posts(r, o) /\ Posts(q, o) => q = r
             /\ \A r \in late : Posts(r, o) => r.signed /\ r.stamp = signed[o]
             /\ Awaits(o) => /\ req.signed /\ req.stamp = signed[o]
                             /\ req.answer = None => placed[o] = <<>>
             /\ Len(placed[o]) <= 1
             /\ placed[o] # <<>> => placed[o][1] <= signed[o] + RECV_WINDOW
             /\ book[o] = "none" <=> placed[o] = <<>>
  BY DEF AdapterInv, OneCopy
<1>5. ASSUME NEW o \in Orders, o \notin W
      PROVE  /\ signed'[o] = None => placed'[o] = <<>> /\ ~Awaits(o)' /\ ~Stray(o)'
             /\ Stray(o)' => placed'[o] = <<>> /\ ~Awaits(o)'
             /\ Awaits(o)' => (req'.answer = None => placed'[o] = <<>>)
             /\ Len(placed'[o]) <= 1
             /\ placed'[o] # <<>> => placed'[o][1] <= signed'[o] + RECV_WINDOW
             /\ book'[o] = "none" <=> placed'[o] = <<>>
  BY <1>3, <1>4, <1>5
<1>6. ASSUME NEW o \in W
      PROVE  /\ signed'[o] # None /\ ~Stray(o)'
             /\ Awaits(o)' => req'.answer # None
             /\ Len(placed'[o]) <= 1
             /\ placed'[o][1] <= signed'[o] + RECV_WINDOW
             /\ placed'[o] # <<>> /\ book'[o] # "none"
  <2>1. /\ o \in Orders /\ placed'[o] = <<now>> /\ book'[o] = "open" /\ signed'[o] = signed[o]
        /\ signed[o] # None /\ now <= signed[o] + RECV_WINDOW /\ ~Stray(o)'
    BY <1>6
  <2>2. Awaits(o)' => req'.answer # None
    BY <1>6, <2>1
  <2>3. Len(placed'[o]) <= 1 /\ placed'[o][1] = now /\ placed'[o] # <<>>
    BY <1>2, <2>1
  <2> QED
    BY <2>1, <2>2, <2>3
<1>7. \A o \in Orders :
        /\ \A r, q \in late' : Posts(r, o) /\ Posts(q, o) => q = r
        /\ \A r \in late' : Posts(r, o) => r.signed /\ r.stamp = signed'[o]
        /\ Awaits(o)' => req'.signed /\ req'.stamp = signed'[o]
  BY <1>4
<1>8. OneCopy'
  BY <1>5, <1>6, <1>7 DEF OneCopy
<1>9. \A o \in Orders : /\ placed[o] # <<>> => placed'[o] # <<>>
                        /\ book[o] = "done" => book'[o] = "done"
  BY <1>4
<1>10. ASSUME NEW o \in Orders, NEW b \in Nat, b <= now, Since(o, b) PROVE Since(o, b)'
  <2>1. CASE o \in W
    BY <1>1, <1>2, <1>10, <2>1 DEF Since
  <2>2. CASE o \notin W
    BY <1>10, <2>2 DEF Since
  <2> QED
    BY <2>1, <2>2
<1>11. ASSUME NEW t \in told PROVE TrueOf(t)'
  <2>1. TrueOf(t) /\ t.order \in Orders
    BY DEF AdapterInv, ToldOK, TrueOf
  <2>2. Over(t.order) => Over(t.order)'
    BY <1>3, <2>1 DEF Over
  <2>3. t.outcome = "Absent" => (t.listed => Since(t.order, t.begun)')
    BY <1>10, <2>1 DEF TrueOf
  <2> QED
    BY <1>9, <2>1, <2>2, <2>3 DEF TrueOf
<1> QED
  BY <1>8, <1>9, <1>10, <1>11

(* An open order executes at the venue.                                     *)
LEMMA ExecutesKeeps ==
  ASSUME AdapterInv, NEW x \in Orders, Executes(x)
  PROVE  AdapterInv'
<1>1. /\ book[x] = "open" /\ book' = [book EXCEPT ![x] = "done"]
      /\ UNCHANGED <<now, skew, adapter, late, placed, signed, told, shortest>>
      /\ book \in [Orders -> {"none", "open", "done"}]
  BY DEF AdapterInv, Types, Executes
<1>2. \A o \in Orders : book'[o] = book[o] \/ (book[o] = "open" /\ book'[o] = "done")
  BY <1>1
<1>3. \A o \in Orders : Awaits(o)' => Awaits(o)
  BY <1>1 DEF Awaits, Posts, adapter
<1>4. /\ OneCopy' /\ \A t \in told : TrueOf(t)'
      /\ \A o \in Orders : /\ placed[o] # <<>> => placed'[o] # <<>>
                           /\ book[o] = "done" => book'[o] = "done"
  <2>1. /\ {} \in SUBSET Orders /\ late' \subseteq late
        /\ UNCHANGED <<now, signed>> /\ req' = req
    BY <1>1 DEF adapter
  <2>2. \A o \in Orders : Awaits(o)' =>
            /\ Awaits(o) /\ req'.signed = req.signed /\ req'.stamp = req.stamp
            /\ (req'.answer = None => req.answer = None /\ o \notin {})
    BY <1>3, <2>1
  <2>3. \A o \in Orders \ {} :
            /\ placed'[o] = placed[o]
            /\ book'[o] = book[o] \/ (book[o] = "open" /\ book'[o] = "done")
    BY <1>1, <1>2
  <2> QED
    BY <2>1, <2>2, <2>3, VenueKeeps
<1>5. Types'
  BY <1>1 DEF AdapterInv, Types, adapter
<1>6. Waiting' /\ TaskOK' /\ Asked' /\ ClockOK'
  BY <1>1 DEF AdapterInv, Waiting, TaskOK, Asked, Since, Loaded, ClockOK, ClockWithinTrip,
              adapter
<1>7. req # None /\ req.kind = "DELETE" => req.order \in Orders
  BY DEF AdapterInv, Waiting, TaskOK, Calls
<1>8. Honest'
  BY <1>1, <1>4, <1>7 DEF AdapterInv, Honest, Since, adapter
<1> QED
  BY <1>1, <1>4, <1>5, <1>6, <1>8 DEF AdapterInv, ToldOK
-----------------------------------------------------------------------------
(* A request that is sent carries no answer.                                *)
LEMMA RequestFresh ==
  ASSUME Types, NEW kind \in {"POST", "DELETE", "GET", "time", "info"},
         NEW o \in Orders \cup {None}, NEW s \in Symbols \cup {None}, NEW b \in BOOLEAN
  PROVE  LET r == Request(kind, o, s, b) IN
         /\ r \in Requests /\ r.kind = kind /\ r.order = o /\ r.symbol = s
         /\ r.answer = None /\ r.signed = b
         /\ b => r.stamp = venue_time_ms(local_ms)
         /\ kind = "time" => r.sent = now + skew
<1>1. now \in Nat /\ skew \in Int /\ offset \in Int
  BY DEF Types
<1>2. venue_time_ms(local_ms) \in Nat /\ local_ms \in Int /\ local_ms = now + skew
  BY <1>1 DEF venue_time_ms, local_ms
<1>3. PICK st : st = IF b THEN venue_time_ms(local_ms) ELSE 0
  OBVIOUS
<1>4. PICK se : se = IF kind = "time" THEN local_ms ELSE 0
  OBVIOUS
<1>5. PICK d : d = now + REQUEST_TIMEOUT
  OBVIOUS
<1>6. st \in Int /\ se \in Int /\ d \in Int
  BY <1>1, <1>2, <1>3, <1>4, <1>5, AdapterAssumption
<1>7. Request(kind, o, s, b) =
        [kind |-> kind, order |-> o, symbol |-> s, signed |-> b, stamp |-> st,
         again |-> FALSE, sent |-> se, deadline |-> d, answer |-> None]
  BY <1>3, <1>4, <1>5 DEF Request
<1>8. PICK r : r = Request(kind, o, s, b)
  OBVIOUS
<1>9. /\ r \in Requests /\ r.kind = kind /\ r.order = o /\ r.symbol = s
      /\ r.answer = None /\ r.signed = b /\ r.stamp = st /\ r.sent = se
  BY <1>6, <1>7, <1>8 DEF Requests
<1> QED
  BY <1>2, <1>3, <1>4, <1>8, <1>9

(* What a call that sends leaves in req.                                    *)
LEMMA SendIs ==
  ASSUME Types, NEW kind \in {"POST", "DELETE", "GET", "time", "info"},
         NEW o \in Orders \cup {None}, NEW s \in Symbols \cup {None}, NEW b \in BOOLEAN,
         Send(kind, o, s, b)
  PROVE  /\ req' \in Requests /\ req'.kind = kind /\ req'.order = o /\ req'.symbol = s
         /\ req'.answer = None /\ req'.signed = b
         /\ b => req'.stamp = venue_time_ms(local_ms)
<1>1. PICK r : r = Request(kind, o, s, b)
  OBVIOUS
<1>2. req' = r
  BY <1>1 DEF Send
<1> QED
  BY <1>1, <1>2, RequestFresh

(* A call sends its next request, which is not one of an order's own.       *)
LEMMA SendKeeps ==
  ASSUME AdapterInv, req = None,
         NEW kind \in {"DELETE", "GET", "time", "info"},
         NEW o \in Orders \cup {None}, NEW s \in Symbols \cup {None}, NEW b \in BOOLEAN,
         Send(kind, o, s, b), Waiting',
         sync # None => kind = "time",
         UNCHANGED <<now, skew, offset, loaded, task, sync, late, venue, signed, told, shortest>>
  PROVE  AdapterInv'
<1>1. PICK r : r = Request(kind, o, s, b)
  OBVIOUS
<1>2. Types
  BY DEF AdapterInv
<1>3. /\ req' = r /\ r \in Requests /\ r.kind = kind /\ r.order = o /\ r.symbol = s
      /\ r.answer = None /\ (kind = "time" => r.sent = now + skew)
  BY <1>1, <1>2, RequestFresh DEF Send
<1>4. Types'
  BY <1>2, <1>3 DEF Types, venue
<1>5. OneCopy' /\ \A t \in told : TrueOf(t)'
  <2>1. now' \in Nat /\ now <= now' /\ late' \subseteq late /\ UNCHANGED <<book, placed, signed>>
    BY <1>2 DEF Types, venue
  <2>2. ~(req' # None /\ req'.kind = "POST")
    BY <1>3
  <2> QED
    BY <2>1, <2>2, StillKeeps
<1>6. TaskOK' /\ Asked' /\ ToldOK'
  BY <1>5 DEF AdapterInv, TaskOK, Asked, Since, Loaded, ToldOK, venue
<1>7. Honest'
  BY <1>3 DEF Honest
<1>8. ClockOK'
  <2>1. sync # None => r.sent - skew <= now
    <3>1. now \in Nat /\ skew \in Int
      BY <1>2 DEF Types
    <3> QED
      BY <1>3, <3>1
  <2> QED
    BY <1>3, <2>1 DEF AdapterInv, ClockOK, ClockWithinTrip, Trip
<1> QED
  BY <1>4, <1>5, <1>6, <1>7, <1>8 DEF AdapterInv

(* A search, a sync and a load each send their next request.                *)
LEMMA SendsKeep ==
  ASSUME AdapterInv, query_order \/ SendSample \/ SendLoad
  PROVE  AdapterInv'
<1>1. Types /\ task \in Tasks /\ task.todo \in Seq(Symbols)
  BY TaskIs DEF AdapterInv, Types
<1>2. CASE query_order
  <2>1. /\ task.op \in {"cancel", "lookup"} /\ sync = None /\ req = None /\ task.todo # <<>>
        /\ Send("GET", task.order, Head(task.todo), TRUE)
        /\ UNCHANGED <<now, skew, offset, loaded, task, sync, late, venue, signed, told, shortest>>
    BY <1>2 DEF query_order, Finding
  <2>2. task.order \in Orders /\ Head(task.todo) \in Symbols
    BY <1>1, <2>1 DEF AdapterInv, TaskOK, Calls
  <2>3. req'.kind = "GET" /\ req'.order = task.order /\ req'.symbol = Head(task.todo)
    BY <1>1, <2>1, <2>2, SendIs
  <2>4. Waiting'
    BY <2>1, <2>3 DEF Waiting
  <2> QED
    BY <2>1, <2>2, <2>4, SendKeeps
<1>3. CASE SendSample
  <2>1. /\ sync # None /\ req = None
        /\ Send("time", None, None, FALSE)
        /\ UNCHANGED <<now, skew, offset, loaded, task, sync, late, venue, signed, told, shortest>>
    BY <1>3 DEF SendSample, Send
  <2>2. req'.kind = "time"
    BY <1>1, <2>1, SendIs
  <2>3. Waiting'
    BY <2>1, <2>2 DEF Waiting
  <2> QED
    BY <2>1, <2>3, SendKeeps
<1>4. CASE SendLoad
  <2>1. /\ task.op = "load" /\ sync = None /\ req = None /\ task.todo # <<>>
        /\ Send("info", None, Head(task.todo), FALSE)
        /\ UNCHANGED <<now, skew, offset, loaded, task, sync, late, venue, signed, told, shortest>>
    BY <1>4 DEF SendLoad, Send
  <2>2. Head(task.todo) \in Symbols
    BY <1>1, <2>1
  <2>3. req'.kind = "info" /\ req'.symbol = Head(task.todo)
    BY <1>1, <2>1, <2>2, SendIs
  <2>4. Waiting'
    BY <2>1, <2>2, <2>3 DEF Waiting
  <2> QED
    BY <2>1, <2>2, <2>4, SendKeeps
<1> QED
  BY <1>2, <1>3, <1>4
-----------------------------------------------------------------------------
(* The engine submits an order: the first copy of its request is made, if   *)
(* any is.                                                                  *)
LEMMA SubmitKeeps ==
  ASSUME AdapterInv, NEW x \in Orders, Submit(x)
  PROVE  AdapterInv'
<1>1. /\ Types /\ task = Idle /\ sync = None /\ req = None /\ signed[x] = None
      /\ signed' = [signed EXCEPT ![x] = venue_time_ms(local_ms)]
      /\ UNCHANGED <<now, skew, offset, loaded, sync, late, venue, told, shortest>>
  BY DEF AdapterInv, Submit, Calling, Free
<1>2. PICK v : v = venue_time_ms(local_ms)
  OBVIOUS
<1>3. v \in Nat /\ now \in Nat
  BY <1>1, <1>2 DEF Types, venue_time_ms, local_ms
<1>4. /\ signed \in [Orders -> Nat \cup {None}]
      /\ signed' \in [Orders -> Nat \cup {None}] /\ signed'[x] = v /\ v # None
      /\ \A o \in Orders : o # x => signed'[o] = signed[o]
  BY <1>1, <1>2, <1>3, NoneIs DEF Types
<1>5. \/ req' = None /\ task' = task
      \/ /\ req' \in Requests
         /\ req'.kind = "POST" /\ req'.order = x /\ req'.answer = None
         /\ req'.signed /\ req'.stamp = v
         /\ task' = Task("submit", x, <<>>)
  <2>1. CASE UNCHANGED <<task, req>>
    BY <1>1, <2>1
  <2>2. CASE task' = Task("submit", x, <<>>) /\ Send("POST", x, SymbolOf[x], TRUE)
    <3>1. SymbolOf[x] \in Symbols
      BY AdapterAssumption DEF Symbols
    <3>2. /\ req' \in Requests /\ req'.kind = "POST" /\ req'.order = x
          /\ req'.answer = None /\ req'.signed /\ req'.stamp = v
      BY <1>1, <1>2, <2>2, <3>1, SendIs
    <3> QED
      BY <2>2, <3>2
  <2> QED
    BY <2>1, <2>2 DEF Submit
<1>6. /\ Task("submit", x, <<>>) \in Tasks /\ Task("submit", x, <<>>).op = "submit"
      /\ Task("submit", x, <<>>).order = x /\ Task("submit", x, <<>>).begun = 0
  BY DEF Task, Tasks, Ops
<1>7. task.op = "idle" /\ task.begun = 0
  BY <1>1 DEF Idle
<1>8. Types'
  BY <1>1, <1>4, <1>5, <1>6 DEF Types, venue
<1>9. Waiting' /\ TaskOK' /\ Asked' /\ Honest'
  BY <1>1, <1>3, <1>4, <1>5, <1>6, <1>7 DEF Waiting, TaskOK, Asked, Honest, Calls
<1>10. \A o \in Orders : /\ Stray(o)' <=> Stray(o)
                         /\ Awaits(o)' => o = x
                         /\ ~Awaits(o)
  BY <1>1, <1>5 DEF Stray, Awaits, Posts
<1>11. OneCopy'
  <2>1. ASSUME NEW o \in Orders
        PROVE  /\ signed[o] = None => placed[o] = <<>> /\ ~Stray(o)
               /\ Stray(o) => placed[o] = <<>>
               /\ \A r, q \in late : Posts(r, o) /\ Posts(q, o) => q = r
               /\ \A r \in late : Posts(r, o) => r.signed /\ r.stamp = signed[o]
               /\ Len(placed[o]) <= 1
               /\ placed[o] # <<>> => placed[o][1] <= signed[o] + RECV_WINDOW
               /\ book[o] = "none" <=> placed[o] = <<>>
    BY DEF AdapterInv, OneCopy
  <2>2. late' = late /\ placed' = placed /\ book' = book
    BY <1>1 DEF venue
  <2>3. ASSUME NEW o \in Orders, o # x
        PROVE  /\ signed'[o] = None => placed'[o] = <<>> /\ ~Awaits(o)' /\ ~Stray(o)'
               /\ Stray(o)' => placed'[o] = <<>> /\ ~Awaits(o)'
               /\ \A r \in late' : Posts(r, o) => r.signed /\ r.stamp = signed'[o]
               /\ ~Awaits(o)'
               /\ placed'[o] # <<>> => placed'[o][1] <= signed'[o] + RECV_WINDOW
    BY <1>4, <1>10, <2>1, <2>2, <2>3
  <2>4. /\ signed'[x] # None /\ ~Stray(x)' /\ placed'[x] = <<>>
        /\ \A r \in late' : ~Posts(r, x)
        /\ Awaits(x)' => req'.signed /\ req'.stamp = signed'[x]
    BY <1>1, <1>4, <1>5, <1>10, <2>1, <2>2 DEF Stray, Awaits
  <2> QED
    BY <2>1, <2>2, <2>3, <2>4 DEF OneCopy
<1>12. ASSUME NEW t \in told PROVE TrueOf(t)'
  <2>1. TrueOf(t) /\ t.order \in Orders /\ placed' = placed /\ book' = book /\ now' = now
    BY <1>1 DEF AdapterInv, ToldOK, TrueOf, venue
  <2>2. Over(t.order) => Over(t.order)'
    BY <1>1, <1>4, <1>10, <2>1 DEF Over
  <2>3. signed[t.order] # None => signed'[t.order] = signed[t.order]
    BY <1>1, <1>4, <2>1
  <2> QED
    BY <2>1, <2>2, <2>3 DEF TrueOf, Since
<1>13. ToldOK' /\ ClockOK'
  BY <1>1, <1>12 DEF AdapterInv, ToldOK, ClockOK, ClockWithinTrip
<1> QED
  BY <1>8, <1>9, <1>11, <1>13 DEF AdapterInv
(* The call goes on without its request, or to one that is not an order's   *)
(* own, and tells the engine only what is true.                             *)
LEMMA AfterKeeps ==
  ASSUME AdapterInv, UNCHANGED <<now, book, placed, signed>>,
         late' \subseteq late \/ (late' \subseteq late \cup Abandoned /\ req' = None),
         req' # None => req'.kind # "POST" /\ req'.answer = None,
         Types', Waiting', TaskOK', Asked', ClockOK',
         \A t \in told' : t \in told \/ TrueOf(t)'
  PROVE  AdapterInv'
<1>1. now' \in Nat /\ now <= now'
  BY DEF AdapterInv, Types
<1>2. OneCopy' /\ \A t \in told : TrueOf(t)'
  <2>1. ~(req' # None /\ req'.kind = "POST")
    OBVIOUS
  <2> QED
    BY <1>1, <2>1, StillKeeps
<1>3. ToldOK'
  <2>1. ASSUME NEW t \in told' PROVE TrueOf(t)'
    BY <1>2, <2>1
  <2> QED
    BY <2>1 DEF ToldOK
<1>4. Honest'
  BY DEF Honest
<1> QED
  BY <1>2, <1>3, <1>4 DEF AdapterInv

(* A clock sync that starts, or none at all.                                *)
LEMMA ClockRests ==
  ASSUME AdapterInv, sync = None, UNCHANGED <<offset, skew>>,
         StartSync \/ UNCHANGED <<sync, shortest>>, req' = None \/ sync' = None
  PROVE  /\ ClockOK'
         /\ sync' \in Syncs \cup {None}
         /\ shortest' \in [trip: Int \cup {None}, steady: BOOLEAN]
<1>1. CASE StartSync
  <2>1. /\ sync' = [left |-> SAMPLES, best |-> None] /\ sync' \in Syncs
        /\ shortest' = [trip |-> None, steady |-> TRUE]
    BY <1>1, AdapterAssumption DEF StartSync, Syncs
  <2>2. sync' # None /\ req' = None /\ sync'.best = None /\ shortest'.trip = None
    BY <2>1, NoneIs
  <2> QED
    BY <2>1, <2>2 DEF ClockOK, ClockWithinTrip
<1>2. CASE UNCHANGED <<sync, shortest>>
  BY <1>2 DEF AdapterInv, Types, ClockOK, ClockWithinTrip
<1> QED
  BY <1>1, <1>2

(* A search starts with every loaded symbol still to be asked.              *)
LEMMA FindForKeeps ==
  ASSUME AdapterInv, NEW op \in {"cancel", "lookup"}, NEW o \in Orders, FindFor(op, o)
  PROVE  AdapterInv'
<1>1. /\ Types /\ sync = None /\ req = None /\ signed[o] # None
      /\ task' = Task(op, o, loaded)
      /\ UNCHANGED <<now, skew, offset, loaded, sync, req, late, venue, signed, told, shortest>>
      /\ now \in Nat /\ loaded \in Seq(Symbols)
  BY DEF AdapterInv, FindFor, Calling, Free, Types
<1>2. /\ task' \in Tasks /\ task'.op = op /\ task'.order = o /\ task'.todo = loaded
      /\ task'.begun = now
  BY <1>1 DEF Task, Tasks, Ops
<1>3. Types'
  BY <1>1, <1>2 DEF Types, venue
<1>4. Waiting' /\ TaskOK'
  BY <1>1, <1>2 DEF Waiting, TaskOK
<1>5. Asked'
  BY <1>1, <1>2 DEF Asked, Loaded
<1>6. ClockOK'
  BY <1>1, ClockRests
<1>7. UNCHANGED <<now, book, placed, signed>> /\ late' \subseteq late /\ req' = None
      /\ \A t \in told' : t \in told
  BY <1>1 DEF venue
<1> QED
  BY <1>3, <1>4, <1>5, <1>6, <1>7, AfterKeeps

(* The task ends, and the engine is told something that is true.            *)
LEMMA EndKeeps ==
  ASSUME AdapterInv, UNCHANGED <<now, skew, offset, loaded, book, placed, signed>>,
         late' \subseteq late \/ late' \subseteq late \cup Abandoned, req' = None,
         sync = None, StartSync \/ UNCHANGED <<sync, shortest>>,
         late' \subseteq Requests,
         \A r \in late' : r.kind \in {"POST", "DELETE"} /\ r.order \in Orders,
         task' = Idle,
         \A t \in told' : t \in told \/ TrueOf(t)'
  PROVE  AdapterInv'
<1>1. Types /\ now \in Nat
  BY DEF AdapterInv, Types
<1>2. task' \in Tasks /\ task'.op = "idle" /\ task'.begun = 0
  BY DEF Idle, Tasks, Ops
<1>3. /\ ClockOK' /\ sync' \in Syncs \cup {None}
      /\ shortest' \in [trip: Int \cup {None}, steady: BOOLEAN]
  BY ClockRests
<1>4. Types'
  BY <1>1, <1>2, <1>3 DEF Types
<1>5. Waiting' /\ TaskOK' /\ Asked'
  BY <1>1, <1>2 DEF Waiting, TaskOK, Asked, Calls
<1> QED
  BY <1>3, <1>4, <1>5, AfterKeeps

(* A search ends with every symbol asked: absent only if all said so.       *)
LEMMA FindEndsKeeps ==
  ASSUME AdapterInv, FindEnds
  PROVE  AdapterInv'
<1>1. /\ Types /\ sync = None /\ req = None /\ task.todo = <<>>
      /\ task.op \in {"cancel", "lookup"} /\ task' = Idle
      /\ Tell(task.order, NotFound(task.error), FALSE)
      /\ UNCHANGED <<now, skew, offset, loaded, sync, req, late, venue, signed, shortest>>
  BY DEF AdapterInv, FindEnds, Finding, End
<1>2. task.order \in Orders /\ signed[task.order] # None /\ task.begun <= now
      /\ task.begun \in Nat
  BY <1>1, TaskIs DEF AdapterInv, TaskOK, Calls, Types
<1>3. PICK t : t = [order |-> task.order, outcome |-> "Absent", begun |-> task.begun,
                    listed |-> Loaded(SymbolOf[task.order]),
                    sure |-> task.begun > signed[task.order] + RECV_WINDOW]
  OBVIOUS
<1>4. /\ t.order = task.order /\ t.outcome = "Absent" /\ t.begun = task.begun
      /\ t.listed = Loaded(SymbolOf[task.order])
      /\ t.sure = (task.begun > signed[task.order] + RECV_WINDOW)
  BY <1>3
<1>5. told' = told \/ (task.error = None /\ told' = told \cup {t})
  BY <1>1, <1>3 DEF Tell, NotFound
<1>6. /\ UNCHANGED <<now, skew, offset, loaded, book, placed, signed, sync, shortest>>
      /\ late' = late /\ req' = None
      /\ late' \subseteq Requests
      /\ \A r \in late' : r.kind \in {"POST", "DELETE"} /\ r.order \in Orders
  BY <1>1 DEF venue, Types
<1>7. CASE told' = told
  <2>1. \A u \in told' : u \in told
    BY <1>7
  <2> QED
    BY <1>1, <1>6, <2>1, EndKeeps
<1>8. CASE task.error = None /\ told' = told \cup {t}
  <2>1. Loaded(SymbolOf[task.order]) => Since(task.order, task.begun)
    <3>1. DOMAIN task.todo = {}
      BY <1>1
    <3> QED
      BY <1>1, <1>8, <3>1 DEF AdapterInv, Asked
  <2>2. Since(t.order, t.begun)' <=> Since(task.order, task.begun)
    BY <1>4, <1>6 DEF Since
  <2>3. TrueOf(t)'
    BY <1>2, <1>4, <1>6, <2>1, <2>2 DEF TrueOf
  <2>4. \A u \in told' : u \in told \/ TrueOf(u)'
    BY <1>8, <2>3
  <2> QED
    BY <1>1, <1>6, <2>4, EndKeeps
<1> QED
  BY <1>5, <1>7, <1>8
-----------------------------------------------------------------------------
(* The venue read its clock between the sending and the receiving, so the   *)
(* midpoint is off by at most half the trip.                                *)
LEMMA MidpointWithin ==
  ASSUME NEW s \in Samples, NEW k \in Int,
         s.sent - k <= s.server, s.server <= s.received - k
  PROVE  /\ sync_round_trip(s) \in Int /\ Trip(s) \in Int
         /\ 2 * (sync_round_trip(s) + k) \in -(Trip(s) + 1)..(Trip(s) + 1)
<1>1. s.sent \in Int /\ s.server \in Int /\ s.received \in Int
  BY DEF Samples
<1>2. PICK t : t = Trip(s)
  OBVIOUS
<1>3. t \in Nat /\ s.server + k - s.sent \in 0..t
  BY <1>1, <1>2 DEF Trip
<1>4. PICK h : h = t \div 2
  OBVIOUS
<1>5. h \in Int /\ 2 * h <= t /\ t <= 2 * h + 1
  BY <1>3, <1>4
<1>6. sync_round_trip(s) = s.server - (s.sent + h)
  BY <1>2, <1>4 DEF sync_round_trip, Midpoint
<1>7. PICK d : d = s.server + k - s.sent
  OBVIOUS
<1>8. sync_round_trip(s) \in Int /\ sync_round_trip(s) + k = d - h /\ d \in 0..t
  BY <1>1, <1>3, <1>5, <1>6, <1>7
<1>9. 2 * (d - h) \in -(t + 1)..(t + 1)
  BY <1>3, <1>5, <1>8
<1> QED
  BY <1>2, <1>3, <1>8, <1>9

(* An adapter that could not start waits for a restart.                     *)
LEMMA DownIs ==
  Down \in Tasks /\ Down.op = "down" /\ Down.begun = 0
<1>1. Down = [op |-> "down", order |-> None, todo |-> <<>>, error |-> None, begun |-> 0]
  BY DEF Down, Idle
<1> QED
  BY <1>1 DEF Tasks, Ops

(* A sync ends: its best sample makes the offset.                           *)
LEMMA SyncEndsKeeps ==
  ASSUME AdapterInv, SyncEnds
  PROVE  AdapterInv'
<1>1. /\ Types /\ task \in Tasks /\ sync # None /\ req = None /\ sync' = None
      /\ offset' = IF sync.best = None THEN offset ELSE sync_round_trip(sync.best)
      /\ UNCHANGED <<now, skew, loaded, req, late, venue, signed, told, shortest>>
  BY DEF AdapterInv, Types, SyncEnds
<1>2. /\ skew \in Int /\ offset \in Int
      /\ shortest \in [trip: Int \cup {None}, steady: BOOLEAN]
      /\ sync \in Syncs /\ now \in Nat
  BY <1>1 DEF Types
<1>3. sync.best # None => sync.best \in Samples
  BY <1>2 DEF Syncs
<1>4. /\ sync.best = None <=> shortest.trip = None
      /\ sync.best # None =>
           /\ shortest.trip = Trip(sync.best)
           /\ shortest.steady => /\ sync.best.sent - skew <= sync.best.server
                                 /\ sync.best.server <= sync.best.received - skew
  BY <1>1 DEF AdapterInv, ClockOK
<1>5. offset' \in Int
  <2>1. ASSUME NEW s \in Samples PROVE sync_round_trip(s) \in Int
    BY DEF Samples, sync_round_trip, Midpoint, Trip
  <2> QED
    BY <1>1, <1>2, <1>3, <2>1
<1>6. ClockOK'
  <2>1. ASSUME shortest.trip # None, shortest.steady
        PROVE  2 * (offset' + skew) \in -(shortest.trip + 1)..(shortest.trip + 1)
    <3>1. PICK s \in Samples : s = sync.best
      BY <1>3, <1>4, <2>1
    <3>2. /\ offset' = sync_round_trip(s) /\ shortest.trip = Trip(s)
          /\ s.sent - skew <= s.server /\ s.server <= s.received - skew
      BY <1>1, <1>4, <2>1, <3>1
    <3> QED
      BY <1>2, <3>2, MidpointWithin
  <2> QED
    BY <1>1, <2>1 DEF ClockOK, ClockWithinTrip
<1>7. /\ task' \in Tasks /\ task'.begun <= now
      /\ \/ task' = task
         \/ task'.op \in {"down", "load"}
  <2>1. task.begun <= now
    BY DEF AdapterInv, TaskOK
  <2>2. Down \in Tasks /\ Down.op = "down" /\ Down.begun = 0
    BY DownIs
  <2>3. /\ [task EXCEPT !.op = "load"] \in Tasks /\ [task EXCEPT !.op = "load"].op = "load"
        /\ [task EXCEPT !.op = "load"].begun = task.begun
    BY <1>1 DEF Tasks, Ops
  <2>4. task' \in {Down, [task EXCEPT !.op = "load"], task}
    BY DEF SyncEnds
  <2> QED
    <3>1. PICK l : l = [task EXCEPT !.op = "load"]
      OBVIOUS
    <3>2. PICK d : d = Down
      OBVIOUS
    <3>3. 0 <= now
      BY <1>2
    <3> QED
      BY <1>1, <2>1, <2>2, <2>3, <2>4, <3>1, <3>2, <3>3
<1>8. Types'
  BY <1>1, <1>5, <1>7 DEF Types, venue
<1>9. Waiting' /\ TaskOK' /\ Asked'
  BY <1>1, <1>7 DEF AdapterInv, Waiting, TaskOK, Asked, Since, Loaded, Calls, venue
<1>10. /\ UNCHANGED <<now, book, placed, signed>> /\ late' \subseteq late /\ req' = None
       /\ \A t \in told' : t \in told
  BY <1>1 DEF venue
<1> QED
  BY <1>6, <1>8, <1>9, <1>10, AfterKeeps
-----------------------------------------------------------------------------
(* Every answer is well formed, and only a clock reading carries data.      *)
LEMMA AnswersAre ==
  ASSUME now \in Nat, NEW r, NEW a \in Answers(r)
  PROVE  /\ a \in Replies /\ (a.status >= 400 => a.code # 0)
         /\ a.data # None => a.data = now
  BY DEF Answers, Answer, Ok, Refused, Replies, TOO_MANY_REQUESTS, ORDER_DOES_NOT_EXIST,
         UNKNOWN_ORDER, TIMESTAMP_SKEW

(* What the venue may do with a request, and what its answer then says.     *)
LEMMA PerformIs ==
  ASSUME Types, NEW r \in Requests, NEW a, Perform(r, a)
  PROVE  /\ a.status < 500
         /\ \/ book' = book /\ placed' = placed
            \/ /\ r.kind = "POST" /\ book[r.order] # "open" /\ a.code = 0
               /\ book' = [book EXCEPT ![r.order] = "open"]
               /\ placed' = [placed EXCEPT ![r.order] = Append(@, now)]
            \/ /\ r.kind = "DELETE" /\ book[r.order] = "open" /\ a.code = 0
               /\ book' = [book EXCEPT ![r.order] = "done"] /\ placed' = placed
         /\ r.kind = "POST" /\ a.code = 0 =>
               placed' = [placed EXCEPT ![r.order] = Append(@, now)]
         /\ r.kind = "POST" /\ a.code # 0 => placed' = placed
         /\ r.kind = "DELETE" /\ a.code = 0 => book' = [book EXCEPT ![r.order] = "done"]
         /\ r.kind = "GET" =>
              /\ a.code = 0 <=> Held(r)
              /\ a.code = ORDER_DOES_NOT_EXIST <=> ~Held(r)
<1>1. /\ Ok(None).code = 0 /\ Ok(now).code = 0 /\ Ok(None).status = 200 /\ Ok(now).status = 200
      /\ \A c \in Int : Refused(c).code = c /\ Refused(c).status = 400
  BY DEF Ok, Refused, Answer
<1>2. CASE r.kind = "POST"
  BY <1>1, <1>2 DEF Perform, Take, venue
<1>3. CASE r.kind = "DELETE"
  BY <1>1, <1>3 DEF Perform, venue, UNKNOWN_ORDER
<1>4. CASE r.kind = "GET"
  BY <1>1, <1>4 DEF Perform, venue, ORDER_DOES_NOT_EXIST
<1>5. CASE r.kind = "time"
  BY <1>1, <1>5 DEF Perform, venue
<1>6. CASE r.kind = "info"
  BY <1>1, <1>6 DEF Perform, venue
<1> QED
  BY <1>2, <1>3, <1>4, <1>5, <1>6, RequestIs
(* The request that is out is about an order, if it is one the venue acts   *)
(* on or looks an order up for.                                             *)
LEMMA OrderOf ==
  ASSUME AdapterInv, req # None, req.kind \in {"POST", "DELETE", "GET"}
  PROVE  /\ req.order \in Orders /\ sync = None /\ req.order = task.order
         /\ req.kind = "GET" => task.op \in {"cancel", "lookup"}
  BY DEF AdapterInv, Waiting, TaskOK, Calls

(* The venue takes an order only as the last copy of its request, within    *)
(* the receive window.                                                      *)
LEMMA ActsKeep ==
  ASSUME AdapterInv, UNCHANGED <<now, signed>>,
         NEW r \in Requests, r.kind \in {"POST", "DELETE"} => r.order \in Orders,
         \/ r = req /\ req # None /\ req.answer = None /\ late' = late
            /\ req'.signed = req.signed /\ req'.stamp = req.stamp
            /\ req'.kind = req.kind /\ req'.order = req.order
            /\ req'.answer # None
         \/ r \in late /\ late' = late \ {r} /\ req' = req,
         NEW a, Perform(r, a), ~OutsideWindow(r)
  PROVE  /\ OneCopy'
         /\ \A t \in told : TrueOf(t)'
         /\ \A o \in Orders : /\ placed[o] # <<>> => placed'[o] # <<>>
                              /\ book[o] = "done" => book'[o] = "done"
                              /\ Awaits(o) /\ r # req => placed'[o] = placed[o]
         /\ \A o \in Orders, b \in Nat : b <= now /\ Since(o, b) => Since(o, b)'
         /\ book' \in [Orders -> {"none", "open", "done"}]
         /\ placed' \in [Orders -> Seq(Nat)]
<1>1. /\ Types /\ now \in Nat /\ late \subseteq Requests
      /\ book \in [Orders -> {"none", "open", "done"}] /\ placed \in [Orders -> Seq(Nat)]
      /\ signed \in [Orders -> Nat \cup {None}]
  BY DEF AdapterInv, Types
<1>2. \/ book' = book /\ placed' = placed
      \/ /\ r.kind = "POST" /\ book[r.order] # "open"
         /\ book' = [book EXCEPT ![r.order] = "open"]
         /\ placed' = [placed EXCEPT ![r.order] = Append(@, now)]
      \/ /\ r.kind = "DELETE" /\ book[r.order] = "open"
         /\ book' = [book EXCEPT ![r.order] = "done"] /\ placed' = placed
  BY <1>1, PerformIs
<1>3. \A o \in Orders : Awaits(o)' =>
        /\ Awaits(o) /\ req'.signed = req.signed /\ req'.stamp = req.stamp
        /\ req'.answer = None => req.answer = None /\ r \in late
  BY DEF Awaits, Posts
<1>4. late' \subseteq late
  OBVIOUS
<1>5. ASSUME \A o \in Orders :
               /\ placed'[o] = placed[o]
               /\ book'[o] = book[o] \/ (book[o] = "open" /\ book'[o] = "done")
      PROVE  /\ OneCopy'
             /\ \A t \in told : TrueOf(t)'
             /\ \A o \in Orders : /\ placed[o] # <<>> => placed'[o] # <<>>
                                  /\ book[o] = "done" => book'[o] = "done"
             /\ \A o \in Orders, b \in Nat : b <= now /\ Since(o, b) => Since(o, b)'
  <2>1. \A o \in Orders : Awaits(o)' =>
            /\ Awaits(o) /\ req'.signed = req.signed /\ req'.stamp = req.stamp
            /\ (req'.answer = None => req.answer = None /\ o \notin {})
    BY <1>3
  <2>2. {} \in SUBSET Orders /\ \A o \in Orders \ {} :
            /\ placed'[o] = placed[o]
            /\ book'[o] = book[o] \/ (book[o] = "open" /\ book'[o] = "done")
    BY <1>5
  <2> QED
    BY <1>4, <2>1, <2>2, VenueKeeps
<1>6. CASE book' = book /\ placed' = placed
  <2>1. \A o \in Orders :
               /\ placed'[o] = placed[o]
               /\ book'[o] = book[o] \/ (book[o] = "open" /\ book'[o] = "done")
    BY <1>6
  <2> QED
    BY <1>1, <1>5, <1>6, <2>1
<1>7. CASE /\ r.kind = "DELETE" /\ book[r.order] = "open"
           /\ book' = [book EXCEPT ![r.order] = "done"] /\ placed' = placed
  <2>1. \A o \in Orders :
               /\ placed'[o] = placed[o]
               /\ book'[o] = book[o] \/ (book[o] = "open" /\ book'[o] = "done")
    BY <1>1, <1>7
  <2>2. book' \in [Orders -> {"none", "open", "done"}]
    BY <1>1, <1>7
  <2> QED
    BY <1>1, <1>5, <1>7, <2>1, <2>2
<1>8. CASE /\ r.kind = "POST" /\ book[r.order] # "open"
           /\ book' = [book EXCEPT ![r.order] = "open"]
           /\ placed' = [placed EXCEPT ![r.order] = Append(@, now)]
  <2>1. PICK x \in Orders : x = r.order
    BY <1>8
  <2>2. /\ placed[x] = <<>> /\ signed[x] # None /\ r.signed /\ r.stamp = signed[x]
        /\ Awaits(x) \/ Stray(x)
        /\ ~Stray(x)'
        /\ r \in late => ~Awaits(x)
    <3>1. Posts(r, x)
      BY <1>8, <2>1 DEF Posts
    <3>2. /\ signed[x] = None => placed[x] = <<>> /\ ~Awaits(x) /\ ~Stray(x)
          /\ Stray(x) => placed[x] = <<>> /\ ~Awaits(x)
          /\ \A p, q \in late : Posts(p, x) /\ Posts(q, x) => q = p
          /\ \A p \in late : Posts(p, x) => p.signed /\ p.stamp = signed[x]
          /\ Awaits(x) => /\ req.signed /\ req.stamp = signed[x]
                          /\ req.answer = None => placed[x] = <<>>
      BY DEF AdapterInv, OneCopy
    <3>3. CASE r = req /\ req # None /\ req.answer = None /\ late' = late
      BY <3>1, <3>2, <3>3 DEF Awaits, Stray
    <3>4. CASE r \in late /\ late' = late \ {r}
      BY <3>1, <3>2, <3>4 DEF Awaits, Stray
    <3> QED
      BY <3>3, <3>4
  <2>3. now <= signed[x] + RECV_WINDOW
    <3>1. signed[x] \in Nat /\ ~(now - signed[x] > RECV_WINDOW)
      BY <1>1, <2>2 DEF OutsideWindow
    <3> QED
      BY <1>1, <3>1, AdapterAssumption
  <2>4. /\ placed'[x] = <<now>> /\ book'[x] = "open"
        /\ \A o \in Orders : o # x => placed'[o] = placed[o] /\ book'[o] = book[o]
    BY <1>1, <1>8, <2>1, <2>2
  <2>5. book' \in [Orders -> {"none", "open", "done"}] /\ placed' \in [Orders -> Seq(Nat)]
    <3>1. placed[r.order] \in Seq(Nat) /\ Append(placed[r.order], now) \in Seq(Nat)
      BY <1>1, <2>1
    <3> QED
      BY <1>1, <1>8, <3>1
  <2>6. PICK W \in SUBSET Orders : W = {x}
    OBVIOUS
  <2>7. \A o \in Orders : Awaits(o)' =>
            /\ Awaits(o) /\ req'.signed = req.signed /\ req'.stamp = req.stamp
            /\ (req'.answer = None => req.answer = None /\ o \notin W)
    BY <1>3, <2>2, <2>6
  <2>8. \A o \in Orders \ W :
            /\ placed'[o] = placed[o]
            /\ book'[o] = book[o] \/ (book[o] = "open" /\ book'[o] = "done")
    BY <2>4, <2>6
  <2>9. \A o \in W :
            /\ placed[o] = <<>> /\ placed'[o] = <<now>> /\ book'[o] = "open"
            /\ signed[o] # None /\ now <= signed[o] + RECV_WINDOW
            /\ Awaits(o) \/ Stray(o)
            /\ ~Stray(o)'
    BY <2>2, <2>3, <2>4, <2>6
  <2>10. /\ OneCopy'
         /\ \A t \in told : TrueOf(t)'
         /\ \A o \in Orders : /\ placed[o] # <<>> => placed'[o] # <<>>
                              /\ book[o] = "done" => book'[o] = "done"
         /\ \A o \in Orders, b \in Nat : b <= now /\ Since(o, b) => Since(o, b)'
    BY <1>4, <2>7, <2>8, <2>9, VenueKeeps
  <2>11. \A o \in Orders : Awaits(o) /\ r # req => placed'[o] = placed[o]
    BY <2>2, <2>4
  <2> QED
    BY <2>5, <2>10, <2>11
<1> QED
  BY <1>2, <1>6, <1>7, <1>8
(* A request that was given up on reaches the venue.                        *)
LEMMA ReachLateKeeps ==
  ASSUME AdapterInv, ReachLate
  PROVE  AdapterInv'
<1>1. /\ Types /\ now \in Nat
      /\ UNCHANGED <<now, skew, adapter, bounds, signed, told, shortest>>
      /\ late \subseteq Requests
      /\ \A q \in late : q.kind \in {"POST", "DELETE"} /\ q.order \in Orders
  BY DEF AdapterInv, Types, ReachLate
<1>2. PICK r \in late :
        late' = late \ {r} /\ ~OutsideWindow(r) /\ \E a \in Answers(r) : Perform(r, a)
  BY DEF ReachLate
<1>3. PICK a \in Answers(r) : Perform(r, a)
  BY <1>2
<1>4. req' = req
  BY <1>1 DEF adapter
<1>5. /\ r \in Requests /\ (r.kind \in {"POST", "DELETE"} => r.order \in Orders)
      /\ UNCHANGED <<now, signed>>
  BY <1>1
<1>6. /\ OneCopy'
      /\ \A t \in told : TrueOf(t)'
      /\ \A o \in Orders : /\ placed[o] # <<>> => placed'[o] # <<>>
                           /\ book[o] = "done" => book'[o] = "done"
                           /\ Awaits(o) /\ r # req => placed'[o] = placed[o]
      /\ \A o \in Orders, b \in Nat : b <= now /\ Since(o, b) => Since(o, b)'
      /\ book' \in [Orders -> {"none", "open", "done"}]
      /\ placed' \in [Orders -> Seq(Nat)]
  BY <1>2, <1>3, <1>4, <1>5, ActsKeep
<1>7. Types'
  BY <1>1, <1>2, <1>6 DEF Types, adapter
<1>8. Waiting' /\ TaskOK' /\ ClockOK' /\ ToldOK'
  BY <1>1, <1>6 DEF AdapterInv, Waiting, TaskOK, ClockOK, ClockWithinTrip, ToldOK, adapter, Trip
<1>9. task.begun \in Nat /\ task.begun <= now /\ UNCHANGED <<task, loaded>>
  BY <1>1, TaskIs DEF AdapterInv, Types, TaskOK, adapter
<1>10. Asked'
  <2>1. task.op \in {"cancel", "lookup"} => task.order \in Orders
    BY DEF AdapterInv, TaskOK, Calls
  <2>2. task.op \in {"cancel", "lookup"} /\ Since(task.order, task.begun)
          => Since(task.order, task.begun)'
    BY <1>6, <1>9, <2>1
  <2> QED
    BY <1>9, <2>2 DEF AdapterInv, Asked, Loaded
<1>11. Honest'
  <2> SUFFICES ASSUME req # None, req.answer # None PROVE Honest'
    BY <1>4 DEF Honest
  <2>1. /\ req.answer.status >= 400 => req.answer.code # 0
        /\ req.answer.text = "whole" /\ req.answer.code = 0 =>
             /\ req.kind \in {"POST", "GET"} => placed[req.order] # <<>>
             /\ req.kind = "DELETE" => book[req.order] = "done"
        /\ req.kind = "POST" /\ req.answer.status < 500 /\ req.answer.code # 0 =>
             placed[req.order] = <<>>
        /\ /\ req.kind = "GET" /\ req.answer.code = ORDER_DOES_NOT_EXIST
           /\ req.symbol = SymbolOf[req.order]
           => Since(req.order, task.begun)
    BY DEF AdapterInv, Honest
  <2>2. req.kind \in {"POST", "DELETE", "GET"} => req.order \in Orders
    BY OrderOf
  <2>3. req.kind = "POST" => placed'[req.order] = placed[req.order]
    <3>1. ASSUME req.kind = "POST" PROVE r # req
      <4>1. Awaits(req.order) /\ req.order \in Orders
        BY <2>2, <3>1 DEF Awaits, Posts
      <4>2. ~Stray(req.order)
        BY <4>1 DEF AdapterInv, OneCopy
      <4> QED
        BY <3>1, <4>2 DEF Stray, Posts
    <3>2. req.kind = "POST" => Awaits(req.order)
      BY DEF Awaits, Posts
    <3> QED
      BY <1>6, <2>2, <3>1, <3>2
  <2>4. req.kind = "GET" /\ Since(req.order, task.begun) => Since(req.order, task.begun)'
    BY <1>4, <1>6, <1>9, <2>2 DEF Since
  <2> QED
    BY <1>4, <1>6, <1>9, <2>1, <2>2, <2>3, <2>4 DEF Honest
<1> QED
  BY <1>6, <1>7, <1>8, <1>10, <1>11 DEF AdapterInv
(* An answer that has just been given is true.                              *)
TrueAnswer(a) ==
  /\ a.status >= 400 => a.code # 0
  /\ a.text = "whole" /\ a.code = 0 =>
       /\ req.kind \in {"POST", "GET"} => placed'[req.order] # <<>>
       /\ req.kind = "DELETE" => book'[req.order] = "done"
  /\ req.kind = "POST" /\ a.status < 500 /\ a.code # 0 => placed'[req.order] = <<>>
  /\ req.kind = "GET" /\ a.code = ORDER_DOES_NOT_EXIST /\ req.symbol = SymbolOf[req.order]
     => placed'[req.order] = <<>>

(* What a step that answers the request leaves to show.                     *)
LEMMA AnsweredKeeps ==
  ASSUME AdapterInv, req # None, req.answer = None,
         NEW a \in Replies, a.data # None => a.data = now, TrueAnswer(a),
         req' = [req EXCEPT !.answer = a],
         UNCHANGED <<now, skew, offset, loaded, task, sync, late, signed, told, shortest>>,
         OneCopy', \A t \in told : TrueOf(t)',
         \A o \in Orders, b \in Nat : b <= now /\ Since(o, b) => Since(o, b)',
         book' \in [Orders -> {"none", "open", "done"}],
         placed' \in [Orders -> Seq(Nat)]
  PROVE  AdapterInv'
<1>1. /\ Types /\ now \in Nat /\ skew \in Int /\ req \in Requests
  BY DEF AdapterInv, Types
<1>2. /\ req' \in Requests /\ req'.answer = a /\ req'.kind = req.kind
      /\ req'.order = req.order /\ req'.symbol = req.symbol /\ req'.sent = req.sent
  BY <1>1 DEF Requests
<1>3. Types'
  BY <1>1, <1>2 DEF Types
<1>4. Waiting' /\ TaskOK' /\ ToldOK'
  BY <1>2 DEF AdapterInv, Waiting, TaskOK, ToldOK
<1>5. task.begun \in Nat /\ task.begun <= now
  BY <1>1, TaskIs DEF AdapterInv, Types, TaskOK
<1>6. Asked'
  <2>1. task.op \in {"cancel", "lookup"} => task.order \in Orders
    BY DEF AdapterInv, TaskOK, Calls
  <2>2. task.op \in {"cancel", "lookup"} /\ Since(task.order, task.begun)
          => Since(task.order, task.begun)'
    BY <1>5, <2>1
  <2> QED
    BY <2>2 DEF AdapterInv, Asked, Loaded
<1>7. Honest'
  BY <1>2 DEF TrueAnswer, Honest, Since
<1>8. ClockOK'
  <2>1. sync # None /\ shortest.steady => req.sent - skew <= now
    BY DEF AdapterInv, ClockOK
  <2>2. a.data # None => a.data = now /\ now <= now
    BY <1>1
  <2> QED
    BY <1>2, <2>1, <2>2 DEF AdapterInv, ClockOK, ClockWithinTrip, Trip
<1> QED
  BY <1>3, <1>4, <1>6, <1>7, <1>8 DEF AdapterInv

(* The venue does nothing with the request, and says so.                    *)
LEMMA RefusedKeeps ==
  ASSUME AdapterInv, req # None, req.answer = None,
         NEW a \in Replies, a.data # None => a.data = now,
         a.code # 0, a.code # ORDER_DOES_NOT_EXIST,
         req' = [req EXCEPT !.answer = a], UNCHANGED venue,
         UNCHANGED <<now, skew, offset, loaded, task, sync, late, signed, told, shortest>>
  PROVE  AdapterInv'
<1>1. /\ Types /\ now \in Nat /\ req \in Requests /\ UNCHANGED <<book, placed>>
  BY DEF AdapterInv, Types, venue
<1>2. /\ req'.answer = a /\ req'.kind = req.kind /\ a # None
      /\ req'.order = req.order /\ req'.stamp = req.stamp /\ req'.signed = req.signed
  BY <1>1, NoneIs DEF Requests
<1>3. OneCopy' /\ \A t \in told : TrueOf(t)'
  <2>1. now' \in Nat /\ now <= now' /\ late' \subseteq late /\ UNCHANGED <<book, placed, signed>>
    BY <1>1
  <2>2. req' # None /\ req'.kind = "POST" =>
           /\ req # None /\ req.kind = "POST" /\ req'.order = req.order
           /\ req'.stamp = req.stamp /\ req'.signed = req.signed
           /\ (req'.answer = None /\ req.answer # None => placed[req.order] = <<>>)
    BY <1>2
  <2> QED
    BY <2>1, <2>2, StillKeeps
<1>4. TrueAnswer(a)
  <2>1. ASSUME req.kind = "POST" PROVE placed[req.order] = <<>>
    <3>1. req.order \in Orders /\ Awaits(req.order)
      BY <2>1, OrderOf DEF Awaits, Posts
    <3> QED
      BY <3>1 DEF AdapterInv, OneCopy
  <2> QED
    BY <1>1, <2>1 DEF TrueAnswer
<1>5. /\ \A o \in Orders, b \in Nat : b <= now /\ Since(o, b) => Since(o, b)'
      /\ book' \in [Orders -> {"none", "open", "done"}] /\ placed' \in [Orders -> Seq(Nat)]
  BY <1>1 DEF Since, Types
<1> QED
  BY <1>3, <1>4, <1>5, AnsweredKeeps
(* The request reaches the venue.                                           *)
LEMMA ReachKeeps ==
  ASSUME AdapterInv, Reach
  PROVE  AdapterInv'
<1>1. /\ Types /\ now \in Nat /\ req \in Requests /\ req # None /\ req.answer = None
      /\ UNCHANGED <<now, skew, offset, loaded, task, sync, late, signed, told, shortest>>
      /\ placed \in [Orders -> Seq(Nat)] /\ book \in [Orders -> {"none", "open", "done"}]
  BY DEF AdapterInv, Types, Reach
<1>2. PICK a \in Answers(req) :
        /\ req' = [req EXCEPT !.answer = a]
        /\ \/ ~OutsideWindow(req) /\ Perform(req, a)
           \/ OutsideWindow(req) /\ a = Refused(TIMESTAMP_SKEW) /\ UNCHANGED venue
           \/ Fails(req, a)
  BY DEF Reach
<1>3. /\ a \in Replies /\ (a.status >= 400 => a.code # 0) /\ (a.data # None => a.data = now)
      /\ a # None
  BY <1>1, AnswersAre, NoneIs
<1>4. ASSUME UNCHANGED venue, a.code # 0, a.code # ORDER_DOES_NOT_EXIST
      PROVE  AdapterInv'
  BY <1>1, <1>2, <1>3, <1>4, RefusedKeeps
<1>5. ASSUME NEW b, Perform(req, b), ~OutsideWindow(req), TrueAnswer(a)
      PROVE  AdapterInv'
  <2>1. /\ req'.signed = req.signed /\ req'.stamp = req.stamp /\ req'.kind = req.kind
        /\ req'.order = req.order /\ req'.answer # None
    BY <1>1, <1>2, <1>3 DEF Requests
  <2>2. req.kind \in {"POST", "DELETE"} => req.order \in Orders
    BY <1>1, OrderOf
  <2>3. UNCHANGED <<now, signed>> /\ late' = late
    BY <1>1
  <2>4. /\ OneCopy'
        /\ \A t \in told : TrueOf(t)'
        /\ \A o \in Orders, c \in Nat : c <= now /\ Since(o, c) => Since(o, c)'
        /\ book' \in [Orders -> {"none", "open", "done"}]
        /\ placed' \in [Orders -> Seq(Nat)]
    BY <1>1, <1>5, <2>1, <2>2, <2>3, ActsKeep
  <2> QED
    BY <1>1, <1>2, <1>3, <1>5, <2>4, AnsweredKeeps
<1>6. CASE ~OutsideWindow(req) /\ Perform(req, a)
  <2>1. req.kind \in {"POST", "DELETE", "GET"} => req.order \in Orders
    BY <1>1, OrderOf
  <2>2. \A o \in Orders : book[o] = "none" <=> placed[o] = <<>>
    BY DEF AdapterInv, OneCopy
  <2>3. req.kind = "POST" => placed[req.order] = <<>>
    <3>1. req.kind = "POST" => Awaits(req.order)
      BY <1>1 DEF Awaits, Posts
    <3> QED
      BY <1>1, <2>1, <3>1 DEF AdapterInv, OneCopy
  <2>4. req.kind = "POST" =>
          /\ a.code = 0 => placed'[req.order] # <<>>
          /\ a.code # 0 => placed'[req.order] = <<>>
    <3>1. req.kind = "POST" /\ a.code = 0 =>
            placed' = [placed EXCEPT ![req.order] = Append(@, now)]
      BY <1>1, <1>6, PerformIs
    <3>2. req.kind = "POST" /\ a.code # 0 => placed' = placed
      BY <1>1, <1>6, PerformIs
    <3>3. Append(<<>>, now) # <<>>
      BY <1>1
    <3> QED
      BY <1>1, <2>1, <2>3, <3>1, <3>2, <3>3
  <2>5. req.kind = "DELETE" /\ a.code = 0 => book'[req.order] = "done"
    <3>1. req.kind = "DELETE" /\ a.code = 0 => book' = [book EXCEPT ![req.order] = "done"]
      BY <1>1, <1>6, PerformIs
    <3> QED
      BY <1>1, <2>1, <3>1
  <2>6. req.kind = "GET" =>
          /\ a.code = 0 => placed'[req.order] # <<>>
          /\ a.code = ORDER_DOES_NOT_EXIST /\ req.symbol = SymbolOf[req.order]
             => placed'[req.order] = <<>>
    <3>1. req.kind = "GET" => placed' = placed
      BY <1>1, <1>6, PerformIs
    <3>2. req.kind = "GET" =>
              /\ a.code = 0 <=> Held(req)
              /\ a.code = ORDER_DOES_NOT_EXIST <=> ~Held(req)
      BY <1>1, <1>6, PerformIs
    <3> QED
      BY <2>1, <2>2, <3>1, <3>2 DEF Held
  <2>7. TrueAnswer(a)
    BY <1>3, <2>4, <2>5, <2>6 DEF TrueAnswer
  <2> QED
    BY <1>5, <1>6, <2>7
<1>7. CASE OutsideWindow(req) /\ a = Refused(TIMESTAMP_SKEW) /\ UNCHANGED venue
  <2>1. a.code # 0 /\ a.code # ORDER_DOES_NOT_EXIST
    BY <1>7 DEF Refused, Answer, TIMESTAMP_SKEW, ORDER_DOES_NOT_EXIST
  <2> QED
    BY <1>4, <1>7, <2>1
<1>8. CASE Fails(req, a)
  <2>1. CASE /\ a \in {Answer(429, TOO_MANY_REQUESTS, "whole", None),
                      Answer(401, -2015, "whole", None), Answer(503, -1000, "whole", None)}
             /\ UNCHANGED venue
    <3>1. a.code # 0 /\ a.code # ORDER_DOES_NOT_EXIST
      BY <2>1 DEF Answer, TOO_MANY_REQUESTS, ORDER_DOES_NOT_EXIST
    <3> QED
      BY <1>4, <2>1, <3>1
  <2>2. CASE /\ ~OutsideWindow(req)
             /\ \E b \in Answers(req) : Perform(req, b)
             /\ a \in {Answer(503, -1000, "whole", None), Answer(200, 0, "cut", None),
                       Answer(200, 0, "garbled", None)}
    <3>1. TrueAnswer(a)
      BY <2>2 DEF TrueAnswer, Answer, ORDER_DOES_NOT_EXIST
    <3>2. PICK b \in Answers(req) : Perform(req, b)
      BY <2>2
    <3> QED
      BY <1>5, <2>2, <3>1, <3>2
  <2> QED
    BY <1>8, <2>1, <2>2 DEF Fails
<1> QED
  BY <1>2, <1>6, <1>7, <1>8
-----------------------------------------------------------------------------
(* What send() returned comes from the answer, if there was one; without    *)
(* one the request may be a stray from now on.                              *)
Returns(x, guess) ==
  /\ req # None
  /\ x.kind \in {"none", "body"} \cup Errors /\ x.code \in Int /\ x.data \in Int \cup {None}
  /\ x.kind # "none" => req.answer # None /\ late' = late
  /\ x.kind = "body" => /\ req.answer.text = "whole"
                        /\ x.code = req.answer.code /\ x.data = req.answer.data
  /\ x.kind = "body" /\ ~guess => req.answer.status < 500
  /\ late' \subseteq late \cup Abandoned
  /\ UNCHANGED <<now, skew, venue, signed>>

(* Strays are requests the venue acts on.                                   *)
LEMMA LateIs ==
  ASSUME AdapterInv, late' \subseteq late \cup Abandoned
  PROVE  /\ late' \subseteq Requests
         /\ \A r \in late' : r.kind \in {"POST", "DELETE"} /\ r.order \in Orders
<1>1. /\ late \subseteq Requests
      /\ \A r \in late : r.kind \in {"POST", "DELETE"} /\ r.order \in Orders
      /\ req # None => req \in Requests
  BY DEF AdapterInv, Types
<1>2. \A r \in Abandoned : r \in Requests /\ r.kind \in {"POST", "DELETE"} /\ r.order \in Orders
  BY <1>1, AbandonedIs, OrderOf
<1> QED
  BY <1>1, <1>2

(* A skewed timestamp starts a sync; other codes leave the clock alone.     *)
LEMMA SkewStarts ==
  ASSUME NEW x, SyncOnSkew(x)
  PROVE  StartSync \/ UNCHANGED <<sync, shortest>>
  BY DEF SyncOnSkew

(* The answer to an order request is reported, or kept open.                *)
LEMMA submitKeeps ==
  ASSUME AdapterInv, NEW x, NEW guess \in BOOLEAN, Returns(x, guess),
         sync = None, task.op = "submit", submit(x, guess)
  PROVE  AdapterInv'
<1>1. req # None /\ req.kind = "POST" /\ req.order = task.order /\ task.order \in Orders
      /\ signed[task.order] # None
  BY DEF AdapterInv, Waiting, TaskOK, Calls, Returns
<1>2. /\ UNCHANGED <<now, skew, offset, loaded, book, placed, signed>>
      /\ late' \subseteq late \cup Abandoned /\ req' = None /\ task' = Idle
  BY DEF Returns, submit, End, venue
<1>3. StartSync \/ UNCHANGED <<sync, shortest>>
  BY SkewStarts DEF submit
<1>4. PICK t : t = [order |-> task.order, outcome |-> "Acked", guess |-> guess]
  OBVIOUS
<1>5. PICK u : u = [order |-> task.order, outcome |-> "Rejected", guess |-> guess]
  OBVIOUS
<1>6. \/ told' = told
      \/ x.kind = "body" /\ x.code = 0 /\ told' = told \cup {t}
      \/ x.kind = "body" /\ x.code # 0 /\ told' = told \cup {u}
  BY <1>4, <1>5 DEF submit, End, Tell
<1>7. x.kind = "body" /\ x.code = 0 => TrueOf(t)'
  <2>1. x.kind = "body" /\ x.code = 0 => placed[task.order] # <<>>
    BY <1>1 DEF AdapterInv, Honest, Returns
  <2>2. t.order = task.order /\ t.outcome = "Acked"
    BY <1>4
  <2> QED
    BY <1>1, <1>2, <2>1, <2>2 DEF TrueOf
<1>8. x.kind = "body" /\ x.code # 0 => TrueOf(u)'
  <2>1. PICK o \in Orders : o = task.order
    BY <1>1
  <2>2. x.kind = "body" /\ x.code # 0 /\ ~guess => placed[o] = <<>>
    BY <1>1, <2>1 DEF AdapterInv, Honest, Returns
  <2>3. x.kind = "body" => ~Stray(o)'
    <3>1. Awaits(o)
      BY <1>1, <2>1 DEF Awaits, Posts
    <3>2. ~Stray(o)
      BY <3>1 DEF AdapterInv, OneCopy
    <3>3. x.kind = "body" => late' = late
      BY DEF Returns
    <3> QED
      BY <3>2, <3>3 DEF Stray
  <2>4. u.order = o /\ u.outcome = "Rejected" /\ u.guess = guess
    BY <1>5, <2>1
  <2>5. x.kind = "body" /\ x.code # 0 /\ ~guess => Over(o)'
    BY <1>1, <1>2, <2>1, <2>2, <2>3 DEF Over, Awaits
  <2> QED
    BY <2>4, <2>5 DEF TrueOf
<1>9. \A v \in told' : v \in told \/ TrueOf(v)'
  BY <1>6, <1>7, <1>8
<1>10. /\ late' \subseteq Requests
       /\ \A r \in late' : r.kind \in {"POST", "DELETE"} /\ r.order \in Orders
  BY <1>2, LateIs
<1> QED
  BY <1>2, <1>3, <1>9, <1>10, EndKeeps

(* The answer to a cancel is reported, or kept open.                        *)
LEMMA cancelKeeps ==
  ASSUME AdapterInv, NEW x, NEW guess \in BOOLEAN, Returns(x, guess),
         sync = None, task.op = "delete", cancel(x, guess)
  PROVE  AdapterInv'
<1>1. req # None /\ req.kind = "DELETE" /\ req.order = task.order /\ task.order \in Orders
  BY DEF AdapterInv, Waiting, TaskOK, Calls, Returns
<1>2. /\ UNCHANGED <<now, skew, offset, loaded, book, placed, signed, sync, shortest>>
      /\ late' \subseteq late \cup Abandoned /\ req' = None /\ task' = Idle
  BY DEF Returns, cancel, End, venue
<1>3. PICK t : t = [order |-> task.order, outcome |-> "Requested", guess |-> guess]
  OBVIOUS
<1>4. \/ told' = told
      \/ x.kind = "body" /\ x.code = 0 /\ told' = told \cup {t}
  BY <1>3 DEF cancel, End, Tell
<1>5. x.kind = "body" /\ x.code = 0 => TrueOf(t)'
  <2>1. x.kind = "body" /\ x.code = 0 => book[task.order] = "done"
    BY <1>1 DEF AdapterInv, Honest, Returns
  <2>2. book[task.order] = "none" <=> placed[task.order] = <<>>
    BY <1>1 DEF AdapterInv, OneCopy
  <2>3. t.order = task.order /\ t.outcome = "Requested"
    BY <1>3
  <2> QED
    BY <1>1, <1>2, <2>1, <2>2, <2>3 DEF TrueOf
<1>6. \A v \in told' : v \in told \/ TrueOf(v)'
  BY <1>4, <1>5
<1>7. /\ late' \subseteq Requests
      /\ \A r \in late' : r.kind \in {"POST", "DELETE"} /\ r.order \in Orders
  BY <1>2, LateIs
<1> QED
  BY <1>2, <1>6, <1>7, EndKeeps
(* The search goes on to the next symbol, the one it is at having failed to *)
(* answer or said that it has no such order.                                *)
LEMMA SkipKeeps ==
  ASSUME AdapterInv, NEW x, NEW guess, Returns(x, guess),
         sync = None, task.op \in {"cancel", "lookup"},
         NEW e \in Errors \cup {None}, Skip(e), SyncOnSkew(x), UNCHANGED <<offset, loaded>>,
         e = None => x.kind = "body" /\ x.code = ORDER_DOES_NOT_EXIST
  PROVE  AdapterInv'
<1>1. /\ req # None /\ req.kind = "GET" /\ req.order = task.order /\ task.todo # <<>>
      /\ req.symbol = Head(task.todo) /\ task.order \in Orders
      /\ signed[task.order] # None /\ task.begun <= now
  BY DEF AdapterInv, Waiting, TaskOK, Calls, Returns
<1>2. /\ Types /\ task \in Tasks /\ task.todo \in Seq(Symbols)
  BY TaskIs DEF AdapterInv, Types
<1>3. /\ UNCHANGED <<now, skew, offset, loaded, book, placed, signed>>
      /\ late' \subseteq late \cup Abandoned /\ req' = None /\ told' = told
      /\ task' = [task EXCEPT !.todo = Tail(@), !.error = IF e = None THEN @ ELSE e]
  BY DEF Returns, Skip, venue
<1>4. Tail(task.todo) \in Seq(Symbols)
  BY <1>1, <1>2
<1>5. /\ task' \in Tasks /\ task'.op = task.op /\ task'.order = task.order
      /\ task'.todo = Tail(task.todo) /\ task'.begun = task.begun
      /\ task'.error = IF e = None THEN task.error ELSE e
  <2>1. PICK er : er = IF e = None THEN task.error ELSE e
    OBVIOUS
  <2>2. er \in Errors \cup {None}
    BY <1>2, <2>1, TaskIs
  <2>3. task' = [task EXCEPT !.todo = Tail(task.todo), !.error = er]
    BY <1>2, <1>3, <2>1 DEF Tasks
  <2> QED
    BY <1>2, <1>4, <2>1, <2>2, <2>3 DEF Tasks
<1>6. /\ ClockOK' /\ sync' \in Syncs \cup {None}
      /\ shortest' \in [trip: Int \cup {None}, steady: BOOLEAN]
  BY <1>3, SkewStarts, ClockRests
<1>7. /\ late' \subseteq Requests
      /\ \A r \in late' : r.kind \in {"POST", "DELETE"} /\ r.order \in Orders
  BY <1>3, LateIs
<1>8. Types'
  BY <1>2, <1>3, <1>5, <1>6, <1>7 DEF Types
<1>9. Waiting' /\ TaskOK'
  BY <1>1, <1>3, <1>5 DEF Waiting, TaskOK
<1>10. Asked'
  <2> SUFFICES ASSUME task'.error = None, Loaded(SymbolOf[task.order]),
                      \A n \in DOMAIN Tail(task.todo) :
                        Tail(task.todo)[n] # SymbolOf[task.order]
               PROVE  Since(task.order, task.begun)
    BY <1>3, <1>5 DEF Asked, Loaded, Since
  <2>1. e = None /\ task.error = None /\ x.kind = "body" /\ x.code = ORDER_DOES_NOT_EXIST
    <3>1. e # None => e \in Errors
      OBVIOUS
    <3> QED
      BY <1>5, <3>1
  <2>2. CASE Head(task.todo) = SymbolOf[task.order]
    <3>1. req.answer # None /\ req.answer.code = ORDER_DOES_NOT_EXIST
      BY <2>1 DEF Returns
    <3> QED
      BY <1>1, <2>2, <3>1 DEF AdapterInv, Honest
  <2>3. CASE Head(task.todo) # SymbolOf[task.order]
    <3>1. ASSUME NEW n \in DOMAIN task.todo PROVE task.todo[n] # SymbolOf[task.order]
      <4>1. CASE n = 1
        BY <1>1, <1>2, <2>3, <4>1
      <4>2. CASE n # 1
        <5>1. n \in 1..Len(task.todo) /\ Len(task.todo) \in Nat
          BY <1>2
        <5>2. n - 1 \in 1..(Len(task.todo) - 1) /\ Len(Tail(task.todo)) = Len(task.todo) - 1
          BY <1>1, <1>2, <4>2, <5>1
        <5>3. /\ n - 1 \in DOMAIN Tail(task.todo)
              /\ Tail(task.todo)[n - 1] = task.todo[n]
          BY <1>1, <1>2, <1>4, <5>1, <5>2
        <5> QED
          BY <5>3
      <4> QED
        BY <4>1, <4>2
    <3> QED
      BY <2>1, <3>1 DEF AdapterInv, Asked
  <2> QED
    BY <2>2, <2>3
<1>11. \A t \in told' : t \in told
  BY <1>3
<1> QED
  BY <1>3, <1>6, <1>8, <1>9, <1>10, <1>11, AfterKeeps

(* A search reads one symbol's answer: skip, found, or go on to delete.     *)
LEMMA find_orderKeeps ==
  ASSUME AdapterInv, NEW x, NEW guess, Returns(x, guess),
         sync = None, task.op \in {"cancel", "lookup"}, find_order(x)
  PROVE  AdapterInv'
<1>1. /\ req # None /\ req.kind = "GET" /\ req.order = task.order /\ task.todo # <<>>
      /\ req.symbol = Head(task.todo) /\ task.order \in Orders
      /\ signed[task.order] # None /\ task.begun <= now
  BY DEF AdapterInv, Waiting, TaskOK, Calls, Returns
<1>2. /\ Types /\ task \in Tasks /\ task.todo \in Seq(Symbols)
  BY TaskIs DEF AdapterInv, Types
<1>3. /\ UNCHANGED <<now, skew, offset, loaded, book, placed, signed>>
      /\ late' \subseteq late \cup Abandoned /\ SyncOnSkew(x)
  BY DEF Returns, find_order, venue
<1>4. /\ x.kind \in {"none", "body"} \cup Errors
      /\ "none" \notin Errors /\ "body" \notin Errors /\ None \notin Errors
  BY NoneIs DEF Returns, Errors
<1>5. \/ \E e \in Errors : Skip(e)
      \/ x.kind = "body" /\ x.code = ORDER_DOES_NOT_EXIST /\ Skip(None)
      \/ x.kind = "body" /\ x.code = 0 /\ req' = None /\ End("Found", FALSE)
      \/ /\ x.kind = "body" /\ x.code = 0
         /\ task' = [task EXCEPT !.op = "delete", !.todo = <<>>]
         /\ req' = Request("DELETE", task.order, req.symbol, TRUE)
         /\ told' = told
  <2>1. {"Transport", "Malformed"} \subseteq Errors
    BY DEF Errors
  <2> QED
    BY <1>4, <2>1 DEF find_order
<1>6. CASE \E e \in Errors : Skip(e)
  BY <1>3, <1>4, <1>6, SkipKeeps
<1>7. CASE x.kind = "body" /\ x.code = ORDER_DOES_NOT_EXIST /\ Skip(None)
  BY <1>3, <1>7, SkipKeeps
<1>8. CASE x.kind = "body" /\ x.code = 0 /\ req' = None /\ End("Found", FALSE)
  <2>1. PICK t : t = [order |-> task.order, outcome |-> "Found", guess |-> FALSE]
    OBVIOUS
  <2>2. task' = Idle /\ told' = told \cup {t}
    BY <1>8, <2>1 DEF End, Tell
  <2>3. placed[task.order] # <<>>
    BY <1>1, <1>8 DEF AdapterInv, Honest, Returns
  <2>4. t.order = task.order /\ t.outcome = "Found"
    BY <2>1
  <2>5. TrueOf(t)'
    BY <1>1, <1>3, <2>3, <2>4 DEF TrueOf
  <2>6. \A v \in told' : v \in told \/ TrueOf(v)'
    BY <2>2, <2>5
  <2>7. StartSync \/ UNCHANGED <<sync, shortest>>
    BY <1>3, SkewStarts
  <2> QED
    BY <1>3, <1>8, <2>2, <2>6, <2>7, LateIs, EndKeeps
<1>9. CASE /\ x.kind = "body" /\ x.code = 0
           /\ task' = [task EXCEPT !.op = "delete", !.todo = <<>>]
           /\ req' = Request("DELETE", task.order, req.symbol, TRUE)
           /\ told' = told
  <2>1. /\ task' \in Tasks /\ task'.op = "delete" /\ task'.order = task.order
        /\ task'.begun = task.begun
    <3>1. PICK em : em = <<>>
      OBVIOUS
    <3>2. em \in Seq(Symbols) /\ "delete" \in Ops
      BY <3>1 DEF Ops
    <3>3. task' = [task EXCEPT !.op = "delete", !.todo = em]
      BY <1>9, <3>1
    <3> QED
      BY <1>2, <3>2, <3>3 DEF Tasks
  <2>2. /\ req' \in Requests /\ req'.kind = "DELETE" /\ req'.order = task.order
        /\ req'.answer = None
    <3>1. PICK o \in Orders : o = task.order
      BY <1>1
    <3>2. PICK s \in Symbols : s = req.symbol
      BY <1>1, <1>2
    <3>3. PICK k \in {"POST", "DELETE", "GET", "time", "info"} : k = "DELETE"
      OBVIOUS
    <3>4. PICK b \in BOOLEAN : b = TRUE
      OBVIOUS
    <3>5. PICK r : r = Request(k, o, s, b)
      OBVIOUS
    <3>6. r \in Requests /\ r.kind = k /\ r.order = o /\ r.answer = None
      BY <1>2, <3>5, RequestFresh
    <3>7. req' = r
      BY <1>9, <3>1, <3>2, <3>3, <3>4, <3>5
    <3> QED
      BY <3>1, <3>3, <3>6, <3>7
  <2>3. UNCHANGED <<sync, shortest>> /\ sync' = None
    BY <1>3, <1>9 DEF SyncOnSkew, TIMESTAMP_SKEW
  <2>4. ClockOK'
    BY <1>3, <2>3, ClockRests
  <2>5. late' = late
    BY <1>9 DEF Returns
  <2>6. Types'
    BY <1>2, <1>3, <2>1, <2>2, <2>3, <2>5 DEF Types
  <2>7. Waiting' /\ TaskOK' /\ Asked'
    BY <1>1, <1>3, <2>1, <2>2, <2>3 DEF Waiting, TaskOK, Asked
  <2> QED
    BY <1>3, <1>9, <2>2, <2>4, <2>5, <2>6, <2>7, AfterKeeps
<1> QED
  BY <1>5, <1>6, <1>7, <1>8, <1>9
(* One reading more: the best is the shortest of them, and brackets what    *)
(* the venue read.                                                          *)
LEMMA sync_clockKeeps ==
  ASSUME AdapterInv, NEW x, NEW guess, Returns(x, guess), sync # None, sync_clock(x)
  PROVE  AdapterInv'
<1>1. /\ Types /\ req # None /\ req \in Requests /\ sync \in Syncs
      /\ now \in Nat /\ skew \in Int
      /\ shortest \in [trip: Int \cup {None}, steady: BOOLEAN]
  BY DEF AdapterInv, Types, Returns
<1>2. req.sent \in Int /\ sync.left \in Int /\ sync.best \in Samples \cup {None}
  BY <1>1, RequestIs DEF Syncs
<1>3. PICK s : s = [server |-> x.data, sent |-> req.sent, received |-> local_ms]
  OBVIOUS
<1>4. PICK read \in BOOLEAN : read = (x.kind = "body" /\ x.data # None)
  OBVIOUS
<1>5. /\ sync' = [left |-> sync.left - 1,
                  best |-> IF read THEN Shorter(sync.best, s) ELSE sync.best]
      /\ shortest' = IF read /\ (IF shortest.trip = None THEN TRUE ELSE Trip(s) < shortest.trip)
                     THEN [shortest EXCEPT !.trip = Trip(s)] ELSE shortest
      /\ req' = None /\ UNCHANGED <<task, told, offset, loaded>>
  BY <1>3, <1>4 DEF sync_clock
<1>6. ASSUME read
      PROVE  /\ s \in Samples /\ s # None /\ Trip(s) \in Int
             /\ shortest.steady => s.sent - skew <= s.server /\ s.server <= s.received - skew
  <2>1. /\ x.data \in Int /\ req.answer # None /\ req.answer.data = x.data /\ x.data # None
    BY <1>4, <1>6 DEF Returns
  <2>2. local_ms \in Int /\ local_ms - skew = now
    BY <1>1 DEF local_ms
  <2>3. s \in Samples /\ s.server = x.data /\ s.sent = req.sent /\ s.received = local_ms
    BY <1>2, <1>3, <2>1, <2>2 DEF Samples
  <2>4. shortest.steady => req.sent - skew <= x.data /\ x.data <= now
    BY <1>1, <2>1 DEF AdapterInv, ClockOK
  <2>5. Trip(s) \in Int
    BY <1>2, <2>2, <2>3 DEF Trip
  <2> QED
    BY <2>2, <2>3, <2>4, <2>5, NoneIs
<1>7. PICK best : best = IF read THEN Shorter(sync.best, s) ELSE sync.best
  OBVIOUS
<1>8. /\ sync.best = None <=> shortest.trip = None
      /\ sync.best # None =>
           /\ shortest.trip = Trip(sync.best)
           /\ shortest.steady => /\ sync.best.sent - skew <= sync.best.server
                                 /\ sync.best.server <= sync.best.received - skew
  BY DEF AdapterInv, ClockOK
<1>9. \/ best = sync.best /\ shortest' = shortest
      \/ read /\ best = s /\ shortest' = [shortest EXCEPT !.trip = Trip(s)]
  BY <1>5, <1>7, <1>8 DEF Shorter
<1>10. /\ best \in Samples \cup {None}
       /\ shortest' \in [trip: Int \cup {None}, steady: BOOLEAN]
       /\ shortest'.steady = shortest.steady
       /\ best = None <=> shortest'.trip = None
       /\ best # None =>
            /\ shortest'.trip = Trip(best)
            /\ shortest'.steady => /\ best.sent - skew <= best.server
                                   /\ best.server <= best.received - skew
  <2>1. CASE best = sync.best /\ shortest' = shortest
    BY <1>1, <1>2, <1>8, <2>1
  <2>2. CASE read /\ best = s /\ shortest' = [shortest EXCEPT !.trip = Trip(s)]
    <3>1. PICK tr : tr = Trip(s)
      OBVIOUS
    <3>2. /\ tr \in Int /\ shortest'.trip = tr /\ shortest'.steady = shortest.steady
          /\ shortest' \in [trip: Int \cup {None}, steady: BOOLEAN]
      BY <1>1, <1>6, <2>2, <3>1
    <3>3. tr # None
      BY <3>2, NoneIs
    <3> QED
      BY <1>6, <2>2, <3>1, <3>2, <3>3
  <2> QED
    BY <1>9, <2>1, <2>2
<1>11. sync' = [left |-> sync.left - 1, best |-> best]
  BY <1>5, <1>7
<1>12. sync' \in Syncs /\ sync'.best = best /\ sync' # None
  <2>1. sync' \in Syncs /\ sync'.best = best
    BY <1>2, <1>10, <1>11 DEF Syncs
  <2> QED
    BY <2>1, NoneIs
<1>13. /\ UNCHANGED <<now, skew, book, placed, signed>> /\ late' \subseteq late \cup Abandoned
  BY DEF Returns, venue
<1>14. /\ late' \subseteq Requests
       /\ \A r \in late' : r.kind \in {"POST", "DELETE"} /\ r.order \in Orders
  BY <1>13, LateIs
<1>15. Types'
  BY <1>1, <1>5, <1>10, <1>12, <1>13, <1>14 DEF Types
<1>16. Waiting' /\ TaskOK' /\ Asked'
  BY <1>5, <1>13 DEF AdapterInv, Waiting, TaskOK, Asked, Since, Loaded
<1>17. ClockOK'
  <2>1. req' = None /\ UNCHANGED skew
    BY <1>5, <1>13
  <2>2. /\ sync'.best = None <=> shortest'.trip = None
        /\ sync'.best # None =>
            /\ shortest'.trip = Trip(sync'.best)
            /\ shortest'.steady => /\ sync'.best.sent - skew <= sync'.best.server
                                   /\ sync'.best.server <= sync'.best.received - skew
    BY <1>10, <1>12
  <2> QED
    BY <1>12, <2>1, <2>2 DEF ClockOK, ClockWithinTrip, Trip
<1>18. \A t \in told' : t \in told
  BY <1>5
<1> QED
  BY <1>5, <1>13, <1>15, <1>16, <1>17, <1>18, AfterKeeps

(* A symbol is loaded, or the start fails.                                  *)
LEMMA load_symbolKeeps ==
  ASSUME AdapterInv, NEW x, NEW guess, Returns(x, guess),
         sync = None, task.op = "load", load_symbol(x)
  PROVE  AdapterInv'
<1>1. /\ Types /\ task \in Tasks /\ task.todo \in Seq(Symbols) /\ loaded \in Seq(Symbols)
      /\ now \in Nat /\ task.begun <= now
      /\ req # None /\ task.todo # <<>> /\ req.symbol \in Symbols
  BY TaskIs DEF AdapterInv, Types, Waiting, TaskOK, Returns
<1>2. /\ UNCHANGED <<now, skew, offset, book, placed, signed, sync, shortest>>
      /\ late' \subseteq late \cup Abandoned /\ req' = None /\ told' = told
  BY DEF Returns, load_symbol, venue
<1>3. loaded' \in Seq(Symbols)
  <2>1. PICK s \in Symbols : s = req.symbol
    BY <1>1
  <2>2. Append(loaded, s) \in Seq(Symbols)
    BY <1>1
  <2>3. loaded' = Append(loaded, s) \/ loaded' = loaded
    BY <2>1 DEF load_symbol
  <2> QED
    BY <1>1, <2>2, <2>3
<1>4. task' \in Tasks /\ task'.op \in {"idle", "down", "load"} /\ task'.begun <= now
  <2>1. PICK tl : tl = Tail(task.todo)
    OBVIOUS
  <2>2. tl \in Seq(Symbols)
    BY <1>1, <2>1
  <2>3. task' \in {Idle, Down, [task EXCEPT !.todo = tl]}
    BY <2>1 DEF load_symbol
  <2>4. Idle \in Tasks /\ Idle.op = "idle" /\ Idle.begun = 0
    BY DEF Idle, Tasks, Ops
  <2>5. PICK n : n = [task EXCEPT !.todo = tl]
    OBVIOUS
  <2>6. n \in Tasks /\ n.op = "load" /\ n.begun = task.begun
    BY <1>1, <2>2, <2>5 DEF Tasks
  <2>7. CASE task' = n
    BY <1>1, <2>6, <2>7
  <2>8. CASE task' = Idle
    BY <1>1, <2>4, <2>8
  <2>9. CASE task' = Down
    BY <1>1, DownIs, <2>9
  <2> QED
    BY <2>3, <2>5, <2>7, <2>8, <2>9
<1>5. ClockOK'
  BY <1>2, ClockRests
<1>6. /\ late' \subseteq Requests
      /\ \A r \in late' : r.kind \in {"POST", "DELETE"} /\ r.order \in Orders
  BY <1>2, LateIs
<1>7. Types'
  BY <1>1, <1>2, <1>3, <1>4, <1>6 DEF Types
<1>8. Waiting' /\ TaskOK' /\ Asked'
  BY <1>2, <1>4 DEF Waiting, TaskOK, Asked, Calls
<1>9. \A t \in told' : t \in told
  BY <1>2
<1> QED
  BY <1>2, <1>5, <1>7, <1>8, <1>9, AfterKeeps

(* Whatever call is being made, its handler keeps the invariant.            *)
LEMMA ContinueKeeps ==
  ASSUME AdapterInv, NEW x, NEW guess \in BOOLEAN, Returns(x, guess), Continue(x, guess)
  PROVE  AdapterInv'
<1>1. \/ sync # None /\ sync_clock(x)
      \/ sync = None /\ task.op = "submit" /\ submit(x, guess)
      \/ sync = None /\ task.op \in {"cancel", "lookup"} /\ find_order(x)
      \/ sync = None /\ task.op = "delete" /\ cancel(x, guess)
      \/ sync = None /\ task.op = "load" /\ load_symbol(x)
  <2>1. sync = None => task.op \in {"submit", "cancel", "lookup", "delete", "load"}
    BY DEF AdapterInv, Waiting, Returns
  <2> QED
    BY <2>1 DEF Continue
<1> QED
  BY <1>1, sync_clockKeeps, submitKeeps, find_orderKeeps, cancelKeeps, load_symbolKeeps
(* A refused request is repeated only where the refusal says that nothing   *)
(* was done, so the copy is still the only one.                             *)
LEMMA RepeatKeeps ==
  ASSUME AdapterInv, req # None, req.answer # None, Repeats(req), req' = RepeatOf(req),
         UNCHANGED <<offset, loaded, task, sync, told, shortest>>,
         UNCHANGED <<now, skew, late, venue, signed>>
  PROVE  AdapterInv'
<1>1. /\ Types /\ now \in Nat /\ skew \in Int /\ req \in Requests
      /\ UNCHANGED <<book, placed>>
  BY DEF AdapterInv, Types, venue
<1>2. /\ req' \in Requests /\ req'.answer = None /\ req'.kind = req.kind
      /\ req'.order = req.order /\ req'.symbol = req.symbol /\ req'.sent = req.sent
      /\ req'.stamp = req.stamp /\ req'.signed = req.signed
  <2>1. PICK d : d = now + REQUEST_TIMEOUT
    OBVIOUS
  <2>2. d \in Int
    BY <1>1, <2>1, AdapterAssumption
  <2>3. req' = [req EXCEPT !.again = TRUE, !.deadline = d, !.answer = None]
    BY <2>1 DEF RepeatOf
  <2> QED
    BY <1>1, <2>2, <2>3 DEF Requests
<1>3. req.kind = "POST" => placed[req.order] = <<>>
  BY DEF AdapterInv, Honest, Repeats
<1>4. OneCopy' /\ \A t \in told : TrueOf(t)'
  <2>1. now' \in Nat /\ now <= now' /\ late' \subseteq late /\ UNCHANGED <<book, placed, signed>>
    BY <1>1
  <2>2. req' # None /\ req'.kind = "POST" =>
           /\ req # None /\ req.kind = "POST" /\ req'.order = req.order
           /\ req'.stamp = req.stamp /\ req'.signed = req.signed
           /\ (req'.answer = None /\ req.answer # None => placed[req.order] = <<>>)
    BY <1>2, <1>3
  <2> QED
    BY <2>1, <2>2, StillKeeps
<1>5. Types'
  BY <1>1, <1>2 DEF Types
<1>6. Waiting' /\ TaskOK' /\ Asked' /\ ToldOK' /\ Honest'
  BY <1>1, <1>2, <1>4 DEF AdapterInv, Waiting, TaskOK, Asked, Since, Loaded, ToldOK, Honest
<1>7. ClockOK'
  BY <1>2 DEF AdapterInv, ClockOK, ClockWithinTrip, Trip
<1> QED
  BY <1>4, <1>5, <1>6, <1>7 DEF AdapterInv

(* The adapter reads an answer.                                             *)
LEMMA ReceiveKeeps ==
  ASSUME AdapterInv, Receive
  PROVE  AdapterInv'
<1>1. /\ req # None /\ req.answer # None /\ req \in Requests
      /\ UNCHANGED <<now, skew, late, venue, signed>>
  BY DEF AdapterInv, Types, Receive
<1>2. CASE Repeats(req)
  BY <1>1, <1>2, RepeatKeeps DEF Receive
<1>3. CASE ~Repeats(req)
  <2>1. PICK x : x = Returned(req)
    OBVIOUS
  <2>2. Continue(x, req.answer.status >= 500)
    BY <1>3, <2>1 DEF Receive
  <2>3. /\ req.answer \in Replies /\ req.again \in BOOLEAN
    BY <1>1, RequestIs
  <2>4. /\ req.answer.status \in Nat /\ req.answer.code \in Int
        /\ req.answer.text \in {"whole", "cut", "garbled"}
        /\ req.answer.data \in Int \cup {None}
    BY <2>3 DEF Replies
  <2>5. \/ x = Body(req.answer.code, req.answer.data) /\ req.answer.text = "whole"
        \/ x = Failure("Transport") \/ x = Failure("Malformed")
        \/ x = Failure("RateLimited") \/ x = Failure("Unauthorized")
        \/ x = NoAnswer
    BY <2>1, <2>3, <2>4 DEF Returned, read_json
  <2>6. ASSUME NEW guess \in BOOLEAN, ~guess => req.answer.status < 500
        PROVE  Returns(x, guess)
    <3>1. /\ x.kind \in {"none", "body"} \cup Errors /\ x.code \in Int
          /\ x.data \in Int \cup {None}
          /\ x.kind = "body" => /\ req.answer.text = "whole"
                                /\ x.code = req.answer.code /\ x.data = req.answer.data
      <4>1. CASE x = Body(req.answer.code, req.answer.data) /\ req.answer.text = "whole"
        BY <2>4, <4>1 DEF Body
      <4>2. CASE \/ x = Failure("Transport") \/ x = Failure("Malformed")
                 \/ x = Failure("RateLimited") \/ x = Failure("Unauthorized")
        BY <4>2 DEF Failure, Errors
      <4>3. CASE x = NoAnswer
        BY <4>3 DEF NoAnswer
      <4> QED
        BY <2>5, <4>1, <4>2, <4>3
    <3> QED
      BY <1>1, <2>6, <3>1 DEF Returns
  <2>7. CASE req.answer.status >= 500
    <3>1. (req.answer.status >= 500) = TRUE
      BY <2>4, <2>7
    <3>2. Continue(x, TRUE)
      BY <2>2, <3>1
    <3> QED
      BY <2>6, <3>2, ContinueKeeps
  <2>8. CASE req.answer.status < 500
    <3>1. (req.answer.status >= 500) = FALSE
      BY <2>4, <2>8
    <3>2. Continue(x, FALSE)
      BY <2>2, <3>1
    <3> QED
      BY <2>6, <2>8, <3>2, ContinueKeeps
  <2> QED
    BY <2>4, <2>7, <2>8
<1> QED
  BY <1>2, <1>3

(* The adapter gives up on a request.                                       *)
LEMMA UnansweredKeeps ==
  ASSUME AdapterInv, Unanswered
  PROVE  AdapterInv'
<1>1. PICK x : x = NoAnswer
  OBVIOUS
<1>2. x.kind = "none" /\ x.code = 0 /\ x.data = None
  BY <1>1 DEF NoAnswer
<1>3. Returns(x, FALSE)
  BY <1>2 DEF Returns, Unanswered
<1>4. Continue(x, FALSE)
  BY <1>1 DEF Unanswered
<1> QED
  BY <1>3, <1>4, ContinueKeeps
-----------------------------------------------------------------------------
(* A restart gives up the request that is out and starts a sync.            *)
LEMMA RestartKeeps ==
  ASSUME AdapterInv, NEW config \in Configs, Restart(config)
  PROVE  AdapterInv'
<1>1. /\ Types /\ now \in Nat /\ skew \in Int
      /\ late' = late \cup Abandoned /\ offset' = 0 /\ loaded' = <<>> /\ req' = None
      /\ task' = Task("connect", None, config) /\ StartSync
      /\ UNCHANGED <<now, skew, book, placed, signed, told>>
  BY DEF AdapterInv, Types, Restart, venue
<1>2. config \in Seq(Symbols)
  BY AdapterAssumption DEF Symbols
<1>3. task' \in Tasks /\ task'.op = "connect" /\ task'.begun = 0
  BY <1>1, <1>2 DEF Task, Tasks, Ops
<1>4. /\ sync' = [left |-> SAMPLES, best |-> None] /\ sync' \in Syncs
      /\ shortest' = [trip |-> None, steady |-> TRUE]
  BY <1>1, AdapterAssumption DEF StartSync, Syncs
<1>5. sync' # None /\ sync'.best = None /\ shortest'.trip = None
  BY <1>4, NoneIs
<1>6. /\ late' \subseteq Requests
      /\ \A r \in late' : r.kind \in {"POST", "DELETE"} /\ r.order \in Orders
  BY <1>1, LateIs
<1>7. Types'
  BY <1>1, <1>3, <1>4, <1>6 DEF Types
<1>8. Waiting' /\ TaskOK' /\ Asked' /\ ClockOK'
  BY <1>1, <1>3, <1>5 DEF Waiting, TaskOK, Asked, Calls, ClockOK, ClockWithinTrip
<1>9. \A t \in told' : t \in told
  BY <1>1
<1> QED
  BY <1>1, <1>7, <1>8, <1>9, AfterKeeps

(* The invariant holds at the start.                                        *)
LEMMA InitIs == Init => AdapterInv
<1> SUFFICES ASSUME Init PROVE AdapterInv
  OBVIOUS
<1>1. PICK config \in Configs : task = [Idle EXCEPT !.op = "connect", !.todo = config]
  BY DEF Init
<1>2. config \in Seq(Symbols)
  BY AdapterAssumption DEF Symbols
<1>3. task = [op |-> "connect", order |-> None, todo |-> config, error |-> None, begun |-> 0]
  BY <1>1 DEF Idle
<1>4. task \in Tasks /\ task.op = "connect" /\ task.begun = 0
  BY <1>2, <1>3 DEF Tasks, Ops
<1>5. sync = [left |-> SAMPLES, best |-> None] /\ sync \in Syncs
  BY AdapterAssumption DEF Init, Syncs
<1>6. sync # None /\ sync.best = None /\ req = None /\ now = 0
  BY <1>5, NoneIs DEF Init
<1>7. shortest \in [trip: Int \cup {None}, steady: BOOLEAN] /\ shortest.trip = None
  BY DEF Init
<1>8. Types
  BY <1>4, <1>5, <1>7, AdapterAssumption DEF Init, Types
<1>9. Waiting /\ TaskOK /\ Asked /\ Honest /\ ToldOK /\ ClockOK
  BY <1>4, <1>6, <1>7 DEF Init, Waiting, TaskOK, Calls, Asked, Honest, ToldOK, ClockOK,
                          ClockWithinTrip
<1>10. OneCopy
  BY <1>6 DEF Init, OneCopy, Awaits, Stray
<1> QED
  BY <1>8, <1>9, <1>10 DEF AdapterInv

(* Every step keeps the invariant.                                          *)
LEMMA NextKeeps ==
  ASSUME AdapterInv, [Next]_vars
  PROVE  AdapterInv'
<1>1. CASE Next
  BY <1>1, SubmitKeeps, FindForKeeps, SendsKeep, FindEndsKeeps, SyncEndsKeeps, ReachKeeps,
     ReachLateKeeps, ReceiveKeeps, UnansweredKeeps, ExecutesKeeps, RestartKeeps, TickKeeps,
     StepClockKeeps DEF Next, Cancel, Lookup
<1>2. CASE UNCHANGED vars
  <2>1. now \in Nat /\ now <= now
    BY DEF AdapterInv, Types
  <2>2. ClockOK'
    BY <1>2 DEF AdapterInv, ClockOK, ClockWithinTrip, Trip, vars, adapter
  <2>3. shortest' \in [trip: Int \cup {None}, steady: BOOLEAN] /\ skew' \in Int
    BY <1>2 DEF AdapterInv, Types, vars
  <2> QED
    BY <1>2, <2>1, <2>2, <2>3, IdleKeeps DEF vars, adapter, venue
<1> QED
  BY <1>1, <1>2

(* So it holds always.                                                      *)
LEMMA AdapterIsSound == Spec => []AdapterInv
<1>1. AdapterInv /\ [Next]_vars => AdapterInv'
  BY NextKeeps
<1> QED
  BY InitIs, <1>1, PTL DEF Spec
(* The venue takes a client order id at most once, whatever is repeated,    *)
(* delayed or given up on, and across restarts.                             *)
THEOREM OrdersArePlacedOnce == Spec => []PlacedOnce
<1>1. AdapterInv => PlacedOnce
  BY DEF AdapterInv, OneCopy, PlacedOnce
<1> QED
  BY AdapterIsSound, <1>1, PTL

(* What the engine is told of an order is true when it is told, and stays   *)
(* true.                                                                    *)
THEOREM EngineIsToldTheTruth == Spec => []OutcomesAreTrue
<1>1. AdapterInv => OutcomesAreTrue
  BY DEF AdapterInv, ToldOK, TrueOf, Over, Since, OutcomesAreTrue
<1> QED
  BY AdapterIsSound, <1>1, PTL

(* An absence the engine was told of after the receive window of the        *)
(* order's own request had closed is final.                                 *)
THEOREM AbsenceIsFinal == Spec => []AbsentIsFinal
<1>1. ASSUME AdapterInv, NEW t \in told, t.outcome = "Absent", t.listed, t.sure
      PROVE  placed[t.order] = <<>>
  <2>1. /\ t.order \in Orders /\ t.begun \in Nat /\ signed[t.order] # None
        /\ Since(t.order, t.begun) /\ t.begun > signed[t.order] + RECV_WINDOW
    BY <1>1 DEF AdapterInv, ToldOK, TrueOf
  <2>2. PICK o \in Orders : o = t.order
    BY <2>1
  <2>3. signed[o] \in Nat /\ placed[o] \in Seq(Nat)
    BY <1>1, <2>1, <2>2 DEF AdapterInv, Types
  <2>4. placed[o] # <<>> => placed[o][1] <= signed[o] + RECV_WINDOW
    BY <1>1 DEF AdapterInv, OneCopy
  <2>5. placed[o] # <<>> => placed[o][1] >= t.begun
    BY <2>1, <2>2 DEF Since
  <2>6. placed[o] # <<>> => placed[o][1] \in Nat
    BY <2>3
  <2> QED
    BY <2>1, <2>2, <2>3, <2>4, <2>5, <2>6, AdapterAssumption
<1>2. AdapterInv => AbsentIsFinal
  BY <1>1 DEF AbsentIsFinal
<1> QED
  BY AdapterIsSound, <1>2, PTL

(* Until the local clock is stepped, the estimate of the venue's clock is   *)
(* off by at most half the shortest trip of the last sync.                  *)
THEOREM ClockStaysWithinTrip == Spec => []ClockWithinTrip
<1>1. AdapterInv => ClockWithinTrip
  BY DEF AdapterInv, ClockOK
<1> QED
  BY AdapterIsSound, <1>1, PTL
=============================================================================
