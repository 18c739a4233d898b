------------------------------- MODULE Stream -------------------------------
(* The thread that reads Binance's user stream: open a listen key, connect, *)
(* read frames into a channel, reconnect after any failure.  What the venue *)
(* pushes while nobody is connected is missed.                              *)
EXTENDS Integers, Sequences

CONSTANTS
  Kinds,                  \* the frames the venue may push
  RECONNECT_BACKOFF, RECONNECT_BACKOFF_CAP,
  MaxFrames,              \* bound: frames the venue pushes
  Readable,               \* how many balances of an account update can be read
  MaxDrops                \* bound: failed opens, reads and keepalives

ASSUME ReadableAssumption == Readable \subseteq Nat

VARIABLES
  reader,    \* "open", "reading", "backoff" or "ended"
  backoff,
  socket,    \* frames on the connection, not yet read
  events,    \* the channel to the adapter
  pushed,    \* history: the frames pushed on a connection
  serial,    \* frames the venue has pushed or would have
  conn,      \* connections made
  drops

streamVars == <<reader, backoff, socket, events, pushed, serial, conn, drops>>

(* A frame: its kind, its place in what the venue pushed, the connection it *)
(* came on, for a trade the venue's trade and order ids, and for an account *)
(* update how many of its balances can be read.                             *)
Frame(kind, n) ==
  [kind |-> kind, trade |-> serial + 1, order |-> 1, balances |-> n,
   serial |-> serial + 1, conn |-> conn]

(* What the frame f carries, event by event: place is the event's place in  *)
(* its frame.                                                               *)
Carried(kind, id, f, n) ==
  [p \in 1..n |-> [kind |-> kind, exec |-> id, place |-> p, serial |-> f.serial, conn |-> f.conn]]

(* Mutant: a trade is known by the id of its order.                         *)
decode_by_order(f) ==
  CASE f.kind = "TRADE" -> Carried("Fill", f.order, f, 1)
    [] f.kind \in {"CANCELED", "EXPIRED"} -> Carried("CancelConfirmed", 0, f, 1)
    [] f.kind = "ACCOUNT_UPDATE" -> Carried("Balance", 0, f, f.balances)
    [] f.kind = "markPriceUpdate" -> Carried("Mark", 0, f, 1)
    [] OTHER -> <<>>

(* A trade without an id of its own cannot be deduplicated and is dropped,  *)
(* and so is whatever is not understood.  An account update yields an event *)
(* for each balance in it that can be read.                                 *)
decode_frame(f) ==
  CASE f.kind = "TRADE" -> Carried("Fill", f.trade, f, 1)
    [] f.kind \in {"CANCELED", "EXPIRED"} -> Carried("CancelConfirmed", 0, f, 1)
    [] f.kind = "ACCOUNT_UPDATE" -> Carried("Balance", 0, f, f.balances)
    [] f.kind = "markPriceUpdate" -> Carried("Mark", 0, f, 1)
    [] OTHER -> <<>>

StreamInit ==
  /\ reader = "open" /\ backoff = RECONNECT_BACKOFF
  /\ socket = <<>> /\ events = <<>> /\ pushed = <<>>
  /\ serial = 0 /\ conn = 0 /\ drops = 0

(* run(): back off after whatever went wrong.                               *)
Reconnect == reader' = "backoff" /\ socket' = <<>>

Wake ==
  /\ reader = "backoff"
  /\ reader' = "open"
  /\ backoff' = IF 2 * backoff < RECONNECT_BACKOFF_CAP THEN 2 * backoff ELSE RECONNECT_BACKOFF_CAP
  /\ UNCHANGED <<socket, events, pushed, serial, conn, drops>>

(* wanted: the adapter still holds the stream's handle and its receiver.    *)
Ends(wanted) ==
  /\ ~wanted
  /\ \/ reader = "open"
     \/ reader = "reading"
  /\ reader' = "ended" /\ socket' = <<>>
  /\ UNCHANGED <<backoff, events, pushed, serial, conn, drops>>

Dropped == drops < MaxDrops /\ drops' = drops + 1

OpenKey(wanted) ==
  /\ reader = "open" /\ wanted
  /\ \/ reader' = "reading" /\ conn' = conn + 1 /\ UNCHANGED <<socket, drops>>
     \/ Dropped /\ Reconnect /\ UNCHANGED conn
  /\ UNCHANGED <<backoff, events, pushed, serial>>

(* The connection, a pong or the half-hourly keepalive fails.               *)
Breaks ==
  /\ reader = "reading"
  /\ Dropped /\ Reconnect
  /\ UNCHANGED <<backoff, events, pushed, serial, conn>>

Push(kind, n) ==
  /\ serial < MaxFrames
  /\ serial' = serial + 1
  /\ IF reader = "reading"
     THEN socket' = Append(socket, Frame(kind, n)) /\ pushed' = Append(pushed, Frame(kind, n))
     ELSE UNCHANGED <<socket, pushed>>
  /\ UNCHANGED <<reader, backoff, events, conn, drops>>

ReadFrame(wanted) ==
  /\ reader = "reading" /\ wanted
  /\ socket # <<>>
  /\ IF Head(socket).kind \in {"listenKeyExpired", "Close"}
     THEN Reconnect /\ UNCHANGED events
     ELSE /\ socket' = Tail(socket)
          /\ events' = events \o decode_frame(Head(socket))
          /\ UNCHANGED reader
  /\ UNCHANGED <<backoff, pushed, serial, conn, drops>>

StreamNext(wanted) ==
  \/ OpenKey(wanted) \/ Wake \/ Breaks \/ ReadFrame(wanted) \/ Ends(wanted)
  \/ \E kind \in Kinds :
       \E n \in IF kind = "ACCOUNT_UPDATE" THEN Readable ELSE {0} : Push(kind, n)
=============================================================================
