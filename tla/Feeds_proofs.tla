---------------------------- MODULE Feeds_proofs ----------------------------
(***************************************************************************)
(* What the engine applies is what was said, in the order it was said, and *)
(* the drain keeps what was accepted before the stop: for any lines and    *)
(* frames and any number of reconnects and errors.                         *)
(***************************************************************************)
EXTENDS Feeds, TLAPS

Frames == [kind: Kinds, trade: Nat, order: {1}, balances: Nat, serial: Nat, conn: Nat]

EventKinds == {"Fill", "CancelConfirmed", "Balance", "Mark"}

Events == [kind: EventKinds, exec: Nat, place: Nat, serial: Nat, conn: Nat]

Cmds == [from: {"control"}, what: Nat] \cup [from: {"stream"}, what: Events]

Types ==
  /\ socket \in Seq(Frames) /\ pushed \in Seq(Frames) /\ events \in Seq(Events)
  /\ serial \in Nat /\ conn \in Nat
  /\ line \in Nat /\ answers \in Seq(BOOLEAN) /\ Len(answers) = line
  /\ commands \in Seq(Cmds) /\ applied \in Seq(Cmds)
  /\ writer \in {"wait", "flush", "drain", "last flush", "ended"}
  /\ durable \in Nat /\ running \in BOOLEAN /\ fatal \in Nat
  /\ inTime \subseteq Nat /\ undrained \in BOOLEAN

(* Everything that was ever put in the channel and is not lost: what the    *)
(* writer has applied, then what it will find.                              *)
Feed == applied \o commands

(* The commands s are what was said, in the order it was said.              *)
SaidInOrder(s) ==
  /\ \A n \in From(s, "control") : s[n].what \in 1..line /\ answers[s[n].what]
  /\ \A m, n \in From(s, "control") : m < n => s[m].what < s[n].what

Rising(s) == \A m, n \in DOMAIN s : m < n => s[m].serial < s[n].serial

(* The events s are in the order they were said.                            *)
Ordered(s) == \A m, n \in DOMAIN s : m < n => Precedes(s[m], s[n])

(* The event e is carried by a frame that was pushed; an execution is all   *)
(* its frame carries.                                                       *)
Came(e) ==
  /\ e.kind = "Fill" => e.exec = e.serial /\ e.place = 1
  /\ \E i \in DOMAIN pushed : /\ pushed[i].serial = e.serial /\ pushed[i].conn = e.conn
                              /\ Decoded(pushed[i])

ReadInOrder(s) ==
  /\ \A n \in From(s, "stream") : Came(s[n].what)
  /\ \A m, n \in From(s, "stream") : m < n => Precedes(s[m].what, s[n].what)

(* The stream's frames on their way, each place behind the one it feeds.    *)
OnTheWay(s) ==
  /\ Rising(pushed) /\ \A i \in DOMAIN pushed : pushed[i].serial <= serial /\ pushed[i].conn <= conn
  /\ Ordered(events) /\ \A n \in DOMAIN events : Came(events[n])
  /\ Rising(socket)
  /\ \A n \in DOMAIN socket :
       /\ socket[n].trade = socket[n].serial
       /\ \E i \in DOMAIN pushed : pushed[i] = socket[n]
  /\ \A n \in From(s, "stream"), m \in DOMAIN events : s[n].what.serial < events[m].serial
  /\ \A n \in From(s, "stream"), m \in DOMAIN socket : s[n].what.serial < socket[m].serial
  /\ \A n \in DOMAIN events, m \in DOMAIN socket : events[n].serial < socket[m].serial

InEvents(f) == \E n \in DOMAIN events : events[n].serial = f.serial
InSocket(f) == \E n \in DOMAIN socket : socket[n].serial = f.serial
Kept(s, f)  == Fed(s, f) \/ InEvents(f) \/ InSocket(f)

(* The frame before: of the same connection, and one that is decoded.       *)
Before(i, j) == i < j /\ pushed[i].conn = pushed[j].conn /\ Decoded(pushed[i])

(* While the writer listens no frame is lost before one that is kept, and   *)
(* none of a connection that is still read; what it was fed has no gap.     *)
NoGap(s) ==
  /\ \A i, j \in DOMAIN pushed : Before(i, j) /\ Fed(s, pushed[j]) => Fed(s, pushed[i])
  /\ writer # "ended" =>
       /\ \A i, j \in DOMAIN pushed : Before(i, j) /\ Kept(s, pushed[j]) => Kept(s, pushed[i])
       /\ reader = "reading" =>
            \A i \in DOMAIN pushed :
              pushed[i].conn = conn /\ Decoded(pushed[i]) => Kept(s, pushed[i])

Taken(s, k) == \E n \in DOMAIN s : s[n] = FromControl(k)

(* The writer has drained.                                                  *)
PastDrain == writer = "last flush" \/ (writer = "ended" /\ ~undrained)

(* What was accepted before the stop is in the channel until it is applied, *)
(* and flushed before the writer ends, unless it leaves undrained.  The     *)
(* worker outlives neither the flag nor the writer.                         *)
Stopping ==
  /\ writer \in {"drain", "last flush"} => ~running
  /\ undrained => writer = "ended"
  /\ fatal = 0 =>
       /\ worker = "ended" => ~running
       /\ writer = "ended" => ~running /\ durable = Len(applied)
       /\ \A k \in inTime : Taken(Feed, k)
       /\ PastDrain => \A k \in inTime : Taken(applied, k)

FeedsInv ==
  Types /\ SaidInOrder(Feed) /\ ReadInOrder(Feed) /\ OnTheWay(Feed) /\ NoGap(Feed) /\ Stopping
-----------------------------------------------------------------------------
(* Concatenation, element by element.                                       *)
LEMMA ConcatIs ==
  ASSUME NEW S, NEW s \in Seq(S), NEW t \in Seq(S)
  PROVE  /\ s \o t \in Seq(S) /\ Len(s \o t) = Len(s) + Len(t)
         /\ DOMAIN (s \o t) = 1..(Len(s) + Len(t))
         /\ \A n \in 1..Len(s) : (s \o t)[n] = s[n]
         /\ \A n \in (Len(s) + 1)..(Len(s) + Len(t)) : (s \o t)[n] = t[n - Len(s)]
  OBVIOUS

(* A command is either a line's or an event's.                              *)
LEMMA CmdIs ==
  ASSUME NEW c \in Cmds
  PROVE  /\ c.from = "control" => c.what \in Nat
         /\ c.from = "stream" => c.what \in Events /\ c.what.serial \in Nat
         /\ c.from \in {"control", "stream"}
  BY DEF Cmds, Events

(* The frames and the events are numbered by the venue's serials.           *)
LEMMA StreamIs ==
  ASSUME Types
  PROVE  /\ DOMAIN pushed = 1..Len(pushed) /\ DOMAIN events = 1..Len(events)
         /\ DOMAIN socket = 1..Len(socket)
         /\ \A i \in DOMAIN pushed : /\ pushed[i] \in Frames
                                    /\ pushed[i].serial \in Nat /\ pushed[i].conn \in Nat
         /\ \A n \in DOMAIN events : events[n] \in Events /\ events[n].serial \in Nat
         /\ \A n \in DOMAIN socket : socket[n] \in Frames /\ socket[n].serial \in Nat
<1>1. pushed \in Seq(Frames) /\ events \in Seq(Events) /\ socket \in Seq(Frames)
  BY DEF Types
<1>2. \A f \in Frames : f.serial \in Nat /\ f.conn \in Nat
  BY DEF Frames
<1>3. \A e \in Events : e.serial \in Nat
  BY DEF Events
<1>4. /\ DOMAIN pushed = 1..Len(pushed) /\ DOMAIN events = 1..Len(events)
      /\ DOMAIN socket = 1..Len(socket)
      /\ \A i \in DOMAIN pushed : pushed[i] \in Frames
      /\ \A n \in DOMAIN events : events[n] \in Events
      /\ \A n \in DOMAIN socket : socket[n] \in Frames
  BY <1>1
<1> QED
  BY <1>2, <1>3, <1>4

(* What the writer has applied is the first part of the feed.               *)
LEMMA FeedIs ==
  ASSUME Types
  PROVE  /\ Feed \in Seq(Cmds) /\ DOMAIN Feed = 1..(Len(applied) + Len(commands))
         /\ Len(applied) \in Nat /\ Len(commands) \in Nat
         /\ DOMAIN applied = 1..Len(applied)
         /\ \A n \in DOMAIN applied : n \in DOMAIN Feed /\ applied[n] = Feed[n]
<1>1. applied \in Seq(Cmds) /\ commands \in Seq(Cmds)
  BY DEF Types
<1>2. Len(applied) \in Nat /\ Len(commands) \in Nat /\ DOMAIN applied = 1..Len(applied)
  BY <1>1
<1>3. /\ Feed \in Seq(Cmds) /\ DOMAIN Feed = 1..(Len(applied) + Len(commands))
      /\ \A n \in 1..Len(applied) : Feed[n] = applied[n]
  BY <1>1, ConcatIs DEF Feed
<1> QED
  BY <1>2, <1>3

(* A step of the writer or of main that leaves the feed as it is.           *)
LEMMA SameFeed ==
  ASSUME FeedsInv, UNCHANGED <<streamVars, line, answers>>, Feed' = Feed,
         writer' # "ended" => writer # "ended"
  PROVE  SaidInOrder(Feed)' /\ ReadInOrder(Feed)' /\ OnTheWay(Feed)' /\ NoGap(Feed)'
<1>1. PICK q : q = Feed
  OBVIOUS
<1>2. Feed' = q
  BY <1>1
<1>3. SaidInOrder(q) /\ ReadInOrder(q) /\ OnTheWay(q) /\ NoGap(q)
  BY <1>1 DEF FeedsInv
<1>4. SaidInOrder(q)'
  BY <1>3 DEF SaidInOrder, From
<1>5. ReadInOrder(q)'
  BY <1>3 DEF ReadInOrder, Came, From, streamVars
<1>6. OnTheWay(q)'
  BY <1>3 DEF OnTheWay, Came, From, Rising, Ordered, streamVars
<1>7. NoGap(q)'
  BY <1>3 DEF NoGap, Kept, Fed, InEvents, InSocket, Before, From, streamVars
<1> QED
  BY <1>2, <1>4, <1>5, <1>6, <1>7

(* A fatal error: the writer ends with the feed cut short.                  *)
LEMMA CutFeed ==
  ASSUME FeedsInv, UNCHANGED <<streamVars, line, answers>>, writer' = "ended",
         NEW k \in Nat, k <= Len(Feed), Feed' = SubSeq(Feed, 1, k)
  PROVE  SaidInOrder(Feed)' /\ ReadInOrder(Feed)' /\ OnTheWay(Feed)' /\ NoGap(Feed)'
<1>1. PICK q \in Seq(Cmds) : q = Feed
  BY FeedIs DEF FeedsInv
<1>2. PICK r : r = SubSeq(q, 1, k)
  OBVIOUS
<1>3. r = Feed'
  BY <1>1, <1>2
<1>4. SaidInOrder(q) /\ ReadInOrder(q) /\ OnTheWay(q) /\ NoGap(q)
  BY <1>1 DEF FeedsInv
<1>5. /\ DOMAIN r = 1..k /\ DOMAIN q = 1..Len(q) /\ k <= Len(q) /\ Len(q) \in Nat
      /\ \A n \in 1..k : r[n] = q[n]
  BY <1>1, <1>2
<1>6. \A src : \A n \in From(r, src) : n \in From(q, src) /\ r[n] = q[n] /\ n \in 1..k
  BY <1>5 DEF From
<1>7. SaidInOrder(r)'
  BY <1>4, <1>6 DEF SaidInOrder, From
<1>8. ReadInOrder(r)'
  <2>1. \A e : Came(e)' <=> Came(e)
    BY DEF Came, streamVars
  <2>2. \A n \in From(r, "stream") : n \in From(q, "stream") /\ r[n] = q[n]
    BY <1>6
  <2>3. ReadInOrder(r)
    BY <1>4, <2>2 DEF ReadInOrder
  <2> QED
    BY <2>1, <2>3 DEF ReadInOrder, From
<1>9. OnTheWay(r)'
  BY <1>4, <1>6 DEF OnTheWay, Came, From, Rising, Ordered, streamVars
<1>10. NoGap(r)'
  <2> SUFFICES ASSUME NEW i \in DOMAIN pushed, NEW j \in DOMAIN pushed, Before(i, j),
                      Fed(r, pushed[j])
               PROVE  Fed(r, pushed[i])
    BY DEF NoGap, Before, Fed, From, streamVars
  <2>1. PICK n \in From(r, "stream") : r[n].what.serial = pushed[j].serial
    BY DEF Fed
  <2>2. Fed(q, pushed[j])
    BY <1>6, <2>1 DEF Fed
  <2>3. PICK m \in From(q, "stream") : q[m].what.serial = pushed[i].serial
    BY <1>4, <2>2 DEF NoGap, Fed
  <2>4. pushed[i].serial < pushed[j].serial
    BY <1>4 DEF OnTheWay, Rising, Before
  <2>5. m <= n
    <3>1. ASSUME n < m PROVE FALSE
      <4>1. n \in From(q, "stream") /\ q[n].what.serial = pushed[j].serial
        BY <1>6, <2>1
      <4>2. ~(q[m].what.serial < q[n].what.serial)
        <5>1. Precedes(q[n].what, q[m].what)
          BY <1>4, <2>3, <3>1, <4>1 DEF ReadInOrder
        <5>2. pushed[i].serial \in Nat /\ pushed[j].serial \in Nat
          BY StreamIs DEF FeedsInv
        <5> QED
          BY <2>3, <4>1, <5>1, <5>2 DEF Precedes
      <4>3. pushed[i].serial \in Nat /\ pushed[j].serial \in Nat
        BY StreamIs DEF FeedsInv
      <4> QED
        BY <2>3, <2>4, <4>1, <4>2, <4>3
    <3>2. n \in Nat /\ m \in Nat
      BY <1>5, <1>6, <2>1, <2>3 DEF From
    <3> QED
      BY <3>1, <3>2
  <2>6. m \in From(r, "stream") /\ r[m] = q[m]
    BY <1>5, <1>6, <2>1, <2>3, <2>5 DEF From
  <2> QED
    BY <2>3, <2>6 DEF Fed
<1> QED
  BY <1>3, <1>7, <1>8, <1>9, <1>10

(* The five parts together, the feed being what it was.                     *)
LEMMA KeptWhole ==
  ASSUME FeedsInv, UNCHANGED <<streamVars, line, answers>>, Feed' = Feed,
         writer' # "ended" => writer # "ended", Types', Stopping'
  PROVE  FeedsInv'
  BY SameFeed DEF FeedsInv

(* The steps that move no command.                                          *)
LEMMA Unmoved ==
  ASSUME FeedsInv, WorkerEnds \/ WriterFlushes \/ WriterSeesStop \/ LastFlush \/ MainStops
                   \/ MainExits
  PROVE  FeedsInv'
<1>1. Types /\ Stopping
  BY DEF FeedsInv
<1>2. /\ UNCHANGED <<streamVars, line, answers, applied, commands, inTime>>
      /\ writer' # "ended" => writer # "ended"
  BY DEF WorkerEnds, WriterFlushes, WriterSeesStop, LastFlush, MainStops, MainExits, Stops
<1>3. Feed' = Feed
  BY <1>2 DEF Feed
<1>4. Len(applied) \in Nat
  BY <1>1, FeedIs
<1> DEFINE Still == /\ UNCHANGED <<writer, durable, fatal, undrained>>
                    /\ running' \in {running, FALSE}
                    /\ worker' # worker => ~running \/ writer = "ended"
           Flushed == /\ \/ writer = "flush" /\ writer' = "wait"
                         \/ writer = "last flush" /\ writer' = "ended"
                      /\ durable' = Len(applied) /\ UNCHANGED <<running, fatal, undrained, worker>>
           Left == /\ writer = "flush" /\ worker = "ended" /\ writer' = "ended"
                   /\ undrained' = TRUE
                   /\ durable' = Len(applied) /\ UNCHANGED <<running, fatal, worker>>
           Seen == /\ writer = "wait" /\ writer' = "drain" /\ ~running
                   /\ UNCHANGED <<running, durable, fatal, undrained, worker>>
           Failed == /\ writer' = "ended" /\ fatal' = fatal + 1 /\ UNCHANGED <<durable, undrained>>
                     /\ running' \in {running, FALSE}
<1>5. Still \/ Flushed \/ Left \/ Seen \/ Failed
  <2>1. WorkerEnds \/ MainStops \/ MainExits => Still
    BY DEF WorkerEnds, MainStops, MainExits, Hearing
  <2>2. WriterFlushes => Flushed \/ Left \/ Failed
    BY DEF WriterFlushes, Stops, Fatal
  <2>3. WriterSeesStop => Seen
    BY DEF WriterSeesStop
  <2>4. LastFlush => Flushed \/ Failed
    BY DEF LastFlush, Fatal
  <2> QED
    BY <2>1, <2>2, <2>3, <2>4
<1>6. Types'
  <2>1. /\ durable' \in Nat /\ running' \in BOOLEAN /\ fatal' \in Nat
        /\ writer' \in {"wait", "flush", "drain", "last flush", "ended"}
        /\ undrained' \in BOOLEAN
    <3>1. durable \in Nat /\ fatal \in Nat
      BY <1>1 DEF Types
    <3>2. durable' \in {durable, Len(applied)} /\ fatal' \in {fatal, fatal + 1}
      BY <1>5
    <3>3. running' \in BOOLEAN
      BY <1>1, <1>5 DEF Types
    <3>4. writer' \in {"wait", "flush", "drain", "last flush", "ended"}
      BY <1>1, <1>5 DEF Types
    <3>5. durable' \in Nat
      BY <1>4, <3>1, <3>2
    <3>6. fatal' \in Nat
      BY <3>1, <3>2
    <3>7. undrained' \in BOOLEAN
      BY <1>1, <1>5 DEF Types
    <3> QED
      BY <3>3, <3>4, <3>5, <3>6, <3>7
  <2> QED
    BY <1>1, <1>2, <2>1 DEF Types, streamVars
<1>7. ~Failed \/ fatal' # 0
  <2>1. fatal \in Nat
    BY <1>1 DEF Types
  <2>2. fatal + 1 # 0
    BY <2>1
  <2> QED
    BY <2>2
<1>8. fatal' = 0 => fatal = 0
  BY <1>5, <1>7
<1>9. Stopping'
  <2>1. writer' \in {"drain", "last flush"} => ~running'
    BY <1>1, <1>5 DEF Stopping
  <2>2. undrained' => writer' = "ended"
    BY <1>1, <1>5 DEF Stopping
  <2>3. fatal' = 0 /\ worker' = "ended" => ~running'
    BY <1>1, <1>5, <1>7, <1>8 DEF Stopping
  <2>4. fatal' = 0 /\ writer' = "ended" => ~running' /\ durable' = Len(applied)
    BY <1>1, <1>5, <1>7, <1>8 DEF Stopping
  <2>5. fatal' = 0 /\ PastDrain' => PastDrain
    BY <1>5, <1>7 DEF PastDrain
  <2>6. PICK q : q = Feed
    OBVIOUS
  <2>7. fatal' = 0 => \A k \in inTime : Taken(q, k)
    BY <1>1, <1>8, <2>6 DEF Stopping
  <2>8. fatal' = 0 => \A k \in inTime' : Taken(Feed, k)'
    BY <1>2, <1>3, <2>6, <2>7 DEF Taken
  <2>9. fatal' = 0 /\ PastDrain' => \A k \in inTime' : Taken(applied, k)'
    BY <1>1, <1>2, <1>8, <2>5 DEF Stopping, Taken
  <2> QED
    BY <1>2, <2>1, <2>2, <2>3, <2>4, <2>8, <2>9 DEF Stopping
<1> QED
  BY <1>2, <1>3, <1>6, <1>9, KeptWhole

(* The head of a sequence moved to the end of another.                      *)
LEMMA MoveHead ==
  ASSUME NEW S, NEW s \in Seq(S), NEW t \in Seq(S), t # <<>>
  PROVE  /\ Append(s, Head(t)) \in Seq(S) /\ Tail(t) \in Seq(S)
         /\ Append(s, Head(t)) \o Tail(t) = s \o t
  OBVIOUS

(* The writer drains: a command moves from the channel to what is applied.  *)
LEMMA Drains ==
  ASSUME FeedsInv, WriterDrains
  PROVE  FeedsInv'
<1>1. Types /\ Stopping /\ applied \in Seq(Cmds) /\ commands \in Seq(Cmds)
  BY DEF FeedsInv, Types
<1>2. /\ UNCHANGED <<streamVars, line, answers, worker, durable, running, main, fatal, inTime,
                   undrained>>
      /\ writer = "drain" /\ writer' \in {"drain", "last flush"}
  BY DEF WriterDrains
<1>3. applied' \in Seq(Cmds) /\ commands' \in Seq(Cmds) /\ Feed' = Feed
  <2>1. CASE UNCHANGED <<applied, commands>>
    BY <1>1, <2>1 DEF Feed
  <2>2. CASE /\ commands # <<>>
             /\ applied' = Append(applied, Head(commands)) /\ commands' = Tail(commands)
    <3>1. /\ Append(applied, Head(commands)) \in Seq(Cmds) /\ Tail(commands) \in Seq(Cmds)
          /\ Append(applied, Head(commands)) \o Tail(commands) = applied \o commands
      BY <1>1, <2>2, MoveHead
    <3> QED
      BY <2>2, <3>1 DEF Feed
  <2> QED
    BY <2>1, <2>2 DEF WriterDrains
<1>4. Types'
  BY <1>1, <1>2, <1>3 DEF Types, streamVars
<1>5. Stopping'
  <2>1. PICK q : q = Feed
    OBVIOUS
  <2>2. fatal' = 0 => \A k \in inTime' : Taken(Feed, k)'
    <3>1. fatal = 0 => \A k \in inTime : Taken(q, k)
      BY <1>1, <2>1 DEF Stopping
    <3> QED
      BY <1>2, <1>3, <2>1, <3>1 DEF Taken
  <2>3. ASSUME writer' = "last flush" PROVE Feed = applied' /\ applied' = applied
    <3>1. commands = <<>> /\ applied' = applied
      BY <1>2, <2>3 DEF WriterDrains
    <3> QED
      BY <1>1, <3>1 DEF Feed
  <2>4. fatal' = 0 /\ writer' = "last flush" => \A k \in inTime' : Taken(applied, k)'
    <3>1. fatal = 0 => \A k \in inTime : Taken(q, k)
      BY <1>1, <2>1 DEF Stopping
    <3>2. writer' = "last flush" => applied' = q
      BY <2>1, <2>3
    <3> QED
      BY <1>2, <3>1, <3>2 DEF Taken
  <2>5. fatal' = 0 /\ PastDrain' => \A k \in inTime' : Taken(applied, k)'
    BY <1>2, <2>4 DEF PastDrain
  <2> QED
    BY <1>1, <1>2, <2>2, <2>5 DEF Stopping
<1> QED
  BY <1>2, <1>3, <1>4, <1>5, KeptWhole

(* Part of the channel is part of the feed.                                 *)
LEMMA PartOfFeed ==
  ASSUME NEW S, NEW s \in Seq(S), NEW t \in Seq(S), NEW n \in 0..Len(t)
  PROVE  /\ s \o SubSeq(t, 1, n) = SubSeq(s \o t, 1, Len(s) + n)
         /\ s \o SubSeq(t, 1, n) \in Seq(S) /\ Len(s) + n \in Nat /\ Len(s) + n <= Len(s \o t)
<1>1. SubSeq(t, 1, n) \in Seq(S) /\ Len(SubSeq(t, 1, n)) = n
  OBVIOUS
<1>2. /\ s \o t \in Seq(S) /\ Len(s \o t) = Len(s) + Len(t) /\ Len(s) \in Nat /\ Len(t) \in Nat
  OBVIOUS
<1>3. Len(s) + n \in Nat /\ Len(s) + n <= Len(s \o t)
  BY <1>2
<1>4. /\ SubSeq(s \o t, 1, Len(s) + n) \in Seq(S)
      /\ Len(SubSeq(s \o t, 1, Len(s) + n)) = Len(s) + n
  BY <1>2, <1>3
<1>5. /\ s \o SubSeq(t, 1, n) \in Seq(S) /\ Len(s \o SubSeq(t, 1, n)) = Len(s) + n
  BY <1>1, <1>2
<1>6. ASSUME NEW i \in 1..(Len(s) + n)
      PROVE  (s \o SubSeq(t, 1, n))[i] = SubSeq(s \o t, 1, Len(s) + n)[i]
  <2>1. SubSeq(s \o t, 1, Len(s) + n)[i] = (s \o t)[i]
    BY <1>2, <1>3, <1>6
  <2>2. CASE i <= Len(s)
    <3>1. (s \o SubSeq(t, 1, n))[i] = s[i] /\ (s \o t)[i] = s[i]
      BY <1>1, <1>2, <1>6, <2>2
    <3> QED
      BY <2>1, <3>1
  <2>3. CASE i > Len(s)
    <3>1. i - Len(s) \in 1..n /\ i - Len(s) \in 1..Len(t)
      BY <1>2, <1>6, <2>3
    <3>2. (s \o SubSeq(t, 1, n))[i] = SubSeq(t, 1, n)[i - Len(s)]
      BY <1>1, <1>2, <1>6, <2>3
    <3>3. (s \o t)[i] = t[i - Len(s)]
      BY <1>2, <1>3, <1>6, <2>3
    <3>4. SubSeq(t, 1, n)[i - Len(s)] = t[i - Len(s)]
      BY <3>1
    <3> QED
      BY <2>1, <3>2, <3>3, <3>4
  <2> QED
    BY <1>2, <1>6, <2>2, <2>3
<1>7. PICK a \in Seq(S), b \in Seq(S) :
         a = s \o SubSeq(t, 1, n) /\ b = SubSeq(s \o t, 1, Len(s) + n)
  BY <1>4, <1>5
<1>8. Len(a) = Len(b) /\ \A i \in 1..Len(a) : a[i] = b[i]
  BY <1>4, <1>5, <1>6, <1>7
<1>9. a = b
  BY <1>8
<1> QED
  BY <1>3, <1>5, <1>7, <1>9

(* The writer applies what is in the channel, all of it or up to an error.  *)
LEMMA Applies ==
  ASSUME FeedsInv, WriterApplies
  PROVE  FeedsInv'
<1>1. /\ Types /\ Stopping /\ applied \in Seq(Cmds) /\ commands \in Seq(Cmds) /\ fatal \in Nat
      /\ running \in BOOLEAN
  BY DEF FeedsInv, Types
<1>2. /\ UNCHANGED <<streamVars, line, answers, worker, durable, inTime, undrained>>
      /\ commands' = <<>> /\ writer = "wait"
  BY DEF WriterApplies
<1>3. Feed' = applied' \o <<>>
  BY <1>2 DEF Feed
<1>4. PICK q : q = Feed
  OBVIOUS
<1>5. CASE applied' = applied \o commands /\ writer' = "flush" /\ UNCHANGED <<running, fatal>>
  <2>1. applied' \in Seq(Cmds) /\ Feed' = Feed
    BY <1>1, <1>3, <1>5 DEF Feed
  <2>2. Types'
    BY <1>1, <1>2, <1>5, <2>1 DEF Types, streamVars
  <2>3. fatal = 0 => \A k \in inTime : Taken(q, k)
    BY <1>1, <1>4 DEF Stopping
  <2>4. fatal' = 0 => \A k \in inTime' : Taken(Feed, k)'
    BY <1>2, <1>4, <1>5, <2>1, <2>3 DEF Taken
  <2>5. Stopping'
    <3>1. ~PastDrain' /\ ~undrained'
      BY <1>1, <1>2, <1>5 DEF PastDrain, Stopping
    <3> QED
      BY <1>1, <1>2, <1>5, <2>4, <3>1 DEF Stopping
  <2> QED
    BY <1>2, <1>5, <2>1, <2>2, <2>5, KeptWhole
<1>6. CASE /\ \E n \in 0..(Len(commands) - 1) : applied' = applied \o SubSeq(commands, 1, n)
           /\ Fatal /\ Stops
  <2>1. PICK n \in 0..(Len(commands) - 1) : applied' = applied \o SubSeq(commands, 1, n)
    BY <1>6
  <2>2. n \in 0..Len(commands)
    BY <1>1, <2>1
  <2>3. /\ applied' = SubSeq(Feed, 1, Len(applied) + n)
        /\ applied' \in Seq(Cmds) /\ Len(applied) + n \in Nat /\ Len(applied) + n <= Len(Feed)
    BY <1>1, <2>1, <2>2, PartOfFeed DEF Feed
  <2>4. Feed' = SubSeq(Feed, 1, Len(applied) + n)
    BY <1>3, <2>3
  <2>5. writer' = "ended" /\ running' = FALSE /\ fatal' = fatal + 1
    BY <1>6 DEF Fatal, Stops
  <2>6. fatal' \in Nat /\ fatal' # 0
    BY <1>1, <2>5
  <2>7. Types'
    <3>1. applied' \in Seq(Cmds) /\ commands' \in Seq(Cmds)
      BY <1>2, <2>3
    <3>2. running' \in BOOLEAN /\ writer' \in {"wait", "flush", "drain", "last flush", "ended"}
      BY <2>5
    <3>3. fatal' \in Nat
      BY <2>6
    <3> QED
      BY <1>1, <1>2, <3>1, <3>2, <3>3 DEF Types, streamVars
  <2>8. Stopping'
    BY <2>5, <2>6 DEF Stopping
  <2>9. PICK k \in Nat : k = Len(applied) + n
    BY <2>3
  <2>10. SaidInOrder(Feed)' /\ ReadInOrder(Feed)' /\ OnTheWay(Feed)' /\ NoGap(Feed)'
    <3>1. k <= Len(Feed) /\ Feed' = SubSeq(Feed, 1, k) /\ writer' = "ended"
      BY <2>3, <2>4, <2>5, <2>9
    <3>2. UNCHANGED <<streamVars, line, answers>>
      BY <1>2
    <3> QED
      BY <3>1, <3>2, CutFeed
  <2> QED
    BY <2>7, <2>8, <2>10 DEF FeedsInv
<1> QED
  BY <1>5, <1>6 DEF WriterApplies

(* The stream's part of the feed, while only the rest of the feed changes.  *)
LEMMA SameStream ==
  ASSUME FeedsInv, UNCHANGED <<streamVars, writer>>, NEW r,
         From(r, "stream") = From(Feed, "stream"),
         \A n \in From(Feed, "stream") : r[n] = Feed[n]
  PROVE  ReadInOrder(r)' /\ OnTheWay(r)' /\ NoGap(r)'
<1>1. PICK q : q = Feed
  OBVIOUS
<1>2. ReadInOrder(q) /\ OnTheWay(q) /\ NoGap(q)
  BY <1>1 DEF FeedsInv
<1>3. PICK S : S = From(q, "stream")
  OBVIOUS
<1>4. From(q, "stream") = S /\ From(r, "stream") = S /\ \A n \in S : r[n] = q[n]
  BY <1>1, <1>3
<1>5. From(r, "stream")' = S
  BY <1>4 DEF From
<1>6. ReadInOrder(r)'
  BY <1>2, <1>4, <1>5 DEF ReadInOrder, Came, streamVars
<1>7. OnTheWay(r)'
  BY <1>2, <1>4, <1>5 DEF OnTheWay, Came, Rising, Ordered, streamVars
<1>8. NoGap(r)'
  BY <1>2, <1>4, <1>5 DEF NoGap, Kept, Fed, InEvents, InSocket, Before, streamVars
<1> QED
  BY <1>6, <1>7, <1>8

(* A command at the end of the feed.                                        *)
LEMMA AppendToFeed ==
  ASSUME NEW s \in Seq(Cmds), NEW t \in Seq(Cmds), NEW c \in Cmds
  PROVE  /\ s \o Append(t, c) = Append(s \o t, c) /\ Append(t, c) \in Seq(Cmds)
         /\ s \o t \in Seq(Cmds)
  OBVIOUS

(* Append, element by element.                                              *)
LEMMA AppendIs ==
  ASSUME NEW S, NEW s \in Seq(S), NEW c \in S
  PROVE  /\ Append(s, c) \in Seq(S) /\ Len(Append(s, c)) = Len(s) + 1 /\ Len(s) \in Nat
         /\ DOMAIN s = 1..Len(s) /\ DOMAIN Append(s, c) = 1..(Len(s) + 1)
         /\ Append(s, c)[Len(s) + 1] = c
         /\ \A n \in 1..Len(s) : Append(s, c)[n] = s[n]
  OBVIOUS

(* A line that is answered without a command.                               *)
LEMMA LineRefused ==
  ASSUME FeedsInv, UNCHANGED <<streamVars, commands, applied, worker, writer, durable, running,
                               fatal, inTime, undrained>>,
         line' = line + 1, answers' \in Seq(BOOLEAN), Len(answers') = line + 1,
         \A i \in 1..line : answers'[i] = answers[i]
  PROVE  FeedsInv'
<1>1. Types /\ line \in Nat /\ answers \in Seq(BOOLEAN) /\ Len(answers) = line
  BY DEF FeedsInv, Types
<1>2. line' \in Nat
  BY <1>1
<1>3. Types'
  BY <1>1, <1>2 DEF Types, streamVars
<1>4. PICK q : q = Feed
  OBVIOUS
<1>5. Feed' = q
  BY <1>4 DEF Feed
<1>6. SaidInOrder(q) /\ Stopping
  BY <1>4 DEF FeedsInv
<1>7. SaidInOrder(q)'
  <2>1. \A n \in From(q, "control") : q[n].what \in 1..line' /\ answers'[q[n].what]
    BY <1>1, <1>2, <1>6 DEF SaidInOrder
  <2> QED
    BY <1>6, <2>1 DEF SaidInOrder, From
<1>8. ReadInOrder(q)' /\ OnTheWay(q)' /\ NoGap(q)'
  BY <1>4, SameStream
<1>9. Stopping'
  <2>1. \A k : Taken(Feed, k)' <=> Taken(Feed, k)
    BY <1>4, <1>5 DEF Taken
  <2>2. \A k : Taken(applied, k)' <=> Taken(applied, k)
    BY DEF Taken
  <2> QED
    BY <1>6, <2>1, <2>2 DEF Stopping, PastDrain
<1> QED
  BY <1>3, <1>5, <1>7, <1>8, <1>9 DEF FeedsInv

(* A line that is answered with ok: its command is the last of the feed.    *)
LEMMA LineTaken ==
  ASSUME FeedsInv, UNCHANGED <<streamVars, applied, worker, writer, durable, running, fatal,
                          undrained>>,
         writer # "ended", line' = line + 1, answers' \in Seq(BOOLEAN), Len(answers') = line + 1,
         answers'[line + 1], \A i \in 1..line : answers'[i] = answers[i],
         commands' = Append(commands, FromControl(line + 1)),
         inTime' = inTime \/ (running /\ inTime' = inTime \cup {line + 1})
  PROVE  FeedsInv'
<1>1. /\ Types /\ line \in Nat /\ answers \in Seq(BOOLEAN) /\ Len(answers) = line
      /\ applied \in Seq(Cmds) /\ commands \in Seq(Cmds) /\ inTime \subseteq Nat
  BY DEF FeedsInv, Types
<1>2. PICK k \in Nat : k = line + 1
  BY <1>1
<1>3. PICK c \in Cmds : c = FromControl(k)
  BY <1>2 DEF Cmds, FromControl
<1>4. c.from = "control" /\ c.what = k
  BY <1>3 DEF FromControl
<1>5. answers'[k] /\ Len(answers') = k
  BY <1>2
<1>6. PICK q \in Seq(Cmds) : q = Feed
  BY <1>1, FeedIs
<1>7. PICK r : r = Append(q, c)
  OBVIOUS
<1>8. Feed' = r /\ commands' \in Seq(Cmds)
  BY <1>1, <1>2, <1>3, <1>6, <1>7, AppendToFeed DEF Feed
<1>9. Types'
  <2>1. inTime' \subseteq Nat
    BY <1>1, <1>2
  <2>2. line' \in Nat /\ Len(answers') = line'
    BY <1>2, <1>5
  <2> QED
    BY <1>1, <1>5, <1>8, <2>1, <2>2 DEF Types, streamVars
<1>10. PICK N \in Nat : N = Len(q)
  BY <1>6
<1>11. /\ DOMAIN q = 1..N /\ DOMAIN r = 1..(N + 1) /\ r[N + 1] = c
       /\ \A n \in 1..N : r[n] = q[n]
  BY <1>6, <1>7, <1>10, AppendIs
<1>12. From(r, "stream") = From(q, "stream") /\ \A n \in From(q, "stream") : r[n] = q[n]
  <2>1. \A n \in DOMAIN r : r[n].from = "stream" <=> n \in DOMAIN q /\ q[n].from = "stream"
    BY <1>4, <1>10, <1>11
  <2> QED
    BY <1>10, <1>11, <2>1 DEF From
<1>13. \A n \in From(r, "control") : (n \in From(q, "control") /\ r[n] = q[n]) \/ n = N + 1
  BY <1>10, <1>11 DEF From
<1>14. From(q, "control") \subseteq 1..N
  BY <1>11 DEF From
<1>15. SaidInOrder(q) /\ Stopping
  BY <1>6 DEF FeedsInv
<1>16. SaidInOrder(r)'
  <2>1. \A n \in From(q, "control") : q[n].what \in 1..line /\ answers[q[n].what]
    BY <1>15 DEF SaidInOrder
  <2>2. \A n \in From(r, "control") : r[n].what \in 1..line' /\ answers'[r[n].what]
    <3> SUFFICES ASSUME NEW n \in From(r, "control")
                 PROVE  r[n].what \in 1..line' /\ answers'[r[n].what]
      OBVIOUS
    <3>1. CASE n = N + 1
      BY <1>1, <1>2, <1>4, <1>5, <1>11, <3>1
    <3>2. CASE n \in From(q, "control") /\ r[n] = q[n]
      BY <1>1, <1>2, <1>5, <2>1, <3>2
    <3> QED
      BY <1>13, <3>1, <3>2
  <2>3. ASSUME NEW m \in From(r, "control"), NEW n \in From(r, "control"), m < n
        PROVE  r[m].what < r[n].what
    <3>1. CASE n = N + 1
      <4>1. m # N + 1
        BY <1>10, <2>3, <3>1
      <4>2. m \in From(q, "control") /\ r[m] = q[m]
        BY <1>13, <4>1
      <4>3. r[n].what = k /\ q[m].what \in 1..line
        BY <1>4, <1>11, <2>1, <3>1, <4>2
      <4> QED
        BY <1>1, <1>2, <4>2, <4>3
    <3>2. CASE n # N + 1
      <4>1. n \in From(q, "control") /\ r[n] = q[n]
        BY <1>13, <3>2
      <4>2. n \in 1..N
        BY <1>14, <4>1
      <4>3. m # N + 1
        BY <1>10, <2>3, <4>2
      <4>4. m \in From(q, "control") /\ r[m] = q[m]
        BY <1>13, <4>3
      <4> QED
        BY <1>15, <2>3, <4>1, <4>4 DEF SaidInOrder
    <3> QED
      BY <3>1, <3>2
  <2> QED
    BY <2>2, <2>3 DEF SaidInOrder, From
<1>17. ReadInOrder(r)' /\ OnTheWay(r)' /\ NoGap(r)'
  BY <1>6, <1>12, SameStream
<1>18. Stopping'
  <2>1. ASSUME NEW i, Taken(q, i) PROVE Taken(r, i)
    <3>1. PICK n \in DOMAIN q : q[n] = FromControl(i)
      BY <2>1 DEF Taken
    <3>2. n \in DOMAIN r /\ r[n] = q[n]
      BY <1>10, <1>11, <3>1
    <3> QED
      BY <3>1, <3>2 DEF Taken
  <2>2. Taken(r, k)
    <3>1. N + 1 \in DOMAIN r
      BY <1>10, <1>11
    <3> QED
      BY <1>3, <1>11, <3>1 DEF Taken
  <2>3. fatal = 0 => \A i \in inTime : Taken(q, i)
    BY <1>6, <1>15 DEF Stopping
  <2>4. fatal = 0 => \A i \in inTime' : Taken(r, i)
    BY <1>2, <2>1, <2>2, <2>3
  <2>5. fatal' = 0 => \A i \in inTime' : Taken(Feed, i)'
    BY <1>8, <2>4 DEF Taken
  <2>6. fatal' = 0 /\ PastDrain' => \A i \in inTime' : Taken(applied, i)'
    BY <1>15 DEF Stopping, Taken, PastDrain
  <2> QED
    BY <1>15, <2>5, <2>6 DEF Stopping
<1> QED
  BY <1>8, <1>9, <1>16, <1>17, <1>18 DEF FeedsInv

(* An answer at the end of the answers.                                     *)
LEMMA AnswerIs ==
  ASSUME NEW s \in Seq(BOOLEAN), NEW b \in BOOLEAN, NEW t, t = Append(s, b)
  PROVE  /\ t \in Seq(BOOLEAN) /\ Len(t) = Len(s) + 1 /\ t[Len(s) + 1] = b
         /\ \A i \in 1..Len(s) : t[i] = s[i]
  BY AppendIs

(* The control thread's step.                                               *)
LEMMA Handles ==
  ASSUME FeedsInv, HandleLine
  PROVE  FeedsInv'
<1>1. PICK sent : sent = (Lines[line + 1] # "bad" /\ writer # "ended")
  OBVIOUS
<1>2. sent \in BOOLEAN /\ (sent => writer # "ended")
  BY <1>1
<1>3. /\ line' = line + 1 /\ answers' = Append(answers, sent)
      /\ commands' = IF sent THEN Append(commands, FromControl(line + 1)) ELSE commands
      /\ inTime' = IF sent /\ running THEN inTime \cup {line + 1} ELSE inTime
      /\ UNCHANGED <<streamVars, applied, worker, writer, durable, running, fatal, undrained>>
  BY <1>1 DEF HandleLine
<1>4. line \in Nat /\ answers \in Seq(BOOLEAN) /\ Len(answers) = line
  BY DEF FeedsInv, Types
<1>5. /\ answers' \in Seq(BOOLEAN) /\ Len(answers') = line + 1 /\ answers'[line + 1] = sent
      /\ \A i \in 1..line : answers'[i] = answers[i]
  BY <1>2, <1>3, <1>4, AnswerIs
<1>6. CASE sent = FALSE
  BY <1>3, <1>5, <1>6, LineRefused
<1>7. CASE sent = TRUE
  <2>1. /\ writer # "ended" /\ answers'[line + 1]
        /\ commands' = Append(commands, FromControl(line + 1))
        /\ inTime' = inTime \/ (running /\ inTime' = inTime \cup {line + 1})
    BY <1>2, <1>3, <1>5, <1>7
  <2> QED
    BY <1>3, <1>5, <2>1, LineTaken
<1> QED
  BY <1>2, <1>6, <1>7

(* The channel grown at its end is the feed grown at its end.               *)
LEMMA ConcatAssociates ==
  ASSUME NEW S, NEW s \in Seq(S), NEW t \in Seq(S), NEW u \in Seq(S)
  PROVE  s \o (t \o u) = (s \o t) \o u /\ t \o u \in Seq(S)
  OBVIOUS

(* A sequence of events as commands.                                        *)
LEMMA ForwardedIs ==
  ASSUME NEW s \in Seq(Events), NEW t, t = [n \in DOMAIN s |-> FromStream(s[n])]
  PROVE  /\ t \in Seq(Cmds) /\ Len(t) = Len(s)
         /\ \A n \in 1..Len(s) : t[n].from = "stream" /\ t[n].what = s[n]
<1>1. Len(s) \in Nat /\ DOMAIN s = 1..Len(s) /\ \A n \in 1..Len(s) : s[n] \in Events
  OBVIOUS
<1>2. \A e \in Events : /\ FromStream(e) \in Cmds
                        /\ FromStream(e).from = "stream" /\ FromStream(e).what = e
  BY DEF FromStream, Cmds
<1>3. \A n \in 1..Len(s) : t[n] = FromStream(s[n])
  BY <1>1
<1>4. t \in [1..Len(s) -> Cmds]
  BY <1>1, <1>2
<1> QED
  BY <1>1, <1>2, <1>3, <1>4

(* The worker forwards: the events go to the end of the feed, in order.     *)
LEMMA Forwards ==
  ASSUME FeedsInv, WorkerForwards
  PROVE  FeedsInv'
<1>1. /\ Types /\ Stopping /\ applied \in Seq(Cmds) /\ commands \in Seq(Cmds)
      /\ events \in Seq(Events)
  BY DEF FeedsInv, Types
<1>2. /\ UNCHANGED <<reader, backoff, socket, pushed, serial, conn, drops, line, answers, worker,
                     writer, applied, durable, running, main, fatal, inTime, undrained>>
      /\ events' = <<>> /\ writer # "ended"
  BY DEF WorkerForwards, Hearing
<1>3. PICK u : u = [n \in DOMAIN events |-> FromStream(events[n])]
  OBVIOUS
<1>4. /\ u \in Seq(Cmds) /\ Len(u) = Len(events)
      /\ \A n \in 1..Len(events) : u[n].from = "stream" /\ u[n].what = events[n]
  BY <1>1, <1>3, ForwardedIs
<1>5. PICK q \in Seq(Cmds) : q = Feed
  BY <1>1, FeedIs
<1>6. PICK r : r = q \o u
  OBVIOUS
<1>7. commands' = commands \o u
  BY <1>3 DEF WorkerForwards
<1>8. Feed' = r /\ commands' \in Seq(Cmds)
  <2>1. u \in Seq(Cmds)
    BY <1>4
  <2>2. applied \o (commands \o u) = (applied \o commands) \o u /\ commands \o u \in Seq(Cmds)
    <3>1. PICK a \in Seq(Cmds), b \in Seq(Cmds) : a = applied /\ b = commands
      BY <1>1
    <3>2. a \o (b \o u) = (a \o b) \o u /\ b \o u \in Seq(Cmds)
      BY <2>1, ConcatAssociates
    <3> QED
      BY <3>1, <3>2
  <2> QED
    BY <1>2, <1>5, <1>6, <1>7, <2>2 DEF Feed
<1>9. Types'
  <2>1. events' \in Seq(Events) /\ commands' \in Seq(Cmds)
    BY <1>2, <1>8
  <2> QED
    BY <1>1, <1>2, <2>1 DEF Types
<1>10. PICK N, M \in Nat : N = Len(q) /\ M = Len(events)
  BY <1>1, <1>5
<1>11. /\ DOMAIN q = 1..N /\ DOMAIN events = 1..M /\ DOMAIN r = 1..(N + M)
       /\ \A n \in 1..N : r[n] = q[n]
       /\ \A n \in (N + 1)..(N + M) : r[n] = u[n - N]
  <2>1. DOMAIN q = 1..N /\ DOMAIN events = 1..M /\ Len(q) = N /\ Len(u) = M
    BY <1>1, <1>4, <1>5, <1>10
  <2>2. /\ DOMAIN (q \o u) = 1..(Len(q) + Len(u))
        /\ \A n \in 1..Len(q) : (q \o u)[n] = q[n]
        /\ \A n \in (Len(q) + 1)..(Len(q) + Len(u)) : (q \o u)[n] = u[n - Len(q)]
    <3>1. u \in Seq(Cmds)
      BY <1>4
    <3> QED
      BY <3>1, ConcatIs, Zenon
  <2> QED
    BY <1>6, <2>1, <2>2
<1>12. ASSUME NEW n \in (N + 1)..(N + M)
       PROVE  r[n].from = "stream" /\ r[n].what = events[n - N] /\ n - N \in DOMAIN events
  <2>1. n - N \in 1..M
    BY <1>10
  <2> QED
    BY <1>4, <1>10, <1>11, <2>1
<1>13. \A n \in 1..(N + M) : n \in 1..N \/ n \in (N + 1)..(N + M)
  BY <1>10
<1>14. \A n \in From(q, "stream") : n \in From(r, "stream") /\ r[n] = q[n]
  BY <1>10, <1>11 DEF From
<1>15. ASSUME NEW n \in From(r, "stream")
       PROVE  \/ n \in From(q, "stream") /\ r[n] = q[n] /\ n \in 1..N
              \/ n \in (N + 1)..(N + M) /\ r[n].what = events[n - N] /\ n - N \in DOMAIN events
  BY <1>10, <1>11, <1>12, <1>13 DEF From
<1>16. /\ From(r, "control") = From(q, "control")
       /\ \A n \in From(q, "control") : r[n] = q[n]
  <2>1. \A n \in DOMAIN r : r[n].from = "control" <=> n \in DOMAIN q /\ q[n].from = "control"
    BY <1>10, <1>11, <1>12, <1>13
  <2>2. DOMAIN q \subseteq DOMAIN r
    BY <1>10, <1>11
  <2> QED
    BY <1>11, <2>1, <2>2 DEF From
<1>17. SaidInOrder(q) /\ ReadInOrder(q) /\ OnTheWay(q) /\ NoGap(q)
  BY <1>5 DEF FeedsInv
<1>18. SaidInOrder(r)'
  BY <1>2, <1>16, <1>17 DEF SaidInOrder, From
<1>19. \A e : Came(e)' <=> Came(e)
  BY <1>2 DEF Came
<1>20. ReadInOrder(r)
  <2>1. ASSUME NEW n \in From(r, "stream") PROVE Came(r[n].what)
    <3>1. CASE n \in From(q, "stream") /\ r[n] = q[n]
      BY <1>17, <3>1 DEF ReadInOrder
    <3>2. CASE r[n].what = events[n - N] /\ n - N \in DOMAIN events
      BY <1>17, <3>2 DEF OnTheWay
    <3> QED
      BY <1>15, <3>1, <3>2
  <2>2. ASSUME NEW m \in From(r, "stream"), NEW n \in From(r, "stream"), m < n
        PROVE  Precedes(r[m].what, r[n].what)
    <3>1. CASE n \in From(q, "stream") /\ r[n] = q[n] /\ n \in 1..N
      <4>1. m \notin (N + 1)..(N + M)
        BY <1>10, <2>2, <3>1
      <4>2. m \in From(q, "stream") /\ r[m] = q[m]
        BY <1>15, <4>1
      <4> QED
        BY <1>17, <2>2, <3>1, <4>2 DEF ReadInOrder
    <3>2. CASE n \in (N + 1)..(N + M) /\ r[n].what = events[n - N] /\ n - N \in DOMAIN events
      <4>1. CASE m \in From(q, "stream") /\ r[m] = q[m]
        BY <1>17, <3>2, <4>1 DEF OnTheWay, Precedes
      <4>2. CASE m \in (N + 1)..(N + M) /\ r[m].what = events[m - N] /\ m - N \in DOMAIN events
        <5>1. m - N < n - N
          BY <1>10, <2>2, <3>2, <4>2
        <5> QED
          BY <1>17, <3>2, <4>2, <5>1 DEF OnTheWay, Ordered
      <4> QED
        BY <1>15, <4>1, <4>2
    <3> QED
      BY <1>15, <3>1, <3>2
  <2> QED
    BY <2>1, <2>2 DEF ReadInOrder
<1>21. ReadInOrder(r)'
  BY <1>19, <1>20 DEF ReadInOrder, From
<1>22. OnTheWay(r)'
  <2>1. \A n \in From(r, "stream"), m \in DOMAIN socket : r[n].what.serial < socket[m].serial
    BY <1>15, <1>17 DEF OnTheWay
  <2>2. DOMAIN events' = {}
    BY <1>2
  <2> QED
    BY <1>2, <1>17, <2>1, <2>2 DEF OnTheWay, Rising, Ordered, From
<1>23. ASSUME NEW f PROVE Fed(r, f) <=> Fed(q, f) \/ InEvents(f)
  <2>1. ASSUME Fed(r, f) PROVE Fed(q, f) \/ InEvents(f)
    BY <1>15, <2>1 DEF Fed, InEvents
  <2>2. ASSUME Fed(q, f) PROVE Fed(r, f)
    BY <1>14, <2>2 DEF Fed
  <2>3. ASSUME InEvents(f) PROVE Fed(r, f)
    <3>1. PICK n \in DOMAIN events : events[n].serial = f.serial
      BY <2>3 DEF InEvents
    <3>2. n + N \in (N + 1)..(N + M) /\ (n + N) - N = n /\ n + N \in DOMAIN r
      BY <1>10, <1>11, <3>1
    <3>3. r[n + N].from = "stream" /\ r[n + N].what = events[n]
      BY <1>12, <3>2
    <3> QED
      BY <3>1, <3>2, <3>3 DEF Fed, From
  <2> QED
    BY <2>1, <2>2, <2>3
<1>24. NoGap(r)'
  <2>1. \A f : Kept(r, f)' <=> Kept(q, f)
    <3>1. \A f : Fed(r, f)' <=> Fed(r, f)
      BY DEF Fed, From
    <3>2. \A f : ~InEvents(f)'
      BY <1>2 DEF InEvents
    <3>3. \A f : InSocket(f)' <=> InSocket(f)
      BY <1>2 DEF InSocket
    <3> QED
      BY <1>23, <3>1, <3>2, <3>3 DEF Kept
  <2>2. ASSUME NEW i \in DOMAIN pushed, NEW j \in DOMAIN pushed, Before(i, j),
               Fed(r, pushed[j])
        PROVE  Fed(r, pushed[i])
    <3>1. Kept(q, pushed[i])
      BY <1>2, <1>17, <1>23, <2>2 DEF NoGap, Kept
    <3>2. ASSUME InSocket(pushed[i]) PROVE FALSE
      <4>1. PICK m \in DOMAIN socket : socket[m].serial = pushed[i].serial
        BY <3>2 DEF InSocket
      <4>2. pushed[i].serial < pushed[j].serial
        BY <1>17, <2>2 DEF OnTheWay, Rising, Before
      <4>3. pushed[j].serial < socket[m].serial
        BY <1>17, <1>23, <2>2, <4>1 DEF OnTheWay, Fed, InEvents
      <4>4. pushed[i].serial \in Nat /\ pushed[j].serial \in Nat
        BY <1>1, StreamIs
      <4> QED
        BY <4>1, <4>2, <4>3, <4>4
    <3> QED
      BY <1>23, <3>1, <3>2 DEF Kept
  <2>3. \A i, j \in DOMAIN pushed : Before(i, j)' <=> Before(i, j)
    BY <1>2 DEF Before
  <2> QED
    BY <1>2, <1>17, <2>1, <2>2, <2>3 DEF NoGap, Fed, From
<1>25. Stopping'
  <2>1. ASSUME NEW i, Taken(q, i) PROVE Taken(r, i)
    <3>1. PICK n \in DOMAIN q : q[n] = FromControl(i)
      BY <2>1 DEF Taken
    <3>2. n \in DOMAIN r /\ r[n] = q[n]
      BY <1>10, <1>11, <3>1
    <3> QED
      BY <3>1, <3>2 DEF Taken
  <2>2. fatal = 0 => \A i \in inTime : Taken(r, i)
    BY <1>1, <1>5, <2>1 DEF Stopping
  <2>3. fatal' = 0 => \A i \in inTime' : Taken(Feed, i)'
    BY <1>2, <1>8, <2>2 DEF Taken
  <2>4. fatal' = 0 /\ PastDrain' => \A i \in inTime' : Taken(applied, i)'
    BY <1>1, <1>2 DEF Stopping, Taken, PastDrain
  <2> QED
    BY <1>1, <1>2, <2>3, <2>4 DEF Stopping
<1> QED
  BY <1>8, <1>9, <1>18, <1>21, <1>22, <1>24, <1>25 DEF FeedsInv

(* A step of the stream leaves the feed and the stop as they are.           *)
LEMMA StreamStep ==
  ASSUME FeedsInv, UNCHANGED feedVars, NEW q, q = Feed,
         socket' \in Seq(Frames), pushed' \in Seq(Frames), events' \in Seq(Events),
         serial' \in Nat, conn' \in Nat, ReadInOrder(q)', OnTheWay(q)', NoGap(q)'
  PROVE  FeedsInv'
<1>1. Types /\ Stopping /\ SaidInOrder(q)
  BY DEF FeedsInv
<1>2. Feed' = q
  BY DEF Feed, feedVars
<1>3. Types'
  BY <1>1 DEF Types, feedVars
<1>4. SaidInOrder(q)'
  BY <1>1 DEF SaidInOrder, From, feedVars
<1>5. Stopping'
  <2>1. \A k : Taken(Feed, k)' <=> Taken(Feed, k)
    BY <1>2 DEF Taken
  <2>2. \A k : Taken(applied, k)' <=> Taken(applied, k)
    BY DEF Taken, feedVars
  <2>3. UNCHANGED <<writer, worker, running, fatal, inTime, durable, applied, undrained>>
    BY DEF feedVars
  <2> QED
    BY <1>1, <2>1, <2>2, <2>3 DEF Stopping, PastDrain
<1> QED
  BY <1>2, <1>3, <1>4, <1>5 DEF FeedsInv

(* The connection is gone: what was on it is lost, from some frame on.      *)
LEMMA NotReading ==
  ASSUME FeedsInv, UNCHANGED feedVars, UNCHANGED <<events, pushed, serial, conn>>,
         socket' \in {socket, <<>>}, reader' # "reading"
  PROVE  FeedsInv'
<1>1. PICK q : q = Feed
  OBVIOUS
<1>2. ReadInOrder(q) /\ OnTheWay(q) /\ NoGap(q) /\ Types
  BY <1>1 DEF FeedsInv
<1>3. \A e : Came(e)' <=> Came(e)
  BY DEF Came
<1>4. ReadInOrder(q)'
  BY <1>2, <1>3 DEF ReadInOrder, From
<1>5. DOMAIN socket' \subseteq DOMAIN socket /\ \A n \in DOMAIN socket' : socket'[n] = socket[n]
  <2>1. CASE socket' = socket
    BY <2>1
  <2>2. CASE socket' = <<>>
    <3>1. DOMAIN socket' = {}
      BY <2>2
    <3> QED
      BY <3>1
  <2> QED
    BY <2>1, <2>2
<1>6. OnTheWay(q)'
  BY <1>2, <1>3, <1>5 DEF OnTheWay, Rising, Ordered, From
<1>7. NoGap(q)'
  <2>1. \A f : (Fed(q, f)' <=> Fed(q, f)) /\ (InEvents(f)' <=> InEvents(f))
    BY DEF Fed, From, InEvents
  <2>2. \A f : InSocket(f)' => InSocket(f)
    BY <1>5 DEF InSocket
  <2>3. \A i, j : Before(i, j)' <=> Before(i, j)
    BY DEF Before
  <2>4. ASSUME writer # "ended", NEW i \in DOMAIN pushed, NEW j \in DOMAIN pushed,
               Before(i, j), Kept(q, pushed[j])'
        PROVE  Kept(q, pushed[i])'
    <3>1. Kept(q, pushed[j]) /\ Kept(q, pushed[i])
      BY <1>2, <2>1, <2>2, <2>4 DEF NoGap, Kept
    <3>2. CASE Fed(q, pushed[i]) \/ InEvents(pushed[i])
      BY <2>1, <3>2 DEF Kept
    <3>3. CASE InSocket(pushed[i]) /\ socket' = socket
      BY <3>3 DEF Kept, InSocket
    <3>4. CASE InSocket(pushed[i]) /\ socket' = <<>>
      <4>1. ~InSocket(pushed[j])'
        BY <3>4 DEF InSocket
      <4>2. Fed(q, pushed[j]) \/ InEvents(pushed[j])
        BY <2>1, <2>4, <4>1 DEF Kept
      <4>3. PICK m \in DOMAIN socket : socket[m].serial = pushed[i].serial
        BY <3>4 DEF InSocket
      <4>4. pushed[j].serial < socket[m].serial
        BY <1>2, <4>2, <4>3 DEF OnTheWay, Fed, InEvents
      <4>5. pushed[i].serial < pushed[j].serial
        BY <1>2, <2>4 DEF OnTheWay, Rising, Before
      <4>6. pushed[i].serial \in Nat /\ pushed[j].serial \in Nat
        BY <1>2, StreamIs
      <4> QED
        BY <4>3, <4>4, <4>5, <4>6
    <3> QED
      BY <3>1, <3>2, <3>3, <3>4 DEF Kept
  <2>5. writer' = writer
    BY DEF feedVars
  <2> QED
    BY <1>2, <2>1, <2>3, <2>4, <2>5 DEF NoGap
<1>8. /\ socket' \in Seq(Frames) /\ pushed' \in Seq(Frames) /\ events' \in Seq(Events)
      /\ serial' \in Nat /\ conn' \in Nat
  <2>1. /\ socket \in Seq(Frames) /\ pushed \in Seq(Frames) /\ events \in Seq(Events)
        /\ serial \in Nat /\ conn \in Nat
    BY <1>2 DEF Types
  <2>2. socket' \in Seq(Frames)
    <3>1. <<>> \in Seq(Frames)
      OBVIOUS
    <3> QED
      BY <2>1, <3>1, Zenon
  <2> QED
    BY <2>1, <2>2
<1> QED
  BY <1>1, <1>4, <1>6, <1>7, <1>8, StreamStep

(* A new connection, on which nothing was pushed yet.                       *)
LEMMA Connects ==
  ASSUME FeedsInv, UNCHANGED feedVars, UNCHANGED <<socket, events, pushed, serial>>,
         conn' = conn + 1
  PROVE  FeedsInv'
<1>1. PICK q : q = Feed
  OBVIOUS
<1>2. ReadInOrder(q) /\ OnTheWay(q) /\ NoGap(q) /\ Types
  BY <1>1 DEF FeedsInv
<1>3. \A e : Came(e)' <=> Came(e)
  BY DEF Came
<1>4. ReadInOrder(q)'
  BY <1>2, <1>3 DEF ReadInOrder, From
<1>5. \A i \in DOMAIN pushed : pushed[i].conn < conn' /\ pushed[i].conn <= conn'
  <2>1. conn \in Nat /\ \A i \in DOMAIN pushed : pushed[i].conn \in Nat /\ pushed[i].conn <= conn
    BY <1>2, StreamIs DEF OnTheWay, Types
  <2> QED
    BY <2>1
<1>6. OnTheWay(q)'
  BY <1>2, <1>3, <1>5 DEF OnTheWay, Rising, Ordered, From
<1>7. NoGap(q)'
  <2>1. \A f : Kept(q, f)' <=> Kept(q, f)
    BY DEF Kept, Fed, From, InEvents, InSocket
  <2>2. \A f : Fed(q, f)' <=> Fed(q, f)
    BY DEF Fed, From
  <2>3. \A i, j : Before(i, j)' <=> Before(i, j)
    BY DEF Before
  <2>4. conn' \in Nat /\ \A i \in DOMAIN pushed : pushed[i].conn # conn'
    <3>1. conn \in Nat /\ \A i \in DOMAIN pushed : pushed[i].conn \in Nat
      BY <1>2, StreamIs DEF Types
    <3> QED
      BY <1>5, <3>1
  <2>5. writer' = writer
    BY DEF feedVars
  <2> QED
    BY <1>2, <2>1, <2>2, <2>3, <2>4, <2>5 DEF NoGap
<1>8. /\ socket \in Seq(Frames) /\ pushed \in Seq(Frames) /\ events \in Seq(Events)
      /\ serial \in Nat /\ conn \in Nat
  BY <1>2 DEF Types
<1>9. /\ socket' \in Seq(Frames) /\ pushed' \in Seq(Frames) /\ events' \in Seq(Events)
      /\ serial' \in Nat /\ conn' \in Nat
  BY <1>8
<1> QED
  BY <1>1, <1>4, <1>6, <1>7, <1>9, StreamStep

(* The venue pushes a frame on the connection that is read.                 *)
LEMMA PushesFrame ==
  ASSUME FeedsInv, UNCHANGED feedVars, UNCHANGED <<reader, events, conn>>, reader = "reading",
         serial' = serial + 1, NEW kind \in Kinds, NEW b \in Nat,
         socket' = Append(socket, Frame(kind, b)), pushed' = Append(pushed, Frame(kind, b))
  PROVE  FeedsInv'
<1>1. PICK q \in Seq(Cmds) : q = Feed
  BY FeedIs DEF FeedsInv
<1>2. /\ ReadInOrder(q) /\ OnTheWay(q) /\ NoGap(q) /\ Types
  BY <1>1 DEF FeedsInv
<1>3. /\ socket \in Seq(Frames) /\ pushed \in Seq(Frames) /\ events \in Seq(Events)
      /\ serial \in Nat /\ conn \in Nat
  BY <1>2 DEF Types
<1>4. PICK f \in Frames : f = Frame(kind, b)
  <2>1. serial + 1 \in Nat
    BY <1>3
  <2> QED
    BY <1>3, <2>1 DEF Frame, Frames
<1>5. f.serial = serial + 1 /\ f.trade = serial + 1 /\ f.conn = conn /\ f.kind = kind
  BY <1>4 DEF Frame
<1>6. PICK L, M \in Nat : L = Len(pushed) /\ M = Len(socket)
  BY <1>3
<1>7. /\ pushed' \in Seq(Frames) /\ DOMAIN pushed = 1..L /\ DOMAIN pushed' = 1..(L + 1)
      /\ pushed'[L + 1] = f /\ \A i \in 1..L : pushed'[i] = pushed[i]
  BY <1>3, <1>4, <1>6, AppendIs
<1>8. /\ socket' \in Seq(Frames) /\ DOMAIN socket = 1..M /\ DOMAIN socket' = 1..(M + 1)
      /\ socket'[M + 1] = f /\ \A i \in 1..M : socket'[i] = socket[i]
  BY <1>3, <1>4, <1>6, AppendIs
<1>9. /\ \A i \in DOMAIN pushed : i \in DOMAIN pushed' /\ pushed'[i] = pushed[i]
      /\ L + 1 \in DOMAIN pushed'
      /\ \A i \in DOMAIN pushed' : i \in DOMAIN pushed \/ i = L + 1
      /\ \A i, j \in DOMAIN pushed' : i < j => i \in DOMAIN pushed
  BY <1>6, <1>7
<1>10. /\ \A i \in DOMAIN socket : i \in DOMAIN socket' /\ socket'[i] = socket[i]
       /\ M + 1 \in DOMAIN socket'
       /\ \A i \in DOMAIN socket' : i \in DOMAIN socket \/ i = M + 1
       /\ \A i, j \in DOMAIN socket' : i < j => i \in DOMAIN socket
  BY <1>6, <1>8
<1>11. \A e : Came(e) => Came(e)'
  BY <1>9 DEF Came
<1>12. \A i \in DOMAIN pushed : pushed[i].serial < f.serial /\ pushed[i].serial \in Nat
  <2>1. \A i \in DOMAIN pushed : pushed[i].serial <= serial /\ pushed[i].serial \in Nat
    BY <1>2, StreamIs DEF OnTheWay
  <2> QED
    BY <1>3, <1>5, <2>1
<1>13. ASSUME NEW e, Came(e) PROVE e.serial < f.serial
  BY <1>12, <1>13 DEF Came
<1>14. ReadInOrder(q)'
  BY <1>2, <1>11 DEF ReadInOrder, From
<1>15. OnTheWay(q)'
  <2>1. Rising(pushed)'
    <3>1. ASSUME NEW m \in DOMAIN pushed', NEW n \in DOMAIN pushed', m < n
          PROVE  pushed'[m].serial < pushed'[n].serial
      <4>1. m \in DOMAIN pushed /\ pushed'[m] = pushed[m]
        BY <1>9, <3>1
      <4>2. CASE n = L + 1
        BY <1>7, <1>12, <4>1, <4>2
      <4>3. CASE n \in DOMAIN pushed
        BY <1>2, <1>9, <3>1, <4>1, <4>3 DEF OnTheWay, Rising
      <4> QED
        BY <1>9, <4>2, <4>3
    <3> QED
      BY <3>1 DEF Rising
  <2>2. \A i \in DOMAIN pushed' : pushed'[i].serial <= serial' /\ pushed'[i].conn <= conn'
    <3>1. f.serial <= serial' /\ f.conn <= conn' /\ f.conn \in Nat
      BY <1>3, <1>5
    <3>2. \A i \in DOMAIN pushed : pushed[i].serial <= serial /\ pushed[i].conn <= conn
      BY <1>2 DEF OnTheWay
    <3>3. \A i \in DOMAIN pushed : pushed[i].serial <= serial'
      BY <1>3, <1>12, <3>2
    <3> QED
      BY <1>7, <1>9, <3>1, <3>2, <3>3
  <2>3. Ordered(events)' /\ \A n \in DOMAIN events' : Came(events[n])'
    BY <1>2, <1>11 DEF OnTheWay, Ordered
  <2>4. \A n \in DOMAIN socket : /\ socket[n].trade = socket[n].serial
                                 /\ socket[n].serial < f.serial
                                 /\ \E i \in DOMAIN pushed : pushed[i] = socket[n]
    BY <1>2, <1>12 DEF OnTheWay
  <2>5. Rising(socket)'
    <3>1. ASSUME NEW m \in DOMAIN socket', NEW n \in DOMAIN socket', m < n
          PROVE  socket'[m].serial < socket'[n].serial
      <4>1. m \in DOMAIN socket /\ socket'[m] = socket[m]
        BY <1>10, <3>1
      <4>2. CASE n = M + 1
        BY <1>8, <2>4, <4>1, <4>2
      <4>3. CASE n \in DOMAIN socket
        BY <1>2, <1>10, <3>1, <4>1, <4>3 DEF OnTheWay, Rising
      <4> QED
        BY <1>10, <4>2, <4>3
    <3> QED
      BY <3>1 DEF Rising
  <2>6. \A n \in DOMAIN socket' :
          /\ socket'[n].trade = socket'[n].serial
          /\ \E i \in DOMAIN pushed' : pushed'[i] = socket'[n]
    <3> SUFFICES ASSUME NEW n \in DOMAIN socket'
                 PROVE  /\ socket'[n].trade = socket'[n].serial
                        /\ \E i \in DOMAIN pushed' : pushed'[i] = socket'[n]
      OBVIOUS
    <3>1. CASE n = M + 1
      BY <1>5, <1>7, <1>8, <1>9, <3>1
    <3>2. CASE n \in DOMAIN socket
      BY <1>9, <1>10, <2>4, <3>2
    <3> QED
      BY <1>10, <3>1, <3>2
  <2>7. \A n \in From(q, "stream") : q[n].what.serial < f.serial
    BY <1>2, <1>13 DEF ReadInOrder
  <2>8. \A n \in DOMAIN events : events[n].serial < f.serial
    BY <1>2, <1>13 DEF OnTheWay
  <2>9. \A n \in From(q, "stream"), m \in DOMAIN socket' : q[n].what.serial < socket'[m].serial
    BY <1>2, <1>8, <1>10, <2>7 DEF OnTheWay
  <2>10. \A n \in DOMAIN events, m \in DOMAIN socket' : events[n].serial < socket'[m].serial
    BY <1>2, <1>8, <1>10, <2>8 DEF OnTheWay
  <2>11. \A n \in From(q, "stream"), m \in DOMAIN events : q[n].what.serial < events[m].serial
    BY <1>2 DEF OnTheWay
  <2> QED
    BY <2>1, <2>2, <2>3, <2>5, <2>6, <2>9, <2>10, <2>11 DEF OnTheWay, From
<1>16. NoGap(q)'
  <2>1. \A g : Fed(q, g)' <=> Fed(q, g)
    BY DEF Fed, From
  <2>2. ~Fed(q, f)
    <3>1. \A n \in From(q, "stream") : /\ q[n].what.serial < f.serial
                                       /\ q[n].what.serial \in Nat
      BY <1>1, <1>2, <1>13, CmdIs DEF ReadInOrder, From
    <3>2. f.serial \in Nat
      BY <1>3, <1>5
    <3> QED
      BY <3>1, <3>2 DEF Fed
  <2>3. \A g : InSocket(g) => InSocket(g)'
    BY <1>10 DEF InSocket
  <2>4. \A g : Kept(q, g) => Kept(q, g)'
    BY <2>1, <2>3 DEF Kept, InEvents
  <2>5. InSocket(f)'
    BY <1>8, <1>10 DEF InSocket
  <2>6. Kept(q, f)'
    BY <2>5 DEF Kept
  <2>7. ASSUME NEW i \in DOMAIN pushed, Kept(q, pushed[i])' PROVE Kept(q, pushed[i])
    <3>1. ASSUME InSocket(pushed[i])' PROVE InSocket(pushed[i])
      <4>1. PICK n \in DOMAIN socket' : socket'[n].serial = pushed'[i].serial
        BY <3>1 DEF InSocket
      <4>2. pushed'[i] = pushed[i]
        BY <1>9
      <4>3. n # M + 1
        BY <1>3, <1>5, <1>8, <1>12, <4>1, <4>2
      <4> QED
        BY <1>10, <4>1, <4>2, <4>3 DEF InSocket
    <3>2. pushed'[i] = pushed[i]
      BY <1>9
    <3>3. Fed(q, pushed[i])' => Fed(q, pushed[i])
      BY <3>2 DEF Fed, From
    <3>4. InEvents(pushed[i])' => InEvents(pushed[i])
      BY <3>2 DEF InEvents
    <3> QED
      BY <2>7, <3>1, <3>3, <3>4 DEF Kept
  <2>8. ASSUME NEW i \in DOMAIN pushed', NEW j \in DOMAIN pushed', Before(i, j)'
        PROVE  i \in DOMAIN pushed /\ pushed'[i] = pushed[i]
    BY <1>9, <2>8 DEF Before
  <2>9. ASSUME NEW i \in DOMAIN pushed', NEW j \in DOMAIN pushed', Before(i, j)',
               Fed(q, pushed[j])'
        PROVE  Fed(q, pushed[i])'
    <3>1. j # L + 1
      BY <1>7, <2>2, <2>9 DEF Fed, From
    <3>2. j \in DOMAIN pushed /\ pushed'[j] = pushed[j]
      BY <1>9, <3>1
    <3>3. i \in DOMAIN pushed /\ pushed'[i] = pushed[i]
      BY <2>8, <2>9
    <3>4. Before(i, j) /\ Fed(q, pushed[j])
      BY <2>9, <3>2, <3>3 DEF Before, Fed, From
    <3>5. Fed(q, pushed[i])
      BY <1>2, <3>2, <3>3, <3>4 DEF NoGap
    <3> QED
      BY <3>3, <3>5 DEF Fed, From
  <2>10. ASSUME writer # "ended", NEW i \in DOMAIN pushed,
                pushed[i].conn = conn, Decoded(pushed[i])
         PROVE  Kept(q, pushed[i])'
    <3>1. Kept(q, pushed[i])
      BY <1>2, <2>10 DEF NoGap
    <3>2. PICK g : g = pushed[i]
      OBVIOUS
    <3>3. Kept(q, g)'
      BY <2>4, <3>1, <3>2
    <3>4. pushed'[i] = g
      BY <1>9, <3>2
    <3> QED
      BY <3>3, <3>4
  <2>11. ASSUME writer # "ended", NEW i \in DOMAIN pushed', NEW j \in DOMAIN pushed',
                Before(i, j)', Kept(q, pushed[j])'
         PROVE  Kept(q, pushed[i])'
    <3>1. i \in DOMAIN pushed /\ pushed'[i] = pushed[i]
      BY <2>8, <2>11
    <3>2. CASE j = L + 1
      <4>1. pushed[i].conn = conn /\ Decoded(pushed[i])
        BY <1>5, <1>7, <2>11, <3>1, <3>2 DEF Before
      <4> QED
        BY <2>10, <2>11, <3>1, <4>1
    <3>3. CASE j \in DOMAIN pushed
      <4>1. Kept(q, pushed[j]) /\ Before(i, j)
        BY <1>9, <2>7, <2>11, <3>1, <3>3 DEF Before
      <4>2. Kept(q, pushed[i])
        BY <1>2, <2>11, <3>1, <3>3, <4>1 DEF NoGap
      <4>3. PICK g : g = pushed[i]
        OBVIOUS
      <4>4. Kept(q, g)'
        BY <2>4, <4>2, <4>3
      <4> QED
        BY <3>1, <4>3, <4>4
    <3> QED
      BY <1>9, <3>2, <3>3
  <2>12. ASSUME writer # "ended", NEW i \in DOMAIN pushed',
                pushed'[i].conn = conn', Decoded(pushed'[i])
         PROVE  Kept(q, pushed[i])'
    <3>1. CASE i = L + 1
      BY <1>7, <2>6, <3>1
    <3>2. CASE i \in DOMAIN pushed
      BY <1>9, <2>10, <2>12, <3>2
    <3> QED
      BY <1>9, <3>1, <3>2
  <2>13. writer' = writer
    BY DEF feedVars
  <2> QED
    BY <2>9, <2>11, <2>12, <2>13 DEF NoGap, Decoded
<1>17. serial' \in Nat /\ conn' \in Nat /\ events' \in Seq(Events)
  BY <1>3
<1> QED
  BY <1>1, <1>7, <1>8, <1>14, <1>15, <1>16, <1>17, StreamStep

(* The venue pushes a frame that nobody is connected to read.               *)
LEMMA PushesNothing ==
  ASSUME FeedsInv, UNCHANGED feedVars, UNCHANGED <<reader, socket, pushed, events, conn>>,
         serial' = serial + 1
  PROVE  FeedsInv'
<1>1. PICK q : q = Feed
  OBVIOUS
<1>2. ReadInOrder(q) /\ OnTheWay(q) /\ NoGap(q) /\ Types
  BY <1>1 DEF FeedsInv
<1>3. \A e : Came(e)' <=> Came(e)
  BY DEF Came
<1>4. ReadInOrder(q)'
  BY <1>2, <1>3 DEF ReadInOrder, From
<1>5. \A i \in DOMAIN pushed : pushed[i].serial <= serial'
  <2>1. serial \in Nat /\ \A i \in DOMAIN pushed : pushed[i].serial \in Nat /\ pushed[i].serial <= serial
    BY <1>2, StreamIs DEF OnTheWay, Types
  <2> QED
    BY <2>1
<1>6. OnTheWay(q)'
  BY <1>2, <1>3, <1>5 DEF OnTheWay, Rising, Ordered, From
<1>7. NoGap(q)'
  BY <1>2 DEF NoGap, Kept, Fed, From, InEvents, InSocket, Before, feedVars
<1>8. /\ socket \in Seq(Frames) /\ pushed \in Seq(Frames) /\ events \in Seq(Events)
      /\ serial \in Nat /\ conn \in Nat
  BY <1>2 DEF Types
<1>9. /\ socket' \in Seq(Frames) /\ pushed' \in Seq(Frames) /\ events' \in Seq(Events)
      /\ serial' \in Nat /\ conn' \in Nat
  BY <1>8
<1> QED
  BY <1>1, <1>4, <1>6, <1>7, <1>9, StreamStep

(* The events of a frame are numbered in it and carry its serial; a trade's *)
(* is alone.                                                                *)
LEMMA DecodeIs ==
  ASSUME NEW f \in Frames
  PROVE  /\ decode_frame(f) \in Seq(Events)
         /\ \A p \in 1..Len(decode_frame(f)) :
              /\ decode_frame(f)[p].serial = f.serial /\ decode_frame(f)[p].conn = f.conn
              /\ decode_frame(f)[p].place = p
              /\ decode_frame(f)[p].kind = "Fill" => decode_frame(f)[p].exec = f.trade /\ p = 1
<1> DEFINE Right(d) == /\ d \in Seq(Events)
                       /\ \A p \in 1..Len(d) :
                            /\ d[p].serial = f.serial /\ d[p].conn = f.conn /\ d[p].place = p
                            /\ d[p].kind = "Fill" => d[p].exec = f.trade /\ p = 1
<1>1. f.trade \in Nat /\ f.serial \in Nat /\ f.conn \in Nat /\ f.balances \in Nat
  BY DEF Frames
<1>2. ASSUME NEW k \in EventKinds, NEW x \in Nat, NEW n \in Nat,
             k = "Fill" => x = f.trade /\ n = 1
      PROVE  Right(Carried(k, x, f, n))
  <2>1. PICK d : d = Carried(k, x, f, n)
    OBVIOUS
  <2>2. \A p \in 1..n :
          d[p] = [kind |-> k, exec |-> x, place |-> p, serial |-> f.serial, conn |-> f.conn]
    BY <2>1 DEF Carried
  <2>3. ASSUME NEW p \in 1..n PROVE d[p] \in Events
    <3>1. p \in Nat
      OBVIOUS
    <3>2. [kind |-> k, exec |-> x, place |-> p, serial |-> f.serial, conn |-> f.conn] \in Events
      BY <1>1, <1>2, <3>1 DEF Events
    <3> QED
      BY <2>2, <3>2
  <2>4. d \in [1..n -> Events]
    BY <2>1, <2>3 DEF Carried
  <2>5. d \in Seq(Events) /\ Len(d) = n
    BY <2>4
  <2>6. ASSUME NEW p \in 1..Len(d)
        PROVE  /\ d[p].serial = f.serial /\ d[p].conn = f.conn /\ d[p].place = p
               /\ d[p].kind = "Fill" => d[p].exec = f.trade /\ p = 1
    <3>1. /\ d[p].serial = f.serial /\ d[p].conn = f.conn /\ d[p].place = p
          /\ d[p].kind = k /\ d[p].exec = x
      BY <2>2, <2>5
    <3>2. k = "Fill" => p = 1
      BY <1>2, <2>5
    <3> QED
      BY <1>2, <3>1, <3>2
  <2> QED
    BY <2>1, <2>5, <2>6
<1>3. {"Fill", "CancelConfirmed", "Balance", "Mark"} = EventKinds /\ 0 \in Nat /\ 1 \in Nat
  BY DEF EventKinds
<1>4. CASE f.kind = "TRADE"
  <2>1. decode_frame(f) = Carried("Fill", f.trade, f, 1)
    BY <1>4 DEF decode_frame
  <2> HIDE DEF Right
  <2>2. Right(Carried("Fill", f.trade, f, 1))
    BY <1>1, <1>2, <1>3
  <2> QED
    BY <2>1, <2>2 DEF Right
<1>5. CASE f.kind \in {"CANCELED", "EXPIRED"}
  <2>1. decode_frame(f) = Carried("CancelConfirmed", 0, f, 1)
    BY <1>5 DEF decode_frame
  <2> HIDE DEF Right
  <2>2. Right(Carried("CancelConfirmed", 0, f, 1))
    BY <1>2, <1>3
  <2> QED
    BY <2>1, <2>2 DEF Right
<1>6. CASE f.kind = "ACCOUNT_UPDATE"
  <2>1. decode_frame(f) = Carried("Balance", 0, f, f.balances)
    BY <1>6 DEF decode_frame
  <2> HIDE DEF Right
  <2>2. Right(Carried("Balance", 0, f, f.balances))
    BY <1>1, <1>2, <1>3
  <2> QED
    BY <2>1, <2>2 DEF Right
<1>7. CASE f.kind = "markPriceUpdate"
  <2>1. decode_frame(f) = Carried("Mark", 0, f, 1)
    BY <1>7 DEF decode_frame
  <2> HIDE DEF Right
  <2>2. Right(Carried("Mark", 0, f, 1))
    BY <1>2, <1>3
  <2> QED
    BY <2>1, <2>2 DEF Right
<1>8. CASE f.kind \notin {"TRADE", "CANCELED", "EXPIRED", "ACCOUNT_UPDATE", "markPriceUpdate"}
  <2>1. decode_frame(f) = <<>>
    BY <1>8 DEF decode_frame
  <2>2. Right(<<>>)
    OBVIOUS
  <2> HIDE DEF Right
  <2> QED
    BY <2>1, <2>2 DEF Right
<1> HIDE DEF Right
<1>9. Right(decode_frame(f))
  BY <1>4, <1>5, <1>6, <1>7, <1>8 DEF Right
<1> QED
  BY <1>9 DEF Right

(* A sequence without its head.                                             *)
LEMMA TailIs ==
  ASSUME NEW S, NEW s \in Seq(S), s # <<>>
  PROVE  /\ Tail(s) \in Seq(S) /\ Len(s) \in Nat \ {0} /\ Head(s) = s[1] /\ s[1] \in S
         /\ DOMAIN s = 1..Len(s) /\ DOMAIN Tail(s) = 1..(Len(s) - 1)
         /\ \A n \in 1..(Len(s) - 1) : Tail(s)[n] = s[n + 1]
  OBVIOUS

(* The events t are the events s with the frame h decoded at their end.     *)
Grown(s, t, h) ==
  /\ t \in Seq(Events) /\ DOMAIN s \subseteq DOMAIN t
  /\ \A n \in DOMAIN s : t[n] = s[n]
  /\ \A n \in DOMAIN t \ DOMAIN s :
       /\ \A m \in DOMAIN s : m < n
       /\ \A m \in DOMAIN t \ DOMAIN s : m < n => t[m].place < t[n].place
       /\ t[n].serial = h.serial /\ t[n].conn = h.conn
       /\ t[n].kind = "Fill" => t[n].exec = h.trade /\ t[n].place = 1
       /\ Decoded(h)
  /\ Decoded(h) => \E n \in DOMAIN t : t[n].serial = h.serial

(* What the reader has decoded grows by one frame.                          *)
LEMMA EventsGrow ==
  ASSUME NEW h \in Frames, NEW s \in Seq(Events)
  PROVE  Grown(s, s \o decode_frame(h), h)
<1>1. PICK d \in Seq(Events) : d = decode_frame(h)
  BY DecodeIs
<1>2. \A p \in 1..Len(d) : /\ d[p].serial = h.serial /\ d[p].conn = h.conn /\ d[p].place = p
                           /\ d[p].kind = "Fill" => d[p].exec = h.trade /\ p = 1
  BY <1>1, DecodeIs
<1>3. PICK t : t = s \o d
  OBVIOUS
<1>4. PICK L \in Nat, N \in Nat : L = Len(s) /\ N = Len(d)
  OBVIOUS
<1>5. /\ t \in Seq(Events) /\ DOMAIN t = 1..(L + N) /\ DOMAIN s = 1..L
      /\ \A n \in 1..L : t[n] = s[n]
      /\ \A n \in (L + 1)..(L + N) : t[n] = d[n - L]
  <2>1. /\ s \o d \in Seq(Events)
        /\ DOMAIN (s \o d) = 1..(Len(s) + Len(d))
        /\ \A n \in 1..Len(s) : (s \o d)[n] = s[n]
        /\ \A n \in (Len(s) + 1)..(Len(s) + Len(d)) : (s \o d)[n] = d[n - Len(s)]
    BY ConcatIs
  <2> QED
    BY <1>3, <1>4, <2>1
<1>6. \A n : n \in DOMAIN t \ DOMAIN s <=> n \in (L + 1)..(L + N)
  BY <1>4, <1>5
<1>7. Decoded(h) <=> N # 0
  BY <1>1, <1>4 DEF Decoded
<1>8. ASSUME NEW n \in (L + 1)..(L + N)
      PROVE  /\ t[n].serial = h.serial /\ t[n].conn = h.conn /\ t[n].place = n - L
             /\ t[n].kind = "Fill" => t[n].exec = h.trade /\ t[n].place = 1
             /\ n \in Nat /\ N # 0
  <2>1. n - L \in 1..N /\ n \in Nat /\ N # 0
    BY <1>4
  <2>2. PICK p \in 1..N : p = n - L
    BY <2>1
  <2>3. t[n] = d[p] /\ p \in 1..Len(d)
    BY <1>4, <1>5, <2>2
  <2>4. /\ d[p].serial = h.serial /\ d[p].conn = h.conn /\ d[p].place = p
        /\ d[p].kind = "Fill" => d[p].exec = h.trade /\ p = 1
    BY <1>2, <2>3
  <2>5. /\ t[n].serial = h.serial /\ t[n].conn = h.conn /\ t[n].place = p
        /\ t[n].kind = "Fill" => t[n].exec = h.trade /\ t[n].place = 1
    BY <2>3, <2>4
  <2> QED
    BY <2>1, <2>2, <2>5
<1>9. DOMAIN s \subseteq DOMAIN t
  BY <1>4, <1>5
<1>10. ASSUME NEW n \in DOMAIN t \ DOMAIN s
       PROVE  /\ \A m \in DOMAIN s : m < n
              /\ \A m \in DOMAIN t \ DOMAIN s : m < n => t[m].place < t[n].place
              /\ t[n].serial = h.serial /\ t[n].conn = h.conn
              /\ t[n].kind = "Fill" => t[n].exec = h.trade /\ t[n].place = 1
              /\ Decoded(h)
  <2>1. n \in (L + 1)..(L + N)
    BY <1>6
  <2>2. \A m \in DOMAIN s : m < n
    BY <1>4, <1>5, <2>1
  <2>3. ASSUME NEW m \in DOMAIN t \ DOMAIN s, m < n PROVE t[m].place < t[n].place
    <3>1. m \in (L + 1)..(L + N)
      BY <1>6
    <3>2. t[m].place = m - L /\ t[n].place = n - L
      BY <1>8, <2>1, <3>1
    <3> QED
      BY <1>4, <2>1, <2>3, <3>1, <3>2
  <2> QED
    BY <1>7, <1>8, <2>1, <2>2, <2>3
<1>11. ASSUME Decoded(h) PROVE \E n \in DOMAIN t : t[n].serial = h.serial
  <2>1. L + 1 \in (L + 1)..(L + N) /\ L + 1 \in DOMAIN t
    BY <1>4, <1>5, <1>7, <1>11
  <2> QED
    BY <1>8, <2>1
<1>12. Grown(s, t, h)
  BY <1>5, <1>9, <1>10, <1>11 DEF Grown
<1> QED
  BY <1>1, <1>3, <1>12

(* The reader takes a frame off the connection and decodes it.              *)
LEMMA ReadsFrame ==
  ASSUME FeedsInv, UNCHANGED feedVars, UNCHANGED <<reader, pushed, serial, conn>>,
         socket # <<>>, socket' = Tail(socket), events' = events \o decode_frame(Head(socket))
  PROVE  FeedsInv'
<1>1. PICK q \in Seq(Cmds) : q = Feed
  BY FeedIs DEF FeedsInv
<1>2. ReadInOrder(q) /\ OnTheWay(q) /\ NoGap(q) /\ Types
  BY <1>1 DEF FeedsInv
<1>3. /\ socket \in Seq(Frames) /\ pushed \in Seq(Frames) /\ events \in Seq(Events)
      /\ serial \in Nat /\ conn \in Nat
  BY <1>2 DEF Types
<1>4. PICK h \in Frames : h = socket[1] /\ h = Head(socket)
  BY <1>3, TailIs
<1>5. PICK M \in Nat : M = Len(socket) /\ M # 0
  BY <1>3, TailIs
<1>6. /\ socket' \in Seq(Frames) /\ DOMAIN socket = 1..M /\ DOMAIN socket' = 1..(M - 1)
      /\ \A n \in 1..(M - 1) : socket'[n] = socket[n + 1]
  BY <1>3, <1>5, TailIs
<1>7. /\ \A n \in DOMAIN socket' : /\ n + 1 \in DOMAIN socket /\ socket'[n] = socket[n + 1]
                                   /\ 1 < n + 1 /\ n \in Nat
      /\ 1 \in DOMAIN socket
      /\ \A n \in DOMAIN socket : n = 1 \/ (n - 1 \in DOMAIN socket' /\ socket'[n - 1] = socket[n])
  BY <1>5, <1>6
<1>8. events' = events \o decode_frame(h)
  BY <1>4
<1>9. /\ events' \in Seq(Events) /\ DOMAIN events \subseteq DOMAIN events'
      /\ \A n \in DOMAIN events : events'[n] = events[n]
      /\ \A n \in DOMAIN events' \ DOMAIN events :
           /\ \A m \in DOMAIN events : m < n
           /\ \A m \in DOMAIN events' \ DOMAIN events :
                m < n => events'[m].place < events'[n].place
           /\ events'[n].serial = h.serial /\ events'[n].conn = h.conn
           /\ events'[n].kind = "Fill" => events'[n].exec = h.trade /\ events'[n].place = 1
           /\ Decoded(h)
      /\ Decoded(h) => \E n \in DOMAIN events' : events'[n].serial = h.serial
  <2>1. events \in Seq(Events)
    BY <1>3
  <2>2. Grown(events, events', h)
    BY <1>8, <2>1, EventsGrow
  <2> QED
    BY <2>2 DEF Grown
<1>10. h.trade = h.serial /\ \E i \in DOMAIN pushed : pushed[i] = h
  BY <1>2, <1>4, <1>7 DEF OnTheWay
<1>11. \A e : Came(e)' <=> Came(e)
  BY DEF Came
<1>12. ReadInOrder(q)'
  BY <1>2, <1>11 DEF ReadInOrder, From
<1>13. \A n \in DOMAIN socket' : h.serial < socket'[n].serial
  BY <1>2, <1>4, <1>7 DEF OnTheWay, Rising
<1>14. \A n \in DOMAIN events : events[n].serial < h.serial
  BY <1>2, <1>4, <1>7 DEF OnTheWay
<1>15. OnTheWay(q)'
  <2>1. Rising(pushed)' /\ \A i \in DOMAIN pushed' : pushed'[i].serial <= serial' /\ pushed'[i].conn <= conn'
    BY <1>2 DEF OnTheWay, Rising
  <2>2. Ordered(events)'
    <3>1. ASSUME NEW m \in DOMAIN events', NEW n \in DOMAIN events', m < n
          PROVE  Precedes(events'[m], events'[n])
      <4>1. m \in Nat /\ n \in Nat
        BY <1>9
      <4>2. CASE n \in DOMAIN events
        <5>1. m \in DOMAIN events
          BY <1>9, <3>1, <4>1, <4>2
        <5> QED
          BY <1>2, <1>9, <3>1, <4>2, <5>1 DEF OnTheWay, Ordered
      <4>3. CASE n \notin DOMAIN events /\ m \in DOMAIN events
        BY <1>9, <1>14, <4>3 DEF Precedes
      <4>4. CASE n \notin DOMAIN events /\ m \notin DOMAIN events
        <5>1. /\ events'[m].place < events'[n].place
              /\ events'[m].serial = h.serial /\ events'[n].serial = h.serial
          BY <1>9, <3>1, <4>4
        <5> QED
          BY <5>1 DEF Precedes
      <4> QED
        BY <4>2, <4>3, <4>4
    <3> QED
      BY <3>1 DEF Ordered
  <2>3. ASSUME NEW n \in DOMAIN events' PROVE Came(events'[n])
    <3>1. CASE n \in DOMAIN events
      BY <1>2, <1>9, <3>1 DEF OnTheWay
    <3>2. CASE n \notin DOMAIN events
      <4>1. /\ events'[n].serial = h.serial /\ events'[n].conn = h.conn
            /\ events'[n].kind = "Fill" => events'[n].exec = h.trade /\ events'[n].place = 1
            /\ Decoded(h)
        BY <1>9, <3>2
      <4>2. PICK i \in DOMAIN pushed : pushed[i] = h
        BY <1>10
      <4> QED
        BY <1>10, <4>1, <4>2 DEF Came
    <3> QED
      BY <3>1, <3>2
  <2>4. \A n \in DOMAIN events' : Came(events[n])'
    BY <2>3 DEF Came
  <2>5. Rising(socket)'
    <3>1. ASSUME NEW m \in DOMAIN socket', NEW n \in DOMAIN socket', m < n
          PROVE  socket'[m].serial < socket'[n].serial
      <4>1. m + 1 < n + 1
        BY <1>7, <3>1
      <4> QED
        BY <1>2, <1>7, <4>1 DEF OnTheWay, Rising
    <3> QED
      BY <3>1 DEF Rising
  <2>6. \A n \in DOMAIN socket' :
          /\ socket'[n].trade = socket'[n].serial
          /\ \E i \in DOMAIN pushed' : pushed'[i] = socket'[n]
    BY <1>2, <1>7 DEF OnTheWay
  <2>7. \A n \in From(q, "stream"), m \in DOMAIN socket' : q[n].what.serial < socket'[m].serial
    BY <1>2, <1>7 DEF OnTheWay
  <2>8. \A n \in From(q, "stream") : q[n].what.serial < h.serial
    BY <1>2, <1>4, <1>7 DEF OnTheWay
  <2>9. \A n \in From(q, "stream"), m \in DOMAIN events' : q[n].what.serial < events'[m].serial
    <3> SUFFICES ASSUME NEW n \in From(q, "stream"), NEW m \in DOMAIN events'
                 PROVE  q[n].what.serial < events'[m].serial
      OBVIOUS
    <3>1. CASE m \in DOMAIN events
      BY <1>2, <1>9, <3>1 DEF OnTheWay
    <3>2. CASE m \notin DOMAIN events
      BY <1>9, <2>8, <3>2
    <3> QED
      BY <3>1, <3>2
  <2>10. \A n \in DOMAIN events', m \in DOMAIN socket' : events'[n].serial < socket'[m].serial
    <3> SUFFICES ASSUME NEW n \in DOMAIN events', NEW m \in DOMAIN socket'
                 PROVE  events'[n].serial < socket'[m].serial
      OBVIOUS
    <3>1. CASE n \in DOMAIN events
      BY <1>2, <1>7, <1>9, <3>1 DEF OnTheWay
    <3>2. CASE n \notin DOMAIN events
      BY <1>9, <1>13, <3>2
    <3> QED
      BY <3>1, <3>2
  <2> QED
    BY <2>1, <2>2, <2>4, <2>5, <2>6, <2>7, <2>9, <2>10 DEF OnTheWay, From
<1>16. NoGap(q)'
  <2>1. \A f : Fed(q, f)' <=> Fed(q, f)
    BY DEF Fed, From
  <2>2. ASSUME NEW f, Kept(q, f)' PROVE Kept(q, f)
    <3>1. CASE Fed(q, f)'
      BY <2>1, <3>1 DEF Kept
    <3>2. CASE InEvents(f)'
      <4>1. PICK n \in DOMAIN events' : events'[n].serial = f.serial
        BY <3>2 DEF InEvents
      <4>2. CASE n \in DOMAIN events
        BY <1>9, <4>1, <4>2 DEF Kept, InEvents
      <4>3. CASE n \notin DOMAIN events
        <5>1. socket[1].serial = f.serial
          BY <1>4, <1>9, <4>1, <4>3
        <5> QED
          BY <1>7, <5>1 DEF Kept, InSocket
      <4> QED
        BY <4>2, <4>3
    <3>3. CASE InSocket(f)'
      BY <1>7, <3>3 DEF Kept, InSocket
    <3> QED
      BY <2>2, <3>1, <3>2, <3>3 DEF Kept
  <2>3. ASSUME NEW i \in DOMAIN pushed, Decoded(pushed[i]), Kept(q, pushed[i])
        PROVE  Kept(q, pushed[i])'
    <3>1. PICK f : f = pushed[i]
      OBVIOUS
    <3> SUFFICES Kept(q, f)'
      BY <3>1
    <3>2. CASE Fed(q, f)
      BY <2>1, <3>2 DEF Kept
    <3>3. CASE InEvents(f)
      BY <1>9, <3>3 DEF Kept, InEvents
    <3>4. CASE InSocket(f)
      <4>1. PICK n \in DOMAIN socket : socket[n].serial = f.serial
        BY <3>4 DEF InSocket
      <4>2. CASE n # 1
        <5>1. n - 1 \in DOMAIN socket' /\ socket'[n - 1].serial = f.serial
          BY <1>7, <4>1, <4>2
        <5> QED
          BY <5>1 DEF Kept, InSocket
      <4>3. CASE n = 1
        <5>1. PICK j \in DOMAIN pushed : pushed[j] = h
          BY <1>10
        <5>2. pushed[i].serial = pushed[j].serial /\ pushed[i].serial \in Nat
          BY <1>2, <1>4, <3>1, <4>1, <4>3, <5>1, StreamIs
        <5>3. i \in Nat /\ j \in Nat
          BY <1>2, StreamIs
        <5>4. i = j
          <6>1. \A a, b \in DOMAIN pushed : a < b => pushed[a].serial < pushed[b].serial
            BY <1>2 DEF OnTheWay, Rising
          <6>2. ~(i < j) /\ ~(j < i)
            BY <5>2, <6>1
          <6> QED
            BY <5>3, <6>2
        <5>5. Decoded(h) /\ h.serial = f.serial
          BY <2>3, <3>1, <5>1, <5>4
        <5> QED
          BY <1>9, <5>5 DEF Kept, InEvents
      <4> QED
        BY <4>2, <4>3
    <3> QED
      BY <2>3, <3>1, <3>2, <3>3, <3>4 DEF Kept
  <2>4. \A i, j : Before(i, j)' <=> Before(i, j)
    BY DEF Before
  <2>5. ASSUME NEW i \in DOMAIN pushed, Kept(q, pushed[i])' PROVE Kept(q, pushed[i])
    <3>1. PICK f : f = pushed[i]
      OBVIOUS
    <3>2. Kept(q, f)'
      BY <2>5, <3>1
    <3> QED
      BY <2>2, <3>1, <3>2
  <2>6. ASSUME writer # "ended", NEW i \in DOMAIN pushed, NEW j \in DOMAIN pushed,
               Before(i, j), Kept(q, pushed[j])'
        PROVE  Kept(q, pushed[i])'
    <3>1. Kept(q, pushed[i])
      BY <1>2, <2>5, <2>6 DEF NoGap
    <3> QED
      BY <2>3, <2>6, <3>1 DEF Before
  <2>7. ASSUME writer # "ended", reader = "reading", NEW i \in DOMAIN pushed,
               pushed[i].conn = conn, Decoded(pushed[i])
        PROVE  Kept(q, pushed[i])'
    BY <1>2, <2>3, <2>7 DEF NoGap
  <2>8. \A i, j \in DOMAIN pushed : Before(i, j) /\ Fed(q, pushed[j])' => Fed(q, pushed[i])'
    BY <1>2 DEF NoGap, Fed, From
  <2>9. writer' = writer
    BY DEF feedVars
  <2> QED
    BY <2>4, <2>6, <2>7, <2>8, <2>9 DEF NoGap
<1>17. serial' \in Nat /\ conn' \in Nat /\ pushed' \in Seq(Frames)
  BY <1>3
<1> QED
  BY <1>1, <1>6, <1>9, <1>12, <1>15, <1>16, <1>17, StreamStep

(* Every step of the stream's thread.                                       *)
LEMMA Streams ==
  ASSUME FeedsInv, NEW wanted, StreamNext(wanted), UNCHANGED feedVars
  PROVE  FeedsInv'
<1>1. CASE OpenKey(wanted)
  <2>1. CASE reader' = "reading" /\ conn' = conn + 1 /\ UNCHANGED <<socket, drops>>
    <3>1. UNCHANGED <<socket, events, pushed, serial>>
      BY <1>1, <2>1 DEF OpenKey
    <3> QED
      BY <2>1, <3>1, Connects
  <2>2. CASE Dropped /\ Reconnect /\ UNCHANGED conn
    <3>1. UNCHANGED <<events, pushed, serial, conn>> /\ socket' = <<>> /\ reader' = "backoff"
      BY <1>1, <2>2 DEF OpenKey, Reconnect
    <3> QED
      BY <3>1, NotReading
  <2> QED
    BY <1>1, <2>1, <2>2 DEF OpenKey
<1>2. CASE Wake
  <2>1. UNCHANGED <<socket, events, pushed, serial, conn>> /\ reader' = "open"
    BY <1>2 DEF Wake
  <2> QED
    BY <2>1, NotReading
<1>3. CASE Breaks
  <2>1. UNCHANGED <<events, pushed, serial, conn>> /\ socket' = <<>> /\ reader' = "backoff"
    BY <1>3 DEF Breaks, Reconnect
  <2> QED
    BY <2>1, NotReading
<1>4. CASE ReadFrame(wanted)
  <2>1. CASE Reconnect /\ UNCHANGED events
    <3>1. UNCHANGED <<events, pushed, serial, conn>> /\ socket' = <<>> /\ reader' = "backoff"
      BY <1>4, <2>1 DEF ReadFrame, Reconnect
    <3> QED
      BY <3>1, NotReading
  <2>2. CASE /\ socket' = Tail(socket) /\ events' = events \o decode_frame(Head(socket))
             /\ UNCHANGED reader
    <3>1. UNCHANGED <<reader, pushed, serial, conn>> /\ socket # <<>>
      BY <1>4, <2>2 DEF ReadFrame
    <3> QED
      BY <2>2, <3>1, ReadsFrame
  <2> QED
    BY <1>4, <2>1, <2>2 DEF ReadFrame
<1>5. CASE Ends(wanted)
  <2>1. UNCHANGED <<events, pushed, serial, conn>> /\ socket' = <<>> /\ reader' = "ended"
    BY <1>5 DEF Ends
  <2> QED
    BY <2>1, NotReading
<1>6. CASE \E kind \in Kinds :
             \E b \in IF kind = "ACCOUNT_UPDATE" THEN Readable ELSE {0} : Push(kind, b)
  <2>1. PICK kind \in Kinds, b \in Nat : Push(kind, b)
    BY <1>6, ReadableAssumption
  <2>2. serial' = serial + 1 /\ UNCHANGED <<reader, events, conn>>
    BY <2>1 DEF Push
  <2>3. CASE reader = "reading"
    <3>1. socket' = Append(socket, Frame(kind, b)) /\ pushed' = Append(pushed, Frame(kind, b))
      BY <2>1, <2>3 DEF Push
    <3> QED
      BY <2>2, <2>3, <3>1, PushesFrame
  <2>4. CASE reader # "reading"
    <3>1. UNCHANGED <<socket, pushed>>
      BY <2>1, <2>4 DEF Push
    <3> QED
      BY <2>2, <3>1, PushesNothing
  <2> QED
    BY <2>3, <2>4
<1> QED
  BY <1>1, <1>2, <1>3, <1>4, <1>5, <1>6 DEF StreamNext

(* A step that changes nothing.                                             *)
LEMMA Stutters ==
  ASSUME FeedsInv, UNCHANGED vars
  PROVE  FeedsInv'
<1>1. UNCHANGED streamVars /\ UNCHANGED feedVars
  BY DEF vars
<1>2. UNCHANGED <<streamVars, line, answers>> /\ Feed' = Feed /\ writer' = writer
  BY <1>1 DEF feedVars, Feed
<1>3. Types'
  BY <1>1 DEF FeedsInv, Types, streamVars, feedVars
<1>4. Stopping'
  <2>1. \A k : Taken(Feed, k)' <=> Taken(Feed, k)
    BY <1>2 DEF Taken
  <2>2. \A k : Taken(applied, k)' <=> Taken(applied, k)
    BY <1>1 DEF Taken, feedVars
  <2>3. UNCHANGED <<writer, worker, running, fatal, inTime, durable, applied, undrained>>
    BY <1>1 DEF feedVars
  <2> QED
    BY <2>1, <2>2, <2>3 DEF FeedsInv, Stopping, PastDrain
<1> QED
  BY <1>2, <1>3, <1>4, KeptWhole

(* Nothing has been said, pushed or applied.                                *)
LEMMA FeedsInit ==
  ASSUME Init
  PROVE  FeedsInv
<1>1. /\ socket = <<>> /\ events = <<>> /\ pushed = <<>> /\ serial = 0 /\ conn = 0
      /\ line = 0 /\ answers = <<>> /\ commands = <<>> /\ writer = "wait" /\ applied = <<>>
      /\ durable = 0 /\ running = TRUE /\ fatal = 0 /\ inTime = {}
      /\ worker = "loop"
  BY DEF Init, StreamInit
<1>8. undrained \in BOOLEAN /\ ~undrained
  BY Zenon DEF Init
<1>2. Feed = <<>>
  BY <1>1 DEF Feed
<1>3. Types
  BY <1>1, <1>8 DEF Types
<1>4. DOMAIN socket = {} /\ DOMAIN events = {} /\ DOMAIN pushed = {} /\ DOMAIN Feed = {}
  BY <1>1, <1>2
<1>5. SaidInOrder(Feed) /\ ReadInOrder(Feed) /\ OnTheWay(Feed)
  BY <1>4 DEF SaidInOrder, ReadInOrder, OnTheWay, Rising, Ordered, From
<1>6. NoGap(Feed)
  BY <1>4 DEF NoGap
<1>7. Stopping
  BY <1>1, <1>8 DEF Stopping, PastDrain
<1> QED
  BY <1>3, <1>5, <1>6, <1>7 DEF FeedsInv

(* The invariant holds of every behaviour of the process.                   *)
LEMMA FeedsInvHolds == Spec => []FeedsInv
<1>1. Init => FeedsInv
  BY FeedsInit
<1>2. FeedsInv /\ [Next]_vars => FeedsInv'
  <2> SUFFICES ASSUME FeedsInv, [Next]_vars
               PROVE  FeedsInv'
    OBVIOUS
  <2>1. CASE HandleLine
    BY <2>1, Handles
  <2>2. CASE WorkerForwards
    BY <2>2, Forwards
  <2>3. CASE WorkerEnds \/ WriterFlushes \/ WriterSeesStop \/ LastFlush \/ MainStops \/ MainExits
    BY <2>3, Unmoved
  <2>4. CASE WriterApplies
    BY <2>4, Applies
  <2>5. CASE WriterDrains
    BY <2>5, Drains
  <2>6. CASE Up /\ StreamNext(Wanted) /\ UNCHANGED feedVars
    BY <2>6, Streams
  <2>7. CASE UNCHANGED vars
    BY <2>7, Stutters
  <2> QED
    BY <2>1, <2>2, <2>3, <2>4, <2>5, <2>6, <2>7 DEF Next
<1> QED
  BY <1>1, <1>2, PTL DEF Spec

(* What the engine applies is what was said, in the order it was said: the  *)
(* control thread's, the worker's and the stream thread's steps and the     *)
(* writer's batches, in any interleaving, and up to any fatal error.        *)
THEOREM AppliedInOrder == Spec => []FedInOrder
<1>1. FeedsInv => FedInOrder
  <2> SUFFICES ASSUME FeedsInv
               PROVE  FedInOrder
    OBVIOUS
  <2>1. PICK q : q = Feed
    OBVIOUS
  <2>2. Types /\ SaidInOrder(q) /\ ReadInOrder(q) /\ OnTheWay(q) /\ NoGap(q)
    BY <2>1 DEF FeedsInv
  <2>3. /\ DOMAIN applied \subseteq DOMAIN q /\ \A n \in DOMAIN applied : applied[n] = q[n]
        /\ \A n \in DOMAIN applied : n \in Nat
        /\ \A n \in DOMAIN q : q[n] \in Cmds /\ n \in Nat
    BY <2>1, <2>2, FeedIs
  <2>4. \A src : \A n \in From(applied, src) : n \in From(q, src) /\ applied[n] = q[n]
    BY <2>3 DEF From
  <2>5. /\ \A n \in From(applied, "control") : answers[applied[n].what]
        /\ \A m, n \in From(applied, "control") : m < n => applied[m].what < applied[n].what
    BY <2>2, <2>4 DEF SaidInOrder
  <2>6. \A m, n \in From(applied, "stream") :
          m < n => Precedes(applied[m].what, applied[n].what)
    BY <2>2, <2>4 DEF ReadInOrder
  <2>7. \A n \in From(applied, "stream") : Came(applied[n].what)
    BY <2>2, <2>4 DEF ReadInOrder
  <2>8. ASSUME NEW i \in DOMAIN pushed, NEW j \in DOMAIN pushed, Before(i, j),
               Fed(applied, pushed[j])
        PROVE  Fed(applied, pushed[i])
    <3>1. PICK n \in From(applied, "stream") : applied[n].what.serial = pushed[j].serial
      BY <2>8 DEF Fed
    <3>2. n \in From(q, "stream") /\ q[n].what.serial = pushed[j].serial /\ n \in DOMAIN applied
      BY <2>4, <3>1 DEF From
    <3>3. Fed(q, pushed[i])
      BY <2>2, <2>8, <3>2 DEF NoGap, Fed
    <3>4. PICK m \in From(q, "stream") : q[m].what.serial = pushed[i].serial
      BY <3>3 DEF Fed
    <3>5. pushed[i].serial < pushed[j].serial /\ pushed[i].serial \in Nat /\ pushed[j].serial \in Nat
      BY <2>2, <2>8, StreamIs DEF OnTheWay, Rising, Before
    <3>6. m \in Nat /\ n \in Nat
      BY <2>3, <3>2, <3>4 DEF From
    <3>7. ~(n < m)
      <4>1. ASSUME n < m PROVE FALSE
        <5>1. Precedes(q[n].what, q[m].what)
          BY <2>2, <3>2, <3>4, <4>1 DEF ReadInOrder
        <5> QED
          BY <3>2, <3>4, <3>5, <5>1 DEF Precedes
      <4> QED
        BY <4>1
    <3>8. m \in DOMAIN applied
      <4>1. DOMAIN applied = 1..Len(applied) /\ Len(applied) \in Nat /\ DOMAIN q = 1..Len(q)
        BY <2>1, <2>2, FeedIs
      <4>2. m \in DOMAIN q
        BY <3>4 DEF From
      <4> QED
        BY <3>2, <3>6, <3>7, <4>1, <4>2
    <3> QED
      BY <2>3, <3>4, <3>8 DEF Fed, From
  <2>9. ASSUME NEW m \in From(applied, "stream"), NEW n \in From(applied, "stream"), m # n,
               applied[m].what.kind = "Fill", applied[n].what.kind = "Fill"
        PROVE  applied[m].what.exec # applied[n].what.exec
    <3>1. /\ applied[m].what.exec = applied[m].what.serial
          /\ applied[n].what.exec = applied[n].what.serial
          /\ applied[m].what.place = 1 /\ applied[n].what.place = 1
      BY <2>7, <2>9 DEF Came
    <3>2. applied[m].what.serial \in Nat /\ applied[n].what.serial \in Nat
      BY <2>3, CmdIs DEF From
    <3>3. m \in Nat /\ n \in Nat
      BY <2>3 DEF From
    <3>4. m < n \/ n < m
      BY <2>9, <3>3
    <3>5. applied[m].what.serial # applied[n].what.serial
      BY <2>6, <2>9, <3>1, <3>2, <3>4 DEF Precedes
    <3> QED
      BY <3>1, <3>5
  <2> QED
    BY <2>5, <2>6, <2>7, <2>8, <2>9 DEF FedInOrder, Came, Before
<1> QED
  BY <1>1, FeedsInvHolds, PTL

(* The drain loses nothing that was accepted before the stop, and a writer  *)
(* that leaves without it loses only the last of what was accepted:         *)
(* whichever of the control thread, the worker, the writer and main moves   *)
(* first after the flag goes down.                                          *)
THEOREM AcceptedIsDrained == Spec => []DrainKeepsAccepted
<1>1. FeedsInv => DrainKeepsAccepted
  <2> SUFFICES ASSUME FeedsInv, writer = "ended", fatal = 0
               PROVE  /\ durable = Len(applied)
                      /\ ~undrained => \A k \in inTime : Durable(k)
                      /\ \A j, k \in inTime : j < k /\ Durable(k) => Durable(j)
    BY DEF DrainKeepsAccepted
  <2>1. Stopping /\ Types /\ SaidInOrder(Feed)
    BY DEF FeedsInv
  <2>2. durable = Len(applied)
    BY <2>1 DEF Stopping
  <2>3. DOMAIN applied = 1..durable
    BY <2>1, <2>2, FeedIs
  <2>4. \A k : Durable(k) <=> Taken(applied, k)
    BY <2>3 DEF Durable, Taken
  <2>5. ~undrained => \A k \in inTime : Durable(k)
    BY <2>1, <2>4 DEF Stopping, PastDrain
  <2>6. ASSUME NEW j \in inTime, NEW k \in inTime, j < k, Taken(applied, k)
        PROVE  Taken(applied, j)
    <3>1. PICK q : q = Feed
      OBVIOUS
    <3>2. /\ DOMAIN applied = 1..Len(applied) /\ Len(applied) \in Nat
          /\ \A n \in DOMAIN applied : n \in DOMAIN q /\ applied[n] = q[n]
          /\ \A n \in DOMAIN q : n \in 1..(Len(applied) + Len(commands))
          /\ Len(commands) \in Nat
      BY <2>1, <3>1, FeedIs
    <3>3. PICK n \in DOMAIN applied : applied[n] = FromControl(k)
      BY <2>6 DEF Taken
    <3>4. PICK m \in DOMAIN q : q[m] = FromControl(j)
      BY <2>1, <3>1 DEF Stopping, Taken
    <3>5. n \in From(q, "control") /\ q[n].what = k /\ m \in From(q, "control") /\ q[m].what = j
      BY <3>2, <3>3, <3>4 DEF From, FromControl
    <3>6. \A a, b \in From(q, "control") : a < b => q[a].what < q[b].what
      BY <2>1, <3>1 DEF SaidInOrder
    <3>7. j \in Nat /\ k \in Nat
      BY <2>1 DEF Types
    <3>8. n \in Nat /\ m \in Nat
      BY <3>2, <3>3, <3>4
    <3>9. ~(n < m)
      <4>1. n < m => k < j
        BY <3>5, <3>6
      <4> QED
        BY <2>6, <3>7, <4>1
    <3>10. m \in DOMAIN applied
      BY <3>2, <3>3, <3>4, <3>8, <3>9
    <3> QED
      BY <3>2, <3>4, <3>10 DEF Taken
  <2> QED
    BY <2>2, <2>4, <2>5, <2>6
<1> QED
  BY <1>1, FeedsInvHolds, PTL
=============================================================================
