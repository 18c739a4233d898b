------------------------------ MODULE Sentineld ------------------------------
(***************************************************************************)
(* sentineld: the writer, the venue worker and the ticker, the channels    *)
(* between them, the venue they talk to, and the process dying and coming  *)
(* back.                                                                   *)
(*                                                                         *)
(*   ticker, operator -> writer -> requests -> venue worker -> commands    *)
(*                         ^                                        |      *)
(*                         +----------------------------------------+      *)
(*                                                                         *)
(* The commands channel holds what the worker posted.  A command of the    *)
(* ticker or of an operator may be queued between any two of those, so it  *)
(* is applied at any moment.  A batch may end after any command, so the    *)
(* writer flushes at any moment too.                                       *)
(***************************************************************************)
EXTENDS Engine

CONSTANTS Inherited,      \* what the account held before this log began
          SweepEvery,     \* sweep_interval, in ticks
          MaxNow,         \* bound: ticks of the wall clock
          MaxQueue,       \* bound: the ticker waits while this much is queued
          MaxFaults,      \* bound: failures of the venue and its stream
          MaxCrashes,     \* bound: deaths of the process
          MaxReplays,     \* bound: repeated Place, and the operator's commands
          Faults          \* the kinds of failure that may happen

FaultKinds == {"TimeoutButAccepted", "TimeoutAndAbsent", "AcceptButSilent",
               "Reject", "SubmitError", "CancelTimeout", "CancelError",
               "LookupTimeout", "LookupError", "PositionsError",
               "StreamGap", "Redelivery", "UnsolicitedCancel", "OverMatch"}

ASSUME BoundsAssumption ==
  /\ Inherited \in Int
  /\ SweepEvery \in Nat \ {0}
  /\ MaxNow \in Nat /\ MaxQueue \in Nat /\ MaxFaults \in Nat
  /\ MaxCrashes \in Nat /\ MaxReplays \in Nat
  /\ Faults \subseteq FaultKinds

VARIABLES
  engine,     \* the writer's memory and its journal
  mode,       \* "up", "stopping", "down", or "dead": refused to start
  worker,     \* where the venue worker is in its loop: "drain" or "perform"
  requests,   \* channel from the writer to the venue worker
  commands,   \* channel from the venue worker to the writer
  venue,      \* the venue's own orders
  stream,     \* events the venue has pushed and the worker not yet drained
  wall,       \* the wall clock
  sinceSweep, \* ticks the ticker has sent since its last sweep
  faults, crashes, replays,   \* how much of each bound has been used
  submits     \* history: how often the venue was asked to open each order

process == <<worker, requests, commands, sinceSweep>>
bounds  == <<faults, crashes, replays>>
vars    == <<engine, mode, process, venue, stream, wall, bounds, submits>>

NotHeld == [state |-> "None", qty |-> 0, filled |-> 0, silent |-> FALSE]

VenueStates == {"Working", "Partial", "Filled", "Canceled"}

VenueOrders ==
  [state: VenueStates, qty: Nat \ {0}, filled: Nat, silent: BOOLEAN]
    \cup {NotHeld}

FillEvent(o, n, q) == [kind |-> "Fill", order |-> o, exec |-> VenueExec(o, n),
                       qty |-> q]
CancelEvent(o)     == [kind |-> "CancelConfirmed", order |-> o]

VenueEvents ==
  [kind: {"Fill"}, order: Orders, exec: ExecIds, qty: Nat \ {0}]
    \cup [kind: {"CancelConfirmed"}, order: Orders]

Submitted(o, outcome) == [kind |-> "Submitted", order |-> o, outcome |-> outcome]
Cancelled(o, outcome) == [kind |-> "Cancelled", order |-> o, outcome |-> outcome]
LookedUp(o, outcome, s, n) ==
  [kind |-> "LookedUp", order |-> o, outcome |-> outcome,
   snapshot |-> [state |-> s, filled |-> n]]
PositionsReported(q) == [kind |-> "PositionsReported", qty |-> q]

Commands ==
  VenueEvents
    \cup [kind: {"Submitted"}, order: OrderIds,
          outcome: {"Acked", "Rejected", "TimedOut"}]
    \cup [kind: {"Cancelled"}, order: OrderIds,
          outcome: {"Requested", "Absent", "TimedOut"}]
    \cup [kind: {"LookedUp"}, order: OrderIds,
          outcome: {"Found", "Absent", "TimedOut"},
          snapshot: [state: VenueStates \cup {"None"}, filled: Nat]]
    \cup [kind: {"PositionsReported"}, qty: Int]

TypeOK ==
  /\ engine \in Engines
  /\ mode \in {"up", "stopping", "down", "dead"}
  /\ worker \in {"drain", "perform"}
  /\ requests \in Seq(VenueRequests)
  /\ commands \in Seq(Commands)
  /\ venue \in [Orders -> VenueOrders]
  /\ stream \in Seq(VenueEvents)
  /\ wall \in 0..MaxNow
  /\ sinceSweep \in 0..SweepEvery
  /\ faults \in 0..MaxFaults
  /\ crashes \in 0..MaxCrashes
  /\ replays \in 0..MaxReplays
  /\ submits \in [Orders -> Nat]

FirstLog == [book |-> NewBook, folds |-> TRUE]

Init ==
  /\ engine = Opened(FirstLog, 0)
  /\ mode = "up"
  /\ worker = "drain"
  /\ requests = <<>>
  /\ commands = <<>>
  /\ venue = [o \in Orders |-> NotHeld]
  /\ stream = <<>>
  /\ wall = 0
  /\ sinceSweep = SweepEvery - 1
  /\ faults = 0 /\ crashes = 0 /\ replays = 0
  /\ submits = [o \in Orders |-> 0]
-----------------------------------------------------------------------------
(* The process.                                                             *)

Up == mode = "up"

(* The journal a dead process leaves behind; its memory is gone.            *)
AtRest(log) ==
  [Opened(log, 0) EXCEPT !.folds = log.folds, !.synced = log]

(* The threads stop, their channels are gone, and so is whatever the stream *)
(* had not delivered.                                                       *)
Stop(log) ==
  /\ engine' = AtRest(log)
  /\ mode' = "down"
  /\ worker' = "drain"
  /\ requests' = <<>>
  /\ commands' = <<>>
  /\ stream' = <<>>
  /\ sinceSweep' = SweepEvery - 1

(* The writer after engine.submit: it carries on through a refusal, and     *)
(* stops without flushing on a fatal error, unless it is already draining   *)
(* the channel on its way out, where every error is ignored.                *)
Handle(e, rest, ticks) ==
  IF e.err = "fatal" /\ Up
    THEN Stop(engine.synced)
    ELSE /\ engine' = [e EXCEPT !.err = "none"]
         /\ commands' = rest
         /\ sinceSweep' = ticks
         /\ UNCHANGED <<mode, worker, requests, stream>>

(* A command of an operator or of the control socket.                       *)
Operate(e) ==
  /\ Up
  /\ Handle(e, commands, sinceSweep)
  /\ UNCHANGED <<venue, wall, faults, crashes, submits>>

Place(o) ==
  LET replayed == Known(engine.book, o)
      e        == OnPlace(engine, o, Intent[o])
  IN  /\ e # engine
      /\ replayed => replays < MaxReplays
      /\ Operate(e)
      /\ replays' = IF replayed THEN replays + 1 ELSE replays

Asked(e) ==
  /\ replays < MaxReplays
  /\ replays' = replays + 1
  /\ Operate(e)

Cancel(o) == Known(engine.book, o) /\ Asked(OnCancel(engine, o))
Halt      == ~engine.halted /\ Asked(OnHalt(engine))
Resume    == engine.halted /\ Asked(OnResume(engine))

(* The ticker sends the time, and then the sweep when one is due: after its *)
(* first tick, and then after every SweepEvery ticks.                       *)
SweepDue == sinceSweep >= SweepEvery

Tick ==
  /\ Up
  /\ wall < MaxNow
  /\ ~SweepDue
  /\ Len(engine.reqs) + Len(requests) + Len(commands) < MaxQueue
  /\ wall' = wall + 1
  /\ Handle(OnTick(engine, wall + 1), commands, sinceSweep + 1)
  /\ UNCHANGED <<venue, bounds, submits>>

SweepStale ==
  /\ Up
  /\ SweepDue
  /\ Handle(OnSweep(engine), commands, 0)
  /\ UNCHANGED <<venue, wall, bounds, submits>>

(* The writer takes the oldest command the worker posted.                   *)
Take(kind, e) ==
  /\ mode \in {"up", "stopping"}
  /\ Head(commands).kind = kind
  /\ Handle(e, Tail(commands), sinceSweep)
  /\ UNCHANGED <<venue, wall, bounds, submits>>

WriterTakes ==
  /\ commands # <<>>
  /\ LET c == Head(commands)
     IN  \/ Take("Submitted", OnSubmitted(engine, c.order, c.outcome))
         \/ Take("Cancelled", OnCancelled(engine, c.order, c.outcome))
         \/ Take("LookedUp", OnLookedUp(engine, c.order, c.outcome, c.snapshot))
         \/ Take("Fill", OnFill(engine, c.order, c.exec, c.qty))
         \/ Take("CancelConfirmed", OnCancelConfirmed(engine, c.order))
         \/ Take("PositionsReported", OnPositions(engine, c.qty))

(* Mutant: the requests are released before the sync.                       *)
WriterFlushesUnsynced ==
  /\ Up
  /\ engine.reqs # <<>>
  /\ requests' = requests \o engine.reqs
  /\ engine' = [engine EXCEPT !.reqs = <<>>]
  /\ UNCHANGED <<mode, worker, commands, venue, stream, wall, sinceSweep, bounds,
                 submits>>

WriterFlushes ==
  /\ Up
  /\ engine.tail # {} \/ engine.reqs # <<>>
  /\ requests' = requests \o engine.reqs
  /\ engine' = Flushed(engine)
  /\ UNCHANGED <<mode, worker, commands, venue, stream, wall, sinceSweep, bounds,
                 submits>>
-----------------------------------------------------------------------------
(* The venue worker: forward what the stream pushed, then perform one       *)
(* request, and around again.                                               *)

Drain ==
  /\ Up
  /\ worker = "drain"
  /\ stream # <<>> \/ requests # <<>>
  /\ worker' = "perform"
  /\ commands' = commands \o stream
  /\ stream' = <<>>
  /\ UNCHANGED <<engine, mode, requests, venue, wall, sinceSweep, bounds, submits>>

Idle ==
  /\ Up
  /\ worker = "perform"
  /\ requests = <<>>
  /\ stream # <<>>
  /\ worker' = "drain"
  /\ UNCHANGED <<engine, mode, requests, commands, venue, stream, wall, sinceSweep,
                 bounds, submits>>

Performs(kind) ==
  /\ Up
  /\ worker = "perform"
  /\ requests # <<>>
  /\ Head(requests).kind = kind
  /\ worker' = "drain"
  /\ requests' = Tail(requests)
  /\ UNCHANGED <<engine, mode, wall, sinceSweep, crashes, replays>>

(* perform(): a call that could not be made posts no answer at all.         *)
Answer(command) == commands' = Append(commands, command)
NoAnswer        == UNCHANGED commands

Fault(kind) ==
  /\ kind \in Faults
  /\ faults < MaxFaults
  /\ faults' = faults + 1

NoFault == UNCHANGED faults

VenueLive(o) == venue[o].state \in {"Working", "Partial"}

Accept(o, q, silent) ==
  venue' = [venue EXCEPT ![o] = [state |-> "Working", qty |-> q, filled |-> 0,
                                 silent |-> silent]]

(* An event is pushed to the stream if anyone listens, unless the venue     *)
(* never says anything about the order.                                     *)
Push(event) ==
  stream' = IF Up /\ ~venue[event.order].silent THEN Append(stream, event)
            ELSE stream

(* A venue rejects a client order id it already holds.                      *)
PerformSubmit ==
  /\ Performs("Submit")
  /\ LET o   == Head(requests).order
         q   == Head(requests).qty
         new == venue[o] = NotHeld
     IN  /\ submits' = [submits EXCEPT ![o] = @ + 1]
         /\ \/ /\ NoFault
               /\ IF new THEN Accept(o, q, FALSE) ELSE UNCHANGED venue
               /\ Answer(Submitted(o, IF new THEN "Acked" ELSE "Rejected"))
            \/ /\ Fault("TimeoutButAccepted")
               /\ Accept(o, q, FALSE)
               /\ Answer(Submitted(o, "TimedOut"))
            \/ /\ Fault("AcceptButSilent")
               /\ Accept(o, q, TRUE)
               /\ Answer(Submitted(o, "Acked"))
            \/ /\ Fault("TimeoutAndAbsent")
               /\ UNCHANGED venue
               /\ Answer(Submitted(o, "TimedOut"))
            \/ /\ Fault("Reject")
               /\ UNCHANGED venue
               /\ Answer(Submitted(o, "Rejected"))
            \/ /\ Fault("SubmitError")
               /\ UNCHANGED venue
               /\ NoAnswer
  /\ UNCHANGED stream

PerformCancel ==
  /\ Performs("Cancel")
  /\ LET o == Head(requests).order
     IN  \/ /\ NoFault
            /\ ~VenueLive(o)
            /\ Answer(Cancelled(o, "Absent"))
            /\ UNCHANGED <<venue, stream>>
         \/ /\ NoFault
            /\ VenueLive(o)
            /\ venue' = [venue EXCEPT ![o].state = "Canceled"]
            /\ Push(CancelEvent(o))
            /\ Answer(Cancelled(o, "Requested"))
         \/ /\ Fault("CancelTimeout")
            /\ Answer(Cancelled(o, "TimedOut"))
            /\ UNCHANGED <<venue, stream>>
         \/ /\ Fault("CancelError")
            /\ NoAnswer
            /\ UNCHANGED <<venue, stream>>
  /\ UNCHANGED submits

VenueHas(o) == o \in Orders /\ venue[o] # NotHeld

PerformLookup ==
  /\ Performs("Lookup")
  /\ LET o == Head(requests).order
     IN  \/ /\ NoFault
            /\ VenueHas(o)
            /\ Answer(LookedUp(o, "Found", venue[o].state, venue[o].filled))
         \/ /\ NoFault
            /\ ~VenueHas(o)
            /\ Answer(LookedUp(o, "Absent", "None", 0))
         \/ /\ Fault("LookupTimeout")
            /\ Answer(LookedUp(o, "TimedOut", "None", 0))
         \/ /\ Fault("LookupError")
            /\ NoAnswer
  /\ UNCHANGED <<venue, stream, submits>>

VenuePosition ==
  Inherited + MapThenSumSet(LAMBDA o : Intent[o].side * venue[o].filled, Orders)

PerformPositions ==
  /\ Performs("Positions")
  /\ \/ NoFault /\ Answer(PositionsReported(VenuePosition))
     \/ Fault("PositionsError") /\ NoAnswer
  /\ UNCHANGED <<venue, stream, submits>>
-----------------------------------------------------------------------------
(* The venue, on its own.                                                   *)

Elsewhere ==
  UNCHANGED <<engine, mode, process, wall, crashes, replays, submits>>

Execute(o, q) ==
  LET filled == venue[o].filled + q
  IN  /\ VenueLive(o)
      /\ venue' = [venue EXCEPT ![o].filled = filled,
                     ![o].state = IF filled >= venue[o].qty
                                    THEN "Filled" ELSE "Partial"]
      /\ Push(FillEvent(o, filled, q))
      /\ Elsewhere

VenueFills(o) ==
  /\ NoFault
  /\ \E q \in 1..(venue[o].qty - venue[o].filled) : Execute(o, q)

(* More than was asked for, within the multiple the lifecycle tolerates or  *)
(* beyond it.                                                               *)
VenueOverMatches(o) ==
  /\ Fault("OverMatch")
  /\ \E n \in 1..(2 * venue[o].qty) :
       Execute(o, venue[o].qty - venue[o].filled + n)

VenueCancels(o) ==
  /\ VenueLive(o)
  /\ Fault("UnsolicitedCancel")
  /\ venue' = [venue EXCEPT ![o].state = "Canceled"]
  /\ stream' = IF Up THEN Append(stream, CancelEvent(o)) ELSE stream
  /\ Elsewhere

StreamGap(i) ==
  /\ Fault("StreamGap")
  /\ stream' = RemoveAt(stream, i)
  /\ UNCHANGED venue
  /\ Elsewhere

Redelivery(i) ==
  /\ Fault("Redelivery")
  /\ stream' = Append(stream, stream[i])
  /\ UNCHANGED venue
  /\ Elsewhere
-----------------------------------------------------------------------------
(* Dying and coming back.                                                   *)

Ending(n) ==
  /\ crashes' = crashes + n
  /\ UNCHANGED <<venue, wall, faults, replays, submits>>

(* A crash, or a failed flush, which stops the writer: the durable log      *)
(* survives, and any part of a flush that was interrupted.  Right after a   *)
(* flush it is also the writer that returns because the worker has left and *)
(* nobody receives the requests: what is queued is dropped.                 *)
Crash ==
  /\ mode \in {"up", "stopping"}
  /\ crashes < MaxCrashes
  /\ \E log \in {engine.synced} \cup engine.tail : Stop(log)
  /\ Ending(1)

(* Runtime::stop, at the moment the writer sees the flag: the worker and    *)
(* the ticker leave their loops; the writer drains the commands channel,    *)
(* flushes, and drops the requests.                                         *)
Shutdown ==
  /\ Up
  /\ crashes < MaxCrashes
  /\ mode' = "stopping"
  /\ UNCHANGED <<engine, process, stream>>
  /\ Ending(1)

Drained ==
  /\ mode = "stopping"
  /\ commands = <<>>
  /\ Stop([book |-> engine.book, folds |-> engine.folds])
  /\ Ending(0)

(* main: claim the journal, rebuild the book, and start only when it folds  *)
(* and holds its own invariants.                                            *)
Bootable(log) == log.folds /\ Sound(log.book)

Restart ==
  /\ mode = "down"
  /\ Bootable(engine.synced)
  /\ engine' = Opened(engine.synced, wall)
  /\ mode' = "up"
  /\ UNCHANGED <<process, venue, stream, wall, bounds, submits>>

RefuseToStart ==
  /\ mode = "down"
  /\ ~Bootable(engine.synced)
  /\ mode' = "dead"
  /\ UNCHANGED <<engine, process, venue, stream, wall, bounds, submits>>

Next ==
  \/ \E o \in Orders : Place(o)
  \/ \E o \in Orders : Cancel(o)
  \/ Halt
  \/ Resume
  \/ Tick
  \/ SweepStale
  \/ WriterTakes
  \/ WriterFlushes
  \/ Drain
  \/ Idle
  \/ PerformSubmit
  \/ PerformCancel
  \/ PerformLookup
  \/ PerformPositions
  \/ \E o \in Orders : VenueFills(o)
  \/ \E o \in Orders : VenueOverMatches(o)
  \/ \E o \in Orders : VenueCancels(o)
  \/ \E i \in DOMAIN stream : StreamGap(i)
  \/ \E i \in DOMAIN stream : Redelivery(i)
  \/ Crash
  \/ Shutdown
  \/ Drained
  \/ Restart
  \/ RefuseToStart

Spec == Init /\ [][Next]_vars
-----------------------------------------------------------------------------
(* Each thread keeps going around its loop, and a process that ended is     *)
(* started again.  The venue owes nothing, and neither does an operator.    *)
Writer  == WriterTakes \/ WriterFlushes
Worker  == Drain \/ Idle \/ PerformSubmit \/ PerformCancel \/ PerformLookup
             \/ PerformPositions
Ticker  == Tick \/ SweepStale
Process == Drained \/ Restart \/ RefuseToStart

(* When each of them can take a step; every step changes vars.              *)
WriterReady ==
  \/ mode \in {"up", "stopping"} /\ commands # <<>>
  \/ Up /\ (engine.tail # {} \/ engine.reqs # <<>>)
WorkerReady  == Up /\ (stream # <<>> \/ requests # <<>>)
TickerReady  ==
  Up /\ (SweepDue \/ Len(engine.reqs) + Len(requests) + Len(commands) < MaxQueue)
ProcessReady == mode = "down" \/ (mode = "stopping" /\ commands = <<>>)
-----------------------------------------------------------------------------
(* R1.1: whatever the venue was asked to open, a log that survives any      *)
(* crash from now on records as having started its submission.  Flush       *)
(* releases requests only after the sync.                                   *)
IntentBeforeVenue ==
  \A o \in Orders :
    submits[o] > 0 =>
      \A log \in {engine.synced} \cup engine.tail :
        log.book.orders[o].state \notin {"None", "Created"}

(* R1.2, R1.3: replays, timeouts, crashes and restarts included, the venue  *)
(* is asked to open an order at most once.                                  *)
SubmittedOnce == \A o \in Orders : submits[o] <= 1

Count(seq, Test(_)) == Cardinality({i \in DOMAIN seq : Test(seq[i])})

Questions(o) ==
  LET Asks(r) == r = LookupRequest(o)
      Answers(c) == c.kind = "LookedUp" /\ c.order = o
  IN  Count(engine.reqs, Asks) + Count(requests, Asks) + Count(commands, Answers)

(* However many triggers fire (timeout, late fill, replay, sweep, backoff), *)
(* at most one lookup of an order is under way, and one that is under way   *)
(* is marked so in the reconciling map.                                     *)
OneQuestionPerOrder ==
  \A o \in OrderIds : /\ Questions(o) <= 1
                       /\ Questions(o) = 1 => engine.recon[o].inFlight

(* The ledger's own invariants on executions, under every interleaving of   *)
(* fills, corrections, duplicates and crashes, for the book in memory and   *)
(* for every log a crash may leave.                                         *)
FillsAccounted ==
  \A log \in {engine, engine.synced} \cup engine.tail :
    PositionsEqualFills(log.book) /\ NoOverfill(log.book)

(* The writer is halted and so is every log a crash may leave.              *)
HaltHolds ==
  engine.halted /\ \A log \in {engine.synced} \cup engine.tail : log.book.halted

(* A halt outlives the process that decided it: a flush, or the end of a    *)
(* clean stop, puts it in every log a crash may leave; there it stays,      *)
(* through crashes, interrupted flushes, stops and restarts, until the      *)
(* operator resumes; and as long as it holds no new entry is taken on.      *)
HaltOutlivesProcess ==
  [][/\ engine.halted /\ (WriterFlushes \/ Drained) => HaltHolds'
     /\ HaltHolds /\ ~Resume => HaltHolds'
     /\ HaltHolds => \A o \in Orders :
          ~Intent[o].exit /\ ~Known(engine.book, o) => ~Known(engine'.book, o)]_vars

(* While the process runs, an order leaves RECONCILING only when the writer *)
(* takes the venue's answer to a lookup of that order; no fill, ack, cancel *)
(* or position report concludes it (R1.4, R1.12).                           *)
ReconcilingUntilAnswered ==
  [][\A o \in Orders :
       /\ mode \in {"up", "stopping"} /\ mode' = mode
       /\ engine.book.orders[o].state = "Reconciling"
       /\ engine'.book.orders[o].state # "Reconciling"
       => Head(commands).kind = "LookedUp" /\ Head(commands).order = o]_vars

(* Nothing is on its way between the venue and the writer.                  *)
Settled ==
  /\ Up /\ engine.confirmed
  /\ engine.reqs = <<>> /\ requests = <<>> /\ commands = <<>> /\ stream = <<>>

(* R1.7: once everything the venue said has been applied, every execution   *)
(* it made is in the book, whatever raced with it.                          *)
NothingDropped ==
  Settled => \A o \in Orders : BookedQty(engine.book, o) >= venue[o].filled

(* R1.7: and none of them is in the book twice, once as the venue reported  *)
(* it and once as the correction a lookup derived.                          *)
NothingDoubled ==
  Settled => \A o \in Orders : BookedQty(engine.book, o) <= venue[o].filled

(* R1.12: an inherited position is taken over whole and once; later reports *)
(* never add to it, and nothing is opened before it is known.               *)
AdoptedOnce ==
  engine.confirmed /\ Inherited # 0 =>
    /\ engine.book.orders[Adopted].state = "Filled"
    /\ Inherited = engine.book.orders[Adopted].side * BookedQty(engine.book, Adopted)

(* R1.10: an account that only buys to enter and sells to exit is never     *)
(* sold past flat, by any interleaving of exits.                            *)
NeverOverExit == VenuePosition >= 0

(* R1.9: the venue never works two entries at once, unless the book counts  *)
(* more executed than the venue has: an execution booked twice (see         *)
(* NothingDoubled) ends an order for the book that the venue still works.   *)
OneEntryAtVenue ==
  (\A o \in Orders : BookedQty(engine.book, o) <= venue[o].filled) =>
    \A o, p \in Orders :
      (VenueLive(o) /\ VenueLive(p) /\ ~Intent[o].exit /\ ~Intent[p].exit) => o = p

(* Every log a crash may leave rebuilds, so the process can start again     *)
(* (R1.11).                                                                 *)
LogFolds == \A log \in {engine.synced} \cup engine.tail : log.folds

Unproven(o) == LocksInstrument(engine.book.orders[o].state)

(* R1.4: the lock is temporary.  An order whose truth we cannot prove is    *)
(* eventually settled by an answer of the venue, in this process or in one  *)
(* that starts after it.                                                    *)
UnprovenIsResolved ==
  \A o \in Orders : Unproven(o) ~> (~Unproven(o) \/ mode = "dead")

(* The promise of the stale sweep: an order that is over at the venue is    *)
(* eventually over in the book, though the event that said so was lost.     *)
EndIsLearned ==
  \A o \in Orders :
    venue[o].state \in {"Filled", "Canceled"}
      ~> IsTerminal(engine.book.orders[o].state)
-----------------------------------------------------------------------------
(* The submission protocol this process implements.                         *)

Requested(o) ==
  \E i \in DOMAIN requests : requests[i].kind = "Submit" /\ requests[i].order = o

Stage(o) ==
  IF submits[o] > 0 THEN IF submits[o] = 1 THEN "sent" ELSE "sent again"
  ELSE IF Requested(o) THEN "released"
  ELSE IF engine.synced.book.orders[o].state # "None" THEN "abandoned"
  ELSE IF engine.book.orders[o].state # "None" THEN "volatile"
  ELSE "new"

Submission == INSTANCE SubmissionProtocol WITH stage <- [o \in Orders |-> Stage(o)]

(* Every behaviour of the process is one of the submission protocol: the    *)
(* venue is asked only for what is durable, once, and never for an intent   *)
(* that was in flight when a process died.                                  *)
ImplementsSubmission == Submission!Spec
=============================================================================
