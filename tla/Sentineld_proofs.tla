--------------------------- MODULE Sentineld_proofs ---------------------------
(***************************************************************************)
(* The safety of the process: what holds in every state it reaches, with   *)
(* any number of orders, faults, crashes and replays, and that it          *)
(* implements the submission protocol.                                     *)
(***************************************************************************)
EXTENDS Sentineld, Engine_proofs

(* The commands the worker posts: an order the venue found is in one of the *)
(* venue's states.                                                          *)
WorkerCommands ==
  {c \in Commands : c.kind = "LookedUp" /\ c.outcome = "Found"
                      => c.snapshot.state \in VenueStates}

Answers(p) == {c \in Commands : c.kind = "LookedUp" /\ c.order = p}

(* The inductive invariant, in five parts.                                  *)

WriterInv == EngineOK(engine) /\ Ok(engine)

(* Types, and that a live order at the venue is not filled past its         *)
(* quantity, without which an execution could have no quantity.             *)
WorldInv ==
  /\ mode \in {"up", "stopping", "down", "dead"}
  /\ worker \in {"drain", "perform"}
  /\ requests \in Seq(WorkerRequests)
  /\ commands \in Seq(WorkerCommands)
  /\ venue \in [Orders -> VenueOrders]
  /\ stream \in Seq(VenueEvents)
  /\ wall \in 0..MaxNow
  /\ sinceSweep \in 0..SweepEvery
  /\ faults \in 0..MaxFaults
  /\ crashes \in 0..MaxCrashes
  /\ replays \in 0..MaxReplays
  /\ submits \in [Orders -> Nat]
  /\ \A o \in Orders : VenueLive(o) => venue[o].filled <= venue[o].qty

(* No process, no channels and no requests.                                 *)
RestInv ==
  mode \in {"down", "dead"} => requests = <<>> /\ commands = <<>> /\ engine.reqs = <<>>

(* One question per order, wherever it or its answer is.                    *)
Underway(p) ==
  Hits(engine.reqs, Asks(p)) + Hits(requests, Asks(p)) + Hits(commands, Answers(p))

QuestionInv ==
  \A p \in OrderIds : /\ Underway(p) <= 1
                      /\ Underway(p) = 1 => engine.recon[p].inFlight

(* The engine holds a request for exactly what it has accepted and not yet  *)
(* made durable; past the flush there is one request or one submission, and *)
(* the durable log has the order's submission started.                      *)
Volatile(o) == Known(engine.book, o) /\ ~Known(engine.synced.book, o)

SubmitInv ==
  \A o \in Orders :
    /\ Hits(engine.reqs, Opens(o)) = IF Volatile(o) THEN 1 ELSE 0
    /\ Volatile(o) => Begun(engine.book, o)
    /\ Hits(requests, Opens(o)) + submits[o] <= 1
    /\ Hits(requests, Opens(o)) + submits[o] > 0 => Begun(engine.synced.book, o)

SentineldInv == WriterInv /\ WorldInv /\ RestInv /\ QuestionInv /\ SubmitInv
-----------------------------------------------------------------------------
(* What every step is shown to do besides keeping the invariant.            *)

StageNow == [o \in Orders |-> Stage(o)]

Progress == Submission!Next \/ UNCHANGED StageNow

StaysReconciling ==
  \A o \in Orders :
    /\ mode \in {"up", "stopping"} /\ mode' = mode
    /\ engine.book.orders[o].state = "Reconciling"
    /\ engine'.book.orders[o].state # "Reconciling"
    => Head(commands).kind = "LookedUp" /\ Head(commands).order = o

StaysHalted ==
  /\ HaltHolds /\ ~Resume => HaltHolds'
  /\ HaltHolds => \A o \in Orders :
       ~Intent[o].exit /\ ~Known(engine.book, o) => ~Known(engine'.book, o)

Good == SentineldInv' /\ Progress /\ StaysReconciling /\ StaysHalted

LEMMA StillHalted == ASSUME engine' = engine PROVE StaysHalted
  BY DEF StaysHalted, HaltHolds

(* A step that opens nothing and is firm.                                   *)
LEMMA FirmHalted ==
  ASSUME NEW f, Firm(engine, f), engine'.halted = f.halted, engine'.tail = f.tail,
         engine'.synced = engine.synced
  PROVE  HaltHolds => HaltHolds'
<1>1. SUFFICES ASSUME HaltHolds PROVE HaltHolds'
  OBVIOUS
<1>2. engine.halted /\ engine.synced.book.halted /\ \A log \in engine.tail : log.book.halted
  BY <1>1 DEF HaltHolds
<1>3. f.halted /\ \A log \in f.tail : log \in engine.tail \/ log.book.halted
  BY <1>2 DEF Firm
<1>4. \A log \in engine'.tail : log.book.halted
  BY <1>2, <1>3
<1>5. engine'.halted /\ engine'.synced.book.halted
  BY <1>2, <1>3
<1> QED
  BY <1>4, <1>5 DEF HaltHolds

(* Counts are naturals.                                                     *)
LEMMA CountsAre ==
  ASSUME WriterInv, WorldInv
  PROVE  /\ \A M : Hits(engine.reqs, M) \in Nat
         /\ \A M : Hits(requests, M) \in Nat
         /\ \A M : Hits(commands, M) \in Nat
         /\ \A o \in Orders : submits[o] \in Nat
<1>1. engine.reqs \in Seq(WorkerRequests) /\ requests \in Seq(WorkerRequests)
      /\ commands \in Seq(WorkerCommands) /\ submits \in [Orders -> Nat]
  BY DEF WriterInv, WorldInv, EngineOK
<1> QED
  BY <1>1, HitsIs

LEMMA RequestedIs ==
  ASSUME requests \in Seq(WorkerRequests), NEW o
  PROVE  Requested(o) <=> Hits(requests, Opens(o)) > 0
<1>1. \A i \in DOMAIN requests : requests[i] \in WorkerRequests
  BY LenProperties
<1>2. Requested(o) <=> \E i \in DOMAIN requests : requests[i] \in Opens(o)
  BY <1>1 DEF Requested, Opens
<1> QED
  BY <1>2, HitsIs

(* The stage of an order, where the invariant holds.                        *)
StageOf(sent, requested, durable, known) ==
  IF sent > 0 THEN "sent"
  ELSE IF requested > 0 THEN "released"
  ELSE IF durable THEN "abandoned"
  ELSE IF known THEN "volatile"
  ELSE "new"

StagesAre ==
  \A o \in Orders : Stage(o) = StageOf(submits[o], Hits(requests, Opens(o)),
                                       Known(engine.synced.book, o), Known(engine.book, o))

LEMMA StageIs == SentineldInv => StagesAre
<1>1. SUFFICES ASSUME SentineldInv, NEW o \in Orders
               PROVE  Stage(o) = StageOf(submits[o], Hits(requests, Opens(o)),
                                   Known(engine.synced.book, o), Known(engine.book, o))
  BY DEF StagesAre
<1>2. submits[o] \in Nat /\ Hits(requests, Opens(o)) \in Nat
  BY <1>1, CountsAre DEF SentineldInv
<1>3. submits[o] > 0 => submits[o] = 1
  BY <1>1, <1>2 DEF SentineldInv, SubmitInv
<1>4. Requested(o) <=> Hits(requests, Opens(o)) > 0
  BY <1>1, RequestedIs DEF SentineldInv, WorldInv
<1> QED
  BY <1>2, <1>3, <1>4 DEF Stage, Known, StageOf

LEMMA StagesStep ==
  ASSUME SentineldInv, SentineldInv'
  PROVE  \A o \in Orders :
           /\ StageNow[o] = StageOf(submits[o], Hits(requests, Opens(o)),
                              Known(engine.synced.book, o), Known(engine.book, o))
           /\ StageNow'[o] = StageOf(submits'[o], Hits(requests', Opens(o)),
                               Known(engine'.synced.book, o), Known(engine'.book, o))
<1>1. StagesAre /\ StagesAre'
  BY StageIs, PTL
<1> QED
  BY <1>1 DEF StagesAre, StageNow

(* Whatever leaves these four alone leaves the stages alone.                *)
LEMMA StageSame ==
  ASSUME SentineldInv, SentineldInv',
         \A o \in Orders :
           /\ submits'[o] = submits[o]
           /\ Hits(requests', Opens(o)) = Hits(requests, Opens(o))
           /\ Known(engine'.synced.book, o) <=> Known(engine.synced.book, o)
           /\ Known(engine'.book, o) <=> Known(engine.book, o)
  PROVE  Progress
<1>1. \A o \in Orders : StageNow'[o] = StageNow[o]
  BY StagesStep DEF StageOf
<1>2. StageNow = [o \in Orders |-> StageNow[o]] /\ StageNow' = [o \in Orders |-> StageNow'[o]]
  BY DEF StageNow
<1>3. StageNow' = StageNow
  <2> HIDE DEF StageNow
  <2> QED
    BY <1>1, <1>2, Zenon
<1> QED
  BY <1>3 DEF Progress
-----------------------------------------------------------------------------
(* The process ends, and leaves a log.                                      *)

LEMMA KnownAdvanced ==
  ASSUME NEW b \in Books, NEW now
  PROVE  Advance(b, now).orders = b.orders
  BY DEF Advance, Books

LEMMA AtRestIs ==
  ASSUME NEW log \in Images, BookOK(log.book)
  PROVE  LET e == AtRest(log)
         IN  /\ EngineOK(e) /\ Ok(e) /\ e.reqs = <<>>
             /\ e.book.orders = log.book.orders /\ e.synced = log
             /\ e.tail = {} /\ e.halted = log.book.halted
<1>1. PICK d : d = Opened(log, 0)
  OBVIOUS
<1>2. /\ EngineOK(d) /\ Ok(d) /\ d.reqs = <<>> /\ d.tail = {}
      /\ d.book = Advance(log.book, 0) /\ d.halted = log.book.halted
  BY <1>1, OpenedIs
<1>3. PICK e : e = AtRest(log)
  OBVIOUS
<1>4. e = [d EXCEPT !.folds = log.folds, !.synced = log]
  BY <1>1, <1>3 DEF AtRest
<1>5. log.folds \in BOOLEAN /\ d \in Engines /\ log.book \in Books
  BY <1>2 DEF Images, EngineOK, BookOK
<1>6. /\ e \in Engines /\ e.book = d.book /\ e.synced = log /\ e.tail = {} /\ e.reqs = <<>>
      /\ e.halted = d.halted /\ e.err = d.err
  BY <1>2, <1>4, <1>5 DEF Engines
<1>7. e.book.orders = log.book.orders
  BY <1>2, <1>5, <1>6, KnownAdvanced
<1>8. After(log.book, e.book)
  BY <1>7 DEF After, Known, Begun
<1>9. EngineOK(e)
  BY <1>2, <1>6, <1>8 DEF EngineOK
<1> QED
  BY <1>2, <1>3, <1>6, <1>7, <1>9 DEF Ok

(* A log that survives: it records what the durable one does and nothing    *)
(* the book in memory does not, and a halt where one holds.                 *)
Survives(log) ==
  /\ log \in Images /\ BookOK(log.book)
  /\ After(engine.synced.book, log.book) /\ After(log.book, engine.book)
  /\ HaltHolds => log.book.halted

LEMMA LogsSurvive ==
  ASSUME WriterInv
  PROVE  /\ \A log \in {engine.synced} \cup engine.tail : Survives(log)
         /\ Survives([book |-> engine.book, folds |-> engine.folds])
<1>1. engine \in Engines /\ EngineOK(engine)
  BY DEF WriterInv, EngineOK
<1>2. Survives(engine.synced)
  BY <1>1, AfterIsOrder DEF Survives, EngineOK, Engines, HaltHolds
<1>3. \A log \in engine.tail : Survives(log)
  BY <1>1 DEF Survives, EngineOK, Engines, HaltHolds
<1>4. PICK log : log = [book |-> engine.book, folds |-> engine.folds]
  OBVIOUS
<1>5. log.book = engine.book /\ log \in Images
  BY <1>1, <1>4 DEF Images, Engines
<1>6. Survives(log)
  BY <1>1, <1>5, AfterIsOrder DEF Survives, EngineOK, HaltHolds
<1> QED
  BY <1>2, <1>3, <1>4, <1>6

(* The bounds, as the steps leave them.                                     *)
BoundsNext ==
  /\ wall' \in 0..MaxNow /\ faults' \in 0..MaxFaults
  /\ crashes' \in 0..MaxCrashes /\ replays' \in 0..MaxReplays

LEMMA StopKeeps ==
  ASSUME SentineldInv, NEW log, Survives(log), Stop(log),
         venue' = venue, submits' = submits, BoundsNext
  PROVE  SentineldInv' /\ Progress /\ StaysHalted /\ mode' = "down"
<1> USE BoundsAssumption
<1>1. /\ EngineOK(engine') /\ Ok(engine') /\ engine'.reqs = <<>>
      /\ engine'.book.orders = log.book.orders /\ engine'.synced = log
      /\ engine'.tail = {} /\ engine'.halted = log.book.halted
  BY AtRestIs DEF Stop, Survives
<1>2. /\ mode' = "down" /\ worker' = "drain" /\ requests' = <<>> /\ commands' = <<>>
      /\ stream' = <<>> /\ sinceSweep' = SweepEvery - 1
  BY DEF Stop
<1>3. WriterInv'
  BY <1>1 DEF WriterInv
<1>4. WorldInv'
  <2>1. sinceSweep' \in 0..SweepEvery
    BY <1>2
  <2>2. requests' \in Seq(WorkerRequests) /\ commands' \in Seq(WorkerCommands) /\ stream' \in Seq(VenueEvents)
    BY <1>2
  <2>3. \A o \in Orders : VenueLive(o)' => venue'[o].filled <= venue'[o].qty
    BY DEF SentineldInv, WorldInv, VenueLive
  <2> QED
    BY <1>2, <2>1, <2>2, <2>3 DEF SentineldInv, WorldInv, BoundsNext
<1>5. RestInv'
  BY <1>1, <1>2 DEF RestInv
<1>6. \A M : Hits(engine'.reqs, M) = 0 /\ Hits(requests', M) = 0 /\ Hits(commands', M) = 0
  BY <1>1, <1>2, HitsEmpty
<1>7. QuestionInv'
  BY <1>6 DEF QuestionInv, Underway
<1>8. \A o \in Orders : /\ Known(engine'.book, o) <=> Known(log.book, o)
                        /\ Known(engine'.synced.book, o) <=> Known(log.book, o)
  BY <1>1 DEF Known
<1>9. SubmitInv'
  <2>1. ASSUME NEW o \in Orders, submits[o] > 0 PROVE Begun(log.book, o)
    <3>1. Begun(engine.synced.book, o)
      BY <2>1, CountsAre DEF SentineldInv, SubmitInv
    <3> QED
      BY <3>1 DEF Survives, After
  <2>2. \A o \in Orders : submits[o] \in Nat /\ submits[o] <= 1
    BY CountsAre DEF SentineldInv, SubmitInv
  <2>3. \A o \in Orders : ~Volatile(o)'
    BY <1>8 DEF Volatile
  <2> QED
    <3>1. ASSUME NEW o \in Orders
          PROVE  /\ Hits(engine'.reqs, Opens(o)) = 0
                 /\ Hits(requests', Opens(o)) + submits'[o] = submits[o]
                 /\ engine'.synced.book = log.book
      BY <1>1, <1>6, <2>2
    <3> QED
      BY <2>1, <2>2, <2>3, <3>1 DEF SubmitInv
<1>10. SentineldInv'
  BY <1>3, <1>4, <1>5, <1>7, <1>9 DEF SentineldInv
<1>11. Progress
  <2> DEFINE kept == {o \in Orders : Known(log.book, o)}
  <2>1. \A o \in Orders :
          /\ StageNow[o] = StageOf(submits[o], Hits(requests, Opens(o)),
                             Known(engine.synced.book, o), Known(engine.book, o))
          /\ StageNow'[o] = StageOf(submits[o], 0, Known(log.book, o), Known(log.book, o))
    <3>1. \A o \in Orders :
            /\ StageNow[o] = StageOf(submits[o], Hits(requests, Opens(o)),
                               Known(engine.synced.book, o), Known(engine.book, o))
            /\ StageNow'[o] = StageOf(submits'[o], Hits(requests', Opens(o)),
                                Known(engine'.synced.book, o), Known(engine'.book, o))
      BY <1>10, StagesStep
    <3>2. \A o \in Orders : Hits(requests', Opens(o)) = 0
      BY <1>6
    <3> HIDE DEF StageNow
    <3> QED
      BY <1>8, <3>1, <3>2 DEF StageOf
  <2>2. ASSUME NEW o \in Orders
        PROVE  StageNow'[o] = IF StageNow[o] = "released" \/ (StageNow[o] = "volatile" /\ o \in kept)
                                THEN "abandoned"
                              ELSE IF StageNow[o] = "volatile" THEN "new"
                              ELSE StageNow[o]
    <3>1. /\ Known(engine.synced.book, o) => Known(log.book, o)
          /\ Known(log.book, o) => Known(engine.book, o)
      BY DEF Survives, After
    <3>2. Hits(requests, Opens(o)) > 0 => Known(engine.synced.book, o)
      BY CountsAre DEF SentineldInv, SubmitInv, Begun, Known
    <3>3. submits[o] \in Nat
      BY CountsAre DEF SentineldInv
    <3> QED
      BY <2>1, <3>1, <3>2, <3>3 DEF StageOf
  <2>3. Submission!Die(kept)
    <3>1. StageNow' = [o \in Orders |-> StageNow'[o]]
      BY DEF StageNow
    <3> QED
      BY <2>2, <3>1 DEF Submission!Die, StageNow
  <2>4. kept \in SUBSET Orders
    OBVIOUS
  <2> QED
    BY <2>3, <2>4 DEF Progress, Submission!Next
<1>12. StaysHalted
  <2>1. HaltHolds => HaltHolds'
    BY <1>1 DEF Survives, HaltHolds
  <2>2. \A o \in Orders : Known(engine'.book, o) => Known(engine.book, o)
    BY <1>8 DEF Survives, After
  <2> QED
    BY <2>1, <2>2 DEF StaysHalted
<1> QED
  BY <1>2, <1>10, <1>11, <1>12
-----------------------------------------------------------------------------
(* The writer takes a command.                                              *)

LEMMA ErrCleared ==
  ASSUME NEW f, EngineOK(f)
  PROVE  LET g == [f EXCEPT !.err = "none"]
         IN  /\ EngineOK(g) /\ Ok(g)
             /\ g.book = f.book /\ g.synced = f.synced /\ g.recon = f.recon /\ g.reqs = f.reqs
             /\ g.tail = f.tail /\ g.halted = f.halted
<1>1. PICK g : g = [f EXCEPT !.err = "none"]
  OBVIOUS
<1>2. f \in Engines
  BY DEF EngineOK
<1>3. /\ g \in Engines /\ g.book = f.book /\ g.synced = f.synced /\ g.recon = f.recon
      /\ g.reqs = f.reqs /\ g.tail = f.tail /\ g.halted = f.halted /\ g.err = "none"
  BY <1>1, <1>2 DEF Engines
<1>4. EngineOK(g)
  BY <1>3 DEF EngineOK
<1> QED
  BY <1>1, <1>3, <1>4 DEF Ok

(* What the channel of commands is left with: of the answers about X one    *)
(* is gone.                                                                 *)
Left(rest, X) ==
  /\ rest \in Seq(WorkerCommands)
  /\ \A p \in OrderIds :
       IF p \in X THEN Hits(rest, Answers(p)) + 1 <= Hits(commands, Answers(p))
       ELSE Hits(rest, Answers(p)) <= Hits(commands, Answers(p))

(* The writer runs on: engine', commands' and the ticker's count apart,     *)
(* nothing of the process changes.                                          *)
LEMMA RunOnWorld ==
  ASSUME SentineldInv, mode \in {"up", "stopping"}, NEW rest, rest \in Seq(WorkerCommands),
         NEW ticks \in 0..SweepEvery, commands' = rest, sinceSweep' = ticks,
         mode' = mode, worker' = worker, requests' = requests, stream' = stream,
         venue' = venue, submits' = submits, BoundsNext
  PROVE  WorldInv' /\ RestInv'
<1>1. WorldInv'
  <2>1. \A o \in Orders : VenueLive(o)' => venue'[o].filled <= venue'[o].qty
    BY DEF SentineldInv, WorldInv, VenueLive
  <2> QED
    BY <2>1 DEF SentineldInv, WorldInv, BoundsNext
<1>2. RestInv'
  BY DEF RestInv
<1> QED
  BY <1>1, <1>2

LEMMA HandleKeeps ==
  ASSUME SentineldInv, mode \in {"up", "stopping"}, NEW f, NEW X, Passed(engine, f, X),
         NEW rest, Left(rest, X), NEW ticks \in 0..SweepEvery, Handle(f, rest, ticks),
         venue' = venue, submits' = submits, BoundsNext
  PROVE  /\ SentineldInv' /\ Progress /\ (Firm(engine, f) \/ Resume => StaysHalted)
         /\ mode' = mode => \A o \in Orders \ X :
              Reconciling(engine.book, o) => Reconciling(engine'.book, o)
<1>1. CASE f.err = "fatal" /\ Up
  <2>1. Stop(engine.synced)
    BY <1>1 DEF Handle
  <2>2. Survives(engine.synced)
    BY LogsSurvive DEF SentineldInv
  <2>3. SentineldInv' /\ Progress /\ StaysHalted /\ mode' = "down"
    BY <2>1, <2>2, StopKeeps
  <2> QED
    BY <2>3
<1>2. CASE ~(f.err = "fatal" /\ Up)
  <2>1. /\ engine' = [f EXCEPT !.err = "none"] /\ commands' = rest /\ sinceSweep' = ticks
        /\ mode' = mode /\ worker' = worker /\ requests' = requests /\ stream' = stream
    BY <1>2 DEF Handle
  <2>2. EngineOK(f)
    BY DEF Passed
  <2>3. /\ EngineOK(engine') /\ Ok(engine') /\ engine'.book = f.book /\ engine'.synced = f.synced
        /\ engine'.recon = f.recon /\ engine'.reqs = f.reqs
        /\ engine'.tail = f.tail /\ engine'.halted = f.halted
    BY <2>1, <2>2, ErrCleared
  <2>4. WorldInv' /\ RestInv'
    BY <2>1, RunOnWorld DEF Left
  <2>5. WriterInv'
    BY <2>3 DEF WriterInv
  <2>6. \A M : /\ Hits(engine.reqs, M) \in Nat /\ Hits(requests, M) \in Nat
               /\ Hits(commands, M) \in Nat /\ Hits(rest, M) \in Nat
    BY CountsAre, HitsIs DEF SentineldInv, Left
  <2>7. QuestionInv'
    <3>1. ASSUME NEW p \in OrderIds
          PROVE  Underway(p)' <= 1 /\ (Underway(p)' = 1 => f.recon[p].inFlight)
      <4>1. Underway(p) <= 1 /\ (Underway(p) = 1 => engine.recon[p].inFlight)
        BY DEF SentineldInv, QuestionInv
      <4>2. PICK a, b, c, d, q \in Nat :
              /\ a = Hits(engine.reqs, Asks(p)) /\ b = Hits(requests, Asks(p))
              /\ c = Hits(commands, Answers(p)) /\ d = Hits(rest, Answers(p))
              /\ q = Hits(f.reqs, Asks(p))
        BY <2>2, <2>6, HitsIs DEF EngineOK
      <4>3. Underway(p) = a + b + c /\ Underway(p)' = q + b + d
        BY <2>1, <2>3, <4>2 DEF Underway
      <4>4. d <= c /\ (p \in X => d + 1 <= c)
        BY <4>2 DEF Left
      <4>5. \/ q = a /\ (p \notin X /\ engine.recon[p].inFlight => f.recon[p].inFlight)
            \/ q = a + 1 /\ p \notin X /\ ~engine.recon[p].inFlight /\ f.recon[p].inFlight
        BY <4>2 DEF Passed, AskedOnce
      <4>6. CASE q = a /\ (p \notin X /\ engine.recon[p].inFlight => f.recon[p].inFlight)
        <5>1. q + b + d <= a + b + c /\ (p \in X => q + b + d < a + b + c)
          BY <4>4, <4>6
        <5> QED
          BY <4>1, <4>3, <4>6, <5>1
      <4>7. CASE q = a + 1 /\ p \notin X /\ ~engine.recon[p].inFlight /\ f.recon[p].inFlight
        <5>1. a + b + c = 0
          BY <4>1, <4>3, <4>7
        <5>2. q + b + d <= 1
          BY <4>4, <4>7, <5>1
        <5> QED
          BY <4>3, <4>7, <5>2
      <4> QED
        BY <4>5, <4>6, <4>7
    <3> QED
      BY <2>3, <3>1 DEF QuestionInv
  <2>8. \A o \in Orders : /\ Known(engine'.book, o) <=> Known(engine.book, o)
                          /\ Begun(engine.book, o) => Begun(engine'.book, o)
                          /\ engine'.synced = engine.synced
                          /\ Hits(engine'.reqs, Opens(o)) = Hits(engine.reqs, Opens(o))
                          /\ Hits(requests', Opens(o)) = Hits(requests, Opens(o))
    BY <2>1, <2>3 DEF Passed, Later, After
  <2>9. SubmitInv'
    <3>1. \A o \in Orders : Volatile(o)' <=> Volatile(o)
      BY <2>8 DEF Volatile
    <3> QED
      BY <2>8, <3>1 DEF SubmitInv, SentineldInv
  <2>10. SentineldInv'
    BY <2>4, <2>5, <2>7, <2>9 DEF SentineldInv
  <2>11. Progress
    BY <2>8, <2>10, StageSame
  <2>12. \A o \in Orders \ X : Reconciling(engine.book, o) => Reconciling(engine'.book, o)
    BY <2>3 DEF Passed, Later
  <2>13. Firm(engine, f) \/ Resume => StaysHalted
    <3>1. Firm(engine, f) => (HaltHolds => HaltHolds')
      BY <2>3, <2>8, FirmHalted DEF Passed
    <3>2. \A o \in Orders : Known(engine'.book, o) => Known(engine.book, o)
      BY <2>8
    <3> QED
      BY <3>1, <3>2 DEF StaysHalted
  <2> QED
    BY <2>10, <2>11, <2>12, <2>13
<1> QED
  BY <1>1, <1>2

LEMMA LeftAll ==
  ASSUME SentineldInv
  PROVE  Left(commands, {})
<1>1. commands \in Seq(WorkerCommands)
  BY DEF SentineldInv, WorldInv
<1>2. \A M : Hits(commands, M) \in Nat
  BY CountsAre DEF SentineldInv
<1> QED
  BY <1>1, <1>2 DEF Left

LEMMA LeftTail ==
  ASSUME SentineldInv, commands # <<>>
  PROVE  /\ Left(Tail(commands), {})
         /\ \A p : Head(commands) \in Answers(p) => Left(Tail(commands), {p})
         /\ Head(commands) \in WorkerCommands
<1>1. commands \in Seq(WorkerCommands)
  BY DEF SentineldInv, WorldInv
<1>2. PICK h : h = Head(commands)
  OBVIOUS
<1>3. PICK r : r = Tail(commands)
  OBVIOUS
<1>4. h \in WorkerCommands /\ r \in Seq(WorkerCommands)
  BY <1>1, <1>2, <1>3, HeadTailProperties
<1>5. \A M : Hits(commands, M) = One(h, M) + Hits(r, M)
  BY <1>1, <1>2, <1>3, HitsTail
<1>6. \A M : Hits(r, M) \in Nat
  BY <1>4, HitsIs
<1>7. Left(r, {})
  BY <1>4, <1>5, <1>6 DEF Left, One
<1>8. ASSUME NEW p, h \in Answers(p) PROVE Left(r, {p})
  BY <1>4, <1>5, <1>6, <1>8 DEF Left, One
<1> QED
  BY <1>2, <1>3, <1>4, <1>7, <1>8
-----------------------------------------------------------------------------
(* One lemma per action of the process.                                     *)

LEMMA BoundsSame ==
  ASSUME SentineldInv, UNCHANGED <<wall, faults, crashes, replays>>
  PROVE  BoundsNext
  BY DEF SentineldInv, WorldInv, BoundsNext

(* A command that answers no lookup.                                        *)
LEMMA QuietHandle ==
  ASSUME SentineldInv, mode \in {"up", "stopping"}, NEW f, Passed(engine, f, {}),
         Firm(engine, f) \/ Resume, NEW rest, Left(rest, {}), NEW ticks \in 0..SweepEvery, Handle(f, rest, ticks),
         venue' = venue, submits' = submits, BoundsNext
  PROVE  Good
<1>1. /\ SentineldInv' /\ Progress /\ (Firm(engine, f) \/ Resume => StaysHalted)
      /\ mode' = mode => \A o \in Orders \ {} :
           Reconciling(engine.book, o) => Reconciling(engine'.book, o)
  BY HandleKeeps
<1> QED
  BY <1>1 DEF Good, StaysReconciling, Reconciling

LEMMA AskedGood ==
  ASSUME SentineldInv, NEW f, Passed(engine, f, {}), Firm(engine, f) \/ Resume, Asked(f)
  PROVE  Good
<1>1. mode \in {"up", "stopping"} /\ sinceSweep \in 0..SweepEvery
  BY DEF Asked, Operate, Up, SentineldInv, WorldInv
<1>2. BoundsNext
  BY BoundsAssumption DEF Asked, Operate, BoundsNext, SentineldInv, WorldInv
<1>3. Handle(f, commands, sinceSweep) /\ venue' = venue /\ submits' = submits
  BY DEF Asked, Operate
<1> QED
  BY <1>1, <1>2, <1>3, LeftAll, QuietHandle

LEMMA EngineNow == ASSUME SentineldInv PROVE EngineOK(engine) /\ Ok(engine)
  BY DEF SentineldInv, WriterInv

LEMMA CancelGood == ASSUME SentineldInv, NEW o \in Orders, Cancel(o) PROVE Good
  BY EngineNow, OnCancelKeeps, AskedGood DEF Cancel, Kept

LEMMA HaltGood == ASSUME SentineldInv, Halt PROVE Good
  BY EngineNow, OnHaltKeeps, AskedGood DEF Halt, Kept

LEMMA ResumeGood == ASSUME SentineldInv, Resume PROVE Good
<1>1. Passed(engine, OnResume(engine), {})
  BY EngineNow, OnResumeKeeps
<1>2. Asked(OnResume(engine))
  BY DEF Resume
<1> QED
  BY <1>1, <1>2, AskedGood

LEMMA TickGood == ASSUME SentineldInv, Tick PROVE Good
<1>1. PICK f : f = OnTick(engine, wall + 1)
  OBVIOUS
<1>2. mode \in {"up", "stopping"} /\ wall \in 0..MaxNow /\ wall < MaxNow /\ sinceSweep \in 0..SweepEvery
      /\ ~(sinceSweep >= SweepEvery)
  BY DEF Tick, Up, SweepDue, SentineldInv, WorldInv
<1>3. wall + 1 \in Nat /\ wall + 1 \in 0..MaxNow /\ sinceSweep + 1 \in 0..SweepEvery
  BY <1>2, BoundsAssumption
<1>4. Kept(engine, f, {})
  BY <1>1, <1>3, EngineNow, OnTickKeeps
<1>5. Handle(f, commands, sinceSweep + 1) /\ venue' = venue /\ submits' = submits
  BY <1>1 DEF Tick
<1>6. BoundsNext
  BY <1>3 DEF Tick, BoundsNext, bounds, SentineldInv, WorldInv
<1> QED
  BY <1>2, <1>3, <1>4, <1>5, <1>6, LeftAll, QuietHandle DEF Kept

LEMMA SweepGood == ASSUME SentineldInv, SweepStale PROVE Good
<1>1. PICK f : f = OnSweep(engine)
  OBVIOUS
<1>2. mode \in {"up", "stopping"} /\ 0 \in 0..SweepEvery
  BY BoundsAssumption DEF SweepStale, Up
<1>3. Kept(engine, f, {})
  BY <1>1, EngineNow, OnSweepKeeps
<1>4. Handle(f, commands, 0) /\ venue' = venue /\ submits' = submits
  BY <1>1 DEF SweepStale
<1>5. BoundsNext
  BY DEF SweepStale, BoundsNext, bounds, SentineldInv, WorldInv
<1> QED
  BY <1>2, <1>3, <1>4, <1>5, LeftAll, QuietHandle DEF Kept

(* The kinds of the worker's commands, and what each carries.               *)
LEMMA CommandIs ==
  ASSUME NEW c \in WorkerCommands
  PROVE  /\ c.kind = "Submitted" => c.order \in OrderIds /\ c.outcome \in {"Acked", "Rejected", "TimedOut"}
         /\ c.kind = "Cancelled" => c.order \in OrderIds
         /\ c.kind = "LookedUp" =>
              /\ c.order \in OrderIds /\ c.outcome \in {"Found", "Absent", "TimedOut"}
              /\ c.snapshot.filled \in Nat
              /\ c.outcome = "Found" => c.snapshot.state \in OrderStates
              /\ c \in Answers(c.order)
         /\ c.kind = "Fill" => c.order \in OrderIds /\ c.exec \in ExecIds /\ c.qty \in Nat \ {0}
         /\ c.kind = "CancelConfirmed" => c.order \in OrderIds
         /\ c.kind = "PositionsReported" => c.qty \in Int
<1>1. c \in Commands /\ (c.kind = "LookedUp" /\ c.outcome = "Found" => c.snapshot.state \in VenueStates)
  BY DEF WorkerCommands
<1>2. VenueStates \subseteq OrderStates /\ Orders \subseteq OrderIds
  BY DEF VenueStates, OrderStates, OrderIds
<1>3. c.kind = "Submitted" => c.order \in OrderIds /\ c.outcome \in {"Acked", "Rejected", "TimedOut"}
  BY <1>1 DEF Commands, VenueEvents
<1>4. c.kind = "Cancelled" => c.order \in OrderIds
  BY <1>1 DEF Commands, VenueEvents
<1>5. c.kind = "LookedUp" => /\ c.order \in OrderIds /\ c.outcome \in {"Found", "Absent", "TimedOut"}
                             /\ c.snapshot.filled \in Nat
  BY <1>1 DEF Commands, VenueEvents
<1>6. c.kind = "Fill" => c.order \in OrderIds /\ c.exec \in ExecIds /\ c.qty \in Nat \ {0}
  BY <1>1, <1>2 DEF Commands, VenueEvents
<1>7. c.kind = "CancelConfirmed" => c.order \in OrderIds
  BY <1>1, <1>2 DEF Commands, VenueEvents
<1>8. c.kind = "PositionsReported" => c.qty \in Int
  BY <1>1 DEF Commands, VenueEvents
<1>9. c.kind = "LookedUp" => c \in Answers(c.order)
  BY <1>1 DEF Answers
<1> QED
  BY <1>1, <1>2, <1>3, <1>4, <1>5, <1>6, <1>7, <1>8, <1>9

LEMMA TakeGood ==
  ASSUME SentineldInv, commands # <<>>, NEW f, Kept(engine, f, {}), NEW kind, Take(kind, f)
  PROVE  Good
<1>1. mode \in {"up", "stopping"} /\ sinceSweep \in 0..SweepEvery
  BY DEF Take, SentineldInv, WorldInv
<1>2. BoundsNext
  BY DEF Take, bounds, BoundsNext, SentineldInv, WorldInv
<1>3. Handle(f, Tail(commands), sinceSweep) /\ venue' = venue /\ submits' = submits
  BY DEF Take
<1> QED
  BY <1>1, <1>2, <1>3, LeftTail, QuietHandle DEF Kept

LEMMA TakeAnswerGood ==
  ASSUME SentineldInv, commands # <<>>, NEW c, c = Head(commands), NEW f,
         c.kind = "LookedUp", Kept(engine, f, {c.order}), Take("LookedUp", f)
  PROVE  Good
<1>1. mode \in {"up", "stopping"} /\ sinceSweep \in 0..SweepEvery
  BY DEF Take, SentineldInv, WorldInv
<1>2. BoundsNext
  BY DEF Take, bounds, BoundsNext, SentineldInv, WorldInv
<1>3. PICK rest : rest = Tail(commands)
  OBVIOUS
<1>4. Handle(f, rest, sinceSweep) /\ venue' = venue /\ submits' = submits
  BY <1>3 DEF Take
<1>5. PICK X : X = {c.order}
  OBVIOUS
<1>6. Left(rest, X)
  BY <1>3, <1>5, LeftTail, CommandIs
<1>7. Kept(engine, f, X)
  BY <1>5
<1>8. /\ SentineldInv' /\ Progress /\ StaysHalted
      /\ mode' = mode => \A o \in Orders \ X :
           Reconciling(engine.book, o) => Reconciling(engine'.book, o)
  BY <1>1, <1>2, <1>4, <1>6, <1>7, HandleKeeps DEF Kept
<1> QED
  BY <1>5, <1>8 DEF Good, StaysReconciling, Reconciling

LEMMA WriterTakesGood == ASSUME SentineldInv, WriterTakes PROVE Good
<1>1. PICK c : c = Head(commands)
  OBVIOUS
<1>2. commands # <<>> /\ c \in WorkerCommands
  BY <1>1, LeftTail DEF WriterTakes
<1>3. EngineOK(engine) /\ Ok(engine)
  BY EngineNow
<1>4. CASE Take("Submitted", OnSubmitted(engine, c.order, c.outcome))
  <2>1. c.kind = "Submitted"
    BY <1>1, <1>4 DEF Take
  <2> QED
    BY <1>2, <1>3, <1>4, <2>1, CommandIs, OnSubmittedKeeps, TakeGood
<1>5. CASE Take("Cancelled", OnCancelled(engine, c.order, c.outcome))
  <2>1. c.kind = "Cancelled"
    BY <1>1, <1>5 DEF Take
  <2> QED
    BY <1>2, <1>3, <1>5, <2>1, CommandIs, OnCancelledKeeps, TakeGood
<1>6. CASE Take("LookedUp", OnLookedUp(engine, c.order, c.outcome, c.snapshot))
  <2>1. c.kind = "LookedUp"
    BY <1>1, <1>6 DEF Take
  <2>2. Kept(engine, OnLookedUp(engine, c.order, c.outcome, c.snapshot), {c.order})
    BY <1>2, <1>3, <2>1, CommandIs, OnLookedUpKeeps
  <2> QED
    BY <1>1, <1>2, <1>6, <2>1, <2>2, TakeAnswerGood
<1>7. CASE Take("Fill", OnFill(engine, c.order, c.exec, c.qty))
  <2>1. c.kind = "Fill"
    BY <1>1, <1>7 DEF Take
  <2> QED
    BY <1>2, <1>3, <1>7, <2>1, CommandIs, OnFillKeeps, TakeGood
<1>8. CASE Take("CancelConfirmed", OnCancelConfirmed(engine, c.order))
  <2>1. c.kind = "CancelConfirmed"
    BY <1>1, <1>8 DEF Take
  <2> QED
    BY <1>2, <1>3, <1>8, <2>1, CommandIs, OnCancelConfirmedKeeps, TakeGood
<1>9. CASE Take("PositionsReported", OnPositions(engine, c.qty))
  <2>1. c.kind = "PositionsReported"
    BY <1>1, <1>9 DEF Take
  <2> QED
    BY <1>2, <1>3, <1>9, <2>1, CommandIs, OnPositionsKeeps, TakeGood
<1> QED
  BY <1>1, <1>4, <1>5, <1>6, <1>7, <1>8, <1>9 DEF WriterTakes
(* A new intent is authorised: the one step that accepts an order.          *)
LEMMA PlacedGood ==
  ASSUME SentineldInv, Up, NEW o \in Orders, NEW f, ~Known(engine.book, o), Placed(engine, f, o),
         engine.halted => Intent[o].exit,
         Handle(f, commands, sinceSweep), venue' = venue, submits' = submits, BoundsNext
  PROVE  Good
<1>1. mode \in {"up", "stopping"} /\ EngineOK(f) /\ Ok(f)
  BY DEF Up, Placed
<1>2. /\ engine' = [f EXCEPT !.err = "none"] /\ commands' = commands /\ sinceSweep' = sinceSweep
      /\ mode' = mode /\ worker' = worker /\ requests' = requests /\ stream' = stream
  BY <1>1 DEF Handle, Ok
<1>3. /\ EngineOK(engine') /\ Ok(engine') /\ engine'.book = f.book /\ engine'.synced = f.synced
      /\ engine'.recon = f.recon /\ engine'.reqs = f.reqs
      /\ engine'.tail = f.tail /\ engine'.halted = f.halted
  BY <1>1, <1>2, ErrCleared
<1>4. WorldInv' /\ RestInv'
  <2>1. commands \in Seq(WorkerCommands) /\ sinceSweep \in 0..SweepEvery
    BY DEF SentineldInv, WorldInv
  <2> QED
    BY <1>1, <1>2, <2>1, RunOnWorld
<1>5. WriterInv'
  BY <1>3 DEF WriterInv
<1>6. QuestionInv'
  <2>1. \A p \in OrderIds : Underway(p)' = Underway(p) /\ engine'.recon[p] = engine.recon[p]
    BY <1>2, <1>3 DEF Placed, Underway
  <2> QED
    BY <2>1 DEF SentineldInv, QuestionInv
<1>7. ASSUME NEW p \in Orders, p # o
      PROVE  /\ Known(engine'.book, p) <=> Known(engine.book, p)
             /\ Begun(engine'.book, p) <=> Begun(engine.book, p)
             /\ Hits(engine'.reqs, Opens(p)) = Hits(engine.reqs, Opens(p))
  BY <1>3, <1>7 DEF Placed, Known, Begun, OrderIds
<1>8. engine'.synced = engine.synced
  BY <1>3 DEF Placed
<1>9. Begun(engine'.book, o) /\ Known(engine'.book, o)
  BY <1>3 DEF Placed, Known, Begun
<1>10. ~Known(engine.synced.book, o) /\ ~Begun(engine.synced.book, o)
  BY DEF SentineldInv, WriterInv, EngineOK, After, Known, Begun
<1>11. Hits(requests, Opens(o)) = 0 /\ submits[o] = 0
  <2>1. Hits(requests, Opens(o)) \in Nat /\ submits[o] \in Nat
    BY CountsAre DEF SentineldInv
  <2> QED
    BY <1>10, <2>1 DEF SentineldInv, SubmitInv
<1>12. Hits(engine'.reqs, Opens(o)) = 1
  <2>1. Hits(engine.reqs, Opens(o)) = 0
    BY DEF SentineldInv, SubmitInv, Volatile
  <2> QED
    BY <1>3, <2>1 DEF Placed
<1>13. SubmitInv'
  <2>1. ASSUME NEW p \in Orders
        PROVE  /\ Hits(engine'.reqs, Opens(p)) = IF Volatile(p)' THEN 1 ELSE 0
               /\ Volatile(p)' => Begun(engine'.book, p)
               /\ Hits(requests', Opens(p)) + submits'[p] <= 1
               /\ Hits(requests', Opens(p)) + submits'[p] > 0 => Begun(engine'.synced.book, p)
    <3>1. CASE p = o
      BY <1>2, <1>8, <1>9, <1>10, <1>11, <1>12, <3>1 DEF Volatile
    <3>2. CASE p # o
      <4>1. Volatile(p)' <=> Volatile(p)
        BY <1>7, <1>8, <3>2 DEF Volatile
      <4> QED
        BY <1>2, <1>7, <1>8, <3>2, <4>1 DEF SentineldInv, SubmitInv
    <3> QED
      BY <3>1, <3>2
  <2> QED
    BY <2>1 DEF SubmitInv
<1>14. SentineldInv'
  BY <1>4, <1>5, <1>6, <1>13 DEF SentineldInv
<1>15. Progress
  <2>1. \A p \in Orders :
          /\ StageNow[p] = StageOf(submits[p], Hits(requests, Opens(p)),
                             Known(engine.synced.book, p), Known(engine.book, p))
          /\ StageNow'[p] = StageOf(submits[p], Hits(requests, Opens(p)),
                              Known(engine.synced.book, p), Known(engine'.book, p))
    BY <1>2, <1>8, <1>14, StagesStep
  <2> HIDE DEF StageNow
  <2>2. StageNow[o] = "new" /\ StageNow'[o] = "volatile"
    BY <1>9, <1>10, <1>11, <2>1 DEF StageOf
  <2>3. \A p \in Orders : p # o => StageNow'[p] = StageNow[p]
    BY <1>7, <2>1 DEF StageOf
  <2>4. /\ StageNow = [p \in Orders |-> StageNow[p]]
        /\ StageNow' = [p \in Orders |-> StageNow'[p]]
    BY DEF StageNow
  <2>5. StageNow' = [StageNow EXCEPT ![o] = "volatile"]
    BY <2>2, <2>3, <2>4
  <2>6. Submission!Accept(o)
    BY <2>2, <2>5 DEF Submission!Accept, StageNow
  <2> QED
    BY <2>6 DEF Progress, Submission!Next
<1>16. StaysReconciling
  <2>1. \A p \in Orders : p # o => engine'.book.orders[p] = engine.book.orders[p]
    BY <1>3 DEF Placed, OrderIds
  <2>2. engine.book.orders[o].state # "Reconciling"
    BY DEF Known
  <2> QED
    BY <2>1, <2>2 DEF StaysReconciling
<1>17. StaysHalted
  <2>1. HaltHolds => HaltHolds'
    BY <1>3, <1>8, FirmHalted DEF Placed
  <2>2. \A p \in Orders : p # o => (Known(engine'.book, p) <=> Known(engine.book, p))
    BY <1>7
  <2>3. HaltHolds => Intent[o].exit
    BY DEF HaltHolds
  <2> QED
    BY <2>1, <2>2, <2>3 DEF StaysHalted
<1> QED
  BY <1>14, <1>15, <1>16, <1>17 DEF Good

LEMMA PlaceGood == ASSUME SentineldInv, NEW o \in Orders, Place(o) PROVE Good
<1>1. PICK f : f = OnPlace(engine, o, Intent[o])
  OBVIOUS
<1>2. Up /\ mode \in {"up", "stopping"} /\ sinceSweep \in 0..SweepEvery
  BY DEF Place, Operate, Up, SentineldInv, WorldInv
<1>3. Handle(f, commands, sinceSweep) /\ venue' = venue /\ submits' = submits
  BY <1>1 DEF Place, Operate
<1>4. BoundsNext
  <2>1. wall' = wall /\ faults' = faults /\ crashes' = crashes
    BY DEF Place, Operate
  <2>2. replays \in 0..MaxReplays /\ (replays' = replays \/ (replays < MaxReplays /\ replays' = replays + 1))
    BY DEF Place, SentineldInv, WorldInv
  <2>3. replays' \in 0..MaxReplays
    BY <2>2, BoundsAssumption
  <2> QED
    BY <2>1, <2>3 DEF BoundsNext, SentineldInv, WorldInv
<1>5. CASE Kept(engine, f, {})
  BY <1>2, <1>3, <1>4, <1>5, LeftAll, QuietHandle DEF Kept
<1>6. CASE ~Known(engine.book, o) /\ Placed(engine, f, o) /\ (engine.halted => Intent[o].exit)
  BY <1>2, <1>3, <1>4, <1>6, PlacedGood
<1> QED
  BY <1>1, <1>5, <1>6, EngineNow, OnPlaceKeeps
(* The flush: what was accepted becomes durable, and its requests are       *)
(* released.                                                                *)
LEMMA FlushedIs ==
  ASSUME NEW e, EngineOK(e), Ok(e)
  PROVE  LET f == Flushed(e)
         IN  /\ EngineOK(f) /\ Ok(f) /\ f.reqs = <<>> /\ f.recon = e.recon
             /\ f.book = e.book /\ f.synced.book = e.book
             /\ f.tail = {} /\ f.halted = e.halted
<1>1. PICK f : f = Flushed(e)
  OBVIOUS
<1>2. PICK log : log = [book |-> e.book, folds |-> e.folds]
  OBVIOUS
<1>3. e \in Engines
  BY DEF EngineOK
<1>4. log \in Images /\ log.book = e.book
  BY <1>2, <1>3 DEF Images, Engines
<1>5. PICK none \in Seq(VenueRequests) : none = <<>>
  BY EmptySeq
<1>6. f = [e EXCEPT !.synced = log, !.tail = {}, !.reqs = none]
  BY <1>1, <1>2, <1>5 DEF Flushed
<1>7. /\ f \in Engines /\ f.synced = log /\ f.tail = {} /\ f.reqs = none /\ f.book = e.book
      /\ f.recon = e.recon /\ f.halted = e.halted /\ f.err = e.err
  BY <1>3, <1>4, <1>6 DEF Engines
<1>8. f.reqs = <<>> /\ f.reqs \in Seq(WorkerRequests)
  BY <1>5, <1>7
<1>9. EngineOK(f)
  BY <1>4, <1>7, <1>8, AfterIsOrder DEF EngineOK
<1> QED
  BY <1>1, <1>4, <1>7, <1>8, <1>9 DEF Ok

LEMMA WriterFlushesGood == ASSUME SentineldInv, WriterFlushes PROVE Good
<1>1. /\ Up /\ requests' = requests \o engine.reqs /\ engine' = Flushed(engine)
      /\ mode' = mode /\ worker' = worker /\ commands' = commands /\ venue' = venue
      /\ stream' = stream /\ wall' = wall /\ sinceSweep' = sinceSweep
      /\ faults' = faults /\ crashes' = crashes /\ replays' = replays /\ submits' = submits
  BY DEF WriterFlushes, bounds
<1>2. /\ EngineOK(engine') /\ Ok(engine') /\ engine'.reqs = <<>> /\ engine'.recon = engine.recon
      /\ engine'.book = engine.book /\ engine'.synced.book = engine.book
      /\ engine'.tail = {} /\ engine'.halted = engine.halted
  BY <1>1, EngineNow, FlushedIs
<1>3. requests \in Seq(WorkerRequests) /\ engine.reqs \in Seq(WorkerRequests)
  BY DEF SentineldInv, WriterInv, WorldInv, EngineOK
<1>4. requests' \in Seq(WorkerRequests)
  BY <1>1, <1>3, ConcatProperties
<1>5. \A M : /\ Hits(requests', M) = Hits(requests, M) + Hits(engine.reqs, M)
             /\ Hits(engine'.reqs, M) = 0
             /\ Hits(requests, M) \in Nat /\ Hits(engine.reqs, M) \in Nat
             /\ Hits(commands, M) \in Nat
  <2>1. \A M : Hits(requests', M) = Hits(requests, M) + Hits(engine.reqs, M)
    BY <1>1, <1>3, HitsConcat
  <2>2. \A M : Hits(engine'.reqs, M) = 0
    BY <1>2, HitsEmpty
  <2> QED
    BY <2>1, <2>2, CountsAre DEF SentineldInv
<1>6. WorldInv'
  <2>1. \A o \in Orders : VenueLive(o)' => venue'[o].filled <= venue'[o].qty
    BY <1>1 DEF SentineldInv, WorldInv, VenueLive
  <2> QED
    BY <1>1, <1>4, <2>1 DEF SentineldInv, WorldInv
<1>7. WriterInv' /\ RestInv'
  BY <1>1, <1>2 DEF WriterInv, RestInv, Up
<1>8. QuestionInv'
  <2>1. ASSUME NEW p \in OrderIds PROVE Underway(p)' = Underway(p)
    BY <1>1, <1>5 DEF Underway
  <2> QED
    BY <1>2, <2>1 DEF SentineldInv, QuestionInv
<1>9. \A o \in Orders :
        /\ Known(engine.synced.book, o) => Known(engine.book, o)
        /\ Begun(engine.synced.book, o) => Begun(engine.book, o)
        /\ Begun(engine.synced.book, o) => Known(engine.synced.book, o)
  BY DEF SentineldInv, WriterInv, EngineOK, After, Known, Begun
<1>10. \A o \in Orders :
         /\ Hits(engine.reqs, Opens(o)) = IF Volatile(o) THEN 1 ELSE 0
         /\ Hits(requests, Opens(o)) \in Nat /\ submits[o] \in Nat
         /\ Volatile(o) => Hits(requests, Opens(o)) = 0 /\ submits[o] = 0
  <2>1. \A o \in Orders : Hits(requests, Opens(o)) \in Nat /\ submits[o] \in Nat
    BY CountsAre DEF SentineldInv
  <2> QED
    BY <1>9, <2>1 DEF SentineldInv, SubmitInv, Volatile
<1>11. SubmitInv'
  <2>1. \A o \in Orders : ~Volatile(o)'
    BY <1>2 DEF Volatile
  <2>2. ASSUME NEW o \in Orders
        PROVE  /\ Hits(requests', Opens(o)) + submits'[o] <= 1
               /\ Hits(requests', Opens(o)) + submits'[o] > 0 => Begun(engine.book, o)
    <3>1. /\ Hits(requests, Opens(o)) + submits[o] <= 1
          /\ Hits(requests, Opens(o)) + submits[o] > 0 => Begun(engine.synced.book, o)
          /\ Volatile(o) => Begun(engine.book, o)
      BY DEF SentineldInv, SubmitInv
    <3>2. PICK a, b, c \in Nat : a = Hits(requests, Opens(o)) /\ b = Hits(engine.reqs, Opens(o))
                                 /\ c = submits[o]
      BY <1>5, <1>10
    <3>3. Hits(requests', Opens(o)) = a + b /\ submits'[o] = c
      BY <1>1, <1>5, <3>2
    <3> QED
      BY <1>9, <1>10, <3>1, <3>2, <3>3
  <2> QED
    BY <1>2, <1>5, <2>1, <2>2 DEF SubmitInv
<1>12. SentineldInv'
  BY <1>6, <1>7, <1>8, <1>11 DEF SentineldInv
<1>13. Progress
  <2>1. \A o \in Orders :
          /\ StageNow[o] = StageOf(submits[o], Hits(requests, Opens(o)),
                             Known(engine.synced.book, o), Known(engine.book, o))
          /\ StageNow'[o] = StageOf(submits[o], Hits(requests', Opens(o)),
                              Known(engine.book, o), Known(engine.book, o))
    BY <1>1, <1>2, <1>12, StagesStep
  <2> HIDE DEF StageNow
  <2>2. ASSUME NEW o \in Orders
        PROVE  StageNow'[o] = IF StageNow[o] = "volatile" THEN "released" ELSE StageNow[o]
    <3>1. CASE Volatile(o)
      <4>1. Hits(requests', Opens(o)) = 1 /\ submits[o] = 0 /\ Hits(requests, Opens(o)) = 0
        BY <1>5, <1>10, <3>1
      <4> QED
        BY <2>1, <3>1, <4>1 DEF StageOf, Volatile
    <3>2. CASE ~Volatile(o)
      <4>1. Hits(requests', Opens(o)) = Hits(requests, Opens(o))
        BY <1>5, <1>10, <3>2
      <4>2. Known(engine.book, o) <=> Known(engine.synced.book, o)
        BY <1>9, <3>2 DEF Volatile
      <4> QED
        BY <2>1, <4>1, <4>2 DEF StageOf
    <3> QED
      BY <3>1, <3>2
  <2>3. StageNow' = [o \in Orders |-> StageNow'[o]]
    BY DEF StageNow
  <2>4. Submission!Flush
    BY <2>2, <2>3 DEF Submission!Flush, StageNow
  <2> QED
    BY <2>4 DEF Progress, Submission!Next
<1>14. StaysReconciling
  BY <1>2 DEF StaysReconciling
<1>15. StaysHalted
  <2>1. engine.halted = engine.book.halted
    BY EngineNow DEF EngineOK
  <2> QED
    BY <1>2, <2>1 DEF StaysHalted, HaltHolds
<1> QED
  BY <1>12, <1>13, <1>14, <1>15 DEF Good
-----------------------------------------------------------------------------
(* The worker, and what happens elsewhere: the engine stands still.         *)

LEMMA ElsewhereGood ==
  ASSUME SentineldInv, WorldInv', RestInv', engine' = engine, submits' = submits,
         \A o \in Orders : Hits(requests', Opens(o)) = Hits(requests, Opens(o)),
         \A p \in OrderIds : Hits(requests', Asks(p)) + Hits(commands', Answers(p))
                               <= Hits(requests, Asks(p)) + Hits(commands, Answers(p))
  PROVE  Good
<1>1. WriterInv'
  BY DEF SentineldInv, WriterInv
<1>2. QuestionInv'
  <2>1. ASSUME NEW p \in OrderIds
        PROVE  /\ Underway(p)' <= 1
               /\ Underway(p)' = 1 => engine.recon[p].inFlight
    <3>1. PICK a, b, c, d, q \in Nat :
            /\ a = Hits(engine.reqs, Asks(p)) /\ b = Hits(requests, Asks(p))
            /\ c = Hits(commands, Answers(p)) /\ d = Hits(requests', Asks(p))
            /\ q = Hits(commands', Answers(p))
      <4>1. requests' \in Seq(WorkerRequests) /\ commands' \in Seq(WorkerCommands)
        BY DEF WorldInv
      <4> QED
        BY <4>1, CountsAre, HitsIs DEF SentineldInv
    <3>2. Underway(p) = a + b + c /\ Underway(p)' = a + d + q /\ d + q <= b + c
      BY <3>1 DEF Underway
    <3>3. Underway(p) <= 1 /\ (Underway(p) = 1 => engine.recon[p].inFlight)
      BY DEF SentineldInv, QuestionInv
    <3> QED
      BY <3>2, <3>3
  <2> QED
    BY <2>1 DEF QuestionInv
<1>3. SubmitInv'
  <2>1. \A o \in Orders : Volatile(o)' <=> Volatile(o)
    BY DEF Volatile
  <2> QED
    BY <2>1 DEF SentineldInv, SubmitInv
<1>4. SentineldInv'
  BY <1>1, <1>2, <1>3 DEF SentineldInv
<1>5. Progress
  BY <1>4, StageSame
<1> QED
  BY <1>4, <1>5, StillHalted DEF Good, StaysReconciling

(* The same, when the channels stand still too.                             *)
LEMMA ChannelsGood ==
  ASSUME SentineldInv, WorldInv', engine' = engine, submits' = submits,
         requests' = requests, commands' = commands,
         mode' \in {"down", "dead"} => mode \in {"down", "dead"}
  PROVE  Good
<1>1. RestInv'
  BY DEF SentineldInv, RestInv
<1>2. \A p \in OrderIds : Hits(requests, Asks(p)) \in Nat /\ Hits(commands, Answers(p)) \in Nat
  BY CountsAre DEF SentineldInv
<1> QED
  BY <1>1, <1>2, ElsewhereGood

LEMMA EventsAre == VenueEvents \subseteq WorkerCommands
<1>1. VenueEvents \subseteq Commands
  BY DEF Commands
<1>2. \A c \in VenueEvents : c.kind # "LookedUp"
  BY DEF VenueEvents
<1> QED
  BY <1>1, <1>2 DEF WorkerCommands

LEMMA DrainGood == ASSUME SentineldInv, Drain PROVE Good
<1>1. /\ Up /\ worker' = "perform" /\ commands' = commands \o stream /\ stream' = <<>>
      /\ engine' = engine /\ mode' = mode /\ requests' = requests /\ venue' = venue
      /\ wall' = wall /\ sinceSweep' = sinceSweep
      /\ faults' = faults /\ crashes' = crashes /\ replays' = replays /\ submits' = submits
  BY DEF Drain, bounds
<1>2. commands \in Seq(WorkerCommands) /\ stream \in Seq(VenueEvents) /\ stream \in Seq(WorkerCommands)
  BY EventsAre, SeqMonotonic DEF SentineldInv, WorldInv
<1>3. commands' \in Seq(WorkerCommands) /\ stream' \in Seq(VenueEvents)
  BY <1>1, <1>2, ConcatProperties
<1>4. WorldInv'
  <2>1. \A o \in Orders : VenueLive(o)' => venue'[o].filled <= venue'[o].qty
    BY <1>1 DEF SentineldInv, WorldInv, VenueLive
  <2> QED
    BY <1>1, <1>3, <2>1 DEF SentineldInv, WorldInv
<1>5. ASSUME NEW p \in OrderIds
      PROVE  Hits(commands', Answers(p)) = Hits(commands, Answers(p))
  <2>1. Hits(commands', Answers(p)) = Hits(commands, Answers(p)) + Hits(stream, Answers(p))
    BY <1>1, <1>2, HitsConcat
  <2>2. Hits(stream, Answers(p)) = 0
    <3>1. \A i \in DOMAIN stream : stream[i] \in VenueEvents
      BY <1>2, LenProperties
    <3>2. \A c \in VenueEvents : c \notin Answers(p)
      BY DEF VenueEvents, Answers
    <3> QED
      BY <1>2, <3>1, <3>2, HitsIs
  <2>3. Hits(commands, Answers(p)) \in Nat
    BY <1>2, HitsIs
  <2> QED
    BY <2>1, <2>2, <2>3
<1>6. RestInv'
  BY <1>1 DEF RestInv, Up
<1>7. \A p \in OrderIds : Hits(requests, Asks(p)) \in Nat /\ Hits(commands, Answers(p)) \in Nat
  BY CountsAre DEF SentineldInv
<1> QED
  BY <1>1, <1>4, <1>5, <1>6, <1>7, ElsewhereGood

LEMMA IdleGood == ASSUME SentineldInv, Idle PROVE Good
<1>1. /\ worker' = "drain" /\ commands' = commands /\ stream' = stream
      /\ engine' = engine /\ mode' = mode /\ requests' = requests /\ venue' = venue
      /\ wall' = wall /\ sinceSweep' = sinceSweep
      /\ faults' = faults /\ crashes' = crashes /\ replays' = replays /\ submits' = submits
  BY DEF Idle, bounds
<1>2. WorldInv'
  <2>1. \A o \in Orders : VenueLive(o)' => venue'[o].filled <= venue'[o].qty
    BY <1>1 DEF SentineldInv, WorldInv, VenueLive
  <2> QED
    BY <1>1, <2>1 DEF SentineldInv, WorldInv
<1> QED
  BY <1>1, <1>2, ChannelsGood

LEMMA ShutdownGood == ASSUME SentineldInv, Shutdown PROVE Good
<1>1. /\ Up /\ worker' = worker /\ commands' = commands /\ stream' = stream
      /\ engine' = engine /\ mode' = "stopping" /\ requests' = requests /\ venue' = venue
      /\ wall' = wall /\ sinceSweep' = sinceSweep
      /\ faults' = faults /\ crashes' = crashes + 1 /\ crashes < MaxCrashes
      /\ replays' = replays /\ submits' = submits
  BY DEF Shutdown, Ending, process
<1>2. crashes' \in 0..MaxCrashes
  BY <1>1, BoundsAssumption DEF SentineldInv, WorldInv
<1>3. WorldInv'
  <2>1. \A o \in Orders : VenueLive(o)' => venue'[o].filled <= venue'[o].qty
    BY <1>1 DEF SentineldInv, WorldInv, VenueLive
  <2> QED
    BY <1>1, <1>2, <2>1 DEF SentineldInv, WorldInv
<1> QED
  BY <1>1, <1>3, ChannelsGood DEF Up

LEMMA RefuseGood == ASSUME SentineldInv, RefuseToStart PROVE Good
<1>1. /\ mode = "down" /\ worker' = worker /\ commands' = commands /\ stream' = stream
      /\ engine' = engine /\ mode' = "dead" /\ requests' = requests /\ venue' = venue
      /\ wall' = wall /\ sinceSweep' = sinceSweep
      /\ faults' = faults /\ crashes' = crashes /\ replays' = replays /\ submits' = submits
  BY DEF RefuseToStart, process, bounds
<1>2. WorldInv'
  <2>1. \A o \in Orders : VenueLive(o)' => venue'[o].filled <= venue'[o].qty
    BY <1>1 DEF SentineldInv, WorldInv, VenueLive
  <2> QED
    BY <1>1, <2>1 DEF SentineldInv, WorldInv
<1> QED
  BY <1>1, <1>2, ChannelsGood

LEMMA StutterGood == ASSUME SentineldInv, UNCHANGED vars PROVE Good
<1>1. /\ worker' = worker /\ commands' = commands /\ stream' = stream
      /\ engine' = engine /\ mode' = mode /\ requests' = requests /\ venue' = venue
      /\ wall' = wall /\ sinceSweep' = sinceSweep
      /\ faults' = faults /\ crashes' = crashes /\ replays' = replays /\ submits' = submits
  BY DEF vars, process, bounds
<1>2. WorldInv'
  <2>1. \A o \in Orders : VenueLive(o)' => venue'[o].filled <= venue'[o].qty
    BY <1>1 DEF SentineldInv, WorldInv, VenueLive
  <2> QED
    BY <1>1, <2>1 DEF SentineldInv, WorldInv
<1> QED
  BY <1>1, <1>2, ChannelsGood
(* The venue's side of the world, as a step leaves it.                      *)
VenueNext ==
  /\ venue' \in [Orders -> VenueOrders]
  /\ stream' \in Seq(VenueEvents)
  /\ faults' \in 0..MaxFaults
  /\ \A o \in Orders : VenueLive(o)' => venue'[o].filled <= venue'[o].qty

LEMMA FaultsAre ==
  ASSUME SentineldInv
  PROVE  /\ NoFault => faults' \in 0..MaxFaults
         /\ \A kind : Fault(kind) => faults' \in 0..MaxFaults
  BY BoundsAssumption DEF NoFault, Fault, SentineldInv, WorldInv

LEMMA VenueSame ==
  ASSUME SentineldInv, venue' = venue, stream' = stream, faults' \in 0..MaxFaults
  PROVE  VenueNext
  BY DEF VenueNext, SentineldInv, WorldInv, VenueLive

LEMMA PerformsIs ==
  ASSUME SentineldInv, NEW kind, Performs(kind)
  PROVE  /\ Up /\ worker' = "drain" /\ requests' = Tail(requests) /\ Head(requests).kind = kind
         /\ engine' = engine /\ mode' = mode /\ wall' = wall /\ sinceSweep' = sinceSweep
         /\ crashes' = crashes /\ replays' = replays
         /\ Head(requests) \in WorkerRequests /\ requests' \in Seq(WorkerRequests)
         /\ \A M : /\ Hits(requests, M) = One(Head(requests), M) + Hits(requests', M)
                   /\ Hits(requests', M) \in Nat
<1>1. /\ Up /\ worker' = "drain" /\ requests' = Tail(requests) /\ Head(requests).kind = kind
      /\ engine' = engine /\ mode' = mode /\ wall' = wall /\ sinceSweep' = sinceSweep
      /\ crashes' = crashes /\ replays' = replays /\ requests # <<>>
  BY DEF Performs
<1>2. requests \in Seq(WorkerRequests)
  BY DEF SentineldInv, WorldInv
<1>3. Head(requests) \in WorkerRequests /\ requests' \in Seq(WorkerRequests)
  BY <1>1, <1>2, HeadTailProperties
<1>4. \A M : Hits(requests, M) = One(Head(requests), M) + Hits(requests', M)
  BY <1>1, <1>2, HitsTail
<1>5. \A M : Hits(requests', M) \in Nat
  BY <1>3, HitsIs
<1> QED
  BY <1>1, <1>3, <1>4, <1>5

LEMMA AnswersAre ==
  ASSUME SentineldInv, NEW c \in WorkerCommands, Answer(c) \/ NoAnswer
  PROVE  /\ commands' \in Seq(WorkerCommands)
         /\ \A M : /\ Hits(commands', M) <= Hits(commands, M) + One(c, M)
                   /\ Hits(commands, M) \in Nat /\ Hits(commands', M) \in Nat
<1>1. commands \in Seq(WorkerCommands)
  BY DEF SentineldInv, WorldInv
<1>2. CASE Answer(c)
  <2>1. commands' = Append(commands, c)
    BY <1>2 DEF Answer
  <2>2. commands' \in Seq(WorkerCommands) /\ \A M : Hits(commands', M) = Hits(commands, M) + One(c, M)
    BY <1>1, <2>1, HitsAppend, AppendProperties
  <2>3. \A M : Hits(commands, M) \in Nat /\ Hits(commands', M) \in Nat /\ One(c, M) \in Nat
    BY <1>1, <2>2, HitsIs DEF One
  <2> QED
    BY <2>2, <2>3
<1>3. CASE NoAnswer
  <2>1. commands' = commands
    BY <1>3 DEF NoAnswer
  <2>2. \A M : Hits(commands, M) \in Nat /\ One(c, M) \in Nat
    BY <1>1, HitsIs DEF One
  <2> QED
    BY <1>1, <2>1, <2>2
<1> QED
  BY <1>2, <1>3

(* A request that opens nothing is performed: its answer is about what it   *)
(* asked for.                                                               *)
LEMMA PerformGood ==
  ASSUME SentineldInv, NEW kind, Performs(kind), kind # "Submit",
         NEW c \in WorkerCommands, Answer(c) \/ NoAnswer, VenueNext, submits' = submits,
         \A p \in OrderIds : One(c, Answers(p)) <= One(Head(requests), Asks(p))
  PROVE  Good
<1>1. /\ Up /\ worker' = "drain" /\ requests' = Tail(requests) /\ Head(requests).kind = kind
      /\ engine' = engine /\ mode' = mode /\ wall' = wall /\ sinceSweep' = sinceSweep
      /\ crashes' = crashes /\ replays' = replays
      /\ Head(requests) \in WorkerRequests /\ requests' \in Seq(WorkerRequests)
      /\ \A M : /\ Hits(requests, M) = One(Head(requests), M) + Hits(requests', M)
                /\ Hits(requests', M) \in Nat
  BY PerformsIs
<1>2. /\ commands' \in Seq(WorkerCommands)
      /\ \A M : /\ Hits(commands', M) <= Hits(commands, M) + One(c, M)
                /\ Hits(commands, M) \in Nat /\ Hits(commands', M) \in Nat
  BY AnswersAre
<1>3. WorldInv'
  BY <1>1, <1>2 DEF SentineldInv, WorldInv, VenueNext
<1>4. RestInv'
  BY <1>1 DEF RestInv, Up
<1>5. ASSUME NEW o \in Orders PROVE Hits(requests', Opens(o)) = Hits(requests, Opens(o))
  <2>1. One(Head(requests), Opens(o)) = 0
    BY <1>1 DEF One, Opens
  <2> QED
    BY <1>1, <2>1
<1>6. ASSUME NEW p \in OrderIds
      PROVE  Hits(requests', Asks(p)) + Hits(commands', Answers(p))
               <= Hits(requests, Asks(p)) + Hits(commands, Answers(p))
  <2>1. PICK a, b, d, q, s, t \in Nat :
          /\ a = Hits(requests, Asks(p)) /\ b = Hits(requests', Asks(p))
          /\ d = Hits(commands, Answers(p)) /\ q = Hits(commands', Answers(p))
          /\ s = One(Head(requests), Asks(p)) /\ t = One(c, Answers(p))
    BY <1>1, <1>2, CountsAre DEF One, SentineldInv
  <2>2. a = s + b /\ q <= d + t /\ t <= s
    BY <1>1, <1>2, <2>1
  <2> QED
    BY <2>1, <2>2
<1> QED
  BY <1>1, <1>3, <1>4, <1>5, <1>6, ElsewhereGood
LEMMA AcceptIs ==
  ASSUME SentineldInv, NEW o \in Orders, NEW q \in Nat \ {0}, NEW silent \in BOOLEAN,
         Accept(o, q, silent), stream' = stream, faults' \in 0..MaxFaults
  PROVE  VenueNext
<1>1. PICK v : v = [state |-> "Working", qty |-> q, filled |-> 0, silent |-> silent]
  OBVIOUS
<1>2. v \in VenueOrders /\ v.filled <= v.qty
  BY <1>1 DEF VenueOrders, VenueStates
<1>3. venue \in [Orders -> VenueOrders] /\ venue' = [venue EXCEPT ![o] = v]
  BY <1>1 DEF Accept, SentineldInv, WorldInv
<1>4. \A p \in Orders : venue'[p] = IF p = o THEN v ELSE venue[p]
  BY <1>3
<1>5. venue' \in [Orders -> VenueOrders]
  BY <1>2, <1>3
<1>6. \A p \in Orders : VenueLive(p)' => venue'[p].filled <= venue'[p].qty
  BY <1>2, <1>4 DEF SentineldInv, WorldInv, VenueLive
<1> QED
  BY <1>5, <1>6 DEF VenueNext, SentineldInv, WorldInv

LEMMA SubmittedIs ==
  ASSUME NEW o \in Orders, NEW outcome \in {"Acked", "Rejected", "TimedOut"}
  PROVE  /\ Submitted(o, outcome) \in WorkerCommands
         /\ \A p : Submitted(o, outcome) \notin Answers(p)
<1>1. PICK c : c = Submitted(o, outcome)
  OBVIOUS
<1>2. c \in Commands /\ c.kind = "Submitted"
  BY <1>1 DEF Submitted, Commands, OrderIds
<1> QED
  BY <1>1, <1>2 DEF WorkerCommands, Answers

(* The venue is asked to open an order: the one step that sends.            *)
LEMMA PerformSubmitGood == ASSUME SentineldInv, PerformSubmit PROVE Good
<1>1. PICK r : r = Head(requests)
  OBVIOUS
<1>2. PICK o : o = r.order
  OBVIOUS
<1>3. PICK q : q = r.qty
  OBVIOUS
<1>4. Performs("Submit") /\ stream' = stream
  BY DEF PerformSubmit
<1>5. /\ Up /\ worker' = "drain" /\ r.kind = "Submit"
      /\ engine' = engine /\ mode' = mode /\ wall' = wall /\ sinceSweep' = sinceSweep
      /\ crashes' = crashes /\ replays' = replays
      /\ r \in WorkerRequests /\ requests' \in Seq(WorkerRequests)
      /\ \A M : /\ Hits(requests, M) = One(r, M) + Hits(requests', M)
                /\ Hits(requests', M) \in Nat
  BY <1>1, <1>4, PerformsIs
<1>6. o \in Orders /\ q \in Nat \ {0}
  BY <1>2, <1>3, <1>5 DEF WorkerRequests, PositionsRequest
<1>7. submits' = [submits EXCEPT ![o] = @ + 1]
  BY <1>1, <1>2 DEF PerformSubmit
<1>8. VenueNext /\ \E c \in WorkerCommands : (Answer(c) \/ NoAnswer) /\ \A p : c \notin Answers(p)
  <2>1. CASE NoFault
    <3>1. faults' \in 0..MaxFaults
      BY <2>1, FaultsAre
    <3>2. \/ Accept(o, q, FALSE) /\ Answer(Submitted(o, "Acked"))
          \/ UNCHANGED venue /\ Answer(Submitted(o, "Rejected"))
          \/ NoFault /\ \E kind : Fault(kind)
      BY <1>1, <1>2, <1>3, <2>1 DEF PerformSubmit
    <3>3. ~(NoFault /\ \E kind : Fault(kind))
      BY DEF NoFault, Fault, SentineldInv, WorldInv
    <3> QED
      BY <1>4, <1>6, <3>1, <3>2, <3>3, AcceptIs, VenueSame, SubmittedIs
  <2>2. CASE ~NoFault
    <3>1. \/ (\E kind : Fault(kind)) /\ Accept(o, q, FALSE) /\ Answer(Submitted(o, "TimedOut"))
          \/ (\E kind : Fault(kind)) /\ Accept(o, q, TRUE) /\ Answer(Submitted(o, "Acked"))
          \/ (\E kind : Fault(kind)) /\ UNCHANGED venue /\ Answer(Submitted(o, "TimedOut"))
          \/ (\E kind : Fault(kind)) /\ UNCHANGED venue /\ Answer(Submitted(o, "Rejected"))
          \/ (\E kind : Fault(kind)) /\ UNCHANGED venue /\ NoAnswer
      BY <1>1, <1>2, <1>3, <2>2 DEF PerformSubmit
    <3>2. faults' \in 0..MaxFaults
      BY <3>1, FaultsAre
    <3>3. \E c \in WorkerCommands : (Answer(c) \/ NoAnswer) /\ \A p : c \notin Answers(p)
      BY <1>6, <3>1, SubmittedIs
    <3>4. VenueNext
      BY <1>4, <1>6, <3>1, <3>2, AcceptIs, VenueSame
    <3> QED
      BY <3>3, <3>4
  <2> QED
    BY <2>1, <2>2
<1>9. PICK c \in WorkerCommands : (Answer(c) \/ NoAnswer) /\ \A p : c \notin Answers(p)
  BY <1>8
<1>10. /\ commands' \in Seq(WorkerCommands)
       /\ \A M : /\ Hits(commands', M) <= Hits(commands, M) + One(c, M)
                 /\ Hits(commands, M) \in Nat /\ Hits(commands', M) \in Nat
  BY <1>9, AnswersAre
<1>11. submits \in [Orders -> Nat] /\ submits' \in [Orders -> Nat] /\ submits'[o] = submits[o] + 1
       /\ \A p \in Orders : p # o => submits'[p] = submits[p]
  BY <1>6, <1>7 DEF SentineldInv, WorldInv
<1>12. WorldInv'
  BY <1>5, <1>8, <1>10, <1>11 DEF SentineldInv, WorldInv, VenueNext
<1>13. WriterInv' /\ RestInv'
  BY <1>5 DEF SentineldInv, WriterInv, RestInv, Up
<1>14. /\ \A p \in Orders : One(r, Opens(p)) = IF p = o THEN 1 ELSE 0
       /\ \A p : One(r, Asks(p)) = 0
  BY <1>2, <1>5 DEF One, Opens, Asks, LookupRequest
<1>15. QuestionInv'
  <2>1. ASSUME NEW p \in OrderIds PROVE Underway(p)' <= Underway(p) /\ Underway(p) \in Nat /\ Underway(p)' \in Nat
    <3>1. Hits(requests, Asks(p)) = Hits(requests', Asks(p)) /\ Hits(requests', Asks(p)) \in Nat
      BY <1>5, <1>14
    <3>2. Hits(commands', Answers(p)) <= Hits(commands, Answers(p))
      BY <1>9, <1>10 DEF One
    <3>3. Hits(engine.reqs, Asks(p)) \in Nat
      BY CountsAre DEF SentineldInv
    <3> QED
      BY <1>5, <1>10, <3>1, <3>2, <3>3 DEF Underway
  <2>2. ASSUME NEW p \in OrderIds
        PROVE  Underway(p)' <= 1 /\ (Underway(p)' = 1 => engine.recon[p].inFlight)
    <3>1. Underway(p) <= 1 /\ (Underway(p) = 1 => engine.recon[p].inFlight)
      BY DEF SentineldInv, QuestionInv
    <3>2. PICK x, y \in Nat : x = Underway(p) /\ y = Underway(p)' /\ y <= x
      BY <2>1
    <3> QED
      BY <3>1, <3>2
  <2> QED
    BY <1>5, <2>2 DEF QuestionInv
<1>16. ASSUME NEW p \in Orders
       PROVE  /\ Hits(requests', Opens(p)) + submits'[p] = Hits(requests, Opens(p)) + submits[p]
              /\ p # o => Hits(requests', Opens(p)) = Hits(requests, Opens(p))
              /\ p = o => Hits(requests, Opens(p)) = 1 /\ Hits(requests', Opens(p)) = 0 /\ submits[p] = 0
  <2>1. PICK a, b, d \in Nat :
          a = Hits(requests, Opens(p)) /\ b = Hits(requests', Opens(p)) /\ d = submits[p]
    BY <1>5, CountsAre DEF SentineldInv
  <2>2. a = b + (IF p = o THEN 1 ELSE 0) /\ submits'[p] = d + (IF p = o THEN 1 ELSE 0) /\ a + d <= 1
    <3>1. Hits(requests, Opens(p)) = One(r, Opens(p)) + Hits(requests', Opens(p))
      BY <1>5
    <3>2. One(r, Opens(p)) = IF p = o THEN 1 ELSE 0
      BY <1>14
    <3>3. submits'[p] = d + (IF p = o THEN 1 ELSE 0)
      BY <1>11, <2>1
    <3>4. Hits(requests, Opens(p)) + submits[p] <= 1
      BY DEF SentineldInv, SubmitInv
    <3> QED
      BY <2>1, <3>1, <3>2, <3>3, <3>4
  <2> QED
    BY <2>1, <2>2
<1>17. SubmitInv'
  <2>1. \A p \in Orders : Volatile(p)' <=> Volatile(p)
    BY <1>5 DEF Volatile
  <2> QED
    BY <1>5, <1>16, <2>1 DEF SentineldInv, SubmitInv
<1>18. SentineldInv'
  BY <1>12, <1>13, <1>15, <1>17 DEF SentineldInv
<1>19. Progress
  <2>1. \A p \in Orders :
          /\ StageNow[p] = StageOf(submits[p], Hits(requests, Opens(p)),
                             Known(engine.synced.book, p), Known(engine.book, p))
          /\ StageNow'[p] = StageOf(submits'[p], Hits(requests', Opens(p)),
                              Known(engine.synced.book, p), Known(engine.book, p))
    BY <1>5, <1>18, StagesStep
  <2> HIDE DEF StageNow
  <2>2. StageNow[o] = "released" /\ StageNow'[o] = "sent"
    BY <1>6, <1>11, <1>16, <2>1 DEF StageOf
  <2>3. \A p \in Orders : p # o => StageNow'[p] = StageNow[p]
    BY <1>11, <1>16, <2>1 DEF StageOf
  <2>4. /\ StageNow = [p \in Orders |-> StageNow[p]]
        /\ StageNow' = [p \in Orders |-> StageNow'[p]]
    BY DEF StageNow
  <2>5. StageNow' = [StageNow EXCEPT ![o] = "sent"]
    BY <2>2, <2>3, <2>4
  <2>6. Submission!Send(o)
    BY <2>2, <2>5 DEF Submission!Send, StageNow
  <2> QED
    BY <1>6, <2>6 DEF Progress, Submission!Next
<1>20. StaysReconciling
  BY <1>5 DEF StaysReconciling
<1> QED
  BY <1>5, <1>18, <1>19, <1>20, StillHalted DEF Good
LEMMA CancelledIs ==
  ASSUME NEW o \in Orders, NEW outcome \in {"Requested", "Absent", "TimedOut"}
  PROVE  /\ Cancelled(o, outcome) \in WorkerCommands
         /\ \A p : Cancelled(o, outcome) \notin Answers(p)
<1>1. PICK c : c = Cancelled(o, outcome)
  OBVIOUS
<1>2. c \in Commands /\ c.kind = "Cancelled"
  BY <1>1 DEF Cancelled, Commands, OrderIds
<1> QED
  BY <1>1, <1>2 DEF WorkerCommands, Answers

(* An order the venue cancels, on request or on its own.                    *)
LEMMA CanceledIs ==
  ASSUME SentineldInv, NEW o \in Orders, VenueLive(o),
         venue' = [venue EXCEPT ![o].state = "Canceled"],
         stream' \in {stream, Append(stream, CancelEvent(o))}, faults' \in 0..MaxFaults
  PROVE  VenueNext
<1>1. venue \in [Orders -> VenueOrders] /\ stream \in Seq(VenueEvents)
  BY DEF SentineldInv, WorldInv
<1>2. PICK v : v = [venue[o] EXCEPT !.state = "Canceled"]
  OBVIOUS
<1>3. venue' = [venue EXCEPT ![o] = v]
  BY <1>2
<1>4. venue[o] \in VenueOrders /\ venue[o] # NotHeld
  BY <1>1 DEF VenueLive, NotHeld
<1>5. v \in VenueOrders /\ v.state = "Canceled"
  BY <1>2, <1>4 DEF VenueOrders, VenueStates
<1>6. \A p \in Orders : venue'[p] = IF p = o THEN v ELSE venue[p]
  BY <1>1, <1>3
<1>7. venue' \in [Orders -> VenueOrders]
  BY <1>1, <1>3, <1>5
<1>8. \A p \in Orders : VenueLive(p)' => venue'[p].filled <= venue'[p].qty
  BY <1>5, <1>6 DEF SentineldInv, WorldInv, VenueLive
<1>9. CancelEvent(o) \in VenueEvents
  BY DEF CancelEvent, VenueEvents
<1>10. stream' \in Seq(VenueEvents)
  <2>1. PICK ev \in VenueEvents : ev = CancelEvent(o)
    BY <1>9
  <2>2. Append(stream, ev) \in Seq(VenueEvents)
    BY <1>1, AppendProperties
  <2> QED
    BY <1>1, <2>1, <2>2
<1> QED
  BY <1>7, <1>8, <1>10 DEF VenueNext

LEMMA PerformCancelGood == ASSUME SentineldInv, PerformCancel PROVE Good
<1>1. PICK o : o = Head(requests).order
  OBVIOUS
<1>2. Performs("Cancel") /\ submits' = submits
  BY DEF PerformCancel
<1>3. Head(requests) \in WorkerRequests /\ Head(requests).kind = "Cancel"
  BY <1>2, PerformsIs
<1>4. o \in Orders
  BY <1>1, <1>3 DEF WorkerRequests, PositionsRequest
<1>5. /\ faults' \in 0..MaxFaults
      /\ \/ venue' = venue /\ stream' = stream
         \/ /\ VenueLive(o) /\ venue' = [venue EXCEPT ![o].state = "Canceled"]
            /\ Push(CancelEvent(o))
      /\ \/ NoAnswer
         \/ \E outcome \in {"Requested", "Absent", "TimedOut"} : Answer(Cancelled(o, outcome))
  BY <1>1, FaultsAre DEF PerformCancel
<1>6. VenueNext
  BY <1>4, <1>5, VenueSame, CanceledIs DEF Push
<1>7. PICK c \in WorkerCommands : (Answer(c) \/ NoAnswer) /\ \A p : c \notin Answers(p)
  BY <1>4, <1>5, CancelledIs
<1>8. \A p \in OrderIds : One(c, Answers(p)) <= One(Head(requests), Asks(p))
  BY <1>7 DEF One
<1> QED
  BY <1>2, <1>6, <1>7, <1>8, PerformGood

LEMMA LookedUpIs ==
  ASSUME NEW o \in OrderIds, NEW outcome \in {"Found", "Absent", "TimedOut"},
         NEW s \in VenueStates \cup {"None"}, NEW n \in Nat, outcome = "Found" => s \in VenueStates
  PROVE  /\ LookedUp(o, outcome, s, n) \in WorkerCommands
         /\ \A p : LookedUp(o, outcome, s, n) \in Answers(p) => p = o
<1>1. PICK c : c = LookedUp(o, outcome, s, n)
  OBVIOUS
<1>2. PICK t : t = [state |-> s, filled |-> n]
  OBVIOUS
<1>3. t \in [state: VenueStates \cup {"None"}, filled: Nat] /\ t.state = s
  BY <1>2
<1>4. c = [kind |-> "LookedUp", order |-> o, outcome |-> outcome, snapshot |-> t]
  BY <1>1, <1>2 DEF LookedUp
<1>5. c \in Commands /\ c.order = o /\ c.outcome = outcome /\ c.snapshot = t
  BY <1>3, <1>4 DEF Commands
<1> QED
  BY <1>1, <1>3, <1>5 DEF WorkerCommands, Answers

LEMMA PerformLookupGood == ASSUME SentineldInv, PerformLookup PROVE Good
<1>1. PICK o : o = Head(requests).order
  OBVIOUS
<1>2. Performs("Lookup") /\ submits' = submits /\ venue' = venue /\ stream' = stream
  BY DEF PerformLookup
<1>3. Head(requests) \in WorkerRequests /\ Head(requests).kind = "Lookup"
  BY <1>2, PerformsIs
<1>4. o \in OrderIds /\ Head(requests) \in Asks(o)
  BY <1>1, <1>3 DEF WorkerRequests, PositionsRequest, Asks, LookupRequest
<1>5. faults' \in 0..MaxFaults
  BY FaultsAre DEF PerformLookup
<1>6. VenueNext
  BY <1>2, <1>5, VenueSame
<1>7. "None" \in VenueStates \cup {"None"} /\ 0 \in Nat
  OBVIOUS
<1>8. PICK c \in WorkerCommands : (Answer(c) \/ NoAnswer) /\ \A p : c \in Answers(p) => p = o
  <2>1. CASE VenueHas(o) /\ Answer(LookedUp(o, "Found", venue[o].state, venue[o].filled))
    <3>1. venue[o] \in VenueOrders /\ venue[o] # NotHeld
      BY <2>1 DEF VenueHas, SentineldInv, WorldInv
    <3>2. venue[o].state \in VenueStates /\ venue[o].filled \in Nat
      BY <3>1 DEF VenueOrders
    <3> QED
      BY <1>4, <2>1, <3>2, LookedUpIs
  <2>2. CASE Answer(LookedUp(o, "Absent", "None", 0))
    BY <1>4, <1>7, <2>2, LookedUpIs
  <2>3. CASE Answer(LookedUp(o, "TimedOut", "None", 0))
    BY <1>4, <1>7, <2>3, LookedUpIs
  <2>4. CASE NoAnswer
    <3>1. LookedUp(o, "TimedOut", "None", 0) \in WorkerCommands
          /\ \A p : LookedUp(o, "TimedOut", "None", 0) \in Answers(p) => p = o
      BY <1>4, <1>7, LookedUpIs
    <3> QED
      BY <2>4, <3>1
  <2> QED
    BY <1>1, <2>1, <2>2, <2>3, <2>4 DEF PerformLookup
<1>9. \A p \in OrderIds : One(c, Answers(p)) <= One(Head(requests), Asks(p))
  BY <1>4, <1>8 DEF One
<1> QED
  BY <1>2, <1>6, <1>8, <1>9, PerformGood

(* The account is a sum over the venue's orders.                            *)
LEMMA VenuePositionIs ==
  ASSUME SentineldInv PROVE VenuePosition \in Int
<1> DEFINE S == Orders
           g == [o \in S |-> Intent[o].side * venue[o].filled]
           R(k) == k = [s \in SUBSET S |-> IF s = {} THEN 0
                          ELSE Intent[Some(s)].side * venue[Some(s)].filled + k[s \ {Some(s)}]]
<1>1. IsFiniteSet(S)
  BY OrdersAssumption
<1>2. \A o \in S : g[o] = Intent[o].side * venue[o].filled /\ g[o] \in Int
  <2>1. ASSUME NEW o \in S PROVE Intent[o].side * venue[o].filled \in Int
    <3>1. Intent[o] \in Intents /\ venue[o] \in VenueOrders
      BY OrdersAssumption DEF SentineldInv, WorldInv
    <3>2. Intent[o].side \in Int /\ venue[o].filled \in Int
      BY <3>1 DEF Intents, Sides, VenueOrders, NotHeld
    <3> QED
      BY <3>2
  <2> QED
    BY <2>1
<1> HIDE DEF g, S
<1>3. PICK h \in [SUBSET S -> Int] : Sums(h, g, S)
  BY <1>1, <1>2, SumsExist
<1>4. \A s \in SUBSET S : s # {} => g[Some(s)] = Intent[Some(s)].side * venue[Some(s)].filled
  BY <1>2, SomeIs
<1>5. R(h)
  BY <1>3, <1>4 DEF Sums
<1>6. PICK k : k = (CHOOSE j : R(j))
  OBVIOUS
<1>7. Sums(k, g, S)
  BY <1>4, <1>5, <1>6 DEF Sums
<1>8. k[S] = h[S]
  BY <1>1, <1>2, <1>3, <1>7, SumsAgree
<1>9. VenuePosition = Inherited + k[S]
  BY <1>6 DEF VenuePosition, MapThenSumSet, MapThenFoldSet, Some, S
<1> QED
  BY <1>3, <1>8, <1>9, BoundsAssumption

LEMMA PerformPositionsGood == ASSUME SentineldInv, PerformPositions PROVE Good
<1>1. Performs("Positions") /\ submits' = submits /\ venue' = venue /\ stream' = stream
  BY DEF PerformPositions
<1>2. faults' \in 0..MaxFaults /\ (Answer(PositionsReported(VenuePosition)) \/ NoAnswer)
  BY FaultsAre DEF PerformPositions
<1>3. VenueNext
  BY <1>1, <1>2, VenueSame
<1>4. PICK c : c = PositionsReported(VenuePosition)
  OBVIOUS
<1>5. c \in Commands /\ c.kind = "PositionsReported"
  BY <1>4, VenuePositionIs DEF PositionsReported, Commands
<1>6. c \in WorkerCommands /\ \A p : c \notin Answers(p)
  BY <1>5 DEF WorkerCommands, Answers
<1>7. \A p \in OrderIds : One(c, Answers(p)) <= One(Head(requests), Asks(p))
  BY <1>6 DEF One
<1> QED
  BY <1>1, <1>2, <1>3, <1>4, <1>6, <1>7, PerformGood
-----------------------------------------------------------------------------
(* The venue, on its own.                                                   *)

LEMMA VenueStepGood ==
  ASSUME SentineldInv, VenueNext, Elsewhere
  PROVE  Good
<1>1. /\ engine' = engine /\ mode' = mode /\ worker' = worker /\ requests' = requests
      /\ commands' = commands /\ sinceSweep' = sinceSweep /\ wall' = wall
      /\ crashes' = crashes /\ replays' = replays /\ submits' = submits
  BY DEF Elsewhere, process
<1>2. WorldInv'
  BY <1>1 DEF SentineldInv, WorldInv, VenueNext
<1> QED
  BY <1>1, <1>2, ChannelsGood

LEMMA ExecuteGood ==
  ASSUME SentineldInv, NEW o \in Orders, NEW q \in Nat \ {0}, Execute(o, q), faults' \in 0..MaxFaults
  PROVE  Good
<1>1. venue \in [Orders -> VenueOrders] /\ stream \in Seq(VenueEvents) /\ VenueLive(o) /\ Elsewhere
  BY DEF Execute, SentineldInv, WorldInv
<1>2. PICK n : n = venue[o].filled + q
  OBVIOUS
<1>3. PICK s : s = IF n >= venue[o].qty THEN "Filled" ELSE "Partial"
  OBVIOUS
<1>4. PICK v : v = [venue[o] EXCEPT !.filled = n, !.state = s]
  OBVIOUS
<1>5. venue[o] \in VenueOrders /\ venue[o] # NotHeld
  BY <1>1 DEF VenueLive, NotHeld
<1>6. n \in Nat \ {0} /\ s \in VenueStates /\ venue[o].qty \in Nat /\ venue[o].filled \in Nat
  BY <1>2, <1>3, <1>5 DEF VenueOrders, VenueStates
<1>7. v \in VenueOrders /\ v.filled = n /\ v.qty = venue[o].qty /\ v.state = s
  BY <1>4, <1>5, <1>6 DEF VenueOrders
<1>8. venue' = [venue EXCEPT ![o].filled = n, ![o].state = s]
  BY <1>2, <1>3 DEF Execute
<1>9. venue' = [venue EXCEPT ![o] = v]
  BY <1>1, <1>4, <1>8
<1>10. \A p \in Orders : venue'[p] = IF p = o THEN v ELSE venue[p]
  BY <1>1, <1>9
<1>11. venue' \in [Orders -> VenueOrders]
  BY <1>1, <1>7, <1>9
<1>12. s = "Partial" => n <= venue[o].qty
  BY <1>3, <1>6
<1>13. \A p \in Orders : VenueLive(p)' => venue'[p].filled <= venue'[p].qty
  <2>1. s \in {"Filled", "Partial"}
    BY <1>3
  <2> QED
    BY <1>7, <1>10, <1>12, <2>1 DEF SentineldInv, WorldInv, VenueLive
<1>14. stream' \in Seq(VenueEvents)
  <2>1. PICK ev : ev = FillEvent(o, n, q)
    OBVIOUS
  <2>2. ev \in VenueEvents
    <3>1. VenueExec(o, n) \in ExecIds
      BY <1>6 DEF VenueExec, ExecIds, OrderIds
    <3> QED
      BY <2>1, <3>1 DEF FillEvent, VenueEvents
  <2>3. stream' = Append(stream, ev) \/ stream' = stream
    BY <1>2, <2>1 DEF Execute, Push
  <2> QED
    BY <1>1, <2>2, <2>3, AppendProperties
<1>15. VenueNext
  BY <1>11, <1>13, <1>14 DEF VenueNext
<1> QED
  BY <1>1, <1>15, VenueStepGood

LEMMA VenueFillsGood == ASSUME SentineldInv, NEW o \in Orders, VenueFills(o) PROVE Good
<1>1. PICK q \in 1..(venue[o].qty - venue[o].filled) : Execute(o, q)
  BY DEF VenueFills
<1>2. faults' \in 0..MaxFaults
  BY FaultsAre DEF VenueFills
<1>3. venue[o].qty - venue[o].filled \in Int
  <2>1. venue[o] \in VenueOrders
    BY DEF SentineldInv, WorldInv
  <2>2. venue[o].qty \in Int /\ venue[o].filled \in Int
    BY <2>1 DEF VenueOrders, NotHeld
  <2> QED
    BY <2>2
<1>4. q \in Nat \ {0}
  BY <1>3
<1> QED
  BY <1>1, <1>2, <1>4, ExecuteGood

(* Here a live order's fill must not have passed its quantity already.      *)
LEMMA VenueOverMatchesGood == ASSUME SentineldInv, NEW o \in Orders, VenueOverMatches(o) PROVE Good
<1>1. PICK n \in 1..(2 * venue[o].qty) : Execute(o, venue[o].qty - venue[o].filled + n)
  BY DEF VenueOverMatches
<1>2. faults' \in 0..MaxFaults
  BY FaultsAre DEF VenueOverMatches
<1>3. venue[o] \in VenueOrders /\ venue[o].filled <= venue[o].qty
  BY <1>1 DEF Execute, SentineldInv, WorldInv
<1>4. venue[o].qty \in Nat /\ venue[o].filled \in Nat
  BY <1>3 DEF VenueOrders, NotHeld
<1>5. PICK q : q = venue[o].qty - venue[o].filled + n
  OBVIOUS
<1>6. q \in Nat \ {0}
  BY <1>3, <1>4, <1>5
<1> QED
  BY <1>1, <1>2, <1>5, <1>6, ExecuteGood

LEMMA VenueCancelsGood == ASSUME SentineldInv, NEW o \in Orders, VenueCancels(o) PROVE Good
<1>1. /\ VenueLive(o) /\ venue' = [venue EXCEPT ![o].state = "Canceled"] /\ Elsewhere
      /\ stream' \in {stream, Append(stream, CancelEvent(o))} /\ faults' \in 0..MaxFaults
  BY FaultsAre DEF VenueCancels
<1> QED
  BY <1>1, CanceledIs, VenueStepGood

LEMMA StreamGapGood == ASSUME SentineldInv, NEW i \in DOMAIN stream, StreamGap(i) PROVE Good
<1>1. stream \in Seq(VenueEvents) /\ venue' = venue /\ Elsewhere /\ faults' \in 0..MaxFaults
  BY FaultsAre DEF StreamGap, SentineldInv, WorldInv
<1>2. i \in 1..Len(stream) /\ Len(stream) \in Nat
  BY <1>1, LenProperties
<1>3. PICK a : a = SubSeq(stream, 1, i - 1)
  OBVIOUS
<1>4. PICK b : b = SubSeq(stream, i + 1, Len(stream))
  OBVIOUS
<1>5. a \in Seq(VenueEvents) /\ b \in Seq(VenueEvents)
  BY <1>1, <1>2, <1>3, <1>4, SubSeqProperties
<1>6. stream' = a \o b
  BY <1>3, <1>4 DEF StreamGap, RemoveAt
<1>7. stream' \in Seq(VenueEvents)
  BY <1>5, <1>6, ConcatProperties
<1>8. VenueNext
  BY <1>1, <1>7 DEF VenueNext, SentineldInv, WorldInv, VenueLive
<1> QED
  BY <1>1, <1>8, VenueStepGood

LEMMA RedeliveryGood == ASSUME SentineldInv, NEW i \in DOMAIN stream, Redelivery(i) PROVE Good
<1>1. /\ stream \in Seq(VenueEvents) /\ venue' = venue /\ Elsewhere /\ faults' \in 0..MaxFaults
      /\ stream' = Append(stream, stream[i])
  BY FaultsAre DEF Redelivery, SentineldInv, WorldInv
<1>2. stream[i] \in VenueEvents
  BY <1>1, LenProperties
<1>3. stream' \in Seq(VenueEvents)
  BY <1>1, <1>2, AppendProperties
<1>4. VenueNext
  BY <1>1, <1>3 DEF VenueNext, SentineldInv, WorldInv, VenueLive
<1> QED
  BY <1>1, <1>4, VenueStepGood
-----------------------------------------------------------------------------
(* Dying and coming back.                                                   *)

LEMMA EndingIs ==
  ASSUME SentineldInv, Ending(0) \/ (Ending(1) /\ crashes < MaxCrashes)
  PROVE  BoundsNext /\ venue' = venue /\ submits' = submits
<1>1. /\ crashes \in 0..MaxCrashes /\ wall' = wall /\ faults' = faults /\ replays' = replays
      /\ venue' = venue /\ submits' = submits
      /\ crashes' = crashes + 0 \/ (crashes' = crashes + 1 /\ crashes < MaxCrashes)
  BY DEF Ending, SentineldInv, WorldInv
<1>2. crashes' \in 0..MaxCrashes
  BY <1>1, BoundsAssumption
<1> QED
  BY <1>1, <1>2 DEF BoundsNext, SentineldInv, WorldInv

LEMMA StopGood ==
  ASSUME SentineldInv, NEW log, Survives(log), Stop(log), venue' = venue, submits' = submits,
         BoundsNext, mode \in {"up", "stopping"}
  PROVE  Good
<1>1. SentineldInv' /\ Progress /\ StaysHalted /\ mode' = "down"
  BY StopKeeps
<1> QED
  BY <1>1 DEF Good, StaysReconciling

LEMMA CrashGood == ASSUME SentineldInv, Crash PROVE Good
<1>1. BoundsNext /\ venue' = venue /\ submits' = submits
  BY EndingIs DEF Crash
<1>2. PICK log \in {engine.synced} \cup engine.tail : Stop(log)
  BY DEF Crash
<1>3. Survives(log)
  BY LogsSurvive DEF SentineldInv
<1> QED
  BY <1>1, <1>2, <1>3, StopGood DEF Crash

LEMMA DrainedGood == ASSUME SentineldInv, Drained PROVE Good
<1>1. BoundsNext /\ venue' = venue /\ submits' = submits
  BY EndingIs DEF Drained
<1>2. PICK log : log = [book |-> engine.book, folds |-> engine.folds]
  OBVIOUS
<1>3. Stop(log)
  BY <1>2 DEF Drained
<1>4. Survives(log)
  BY <1>2, LogsSurvive DEF SentineldInv
<1> QED
  BY <1>1, <1>3, <1>4, StopGood DEF Drained

(* Nothing is on its way when a process starts, so nothing is asked again.  *)
LEMMA RestartGood == ASSUME SentineldInv, Restart PROVE Good
<1>1. /\ mode = "down" /\ mode' = "up" /\ engine' = Opened(engine.synced, wall)
      /\ worker' = worker /\ commands' = commands /\ stream' = stream
      /\ requests' = requests /\ venue' = venue /\ wall' = wall /\ sinceSweep' = sinceSweep
      /\ faults' = faults /\ crashes' = crashes /\ replays' = replays /\ submits' = submits
  BY DEF Restart, process, bounds
<1>2. wall \in Nat /\ engine.synced \in Images /\ BookOK(engine.synced.book)
  BY BoundsAssumption DEF SentineldInv, WriterInv, WorldInv, EngineOK, Engines
<1>3. /\ EngineOK(engine') /\ Ok(engine') /\ engine'.reqs = <<>>
      /\ engine'.book = Advance(engine.synced.book, wall) /\ engine'.synced.book = engine'.book
      /\ engine'.tail = {} /\ engine'.halted = engine.synced.book.halted
  BY <1>1, <1>2, OpenedIs
<1>4. engine'.book.orders = engine.synced.book.orders
  BY <1>2, <1>3, KnownAdvanced DEF BookOK
<1>5. requests = <<>> /\ commands = <<>> /\ engine.reqs = <<>>
  BY <1>1 DEF SentineldInv, RestInv
<1>6. \A M : /\ Hits(engine'.reqs, M) = 0 /\ Hits(requests', M) = 0 /\ Hits(commands', M) = 0
             /\ Hits(engine.reqs, M) = 0 /\ Hits(requests, M) = 0
  BY <1>1, <1>3, <1>5, HitsEmpty
<1>7. WorldInv'
  <2>1. \A o \in Orders : VenueLive(o)' => venue'[o].filled <= venue'[o].qty
    BY <1>1 DEF SentineldInv, WorldInv, VenueLive
  <2> QED
    BY <1>1, <2>1 DEF SentineldInv, WorldInv
<1>8. WriterInv' /\ RestInv'
  BY <1>1, <1>3 DEF WriterInv, RestInv
<1>9. QuestionInv'
  BY <1>6 DEF QuestionInv, Underway
<1>10. \A o \in Orders :
         /\ Known(engine'.book, o) <=> Known(engine.synced.book, o)
         /\ Known(engine'.synced.book, o) <=> Known(engine.synced.book, o)
         /\ Begun(engine'.synced.book, o) <=> Begun(engine.synced.book, o)
  BY <1>3, <1>4 DEF Known, Begun
<1>11. \A o \in Orders : Known(engine.book, o) <=> Known(engine.synced.book, o)
  <2>1. \A o \in Orders : ~Volatile(o)
    BY <1>6 DEF SentineldInv, SubmitInv
  <2> QED
    BY <2>1 DEF Volatile, SentineldInv, WriterInv, EngineOK, After
<1>12. SubmitInv'
  <2>1. \A o \in Orders : ~Volatile(o)'
    BY <1>10 DEF Volatile
  <2> QED
    BY <1>1, <1>6, <1>10, <2>1 DEF SentineldInv, SubmitInv
<1>13. SentineldInv'
  BY <1>7, <1>8, <1>9, <1>12 DEF SentineldInv
<1>14. Progress
  BY <1>1, <1>6, <1>10, <1>11, <1>13, StageSame
<1>15. StaysHalted
  <2>1. engine'.halted = engine'.book.halted
    BY <1>3 DEF EngineOK
  <2>2. HaltHolds => HaltHolds'
    BY <1>3, <2>1 DEF HaltHolds
  <2> QED
    BY <1>10, <1>11, <2>2 DEF StaysHalted
<1> QED
  BY <1>1, <1>13, <1>14, <1>15 DEF Good, StaysReconciling
-----------------------------------------------------------------------------
(* The invariant, and what every step does.                                 *)

LEMMA InitGood ==
  ASSUME Init
  PROVE  SentineldInv /\ \A o \in Orders : ~Known(engine.book, o) /\ ~Known(engine.synced.book, o)
<1>1. FirstLog \in Images /\ FirstLog.book = NewBook
  BY NewBookOK DEF FirstLog, Images, BookOK
<1>2. /\ EngineOK(engine) /\ Ok(engine) /\ engine.reqs = <<>>
      /\ engine.book = Advance(NewBook, 0) /\ engine.synced.book = engine.book
  BY <1>1, OpenedIs, NewBookOK DEF Init
<1>3. engine.book.orders = NewBook.orders
  BY <1>2, NewBookOK, KnownAdvanced DEF BookOK
<1>4. \A o \in Orders : ~Known(engine.book, o) /\ ~Known(engine.synced.book, o)
  BY <1>2, <1>3, NewBookOK DEF Known, OrderIds
<1>5. \A M : Hits(engine.reqs, M) = 0 /\ Hits(requests, M) = 0 /\ Hits(commands, M) = 0
  BY <1>2, HitsEmpty DEF Init
<1>6. WorldInv
  <2>1. NotHeld \in VenueOrders
    BY DEF VenueOrders
  <2>2. venue \in [Orders -> VenueOrders] /\ submits \in [Orders -> Nat]
    BY <2>1 DEF Init
  <2>3. \A o \in Orders : ~VenueLive(o)
    BY DEF Init, VenueLive, NotHeld
  <2> QED
    BY <2>2, <2>3, BoundsAssumption DEF Init, WorldInv
<1>7. WriterInv /\ RestInv
  BY <1>2 DEF Init, WriterInv, RestInv
<1>8. QuestionInv
  BY <1>5 DEF QuestionInv, Underway
<1>9. SubmitInv
  BY <1>4, <1>5 DEF SubmitInv, Volatile, Init
<1> QED
  BY <1>4, <1>6, <1>7, <1>8, <1>9 DEF SentineldInv

LEMMA NextGood == SentineldInv /\ [Next]_vars => Good
<1> SUFFICES ASSUME SentineldInv, [Next]_vars PROVE Good
  OBVIOUS
<1>1. CASE UNCHANGED vars
  BY <1>1, StutterGood
<1>2. ASSUME NEW o \in Orders,
             Place(o) \/ Cancel(o) \/ VenueFills(o) \/ VenueOverMatches(o) \/ VenueCancels(o)
      PROVE  Good
  BY <1>2, PlaceGood, CancelGood, VenueFillsGood, VenueOverMatchesGood, VenueCancelsGood
<1>3. CASE Halt \/ Resume \/ Tick \/ SweepStale
  BY <1>3, HaltGood, ResumeGood, TickGood, SweepGood
<1>4. CASE WriterTakes \/ WriterFlushes
  BY <1>4, WriterTakesGood, WriterFlushesGood
<1>5. CASE Drain \/ Idle \/ PerformSubmit \/ PerformCancel \/ PerformLookup \/ PerformPositions
  BY <1>5, DrainGood, IdleGood, PerformSubmitGood, PerformCancelGood, PerformLookupGood,
     PerformPositionsGood
<1>6. ASSUME NEW i \in DOMAIN stream, StreamGap(i) \/ Redelivery(i) PROVE Good
  BY <1>6, StreamGapGood, RedeliveryGood
<1>7. CASE Crash \/ Shutdown \/ Drained \/ Restart \/ RefuseToStart
  BY <1>7, CrashGood, ShutdownGood, DrainedGood, RestartGood, RefuseGood
<1> QED
  BY <1>1, <1>2, <1>3, <1>4, <1>5, <1>6, <1>7 DEF Next
-----------------------------------------------------------------------------
(* The theorems.                                                            *)

(* The inductive invariant holds in every state the process reaches, over   *)
(* any number of orders, faults, crashes, restarts and replays.             *)
THEOREM InvariantHolds == Spec => []SentineldInv
<1>1. Init => SentineldInv
  BY InitGood
<1>2. SentineldInv /\ [Next]_vars => SentineldInv'
  BY NextGood DEF Good
<1> QED
  BY <1>1, <1>2, PTL DEF Spec

(* Every variable keeps its type: no handler, answer or recovery leaves the *)
(* engine, a channel or the venue malformed.                                *)
THEOREM ProcessIsTyped == Spec => []TypeOK
<1>1. SentineldInv => TypeOK
  <2>1. WorkerRequests \subseteq VenueRequests
    BY DEF WorkerRequests, VenueRequests, OrderIds
  <2>2. WorkerCommands \subseteq Commands
    BY DEF WorkerCommands
  <2> QED
    BY <2>1, <2>2, SeqMonotonic DEF SentineldInv, WriterInv, WorldInv, EngineOK, TypeOK
<1> QED
  BY <1>1, InvariantHolds, PTL

(* R1.1, flush before release: whatever the venue was asked to open, every  *)
(* log a crash can leave from now on records as submitted.                  *)
THEOREM IntentPrecedesVenue == Spec => []IntentBeforeVenue
<1>1. SentineldInv => IntentBeforeVenue
  <2> SUFFICES ASSUME SentineldInv, NEW o \in Orders, submits[o] > 0,
                      NEW log \in {engine.synced} \cup engine.tail
               PROVE  log.book.orders[o].state \notin {"None", "Created"}
    BY DEF IntentBeforeVenue
  <2>1. Begun(engine.synced.book, o)
    BY CountsAre DEF SentineldInv, SubmitInv
  <2>2. After(engine.synced.book, log.book)
    BY LogsSurvive DEF SentineldInv, Survives
  <2> QED
    BY <2>1, <2>2 DEF After, Begun
<1> QED
  BY <1>1, InvariantHolds, PTL

(* R1.2, R1.3: over replays, timeouts, crashes and restarts the venue is    *)
(* asked to open an order at most once.                                     *)
THEOREM EachSubmittedOnce == Spec => []SubmittedOnce
<1>1. SentineldInv => SubmittedOnce
  <2> SUFFICES ASSUME SentineldInv, NEW o \in Orders PROVE submits[o] <= 1
    BY DEF SubmittedOnce
  <2>1. Hits(requests, Opens(o)) \in Nat /\ submits[o] \in Nat
    BY CountsAre DEF SentineldInv
  <2> QED
    BY <2>1 DEF SentineldInv, SubmitInv
<1> QED
  BY <1>1, InvariantHolds, PTL

LEMMA QuestionsAre ==
  ASSUME SentineldInv, NEW o \in OrderIds
  PROVE  Questions(o) = Underway(o)
<1>1. /\ \A i \in DOMAIN commands : commands[i] \in WorkerCommands
      /\ WorkerCommands \subseteq Commands
  BY LenProperties DEF SentineldInv, WorldInv, WorkerCommands
<1>2. {i \in DOMAIN commands : commands[i].kind = "LookedUp" /\ commands[i].order = o}
        = HitsAt(commands, Answers(o))
  BY <1>1 DEF HitsAt, Answers
<1>3. /\ {i \in DOMAIN engine.reqs : engine.reqs[i] = LookupRequest(o)} = HitsAt(engine.reqs, Asks(o))
      /\ {i \in DOMAIN requests : requests[i] = LookupRequest(o)} = HitsAt(requests, Asks(o))
  BY DEF HitsAt, Asks
<1> QED
  BY <1>2, <1>3 DEF Questions, Count, Underway, Hits

(* However many triggers fire, at most one lookup of an order is between    *)
(* the engine's decision to ask and its handling of the answer, and the     *)
(* reconciling map says so.                                                 *)
THEOREM OneQuestionEach == Spec => []OneQuestionPerOrder
<1>1. SentineldInv => OneQuestionPerOrder
  BY QuestionsAre DEF OneQuestionPerOrder, SentineldInv, QuestionInv
<1> QED
  BY <1>1, InvariantHolds, PTL

(* The position is the sum of the executions and no order is filled past    *)
(* what the lifecycle allows, in the book in memory and in every log a      *)
(* crash can leave.                                                         *)
THEOREM FillsAreAccounted == Spec => []FillsAccounted
<1>1. SentineldInv => FillsAccounted
  <2> SUFFICES ASSUME SentineldInv, NEW log \in {engine, engine.synced} \cup engine.tail
               PROVE  PositionsEqualFills(log.book) /\ NoOverfill(log.book)
    BY DEF FillsAccounted
  <2>1. BookOK(log.book)
    BY DEF SentineldInv, WriterInv, EngineOK
  <2> QED
    BY <2>1 DEF BookOK
<1> QED
  BY <1>1, InvariantHolds, PTL

(* What makes a halt durable: the flush, and the end of a clean stop.       *)
LEMMA DurableHalts ==
  ASSUME SentineldInv, engine.halted, WriterFlushes \/ Drained
  PROVE  HaltHolds'
<1>1. EngineOK(engine) /\ Ok(engine) /\ engine.book.halted
  BY EngineNow DEF EngineOK
<1>2. CASE WriterFlushes
  <2>1. engine' = Flushed(engine)
    BY <1>2 DEF WriterFlushes
  <2>2. /\ engine'.tail = {} /\ engine'.halted = engine.halted
        /\ engine'.synced.book = engine.book
    BY <1>1, <2>1, FlushedIs
  <2> QED
    BY <1>1, <2>2 DEF HaltHolds
<1>3. CASE Drained
  <2>1. PICK log : log = [book |-> engine.book, folds |-> engine.folds]
    OBVIOUS
  <2>2. engine' = AtRest(log) /\ log.book.halted
    BY <1>1, <1>3, <2>1 DEF Drained, Stop
  <2>3. log \in Images /\ BookOK(log.book)
    BY <2>1, LogsSurvive DEF SentineldInv, Survives
  <2>4. engine'.tail = {} /\ engine'.halted = log.book.halted /\ engine'.synced = log
    BY <2>2, <2>3, AtRestIs
  <2> QED
    BY <2>2, <2>4 DEF HaltHolds
<1> QED
  BY <1>2, <1>3

(* A halt outlives the process that decided it: once flushed it is in every *)
(* log a crash may leave, and no crash, interrupted flush, stop or restart  *)
(* lifts it or lets a new entry be taken on; only the operator's resume     *)
(* does.                                                                    *)
THEOREM HaltsOutlive == Spec => HaltOutlivesProcess
<1>1. SentineldInv /\ [Next]_vars => StaysHalted
  BY NextGood DEF Good
<1>2. SentineldInv =>
        (engine.halted /\ (WriterFlushes \/ Drained) => HaltHolds')
  BY DurableHalts
<1>3. SentineldInv /\ [Next]_vars =>
        [/\ engine.halted /\ (WriterFlushes \/ Drained) => HaltHolds'
         /\ HaltHolds /\ ~Resume => HaltHolds'
         /\ HaltHolds => \A o \in Orders :
              ~Intent[o].exit /\ ~Known(engine.book, o) => ~Known(engine'.book, o)]_vars
  BY <1>1, <1>2 DEF StaysHalted
<1> QED
  BY <1>3, InvariantHolds, PTL DEF Spec, HaltOutlivesProcess

(* R1.4, R1.12: no fill, ack, cancel, tick or position report concludes a   *)
(* reconciliation: only the venue's answer to a lookup of that order does.  *)
THEOREM OnlyAnswersReconcile == Spec => ReconcilingUntilAnswered
<1>1. SentineldInv /\ [Next]_vars => StaysReconciling
  BY NextGood DEF Good
<1>2. SentineldInv /\ [Next]_vars =>
        [\A o \in Orders :
           /\ mode \in {"up", "stopping"} /\ mode' = mode
           /\ engine.book.orders[o].state = "Reconciling"
           /\ engine'.book.orders[o].state # "Reconciling"
           => Head(commands).kind = "LookedUp" /\ Head(commands).order = o]_vars
  BY <1>1 DEF StaysReconciling
<1> QED
  BY <1>2, InvariantHolds, PTL DEF Spec, ReconcilingUntilAnswered

(* Every behaviour of the process is one of the submission protocol, so     *)
(* what SubmissionProtocol_proofs proves of the protocol holds of it: an    *)
(* order that was sent or abandoned is never sent again.                    *)
THEOREM ProcessImplementsSubmission == Spec => ImplementsSubmission
<1>1. Init => Submission!Init
  <2> SUFFICES ASSUME Init PROVE \A o \in Orders : Stage(o) = "new"
    BY DEF Submission!Init
  <2>1. SentineldInv /\ \A o \in Orders : ~Known(engine.book, o) /\ ~Known(engine.synced.book, o)
    BY InitGood
  <2>2. \A o \in Orders : Stage(o) = StageOf(submits[o], Hits(requests, Opens(o)),
                                       Known(engine.synced.book, o), Known(engine.book, o))
    BY <2>1, StageIs DEF StagesAre
  <2>3. \A o \in Orders : submits[o] = 0 /\ Hits(requests, Opens(o)) = 0
    BY HitsEmpty DEF Init
  <2> QED
    BY <2>1, <2>2, <2>3 DEF StageOf
<1>2. SentineldInv /\ [Next]_vars => [Submission!Next]_[o \in Orders |-> Stage(o)]
  BY NextGood DEF Good, Progress, StageNow
<1> QED
  BY <1>1, <1>2, InvariantHolds, PTL DEF Spec, ImplementsSubmission, Submission!Spec
=============================================================================
