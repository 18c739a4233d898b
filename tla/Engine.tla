------------------------------- MODULE Engine -------------------------------
(***************************************************************************)
(* The single writer of crate sentinel-engine.  Every handler of           *)
(* Engine::submit is an operator from the engine before a command to the   *)
(* engine after it.                                                        *)
(*                                                                         *)
(* An engine is its memory (book, halted, confirmed, recon, reqs), the     *)
(* outcome err of the command under way, and its journal, which is         *)
(* represented by what it folds to: synced for the durable log, and tail   *)
(* for every longer log an interrupted flush may leave behind.  An image   *)
(* [book, folds] is the book such a log rebuilds and whether it rebuilds   *)
(* at all.  A decision record that is neither Halted nor Resumed leaves    *)
(* the image as it is and is left out.                                     *)
(***************************************************************************)
EXTENDS Guards, SequencesExt

CONSTANTS StaleAfter,       \* config.stale_after_nanos
          TickWriteAfter,   \* config.tick_write_after_nanos
          Backoff,          \* config.reconcile_backoff_nanos
          BackoffCap        \* config.reconcile_backoff_cap_nanos

ASSUME ConfigAssumption ==
  /\ StaleAfter \in Nat /\ TickWriteAfter \in Nat
  /\ Backoff \in Nat /\ BackoffCap \in Nat

Images == [book: Books, folds: BOOLEAN]

Pendings == [retryAt: Nat, backoff: Nat, inFlight: BOOLEAN]

NotQueued == [inFlight |-> FALSE]

SubmitRequest(o, q) == [kind |-> "Submit", order |-> o, qty |-> q]
CancelRequest(o)    == [kind |-> "Cancel", order |-> o]
LookupRequest(o)    == [kind |-> "Lookup", order |-> o]
PositionsRequest    == [kind |-> "Positions"]

VenueRequests ==
  [kind: {"Submit"}, order: OrderIds, qty: Nat \ {0}]
    \cup [kind: {"Cancel", "Lookup"}, order: OrderIds] \cup {PositionsRequest}

Engines ==
  [book: Books, folds: BOOLEAN, synced: Images, tail: SUBSET Images,
   halted: BOOLEAN, confirmed: BOOLEAN,
   recon: [OrderIds -> Pendings \cup {NotQueued}],
   reqs: Seq(VenueRequests), err: {"none", "refused", "fatal"}]

(* Mutant: opening sends the submissions again that were in flight.         *)
OpenedResubmitting(log, wall) ==
  LET b == Advance(log.book, wall)
      S == {o \in Orders : b.orders[o].state = "Submitting"}
      s == SetToSeq(S)
  IN  [book |-> b, folds |-> TRUE, synced |-> [book |-> b, folds |-> TRUE],
       tail |-> {}, halted |-> b.halted, confirmed |-> FALSE,
       recon |-> [o \in OrderIds |-> NotQueued],
       reqs |-> [i \in DOMAIN s |-> SubmitRequest(s[i], b.orders[s[i]].qty)],
       err |-> "none"]

(* Mutant: a process starts trading again.                                  *)
OpenedResumed(log, wall) ==
  LET b == Advance(log.book, wall)
  IN  [book |-> b, folds |-> TRUE, synced |-> [book |-> b, folds |-> TRUE],
       tail |-> {}, halted |-> FALSE, confirmed |-> FALSE,
       recon |-> [o \in OrderIds |-> NotQueued], reqs |-> <<>>, err |-> "none"]

(* Engine::open on a log that folds: the claim is the log's newest record   *)
(* and carries the wall clock; nothing else outlives the previous process.  *)
Opened(log, wall) ==
  LET b == Advance(log.book, wall)
  IN  [book |-> b, folds |-> TRUE, synced |-> [book |-> b, folds |-> TRUE],
       tail |-> {}, halted |-> b.halted, confirmed |-> FALSE,
       recon |-> [o \in OrderIds |-> NotQueued], reqs |-> <<>>, err |-> "none"]

Ok(e) == e.err = "none"
-----------------------------------------------------------------------------
(* Writing.  An operator applied to an engine whose command has failed does *)
(* nothing: the handlers return at the first error.                         *)

(* write_at: the record is in the journal before the book is asked, and     *)
(* stays there when the book refuses it.                                    *)
WriteAt(e, tag, b) ==
  LET refused == tag \in {"refused", "fatal"}
      folds   == e.folds /\ ~refused
  IN  IF ~Ok(e) THEN e
      ELSE [e EXCEPT !.book = b, !.folds = folds,
                     !.tail = @ \cup {[book |-> b, folds |-> folds]},
                     !.err = IF refused THEN tag ELSE "none"]

Write(e, b) == WriteAt(e, "changed", b)

WriteEvent(e, o, ev) ==
  LET r == ApplyOrderEvent(e.book, o, ev) IN WriteAt(e, r.tag, r.book)

Request(e, r) == IF Ok(e) THEN [e EXCEPT !.reqs = Append(@, r)] ELSE e

(* flush: the buffer becomes durable, and only now are the requests taken.  *)
Flushed(e) ==
  [e EXCEPT !.synced = [book |-> e.book, folds |-> e.folds],
            !.tail = {}, !.reqs = <<>>]
-----------------------------------------------------------------------------
(* Halting, and reconciling against the venue.                              *)

OnHalt(e) ==
  IF ~Ok(e) \/ e.halted THEN e
  ELSE Write([e EXCEPT !.halted = TRUE], SetHalted(e.book, TRUE))

OnResume(e) ==
  IF ~e.halted THEN e
  ELSE Write([e EXCEPT !.halted = FALSE], SetHalted(e.book, FALSE))

StateOf(e, o) == e.book.orders[o].state

EnsureReconciling(e, o) ==
  IF StateOf(e, o) = "Reconciling" THEN e
  ELSE WriteEvent(e, o, [kind |-> "ReconcileStarted"])

Queued(e) == {o \in OrderIds : e.recon[o] # NotQueued}

Queue(e, S) ==
  [o \in OrderIds |->
     IF o \in S
       THEN [retryAt |-> e.book.now, backoff |-> Backoff, inFlight |-> TRUE]
       ELSE e.recon[o]]

Forget(e, o) ==
  IF Ok(e) THEN [e EXCEPT !.recon[o] = NotQueued] ELSE e

(* Mutant: every trigger asks.                                              *)
BeginReconcileAlways(e, o) ==
  LET started == EnsureReconciling(e, o)
  IN  IF ~Ok(started) THEN started
      ELSE Request([started EXCEPT !.recon = Queue(started, {o})],
                   LookupRequest(o))

(* One queued reconciliation resolves the order however many triggers fire. *)
BeginReconcile(e, o) ==
  LET started == EnsureReconciling(e, o)
  IN  IF ~Ok(e) \/ o \in Queued(e) THEN e
      ELSE IF ~Ok(started) THEN started
      ELSE Request([started EXCEPT !.recon = Queue(started, {o})],
                   LookupRequest(o))

(* Move the position to what the venue says the order traded, by an         *)
(* execution whose id is derived from the order and that figure.            *)
BookTheDifference(e, o, venueFilled) ==
  LET ours == BookedQty(e.book, o)
  IN  IF ~Ok(e) \/ ~Known(e.book, o) \/ venueFilled = ours THEN e
      ELSE IF venueFilled < ours THEN OnHalt(e)
      ELSE WriteEvent(e, o, [kind |-> "FillReceived",
                             exec |-> ReconciliationExecId(o, venueFilled),
                             qty  |-> venueFilled - ours])

MinNat(a, b) == IF a <= b THEN a ELSE b

(* Mutant: the question that got no answer still counts as under way.       *)
DeferReconcileInFlight(e, o) ==
  IF o \notin Queued(e) THEN e
  ELSE [e EXCEPT !.recon[o].retryAt = e.book.now + e.recon[o].backoff,
                 !.recon[o].backoff = MinNat(2 * @, BackoffCap)]

DeferReconcile(e, o) ==
  IF o \notin Queued(e) THEN e
  ELSE [e EXCEPT !.recon[o] =
          [retryAt  |-> e.book.now + e.recon[o].backoff,
           backoff  |-> MinNat(2 * e.recon[o].backoff, BackoffCap),
           inFlight |-> FALSE]]

Lookups(S) == LET s == SetToSeq(S) IN [i \in DOMAIN s |-> LookupRequest(s[i])]

RetryDueReconciliations(e, now) ==
  LET due == {o \in Queued(e) :
                ~e.recon[o].inFlight /\ e.recon[o].retryAt <= now}
  IN  [e EXCEPT !.recon = [o \in OrderIds |->
                             IF o \in due
                               THEN [e.recon[o] EXCEPT !.inFlight = TRUE]
                               ELSE e.recon[o]],
                !.reqs = @ \o Lookups(due)]
-----------------------------------------------------------------------------
(* Commands of the ticker and of the operator.                              *)

(* Mutant: the tick is stamped with the time the book already holds.        *)
OnTickStandingStill(e, now) ==
  IF now <= e.book.now THEN e
  ELSE RetryDueReconciliations(Write(e, e.book), now)

OnTick(e, now) ==
  LET ticked == IF now - e.book.now >= TickWriteAfter
                  THEN Write(e, Advance(e.book, now)) ELSE e
  IN  IF now <= e.book.now THEN e ELSE RetryDueReconciliations(ticked, now)

(* The positions are asked for, and every stale order that no question is   *)
(* queued for goes into reconciliation, one after the other in the order of *)
(* ids; which id sorts first is left open, so an interrupted flush may keep *)
(* the records of any of them.                                              *)
Reconcile(b, S) ==
  [b EXCEPT !.orders = [o \in OrderIds |->
                          IF o \in S
                            THEN [b.orders[o] EXCEPT !.state = "Reconciling"]
                            ELSE b.orders[o]]]

OnSweep(e) ==
  LET S == StaleOrders(e.book, StaleAfter) \ Queued(e)
  IN  [e EXCEPT !.book  = Reconcile(e.book, S),
                !.tail  = @ \cup {[book |-> Reconcile(e.book, T),
                                   folds |-> e.folds] : T \in SUBSET S \ {{}}},
                !.recon = Queue(e, S),
                !.reqs  = Append(@, PositionsRequest) \o Lookups(S)]

(* The intent and the start of its submission, then the request.            *)
Authorise(e, o, i) ==
  LET persisted == Write(e, PersistIntent(e.book, o, i))
      started   == WriteEvent(persisted, o, [kind |-> "SubmissionStarted"])
  IN  Request(started, SubmitRequest(o, i.qty))

(* Mutant: an intent frozen mid-submission is sent again.                   *)
OnPlaceResubmitting(e, o, i) ==
  LET v == Evaluate(e.book, i, e.confirmed, e.halted)
  IN  IF Known(e.book, o)
        THEN IF StateOf(e, o) = "Submitting"
               THEN Request(e, SubmitRequest(o, i.qty)) ELSE e
      ELSE IF v.verdict = "Refuse" THEN e
      ELSE Authorise(e, o, [i EXCEPT !.qty = v.qty])

(* A replayed intent creates nothing; one frozen mid-submission is          *)
(* reconciled, never resubmitted.                                           *)
OnPlace(e, o, i) ==
  LET v == Evaluate(e.book, i, e.confirmed, e.halted)
  IN  IF Known(e.book, o)
        THEN IF StateOf(e, o) = "Submitting" THEN BeginReconcile(e, o) ELSE e
      ELSE IF v.verdict = "Refuse" THEN e
      ELSE Authorise(e, o, [i EXCEPT !.qty = v.qty])

(* A cancel the lifecycle refuses is dropped: the error is not passed on,   *)
(* and the refused record is in the journal.                                *)
OnCancel(e, o) ==
  LET asked == WriteEvent(e, o, [kind |-> "CancelRequested"])
  IN  IF ~Known(e.book, o) THEN e
      ELSE IF asked.err = "refused" THEN [asked EXCEPT !.err = "none"]
      ELSE Request(asked, CancelRequest(o))
-----------------------------------------------------------------------------
(* Answers of the venue.                                                    *)

OnSubmitted(e, o, outcome) ==
  CASE outcome = "Acked"    -> WriteEvent(e, o, [kind |-> "VenueAcked"])
    [] outcome = "Rejected" -> WriteEvent(e, o, [kind |-> "VenueRejected"])
    [] outcome = "TimedOut" ->
         BeginReconcile(WriteEvent(e, o, [kind |-> "SubmissionTimedOut"]), o)

OnCancelled(e, o, outcome) ==
  IF outcome = "Requested" THEN e ELSE BeginReconcile(e, o)

(* Found carries the venue's state and filled quantity; Absent resolves the *)
(* order as canceled without touching what was booked.                      *)
OnLookedUp(e, o, outcome, snapshot) ==
  LET reconciling == EnsureReconciling(e, o)
      booked   == BookTheDifference(reconciling, o, snapshot.filled)
      found    == [kind |-> "ReconcileResolved", state |-> snapshot.state,
                   named |-> TRUE, filled |-> snapshot.filled]
      absent   == [kind |-> "ReconcileResolved", state |-> "Canceled",
                   named |-> FALSE, filled |-> 0]
  IN  CASE outcome = "TimedOut" -> DeferReconcile(e, o)
        [] outcome = "Found"    -> Forget(WriteEvent(booked, o, found), o)
        [] outcome = "Absent"   -> Forget(WriteEvent(reconciling, o, absent), o)

(* Evidence about an order the log has no intent for is surfaced, never     *)
(* booked: the account's positions are asked for.                           *)
Disown(e) == Request(e, PositionsRequest)

Evidence(e, o, ev) ==
  LET written == WriteEvent(e, o, ev)
  IN  IF ApplyOrderEvent(e.book, o, ev).tag = "needs"
        THEN BeginReconcile(written, o) ELSE written

OnFill(e, o, exec, q) ==
  IF HasExec(e.book, exec) THEN e
  ELSE IF ~Known(e.book, o) THEN Disown(e)
  ELSE Evidence(e, o, [kind |-> "FillReceived", exec |-> exec, qty |-> q])

OnCancelConfirmed(e, o) ==
  IF ~Known(e.book, o) THEN Disown(e)
  ELSE Evidence(e, o, [kind |-> "CancelConfirmed"])
-----------------------------------------------------------------------------
(* Position reports.                                                        *)

HasNeverTraded(b) == b.pos = 0 /\ KnownOrders(b) = {} /\ b.fills = {}

(* Mutant: the inherited order is resolved and its execution not booked.    *)
AdoptPositionUnbooked(e, q) ==
  LET i == [side |-> IF q > 0 THEN 1 ELSE -1, qty |-> AbsQty(q),
            exit |-> FALSE, traced |-> TRUE]
      persisted == Write(e, PersistIntent(e.book, Adopted, i))
      started   == WriteEvent(persisted, Adopted, [kind |-> "ReconcileStarted"])
  IN  WriteEvent(started, Adopted,
        [kind |-> "ReconcileResolved", state |-> "Filled", named |-> FALSE,
         filled |-> i.qty])

(* An inherited position is an order reconciled on the spot: never through  *)
(* Submitting, since nothing was submitted.                                 *)
AdoptPosition(e, q) ==
  LET i == [side |-> IF q > 0 THEN 1 ELSE -1, qty |-> AbsQty(q),
            exit |-> FALSE, traced |-> TRUE]
      persisted == Write(e, PersistIntent(e.book, Adopted, i))
      started   == WriteEvent(persisted, Adopted, [kind |-> "ReconcileStarted"])
      filled    == WriteEvent(started, Adopted,
                     [kind |-> "FillReceived", exec |-> AdoptionExecId,
                      qty |-> i.qty])
  IN  WriteEvent(filled, Adopted,
        [kind |-> "ReconcileResolved", state |-> "Filled", named |-> FALSE,
         filled |-> i.qty])

(* Venues report only the positions that are not flat, so a report of 0 is  *)
(* one that does not mention the instrument.                                *)
OnPositions(e, q) ==
  LET first == ~e.confirmed
      heard == [e EXCEPT !.confirmed = TRUE]
  IN  IF q = 0 \/ q = e.book.pos THEN heard
      ELSE IF first /\ HasNeverTraded(e.book) THEN AdoptPosition(heard, q)
      ELSE IF LiveOrders(e.book) # {} THEN heard
      ELSE OnHalt(heard)
=============================================================================
