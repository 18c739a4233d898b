------------------------------- MODULE MCLive -------------------------------
(***************************************************************************)
(* Sentineld with a clock that never runs out, for liveness.  The code     *)
(* only compares times with each other, so when the wall clock reaches its *)
(* bound every time is moved back by one; a time that is 0 already stays,  *)
(* which is sound while an order that old is still stale (the assumption). *)
(***************************************************************************)
EXTENDS Sentineld

CONSTANT e1

ASSUME HorizonAssumption == MaxNow > StaleAfter + TickWriteAfter

OneEntry     == {e1}
SmallEntry   == e1 :> [side |-> 1, qty |-> 1, exit |-> FALSE, traced |-> TRUE]
SilentFaults == {"TimeoutButAccepted", "TimeoutAndAbsent", "SubmitError",
                 "AcceptButSilent",
                 "CancelTimeout", "CancelError", "LookupTimeout", "StreamGap",
                 "UnsolicitedCancel", "PositionsError"}
LostAck      == {"TimeoutButAccepted"}

Earlier(t) == IF t = 0 THEN 0 ELSE t - 1

EarlierBook(b) ==
  [b EXCEPT !.now = Earlier(@),
            !.orders = [o \in OrderIds |->
               IF Known(b, o) THEN [b.orders[o] EXCEPT !.evidence = Earlier(@)]
               ELSE NoOrder]]

Rebase ==
  /\ wall = MaxNow
  /\ wall' = wall - 1
  /\ engine' = [engine EXCEPT
       !.book = EarlierBook(@),
       !.synced.book = EarlierBook(@),
       !.tail = {[log EXCEPT !.book = EarlierBook(@)] : log \in @},
       !.recon = [o \in OrderIds |->
          IF o \in Queued(engine)
            THEN [engine.recon[o] EXCEPT !.retryAt = Earlier(@)]
            ELSE NotQueued]]
  /\ UNCHANGED <<mode, process, venue, stream, bounds, submits>>

(* The ticker of a clock that never runs out.                               *)
Clock == Ticker \/ Rebase

(* The process with four fair threads.                                      *)
FairSpec ==
  /\ Init
  /\ [][Next \/ Rebase]_vars
  /\ WF_vars(Writer)
  /\ WF_vars(Worker)
  /\ WF_vars(Clock)
  /\ WF_vars(Process)

(* The same, with each ENABLED replaced by the readiness of the thread,     *)
(* which TLC evaluates a hundred times faster.                              *)
LiveSpec ==
  /\ Init
  /\ [][Next \/ Rebase]_vars
  /\ []<>~WriterReady  \/ []<><<Writer>>_vars
  /\ []<>~WorkerReady  \/ []<><<Worker>>_vars
  /\ []<>~TickerReady  \/ []<><<Ticker>>_vars
  /\ []<>~ProcessReady \/ []<><<Process>>_vars
=============================================================================
