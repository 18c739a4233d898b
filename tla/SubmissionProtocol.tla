------------------------- MODULE SubmissionProtocol -------------------------
(***************************************************************************)
(* What the writer promises about opening exposure (R1.1 to R1.3), with    *)
(* the engine, the channels and the venue left out.  An intent is "new",   *)
(* "volatile" once it is accepted, "released" once it is durable and its   *)
(* request is on its way, "sent" once the venue has been asked, and        *)
(* "abandoned" when the process died between the two: durable, never to be *)
(* asked again.  A volatile intent may vanish with the process, as if it   *)
(* had never been made.                                                    *)
(***************************************************************************)
CONSTANT Orders

VARIABLE stage

Stages == {"new", "volatile", "released", "sent", "abandoned"}

TypeOK == stage \in [Orders -> Stages]

Init == stage = [o \in Orders |-> "new"]

Accept(o) ==
  /\ stage[o] = "new"
  /\ stage' = [stage EXCEPT ![o] = "volatile"]

(* One flush makes everything accepted durable and releases its requests.   *)
Flush ==
  stage' = [o \in Orders |-> IF stage[o] = "volatile" THEN "released"
                             ELSE stage[o]]

Send(o) ==
  /\ stage[o] = "released"
  /\ stage' = [stage EXCEPT ![o] = "sent"]

(* The process ends: of what was volatile, kept is what its last write left *)
(* in the log; no request survives it.                                      *)
Die(kept) ==
  stage' = [o \in Orders |->
              IF stage[o] = "released" \/ (stage[o] = "volatile" /\ o \in kept)
                THEN "abandoned"
              ELSE IF stage[o] = "volatile" THEN "new"
              ELSE stage[o]]

Next ==
  \/ \E o \in Orders : Accept(o)
  \/ Flush
  \/ \E o \in Orders : Send(o)
  \/ \E kept \in SUBSET Orders : Die(kept)

Spec == Init /\ [][Next]_stage
-----------------------------------------------------------------------------
(* The two outcomes are final: an order the venue was asked to open is      *)
(* never new again, so it is never asked for twice, and an abandoned one is *)
(* never asked for at all.                                                  *)
OutcomeIsFinal ==
  [][\A o \in Orders : stage[o] \in {"sent", "abandoned"} => stage'[o] = stage[o]]_stage

(* The venue is only ever asked for what was released, and what was         *)
(* released was durable: no step takes a volatile intent to the venue.      *)
DurableBeforeSent ==
  [][\A o \in Orders : stage'[o] = "sent" => stage[o] \in {"sent", "released"}]_stage
=============================================================================
