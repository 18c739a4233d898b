---------------------- MODULE SubmissionProtocol_proofs ----------------------
(***************************************************************************)
(* The guarantees of the submission protocol, for any set of orders.       *)
(* Sentineld implements the protocol (ImplementsSubmission), so they are   *)
(* guarantees of the process wherever that is checked.                     *)
(***************************************************************************)
EXTENDS SubmissionProtocol, TLAPS

LEMMA InitType == Init => TypeOK
  BY DEF Init, TypeOK, Stages

LEMMA NextType == TypeOK /\ [Next]_stage => TypeOK'
<1> SUFFICES ASSUME TypeOK, [Next]_stage PROVE TypeOK'
  OBVIOUS
<1> USE DEF TypeOK, Stages
<1>1. CASE UNCHANGED stage
  BY <1>1
<1>2. ASSUME NEW o \in Orders, Accept(o) PROVE TypeOK'
  BY <1>2 DEF Accept
<1>3. CASE Flush
  BY <1>3 DEF Flush
<1>4. ASSUME NEW o \in Orders, Send(o) PROVE TypeOK'
  BY <1>4 DEF Send
<1>5. ASSUME NEW kept \in SUBSET Orders, Die(kept) PROVE TypeOK'
  BY <1>5 DEF Die
<1> QED
  BY <1>1, <1>2, <1>3, <1>4, <1>5 DEF Next

(* What one step can do to the stage of one order: each move of the         *)
(* protocol, and nothing else.                                              *)
Moves ==
  {<<"new", "volatile">>, <<"volatile", "released">>, <<"volatile", "new">>,
   <<"volatile", "abandoned">>, <<"released", "sent">>,
   <<"released", "abandoned">>}

LEMMA NextMoves ==
  ASSUME TypeOK, Next, NEW p \in Orders
  PROVE  stage'[p] = stage[p] \/ <<stage[p], stage'[p]>> \in Moves
<1> USE DEF TypeOK, Stages, Moves
<1>1. ASSUME NEW o \in Orders, Accept(o)
      PROVE  stage'[p] = stage[p] \/ <<stage[p], stage'[p]>> \in Moves
  BY <1>1 DEF Accept
<1>2. CASE Flush
  BY <1>2 DEF Flush
<1>3. ASSUME NEW o \in Orders, Send(o)
      PROVE  stage'[p] = stage[p] \/ <<stage[p], stage'[p]>> \in Moves
  BY <1>3 DEF Send
<1>4. ASSUME NEW kept \in SUBSET Orders, Die(kept)
      PROVE  stage'[p] = stage[p] \/ <<stage[p], stage'[p]>> \in Moves
  BY <1>4 DEF Die
<1> QED
  BY <1>1, <1>2, <1>3, <1>4 DEF Next

(* Stages only ever change along the protocol's moves.                      *)
THEOREM StagesAreTyped == Spec => []TypeOK
  BY InitType, NextType, PTL DEF Spec

(* R1.2, R1.3: an order the venue was asked to open is never asked for      *)
(* again, and one abandoned by a crash is never asked for at all, for any   *)
(* number of orders and any number of crashes.                              *)
THEOREM OutcomesAreFinal == Spec => OutcomeIsFinal
<1>1. TypeOK /\ [Next]_stage
        => [\A o \in Orders : stage[o] \in {"sent", "abandoned"}
              => stage'[o] = stage[o]]_stage
  BY NextMoves DEF Moves
<1> QED
  BY <1>1, StagesAreTyped, PTL DEF Spec, OutcomeIsFinal

(* R1.1: the venue is asked only for what a flush released.                 *)
THEOREM SentWasDurable == Spec => DurableBeforeSent
<1>1. TypeOK /\ [Next]_stage
        => [\A o \in Orders : stage'[o] = "sent"
              => stage[o] \in {"sent", "released"}]_stage
  BY NextMoves DEF Moves
<1> QED
  BY <1>1, StagesAreTyped, PTL DEF Spec, DurableBeforeSent
=============================================================================
