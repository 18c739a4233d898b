------------------------------- MODULE Numbers -------------------------------
(* The pure layers as one machine: texts are read, fills are folded into a  *)
(* position, a trade is sized, a stop is trailed and a record goes through  *)
(* its bytes.  The five have no state in common, so each behaviour follows  *)
(* one of them (the desk).                                                  *)
EXTENDS Position, Risk, Codec

CONSTANTS
  Alphabet,   \* the characters a text is made of
  MaxText     \* bound: the length of a text

VARIABLES
  desk,       \* which of the five this behaviour follows
  text        \* the text read so far

vars == <<desk, text, posVars, riskVars, codecVars>>

Init ==
  /\ desk \in {"text", "fills", "trade", "trail", "record"}
  /\ text = <<>>
  /\ PositionInit
  /\ RiskInit
  /\ desk # "trail" => ~trail.is_long /\ trail.entry = CHOOSE m \in Marks : TRUE
  /\ IF desk = "record" THEN CodecInit
     ELSE /\ record = [kind |-> "Ticked", of |-> <<>>]
          /\ payload = encode(record) /\ damage = "none"

TypeCharacter(c) ==
  /\ Len(text) < MaxText
  /\ text' = Append(text, c)

Next ==
  /\ UNCHANGED desk
  /\ \/ /\ desk = "text" /\ \E c \in Alphabet : TypeCharacter(c)
        /\ UNCHANGED <<posVars, riskVars, codecVars>>
     \/ desk = "fills" /\ PositionNext /\ UNCHANGED <<text, riskVars, codecVars>>
     \/ /\ desk = "trade" /\ \E t \in Trades : SizeTrade(t)
        /\ UNCHANGED <<text, posVars, codecVars>>
     \/ /\ desk = "trail" /\ \E m \in Marks, d \in Dists : FollowMark(m, d)
        /\ UNCHANGED <<text, posVars, codecVars>>
     \/ desk = "record" /\ CodecNext /\ UNCHANGED <<text, posVars, riskVars>>

Spec == Init /\ [][Next]_vars

----------------------------------------------------------------------------
(* A text is read exactly or refused: a value comes out precisely when the  *)
(* text is a decimal whose value the scale and the width hold, it is that   *)
(* value, Go reads the same one, and every number a position has taken is   *)
(* written as a text that reads back as itself, MIN included.               *)
TextIsExact ==
  LET body   == Unsigned(text)
      digits == SelectSeq(body, LAMBDA c : c # ".")
      places == Len(body) - PointAt(body)
      k      == IF places > 0 THEN places ELSE 0
      n      == IF Negative(text) THEN -Number(digits) ELSE Number(digits)
      decimal == /\ digits # <<>> /\ AllDigits(digits)
                 /\ Len(body) - Len(digits) <= 1
                 /\ body[Len(body)] # "."
      value  == parse_e8(text)
  IN  /\ (value # Refused) <=> (decimal /\ \E r \in Raw : r * 10 ^ k = n * SCALE)
      /\ value # Refused => /\ value * 10 ^ k = n * SCALE
                            /\ GoParse(text) = value
      /\ \A v \in {pos.qty, pos.cost_basis, pos.realized} : parse_e8(format_e8(v)) = v
=============================================================================
