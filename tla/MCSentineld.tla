---------------------------- MODULE MCSentineld ----------------------------
(* Instances of Sentineld: the orders callers may place, and the failures   *)
(* that may happen.                                                         *)
EXTENDS Sentineld

CONSTANTS e1, e2, x1, x2    \* client order ids: entries and exits

Entry(side, qty) == [side |-> side, qty |-> qty, exit |-> FALSE, traced |-> TRUE]
Exit(qty)        == [side |-> -1, qty |-> qty, exit |-> TRUE, traced |-> TRUE]

OneEntry       == {e1}
OneEntryIntent == e1 :> Entry(1, 2)

TwoEntries       == {e1, e2}
TwoEntriesIntent == e1 :> Entry(1, 2) @@ e2 :> Entry(1, 1)

TwoExits       == {x1, x2}
TwoExitsIntent == x1 :> Exit(2) @@ x2 :> Exit(2)

AllFaults    == FaultKinds
NoFaults     == {}
GaplessFaults == FaultKinds \ {"AcceptButSilent", "StreamGap", "OverMatch"}
LostAck      == {"TimeoutButAccepted"}

(* The second entry is placed, or a command is repeated or given by the     *)
(* operator, but not both.                                                  *)
EntryOrReplay == Known(engine.book, e2) => replays = 0
=============================================================================
