-------------------------------- MODULE Codec --------------------------------
(* The bytes of a record: sentinel-record writes and reads them, record.go  *)
(* reads them too.  Widths are scaled down and differ wherever the code's   *)
(* differ, so a field read at another's width is misread here as well.  Bad *)
(* stands for every CodecError.                                             *)
EXTENDS Integers, Sequences, SequencesExt

CONSTANTS
  BASE,       \* values of a byte
  NotUtf8,    \* a byte that is in no text
  Samples,    \* records the engine writes
  Damages,    \* bytes a bad medium may leave behind
  Bad, Nothing

VARIABLES
  record,     \* the record written
  payload,    \* its bytes, as they are read back
  damage      \* what happened to them: "none", "cut", "longer" or "changed"

codecVars == <<record, payload, damage>>

Byte == 0..(BASE - 1)

RecordKinds == {"EpochClaimed", "IntentPersisted", "OrderEvent", "Decision",
                "Mark", "Balance", "Ticked"}

ASSUME CodecAssumption == /\ BASE \in Nat /\ BASE > 10 /\ NotUtf8 \in Byte \ {0}
                          /\ Damages \subseteq Byte
                          /\ Bad \notin Int \cup BOOLEAN /\ Nothing \notin Int

(* What each field is written as.  A text is named for its capacity.        *)
TypeOf ==
  [epoch |-> "u64", resumed_from |-> "u64", trace_id |-> "trace",
   client_order_id |-> "text36", instrument |-> "text16", venue_order_id |-> "text32",
   exec_id |-> "text40", text |-> "text64", note |-> "text96", asset |-> "text8",
   side |-> "Side", order_kind |-> "OrderKind", authority |-> "Authority",
   from_state |-> "OrderState", to_state |-> "OrderState", event |-> "EventKind",
   actor |-> "Actor", decision_kind |-> "DecisionKind", cause |-> "ReconcileCause",
   state |-> "OrderState", applied |-> "nonzero", known |-> "flag", code |-> "i32",
   qty |-> "i64", price |-> "i64", filled_qty |-> "i64", value |-> "i64", amount |-> "i64",
   limit_price |-> "opt_price", stop_price |-> "opt_price", quote_at_decision |-> "opt_price"]

(* The variants of each closed vocabulary; zero is none of them.            *)
Variants == [Side |-> 2, OrderKind |-> 3, Authority |-> 2, OrderState |-> 10, EventKind |-> 9,
             Actor |-> 7, DecisionKind |-> 9, ReconcileCause |-> 7]

TextWidth == [text8 |-> 2, text16 |-> 3, text32 |-> 4, text36 |-> 5, text40 |-> 6,
              text64 |-> 7, text96 |-> 8]
Width(as) == CASE as \in DOMAIN TextWidth -> TextWidth[as]
               [] as \in {"i64", "u64"}   -> 2
               [] as \in {"trace", "opt_price"} -> 3
               [] OTHER                   -> 1

----------------------------------------------------------------------------
(* buf.rs.  Integers are little-endian two's complement.                    *)

(* Place[i + 1] is what one is worth i bytes up.                            *)
Place == <<1, BASE, BASE * BASE, BASE * BASE * BASE>>

LittleEndian(n, width) ==
  [i \in 1..width |-> ((n % Place[width + 1]) \div Place[i]) % BASE]
FromBytes(b) == FoldLeft(LAMBDA n, x : n + x, 0, [i \in DOMAIN b |-> b[i] * Place[i]])
Signed(b)   == LET u == FromBytes(b)
               IN  IF 2 * u < Place[Len(b) + 1] THEN u ELSE u - Place[Len(b) + 1]

(* Text is padded with zeros, and the padding is part of its bytes.         *)
Pad(t, width) == [i \in 1..width |-> IF i <= Len(t) THEN t[i] ELSE 0]

TextLen(b) == IF Contains(b, 0) THEN (CHOOSE i \in DOMAIN b :
                                        b[i] = 0 /\ \A k \in 1..(i - 1) : b[k] # 0) - 1
              ELSE Len(b)
PaddedRight(b) == \A i \in DOMAIN b : i > TextLen(b) => b[i] = 0

from_padded(b) ==
  LET t == SubSeq(b, 1, TextLen(b))
  IN  IF PaddedRight(b) /\ ~Contains(t, NotUtf8) THEN t ELSE Bad

Flag(v)    == IF v THEN 1 ELSE 0
ReadFlag(b) == IF b = 0 THEN FALSE ELSE IF b = 1 THEN TRUE ELSE Bad

(* An optional price keeps its width when it is absent.                     *)
Put(as, v) ==
  CASE as \in DOMAIN TextWidth -> Pad(v, Width(as))
    [] as \in {"flag", "nonzero"} -> <<Flag(v)>>
    [] as = "opt_price" -> <<Flag(v # Nothing)>> \o LittleEndian(IF v = Nothing THEN 0 ELSE v, 2)
    [] OTHER -> LittleEndian(v, Width(as))

(* b holds exactly Width(as) bytes.                                         *)
Get(as, b) ==
  CASE as \in DOMAIN TextWidth -> from_padded(b)
    [] as \in DOMAIN Variants -> IF b[1] \in 1..Variants[as] THEN b[1] ELSE Bad
    [] as = "flag"      -> ReadFlag(b[1])
    [] as = "nonzero"   -> b[1] # 0
    [] as = "opt_price" -> CASE ReadFlag(b[1]) = Bad -> Bad
                             [] ReadFlag(b[1]) = TRUE -> Signed(Tail(b))
                             [] OTHER -> Nothing
    [] as \in {"u64", "trace"} -> FromBytes(b)
    [] OTHER -> Signed(b)

----------------------------------------------------------------------------
(* record.rs, the writing side: the fields in the order they are written.   *)
(* An optional venue order id is a flag and a text, empty when unknown.     *)

Written(kind) ==
  CASE kind = "EpochClaimed"    -> <<"epoch", "resumed_from">>
    [] kind = "IntentPersisted" -> <<"client_order_id", "instrument", "side", "order_kind",
                                     "authority", "qty", "limit_price", "stop_price",
                                     "quote_at_decision", "trace_id">>
    [] kind = "OrderEvent"      -> <<"client_order_id", "trace_id", "from_state", "to_state",
                                     "applied", "event">>
    [] kind = "Decision"        -> <<"instrument", "actor", "decision_kind", "trace_id",
                                     "value", "note">>
    [] kind = "Mark"            -> <<"instrument", "price">>
    [] kind = "Balance"         -> <<"asset", "amount">>
    [] kind = "Ticked"          -> <<>>

encode_event(event) ==
  CASE event = 2 -> <<"venue_order_id">>
    [] event = 3 -> <<"code", "text">>
    [] event = 5 -> <<"exec_id", "qty", "price">>
    [] event = 8 -> <<"cause">>
    [] event = 9 -> <<"state", "known", "venue_order_id", "filled_qty">>
    [] OTHER     -> <<>>

FieldsOf(rec) ==
  Written(rec.kind) \o (IF rec.kind = "OrderEvent" THEN encode_event(rec.of.event) ELSE <<>>)

encode(rec) ==
  FoldLeft(LAMBDA bytes, field : bytes \o Put(TypeOf[field], rec.of[field]), <<>>,
           FieldsOf(rec))

----------------------------------------------------------------------------
(* The reading side.  A walk reads fields one after the other, each at its  *)
(* width, until one is refused or the bytes run out.                        *)

(* What was read so far, with one field more.                              *)
With(of, field, value) ==
  [f \in DOMAIN of \cup {field} |-> IF f = field THEN value ELSE of[f]]

Walk(get(_, _), bytes, fields, from) ==
  FoldLeft(LAMBDA w, field :
             LET as    == TypeOf[field]
                 end   == w.at + Width(as)
                 value == get(field, SubSeq(bytes, w.at + 1, end))
             IN  IF ~w.ok THEN w
                 ELSE IF end > Len(bytes) THEN [w EXCEPT !.ok = FALSE]
                 ELSE IF value = Bad THEN [w EXCEPT !.ok = FALSE]
                 ELSE [at |-> end, ok |-> TRUE, of |-> With(w.of, field, value)],
           from, fields)

Start == [at |-> 0, ok |-> TRUE, of |-> <<>>]

(* The rules every intent is built under, read back from the log included.  *)
IntentAllowed(f) ==
  /\ f.client_order_id # <<>>
  /\ f.qty > 0
  /\ \A p \in {f.limit_price, f.stop_price, f.quote_at_decision} : p = Nothing \/ p > 0
  /\ f.limit_price = Nothing \/ f.stop_price = Nothing
  /\ f.order_kind = 2 => f.limit_price # Nothing
  /\ f.order_kind = 3 => f.stop_price # Nothing

Read(kind) ==
  CASE kind = "EpochClaimed"    -> <<"epoch", "resumed_from">>
    [] kind = "IntentPersisted" -> <<"client_order_id", "instrument", "side", "order_kind",
                                     "authority", "qty", "limit_price", "stop_price",
                                     "quote_at_decision", "trace_id">>
    [] kind = "OrderEvent"      -> <<"client_order_id", "trace_id", "from_state", "to_state",
                                     "applied", "event">>
    [] kind = "Decision"        -> <<"instrument", "actor", "decision_kind", "trace_id",
                                     "value", "note">>
    [] kind = "Mark"            -> <<"instrument", "price">>
    [] kind = "Balance"         -> <<"asset", "amount">>
    [] kind = "Ticked"          -> <<>>

(* Mutant: the reader takes a fill's price before its quantity.             *)
decode_event_swapped(event) ==
  CASE event = 2 -> <<"venue_order_id">>
    [] event = 3 -> <<"code", "text">>
    [] event = 5 -> <<"exec_id", "price", "qty">>
    [] event = 8 -> <<"cause">>
    [] event = 9 -> <<"state", "known", "venue_order_id", "filled_qty">>
    [] OTHER     -> <<>>

decode_event(event) ==
  CASE event = 2 -> <<"venue_order_id">>
    [] event = 3 -> <<"code", "text">>
    [] event = 5 -> <<"exec_id", "qty", "price">>
    [] event = 8 -> <<"cause">>
    [] event = 9 -> <<"state", "known", "venue_order_id", "filled_qty">>
    [] OTHER     -> <<>>

(* Mutant: bytes left over are ignored.                                     *)
FinishLax(w, bytes) == w.ok

finish(w, bytes) == w.ok /\ w.at = Len(bytes)

(* Without its flag an id is no id, whatever its bytes hold.                *)
OnlyIfKnown(of) ==
  IF "known" \in DOMAIN of /\ ~of.known THEN [of EXCEPT !.venue_order_id = <<>>] ELSE of

decode(kind, bytes) ==
  LET get(field, b) == Get(TypeOf[field], b)
      head == Walk(get, bytes, Read(kind), Start)
      all  == IF kind = "OrderEvent" /\ head.ok
              THEN Walk(get, bytes, decode_event(head.of.event), head) ELSE head
  IN  IF finish(all, bytes) /\ (kind = "IntentPersisted" => IntentAllowed(all.of))
      THEN [kind |-> kind, of |-> OnlyIfKnown(all.of)]
      ELSE Bad

----------------------------------------------------------------------------
(* record.go: the same walk by its own lists.  It checks fewer of the       *)
(* vocabularies, takes any bytes as text, and does not rebuild the intent.  *)

GoChecked == {"side", "authority", "from_state", "to_state", "event"}

GoGet(field, b) ==
  LET as == TypeOf[field]
  IN  CASE as \in DOMAIN TextWidth -> IF PaddedRight(b) THEN SubSeq(b, 1, TextLen(b)) ELSE Bad
        [] as \in DOMAIN Variants ->
             IF field \in GoChecked /\ b[1] \notin 1..Variants[as] THEN Bad ELSE b[1]
        [] OTHER -> Get(as, b)

GoFields(kind) ==
  CASE kind = "EpochClaimed"    -> <<"epoch", "resumed_from">>
    [] kind = "IntentPersisted" -> <<"client_order_id", "instrument", "side", "order_kind",
                                     "authority", "qty", "limit_price", "stop_price",
                                     "quote_at_decision", "trace_id">>
    [] kind = "OrderEvent"      -> <<"client_order_id", "trace_id", "from_state", "to_state",
                                     "applied", "event">>
    [] kind = "Decision"        -> <<"instrument", "actor", "decision_kind", "trace_id",
                                     "value", "note">>
    [] kind = "Mark"            -> <<"instrument", "price">>
    [] kind = "Balance"         -> <<"asset", "amount">>
    [] kind = "Ticked"          -> <<>>

(* Mutant: the Go decoder takes the id before its flag.                     *)
GoEventFieldsLateFlag(event) ==
  CASE event = 2 -> <<"venue_order_id">>
    [] event = 3 -> <<"code", "text">>
    [] event = 5 -> <<"exec_id", "qty", "price">>
    [] event = 8 -> <<"cause">>
    [] event = 9 -> <<"state", "venue_order_id", "known", "filled_qty">>
    [] OTHER     -> <<>>

GoEventFields(event) ==
  CASE event = 2 -> <<"venue_order_id">>
    [] event = 3 -> <<"code", "text">>
    [] event = 5 -> <<"exec_id", "qty", "price">>
    [] event = 8 -> <<"cause">>
    [] event = 9 -> <<"state", "known", "venue_order_id", "filled_qty">>
    [] OTHER     -> <<>>

(* An event in Go has an id or an empty one, and no flag.                   *)
GoView(of) == [field \in DOMAIN of \ {"known"} |-> OnlyIfKnown(of)[field]]

GoDecode(kind, bytes) ==
  LET head == Walk(GoGet, bytes, GoFields(kind), Start)
      all  == IF kind = "OrderEvent" /\ head.ok
              THEN Walk(GoGet, bytes, GoEventFields(head.of.event), head) ELSE head
  IN  IF finish(all, bytes) THEN [kind |-> kind, of |-> GoView(all.of)] ELSE Bad

----------------------------------------------------------------------------
(* A record as its types have it: the fields of its kind, each with a value *)
(* of its type, an intent built under its rules, no id that is not known.   *)
Fits(v, width) == v \in Int /\ -Place[width + 1] <= 2 * v /\ 2 * v < Place[width + 1]

Holds(as, v) ==
  CASE as \in DOMAIN TextWidth    -> v \in Seq(Byte \ {0, NotUtf8}) /\ Len(v) <= Width(as)
    [] as \in DOMAIN Variants     -> v \in 1..Variants[as]
    [] as \in {"flag", "nonzero"} -> v \in BOOLEAN
    [] as \in {"u64", "trace"}    -> v \in 0..(Place[Width(as) + 1] - 1)
    [] as = "opt_price"           -> v = Nothing \/ Fits(v, 2)
    [] OTHER                      -> Fits(v, Width(as))

IsRecord(rec) ==
  /\ rec = [kind |-> rec.kind, of |-> [field \in DOMAIN rec.of |-> rec.of[field]]]
  /\ rec.kind \in RecordKinds
  /\ DOMAIN rec.of = {FieldsOf(rec)[i] : i \in 1..Len(FieldsOf(rec))}
  /\ \A field \in DOMAIN rec.of :
       rec.of[field] # Bad /\ Holds(TypeOf[field], rec.of[field])
  /\ rec.kind = "IntentPersisted" => IntentAllowed(rec.of)
  /\ OnlyIfKnown(rec.of) = rec.of

ASSUME RecordAssumption == \A rec \in Samples : IsRecord(rec)

CodecInit ==
  /\ record \in Samples
  /\ payload = encode(record)
  /\ damage = "none"

(* A payload that comes back short, long, or with one byte changed.         *)
Cut(n) ==
  /\ damage = "none"
  /\ payload' = SubSeq(payload, 1, n)
  /\ damage' = "cut"
  /\ UNCHANGED record

Lengthen(b) ==
  /\ damage = "none"
  /\ payload' = Append(payload, b)
  /\ damage' = "longer"
  /\ UNCHANGED record

Change(i, b) ==
  /\ damage = "none"
  /\ payload[i] # b
  /\ payload' = [payload EXCEPT ![i] = b]
  /\ damage' = "changed"
  /\ UNCHANGED record

CodecNext ==
  \/ \E n \in 0..(Len(payload) - 1) : Cut(n)
  \/ \E b \in Damages : Lengthen(b)
  \/ \E i \in DOMAIN payload, b \in Damages : Change(i, b)

----------------------------------------------------------------------------
(* What was written is what is read: every record the engine can write,     *)
(* absent prices and full-width texts included, comes back as itself.       *)
RoundTrips == damage = "none" => decode(record.kind, payload) = record

(* A payload of the wrong length is a record for no reader: the prefix a    *)
(* torn write leaves, or a record of a wider format, is never taken for the *)
(* record it starts like.                                                   *)
WrongLengthIsRefused ==
  damage \in {"cut", "longer"} =>
    decode(record.kind, payload) = Bad /\ GoDecode(record.kind, payload) = Bad

(* The two readers never tell different stories: whatever bytes the engine  *)
(* can fold, the projector decodes, to the same record.  (It decodes more:  *)
(* an unknown order kind or actor, text that is no text.)                   *)
ReadersAgree ==
  LET rust == decode(record.kind, payload)
  IN  rust # Bad =>
        GoDecode(record.kind, payload) = [kind |-> rust.kind, of |-> GoView(rust.of)]
=============================================================================
