---------------------------- MODULE Engine_proofs ----------------------------
(***************************************************************************)
(* First what the ledger's operators compute and keep, for every book:     *)
(* sums over finite sets, by least counterexample; what every lifecycle    *)
(* transition does to an order; and that applying any event to a sound     *)
(* book leaves it sound, and records no less than it did.  Then what every *)
(* handler of the engine does to it, whatever the command, the book and    *)
(* the outcome: one lemma per operator of module Engine, each stating the  *)
(* same relation, Kept.                                                    *)
(***************************************************************************)
EXTENDS Engine, FiniteSetTheorems, FunctionTheorems, SequenceTheorems, TLAPS

(* The ledger.                                                              *)
-----------------------------------------------------------------------------
(* The smallest member of a set of naturals: what an induction over data    *)
(* rests on here, as the smallest counterexample.                           *)
LEMMA LeastNat ==
  ASSUME NEW T, T \subseteq Nat, T # {}
  PROVE  \E x \in T : \A y \in T : x <= y
<1>1. PICK x \in T : \A y \in T : ~ (<<y, x>> \in OpToRel(<, Nat))
  BY NatLessThanWellFounded, WFMin
<1>2. ASSUME NEW y \in T PROVE x <= y
  <2>1. x \in Nat /\ y \in Nat
    OBVIOUS
  <2>2. ~(y < x)
    BY <1>1, <2>1 DEF OpToRel
  <2> QED
    BY <2>1, <2>2
<1> QED
  BY <1>2

LEMMA NatSets ==
  ASSUME NEW P, 0 \in P, \A n \in Nat : n \in P => n + 1 \in P
  PROVE  Nat \subseteq P
<1>1. SUFFICES ASSUME NEW n \in Nat, n \notin P PROVE FALSE
  OBVIOUS
<1> DEFINE T == {m \in Nat : m \notin P}
<1>2. T \subseteq Nat /\ T # {}
  BY <1>1
<1>3. PICK x \in T : \A y \in T : x <= y
  <2> HIDE DEF T
  <2> QED
    BY <1>2, LeastNat
<1>4. x \in Nat /\ x # 0 /\ x - 1 \in Nat
  OBVIOUS
<1>5. x - 1 \in P
  BY <1>3, <1>4
<1> QED
  BY <1>4, <1>5
-----------------------------------------------------------------------------
(* Sums.  h is the table of the sums of g over the subsets of S, each built *)
(* the way MapThenSumSet builds it: from some element and the rest.         *)
Some(s) == CHOOSE x \in s : TRUE

Sums(h, g, S) ==
  h = [s \in SUBSET S |-> IF s = {} THEN 0 ELSE g[Some(s)] + h[s \ {Some(s)}]]

LEMMA SomeIs == ASSUME NEW s, s # {} PROVE Some(s) \in s
  BY DEF Some

LEMMA SumsExist ==
  ASSUME NEW S, IsFiniteSet(S), NEW g, \A x \in S : g[x] \in Int
  PROVE  \E h \in [SUBSET S -> Int] : Sums(h, g, S)
<1> DEFINE Small(n) == {s \in SUBSET S : Cardinality(s) <= n}
           Step(h, s) == IF s = {} THEN 0 ELSE g[Some(s)] + h[s \ {Some(s)}]
           P == {n \in Nat : \E h \in [Small(n) -> Int] : \A s \in Small(n) : h[s] = Step(h, s)}
<1>1. \A s \in SUBSET S : IsFiniteSet(s) /\ Cardinality(s) \in Nat
  BY FS_Subset, FS_CardinalityType
<1>2. \A s \in SUBSET S : s # {} => /\ Some(s) \in s /\ s \ {Some(s)} \in SUBSET S
                                    /\ Cardinality(s \ {Some(s)}) = Cardinality(s) - 1
  BY <1>1, SomeIs, FS_RemoveElement
<1>3. 0 \in P
  <2>1. \A s \in Small(0) : s = {}
    BY <1>1, FS_EmptySet
  <2>2. \A s \in Small(0) : [t \in Small(0) |-> 0][s] = Step([t \in Small(0) |-> 0], s)
    BY <2>1
  <2>3. [t \in Small(0) |-> 0] \in [Small(0) -> Int]
    OBVIOUS
  <2> QED
    BY <2>2, <2>3
<1>4. ASSUME NEW n \in Nat, n \in P PROVE n + 1 \in P
  <2>1. PICK h \in [Small(n) -> Int] : \A s \in Small(n) : h[s] = Step(h, s)
    BY <1>4
  <2> DEFINE k == [s \in Small(n + 1) |-> Step(h, s)]
  <2>2. ASSUME NEW s \in Small(n + 1), s # {}
        PROVE  s \ {Some(s)} \in Small(n)
    BY <1>1, <1>2, <2>2
  <2>3. \A s \in Small(n) : s \in Small(n + 1) /\ k[s] = h[s]
    BY <1>1, <2>1
  <2>4. k \in [Small(n + 1) -> Int]
    <3>1. ASSUME NEW s \in Small(n + 1) PROVE Step(h, s) \in Int
      BY <1>2, <2>2
    <3> QED
      BY <3>1
  <2>5. \A s \in Small(n + 1) : k[s] = Step(k, s)
    BY <2>2, <2>3
  <2>6. n + 1 \in Nat
    OBVIOUS
  <2> HIDE DEF k
  <2> QED
    BY <2>4, <2>5, <2>6
<1>5. Cardinality(S) \in P
  <2>1. Cardinality(S) \in Nat
    BY <1>1
  <2> HIDE DEF P
  <2> QED
    BY <1>3, <1>4, <2>1, NatSets
<1>6. Small(Cardinality(S)) = SUBSET S
  BY FS_Subset
<1>7. PICK h \in [SUBSET S -> Int] : \A s \in SUBSET S : h[s] = Step(h, s)
  BY <1>5, <1>6
<1>8. Sums(h, g, S)
  BY <1>7 DEF Sums
<1> QED
  BY <1>8

(* A sum depends only on the terms: not on the set it is a part of.         *)
LEMMA SumsAgree ==
  ASSUME NEW S, NEW R, NEW g, NEW f, NEW h, NEW k, Sums(h, g, S), Sums(k, f, R),
         NEW T, T \subseteq S, T \subseteq R, IsFiniteSet(T),
         \A x \in T : g[x] = f[x]
  PROVE  h[T] = k[T]
<1> DEFINE P == {n \in Nat : \A s \in SUBSET T : Cardinality(s) = n => h[s] = k[s]}
<1>1. \A s \in SUBSET T : IsFiniteSet(s) /\ Cardinality(s) \in Nat
  BY FS_Subset, FS_CardinalityType
<1>2. ASSUME NEW s \in SUBSET T, s # {}
      PROVE  /\ h[s] = g[Some(s)] + h[s \ {Some(s)}]
             /\ k[s] = g[Some(s)] + k[s \ {Some(s)}]
             /\ s \ {Some(s)} \in SUBSET T
             /\ Cardinality(s \ {Some(s)}) = Cardinality(s) - 1
  <2>1. Some(s) \in s /\ s \in SUBSET S /\ s \in SUBSET R
    BY <1>2, SomeIs
  <2>2. Cardinality(s \ {Some(s)}) = Cardinality(s) - 1
    BY <1>1, <2>1, FS_RemoveElement
  <2>3. h[s] = g[Some(s)] + h[s \ {Some(s)}]
    BY <1>2, <2>1 DEF Sums
  <2>4. k[s] = f[Some(s)] + k[s \ {Some(s)}]
    BY <1>2, <2>1 DEF Sums
  <2> QED
    BY <2>1, <2>2, <2>3, <2>4
<1>3. 0 \in P
  <2>1. h[{}] = 0 /\ k[{}] = 0
    BY DEF Sums
  <2>2. \A s \in SUBSET T : Cardinality(s) = 0 => s = {}
    BY <1>1, FS_EmptySet
  <2> QED
    BY <2>1, <2>2
<1>4. ASSUME NEW n \in Nat, n \in P PROVE n + 1 \in P
  <2>1. ASSUME NEW s \in SUBSET T, Cardinality(s) = n + 1 PROVE h[s] = k[s]
    <3>1. s # {}
      BY <1>1, <2>1, FS_EmptySet
    <3>2. Cardinality(s \ {Some(s)}) = n
      BY <1>2, <2>1, <3>1
    <3> QED
      BY <1>2, <1>4, <3>1, <3>2
  <2> QED
    BY <2>1
<1>5. Cardinality(T) \in P
  <2> HIDE DEF P
  <2> QED
    BY <1>1, <1>3, <1>4, NatSets
<1> QED
  BY <1>5

(* One more term.                                                           *)
Additive(h, g, S) ==
  \A s \in SUBSET S : \A x \in S \ s : h[s \cup {x}] = g[x] + h[s]

LEMMA SumsAdd ==
  ASSUME NEW S, IsFiniteSet(S), NEW g, \A x \in S : g[x] \in Int,
         NEW h, h \in [SUBSET S -> Int], Sums(h, g, S)
  PROVE  Additive(h, g, S)
<1> DEFINE P == {n \in Nat : \A t \in SUBSET S : \A y \in S \ t :
                   Cardinality(t) = n => h[t \cup {y}] = g[y] + h[t]}
<1>1. \A t \in SUBSET S : IsFiniteSet(t) /\ Cardinality(t) \in Nat
  BY FS_Subset, FS_CardinalityType
<1>2. ASSUME NEW t \in SUBSET S, t # {} PROVE h[t] = g[Some(t)] + h[t \ {Some(t)}]
  BY <1>2 DEF Sums
<1>3. 0 \in P
  <2>1. ASSUME NEW y \in S PROVE h[{y}] = g[y] + h[{}]
    <3>1. Some({y}) = y /\ {y} \ {y} = {}
      BY SomeIs
    <3> QED
      BY <1>2, <3>1
  <2>2. \A t \in SUBSET S : Cardinality(t) = 0 => t = {}
    BY <1>1, FS_EmptySet
  <2> QED
    BY <2>1, <2>2
<1>4. ASSUME NEW n \in Nat, n \in P PROVE n + 1 \in P
  <2>1. ASSUME NEW t \in SUBSET S, NEW y \in S \ t, Cardinality(t) = n + 1
        PROVE  h[t \cup {y}] = g[y] + h[t]
    <3> DEFINE u == t \cup {y}
               z == Some(u)
               r == t \ {z}
    <3>1. u \in SUBSET S /\ z \in u /\ h[u] = g[z] + h[u \ {z}]
      <4>1. u \in SUBSET S /\ u # {}
        OBVIOUS
      <4> HIDE DEF u, P
      <4> QED
        BY <1>2, <4>1, SomeIs
    <3>2. CASE z = y
      <4>1. u \ {y} = t
        OBVIOUS
      <4> HIDE DEF z
      <4> QED
        BY <3>1, <3>2, <4>1
    <3>3. CASE z \in t
      <4>1. /\ r \in SUBSET S /\ z \in S \ r /\ y \in S \ r
            /\ r \cup {z} = t /\ u \ {z} = r \cup {y}
        BY <3>3
      <4>2. Cardinality(r) = n
        <5> HIDE DEF z, P
        <5>1. IsFiniteSet(t) /\ Cardinality(t) = n + 1
          BY <1>1, <2>1
        <5>2. Cardinality(t \ {z}) = Cardinality(t) - 1
          BY <3>3, <5>1, FS_RemoveElement
        <5> QED
          BY <5>1, <5>2
      <4> HIDE DEF u, z, r
      <4>3. \A q \in S \ r : h[r \cup {q}] = g[q] + h[r]
        BY <1>4, <4>1, <4>2
      <4>4. h[u] = g[z] + (g[y] + h[r]) /\ h[t] = g[z] + h[r]
        BY <3>1, <4>1, <4>3
      <4>5. h[r] \in Int /\ g[z] \in Int /\ g[y] \in Int
        BY <4>1
      <4>6. h[u] = g[y] + h[t]
        BY <4>4, <4>5
      <4> QED
        BY <4>6 DEF u
    <3> QED
      BY <3>1, <3>2, <3>3
  <2> QED
    BY <2>1
<1>5. \A s \in SUBSET S : Cardinality(s) \in P
  <2> HIDE DEF P
  <2> QED
    BY <1>1, <1>3, <1>4, NatSets
<1> QED
  BY <1>5 DEF Additive
-----------------------------------------------------------------------------
(* What the ledger adds up: the executions of an order, what live exits     *)
(* have still to close, and the position the executions make.               *)
Qtys(F)  == [f \in F |-> f.qty]
Moves(F) == [f \in F |-> f.side * f.qty]
Net(F)   == MapThenSumSet(LAMBDA f : f.side * f.qty, F)

LEMMA BookedIs ==
  ASSUME NEW b, NEW o, b.fills \subseteq FillRecord, IsFiniteSet(b.fills)
  PROVE  BookedQty(b, o) \in Int
<1> DEFINE S == FillsFor(b, o)
           R(k) == k = [s \in SUBSET S |-> IF s = {} THEN 0
                          ELSE Some(s).qty + k[s \ {Some(s)}]]
<1>1. S \subseteq b.fills /\ IsFiniteSet(S)
  BY FS_Subset DEF FillsFor
<1>2. \A f \in S : Qtys(S)[f] = f.qty /\ Qtys(S)[f] \in Int
  BY <1>1 DEF Qtys, FillRecord
<1>3. PICK h \in [SUBSET S -> Int] : Sums(h, Qtys(S), S)
  BY <1>1, <1>2, SumsExist
<1>4. \A s \in SUBSET S : s # {} => Qtys(S)[Some(s)] = Some(s).qty
  BY <1>2, SomeIs
<1>5. R(h)
  BY <1>3, <1>4 DEF Sums
<1>6. PICK k : k = (CHOOSE j : R(j))
  OBVIOUS
<1>7. Sums(k, Qtys(S), S)
  BY <1>4, <1>5, <1>6 DEF Sums
<1>8. k[S] = h[S]
  BY <1>1, <1>3, <1>7, SumsAgree
<1>9. BookedQty(b, o) = k[S]
  BY <1>6 DEF BookedQty, MapThenSumSet, MapThenFoldSet, Some
<1> QED
  BY <1>3, <1>8, <1>9

LEMMA CommittedIs ==
  ASSUME NEW b \in Books
  PROVE  CommittedToExits(b) \in Int
<1> DEFINE S == LiveExits(b)
           g == [o \in S |-> RemainingQty(b.orders[o])]
           R(k) == k = [s \in SUBSET S |-> IF s = {} THEN 0
                          ELSE RemainingQty(b.orders[Some(s)]) + k[s \ {Some(s)}]]
<1>1. S \subseteq OrderIds /\ IsFiniteSet(S)
  <2>1. IsFiniteSet(OrderIds)
    BY OrdersAssumption, FS_AddElement DEF OrderIds
  <2> QED
    BY <2>1, FS_Subset DEF LiveExits, LiveOrders, KnownOrders
<1>2. \A o \in S : g[o] = RemainingQty(b.orders[o]) /\ g[o] \in Int
  <2>1. ASSUME NEW o \in S PROVE b.orders[o] \in OrderRecord
    <3>1. o \in OrderIds /\ b.orders[o].state # "None"
      BY DEF LiveExits, LiveOrders, KnownOrders, Known
    <3> QED
      BY <3>1 DEF Books, NoOrder
  <2>2. ASSUME NEW o \in S PROVE RemainingQty(b.orders[o]) \in Int
    BY <2>1 DEF RemainingQty, OrderRecord
  <2> QED
    BY <2>2
<1> HIDE DEF g
<1>3. PICK h \in [SUBSET S -> Int] : Sums(h, g, S)
  BY <1>1, <1>2, SumsExist
<1>4. \A s \in SUBSET S : s # {} => g[Some(s)] = RemainingQty(b.orders[Some(s)])
  BY <1>2, SomeIs
<1>5. R(h)
  BY <1>3, <1>4 DEF Sums
<1>6. PICK k : k = (CHOOSE j : R(j))
  OBVIOUS
<1>7. Sums(k, g, S)
  BY <1>4, <1>5, <1>6 DEF Sums
<1>8. k[S] = h[S]
  BY <1>1, <1>3, <1>7, SumsAgree
<1>9. CommittedToExits(b) = k[S]
  BY <1>6 DEF CommittedToExits, MapThenSumSet, MapThenFoldSet, Some
<1> QED
  BY <1>3, <1>8, <1>9

LEMMA NetIs ==
  ASSUME NEW F, F \subseteq FillRecord, IsFiniteSet(F)
  PROVE  \E h \in [SUBSET F -> Int] : Sums(h, Moves(F), F) /\ Net(F) = h[F]
<1> DEFINE R(k) == k = [s \in SUBSET F |-> IF s = {} THEN 0
                          ELSE Some(s).side * Some(s).qty + k[s \ {Some(s)}]]
<1>1. \A f \in F : Moves(F)[f] = f.side * f.qty /\ Moves(F)[f] \in Int
  BY DEF Moves, FillRecord, Sides
<1>2. PICK h \in [SUBSET F -> Int] : Sums(h, Moves(F), F)
  BY <1>1, SumsExist
<1>3. \A s \in SUBSET F : s # {} => Moves(F)[Some(s)] = Some(s).side * Some(s).qty
  BY <1>1, SomeIs
<1>4. R(h)
  BY <1>2, <1>3 DEF Sums
<1>5. PICK k : k = (CHOOSE j : R(j))
  OBVIOUS
<1>6. Sums(k, Moves(F), F)
  BY <1>3, <1>4, <1>5 DEF Sums
<1>7. k[F] = h[F]
  BY <1>2, <1>6, SumsAgree
<1>8. Net(F) = k[F]
  BY <1>5 DEF Net, MapThenSumSet, MapThenFoldSet, Some
<1> QED
  BY <1>2, <1>7, <1>8

(* The position an execution more makes.                                    *)
LEMMA NetAdd ==
  ASSUME NEW F, F \subseteq FillRecord, IsFiniteSet(F), NEW r \in FillRecord, r \notin F
  PROVE  /\ Net(F) \in Int
         /\ Net(F \cup {r}) = Net(F) + r.side * r.qty
<1> DEFINE G == F \cup {r}
<1>1. G \subseteq FillRecord /\ IsFiniteSet(G) /\ F \in SUBSET G /\ r \in G
  BY FS_AddElement
<1> HIDE DEF G
<1>2. PICK h \in [SUBSET F -> Int] : Sums(h, Moves(F), F) /\ Net(F) = h[F]
  BY NetIs
<1>3. PICK k \in [SUBSET G -> Int] : Sums(k, Moves(G), G) /\ Net(G) = k[G]
  BY <1>1, NetIs
<1>4. \A f \in G : Moves(G)[f] = f.side * f.qty /\ Moves(G)[f] \in Int
  BY <1>1 DEF Moves, FillRecord, Sides
<1>5. \A f \in F : Moves(F)[f] = Moves(G)[f]
  BY <1>1 DEF Moves
<1>6. h[F] = k[F]
  BY <1>1, <1>2, <1>3, <1>5, SumsAgree
<1>7. k[F \cup {r}] = Moves(G)[r] + k[F]
  <2>1. PICK g : g = Moves(G)
    OBVIOUS
  <2>2. Sums(k, g, G) /\ \A x \in G : g[x] \in Int
    BY <1>3, <1>4, <2>1
  <2>3. F \in SUBSET G /\ r \in G /\ r \notin F /\ IsFiniteSet(G)
    BY <1>1
  <2>4. k \in [SUBSET G -> Int]
    OBVIOUS
  <2>5. Additive(k, g, G)
    BY <2>2, <2>3, <2>4, SumsAdd
  <2> QED
    BY <2>1, <2>3, <2>5 DEF Additive
<1>8. k[F] \in Int /\ Moves(G)[r] \in Int /\ Moves(G)[r] = r.side * r.qty
  BY <1>1, <1>4
<1> QED
  BY <1>2, <1>3, <1>6, <1>7, <1>8 DEF G

LEMMA NetEmpty == Net({}) = 0
<1>1. PICK h \in [SUBSET {} -> Int] : Sums(h, Moves({}), {}) /\ Net({}) = h[{}]
  BY NetIs, FS_EmptySet
<1> QED
  BY <1>1 DEF Sums
-----------------------------------------------------------------------------
(* A book that is typed and holds the ledger's invariants on executions.    *)
BookOK(b) ==
  /\ b \in Books
  /\ IsFiniteSet(b.fills)
  /\ PositionsEqualFills(b)
  /\ NoOverfill(b)

Signals == EventKinds \ {"FillReceived", "ReconcileResolved"}

OrderEvents ==
  [kind: Signals]
    \cup [kind: {"FillReceived"}, exec: ExecIds, qty: Int]
    \cup [kind: {"ReconcileResolved"}, state: OrderStates, named: BOOLEAN, filled: Nat]

LEMMA KnownIs ==
  ASSUME NEW b \in Books, NEW o \in OrderIds
  PROVE  /\ Known(b, o) => b.orders[o] \in OrderRecord
         /\ ~Known(b, o) => b.orders[o] = NoOrder
  BY DEF Books, Known, NoOrder, OrderRecord, OrderStates

LEMMA MoveIs ==
  ASSUME NEW c \in OrderRecord, NEW m \in OrderRecord
  PROVE  /\ Move(c, m).tag \in {"ok", "Illegal"}
         /\ Move(c, m).tag = "ok" => Move(c, m).core = m /\ m.state # "Created"
  BY DEF Move, Refuse, Allowed, OrderRecord, OrderStates

(* What a transition makes of an order it accepts.                          *)
Moved(c, ev, m) ==
  /\ m \in OrderRecord
  /\ m.filled <= m.qty
  /\ m.state # "Created"
  /\ c.state = "Reconciling" /\ ev.kind # "ReconcileResolved" => m.state = "Reconciling"

Outcome(c, ev, r) ==
  /\ r.tag \in {"ok"} \cup Refusals
  /\ r.tag = "ok" => Moved(c, ev, r.core)

LEMMA SignalMoves ==
  ASSUME NEW c \in OrderRecord, c.filled <= c.qty, NEW ev \in [kind: Signals]
  PROVE  Outcome(c, ev, Transition(c, ev))
<1> DEFINE To(s) == [c EXCEPT !.state = s]
           Ack   == [c EXCEPT !.state = "Working", !.named = TRUE]
<1>1. \A s \in OrderStates : To(s) \in OrderRecord /\ To(s).filled <= To(s).qty /\ To(s).state = s
  BY DEF OrderRecord
<1>2. Ack \in OrderRecord /\ Ack.filled <= Ack.qty /\ Ack.state = "Working"
  BY DEF OrderRecord, OrderStates
<1>3. ASSUME NEW S, NEW m \in OrderRecord, m.filled <= m.qty,
             "Reconciling" \notin S
      PROVE  Outcome(c, ev, From(c, S, m))
  BY <1>3, MoveIs DEF Outcome, Moved, From, Refuse, Refusals
<1>4. Outcome(c, ev, ApplyCancelConfirmed(c))
  <2>1. CASE c.state \in {"Reconciling", "Canceled"}
    BY <2>1 DEF ApplyCancelConfirmed, Outcome, Moved
  <2>2. CASE c.state \in {"Filled", "Rejected", "Unknown"}
    BY <2>2 DEF ApplyCancelConfirmed, Outcome, Refuse, Refusals
  <2>3. CASE c.state \in {"CancelPending", "Working", "Partial"}
    <3>1. ApplyCancelConfirmed(c) = Move(c, To("Canceled"))
      BY <2>3 DEF ApplyCancelConfirmed
    <3> HIDE DEF To
    <3> QED
      BY <1>1, <2>3, <3>1, MoveIs DEF Outcome, Moved, OrderStates, Refusals
  <2>4. CASE c.state \in {"Created", "Submitting"}
    BY <2>4 DEF ApplyCancelConfirmed, Outcome, Refuse, Refusals
  <2> QED
    BY <2>1, <2>2, <2>3, <2>4 DEF OrderRecord, OrderStates
<1>5. CASE ev.kind = "SubmissionStarted"
  <2>1. Transition(c, ev) = From(c, {"Created"}, To("Submitting"))
    BY <1>5 DEF Transition
  <2> HIDE DEF To
  <2> QED
    BY <1>1, <1>3, <2>1 DEF OrderStates
<1>6. CASE ev.kind = "VenueAcked"
  <2>1. Transition(c, ev) = From(c, {"Submitting"}, Ack)
    BY <1>6 DEF Transition
  <2> HIDE DEF Ack
  <2> QED
    BY <1>2, <1>3, <2>1
<1>7. CASE ev.kind = "VenueRejected"
  <2>1. Transition(c, ev) = From(c, {"Submitting"}, To("Rejected"))
    BY <1>7 DEF Transition
  <2> HIDE DEF To
  <2> QED
    BY <1>1, <1>3, <2>1 DEF OrderStates
<1>8. CASE ev.kind = "SubmissionTimedOut"
  <2>1. Transition(c, ev) = From(c, {"Submitting"}, To("Unknown"))
    BY <1>8 DEF Transition
  <2> HIDE DEF To
  <2> QED
    BY <1>1, <1>3, <2>1 DEF OrderStates
<1>9. CASE ev.kind = "CancelRequested"
  <2>1. Transition(c, ev) = From(c, {"Working", "Partial"}, To("CancelPending"))
    BY <1>9 DEF Transition
  <2> HIDE DEF To
  <2> QED
    BY <1>1, <1>3, <2>1 DEF OrderStates
<1>10. CASE ev.kind = "CancelConfirmed"
  BY <1>4, <1>10 DEF Transition
<1>11. CASE ev.kind = "ReconcileStarted"
  <2>1. Transition(c, ev) = From(c, OrderStates \ {"Reconciling"}, To("Reconciling"))
    BY <1>11 DEF Transition
  <2> HIDE DEF To
  <2> QED
    BY <1>1, <1>3, <2>1 DEF OrderStates
<1> QED
  BY <1>5, <1>6, <1>7, <1>8, <1>9, <1>10, <1>11 DEF Signals, EventKinds

LEMMA FillMoves ==
  ASSUME NEW c \in OrderRecord, c.filled <= c.qty,
         NEW ev \in [kind: {"FillReceived"}, exec: ExecIds, qty: Int]
  PROVE  /\ Outcome(c, ev, Transition(c, ev))
         /\ Transition(c, ev).tag = "ok" => ev.qty > 0 /\ c.state # "Created"
<1>1. Transition(c, ev) = ApplyFill(c, ev.qty)
  BY DEF Transition
<1> DEFINE total    == c.filled + ev.qty
           recorded == MinQty(total, c.qty)
           m == [c EXCEPT !.state = FillTarget(c.state, recorded, c.qty), !.filled = recorded]
<1>2. c.filled \in Nat /\ c.qty \in Nat /\ ev.qty \in Int /\ c.state \in OrderStates
  BY DEF OrderRecord
<1>3. CASE IsTerminal(c.state) \/ c.state \in {"Unknown", "Created"}
  BY <1>1, <1>3 DEF ApplyFill, Refuse, Outcome, Refusals, IsTerminal
<1>4. CASE /\ ~IsTerminal(c.state) /\ c.state \notin {"Unknown", "Created"}
           /\ ev.qty <= 0 \/ total > GrossCeiling(c.qty)
  BY <1>1, <1>4 DEF ApplyFill, Refuse, Outcome, Refusals
<1>5. CASE /\ ~IsTerminal(c.state) /\ c.state \notin {"Unknown", "Created"}
           /\ ~(ev.qty <= 0) /\ ~(total > GrossCeiling(c.qty))
  <2>1. ApplyFill(c, ev.qty) = Move(c, m)
    BY <1>5 DEF ApplyFill
  <2>2. recorded \in Nat /\ recorded <= c.qty
    BY <1>2, <1>5 DEF MinQty
  <2>3. FillTarget(c.state, recorded, c.qty) \in OrderStates
    BY DEF FillTarget, OrderStates
  <2>4. m \in OrderRecord /\ m.filled = recorded /\ m.qty = c.qty
        /\ m.state = FillTarget(c.state, recorded, c.qty)
    BY <2>2, <2>3 DEF OrderRecord
  <2>5. c.state = "Reconciling" => m.state = "Reconciling"
    BY <2>4 DEF FillTarget
  <2> HIDE DEF m, recorded
  <2> QED
    BY <1>1, <1>2, <1>5, <2>1, <2>2, <2>4, <2>5, MoveIs DEF Outcome, Moved, Refusals
<1> QED
  BY <1>3, <1>4, <1>5

LEMMA ResolveMoves ==
  ASSUME NEW c \in OrderRecord, c.filled <= c.qty,
         NEW ev \in [kind: {"ReconcileResolved"}, state: OrderStates, named: BOOLEAN, filled: Nat]
  PROVE  Outcome(c, ev, Transition(c, ev))
<1>1. Transition(c, ev) = Resolve(c, ev)
  BY DEF Transition
<1> DEFINE m == [c EXCEPT !.state = ev.state, !.named = ev.named \/ c.named,
                          !.filled = MinQty(ev.filled, c.qty)]
<1>2. MinQty(ev.filled, c.qty) \in Nat /\ MinQty(ev.filled, c.qty) <= c.qty
  BY DEF MinQty, OrderRecord
<1>3. m \in OrderRecord /\ m.filled <= m.qty
  BY <1>2 DEF OrderRecord
<1>4. \/ Resolve(c, ev).tag \in {"Illegal", "Overfill"}
      \/ Resolve(c, ev) = Move(c, m)
  BY DEF Resolve, Refuse
<1> HIDE DEF m
<1> QED
  BY <1>1, <1>3, <1>4, MoveIs DEF Outcome, Moved, Refusals

LEMMA TransitionMoves ==
  ASSUME NEW c \in OrderRecord, c.filled <= c.qty, NEW ev \in OrderEvents
  PROVE  Outcome(c, ev, Transition(c, ev))
  BY SignalMoves, FillMoves, ResolveMoves DEF OrderEvents

Begun(b, o)       == b.orders[o].state \notin {"None", "Created"}
Reconciling(b, o) == b.orders[o].state = "Reconciling"

(* The book c has every order of callers that the book b has, and none      *)
(* further from its submission.                                             *)
After(b, c) ==
  \A o \in Orders : (Known(b, o) => Known(c, o)) /\ (Begun(b, o) => Begun(c, o))

LEMMA AfterIsOrder ==
  /\ \A b : After(b, b)
  /\ \A b, c, d : After(b, c) /\ After(c, d) => After(b, d)
  BY DEF After

(* What applying an event about o to the book b makes of it.                *)
Applied(b, o, ev, c) ==
  /\ BookOK(c)
  /\ c.halted = b.halted /\ c.now = b.now
  /\ After(b, c)
  /\ \A p \in OrderIds : Known(c, p) => Known(b, p)
  /\ \A p \in OrderIds : p # o => c.orders[p] = b.orders[p]
  /\ ev.kind # "ReconcileResolved" /\ Reconciling(b, o) => Reconciling(c, o)

LEMMA AppliedSame == ASSUME NEW b, BookOK(b), NEW o, NEW ev PROVE Applied(b, o, ev, b)
  BY AfterIsOrder DEF Applied

(* Replacing the record of a known order.                                   *)
LEMMA ReplaceOrder ==
  ASSUME NEW b, BookOK(b), NEW o \in OrderIds, Known(b, o), NEW ev,
         NEW m, Moved(b.orders[o], ev, m)
  PROVE  Applied(b, o, ev, [b EXCEPT !.orders[o] = m])
<1> DEFINE c == [b EXCEPT !.orders[o] = m]
<1>1. b \in Books /\ m \in OrderRecord /\ m.state \in OrderStates \ {"Created"} /\ m.filled <= m.qty
  BY DEF BookOK, Moved, OrderRecord
<1>2. /\ c.orders = [b.orders EXCEPT ![o] = m] /\ c.fills = b.fills /\ c.pos = b.pos
      /\ c.now = b.now /\ c.halted = b.halted
  BY <1>1 DEF Books
<1>3. b.orders \in [OrderIds -> OrderRecord \cup {NoOrder}]
  BY <1>1 DEF Books
<1>4. \A p \in OrderIds : c.orders[p] = IF p = o THEN m ELSE b.orders[p]
  BY <1>2, <1>3
<1>5. c \in Books
  BY <1>1 DEF Books
<1> HIDE DEF c
<1>6. NoOverfill(c)
  <2>1. ASSUME NEW p \in KnownOrders(c) PROVE c.orders[p].filled <= c.orders[p].qty
    <3>1. p \in OrderIds /\ Known(c, p)
      BY DEF KnownOrders
    <3>2. p # o => p \in KnownOrders(b)
      BY <1>4, <3>1 DEF KnownOrders, Known
    <3> QED
      BY <1>1, <1>4, <3>1, <3>2 DEF BookOK, NoOverfill
  <2> QED
    BY <2>1 DEF NoOverfill
<1>7. PositionsEqualFills(c) /\ IsFiniteSet(c.fills)
  BY <1>2 DEF BookOK, PositionsEqualFills
<1>8. Known(c, o) /\ Begun(c, o)
  BY <1>1, <1>4 DEF Known, Begun, OrderStates
<1>9. After(b, c)
  BY <1>4, <1>8 DEF After, Known, Begun, OrderIds
<1>10. \A p \in OrderIds : Known(c, p) => Known(b, p)
  BY <1>4 DEF Known
<1>11. ev.kind # "ReconcileResolved" /\ Reconciling(b, o) => Reconciling(c, o)
  BY <1>4 DEF Reconciling, Moved
<1> QED
  BY <1>2, <1>4, <1>5, <1>6, <1>7, <1>9, <1>10, <1>11 DEF Applied, BookOK, c

(* Booking an execution that is not yet in the book.                        *)
LEMMA BookFillKeeps ==
  ASSUME NEW b, BookOK(b), NEW o \in OrderIds, Known(b, o),
         NEW ev \in [kind: {"FillReceived"}, exec: ExecIds, qty: Int],
         ev.qty > 0, ~HasExec(b, ev.exec)
  PROVE  LET c == BookFill(b, o, ev)
         IN  /\ BookOK(c)
             /\ c.orders = b.orders /\ c.halted = b.halted /\ c.now = b.now
<1> DEFINE r == [exec |-> ev.exec, order |-> o, qty |-> ev.qty, side |-> b.orders[o].side]
           c == BookFill(b, o, ev)
<1>1. b \in Books /\ b.orders[o] \in OrderRecord
  BY KnownIs DEF BookOK
<1>2. r \in FillRecord /\ r \notin b.fills
  BY <1>1 DEF FillRecord, OrderRecord, HasExec
<1>3. /\ c.orders = b.orders /\ c.halted = b.halted /\ c.now = b.now
      /\ c.fills = b.fills \cup {r} /\ c.pos = b.pos + b.orders[o].side * ev.qty
  BY <1>1 DEF BookFill, Books
<1>4. b.fills \subseteq FillRecord /\ IsFiniteSet(b.fills) /\ b.pos = Net(b.fills)
  BY <1>1 DEF BookOK, Books, PositionsEqualFills, Net
<1>5. Net(b.fills) \in Int /\ Net(b.fills \cup {r}) = Net(b.fills) + r.side * r.qty
  <2> HIDE DEF r
  <2> QED
    BY <1>2, <1>4, NetAdd
<1>6. PositionsEqualFills(c)
  <2>1. c.pos = Net(c.fills)
    BY <1>3, <1>4, <1>5
  <2> QED
    BY <2>1 DEF PositionsEqualFills, Net
<1>7. IsFiniteSet(c.fills)
  <2>1. IsFiniteSet(b.fills \cup {r})
    <3> HIDE DEF r
    <3> QED
      BY <1>4, FS_AddElement
  <2> QED
    BY <1>3, <2>1
<1>8. c \in Books
  <2>1. c.pos \in Int /\ c.fills \subseteq FillRecord
    <3>1. b.orders[o].side * ev.qty \in Int
      BY <1>1 DEF OrderRecord, Sides
    <3> QED
      BY <1>1, <1>2, <1>3, <1>4, <3>1 DEF Books
  <2>2. c = [b EXCEPT !.fills = c.fills, !.pos = c.pos]
    BY <1>1 DEF BookFill, Books
  <2> HIDE DEF c
  <2> QED
    BY <1>1, <2>1, <2>2 DEF Books
<1>9. NoOverfill(c)
  BY <1>3 DEF BookOK, NoOverfill, KnownOrders, Known
<1> QED
  BY <1>3, <1>6, <1>7, <1>8, <1>9 DEF BookOK

(* Book::apply on an order event: whatever becomes of it, the book stays    *)
(* sound, and only the order the event is about can change.                 *)
LEMMA ApplyKeeps ==
  ASSUME NEW b, BookOK(b), NEW o \in OrderIds, NEW ev \in OrderEvents
  PROVE  LET r == ApplyOrderEvent(b, o, ev)
         IN  /\ r.tag \in {"changed", "duplicate", "needs", "refused", "fatal"}
             /\ Applied(b, o, ev, r.book)
             /\ ~Known(b, o) => r.tag = "fatal"
<1> DEFINE r == ApplyOrderEvent(b, o, ev)
           t == Transition(b.orders[o], ev)
<1>1. CASE ~Known(b, o)
  BY <1>1, AppliedSame DEF ApplyOrderEvent
<1>2. CASE Known(b, o) /\ ev.kind = "FillReceived" /\ HasExec(b, ev.exec)
  BY <1>2, AppliedSame DEF ApplyOrderEvent
<1>3. CASE Known(b, o) /\ ~(ev.kind = "FillReceived" /\ HasExec(b, ev.exec)) /\ t.tag # "ok"
  BY <1>3, AppliedSame DEF ApplyOrderEvent
<1>4. CASE Known(b, o) /\ ~(ev.kind = "FillReceived" /\ HasExec(b, ev.exec)) /\ t.tag = "ok"
  <2> DEFINE moved == IF ev.kind = "FillReceived" THEN BookFill(b, o, ev) ELSE b
             seen  == IF IsVenueEvidence(ev.kind) THEN b.now ELSE b.orders[o].evidence
             m     == [t.core EXCEPT !.evidence = seen]
  <2>1. r = [tag |-> "changed", book |-> [moved EXCEPT !.orders[o] = m]]
    BY <1>4 DEF ApplyOrderEvent
  <2>2. b \in Books /\ b.orders[o] \in OrderRecord /\ b.orders[o].filled <= b.orders[o].qty
    BY <1>4, KnownIs DEF BookOK, NoOverfill, KnownOrders
  <2>3. Moved(b.orders[o], ev, t.core)
    BY <1>4, <2>2, TransitionMoves DEF Outcome
  <2>4. Moved(b.orders[o], ev, m)
    <3>1. seen \in Nat
      BY <2>2 DEF Books, OrderRecord
    <3> HIDE DEF t, seen
    <3> QED
      BY <2>3, <3>1 DEF Moved, OrderRecord
  <2>5. BookOK(moved) /\ moved.orders = b.orders /\ moved.halted = b.halted /\ moved.now = b.now
    <3>1. CASE ev.kind # "FillReceived"
      BY <3>1
    <3>2. CASE ev.kind = "FillReceived"
      <4>1. ev \in [kind: {"FillReceived"}, exec: ExecIds, qty: Int]
        BY <3>2 DEF OrderEvents, Signals
      <4>2. ev.qty > 0
        BY <1>4, <2>2, <4>1, FillMoves
      <4> QED
        BY <1>4, <3>2, <4>1, <4>2, BookFillKeeps
    <3> QED
      BY <3>1, <3>2
  <2> HIDE DEF moved, m
  <2>6. Known(moved, o) /\ Moved(moved.orders[o], ev, m)
    BY <1>4, <2>4, <2>5 DEF Known
  <2>7. Applied(moved, o, ev, [moved EXCEPT !.orders[o] = m])
    BY <2>5, <2>6, ReplaceOrder
  <2>8. Applied(b, o, ev, [moved EXCEPT !.orders[o] = m])
    BY <2>5, <2>7 DEF Applied, After, Known, Begun, Reconciling
  <2> QED
    BY <1>4, <2>1, <2>8
<1> QED
  BY <1>1, <1>2, <1>3, <1>4
-----------------------------------------------------------------------------
(* The engine.                                                              *)

(* How many entries of a channel are in M.                                  *)
HitsAt(s, M) == {i \in DOMAIN s : s[i] \in M}
Hits(s, M)   == Cardinality(HitsAt(s, M))
One(x, M)    == IF x \in M THEN 1 ELSE 0

LEMMA HitsIs ==
  ASSUME NEW T, NEW s \in Seq(T), NEW M
  PROVE  /\ IsFiniteSet(HitsAt(s, M))
         /\ Hits(s, M) \in Nat
         /\ Hits(s, M) > 0 <=> \E i \in DOMAIN s : s[i] \in M
<1>1. IsFiniteSet(1 .. Len(s)) /\ DOMAIN s = 1 .. Len(s)
  BY FS_Interval, LenProperties
<1>2. IsFiniteSet(HitsAt(s, M))
  BY <1>1, FS_Subset DEF HitsAt
<1>3. Hits(s, M) \in Nat
  BY <1>2, FS_CardinalityType DEF Hits
<1>4. Hits(s, M) = 0 <=> HitsAt(s, M) = {}
  BY <1>2, FS_EmptySet DEF Hits
<1> QED
  BY <1>2, <1>3, <1>4 DEF HitsAt

LEMMA HitsEmpty ==
  ASSUME NEW M PROVE Hits(<<>>, M) = 0
<1>1. HitsAt(<<>>, M) = {}
  BY DEF HitsAt
<1> QED
  BY <1>1, FS_EmptySet DEF Hits

LEMMA HitsConcat ==
  ASSUME NEW T, NEW s \in Seq(T), NEW t \in Seq(T), NEW M
  PROVE  Hits(s \o t, M) = Hits(s, M) + Hits(t, M)
<1> DEFINE n == Len(s)
           A == HitsAt(s, M)
           B == HitsAt(t, M)
           C == {i \in (n + 1) .. (n + Len(t)) : t[i - n] \in M}
<1>1. /\ n \in Nat /\ Len(t) \in Nat /\ DOMAIN s = 1 .. n /\ DOMAIN t = 1 .. Len(t)
      /\ DOMAIN (s \o t) = 1 .. (n + Len(t))
      /\ \A i \in 1 .. (n + Len(t)) : (s \o t)[i] = IF i <= n THEN s[i] ELSE t[i - n]
  BY LenProperties, ConcatProperties
<1>2. HitsAt(s \o t, M) = A \cup C
  BY <1>1 DEF HitsAt
<1>3. A \cap C = {}
  BY <1>1 DEF HitsAt
<1>4. IsFiniteSet(A) /\ IsFiniteSet(B) /\ Cardinality(A) \in Nat /\ Cardinality(B) \in Nat
  BY HitsIs DEF Hits
<1>5. IsFiniteSet(C) /\ Cardinality(C) = Cardinality(B)
  <2> DEFINE f == [i \in B |-> i + n]
  <2>1. f \in [B -> C] /\ \A a, b \in B : f[a] = f[b] => a = b
    BY <1>1 DEF HitsAt
  <2>2. ASSUME NEW c \in C PROVE \E b \in B : f[b] = c
    <3>1. c - n \in B /\ (c - n) + n = c
      BY <1>1 DEF HitsAt
    <3> QED
      BY <3>1
  <2> HIDE DEF f, B, C
  <2>3. f \in Bijection(B, C)
    BY <2>1, <2>2, Fun_IsBij
  <2> QED
    BY <1>4, <2>3, FS_Bijection DEF ExistsBijection
<1> HIDE DEF A, B, C, n
<1>6. Cardinality(A \cup C) = Cardinality(A) + Cardinality(C) - Cardinality(A \cap C)
  BY <1>4, <1>5, FS_Union
<1>7. Cardinality(A \cup C) = Cardinality(A) + Cardinality(B)
  <2>1. Cardinality(A \cap C) = 0
    BY <1>3, FS_EmptySet
  <2> QED
    BY <1>4, <1>5, <1>6, <2>1
<1> QED
  BY <1>2, <1>7 DEF Hits, A, B

LEMMA HitsSingle ==
  ASSUME NEW x, NEW M PROVE Hits(<<x>>, M) = One(x, M)
<1>1. CASE x \in M
  <2>1. HitsAt(<<x>>, M) = {1}
    BY <1>1 DEF HitsAt
  <2> QED
    BY <1>1, <2>1, FS_Singleton DEF Hits, One
<1>2. CASE x \notin M
  <2>1. HitsAt(<<x>>, M) = {}
    BY <1>2 DEF HitsAt
  <2> QED
    BY <1>2, <2>1, FS_EmptySet DEF Hits, One
<1> QED
  BY <1>1, <1>2

LEMMA HitsAppend ==
  ASSUME NEW T, NEW s \in Seq(T), NEW x \in T, NEW M
  PROVE  Hits(Append(s, x), M) = Hits(s, M) + One(x, M)
<1>1. Append(s, x) = s \o <<x>>
  BY AppendIsConcat
<1>2. PICK t \in Seq(T) : t = <<x>>
  <2>1. <<x>> \in Seq(T)
    OBVIOUS
  <2> QED
    BY <2>1, Zenon
<1>3. Hits(s \o t, M) = Hits(s, M) + Hits(t, M)
  BY HitsConcat
<1> QED
  BY <1>1, <1>2, <1>3, HitsSingle

LEMMA HitsTail ==
  ASSUME NEW T, NEW s \in Seq(T), s # <<>>, NEW M
  PROVE  Hits(s, M) = One(Head(s), M) + Hits(Tail(s), M)
<1>1. /\ Head(s) \in T /\ Tail(s) \in Seq(T) /\ Len(Tail(s)) = Len(s) - 1 /\ Len(s) \in Nat
      /\ \A i \in 1 .. Len(Tail(s)) : Tail(s)[i] = s[i + 1]
  BY HeadTailProperties, LenProperties
<1>2. PICK h \in Seq(T) : h = <<Head(s)>> /\ Len(h) = 1 /\ h[1] = s[1]
  <2>1. PICK x \in T : x = Head(s) /\ x = s[1]
    BY <1>1
  <2>2. <<x>> \in Seq(T) /\ Len(<<x>>) = 1 /\ <<x>>[1] = x
    OBVIOUS
  <2> QED
    BY <2>1, <2>2, Zenon
<1>3. PICK r \in Seq(T) : r = Tail(s)
  BY <1>1
<1>4. /\ h \o r \in Seq(T) /\ Len(h \o r) = Len(s)
      /\ \A i \in 1 .. Len(s) : (h \o r)[i] = s[i]
  BY <1>1, <1>2, <1>3, ConcatProperties
<1>5. h \o r = s
  BY <1>4, SeqEqual
<1>6. Hits(h \o r, M) = Hits(h, M) + Hits(r, M)
  BY HitsConcat
<1> QED
  BY <1>2, <1>3, <1>5, <1>6, HitsSingle

(* A set as a sequence, one entry each.                                     *)
LEMMA SetToSeqIs ==
  ASSUME NEW S, IsFiniteSet(S)
  PROVE  /\ SetToSeq(S) \in Seq(S)
         /\ \A i, j \in DOMAIN SetToSeq(S) : SetToSeq(S)[i] = SetToSeq(S)[j] => i = j
         /\ \A x \in S : \E i \in DOMAIN SetToSeq(S) : SetToSeq(S)[i] = x
<1> DEFINE D == 1 .. Cardinality(S)
<1>1. Cardinality(S) \in Nat /\ ExistsBijection(D, S)
  BY FS_CardinalityType
<1>2. PICK f : f \in Bijection(D, S)
  BY <1>1 DEF ExistsBijection
<1>3. f \in [D -> S] /\ IsInjective(f)
  BY <1>2 DEF Bijection, Injection
<1>4. PICK g : g = SetToSeq(S)
  OBVIOUS
<1>5. g \in [D -> S] /\ IsInjective(g)
  BY <1>3, <1>4 DEF SetToSeq
<1>6. IsFiniteSet(D) /\ Cardinality(D) = Cardinality(S)
  BY <1>1, FS_Interval
<1>7. g \in Injection(D, S)
  BY <1>5 DEF Injection
<1>8. g \in Surjection(D, S)
  BY <1>6, <1>7, FS_Injection
<1>9. \A x \in S : \E i \in D : g[i] = x
  BY <1>8 DEF Surjection
<1>10. g \in Seq(S) /\ DOMAIN g = D
  BY <1>1, <1>5
<1> QED
  BY <1>4, <1>5, <1>9, <1>10 DEF IsInjective
-----------------------------------------------------------------------------
(* The requests the engine makes: only an order of a caller is submitted or *)
(* cancelled, since the adopted one never existed at the venue under its id. *)
WorkerRequests ==
  [kind: {"Submit"}, order: Orders, qty: Nat \ {0}]
    \cup [kind: {"Cancel"}, order: Orders]
    \cup [kind: {"Lookup"}, order: OrderIds] \cup {PositionsRequest}

Opens(p) == {r \in WorkerRequests : r.kind = "Submit" /\ r.order = p}
Asks(p)  == {LookupRequest(p)}

(* The engine between two commands: the book in memory, the durable one and *)
(* every one an interrupted flush may leave are sound, each records what    *)
(* the ones before it record, and the halt flag is the one the log rebuilds. *)
EngineOK(e) ==
  /\ e \in Engines
  /\ e.reqs \in Seq(WorkerRequests)
  /\ BookOK(e.book) /\ BookOK(e.synced.book)
  /\ After(e.synced.book, e.book)
  /\ \A log \in e.tail :
       BookOK(log.book) /\ After(e.synced.book, log.book) /\ After(log.book, e.book)
  /\ e.halted = e.book.halted

(* From the book b to the book c, with the orders in X resolved: nothing    *)
(* becomes known, nothing is forgotten, and what is reconciling stays so.   *)
Later(b, c, X) ==
  /\ BookOK(c)
  /\ After(b, c)
  /\ \A p \in Orders : Known(c, p) => Known(b, p)
  /\ \A p \in Orders \ X : Reconciling(b, p) => Reconciling(c, p)

(* Each order is asked about at most once more, and only when no question   *)
(* about it was under way; none about X, whose question was just answered.  *)
AskedOnce(e, f, X) ==
  \A p \in OrderIds :
    \/ /\ Hits(f.reqs, Asks(p)) = Hits(e.reqs, Asks(p))
       /\ p \notin X /\ e.recon[p].inFlight => f.recon[p].inFlight
    \/ /\ Hits(f.reqs, Asks(p)) = Hits(e.reqs, Asks(p)) + 1
       /\ p \notin X /\ ~e.recon[p].inFlight /\ f.recon[p].inFlight

(* From a halted engine, one that is halted and writes only logs that       *)
(* rebuild halted.                                                          *)
Firm(e, f) ==
  e.halted => f.halted /\ \A log \in f.tail : log \in e.tail \/ log.book.halted

(* What a handler that opens nothing does to the engine; and one that is    *)
(* not the operator's resume.                                               *)
Passed(e, f, X) ==
  /\ EngineOK(f)
  /\ f.synced = e.synced
  /\ Later(e.book, f.book, X)
  /\ AskedOnce(e, f, X)
  /\ \A p \in Orders : Hits(f.reqs, Opens(p)) = Hits(e.reqs, Opens(p))

Kept(e, f, X) == Passed(e, f, X) /\ Firm(e, f)

LEMMA LaterRefl == ASSUME NEW b, BookOK(b), NEW X PROVE Later(b, b, X)
  BY AfterIsOrder DEF Later

LEMMA KeptRefl == ASSUME NEW e, EngineOK(e), NEW X PROVE Kept(e, e, X)
<1>1. Later(e.book, e.book, X)
  BY LaterRefl DEF EngineOK
<1> QED
  BY <1>1 DEF Kept, Passed, Firm, AskedOnce

LEMMA KeptTrans ==
  ASSUME NEW e, NEW f, NEW g, NEW X, Kept(e, f, X), Kept(f, g, X)
  PROVE  Kept(e, g, X)
<1>1. Later(e.book, g.book, X)
  BY AfterIsOrder DEF Kept, Passed, Later
<1>2. AskedOnce(e, g, X)
  BY DEF Kept, Passed, AskedOnce
<1>3. Firm(e, g)
  BY DEF Kept, Firm
<1> QED
  BY <1>1, <1>2, <1>3 DEF Kept, Passed

(* An engine that differs only in what no invariant reads, and in which     *)
(* questions are marked.                                                    *)
LEMMA KeptSame ==
  ASSUME NEW e, EngineOK(e), NEW X, NEW f \in Engines,
         f.book = e.book, f.synced = e.synced, f.tail = e.tail,
         f.halted = e.halted, f.reqs = e.reqs,
         \A p \in OrderIds : p \notin X /\ e.recon[p].inFlight => f.recon[p].inFlight
  PROVE  Kept(e, f, X)
<1>1. EngineOK(f)
  BY DEF EngineOK
<1>2. Later(e.book, f.book, X)
  BY LaterRefl DEF EngineOK
<1>3. AskedOnce(e, f, X)
  BY DEF AskedOnce
<1> QED
  BY <1>1, <1>2, <1>3 DEF Kept, Passed, Firm
-----------------------------------------------------------------------------
Tags == {"changed", "duplicate", "needs", "refused", "fatal"}

(* write_at.                                                                *)
LEMMA WriteIs ==
  ASSUME NEW e \in Engines, Ok(e), NEW tag \in Tags, NEW h \in BOOLEAN, NEW c \in Books
  PROVE  LET f == WriteAt([e EXCEPT !.halted = h], tag, c)
         IN  /\ f \in Engines
             /\ f.book = c /\ f.synced = e.synced /\ f.halted = h
             /\ f.recon = e.recon /\ f.reqs = e.reqs
             /\ \A log \in f.tail : log \in e.tail \/ log.book = c
             /\ tag \notin {"refused", "fatal"} => Ok(f)
<1> DEFINE d == [e EXCEPT !.halted = h]
           folds == e.folds /\ ~(tag \in {"refused", "fatal"})
           er == IF tag \in {"refused", "fatal"} THEN tag ELSE "none"
           f == WriteAt(d, tag, c)
<1>1. folds \in BOOLEAN /\ er \in {"none", "refused", "fatal"}
  BY DEF Tags
<1>2. f = [e EXCEPT !.halted = h, !.book = c, !.folds = folds,
                    !.tail = @ \cup {[book |-> c, folds |-> folds]}, !.err = er]
  BY DEF WriteAt, Ok, Engines
<1>3. [book |-> c, folds |-> folds] \in Images
  BY <1>1 DEF Images
<1> HIDE DEF folds, er, f, d
<1>4. f \in Engines
  <2>1. PICK T \in SUBSET Images : T = e.tail \cup {[book |-> c, folds |-> folds]}
    BY <1>3 DEF Engines
  <2>2. f = [e EXCEPT !.halted = h, !.book = c, !.folds = folds, !.tail = T, !.err = er]
    BY <1>2, <2>1
  <2> QED
    BY <1>1, <2>2 DEF Engines
<1>5. /\ f.book = c /\ f.synced = e.synced /\ f.halted = h
      /\ f.recon = e.recon /\ f.reqs = e.reqs /\ f.err = er
      /\ f.tail = e.tail \cup {[book |-> c, folds |-> folds]}
  BY <1>2 DEF Engines
<1>6. tag \notin {"refused", "fatal"} => er = "none"
  BY DEF er
<1> QED
  BY <1>4, <1>5, <1>6 DEF Ok, f, d

LEMMA WriteKeeps ==
  ASSUME NEW e, EngineOK(e), Ok(e), NEW X, NEW tag \in Tags,
         NEW h \in BOOLEAN, NEW c, Later(e.book, c, X), c.halted = h
  PROVE  LET f == WriteAt([e EXCEPT !.halted = h], tag, c)
         IN  Passed(e, f, X) /\ ((e.halted => h) => Kept(e, f, X))
<1>1. PICK f : f = WriteAt([e EXCEPT !.halted = h], tag, c)
  OBVIOUS
<1>2. e \in Engines /\ c \in Books /\ BookOK(c) /\ After(e.book, c)
  BY DEF EngineOK, Later, BookOK
<1>3. /\ f \in Engines
      /\ f.book = c /\ f.synced = e.synced /\ f.halted = h
      /\ f.recon = e.recon /\ f.reqs = e.reqs
      /\ \A log \in f.tail : log \in e.tail \/ log.book = c
  BY <1>1, <1>2, WriteIs
<1>4. EngineOK(f)
  <2>1. After(f.synced.book, f.book) /\ BookOK(f.book) /\ BookOK(f.synced.book)
    BY <1>2, <1>3, AfterIsOrder DEF EngineOK
  <2>2. ASSUME NEW log \in f.tail
        PROVE  BookOK(log.book) /\ After(f.synced.book, log.book) /\ After(log.book, f.book)
    <3>1. CASE log.book = c
      BY <1>3, <2>1, <3>1, AfterIsOrder
    <3>2. CASE log \in e.tail
      BY <1>2, <1>3, <3>2, AfterIsOrder DEF EngineOK
    <3> QED
      BY <1>3, <3>1, <3>2
  <2> QED
    BY <1>3, <2>1, <2>2 DEF EngineOK
<1>5. AskedOnce(e, f, X)
  BY <1>3 DEF AskedOnce
<1>6. Passed(e, f, X)
  BY <1>3, <1>4, <1>5 DEF Passed
<1>7. (e.halted => h) => Firm(e, f)
  BY <1>3 DEF Firm
<1> QED
  BY <1>1, <1>6, <1>7 DEF Kept

LEMMA SameHalt == ASSUME NEW e \in Engines PROVE e = [e EXCEPT !.halted = e.halted]
  BY DEF Engines

(* write, of a record that moves the book on.                               *)
LEMMA WriteBookKeeps ==
  ASSUME NEW e, EngineOK(e), Ok(e), NEW X,
         NEW c, Later(e.book, c, X), c.halted = e.book.halted
  PROVE  /\ Kept(e, Write(e, c), X)
         /\ Write(e, c).book = c /\ Write(e, c).recon = e.recon
         /\ Write(e, c).reqs = e.reqs /\ Ok(Write(e, c))
<1>1. e \in Engines /\ e.halted \in BOOLEAN /\ e.halted = c.halted /\ c \in Books
  BY DEF EngineOK, Engines, Later, BookOK
<1>2. Write(e, c) = WriteAt([e EXCEPT !.halted = e.halted], "changed", c)
  BY <1>1, SameHalt DEF Write
<1>3. "changed" \in Tags /\ "changed" \notin {"refused", "fatal"}
  BY DEF Tags
<1>4. Kept(e, Write(e, c), X)
  BY <1>1, <1>2, <1>3, WriteKeeps
<1>5. PICK f : f = WriteAt([e EXCEPT !.halted = e.halted], "changed", c)
  OBVIOUS
<1>6. f.book = c /\ f.recon = e.recon /\ f.reqs = e.reqs /\ Ok(f)
  BY <1>1, <1>3, <1>5, WriteIs
<1> QED
  BY <1>2, <1>4, <1>5, <1>6

LEMMA WriteEventKeeps ==
  ASSUME NEW e, EngineOK(e), NEW o \in OrderIds, NEW ev \in OrderEvents, NEW X,
         ev.kind = "ReconcileResolved" => o \in X \/ o \notin Orders
  PROVE  /\ Kept(e, WriteEvent(e, o, ev), X)
         /\ WriteEvent(e, o, ev).recon = e.recon
         /\ WriteEvent(e, o, ev).reqs = e.reqs
<1>1. CASE ~Ok(e)
  <2>1. WriteEvent(e, o, ev) = e
    BY <1>1 DEF WriteEvent, WriteAt
  <2> QED
    BY <2>1, KeptRefl
<1>2. CASE Ok(e)
  <2>1. PICK r : r = ApplyOrderEvent(e.book, o, ev)
    OBVIOUS
  <2>2. BookOK(e.book) /\ e \in Engines /\ e.halted \in BOOLEAN /\ e.halted = e.book.halted
    BY DEF EngineOK, Engines
  <2>3. r.tag \in Tags /\ Applied(e.book, o, ev, r.book)
    BY <2>1, <2>2, ApplyKeeps DEF Tags
  <2>4. Later(e.book, r.book, X) /\ r.book.halted = e.halted /\ r.book \in Books
    BY <2>2, <2>3 DEF Later, Applied, Reconciling, OrderIds, BookOK
  <2>5. WriteEvent(e, o, ev) = WriteAt([e EXCEPT !.halted = e.halted], r.tag, r.book)
    BY <2>1, <2>2, SameHalt DEF WriteEvent
  <2>6. PICK f : f = WriteAt([e EXCEPT !.halted = e.halted], r.tag, r.book)
    OBVIOUS
  <2>7. Kept(e, f, X)
    BY <1>2, <2>2, <2>3, <2>4, <2>6, WriteKeeps
  <2>8. f.recon = e.recon /\ f.reqs = e.reqs
    BY <1>2, <2>2, <2>3, <2>4, <2>6, WriteIs
  <2> QED
    BY <2>5, <2>6, <2>7, <2>8
<1> QED
  BY <1>1, <1>2
-----------------------------------------------------------------------------
(* Requests.                                                                *)
LEMMA OrderIdsFinite == IsFiniteSet(OrderIds)
  BY OrdersAssumption, FS_AddElement DEF OrderIds

LEMMA RequestIs ==
  ASSUME NEW e, EngineOK(e), NEW r \in WorkerRequests, Ok(e)
  PROVE  LET f == Request(e, r)
         IN  /\ EngineOK(f)
             /\ f.book = e.book /\ f.synced = e.synced /\ f.recon = e.recon
             /\ f.tail = e.tail /\ f.halted = e.halted /\ Ok(f)
             /\ \A M : Hits(f.reqs, M) = Hits(e.reqs, M) + One(r, M)
<1>1. PICK f : f = Request(e, r)
  OBVIOUS
<1>2. PICK s : s = Append(e.reqs, r)
  OBVIOUS
<1>3. f = [e EXCEPT !.reqs = s]
  BY <1>1, <1>2 DEF Request
<1>4. s \in Seq(WorkerRequests) /\ \A M : Hits(s, M) = Hits(e.reqs, M) + One(r, M)
  BY <1>2, HitsAppend, AppendProperties DEF EngineOK
<1>5. s \in Seq(VenueRequests)
  <2>1. WorkerRequests \subseteq VenueRequests
    BY DEF WorkerRequests, VenueRequests, OrderIds
  <2> QED
    BY <1>4, <2>1, SeqMonotonic
<1>6. e \in Engines
  BY DEF EngineOK
<1>7. /\ f \in Engines /\ f.reqs = s /\ f.book = e.book /\ f.synced = e.synced
      /\ f.recon = e.recon /\ f.tail = e.tail /\ f.halted = e.halted /\ f.err = e.err
  BY <1>3, <1>5, <1>6 DEF Engines
<1>8. EngineOK(f)
  BY <1>4, <1>7 DEF EngineOK
<1> QED
  BY <1>1, <1>4, <1>7, <1>8 DEF Ok

LEMMA RequestKinds ==
  /\ \A o \in OrderIds : /\ LookupRequest(o) \in WorkerRequests
                         /\ \A p : One(LookupRequest(o), Asks(p)) = IF p = o THEN 1 ELSE 0
                         /\ \A p : One(LookupRequest(o), Opens(p)) = 0
  /\ \A o \in Orders : /\ CancelRequest(o) \in WorkerRequests
                       /\ \A p : One(CancelRequest(o), Asks(p)) = 0
                       /\ \A p : One(CancelRequest(o), Opens(p)) = 0
  /\ PositionsRequest \in WorkerRequests
  /\ \A p : One(PositionsRequest, Asks(p)) = 0
  /\ \A p : One(PositionsRequest, Opens(p)) = 0
  /\ \A o \in Orders : \A q \in Nat \ {0} :
       /\ SubmitRequest(o, q) \in WorkerRequests
       /\ \A p : One(SubmitRequest(o, q), Asks(p)) = 0
       /\ \A p : One(SubmitRequest(o, q), Opens(p)) = IF p = o THEN 1 ELSE 0
<1>1. ASSUME NEW o \in OrderIds
      PROVE  /\ LookupRequest(o) \in WorkerRequests
             /\ \A p : One(LookupRequest(o), Asks(p)) = IF p = o THEN 1 ELSE 0
             /\ \A p : One(LookupRequest(o), Opens(p)) = 0
  <2>1. /\ LookupRequest(o) \in WorkerRequests
        /\ LookupRequest(o).order = o /\ LookupRequest(o).kind = "Lookup"
    BY DEF LookupRequest, WorkerRequests
  <2>2. \A p : LookupRequest(o) \in Asks(p) <=> p = o
    BY DEF LookupRequest, Asks
  <2>3. \A p : LookupRequest(o) \notin Opens(p)
    BY <2>1 DEF Opens
  <2> QED
    BY <2>1, <2>2, <2>3 DEF One
<1>2. ASSUME NEW o \in Orders
      PROVE  /\ CancelRequest(o) \in WorkerRequests
             /\ \A p : One(CancelRequest(o), Asks(p)) = 0
             /\ \A p : One(CancelRequest(o), Opens(p)) = 0
  <2>1. CancelRequest(o) \in WorkerRequests /\ CancelRequest(o).kind = "Cancel"
    BY DEF CancelRequest, WorkerRequests
  <2>2. \A p : CancelRequest(o) \notin Asks(p)
    BY <2>1 DEF LookupRequest, Asks
  <2>3. \A p : CancelRequest(o) \notin Opens(p)
    BY <2>1 DEF Opens
  <2> QED
    BY <2>1, <2>2, <2>3 DEF One
<1>3. /\ PositionsRequest \in WorkerRequests
      /\ \A p : One(PositionsRequest, Asks(p)) = 0
      /\ \A p : One(PositionsRequest, Opens(p)) = 0
  <2>1. PositionsRequest \in WorkerRequests /\ PositionsRequest.kind = "Positions"
    BY DEF PositionsRequest, WorkerRequests
  <2>2. \A p : PositionsRequest \notin Asks(p)
    BY <2>1 DEF LookupRequest, Asks
  <2>3. \A p : PositionsRequest \notin Opens(p)
    BY <2>1 DEF Opens
  <2> QED
    BY <2>1, <2>2, <2>3 DEF One
<1>4. ASSUME NEW o \in Orders, NEW q \in Nat \ {0}
      PROVE  /\ SubmitRequest(o, q) \in WorkerRequests
             /\ \A p : One(SubmitRequest(o, q), Asks(p)) = 0
             /\ \A p : One(SubmitRequest(o, q), Opens(p)) = IF p = o THEN 1 ELSE 0
  <2>1. /\ SubmitRequest(o, q) \in WorkerRequests
        /\ SubmitRequest(o, q).kind = "Submit" /\ SubmitRequest(o, q).order = o
    BY DEF SubmitRequest, WorkerRequests
  <2>2. \A p : SubmitRequest(o, q) \notin Asks(p)
    BY <2>1 DEF LookupRequest, Asks
  <2>3. \A p : SubmitRequest(o, q) \in Opens(p) <=> p = o
    BY <2>1 DEF Opens
  <2> QED
    BY <2>1, <2>2, <2>3 DEF One
<1> QED
  BY <1>1, <1>2, <1>3, <1>4

(* A request that asks about no order and opens none.                       *)
LEMMA QuietRequestKeeps ==
  ASSUME NEW e, EngineOK(e), NEW X, NEW r \in WorkerRequests,
         \A p : One(r, Asks(p)) = 0 /\ One(r, Opens(p)) = 0
  PROVE  Kept(e, Request(e, r), X)
<1>1. CASE ~Ok(e)
  BY <1>1, KeptRefl DEF Request
<1>2. CASE Ok(e)
  <2>1. PICK f : f = Request(e, r)
    OBVIOUS
  <2>2. /\ EngineOK(f)
        /\ f.book = e.book /\ f.synced = e.synced /\ f.recon = e.recon
        /\ f.tail = e.tail /\ f.halted = e.halted
        /\ \A M : Hits(f.reqs, M) = Hits(e.reqs, M) + One(r, M)
    BY <1>2, <2>1, RequestIs
  <2>3. \A M : Hits(e.reqs, M) \in Nat
    BY HitsIs DEF EngineOK
  <2>4. \A p : Hits(f.reqs, Asks(p)) = Hits(e.reqs, Asks(p))
    BY <2>2, <2>3
  <2>5. \A p : Hits(f.reqs, Opens(p)) = Hits(e.reqs, Opens(p))
    BY <2>2, <2>3
  <2>6. Later(e.book, f.book, X)
    BY <2>2, LaterRefl DEF EngineOK
  <2>7. AskedOnce(e, f, X)
    BY <2>2, <2>4 DEF AskedOnce
  <2>8. Firm(e, f)
    BY <2>2 DEF Firm
  <2> QED
    BY <2>1, <2>2, <2>5, <2>6, <2>7, <2>8 DEF Kept, Passed
<1> QED
  BY <1>1, <1>2

(* The questions about a set of orders: one each.                           *)
LEMMA LookupsAre ==
  ASSUME NEW S \in SUBSET OrderIds
  PROVE  /\ Lookups(S) \in Seq(WorkerRequests)
         /\ \A p : Hits(Lookups(S), Asks(p)) = IF p \in S THEN 1 ELSE 0
         /\ \A p : Hits(Lookups(S), Opens(p)) = 0
<1>1. PICK s : s = SetToSeq(S)
  OBVIOUS
<1>2. IsFiniteSet(S)
  BY OrderIdsFinite, FS_Subset
<1>3. /\ s \in Seq(S)
      /\ \A i, j \in DOMAIN s : s[i] = s[j] => i = j
      /\ \A x \in S : \E i \in DOMAIN s : s[i] = x
  BY <1>1, <1>2, SetToSeqIs
<1>4. PICK q : q = Lookups(S)
  OBVIOUS
<1>5. q = [i \in DOMAIN s |-> LookupRequest(s[i])]
  BY <1>1, <1>4 DEF Lookups
<1>6. DOMAIN s = 1 .. Len(s) /\ Len(s) \in Nat /\ \A i \in DOMAIN s : s[i] \in S
  BY <1>3, LenProperties
<1>7. DOMAIN q = DOMAIN s /\ \A i \in DOMAIN s : q[i] = LookupRequest(s[i]) /\ q[i] \in WorkerRequests
  BY <1>5, <1>6, RequestKinds
<1>8. q \in Seq(WorkerRequests)
  BY <1>5, <1>6, <1>7
<1>9. \A p : \A i \in DOMAIN q : q[i] \in Asks(p) <=> s[i] = p
  BY <1>7 DEF Asks, LookupRequest
<1>10. \A p : HitsAt(q, Asks(p)) = {i \in DOMAIN s : s[i] = p}
  BY <1>7, <1>9 DEF HitsAt
<1>11. ASSUME NEW p, p \in S PROVE Hits(q, Asks(p)) = 1
  <2>1. PICK i \in DOMAIN s : s[i] = p
    BY <1>3, <1>11
  <2>2. HitsAt(q, Asks(p)) = {i}
    BY <1>3, <1>10, <2>1
  <2> QED
    BY <2>2, FS_Singleton DEF Hits
<1>12. ASSUME NEW p, p \notin S PROVE Hits(q, Asks(p)) = 0
  <2>1. HitsAt(q, Asks(p)) = {}
    BY <1>6, <1>10, <1>12
  <2> QED
    BY <2>1, FS_EmptySet DEF Hits
<1>13. ASSUME NEW p PROVE Hits(q, Opens(p)) = 0
  <2>1. HitsAt(q, Opens(p)) = {}
    BY <1>7 DEF HitsAt, Opens, LookupRequest
  <2> QED
    BY <2>1, FS_EmptySet DEF Hits
<1> QED
  BY <1>4, <1>8, <1>11, <1>12, <1>13

(* Asking about the orders in S, none of which is being asked about.        *)
LEMMA AskingKeeps ==
  ASSUME NEW e, EngineOK(e), NEW S \in SUBSET OrderIds, NEW f, EngineOK(f),
         f.synced = e.synced, Later(e.book, f.book, {}), Firm(e, f),
         NEW s \in Seq(WorkerRequests), f.reqs = s \o Lookups(S),
         \A p : Hits(s, Asks(p)) = Hits(e.reqs, Asks(p))
                  /\ Hits(s, Opens(p)) = Hits(e.reqs, Opens(p)),
         \A p \in OrderIds : IF p \in S THEN ~e.recon[p].inFlight /\ f.recon[p].inFlight
                             ELSE f.recon[p] = e.recon[p]
  PROVE  Kept(e, f, {})
<1>1. PICK q \in Seq(WorkerRequests) : q = Lookups(S)
  BY LookupsAre
<1>2. \A M : Hits(f.reqs, M) = Hits(s, M) + Hits(q, M) /\ Hits(s, M) \in Nat
  BY <1>1, HitsConcat, HitsIs
<1>3. \A p : Hits(q, Opens(p)) = 0 /\ Hits(q, Asks(p)) = IF p \in S THEN 1 ELSE 0
  BY <1>1, LookupsAre
<1>4. \A p : Hits(f.reqs, Opens(p)) = Hits(e.reqs, Opens(p))
  BY <1>2, <1>3
<1>5. \A p : Hits(f.reqs, Asks(p)) = IF p \in S THEN Hits(e.reqs, Asks(p)) + 1 ELSE Hits(e.reqs, Asks(p))
  BY <1>2, <1>3
<1>6. AskedOnce(e, f, {})
  BY <1>5 DEF AskedOnce
<1> QED
  BY <1>4, <1>6 DEF Kept, Passed
-----------------------------------------------------------------------------
(* Halting, and reconciling against the venue.                              *)
LEMMA HaltedBook ==
  ASSUME NEW b, BookOK(b), NEW h \in BOOLEAN, NEW X
  PROVE  Later(b, SetHalted(b, h), X) /\ SetHalted(b, h).halted = h
<1>1. PICK c : c = SetHalted(b, h)
  OBVIOUS
<1>2. b \in Books
  BY DEF BookOK
<1>3. c \in Books /\ c.orders = b.orders /\ c.fills = b.fills /\ c.pos = b.pos /\ c.halted = h
  BY <1>1, <1>2 DEF SetHalted, Books
<1>4. BookOK(c)
  BY <1>3 DEF BookOK, PositionsEqualFills, NoOverfill, KnownOrders, Known
<1>5. Later(b, c, X)
  BY <1>3, <1>4 DEF Later, After, Known, Begun, Reconciling
<1> QED
  BY <1>1, <1>3, <1>5

LEMMA HaltWriteKeeps ==
  ASSUME NEW e, EngineOK(e), Ok(e), NEW h \in BOOLEAN, NEW X
  PROVE  LET f == Write([e EXCEPT !.halted = h], SetHalted(e.book, h))
         IN  /\ Passed(e, f, X) /\ (h => Kept(e, f, X))
             /\ f.recon = e.recon /\ f.reqs = e.reqs
<1>1. PICK c : c = SetHalted(e.book, h)
  OBVIOUS
<1>2. BookOK(e.book) /\ e \in Engines
  BY DEF EngineOK
<1>3. Later(e.book, c, X) /\ c.halted = h
  BY <1>1, <1>2, HaltedBook
<1>4. c \in Books /\ "changed" \in Tags
  BY <1>3 DEF Later, BookOK, Tags
<1>5. PICK tag \in Tags : tag = "changed"
  BY <1>4
<1>6. PICK f : f = WriteAt([e EXCEPT !.halted = h], tag, c)
  OBVIOUS
<1>7. Passed(e, f, X) /\ (h => Kept(e, f, X))
  BY <1>3, <1>6, WriteKeeps
<1>8. f.recon = e.recon /\ f.reqs = e.reqs
  BY <1>2, <1>4, <1>6, WriteIs
<1> QED
  BY <1>1, <1>5, <1>6, <1>7, <1>8 DEF Write

LEMMA OnHaltKeeps ==
  ASSUME NEW e, EngineOK(e), NEW X
  PROVE  Kept(e, OnHalt(e), X) /\ OnHalt(e).recon = e.recon /\ OnHalt(e).reqs = e.reqs
<1>1. CASE ~Ok(e) \/ e.halted
  BY <1>1, KeptRefl DEF OnHalt
<1>2. CASE Ok(e) /\ ~e.halted
  <2>1. OnHalt(e) = Write([e EXCEPT !.halted = TRUE], SetHalted(e.book, TRUE))
    BY <1>2 DEF OnHalt
  <2> QED
    BY <1>2, <2>1, HaltWriteKeeps
<1> QED
  BY <1>1, <1>2

LEMMA OnResumeKeeps ==
  ASSUME NEW e, EngineOK(e), Ok(e)
  PROVE  Passed(e, OnResume(e), {})
<1>1. CASE ~e.halted
  BY <1>1, KeptRefl DEF OnResume, Kept
<1>2. CASE e.halted
  <2>1. OnResume(e) = Write([e EXCEPT !.halted = FALSE], SetHalted(e.book, FALSE))
    BY <1>2 DEF OnResume
  <2> QED
    BY <2>1, HaltWriteKeeps
<1> QED
  BY <1>1, <1>2

LEMMA StartedIsEvent == [kind |-> "ReconcileStarted"] \in OrderEvents
  BY DEF OrderEvents, Signals, EventKinds

LEMMA EnsureReconcilingKeeps ==
  ASSUME NEW e, EngineOK(e), NEW o \in OrderIds, NEW X
  PROVE  /\ Kept(e, EnsureReconciling(e, o), X)
         /\ EnsureReconciling(e, o).recon = e.recon
         /\ EnsureReconciling(e, o).reqs = e.reqs
<1>1. CASE StateOf(e, o) = "Reconciling"
  BY <1>1, KeptRefl DEF EnsureReconciling
<1>2. CASE StateOf(e, o) # "Reconciling"
  <2>1. PICK ev \in OrderEvents : ev = [kind |-> "ReconcileStarted"]
    BY StartedIsEvent
  <2>2. ev.kind # "ReconcileResolved"
    BY <2>1
  <2>3. EnsureReconciling(e, o) = WriteEvent(e, o, ev)
    BY <1>2, <2>1 DEF EnsureReconciling
  <2> QED
    BY <2>2, <2>3, WriteEventKeeps
<1> QED
  BY <1>1, <1>2

LEMMA QueueIs ==
  ASSUME NEW e \in Engines, NEW S \in SUBSET OrderIds
  PROVE  /\ Queue(e, S) \in [OrderIds -> Pendings \cup {NotQueued}]
         /\ \A p \in OrderIds : IF p \in S THEN Queue(e, S)[p].inFlight
                                ELSE Queue(e, S)[p] = e.recon[p]
<1>1. e.book.now \in Nat /\ e.recon \in [OrderIds -> Pendings \cup {NotQueued}]
  BY DEF Engines, Books
<1>2. [retryAt |-> e.book.now, backoff |-> Backoff, inFlight |-> TRUE] \in Pendings
  BY <1>1, ConfigAssumption DEF Pendings
<1> QED
  BY <1>1, <1>2 DEF Queue

(* The reconciling map is replaced and nothing else.                        *)
LEMMA ReconIs ==
  ASSUME NEW e, EngineOK(e), NEW q \in [OrderIds -> Pendings \cup {NotQueued}]
  PROVE  LET f == [e EXCEPT !.recon = q]
         IN  /\ EngineOK(f) /\ f.recon = q
             /\ f.book = e.book /\ f.synced = e.synced /\ f.reqs = e.reqs
             /\ f.err = e.err /\ f.tail = e.tail /\ f.halted = e.halted
<1>1. PICK f : f = [e EXCEPT !.recon = q]
  OBVIOUS
<1>2. e \in Engines
  BY DEF EngineOK
<1>3. /\ f \in Engines /\ f.recon = q /\ f.book = e.book /\ f.synced = e.synced
      /\ f.reqs = e.reqs /\ f.err = e.err /\ f.tail = e.tail /\ f.halted = e.halted
  BY <1>1, <1>2 DEF Engines
<1>4. EngineOK(f)
  BY <1>3 DEF EngineOK
<1> QED
  BY <1>1, <1>3, <1>4

LEMMA NotQueuedIs == NotQueued.inFlight = FALSE
  BY DEF NotQueued

(* A reconciliation is begun: its question is the only new one, and none    *)
(* was under way.                                                           *)
LEMMA BeginReconcileKeeps ==
  ASSUME NEW e, EngineOK(e), NEW o \in OrderIds
  PROVE  Kept(e, BeginReconcile(e, o), {})
<1>1. CASE ~Ok(e) \/ o \in Queued(e)
  BY <1>1, KeptRefl DEF BeginReconcile
<1>2. CASE Ok(e) /\ o \notin Queued(e)
  <2>1. PICK g : g = EnsureReconciling(e, o)
    OBVIOUS
  <2>2. Kept(e, g, {}) /\ g.recon = e.recon /\ g.reqs = e.reqs /\ EngineOK(g) /\ g \in Engines
    BY <2>1, EnsureReconcilingKeeps DEF Kept, Passed, EngineOK
  <2>3. CASE ~Ok(g)
    BY <1>2, <2>1, <2>2, <2>3 DEF BeginReconcile
  <2>4. CASE Ok(g)
    <3>1. PICK q \in [OrderIds -> Pendings \cup {NotQueued}] :
            /\ q = Queue(g, {o})
            /\ \A p \in OrderIds : IF p = o THEN q[p].inFlight ELSE q[p] = g.recon[p]
      BY <2>2, QueueIs
    <3>2. PICK d : d = [g EXCEPT !.recon = q]
      OBVIOUS
    <3>3. EngineOK(d) /\ d.recon = q /\ d.book = g.book /\ d.synced = g.synced
          /\ d.reqs = g.reqs /\ d.tail = g.tail /\ d.halted = g.halted /\ Ok(d)
      BY <2>2, <2>4, <3>2, ReconIs DEF Ok
    <3>4. PICK f : f = Request(d, LookupRequest(o))
      OBVIOUS
    <3>5. LookupRequest(o) \in WorkerRequests
      BY RequestKinds
    <3>6. /\ EngineOK(f) /\ f.book = d.book /\ f.synced = d.synced /\ f.recon = d.recon
          /\ f.tail = d.tail /\ f.halted = d.halted
          /\ \A M : Hits(f.reqs, M) = Hits(d.reqs, M) + One(LookupRequest(o), M)
      BY <3>3, <3>4, <3>5, RequestIs
    <3>7. ~g.recon[o].inFlight
      BY <1>2, <2>2, NotQueuedIs DEF Queued
    <3>8. \A M : Hits(g.reqs, M) \in Nat
      BY <2>2, HitsIs DEF EngineOK
    <3>9. \A p : /\ Hits(f.reqs, Opens(p)) = Hits(g.reqs, Opens(p))
                 /\ Hits(f.reqs, Asks(p)) = IF p = o THEN Hits(g.reqs, Asks(p)) + 1
                                            ELSE Hits(g.reqs, Asks(p))
      <4>1. PICK r : r = LookupRequest(o)
        OBVIOUS
      <4>2. \A p : One(r, Asks(p)) = IF p = o THEN 1 ELSE 0
        BY <4>1, RequestKinds
      <4>3. \A p : One(r, Opens(p)) = 0
        BY <4>1, RequestKinds
      <4>4. \A M : Hits(f.reqs, M) = Hits(g.reqs, M) + One(r, M)
        BY <3>3, <3>6, <4>1
      <4> QED
        BY <3>8, <4>2, <4>3, <4>4
    <3>10. AskedOnce(g, f, {})
      <4>1. ASSUME NEW p \in OrderIds, p # o
            PROVE  Hits(f.reqs, Asks(p)) = Hits(g.reqs, Asks(p)) /\ f.recon[p] = g.recon[p]
        BY <3>1, <3>3, <3>6, <3>9, <4>1
      <4>2. Hits(f.reqs, Asks(o)) = Hits(g.reqs, Asks(o)) + 1 /\ f.recon[o].inFlight
        BY <3>1, <3>3, <3>6, <3>9
      <4> QED
        BY <3>7, <4>1, <4>2 DEF AskedOnce
    <3>11. Later(g.book, f.book, {})
      BY <2>2, <3>3, <3>6, LaterRefl DEF EngineOK
    <3>12. Kept(g, f, {})
      BY <3>3, <3>6, <3>9, <3>10, <3>11 DEF Kept, Passed, Firm
    <3>13. BeginReconcile(e, o) = f
      BY <1>2, <2>1, <2>4, <3>1, <3>2, <3>4 DEF BeginReconcile
    <3> QED
      BY <2>2, <3>12, <3>13, KeptTrans
  <2> QED
    BY <2>3, <2>4
<1> QED
  BY <1>1, <1>2
LEMMA BookTheDifferenceKeeps ==
  ASSUME NEW e, EngineOK(e), NEW o \in OrderIds, NEW n \in Nat, NEW X
  PROVE  /\ Kept(e, BookTheDifference(e, o, n), X)
         /\ BookTheDifference(e, o, n).recon = e.recon
         /\ BookTheDifference(e, o, n).reqs = e.reqs
<1>1. PICK ours : ours = BookedQty(e.book, o)
  OBVIOUS
<1>2. ours \in Int
  BY <1>1, BookedIs DEF EngineOK, BookOK, Books
<1>3. CASE ~Ok(e) \/ ~Known(e.book, o) \/ n = ours
  BY <1>1, <1>3, KeptRefl DEF BookTheDifference
<1>4. CASE Ok(e) /\ Known(e.book, o) /\ n # ours /\ n < ours
  <2>1. BookTheDifference(e, o, n) = OnHalt(e)
    BY <1>1, <1>4 DEF BookTheDifference
  <2> QED
    BY <2>1, OnHaltKeeps
<1>5. CASE Ok(e) /\ Known(e.book, o) /\ n # ours /\ ~(n < ours)
  <2>1. PICK ev : ev = [kind |-> "FillReceived", exec |-> ReconciliationExecId(o, n),
                        qty |-> n - ours]
    OBVIOUS
  <2>2. ev \in OrderEvents /\ ev.kind # "ReconcileResolved"
    <3>1. ReconciliationExecId(o, n) \in ExecIds /\ n - ours \in Int
      BY <1>2 DEF ReconciliationExecId, ExecIds
    <3> QED
      BY <2>1, <3>1 DEF OrderEvents
  <2>3. BookTheDifference(e, o, n) = WriteEvent(e, o, ev)
    BY <1>1, <1>5, <2>1 DEF BookTheDifference
  <2> QED
    BY <2>2, <2>3, WriteEventKeeps
<1> QED
  BY <1>3, <1>4, <1>5

LEMMA ForgetKeeps ==
  ASSUME NEW e, EngineOK(e), NEW o \in OrderIds
  PROVE  Kept(e, Forget(e, o), {o})
<1>1. CASE ~Ok(e)
  BY <1>1, KeptRefl DEF Forget
<1>2. CASE Ok(e)
  <2>1. e.recon \in [OrderIds -> Pendings \cup {NotQueued}] /\ e \in Engines
    BY DEF EngineOK, Engines
  <2>2. PICK q : q = [e.recon EXCEPT ![o] = NotQueued]
    OBVIOUS
  <2>3. q \in [OrderIds -> Pendings \cup {NotQueued}] /\ \A p \in OrderIds : p # o => q[p] = e.recon[p]
    BY <2>1, <2>2
  <2>4. PICK f : f = [e EXCEPT !.recon = q]
    OBVIOUS
  <2>5. /\ EngineOK(f) /\ f.recon = q /\ f.book = e.book /\ f.synced = e.synced
        /\ f.reqs = e.reqs /\ f.tail = e.tail /\ f.halted = e.halted /\ f \in Engines
    BY <2>3, <2>4, ReconIs DEF EngineOK
  <2>6. Forget(e, o) = f
    BY <1>2, <2>2, <2>4 DEF Forget
  <2>7. \A p \in OrderIds : p \notin {o} /\ e.recon[p].inFlight => f.recon[p].inFlight
    BY <2>3, <2>5
  <2> QED
    BY <2>5, <2>6, <2>7, KeptSame
<1> QED
  BY <1>1, <1>2

LEMMA DeferReconcileKeeps ==
  ASSUME NEW e, EngineOK(e), NEW o \in OrderIds
  PROVE  Kept(e, DeferReconcile(e, o), {o})
<1>1. CASE o \notin Queued(e)
  BY <1>1, KeptRefl DEF DeferReconcile
<1>2. CASE o \in Queued(e)
  <2>1. e.recon \in [OrderIds -> Pendings \cup {NotQueued}] /\ e \in Engines /\ e.book.now \in Nat
    BY DEF EngineOK, Engines, Books
  <2>2. e.recon[o] \in Pendings
    BY <1>2, <2>1 DEF Queued
  <2>3. PICK d : d = [retryAt |-> e.book.now + e.recon[o].backoff,
                      backoff |-> MinNat(2 * e.recon[o].backoff, BackoffCap),
                      inFlight |-> FALSE]
    OBVIOUS
  <2>4. d \in Pendings
    BY <2>1, <2>2, <2>3, ConfigAssumption DEF Pendings, MinNat
  <2>5. PICK q : q = [e.recon EXCEPT ![o] = d]
    OBVIOUS
  <2>6. q \in [OrderIds -> Pendings \cup {NotQueued}] /\ \A p \in OrderIds : p # o => q[p] = e.recon[p]
    BY <2>1, <2>4, <2>5
  <2>7. PICK f : f = [e EXCEPT !.recon = q]
    OBVIOUS
  <2>8. /\ EngineOK(f) /\ f.recon = q /\ f.book = e.book /\ f.synced = e.synced
        /\ f.reqs = e.reqs /\ f.tail = e.tail /\ f.halted = e.halted /\ f \in Engines
    BY <2>6, <2>7, ReconIs DEF EngineOK
  <2>9. DeferReconcile(e, o) = f
    BY <1>2, <2>3, <2>5, <2>7 DEF DeferReconcile
  <2>10. \A p \in OrderIds : p \notin {o} /\ e.recon[p].inFlight => f.recon[p].inFlight
    BY <2>6, <2>8
  <2> QED
    BY <2>8, <2>9, <2>10, KeptSame
<1> QED
  BY <1>1, <1>2

(* The engine with another reconciling map and more requests.               *)
Asking(e, q, s) == [e EXCEPT !.recon = q, !.reqs = s]

LEMMA ReconReqsIs ==
  ASSUME NEW e, EngineOK(e), NEW q \in [OrderIds -> Pendings \cup {NotQueued}],
         NEW s \in Seq(WorkerRequests), NEW f, f = Asking(e, q, s)
  PROVE  /\ EngineOK(f) /\ f.recon = q /\ f.reqs = s
         /\ f.book = e.book /\ f.synced = e.synced
         /\ f.tail = e.tail /\ f.halted = e.halted
<1>1. f = [e EXCEPT !.recon = q, !.reqs = s]
  BY DEF Asking
<1>2. e \in Engines
  BY DEF EngineOK
<1>3. s \in Seq(VenueRequests)
  <2>1. WorkerRequests \subseteq VenueRequests
    BY DEF WorkerRequests, VenueRequests, OrderIds
  <2> QED
    BY <2>1, SeqMonotonic
<1>4. /\ f \in Engines /\ f.recon = q /\ f.reqs = s /\ f.book = e.book
      /\ f.synced = e.synced /\ f.tail = e.tail /\ f.halted = e.halted
  BY <1>1, <1>2, <1>3 DEF Engines
<1>5. EngineOK(f)
  BY <1>4 DEF EngineOK
<1> QED
  BY <1>1, <1>4, <1>5

LEMMA RetryKeeps ==
  ASSUME NEW e, EngineOK(e), NEW now \in Nat
  PROVE  Kept(e, RetryDueReconciliations(e, now), {})
<1>1. PICK due : due = {o \in Queued(e) : ~e.recon[o].inFlight /\ e.recon[o].retryAt <= now}
  OBVIOUS
<1>2. due \in SUBSET OrderIds /\ \A o \in due : ~e.recon[o].inFlight /\ e.recon[o] # NotQueued
  BY <1>1 DEF Queued
<1>3. e.recon \in [OrderIds -> Pendings \cup {NotQueued}] /\ e.reqs \in Seq(WorkerRequests)
  BY DEF EngineOK, Engines
<1>4. PICK q : q = [o \in OrderIds |-> IF o \in due THEN [e.recon[o] EXCEPT !.inFlight = TRUE]
                                       ELSE e.recon[o]]
  OBVIOUS
<1>5. ASSUME NEW o \in due
      PROVE  [e.recon[o] EXCEPT !.inFlight = TRUE] \in Pendings
             /\ [e.recon[o] EXCEPT !.inFlight = TRUE].inFlight
  <2>1. e.recon[o] \in Pendings
    BY <1>2, <1>3
  <2> QED
    BY <2>1 DEF Pendings
<1>6. /\ q \in [OrderIds -> Pendings \cup {NotQueued}]
      /\ \A p \in OrderIds : IF p \in due THEN q[p].inFlight ELSE q[p] = e.recon[p]
  BY <1>3, <1>4, <1>5
<1>7. PICK s \in Seq(WorkerRequests) : s = e.reqs \o Lookups(due)
  <2>1. Lookups(due) \in Seq(WorkerRequests)
    BY <1>2, LookupsAre
  <2> QED
    BY <1>3, <2>1, ConcatProperties
<1>8. PICK f : f = Asking(e, q, s)
  OBVIOUS
<1>9. /\ EngineOK(f) /\ f.recon = q /\ f.reqs = s /\ f.book = e.book /\ f.synced = e.synced
      /\ Firm(e, f)
  <2>1. q \in [OrderIds -> Pendings \cup {NotQueued}]
    BY <1>6
  <2> QED
    BY <1>8, <2>1, ReconReqsIs DEF Firm
<1>10. RetryDueReconciliations(e, now) = f
  BY <1>1, <1>4, <1>7, <1>8 DEF RetryDueReconciliations, Asking
<1>11. Later(e.book, f.book, {})
  BY <1>9, LaterRefl DEF EngineOK
<1>12. \A p \in OrderIds : IF p \in due THEN ~e.recon[p].inFlight /\ f.recon[p].inFlight
                           ELSE f.recon[p] = e.recon[p]
  BY <1>2, <1>6, <1>9
<1>13. Kept(e, f, {})
  BY <1>2, <1>3, <1>7, <1>9, <1>11, <1>12, AskingKeeps
<1> QED
  BY <1>10, <1>13
-----------------------------------------------------------------------------
(* Commands of the ticker and of the operator.                              *)
LEMMA AdvancedBook ==
  ASSUME NEW b, BookOK(b), NEW now \in Nat, NEW X
  PROVE  Later(b, Advance(b, now), X) /\ Advance(b, now).halted = b.halted
<1>1. PICK n : n = IF now > b.now THEN now ELSE b.now
  OBVIOUS
<1>2. b \in Books /\ n \in Nat
  BY <1>1 DEF BookOK, Books
<1>3. PICK c : c = [b EXCEPT !.now = n]
  OBVIOUS
<1>4. c \in Books /\ c.orders = b.orders /\ c.fills = b.fills /\ c.pos = b.pos /\ c.halted = b.halted
  BY <1>2, <1>3 DEF Books
<1>5. BookOK(c)
  BY <1>4 DEF BookOK, PositionsEqualFills, NoOverfill, KnownOrders, Known
<1>6. Later(b, c, X)
  BY <1>4, <1>5 DEF Later, After, Known, Begun, Reconciling
<1>7. Advance(b, now) = c
  BY <1>1, <1>3 DEF Advance
<1> QED
  BY <1>4, <1>6, <1>7

LEMMA OnTickKeeps ==
  ASSUME NEW e, EngineOK(e), Ok(e), NEW now \in Nat
  PROVE  Kept(e, OnTick(e, now), {})
<1>1. PICK g : g = IF now - e.book.now >= TickWriteAfter
                     THEN Write(e, Advance(e.book, now)) ELSE e
  OBVIOUS
<1>2. Kept(e, g, {}) /\ EngineOK(g)
  <2>1. PICK c : c = Advance(e.book, now)
    OBVIOUS
  <2>2. Later(e.book, c, {}) /\ c.halted = e.book.halted
    BY <2>1, AdvancedBook DEF EngineOK
  <2>3. Kept(e, Write(e, c), {})
    BY <2>2, WriteBookKeeps
  <2>4. Kept(e, e, {})
    BY KeptRefl
  <2> QED
    BY <1>1, <2>1, <2>3, <2>4 DEF Kept, Passed
<1>3. Kept(e, RetryDueReconciliations(g, now), {})
  BY <1>2, RetryKeeps, KeptTrans
<1>4. OnTick(e, now) = IF now <= e.book.now THEN e ELSE RetryDueReconciliations(g, now)
  BY <1>1 DEF OnTick
<1> QED
  BY <1>3, <1>4, KeptRefl
LEMMA ReconciledBook ==
  ASSUME NEW b, BookOK(b), NEW S \in SUBSET KnownOrders(b), NEW X
  PROVE  /\ Later(b, Reconcile(b, S), X)
         /\ Reconcile(b, S).halted = b.halted
         /\ \A T \in SUBSET S : After(Reconcile(b, T), Reconcile(b, S))
<1>1. b \in Books /\ b.orders \in [OrderIds -> OrderRecord \cup {NoOrder}]
  BY DEF BookOK, Books
<1>2. \A p \in KnownOrders(b) : p \in OrderIds /\ b.orders[p] \in OrderRecord
                                /\ b.orders[p].filled <= b.orders[p].qty
  BY <1>1, KnownIs DEF KnownOrders, BookOK, NoOverfill
<1>3. \A T \in SUBSET S : \A p \in OrderIds :
        Reconcile(b, T).orders[p] = IF p \in T THEN [b.orders[p] EXCEPT !.state = "Reconciling"]
                                    ELSE b.orders[p]
  BY <1>1 DEF Reconcile, Books
<1>4. \A p \in S : LET m == [b.orders[p] EXCEPT !.state = "Reconciling"]
                   IN  m \in OrderRecord /\ m.state = "Reconciling" /\ m.filled <= m.qty
  BY <1>2 DEF OrderRecord, OrderStates
<1>5. PICK c : c = Reconcile(b, S)
  OBVIOUS
<1>6. c.fills = b.fills /\ c.pos = b.pos /\ c.halted = b.halted
  BY <1>1, <1>5 DEF Reconcile, Books
<1>7. c \in Books
  <2>1. PICK g : g = [o \in OrderIds |-> IF o \in S THEN [b.orders[o] EXCEPT !.state = "Reconciling"]
                                         ELSE b.orders[o]]
    OBVIOUS
  <2>2. g \in [OrderIds -> OrderRecord \cup {NoOrder}]
    BY <1>1, <1>4, <2>1
  <2>3. c = [b EXCEPT !.orders = g]
    BY <1>5, <2>1 DEF Reconcile
  <2> QED
    BY <1>1, <2>2, <2>3 DEF Books
<1>8. NoOverfill(c)
  <2>1. ASSUME NEW p \in KnownOrders(c) PROVE c.orders[p].filled <= c.orders[p].qty
    <3>1. p \in OrderIds
      BY DEF KnownOrders
    <3>2. CASE p \in S
      BY <1>3, <1>4, <1>5, <3>1, <3>2
    <3>3. CASE p \notin S
      <4>1. c.orders[p] = b.orders[p]
        BY <1>3, <1>5, <3>1, <3>3
      <4>2. p \in KnownOrders(b)
        BY <3>1, <4>1 DEF KnownOrders, Known
      <4> QED
        BY <1>2, <4>1, <4>2
    <3> QED
      BY <3>2, <3>3
  <2> QED
    BY <2>1 DEF NoOverfill
<1>9. BookOK(c)
  BY <1>6, <1>7, <1>8 DEF BookOK, PositionsEqualFills
<1>10. \A T \in SUBSET S : \A p \in OrderIds :
         IF p \in T THEN Reconcile(b, T).orders[p].state = "Reconciling" /\ Known(b, p)
         ELSE Reconcile(b, T).orders[p] = b.orders[p]
  <2>1. ASSUME NEW T \in SUBSET S, NEW p \in OrderIds, p \in T
        PROVE  Reconcile(b, T).orders[p].state = "Reconciling" /\ Known(b, p)
    <3>1. p \in S /\ Known(b, p)
      BY <2>1 DEF KnownOrders
    <3>2. Reconcile(b, T).orders[p] = [b.orders[p] EXCEPT !.state = "Reconciling"]
      BY <1>3, <2>1
    <3>3. [b.orders[p] EXCEPT !.state = "Reconciling"].state = "Reconciling"
      BY <1>4, <3>1
    <3> QED
      BY <3>1, <3>2, <3>3
  <2> QED
    BY <1>3, <2>1
<1>11. Later(b, c, X)
  BY <1>5, <1>9, <1>10 DEF Later, After, Known, Begun, Reconciling, OrderIds
<1>12. \A T \in SUBSET S : After(Reconcile(b, T), c)
  BY <1>5, <1>10 DEF After, Known, Begun, OrderIds
<1> QED
  BY <1>5, <1>6, <1>11, <1>12

LEMMA OnSweepKeeps ==
  ASSUME NEW e, EngineOK(e)
  PROVE  Kept(e, OnSweep(e), {})
<1>1. PICK S : S = StaleOrders(e.book, StaleAfter) \ Queued(e)
  OBVIOUS
<1>2. S \in SUBSET KnownOrders(e.book) /\ S \in SUBSET OrderIds /\ \A p \in S : e.recon[p] = NotQueued
  BY <1>1 DEF StaleOrders, LiveOrders, KnownOrders, Queued
<1>3. BookOK(e.book) /\ e \in Engines /\ e.reqs \in Seq(WorkerRequests)
  BY DEF EngineOK
<1>4. PICK c : c = Reconcile(e.book, S)
  OBVIOUS
<1>5. /\ Later(e.book, c, {}) /\ c.halted = e.book.halted
      /\ \A T \in SUBSET S : After(Reconcile(e.book, T), c)
  BY <1>2, <1>3, <1>4, ReconciledBook
<1>6. \A T \in SUBSET S : Later(e.book, Reconcile(e.book, T), {})
  BY <1>2, <1>3, ReconciledBook
<1>7. PICK L : L = {[book |-> Reconcile(e.book, T), folds |-> e.folds] : T \in SUBSET S \ {{}}}
  OBVIOUS
<1>8. \A log \in L : \E T \in SUBSET S : log.book = Reconcile(e.book, T) /\ log.folds = e.folds
                                         /\ log = [book |-> log.book, folds |-> log.folds]
  BY <1>7
<1>9. \A log \in L : log \in Images /\ BookOK(log.book) /\ After(e.book, log.book) /\ After(log.book, c)
  BY <1>3, <1>5, <1>6, <1>8 DEF Images, Later, BookOK, Engines
<1>10. PICK q \in [OrderIds -> Pendings \cup {NotQueued}] :
         /\ q = Queue(e, S)
         /\ \A p \in OrderIds : IF p \in S THEN q[p].inFlight ELSE q[p] = e.recon[p]
  BY <1>2, <1>3, QueueIs
<1>11. PICK s \in Seq(WorkerRequests) :
         /\ s = Append(e.reqs, PositionsRequest)
         /\ \A p : Hits(s, Asks(p)) = Hits(e.reqs, Asks(p)) /\ Hits(s, Opens(p)) = Hits(e.reqs, Opens(p))
  <2>1. PICK r \in WorkerRequests : /\ r = PositionsRequest
                                    /\ \A p : One(r, Asks(p)) = 0 /\ One(r, Opens(p)) = 0
    BY RequestKinds
  <2>2. PICK s \in Seq(WorkerRequests) : s = Append(e.reqs, r)
    BY <1>3, AppendProperties
  <2>3. \A M : Hits(s, M) = Hits(e.reqs, M) + One(r, M) /\ Hits(e.reqs, M) \in Nat
    BY <1>3, <2>2, HitsAppend, HitsIs
  <2>4. \A p : Hits(s, Asks(p)) = Hits(e.reqs, Asks(p)) /\ Hits(s, Opens(p)) = Hits(e.reqs, Opens(p))
    BY <2>1, <2>3
  <2> QED
    BY <2>1, <2>2, <2>4
<1>12. PICK t \in Seq(WorkerRequests) : t = s \o Lookups(S)
  <2>1. Lookups(S) \in Seq(WorkerRequests)
    BY <1>2, LookupsAre
  <2> QED
    BY <2>1, ConcatProperties
<1>13. PICK f : f = OnSweep(e)
  OBVIOUS
<1>14. f = [e EXCEPT !.book = c, !.tail = e.tail \cup L, !.recon = q, !.reqs = t]
  BY <1>1, <1>4, <1>7, <1>10, <1>11, <1>12, <1>13 DEF OnSweep
<1>15. /\ f \in Engines /\ f.book = c /\ f.tail = e.tail \cup L /\ f.recon = q
       /\ f.reqs = t /\ f.synced = e.synced /\ f.halted = e.halted
  <2>1. e.tail \cup L \in SUBSET Images
    BY <1>3, <1>9 DEF Engines
  <2>2. t \in Seq(VenueRequests)
    <3>1. WorkerRequests \subseteq VenueRequests
      BY DEF WorkerRequests, VenueRequests, OrderIds
    <3> QED
      BY <3>1, SeqMonotonic
  <2>3. c \in Books
    BY <1>5 DEF Later, BookOK
  <2>4. PICK U \in SUBSET Images : U = e.tail \cup L
    BY <2>1
  <2> QED
    BY <1>3, <1>14, <2>2, <2>3, <2>4 DEF Engines
<1>16. EngineOK(f)
  <2>1. BookOK(c) /\ After(e.book, c) /\ After(e.synced.book, e.book)
    BY <1>5 DEF Later, EngineOK
  <2>2. After(e.synced.book, c)
    BY <2>1, AfterIsOrder
  <2>3. ASSUME NEW log \in f.tail
        PROVE  BookOK(log.book) /\ After(e.synced.book, log.book) /\ After(log.book, c)
    <3>1. CASE log \in L
      BY <1>9, <2>1, <3>1, AfterIsOrder
    <3>2. CASE log \in e.tail
      BY <2>1, <3>2, AfterIsOrder DEF EngineOK
    <3> QED
      BY <1>15, <3>1, <3>2
  <2> QED
    BY <1>5, <1>15, <2>1, <2>2, <2>3 DEF EngineOK
<1>17. \A p \in OrderIds : IF p \in S THEN ~e.recon[p].inFlight /\ f.recon[p].inFlight
                           ELSE f.recon[p] = e.recon[p]
  BY <1>2, <1>10, <1>15, NotQueuedIs
<1>18. Firm(e, f)
  <2>1. ASSUME NEW log \in L PROVE log.book.halted = e.book.halted
    <3>1. PICK T \in SUBSET S : log.book = Reconcile(e.book, T)
      BY <1>8
    <3>2. T \in SUBSET KnownOrders(e.book)
      BY <1>2
    <3>3. Reconcile(e.book, T).halted = e.book.halted
      BY <1>3, <3>2, ReconciledBook
    <3> QED
      BY <3>1, <3>3
  <2> QED
    BY <1>15, <2>1 DEF Firm, EngineOK
<1>19. Kept(e, f, {})
  BY <1>2, <1>5, <1>11, <1>12, <1>15, <1>16, <1>17, <1>18, AskingKeeps
<1> QED
  BY <1>13, <1>19

(* The book with an intent more.                                            *)
LEMMA PersistedBook ==
  ASSUME NEW b, BookOK(b), NEW o \in OrderIds, NEW i \in Intents
  PROVE  LET c == PersistIntent(b, o, i)
         IN  /\ BookOK(c) /\ c.halted = b.halted
             /\ After(b, c)
             /\ \A p \in OrderIds : p # o => c.orders[p] = b.orders[p]
             /\ Known(b, o) => c = b
             /\ ~Known(b, o) => c.orders[o].state = "Created"
<1>1. CASE Known(b, o)
  BY <1>1, AfterIsOrder DEF PersistIntent
<1>2. CASE ~Known(b, o)
  <2>1. b \in Books /\ b.orders \in [OrderIds -> OrderRecord \cup {NoOrder}] /\ b.now \in Nat
    BY DEF BookOK, Books
  <2>2. PICK m : m = [state |-> "Created", qty |-> i.qty, filled |-> 0, named |-> FALSE,
                      side |-> i.side, exit |-> i.exit, traced |-> i.traced, evidence |-> b.now]
    OBVIOUS
  <2>3. m \in OrderRecord /\ m.filled <= m.qty /\ m.state = "Created"
    BY <2>1, <2>2 DEF OrderRecord, OrderStates, Intents
  <2>4. PICK c : c = PersistIntent(b, o, i)
    OBVIOUS
  <2>5. c = [b EXCEPT !.orders[o] = m]
    BY <1>2, <2>2, <2>4 DEF PersistIntent
  <2>6. /\ c \in Books /\ c.fills = b.fills /\ c.pos = b.pos /\ c.halted = b.halted
        /\ \A p \in OrderIds : c.orders[p] = IF p = o THEN m ELSE b.orders[p]
    BY <2>1, <2>3, <2>5 DEF Books
  <2>7. NoOverfill(c)
    BY <2>3, <2>6 DEF NoOverfill, KnownOrders, Known, BookOK
  <2>8. BookOK(c)
    BY <2>6, <2>7 DEF BookOK, PositionsEqualFills
  <2>9. After(b, c)
    BY <1>2, <2>6 DEF After, Known, Begun, OrderIds
  <2> QED
    BY <1>2, <2>3, <2>4, <2>6, <2>8, <2>9
<1> QED
  BY <1>1, <1>2

(* Starting the submission of an order just made.                           *)
LEMMA StartedBook ==
  ASSUME NEW b, BookOK(b), NEW o \in OrderIds, b.orders[o].state = "Created"
  PROVE  LET r == ApplyOrderEvent(b, o, [kind |-> "SubmissionStarted"])
         IN  r.tag = "changed" /\ r.book.orders[o].state = "Submitting"
<1>1. PICK ev : ev = [kind |-> "SubmissionStarted"]
  OBVIOUS
<1>2. b \in Books /\ Known(b, o)
  BY DEF BookOK, Known
<1>3. b.orders[o] \in OrderRecord /\ b.orders \in [OrderIds -> OrderRecord \cup {NoOrder}]
  BY <1>2, KnownIs DEF Books
<1>4. PICK m : m = [b.orders[o] EXCEPT !.state = "Submitting"]
  OBVIOUS
<1>5. m.state = "Submitting" /\ m.state \in Allowed[b.orders[o].state]
  BY <1>3, <1>4 DEF OrderRecord, Allowed, OrderStates
<1>6. Transition(b.orders[o], ev) = [tag |-> "ok", core |-> m]
  BY <1>1, <1>4, <1>5 DEF Transition, From, Move
<1>7. PICK k : k = [m EXCEPT !.evidence = b.orders[o].evidence]
  OBVIOUS
<1>8. k.state = "Submitting"
  BY <1>3, <1>4, <1>7 DEF OrderRecord
<1>9. ApplyOrderEvent(b, o, ev) = [tag |-> "changed", book |-> [b EXCEPT !.orders[o] = k]]
  <2>1. ev.kind = "SubmissionStarted"
    BY <1>1
  <2> HIDE <1>1
  <2> QED
    BY <1>2, <1>6, <1>7, <2>1 DEF ApplyOrderEvent, IsVenueEvidence
<1>10. PICK c : c = [b EXCEPT !.orders[o] = k]
  OBVIOUS
<1>11. c.orders[o].state = "Submitting"
  BY <1>2, <1>3, <1>8, <1>10 DEF Books
<1>12. PICK r : r = ApplyOrderEvent(b, o, ev)
  OBVIOUS
<1>13. r.tag = "changed" /\ r.book = c
  BY <1>9, <1>10, <1>12
<1> QED
  BY <1>1, <1>11, <1>12, <1>13

(* What authorising the order o does: it is in the book and its submission  *)
(* has started, and one request for it is made.                             *)
Placed(e, f, o) ==
  /\ EngineOK(f) /\ Ok(f) /\ Firm(e, f)
  /\ f.synced = e.synced /\ f.recon = e.recon
  /\ After(e.book, f.book)
  /\ Begun(f.book, o)
  /\ \A p \in OrderIds : p # o => f.book.orders[p] = e.book.orders[p]
  /\ \A p \in OrderIds : Hits(f.reqs, Asks(p)) = Hits(e.reqs, Asks(p))
  /\ \A p \in Orders : Hits(f.reqs, Opens(p)) = IF p = o THEN Hits(e.reqs, Opens(p)) + 1
                                                ELSE Hits(e.reqs, Opens(p))

LEMMA WriteStepIs ==
  ASSUME NEW e, EngineOK(e), Ok(e), NEW c, BookOK(c), After(e.book, c),
         c.halted = e.book.halted
  PROVE  LET f == Write(e, c)
         IN  /\ EngineOK(f) /\ Ok(f)
             /\ f.book = c /\ f.synced = e.synced /\ f.recon = e.recon /\ f.reqs = e.reqs
             /\ Firm(e, f)
<1>1. e \in Engines /\ c \in Books /\ "changed" \in Tags /\ "changed" \notin {"refused", "fatal"}
      /\ e.halted \in BOOLEAN /\ c.halted = e.halted
  BY DEF EngineOK, BookOK, Tags, Engines
<1>2. PICK f : f = WriteAt([e EXCEPT !.halted = e.halted], "changed", c)
  OBVIOUS
<1>3. Write(e, c) = f
  BY <1>1, <1>2, SameHalt DEF Write
<1>4. /\ f \in Engines /\ f.book = c /\ f.synced = e.synced /\ f.halted = e.halted
      /\ f.recon = e.recon /\ f.reqs = e.reqs /\ Ok(f)
      /\ \A log \in f.tail : log \in e.tail \/ log.book = c
  BY <1>1, <1>2, WriteIs
<1>5. EngineOK(f)
  <2>1. After(f.synced.book, f.book) /\ BookOK(f.book) /\ BookOK(f.synced.book)
    BY <1>4, AfterIsOrder DEF EngineOK
  <2>2. ASSUME NEW log \in f.tail
        PROVE  BookOK(log.book) /\ After(f.synced.book, log.book) /\ After(log.book, f.book)
    <3>1. CASE log.book = c
      BY <1>4, <2>1, <3>1, AfterIsOrder
    <3>2. CASE log \in e.tail
      BY <1>4, <3>2, AfterIsOrder DEF EngineOK
    <3> QED
      BY <1>4, <3>1, <3>2
  <2> QED
    BY <1>1, <1>4, <2>1, <2>2 DEF EngineOK
<1>6. Firm(e, f)
  BY <1>1, <1>4 DEF Firm
<1> QED
  BY <1>3, <1>4, <1>5, <1>6

LEMMA AuthorisePlaces ==
  ASSUME NEW e, EngineOK(e), Ok(e), NEW o \in Orders, ~Known(e.book, o), NEW i \in Intents
  PROVE  Placed(e, Authorise(e, o, i), o)
<1>1. o \in OrderIds /\ BookOK(e.book)
  BY DEF OrderIds, EngineOK
<1>2. PICK c : c = PersistIntent(e.book, o, i)
  OBVIOUS
<1>3. /\ BookOK(c) /\ c.halted = e.book.halted /\ After(e.book, c)
      /\ c.orders[o].state = "Created"
      /\ \A p \in OrderIds : p # o => c.orders[p] = e.book.orders[p]
  BY <1>1, <1>2, PersistedBook
<1>4. PICK g : g = Write(e, c)
  OBVIOUS
<1>5. /\ EngineOK(g) /\ Ok(g) /\ g.book = c /\ g.synced = e.synced
      /\ g.recon = e.recon /\ g.reqs = e.reqs /\ Firm(e, g)
  BY <1>3, <1>4, WriteStepIs
<1>6. PICK ev \in OrderEvents : ev = [kind |-> "SubmissionStarted"]
  <2>1. [kind |-> "SubmissionStarted"] \in OrderEvents
    BY DEF OrderEvents, Signals, EventKinds
  <2> QED
    BY <2>1
<1>7. PICK r : r = ApplyOrderEvent(c, o, ev)
  OBVIOUS
<1>8. r.tag = "changed" /\ r.book.orders[o].state = "Submitting"
  BY <1>1, <1>3, <1>6, <1>7, StartedBook
<1>9. Applied(c, o, ev, r.book)
  BY <1>1, <1>3, <1>7, ApplyKeeps
<1>10. /\ BookOK(r.book) /\ r.book.halted = c.halted /\ After(c, r.book)
       /\ \A p \in OrderIds : p # o => r.book.orders[p] = c.orders[p]
  BY <1>9 DEF Applied
<1>11. PICK h : h = WriteEvent(g, o, ev)
  OBVIOUS
<1>12. h = Write(g, r.book)
  BY <1>5, <1>7, <1>8, <1>11 DEF WriteEvent, Write
<1>13. /\ EngineOK(h) /\ Ok(h) /\ h.book = r.book /\ h.synced = g.synced
       /\ h.recon = g.recon /\ h.reqs = g.reqs /\ Firm(g, h)
  BY <1>5, <1>10, <1>12, WriteStepIs
<1>14. PICK q \in WorkerRequests :
         /\ q = SubmitRequest(o, i.qty)
         /\ \A p : One(q, Asks(p)) = 0
         /\ \A p : One(q, Opens(p)) = IF p = o THEN 1 ELSE 0
  <2>1. i.qty \in Nat \ {0}
    BY DEF Intents
  <2> QED
    BY <2>1, RequestKinds
<1>15. PICK f : f = Request(h, q)
  OBVIOUS
<1>16. /\ EngineOK(f) /\ f.book = h.book /\ f.synced = h.synced /\ f.recon = h.recon /\ Ok(f)
       /\ f.tail = h.tail /\ f.halted = h.halted
       /\ \A M : Hits(f.reqs, M) = Hits(h.reqs, M) + One(q, M)
  BY <1>13, <1>15, RequestIs
<1>17. \A M : Hits(h.reqs, M) \in Nat
  BY <1>13, HitsIs DEF EngineOK
<1>18. \A p : Hits(f.reqs, Asks(p)) = Hits(e.reqs, Asks(p))
  BY <1>5, <1>13, <1>14, <1>16, <1>17
<1>19. \A p : Hits(f.reqs, Opens(p)) = IF p = o THEN Hits(e.reqs, Opens(p)) + 1
                                       ELSE Hits(e.reqs, Opens(p))
  BY <1>5, <1>13, <1>14, <1>16, <1>17
<1>20. After(e.book, f.book) /\ Begun(f.book, o)
  BY <1>3, <1>8, <1>10, <1>13, <1>16, AfterIsOrder DEF Begun
<1>21. \A p \in OrderIds : p # o => f.book.orders[p] = e.book.orders[p]
  BY <1>3, <1>10, <1>13, <1>16
<1>22. Authorise(e, o, i) = f
  BY <1>2, <1>4, <1>6, <1>11, <1>14, <1>15 DEF Authorise
<1>23. Firm(e, f)
  BY <1>5, <1>13, <1>16 DEF Firm
<1>24. Placed(e, f, o)
  BY <1>5, <1>13, <1>16, <1>18, <1>19, <1>20, <1>21, <1>23 DEF Placed
<1> QED
  BY <1>22, <1>24

(* The guards never let an order of nothing through, nor more than asked,   *)
(* nor an entry while halted.                                               *)
LEMMA VerdictIs ==
  ASSUME NEW b \in Books, NEW i \in Intents, NEW confirmed, NEW halted
  PROVE  LET v == Evaluate(b, i, confirmed, halted)
         IN  v.verdict # "Refuse" => /\ v.qty \in Nat \ {0} /\ v.qty <= i.qty
                                     /\ halted => i.exit
<1>1. PICK v : v = Evaluate(b, i, confirmed, halted)
  OBVIOUS
<1>2. i.qty \in Nat \ {0}
  BY DEF Intents
<1>3. CASE ~i.exit
  <2>1. v = Refused \/ v = Allow(i)
    BY <1>1, <1>3 DEF Evaluate, EvaluateEntry
  <2>2. halted => v = Refused
    BY <1>1, <1>3 DEF Evaluate, EvaluateEntry
  <2> QED
    BY <1>1, <1>2, <2>1, <2>2 DEF Refused, Allow
<1>4. CASE i.exit
  <2>1. PICK k : k = CommittedToExits(b)
    OBVIOUS
  <2>2. k \in Int
    BY <2>1, CommittedIs
  <2>3. PICK h : h = AbsQty(b.pos)
    OBVIOUS
  <2>4. h \in Nat
    BY <2>3 DEF AbsQty, Books
  <2>5. PICK a : a = IF h > k THEN h - k ELSE 0
    OBVIOUS
  <2>6. a \in Nat
    BY <2>2, <2>4, <2>5
  <2>7. v = Refused \/ (a # 0 /\ (v = Allow(i) \/ (v = Clamp(a) /\ i.qty > a)))
    BY <1>1, <1>4, <2>1, <2>3, <2>5 DEF Evaluate, EvaluateExit
  <2> QED
    BY <1>1, <1>2, <1>4, <2>6, <2>7 DEF Refused, Allow, Clamp
<1> QED
  BY <1>3, <1>4

LEMMA OnPlaceKeeps ==
  ASSUME NEW e, EngineOK(e), Ok(e), NEW o \in Orders
  PROVE  \/ Kept(e, OnPlace(e, o, Intent[o]), {})
         \/ /\ ~Known(e.book, o) /\ Placed(e, OnPlace(e, o, Intent[o]), o)
            /\ e.halted => Intent[o].exit
<1>1. PICK i \in Intents : i = Intent[o]
  BY OrdersAssumption
<1>2. PICK v : v = Evaluate(e.book, i, e.confirmed, e.halted)
  OBVIOUS
<1>3. v.verdict # "Refuse" => v.qty \in Nat \ {0} /\ (e.halted => i.exit)
  <2>1. e.book \in Books
    BY DEF EngineOK, BookOK
  <2> QED
    BY <1>2, <2>1, VerdictIs
<1>4. CASE Known(e.book, o)
  <2>1. o \in OrderIds
    BY DEF OrderIds
  <2>2. OnPlace(e, o, i) = e \/ OnPlace(e, o, i) = BeginReconcile(e, o)
    BY <1>4 DEF OnPlace
  <2> QED
    BY <1>1, <2>1, <2>2, KeptRefl, BeginReconcileKeeps
<1>5. CASE ~Known(e.book, o) /\ v.verdict = "Refuse"
  BY <1>1, <1>2, <1>5, KeptRefl DEF OnPlace
<1>6. CASE ~Known(e.book, o) /\ v.verdict # "Refuse"
  <2>1. PICK j : j = [i EXCEPT !.qty = v.qty]
    OBVIOUS
  <2>2. j \in Intents
    BY <1>3, <1>6, <2>1 DEF Intents
  <2>3. OnPlace(e, o, i) = Authorise(e, o, j)
    BY <1>2, <1>6, <2>1 DEF OnPlace
  <2> QED
    BY <1>1, <1>3, <1>6, <2>2, <2>3, AuthorisePlaces
<1> QED
  BY <1>4, <1>5, <1>6

(* A signal of the lifecycle, written.                                      *)
LEMMA SignalKeeps ==
  ASSUME NEW e, EngineOK(e), NEW o \in OrderIds, NEW k \in Signals, NEW X
  PROVE  Kept(e, WriteEvent(e, o, [kind |-> k]), X)
<1>1. PICK ev : ev = [kind |-> k]
  OBVIOUS
<1>2. ev \in OrderEvents /\ ev.kind # "ReconcileResolved"
  BY <1>1 DEF OrderEvents, Signals
<1> QED
  BY <1>1, <1>2, WriteEventKeeps

LEMMA OnCancelKeeps ==
  ASSUME NEW e, EngineOK(e), NEW o \in Orders
  PROVE  Kept(e, OnCancel(e, o), {})
<1>1. PICK g : g = WriteEvent(e, o, [kind |-> "CancelRequested"])
  OBVIOUS
<1>2. o \in OrderIds /\ "CancelRequested" \in Signals
  BY DEF OrderIds, Signals, EventKinds
<1>3. Kept(e, g, {}) /\ EngineOK(g) /\ g \in Engines
  BY <1>1, <1>2, SignalKeeps DEF Kept, Passed, EngineOK
<1>4. CASE ~Known(e.book, o)
  BY <1>4, KeptRefl DEF OnCancel
<1>5. CASE Known(e.book, o) /\ g.err = "refused"
  <2>1. PICK f : f = [g EXCEPT !.err = "none"]
    OBVIOUS
  <2>2. /\ f \in Engines /\ f.book = g.book /\ f.synced = g.synced /\ f.tail = g.tail
        /\ f.halted = g.halted /\ f.reqs = g.reqs /\ f.recon = g.recon
    BY <1>3, <2>1 DEF Engines
  <2>3. Kept(g, f, {})
    BY <1>3, <2>2, KeptSame
  <2>4. OnCancel(e, o) = f
    BY <1>1, <1>5, <2>1 DEF OnCancel
  <2> QED
    BY <1>3, <2>3, <2>4, KeptTrans
<1>6. CASE Known(e.book, o) /\ g.err # "refused"
  <2>1. PICK r \in WorkerRequests : /\ r = CancelRequest(o)
                                    /\ \A p : One(r, Asks(p)) = 0 /\ One(r, Opens(p)) = 0
    BY RequestKinds
  <2>2. Kept(g, Request(g, r), {})
    BY <1>3, <2>1, QuietRequestKeeps
  <2>3. OnCancel(e, o) = Request(g, r)
    BY <1>1, <1>6, <2>1 DEF OnCancel
  <2> QED
    BY <1>3, <2>2, <2>3, KeptTrans
<1> QED
  BY <1>4, <1>5, <1>6
-----------------------------------------------------------------------------
(* Answers of the venue.                                                    *)
LEMMA OnSubmittedKeeps ==
  ASSUME NEW e, EngineOK(e), NEW o \in OrderIds,
         NEW outcome \in {"Acked", "Rejected", "TimedOut"}
  PROVE  Kept(e, OnSubmitted(e, o, outcome), {})
<1>1. {"VenueAcked", "VenueRejected", "SubmissionTimedOut"} \subseteq Signals
  BY DEF Signals, EventKinds
<1>2. CASE outcome = "Acked"
  BY <1>1, <1>2, SignalKeeps DEF OnSubmitted
<1>3. CASE outcome = "Rejected"
  BY <1>1, <1>3, SignalKeeps DEF OnSubmitted
<1>4. CASE outcome = "TimedOut"
  <2>1. PICK g : g = WriteEvent(e, o, [kind |-> "SubmissionTimedOut"])
    OBVIOUS
  <2>2. Kept(e, g, {}) /\ EngineOK(g)
    BY <1>1, <2>1, SignalKeeps DEF Kept, Passed
  <2>3. OnSubmitted(e, o, outcome) = BeginReconcile(g, o)
    BY <1>4, <2>1 DEF OnSubmitted
  <2> QED
    BY <2>2, <2>3, BeginReconcileKeeps, KeptTrans
<1> QED
  BY <1>2, <1>3, <1>4

LEMMA OnCancelledKeeps ==
  ASSUME NEW e, EngineOK(e), NEW o \in OrderIds, NEW outcome
  PROVE  Kept(e, OnCancelled(e, o, outcome), {})
  BY KeptRefl, BeginReconcileKeeps DEF OnCancelled

(* The answer to a lookup: only the order it is about leaves reconciliation, *)
(* and its question is no longer under way.                                 *)
LEMMA OnLookedUpKeeps ==
  ASSUME NEW e, EngineOK(e), NEW o \in OrderIds,
         NEW outcome \in {"Found", "Absent", "TimedOut"},
         NEW snapshot, snapshot.filled \in Nat,
         outcome = "Found" => snapshot.state \in OrderStates
  PROVE  Kept(e, OnLookedUp(e, o, outcome, snapshot), {o})
<1>1. CASE outcome = "TimedOut"
  BY <1>1, DeferReconcileKeeps DEF OnLookedUp
<1>2. PICK g : g = EnsureReconciling(e, o)
  OBVIOUS
<1>3. Kept(e, g, {o}) /\ EngineOK(g)
  BY <1>2, EnsureReconcilingKeeps DEF Kept, Passed
<1>4. ASSUME NEW d, EngineOK(d), NEW ev \in OrderEvents
      PROVE  Kept(d, Forget(WriteEvent(d, o, ev), o), {o})
  <2>1. PICK w : w = WriteEvent(d, o, ev)
    OBVIOUS
  <2>2. Kept(d, w, {o}) /\ EngineOK(w)
    BY <1>4, <2>1, WriteEventKeeps DEF Kept, Passed
  <2>3. Kept(w, Forget(w, o), {o})
    BY <2>2, ForgetKeeps
  <2> QED
    BY <2>1, <2>2, <2>3, KeptTrans
<1>5. CASE outcome = "Found"
  <2>1. PICK d : d = BookTheDifference(g, o, snapshot.filled)
    OBVIOUS
  <2>2. Kept(g, d, {o}) /\ EngineOK(d)
    BY <1>3, <2>1, BookTheDifferenceKeeps DEF Kept, Passed
  <2>3. PICK ev : ev = [kind |-> "ReconcileResolved", state |-> snapshot.state,
                        named |-> TRUE, filled |-> snapshot.filled]
    OBVIOUS
  <2>4. ev \in OrderEvents
    BY <1>5, <2>3 DEF OrderEvents
  <2>5. OnLookedUp(e, o, outcome, snapshot) = Forget(WriteEvent(d, o, ev), o)
    BY <1>2, <1>5, <2>1, <2>3 DEF OnLookedUp
  <2>6. Kept(d, Forget(WriteEvent(d, o, ev), o), {o})
    BY <1>4, <2>2, <2>4
  <2> QED
    BY <1>3, <2>2, <2>5, <2>6, KeptTrans
<1>6. CASE outcome = "Absent"
  <2>1. PICK ev : ev = [kind |-> "ReconcileResolved", state |-> "Canceled",
                        named |-> FALSE, filled |-> 0]
    OBVIOUS
  <2>2. ev \in OrderEvents
    BY <2>1 DEF OrderEvents, OrderStates
  <2>3. OnLookedUp(e, o, outcome, snapshot) = Forget(WriteEvent(g, o, ev), o)
    BY <1>2, <1>6, <2>1 DEF OnLookedUp
  <2>4. Kept(g, Forget(WriteEvent(g, o, ev), o), {o})
    BY <1>3, <1>4, <2>2
  <2> QED
    BY <1>3, <2>3, <2>4, KeptTrans
<1> QED
  BY <1>1, <1>5, <1>6
LEMMA DisownKeeps == ASSUME NEW e, EngineOK(e) PROVE Kept(e, Disown(e), {})
<1>1. PICK r \in WorkerRequests : /\ r = PositionsRequest
                                  /\ \A p : One(r, Asks(p)) = 0 /\ One(r, Opens(p)) = 0
  BY RequestKinds
<1> QED
  BY <1>1, QuietRequestKeeps DEF Disown

LEMMA EvidenceKeeps ==
  ASSUME NEW e, EngineOK(e), NEW o \in OrderIds, NEW ev \in OrderEvents,
         ev.kind # "ReconcileResolved"
  PROVE  Kept(e, Evidence(e, o, ev), {})
<1>1. PICK g : g = WriteEvent(e, o, ev)
  OBVIOUS
<1>2. Kept(e, g, {}) /\ EngineOK(g)
  BY <1>1, WriteEventKeeps DEF Kept, Passed
<1>3. Evidence(e, o, ev) = g \/ Evidence(e, o, ev) = BeginReconcile(g, o)
  BY <1>1 DEF Evidence
<1> QED
  BY <1>2, <1>3, BeginReconcileKeeps, KeptTrans

LEMMA OnFillKeeps ==
  ASSUME NEW e, EngineOK(e), NEW o \in OrderIds, NEW exec \in ExecIds, NEW q \in Nat \ {0}
  PROVE  Kept(e, OnFill(e, o, exec, q), {})
<1>1. PICK ev : ev = [kind |-> "FillReceived", exec |-> exec, qty |-> q]
  OBVIOUS
<1>2. ev \in OrderEvents /\ ev.kind # "ReconcileResolved"
  BY <1>1 DEF OrderEvents
<1>3. OnFill(e, o, exec, q) \in {e, Disown(e), Evidence(e, o, ev)}
  BY <1>1 DEF OnFill
<1> QED
  BY <1>2, <1>3, KeptRefl, DisownKeeps, EvidenceKeeps

LEMMA OnCancelConfirmedKeeps ==
  ASSUME NEW e, EngineOK(e), NEW o \in OrderIds
  PROVE  Kept(e, OnCancelConfirmed(e, o), {})
<1>1. PICK ev : ev = [kind |-> "CancelConfirmed"]
  OBVIOUS
<1>2. ev \in OrderEvents /\ ev.kind # "ReconcileResolved"
  BY <1>1 DEF OrderEvents, Signals, EventKinds
<1>3. OnCancelConfirmed(e, o) \in {Disown(e), Evidence(e, o, ev)}
  BY <1>1 DEF OnCancelConfirmed
<1> QED
  BY <1>2, <1>3, DisownKeeps, EvidenceKeeps
-----------------------------------------------------------------------------
(* Position reports: the adopted order is none of the callers'.             *)
LEMMA AdoptPositionKeeps ==
  ASSUME NEW e, EngineOK(e), Ok(e), NEW q \in Int \ {0}
  PROVE  Kept(e, AdoptPosition(e, q), {})
<1>1. PICK i : i = [side |-> IF q > 0 THEN 1 ELSE -1, qty |-> AbsQty(q),
                    exit |-> FALSE, traced |-> TRUE]
  OBVIOUS
<1>2. i \in Intents
  <2>1. AbsQty(q) \in Nat \ {0}
    BY DEF AbsQty
  <2> QED
    BY <1>1, <2>1 DEF Intents, Sides
<1>3. Adopted \in OrderIds /\ Adopted \notin Orders /\ BookOK(e.book)
  BY OrdersAssumption DEF OrderIds, EngineOK
<1>4. PICK c : c = PersistIntent(e.book, Adopted, i)
  OBVIOUS
<1>5. /\ BookOK(c) /\ c.halted = e.book.halted /\ After(e.book, c)
      /\ \A p \in OrderIds : p # Adopted => c.orders[p] = e.book.orders[p]
  BY <1>2, <1>3, <1>4, PersistedBook
<1>6. Later(e.book, c, {})
  BY <1>3, <1>5 DEF Later, Known, Reconciling, OrderIds
<1>7. PICK g : g = Write(e, c)
  OBVIOUS
<1>8. Kept(e, g, {}) /\ EngineOK(g)
  BY <1>5, <1>6, <1>7, WriteBookKeeps DEF Kept, Passed
<1>9. PICK h : h = WriteEvent(g, Adopted, [kind |-> "ReconcileStarted"])
  OBVIOUS
<1>10. Kept(g, h, {}) /\ EngineOK(h)
  <2>1. "ReconcileStarted" \in Signals
    BY DEF Signals, EventKinds
  <2> QED
    BY <1>3, <1>8, <1>9, <2>1, SignalKeeps DEF Kept, Passed
<1>11. PICK ev : ev = [kind |-> "FillReceived", exec |-> AdoptionExecId, qty |-> i.qty]
  OBVIOUS
<1>12. ev \in OrderEvents /\ ev.kind # "ReconcileResolved"
  <2>1. AdoptionExecId \in ExecIds
    BY <1>3 DEF AdoptionExecId, ExecIds
  <2>2. i.qty \in Int
    BY <1>2 DEF Intents
  <2> QED
    BY <1>11, <2>1, <2>2 DEF OrderEvents
<1>13. PICK k : k = WriteEvent(h, Adopted, ev)
  OBVIOUS
<1>14. Kept(h, k, {}) /\ EngineOK(k)
  BY <1>3, <1>10, <1>12, <1>13, WriteEventKeeps DEF Kept, Passed
<1>15. PICK rv : rv = [kind |-> "ReconcileResolved", state |-> "Filled", named |-> FALSE,
                       filled |-> i.qty]
  OBVIOUS
<1>16. rv \in OrderEvents
  BY <1>2, <1>15 DEF OrderEvents, OrderStates, Intents
<1>17. PICK f : f = WriteEvent(k, Adopted, rv)
  OBVIOUS
<1>18. Kept(k, f, {})
  BY <1>3, <1>14, <1>16, <1>17, WriteEventKeeps
<1>19. AdoptPosition(e, q) = f
  BY <1>1, <1>4, <1>7, <1>9, <1>11, <1>13, <1>15, <1>17 DEF AdoptPosition
<1>20. Kept(e, h, {})
  BY <1>8, <1>10, KeptTrans
<1>21. Kept(e, k, {})
  BY <1>14, <1>20, KeptTrans
<1> QED
  BY <1>18, <1>19, <1>21, KeptTrans

LEMMA OnPositionsKeeps ==
  ASSUME NEW e, EngineOK(e), Ok(e), NEW q \in Int
  PROVE  Kept(e, OnPositions(e, q), {})
<1>1. PICK g : g = [e EXCEPT !.confirmed = TRUE]
  OBVIOUS
<1>2. e \in Engines
  BY DEF EngineOK
<1>3. /\ g \in Engines /\ g.book = e.book /\ g.synced = e.synced /\ g.tail = e.tail
      /\ g.halted = e.halted /\ g.reqs = e.reqs /\ g.recon = e.recon /\ g.err = e.err
  BY <1>1, <1>2 DEF Engines
<1>4. Kept(e, g, {}) /\ EngineOK(g) /\ Ok(g)
  BY <1>3, KeptSame DEF Kept, Passed, Ok
<1>5. \/ OnPositions(e, q) = g
      \/ OnPositions(e, q) = AdoptPosition(g, q) /\ q # 0
      \/ OnPositions(e, q) = OnHalt(g)
  BY <1>1 DEF OnPositions
<1>6. q # 0 => Kept(g, AdoptPosition(g, q), {})
  BY <1>4, AdoptPositionKeeps
<1>7. Kept(g, OnHalt(g), {})
  BY <1>4, OnHaltKeeps
<1> QED
  BY <1>4, <1>5, <1>6, <1>7, KeptTrans
-----------------------------------------------------------------------------
(* Opening a log, and what a process leaves at rest.                        *)
LEMMA NewBookOK == BookOK(NewBook) /\ \A o \in OrderIds : ~Known(NewBook, o)
<1>1. /\ NewBook \in Books /\ NewBook.fills = {} /\ NewBook.pos = 0
      /\ \A o \in OrderIds : NewBook.orders[o] = NoOrder
  BY DEF NewBook, Books
<1>2. \A o \in OrderIds : ~Known(NewBook, o)
  BY <1>1 DEF Known, NoOrder
<1>3. PositionsEqualFills(NewBook)
  <2>1. NewBook.pos = Net(NewBook.fills)
    BY <1>1, NetEmpty
  <2> QED
    BY <2>1 DEF PositionsEqualFills, Net
<1>4. NoOverfill(NewBook)
  BY <1>2 DEF NoOverfill, KnownOrders
<1> QED
  BY <1>1, <1>2, <1>3, <1>4, FS_EmptySet DEF BookOK

LEMMA OpenedIs ==
  ASSUME NEW log \in Images, BookOK(log.book), NEW wall \in Nat
  PROVE  LET e == Opened(log, wall)
         IN  /\ EngineOK(e) /\ Ok(e) /\ e.reqs = <<>> /\ e.tail = {}
             /\ e.book = Advance(log.book, wall) /\ e.synced.book = e.book
             /\ e.halted = log.book.halted
             /\ \A p \in OrderIds : ~e.recon[p].inFlight
<1>1. PICK b : b = Advance(log.book, wall)
  OBVIOUS
<1>2. BookOK(b) /\ b \in Books /\ b.halted \in BOOLEAN /\ b.halted = log.book.halted
  BY <1>1, AdvancedBook DEF Later, BookOK, Books
<1>3. PICK e : e = Opened(log, wall)
  OBVIOUS
<1>4. e = [book |-> b, folds |-> TRUE, synced |-> [book |-> b, folds |-> TRUE],
           tail |-> {}, halted |-> b.halted, confirmed |-> FALSE,
           recon |-> [o \in OrderIds |-> NotQueued], reqs |-> <<>>, err |-> "none"]
  BY <1>1, <1>3 DEF Opened
<1>5. /\ e.book = b /\ e.synced = [book |-> b, folds |-> TRUE] /\ e.tail = {}
      /\ e.halted = b.halted /\ e.recon = [o \in OrderIds |-> NotQueued]
      /\ e.reqs = <<>> /\ e.err = "none"
  BY <1>4
<1>6. /\ [o \in OrderIds |-> NotQueued] \in [OrderIds -> Pendings \cup {NotQueued}]
      /\ [book |-> b, folds |-> TRUE] \in Images
      /\ <<>> \in Seq(VenueRequests) /\ <<>> \in Seq(WorkerRequests)
  BY <1>2 DEF Images
<1>7. e \in Engines
  BY <1>2, <1>4, <1>6 DEF Engines
<1>8. e.synced.book = b
  BY <1>5
<1>9. EngineOK(e)
  BY <1>2, <1>5, <1>6, <1>7, <1>8, AfterIsOrder DEF EngineOK
<1> QED
  BY <1>1, <1>2, <1>3, <1>5, <1>8, <1>9, NotQueuedIs DEF Ok
=============================================================================
