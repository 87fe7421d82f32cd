-------------------------- MODULE BrokerOrdersProofs --------------------------
(***************************************************************************)
(* Proofs about BrokerOrders, for any orders, positions, quantities and    *)
(* processes: the types, one entry at risk, fills booked once, no sale     *)
(* beyond what was bought; and, for one process, the refinement of         *)
(* OrderJournal.                                                           *)
(*                                                                         *)
(* The inductive invariant says of every order how far its row may be from *)
(* the venue's truth, and of every process what its snapshot proves and    *)
(* that an intent it is about to send was not sent by anybody.  An order    *)
(* closed in the journal is then final at the venue and fully booked, so    *)
(* what reserve reads off the journal holds at the venue, too.              *)
(***************************************************************************)
EXTENDS BrokerOrders, SumTheorems, TLAPS

-----------------------------------------------------------------------------
(* The inductive invariant *)

Unfilled == {"none", "inflight", "approval", "declined"}

\* A journal row r and the venue's row v of the same order.
Sound(r, v) ==
  /\ r.status = "absent" => v.state = "none"
  /\ v.state \in Unfilled => v.fill = 0
  /\ r.status # "absent" => /\ r.filled <= v.fill /\ v.fill <= r.intent.qty
                            /\ r.status \in Terminal => v.state \in Final /\ r.filled = v.fill

\* What snapshot s proves about the venue's row v, now and later.
Witness(s, v) ==
  /\ s.state \in Visible /\ s.fill <= v.fill
  /\ s.state \in {"filled", "canceled"} => v.state = s.state /\ v.fill = s.fill

\* A process at x, in a world with journal ord and venue ven.
Working(x, ord, ven) ==
  /\ x.at \in {"apply", "cancel", "send", "reply"} =>
       x.on \in Orders /\ ord[x.on].status # "absent"
  /\ \A o \in x.todo : ord[o].status # "absent"
  /\ x.snap # Missing => x.at = "apply" /\ x.on \in Orders /\ Witness(x.snap, ven[x.on])
  /\ x.at = "send" => ven[x.on].state = "none"

Kept == /\ \A o \in Orders : Sound(order[o], venue[o])
        /\ \A w \in Procs : Working(proc[w], order, venue)

\* No two processes are about to send the same order.
SendersApart ==
  \A w, v \in Procs : proc[w].at = "send" /\ proc[v].at = "send" /\ proc[w].on = proc[v].on
                        => w = v

\* An entry that can still execute.
Risky(r, v) == r.status # "absent" /\ r.intent.side = "buy" /\ v.state \notin Final
OneRisk ==
  \A a, b \in Orders : Risky(order[a], venue[a]) /\ Risky(order[b], venue[b]) => a = b

IInv == TypeOK /\ Kept /\ SendersApart /\ OneRisk /\ FillsBookedOnce /\ NeverOversold

-----------------------------------------------------------------------------
(* Types *)

Rows == [status : Pending \cup Terminal, intent : Intent, filled : 0..MaxQty,
         known : BOOLEAN, approval : BOOLEAN]

LEMMA Constants ==
  /\ IsFiniteSet(Orders) /\ MaxQty \in Nat /\ MaxQty > 0 /\ None \notin Orders
  /\ Cardinality(Orders) \in Nat /\ MaxQty * Cardinality(Orders) \in Nat
<1>1. IsFiniteSet(Orders) /\ MaxQty \in Nat /\ MaxQty > 0 /\ None \notin Orders
  BY BrokerAssumption DEF BrokerAssumption
<1>2. \A m \in Nat, n \in Nat : m * n \in Nat
  OBVIOUS
<1>3. QED
  BY <1>1, <1>2, FS_CardinalityType

LEMMA IntentShape ==
  ASSUME NEW i \in Intent
  PROVE  i.pos \in Positions /\ i.side \in {"buy", "sell"} /\ i.qty \in 1..MaxQty /\ i.qty \in Nat
<1>1. EntrySizes \subseteq 1..MaxQty
  BY BrokerAssumption DEF BrokerAssumption
<1>2. i.pos \in Positions /\ i.side \in {"buy", "sell"} /\ i.qty \in 1..MaxQty
  BY <1>1 DEF Intent, Entry, Exit
<1>3. QED
  BY <1>2, Constants

LEMMA RowShape ==
  ASSUME NEW r \in OrderRow
  PROVE  /\ r.status # "absent" => r \in Rows
         /\ r.status = "absent" => r = NoOrder /\ r.filled = 0
         /\ r.filled \in 0..MaxQty /\ r.filled \in Nat
         /\ r.status \in {"absent"} \cup Pending \cup Terminal
  BY Constants DEF OrderRow, Rows, NoOrder, Pending, Terminal

LEMMA RowsAreRows == Rows \subseteq OrderRow /\ NoOrder \in OrderRow
  BY DEF Rows, OrderRow

LEMMA RowFields ==
  ASSUME NEW r \in Rows
  PROVE  /\ r.status \in Pending \cup Terminal /\ r.status # "absent"
         /\ r.intent \in Intent /\ r.filled \in 0..MaxQty /\ r.filled \in Nat
         /\ r.intent.pos \in Positions /\ r.intent.side \in {"buy", "sell"}
         /\ r.intent.qty \in Nat
  BY Constants, IntentShape DEF Rows, Pending, Terminal

LEMMA VenueShape ==
  ASSUME NEW v \in VenueRow
  PROVE  v.fill \in 0..MaxQty /\ v.fill \in Nat
         /\ v.state \in {"none", "inflight", "approval", "working", "filled", "canceled", "declined"}
  BY Constants DEF VenueRow, Visible

LEMMA SnapShape ==
  ASSUME NEW s \in Snapshot
  PROVE  s.fill \in 0..MaxQty /\ s.fill \in Nat /\ s.state \in Visible \cup {"missing"}
  BY Constants DEF Snapshot

LEMMA Types ==
  ASSUME TypeOK
  PROVE  /\ order \in [Orders -> OrderRow] /\ venue \in [Orders -> VenueRow]
         /\ proc \in [Procs -> ProcRow] /\ posn \in [Positions -> {"none", "open", "closed"}]
         /\ held \in [Positions -> 0..(MaxQty * Cardinality(Orders))]
         /\ \A p \in Positions : held[p] \in Nat
  BY Constants DEF TypeOK

LEMMA IdleShape ==
  /\ Idle \in ProcRow /\ Idle.at = "idle" /\ Idle.then = "idle" /\ Idle.todo = {}
  /\ Idle.unsent = {} /\ Idle.on = None /\ Idle.snap = Missing /\ Idle.fresh = FALSE
  /\ Idle.intents = {}
  BY Constants DEF Idle, ProcRow, Places, Snapshot, Missing

-----------------------------------------------------------------------------
(* Sums over the orders *)

\* What order o has booked for position p, what it may still sell, what it bought.
On(r, p, side) == r.status # "absent" /\ r.intent.pos = p /\ r.intent.side = side
FilledOf(p, side, ord) == [o \in Orders |-> IF On(ord[o], p, side) THEN ord[o].filled ELSE 0]
Ends(r, v) == IF v.state \in Final THEN v.fill ELSE r.intent.qty
SoldOf(p, ord, ven) == [o \in Orders |-> IF On(ord[o], p, "sell") THEN Ends(ord[o], ven[o]) ELSE 0]
BoughtOf(p, ord, ven) == [o \in Orders |-> IF On(ord[o], p, "buy") THEN ven[o].fill ELSE 0]

Total(f) == SumFunctionOnSet(f, Orders)

FilledIn(ord, S) == MapThenSumSet(LAMBDA o : ord[o].filled, S)
BoughtIn(ven, S) == MapThenSumSet(LAMBDA o : ven[o].fill, S)
SoldIn(ord, ven, S) ==
  MapThenSumSet(LAMBDA o : IF ven[o].state \in Final THEN ven[o].fill ELSE ord[o].intent.qty, S)

\* A sum over some of the orders is a sum over all, of a function that is zero on
\* the others.
LEMMA FilledSum ==
  ASSUME NEW ord, NEW S \in SUBSET Orders, \A o \in S : ord[o].filled \in Nat,
         NEW g, \A o \in Orders : g[o] = IF o \in S THEN ord[o].filled ELSE 0
  PROVE  FilledIn(ord, S) = Total(g)
<1> DEFINE f == [o \in S |-> ord[o].filled]
           Sums(h) == h = [T \in SUBSET S |->
                             IF T = {} THEN 0 ELSE ord[Pick(T)].filled + h[T \ {Pick(T)}]]
           k == CHOOSE h : Sums(h)
<1>0. IsFiniteSet(Orders) /\ IsFiniteSet(S)
  BY Constants, FS_Subset
<1>1. FilledIn(ord, S) = k[S]
  BY DEF FilledIn, MapThenSumSet, MapThenFoldSet, Pick
<1>2. \A T \in SUBSET S : T # {} => f[Pick(T)] = ord[Pick(T)].filled
  BY DEF Pick
<1>3. \A h : Computes(h, f, S) <=> Sums(h)
  BY <1>2 DEF Computes
<1>4. Computes(k, f, S)
  BY <1>0, <1>3, SumsExist
<1>5. SumFunctionOnSet(f, S) = k[S]
  <2> HIDE DEF k, f
  <2>1. S \in SUBSET S
    OBVIOUS
  <2>2. QED
    BY <1>0, <1>4, <2>1, SumComputed
<1>6. \A o \in S : f[o] \in Int
  OBVIOUS
<1>7. \A o \in Orders : g[o] = IF o \in S THEN f[o] ELSE 0
  OBVIOUS
<1> HIDE DEF f
<1>8. SumFunctionOnSet(f, S) = Total(g)
  BY <1>0, <1>6, <1>7, SumOfPart DEF Total
<1>9. QED
  BY <1>1, <1>5, <1>8

LEMMA VenueSum ==
  ASSUME NEW ven, NEW S \in SUBSET Orders, \A o \in S : ven[o].fill \in Nat,
         NEW g, \A o \in Orders : g[o] = IF o \in S THEN ven[o].fill ELSE 0
  PROVE  BoughtIn(ven, S) = Total(g)
<1> DEFINE f == [o \in S |-> ven[o].fill]
           Sums(h) == h = [T \in SUBSET S |->
                             IF T = {} THEN 0 ELSE ven[Pick(T)].fill + h[T \ {Pick(T)}]]
           k == CHOOSE h : Sums(h)
<1>0. IsFiniteSet(Orders) /\ IsFiniteSet(S)
  BY Constants, FS_Subset
<1>1. BoughtIn(ven, S) = k[S]
  BY DEF BoughtIn, MapThenSumSet, MapThenFoldSet, Pick
<1>2. \A T \in SUBSET S : T # {} => f[Pick(T)] = ven[Pick(T)].fill
  BY DEF Pick
<1>3. \A h : Computes(h, f, S) <=> Sums(h)
  BY <1>2 DEF Computes
<1>4. Computes(k, f, S)
  BY <1>0, <1>3, SumsExist
<1>5. SumFunctionOnSet(f, S) = k[S]
  <2> HIDE DEF k, f
  <2>1. S \in SUBSET S
    OBVIOUS
  <2>2. QED
    BY <1>0, <1>4, <2>1, SumComputed
<1>6. \A o \in S : f[o] \in Int
  OBVIOUS
<1>7. \A o \in Orders : g[o] = IF o \in S THEN f[o] ELSE 0
  OBVIOUS
<1> HIDE DEF f
<1>8. SumFunctionOnSet(f, S) = Total(g)
  BY <1>0, <1>6, <1>7, SumOfPart DEF Total
<1>9. QED
  BY <1>1, <1>5, <1>8

LEMMA AtVenueSum ==
  ASSUME NEW ord, NEW ven, NEW S \in SUBSET Orders,
         \A o \in S : (IF ven[o].state \in Final THEN ven[o].fill ELSE ord[o].intent.qty) \in Nat,
         NEW g, \A o \in Orders : g[o] = IF o \in S THEN Ends(ord[o], ven[o]) ELSE 0
  PROVE  SoldIn(ord, ven, S) = Total(g)
<1> DEFINE E(o) == IF ven[o].state \in Final THEN ven[o].fill ELSE ord[o].intent.qty
           f == [o \in S |-> E(o)]
           Sums(h) == h = [T \in SUBSET S |->
                             IF T = {} THEN 0 ELSE E(Pick(T)) + h[T \ {Pick(T)}]]
           k == CHOOSE h : Sums(h)
<1>0. IsFiniteSet(Orders) /\ IsFiniteSet(S)
  BY Constants, FS_Subset
<1>1. SoldIn(ord, ven, S) = k[S]
  BY DEF SoldIn, MapThenSumSet, MapThenFoldSet, Pick
<1>2. \A T \in SUBSET S : T # {} => f[Pick(T)] = E(Pick(T))
  BY DEF Pick
<1>3. \A h : Computes(h, f, S) <=> Sums(h)
  BY <1>2 DEF Computes
<1>4. Computes(k, f, S)
  BY <1>0, <1>3, SumsExist
<1>5. SumFunctionOnSet(f, S) = k[S]
  <2> HIDE DEF k, f
  <2>1. S \in SUBSET S
    OBVIOUS
  <2>2. QED
    BY <1>0, <1>4, <2>1, SumComputed
<1>6. \A o \in S : f[o] \in Int
  OBVIOUS
<1>7. \A o \in Orders : g[o] = IF o \in S THEN f[o] ELSE 0
  BY DEF Ends
<1> HIDE DEF f
<1>8. SumFunctionOnSet(f, S) = Total(g)
  BY <1>0, <1>6, <1>7, SumOfPart DEF Total
<1>9. QED
  BY <1>1, <1>5, <1>8

\* What the sums of the properties are made of.
Rowed(ord, ven) ==
  \A o \in Orders : /\ ord[o].filled \in Nat /\ ven[o].fill \in Nat
                    /\ ord[o].status # "absent" => ord[o].intent.qty \in Nat

LEMMA TypesAreRowed ==
  ASSUME NEW ord \in [Orders -> OrderRow], NEW ven \in [Orders -> VenueRow]
  PROVE  Rowed(ord, ven)
<1>1. ASSUME NEW o \in Orders
      PROVE  /\ ord[o].filled \in Nat /\ ven[o].fill \in Nat
             /\ ord[o].status # "absent" => ord[o].intent.qty \in Nat
  <2>1. ord[o] \in OrderRow /\ ven[o] \in VenueRow
    OBVIOUS
  <2>2. ord[o].filled \in Nat /\ ven[o].fill \in Nat
    BY <2>1, RowShape, VenueShape
  <2>3. ord[o].status # "absent" => ord[o].intent.qty \in Nat
    BY <2>1, RowShape, RowFields
  <2>4. QED
    BY <2>2, <2>3
<1>2. QED
  BY <1>1 DEF Rowed

LEMMA SumsAreNumbers ==
  ASSUME NEW ord, NEW ven, Rowed(ord, ven), NEW p
  PROVE  /\ \A side : /\ \A o \in Orders : FilledOf(p, side, ord)[o] \in Nat
                      /\ Total(FilledOf(p, side, ord)) \in Nat
         /\ \A o \in Orders : SoldOf(p, ord, ven)[o] \in Nat /\ BoughtOf(p, ord, ven)[o] \in Nat
         /\ Total(SoldOf(p, ord, ven)) \in Nat /\ Total(BoughtOf(p, ord, ven)) \in Nat
<1>1. \A side : \A o \in Orders : FilledOf(p, side, ord)[o] \in Nat
  BY DEF Rowed, FilledOf
<1>2. \A o \in Orders : SoldOf(p, ord, ven)[o] \in Nat /\ BoughtOf(p, ord, ven)[o] \in Nat
  BY DEF Rowed, SoldOf, BoughtOf, Ends, On
<1>3. \A f : (\A o \in Orders : f[o] \in Nat) => Total(f) \in Nat
  BY Constants, SumOfNats DEF Total
<1>4. QED
  BY <1>1, <1>2, <1>3

\* The orders of position p and side.
OrdersOn(p, side, ord) ==
  {o \in Orders : ord[o].status # "absent" /\ ord[o].intent.pos = p /\ ord[o].intent.side = side}

LEMMA SumsOverAll ==
  ASSUME NEW ord, NEW ven, Rowed(ord, ven), NEW p
  PROVE  /\ \A side : FilledIn(ord, OrdersOn(p, side, ord)) = Total(FilledOf(p, side, ord))
         /\ SoldIn(ord, ven, OrdersOn(p, "sell", ord)) = Total(SoldOf(p, ord, ven))
         /\ BoughtIn(ven, OrdersOn(p, "buy", ord)) = Total(BoughtOf(p, ord, ven))
<1>1. ASSUME NEW side
      PROVE  FilledIn(ord, OrdersOn(p, side, ord)) = Total(FilledOf(p, side, ord))
  <2> DEFINE S == OrdersOn(p, side, ord)
             g == FilledOf(p, side, ord)
  <2>1. S \in SUBSET Orders /\ (\A o \in S : ord[o].filled \in Nat)
        /\ \A o \in Orders : g[o] = IF o \in S THEN ord[o].filled ELSE 0
    BY DEF Rowed, OrdersOn, FilledOf, On
  <2> HIDE DEF S, g
  <2>2. FilledIn(ord, S) = Total(g)
    BY <2>1, FilledSum
  <2>3. QED
    BY <2>2 DEF S, g
<1>2. SoldIn(ord, ven, OrdersOn(p, "sell", ord)) = Total(SoldOf(p, ord, ven))
  <2> DEFINE S == OrdersOn(p, "sell", ord)
             g == SoldOf(p, ord, ven)
  <2>1. S \in SUBSET Orders
        /\ (\A o \in S : (IF ven[o].state \in Final THEN ven[o].fill ELSE ord[o].intent.qty) \in Nat)
        /\ \A o \in Orders : g[o] = IF o \in S THEN Ends(ord[o], ven[o]) ELSE 0
    BY DEF Rowed, OrdersOn, SoldOf, On
  <2> HIDE DEF S, g
  <2>2. SoldIn(ord, ven, S) = Total(g)
    BY <2>1, AtVenueSum
  <2>3. QED
    BY <2>2 DEF S, g
<1>3. BoughtIn(ven, OrdersOn(p, "buy", ord)) = Total(BoughtOf(p, ord, ven))
  <2> DEFINE S == OrdersOn(p, "buy", ord)
             g == BoughtOf(p, ord, ven)
  <2>1. S \in SUBSET Orders /\ (\A o \in S : ven[o].fill \in Nat)
        /\ \A o \in Orders : g[o] = IF o \in S THEN ven[o].fill ELSE 0
    BY DEF Rowed, OrdersOn, BoughtOf, On
  <2> HIDE DEF S, g
  <2>2. BoughtIn(ven, S) = Total(g)
    BY <2>1, VenueSum
  <2>3. QED
    BY <2>2 DEF S, g
<1>4. QED
  BY <1>1, <1>2, <1>3

\* The properties, said with these sums.
BookedOnce(ord, h) ==
  \A p \in Positions : h[p] = Total(FilledOf(p, "buy", ord)) - Total(FilledOf(p, "sell", ord))
Covered(ord, ven) ==
  \A p \in Positions : Total(SoldOf(p, ord, ven)) <= Total(BoughtOf(p, ord, ven))

SumForm ==
  (order \in [Orders -> OrderRow] /\ venue \in [Orders -> VenueRow]) =>
    (FillsBookedOnce <=> BookedOnce(order, held)) /\ (NeverOversold <=> Covered(order, venue))

LEMMA PropertiesAreSums == SumForm
<1> SUFFICES ASSUME order \in [Orders -> OrderRow], venue \in [Orders -> VenueRow]
             PROVE  (FillsBookedOnce <=> BookedOnce(order, held))
                    /\ (NeverOversold <=> Covered(order, venue))
  BY DEF SumForm
<1>1. Rowed(order, venue)
  BY TypesAreRowed
<1>2. \A p, side : Booked(p, side) = FilledIn(order, OrdersOn(p, side, order))
  BY DEF Booked, FilledIn, OrdersOn
<1>3. NeverOversold <=> \A p \in Positions : SoldIn(order, venue, OrdersOn(p, "sell", order))
                                               <= BoughtIn(venue, OrdersOn(p, "buy", order))
  BY DEF NeverOversold, SoldIn, BoughtIn, OrdersOn, AtVenue
<1>4. \A p : /\ \A side : FilledIn(order, OrdersOn(p, side, order)) = Total(FilledOf(p, side, order))
             /\ SoldIn(order, venue, OrdersOn(p, "sell", order)) = Total(SoldOf(p, order, venue))
             /\ BoughtIn(venue, OrdersOn(p, "buy", order)) = Total(BoughtOf(p, order, venue))
  BY <1>1, SumsOverAll
<1>5. QED
  BY <1>2, <1>3, <1>4 DEF FillsBookedOnce, BookedOnce, Covered

LEMMA PropertiesAreSumsNext == SumForm'
  BY PropertiesAreSums, PTL

-----------------------------------------------------------------------------
(* Steps *)

LEMMA KnownSums ==
  ASSUME IInv
  PROVE  TypeOK /\ BookedOnce(order, held) /\ Covered(order, venue) /\ Rowed(order, venue)
  BY PropertiesAreSums, Types, TypesAreRowed DEF IInv, SumForm

LEMMA Conclude ==
  ASSUME TypeOK', Kept', SendersApart', OneRisk', BookedOnce(order', held'), Covered(order', venue')
  PROVE  IInv'
<1>1. order' \in [Orders -> OrderRow] /\ venue' \in [Orders -> VenueRow]
  BY DEF TypeOK
<1>2. FillsBookedOnce' /\ NeverOversold'
  BY <1>1, PropertiesAreSumsNext DEF SumForm
<1>3. QED
  BY <1>2 DEF IInv

\* Process w goes on as x; the others at most learn that they are stale.
Moves(w, x) ==
  /\ x \in ProcRow /\ proc' \in [Procs -> ProcRow] /\ proc'[w] = x
  /\ \A v \in Procs \ {w} : /\ proc'[v].at = proc[v].at /\ proc'[v].on = proc[v].on
                            /\ proc'[v].todo = proc[v].todo /\ proc'[v].snap = proc[v].snap

LEMMA MovesAlone ==
  ASSUME TypeOK, NEW w \in Procs, NEW x \in ProcRow,
         proc' = [proc EXCEPT ![w] = x] \/ proc' = OthersStale(w, x)
  PROVE  Moves(w, x)
<1>1. \A v \in Procs : proc[v] \in ProcRow
  BY Types
<1>2. ASSUME NEW v \in Procs, NEW y, y = [proc[v] EXCEPT !.fresh = FALSE]
      PROVE  /\ y \in ProcRow /\ y.at = proc[v].at /\ y.on = proc[v].on
             /\ y.todo = proc[v].todo /\ y.snap = proc[v].snap
  BY <1>1, <1>2 DEF ProcRow
<1>3. CASE proc' = [proc EXCEPT ![w] = x]
  BY <1>3, Types DEF Moves
<1>4. CASE proc' = OthersStale(w, x)
  <2>1. proc' = [v \in Procs |-> IF v = w THEN x ELSE [proc[v] EXCEPT !.fresh = FALSE]]
    BY <1>4 DEF OthersStale
  <2>2. QED
    BY <1>2, <2>1 DEF Moves
<1>5. QED
  BY <1>3, <1>4

LEMMA OthersWork ==
  ASSUME IInv, NEW w \in Procs, NEW x, Moves(w, x), x.at # "send", venue' = venue,
         \A o \in Orders : order[o].status # "absent" => order'[o].status # "absent",
         Working(x, order', venue')
  PROVE  (\A v \in Procs : Working(proc[v], order, venue))' /\ SendersApart'
<1>1. ASSUME NEW v \in Procs \ {w} PROVE Working(proc'[v], order', venue')
  <2>1. Working(proc[v], order, venue) /\ proc[v] \in ProcRow
    BY Types DEF IInv, Kept
  <2>2. \A o \in proc[v].todo : o \in Orders
    BY <2>1 DEF ProcRow
  <2>3. QED
    BY <2>1, <2>2 DEF Working, Moves
<1>2. Working(proc'[w], order', venue')
  BY DEF Moves
<1>3. SendersApart'
  BY DEF IInv, SendersApart, Moves
<1>4. QED
  BY <1>1, <1>2, <1>3

\* A step of process w that neither draws nor sends an order: the same intents, and
\* what is booked still adds up.
LEMMA Quiet ==
  ASSUME IInv, NEW w \in Procs, NEW x, Moves(w, x), x.at # "send", venue' = venue,
         order' \in [Orders -> OrderRow], posn' \in [Positions -> {"none", "open", "closed"}],
         held' \in [Positions -> 0..(MaxQty * Cardinality(Orders))],
         \A o \in Orders : /\ order'[o].status = "absent" <=> order[o].status = "absent"
                           /\ order'[o].intent = order[o].intent
                           /\ Sound(order'[o], venue[o]),
         Working(x, order', venue'), BookedOnce(order', held')
  PROVE  IInv'
<1>1. TypeOK'
  BY DEF IInv, TypeOK, Moves
<1>2. Kept' /\ SendersApart'
  BY OthersWork DEF Kept
<1>3. OneRisk'
  BY DEF IInv, OneRisk, Risky
<1>4. Covered(order', venue')
  <2>1. \A o \in Orders : \A p, side : On(order'[o], p, side) <=> On(order[o], p, side)
    BY DEF On
  <2>2. \A p : SoldOf(p, order', venue') = SoldOf(p, order, venue)
               /\ BoughtOf(p, order', venue') = BoughtOf(p, order, venue)
    BY <2>1 DEF SoldOf, BoughtOf, Ends
  <2>3. QED
    BY <2>2, KnownSums DEF Covered
<1>5. QED
  BY <1>1, <1>2, <1>3, <1>4, Conclude

\* Nothing but the process moves.
LEMMA OnlyProc ==
  ASSUME IInv, NEW w \in Procs, NEW x \in ProcRow,
         proc' = [proc EXCEPT ![w] = x] \/ proc' = OthersStale(w, x), x.at # "send",
         UNCHANGED <<order, held, posn, venue>>, Working(x, order, venue)
  PROVE  IInv'
<1>1. TypeOK /\ BookedOnce(order, held) /\ \A o \in Orders : Sound(order[o], venue[o])
  BY KnownSums DEF IInv, Kept
<1>2. Moves(w, x)
  BY <1>1, MovesAlone
<1>3. /\ order' \in [Orders -> OrderRow] /\ posn' \in [Positions -> {"none", "open", "closed"}]
      /\ held' \in [Positions -> 0..(MaxQty * Cardinality(Orders))]
  BY <1>1, Types
<1>4. \A o \in Orders : /\ order'[o].status = "absent" <=> order[o].status = "absent"
                        /\ order'[o].intent = order[o].intent
                        /\ Sound(order'[o], venue[o])
  BY <1>1
<1>5. Working(x, order', venue') /\ BookedOnce(order', held') /\ venue' = venue
  BY <1>1
<1>6. QED
  BY <1>2, <1>3, <1>4, <1>5, Quiet

\* A mark: an order that is not absent gets another status, and only if the venue
\* is through with it a terminal one.
LEMMA Mark ==
  ASSUME IInv, NEW w \in Procs, NEW x \in ProcRow, NEW o \in Orders,
         NEW row \in Rows, order[o].status # "absent",
         order' = [order EXCEPT ![o] = row],
         row.intent = order[o].intent, row.filled = order[o].filled,
         row.status \in Terminal => venue[o].state \in Final /\ row.filled = venue[o].fill,
         proc' = [proc EXCEPT ![w] = x], x.at # "send",
         UNCHANGED <<held, posn, venue>>, Working(x, order', venue)
  PROVE  IInv'
<1>1. TypeOK /\ BookedOnce(order, held) /\ \A u \in Orders : Sound(order[u], venue[u])
  BY KnownSums DEF IInv, Kept
<1>2. Moves(w, x)
  BY <1>1, MovesAlone
<1>3. /\ order' \in [Orders -> OrderRow] /\ posn' \in [Positions -> {"none", "open", "closed"}]
      /\ held' \in [Positions -> 0..(MaxQty * Cardinality(Orders))]
  BY <1>1, Types, RowsAreRows
<1>4. /\ order'[o] = row /\ row.status # "absent"
      /\ \A u \in Orders \ {o} : order'[u] = order[u]
  BY <1>1, Types, RowFields
<1>5. Sound(row, venue[o])
  BY <1>1, <1>4 DEF Sound
<1>6. \A u \in Orders : /\ order'[u].status = "absent" <=> order[u].status = "absent"
                        /\ order'[u].intent = order[u].intent
                        /\ Sound(order'[u], venue[u])
  BY <1>1, <1>4, <1>5
<1>7. BookedOnce(order', held')
  <2>1. \A u \in Orders : \A p, side : On(order'[u], p, side) <=> On(order[u], p, side)
    BY <1>6 DEF On
  <2>2. \A p, side : FilledOf(p, side, order') = FilledOf(p, side, order)
    BY <1>4, <2>1 DEF FilledOf
  <2>3. QED
    BY <1>1, <2>2 DEF BookedOnce
<1>8. Working(x, order', venue') /\ venue' = venue
  OBVIOUS
<1>9. QED
  BY <1>2, <1>3, <1>6, <1>7, <1>8, Quiet

-----------------------------------------------------------------------------
(* Steps of a process that write nothing *)

\* A process with nothing listed, fetched or begun.
LEMMA Free ==
  ASSUME NEW x, x.at \notin {"apply", "cancel", "send", "reply"}, x.todo = {}, x.snap = Missing,
         NEW ord, NEW ven
  PROVE  Working(x, ord, ven)
  BY DEF Working

LEMMA AtWork ==
  ASSUME IInv, NEW w \in Procs
  PROVE  proc[w] \in ProcRow /\ Working(proc[w], order, venue)
  BY Types DEF IInv, Kept

\* A process that begins a pass over rows.
LEMMA ListedWorks ==
  ASSUME TypeOK, NEW me \in ProcRow, me.snap = Missing, NEW rows \in SUBSET Orders,
         NEW ord, \A o \in rows : ord[o].status # "absent", NEW ven
  PROVE  /\ Listed(me, rows) \in ProcRow /\ Working(Listed(me, rows), ord, ven)
         /\ Listed(me, rows).at = "reconciling"
<1>1. /\ Listed(me, rows) \in ProcRow /\ Listed(me, rows).at = "reconciling"
      /\ Listed(me, rows).todo = rows /\ Listed(me, rows).snap = Missing
  BY DEF Listed, ProcRow, Places
<1>2. QED
  BY <1>1 DEF Working

LEMMA StartKeeps ==
  ASSUME IInv, NEW w \in Procs, StartReconcile(w) \/ StartTick(w)
  PROVE  IInv'
<1>1. TypeOK /\ UNCHANGED <<order, held, posn, venue>>
  BY DEF IInv, StartReconcile, StartTick
<1>2. PICK me \in ProcRow, rows \in SUBSET PendingOrders :
        me.snap = Missing /\ proc' = [proc EXCEPT ![w] = Listed(me, rows)]
  <2>1. CASE StartReconcile(w)
    BY <2>1, IdleShape DEF StartReconcile
  <2>2. CASE StartTick(w)
    <3>1. [Idle EXCEPT !.then = "tick"] \in ProcRow /\ [Idle EXCEPT !.then = "tick"].snap = Missing
      BY IdleShape DEF ProcRow
    <3>2. QED
      BY <2>2, <3>1 DEF StartTick
  <2>3. QED
    BY <2>1, <2>2
<1>3. rows \in SUBSET Orders /\ \A o \in rows : order[o].status # "absent"
  BY DEF PendingOrders, Pending
<1>4. /\ Listed(me, rows) \in ProcRow /\ Working(Listed(me, rows), order, venue)
      /\ Listed(me, rows).at = "reconciling"
  BY <1>1, <1>2, <1>3, ListedWorks
<1>5. QED
  BY <1>1, <1>2, <1>4, OnlyProc

LEMMA FetchKeeps ==
  ASSUME IInv, NEW w \in Procs, NEW o \in Orders, Fetch(w, o)
  PROVE  IInv'
<1>1. /\ proc[w] \in ProcRow /\ Working(proc[w], order, venue) /\ venue[o] \in VenueRow
      /\ proc[w].at = "reconciling" /\ o \in proc[w].todo
      /\ UNCHANGED <<order, held, posn, venue>>
  BY AtWork, Types DEF IInv, Fetch
<1>2. PICK s \in {Missing} \cup ({venue[o]} \cap Snapshot) :
        proc' = [proc EXCEPT ![w].at = "apply", ![w].on = o, ![w].snap = s]
  BY DEF Fetch
<1>3. PICK x : x = [proc[w] EXCEPT !.at = "apply", !.on = o, !.snap = s]
  OBVIOUS
<1>4. s \in Snapshot
  BY <1>2, Constants DEF Missing, Snapshot
<1>5. /\ x \in ProcRow /\ x.at = "apply" /\ x.on = o /\ x.snap = s /\ x.todo = proc[w].todo
  BY <1>1, <1>3, <1>4 DEF ProcRow, Places
<1>6. s # Missing => Witness(s, venue[o])
  <2>1. SUFFICES ASSUME s # Missing PROVE Witness(s, venue[o])
    OBVIOUS
  <2>2. s = venue[o] /\ s \in Snapshot
    BY <1>2, <2>1
  <2>3. s.state \in Visible
    BY <1>1, <2>2 DEF Snapshot, VenueRow, Visible
  <2>4. s.fill \in Nat
    BY <2>2, SnapShape
  <2>5. QED
    BY <2>2, <2>3, <2>4 DEF Witness
<1>7. Working(x, order, venue)
  BY <1>1, <1>5, <1>6 DEF Working
<1>8. proc' = [proc EXCEPT ![w] = x]
  BY <1>1, <1>2, <1>3, Types DEF IInv
<1>9. QED
  BY <1>1, <1>5, <1>7, <1>8, OnlyProc

LEMMA FinishReconcileKeeps ==
  ASSUME IInv, NEW w \in Procs, FinishReconcile(w)
  PROVE  IInv'
<1>1. /\ TypeOK /\ proc[w] \in ProcRow /\ Working(proc[w], order, venue)
      /\ proc[w].at = "reconciling" /\ proc[w].todo = {}
      /\ UNCHANGED <<order, held, posn, venue>>
  BY AtWork DEF IInv, FinishReconcile
<1>2. proc[w].snap = Missing
  BY <1>1 DEF Working
<1>3. PICK x \in ProcRow : /\ proc' = [proc EXCEPT ![w] = x]
                           /\ x.at \in {"idle", "tick", "loop"} /\ x.todo = {} /\ x.snap = Missing
  <2>1. CASE proc[w].then = "idle"
    BY <1>1, <2>1, IdleShape, Types DEF FinishReconcile
  <2>2. CASE proc[w].then # "idle"
    <3>1. PICK x : x = [proc[w] EXCEPT !.at = proc[w].then, !.then = "idle", !.unsent = {}]
      OBVIOUS
    <3>2. x \in ProcRow /\ x.at \in {"idle", "tick", "loop"} /\ x.todo = {} /\ x.snap = Missing
      BY <1>1, <1>2, <3>1 DEF ProcRow, Places
    <3>3. proc' = [proc EXCEPT ![w] = x]
      BY <1>1, <2>2, <3>1, Types DEF FinishReconcile
    <3>4. QED
      BY <3>2, <3>3
  <2>3. QED
    BY <2>1, <2>2
<1>4. Working(x, order, venue)
  BY <1>3, Free
<1>5. QED
  BY <1>1, <1>3, <1>4, OnlyProc

LEMMA StartCancelKeeps ==
  ASSUME IInv, NEW w \in Procs, NEW o \in Orders,
         StartCancel(w, o) \/ \E i \in Intent : CancelForExit(w, i, o)
  PROVE  IInv'
<1>1. /\ TypeOK /\ proc[w] \in ProcRow /\ Working(proc[w], order, venue)
      /\ order[o].status # "absent" /\ UNCHANGED <<order, held, posn, venue>>
  BY AtWork DEF IInv, StartCancel, CancelForExit, PendingOn, PendingOrders, Pending
<1>2. PICK x \in ProcRow : /\ proc' = [proc EXCEPT ![w] = x]
                           /\ x.at = "cancel" /\ x.on = o /\ x.snap = Missing
                           /\ \A u \in x.todo : order[u].status # "absent"
  <2>1. CASE StartCancel(w, o)
    <3>1. PICK x : x = [Idle EXCEPT !.at = "cancel", !.on = o]
      OBVIOUS
    <3>2. x \in ProcRow /\ x.at = "cancel" /\ x.on = o /\ x.snap = Missing /\ x.todo = {}
      BY <3>1, IdleShape DEF ProcRow, Places
    <3>3. proc' = [proc EXCEPT ![w] = x]
      BY <2>1, <3>1 DEF StartCancel
    <3>4. QED
      BY <3>2, <3>3
  <2>2. ASSUME NEW i \in Intent, CancelForExit(w, i, o)
        PROVE  \E x \in ProcRow : /\ proc' = [proc EXCEPT ![w] = x]
                           /\ x.at = "cancel" /\ x.on = o /\ x.snap = Missing
                           /\ \A u \in x.todo : order[u].status # "absent"
    <3>1. PICK x : x = [proc[w] EXCEPT !.at = "cancel", !.on = o, !.then = "loop",
                                       !.intents = @ \ {i}]
      OBVIOUS
    <3>2. x \in ProcRow /\ x.at = "cancel" /\ x.on = o /\ x.snap = proc[w].snap
          /\ x.todo = proc[w].todo
      BY <1>1, <3>1 DEF ProcRow, Places
    <3>3. proc[w].snap = Missing /\ \A u \in proc[w].todo : order[u].status # "absent"
      BY <1>1, <2>2 DEF Working, CancelForExit
    <3>4. proc' = [proc EXCEPT ![w] = x]
      BY <1>1, <2>2, <3>1, Types DEF CancelForExit
    <3>5. QED
      BY <3>2, <3>3, <3>4
  <2>3. QED
    BY <2>1, <2>2
<1>3. Working(x, order, venue)
  BY <1>1, <1>2 DEF Working
<1>4. QED
  BY <1>1, <1>2, <1>3, OnlyProc

LEMMA ReadBookKeeps ==
  ASSUME IInv, NEW w \in Procs, ReadBook(w)
  PROVE  IInv'
<1>1. /\ TypeOK /\ proc[w] \in ProcRow /\ Working(proc[w], order, venue) /\ proc[w].at = "tick"
      /\ UNCHANGED <<order, held, posn, venue>>
  BY AtWork DEF IInv, ReadBook
<1>2. PICK complete \in BOOLEAN :
        proc' = [proc EXCEPT ![w].at = "evaluate", ![w].seen = held,
                             ![w].fresh = complete /\ PendingOrders = {}]
  BY DEF ReadBook
<1>3. PICK x : x = [proc[w] EXCEPT !.at = "evaluate", !.seen = held,
                                   !.fresh = complete /\ PendingOrders = {}]
  OBVIOUS
<1>4. (complete /\ PendingOrders = {}) \in BOOLEAN
  OBVIOUS
<1>5. x \in ProcRow /\ x.at = "evaluate" /\ x.on = proc[w].on /\ x.snap = proc[w].snap
      /\ x.todo = proc[w].todo
  BY <1>1, <1>3, <1>4, Types DEF ProcRow, Places
<1>6. proc' = [proc EXCEPT ![w] = x]
  BY <1>1, <1>2, <1>3, Types
<1>7. Working(x, order, venue)
  BY <1>1, <1>5 DEF Working
<1>8. QED
  BY <1>1, <1>5, <1>6, <1>7, OnlyProc

LEMMA EvaluateKeeps ==
  ASSUME IInv, NEW w \in Procs, Evaluate(w)
  PROVE  IInv'
<1>1. TypeOK /\ UNCHANGED <<order, held, posn, venue>> /\ proc[w] \in ProcRow
  BY AtWork DEF IInv, Evaluate
<1>2. PICK accepted \in {FALSE, proc[w].fresh}, I \in ExitBatches(w) \cup {{i} : i \in Entry} :
        LET entry == \E i \in I : i.side = "buy"
            now == [Idle EXCEPT !.at = "loop", !.intents = I, !.fresh = entry,
                                !.seen = IF entry THEN proc[w].seen ELSE @]
        IN proc' = IF accepted THEN OthersStale(w, now) ELSE [proc EXCEPT ![w] = now]
  BY DEF Evaluate
<1>3. I \in SUBSET Intent
  BY DEF ExitBatches, Intent
<1>4. (\E i \in I : i.side = "buy") \in BOOLEAN
  OBVIOUS
<1>5. PICK x : x = [Idle EXCEPT !.at = "loop", !.intents = I, !.fresh = \E i \in I : i.side = "buy",
                       !.seen = IF \E i \in I : i.side = "buy" THEN proc[w].seen ELSE @]
  OBVIOUS
<1>6. x \in ProcRow /\ x.at = "loop" /\ x.todo = {} /\ x.snap = Missing
  BY <1>1, <1>3, <1>4, <1>5, IdleShape DEF ProcRow, Places
<1>7. proc' = [proc EXCEPT ![w] = x] \/ proc' = OthersStale(w, x)
  BY <1>2, <1>5
<1>8. Working(x, order, venue)
  BY <1>6, Free
<1>9. QED
  BY <1>1, <1>6, <1>7, <1>8, OnlyProc

LEMMA TurnDownKeeps ==
  ASSUME IInv, NEW w \in Procs, NEW i \in Intent, TurnDown(w, i)
  PROVE  IInv'
<1>1. /\ TypeOK /\ proc[w] \in ProcRow /\ Working(proc[w], order, venue) /\ proc[w].at = "loop"
      /\ UNCHANGED <<order, held, posn, venue>>
      /\ proc' = [proc EXCEPT ![w].intents = @ \ {i}]
  BY AtWork DEF IInv, TurnDown
<1>2. PICK x : x = [proc[w] EXCEPT !.intents = @ \ {i}]
  OBVIOUS
<1>3. x \in ProcRow /\ x.at = "loop" /\ x.on = proc[w].on /\ x.snap = proc[w].snap
      /\ x.todo = proc[w].todo
  BY <1>1, <1>2 DEF ProcRow
<1>4. proc' = [proc EXCEPT ![w] = x]
  BY <1>1, <1>2, Types
<1>5. Working(x, order, venue)
  BY <1>1, <1>3 DEF Working
<1>6. QED
  BY <1>1, <1>3, <1>4, <1>5, OnlyProc

LEMMA StopKeeps ==
  ASSUME IInv, NEW w \in Procs, FinishTick(w) \/ Stop(w)
  PROVE  IInv'
<1>1. proc' = [proc EXCEPT ![w] = Idle] /\ UNCHANGED <<order, held, posn, venue>>
  BY DEF FinishTick, Stop
<1>2. Working(Idle, order, venue)
  BY IdleShape, Free
<1>3. QED
  BY <1>1, <1>2, IdleShape, OnlyProc

LEMMA StepOverKeeps ==
  ASSUME IInv, NEW w \in Procs, StepOver(w)
  PROVE  IInv'
<1>1. TypeOK /\ proc[w] \in ProcRow /\ UNCHANGED <<order, held, posn, venue>>
  BY AtWork DEF IInv, StepOver
<1>2. PICK x : x = [proc[w] EXCEPT !.at = "loop", !.then = "idle", !.on = None,
                                   !.snap = Missing, !.todo = {}, !.unsent = {}]
  OBVIOUS
<1>3. x \in ProcRow /\ x.at = "loop" /\ x.snap = Missing /\ x.todo = {}
  BY <1>1, <1>2, IdleShape DEF ProcRow, Places, Missing, Snapshot
<1>4. proc' = [proc EXCEPT ![w] = x]
  BY <1>1, <1>2, Types DEF StepOver
<1>5. Working(x, order, venue)
  BY <1>3, Free
<1>6. QED
  BY <1>1, <1>3, <1>4, <1>5, OnlyProc

-----------------------------------------------------------------------------
(* Marks: a status is written, nothing is booked *)

LEMMA MarkedRow ==
  ASSUME TypeOK, NEW o \in Orders, order[o].status # "absent",
         NEW status \in Pending \cup Terminal, order' = Marked(o, status)
  PROVE  \E r \in Rows : /\ order' = [order EXCEPT ![o] = r] /\ r.status = status
                         /\ r.intent = order[o].intent /\ r.filled = order[o].filled
<1>1. order[o] \in Rows
  BY Types, RowShape
<1>2. PICK r : r = [order[o] EXCEPT !.status = status]
  OBVIOUS
<1>3. r \in Rows /\ r.status = status /\ r.intent = order[o].intent /\ r.filled = order[o].filled
  BY <1>1, <1>2 DEF Rows
<1>4. order' = [order EXCEPT ![o] = r]
  BY <1>1, <1>2, Types DEF Marked
<1>5. QED
  BY <1>3, <1>4

\* Orders stay in the journal when one of them is marked.
LEMMA MarkedWorks ==
  ASSUME TypeOK, NEW o \in Orders, NEW r \in Rows, order' = [order EXCEPT ![o] = r],
         NEW u \in Orders, order[u].status # "absent"
  PROVE  order'[u].status # "absent"
  BY Types, RowFields

LEMMA RecordDeclinedKeeps ==
  ASSUME IInv, NEW w \in Procs, NEW o \in Orders, RecordDeclined(w, o)
  PROVE  IInv'
<1>1. /\ TypeOK /\ proc[w] \in ProcRow /\ Working(proc[w], order, venue)
      /\ proc[w].at = "reconciling" /\ o \in proc[w].todo /\ venue[o].state = "declined"
      /\ order' = Marked(o, "canceled") /\ proc' = [proc EXCEPT ![w].todo = @ \ {o}]
      /\ UNCHANGED <<held, posn, venue>> /\ Sound(order[o], venue[o])
  BY AtWork DEF IInv, RecordDeclined, Kept
<1>2. order[o].status # "absent"
  BY <1>1 DEF Working
<1>3. PICK r \in Rows : /\ order' = [order EXCEPT ![o] = r] /\ r.status = "canceled"
                        /\ r.intent = order[o].intent /\ r.filled = order[o].filled
  BY <1>1, <1>2, MarkedRow DEF Terminal
<1>4. PICK x : x = [proc[w] EXCEPT !.todo = @ \ {o}]
  OBVIOUS
<1>5. x \in ProcRow /\ x.at = "reconciling" /\ x.snap = proc[w].snap /\ x.todo = proc[w].todo \ {o}
  BY <1>1, <1>4 DEF ProcRow
<1>6. proc' = [proc EXCEPT ![w] = x]
  BY <1>1, <1>4, Types
<1>7. r.status \in Terminal => venue[o].state \in Final /\ r.filled = venue[o].fill
  <2>1. order[o].filled \in Nat /\ venue[o].fill \in Nat
    BY <1>1, KnownSums DEF Rowed
  <2>2. QED
    BY <1>1, <1>2, <1>3, <2>1 DEF Sound, Unfilled, Final
<1>8. \A u \in x.todo : u \in Orders /\ order[u].status # "absent"
  BY <1>1, <1>5 DEF Working, ProcRow
<1>9. Working(x, order', venue)
  BY <1>1, <1>3, <1>5, <1>8, MarkedWorks DEF Working
<1>10. x \in ProcRow /\ x.at # "send" /\ UNCHANGED <<held, posn, venue>>
  BY <1>1, <1>5
<1>11. QED
  BY <1>2, <1>3, <1>6, <1>7, <1>9, <1>10, Mark

LEMMA ReconciledShape ==
  ASSUME TypeOK, NEW w \in Procs
  PROVE  /\ Reconciled(w) \in ProcRow /\ Reconciled(w).at = "reconciling"
         /\ Reconciled(w).todo = proc[w].todo \ {proc[w].on}
         /\ Reconciled(w).on = None /\ Reconciled(w).snap = Missing
<1>1. proc[w] \in ProcRow /\ Missing \in Snapshot
  BY Types, Constants DEF Missing, Snapshot
<1>2. QED
  BY <1>1 DEF Reconciled, ProcRow, Places

LEMMA RecordMissingKeeps ==
  ASSUME IInv, NEW w \in Procs, RecordMissing(w)
  PROVE  IInv'
<1>0. PICK o : o = proc[w].on
  OBVIOUS
<1>1. /\ TypeOK /\ proc[w] \in ProcRow /\ Working(proc[w], order, venue)
      /\ proc[w].at = "apply" /\ order' = Marked(o, AbsentStatus(w, o))
      /\ proc' = [proc EXCEPT ![w] = Reconciled(w)]
      /\ UNCHANGED <<held, posn, venue>>
  BY <1>0, AtWork DEF IInv, RecordMissing
<1>2. o \in Orders /\ order[o].status # "absent" /\ Sound(order[o], venue[o])
  BY <1>0, <1>1 DEF Working, IInv, Kept
<1>3. AbsentStatus(w, o) \in Pending \cup Terminal
      /\ (AbsentStatus(w, o) \in Terminal => order[o].status = AbsentStatus(w, o))
  <2>1. order[o].status \in Pending \cup Terminal
    BY <1>1, <1>2, Types, RowShape
  <2>2. QED
    BY <2>1 DEF AbsentStatus, Pending, Terminal
<1>4. PICK r \in Rows : /\ order' = [order EXCEPT ![o] = r] /\ r.status = AbsentStatus(w, o)
                        /\ r.intent = order[o].intent /\ r.filled = order[o].filled
  BY <1>1, <1>2, <1>3, MarkedRow
<1>5. r.status \in Terminal => venue[o].state \in Final /\ r.filled = venue[o].fill
  BY <1>2, <1>3, <1>4 DEF Sound
<1>6. PICK x \in ProcRow : /\ x = Reconciled(w) /\ x.at = "reconciling" /\ x.snap = Missing
                           /\ x.todo = proc[w].todo \ {proc[w].on}
  BY <1>1, ReconciledShape
<1>7. \A u \in x.todo : u \in Orders /\ order[u].status # "absent"
  BY <1>1, <1>6 DEF Working, ProcRow
<1>8. Working(x, order', venue)
  BY <1>1, <1>2, <1>4, <1>6, <1>7, MarkedWorks DEF Working
<1>9. proc' = [proc EXCEPT ![w] = x] /\ x.at # "send"
  BY <1>1, <1>6
<1>10. QED
  BY <1>1, <1>2, <1>4, <1>5, <1>8, <1>9, Mark

LEMMA MarkCancelKeeps ==
  ASSUME IInv, NEW w \in Procs, MarkCancel(w)
  PROVE  IInv'
<1>0. PICK o : o = proc[w].on
  OBVIOUS
<1>1. /\ TypeOK /\ proc[w] \in ProcRow /\ Working(proc[w], order, venue)
      /\ proc[w].at = "cancel" /\ order' = Marked(o, "cancel_pending")
      /\ proc' = [proc EXCEPT ![w] = Listed([@ EXCEPT !.on = None], PendingOrders \cup {@.on})]
      /\ UNCHANGED <<held, posn, venue>>
  BY <1>0, AtWork DEF IInv, MarkCancel
<1>2. o \in Orders /\ order[o].status # "absent" /\ proc[w].snap = Missing
  BY <1>0, <1>1 DEF Working
<1>3. PICK r \in Rows : /\ order' = [order EXCEPT ![o] = r] /\ r.status = "cancel_pending"
                        /\ r.intent = order[o].intent /\ r.filled = order[o].filled
  BY <1>1, <1>2, MarkedRow DEF Pending
<1>4. PICK me : me = [proc[w] EXCEPT !.on = None]
  OBVIOUS
<1>5. me \in ProcRow /\ me.snap = Missing
  BY <1>1, <1>2, <1>4 DEF ProcRow
<1>6. PendingOrders \cup {o} \in SUBSET Orders
      /\ \A u \in PendingOrders \cup {o} : order[u].status # "absent"
  BY <1>2 DEF PendingOrders, Pending
<1>7. \A u \in PendingOrders \cup {o} : order'[u].status # "absent"
  BY <1>1, <1>2, <1>3, <1>6, MarkedWorks
<1>8. PICK x : x = Listed(me, PendingOrders \cup {o})
  OBVIOUS
<1>9. x \in ProcRow /\ Working(x, order', venue) /\ x.at = "reconciling"
  BY <1>1, <1>5, <1>6, <1>7, <1>8, ListedWorks
<1>10. proc' = [proc EXCEPT ![w] = x] /\ x.at # "send"
  BY <1>0, <1>1, <1>4, <1>8, <1>9
<1>11. r.status \notin Terminal
  BY <1>3 DEF Terminal
<1>12. QED
  BY <1>1, <1>2, <1>3, <1>9, <1>10, <1>11, Mark

LEMMA RepliedShape ==
  ASSUME IInv, NEW w \in Procs, proc[w].at \in {"send", "reply"}, NEW ord, NEW ven,
         \A o \in Orders : order[o].status # "absent" => ord[o].status # "absent"
  PROVE  /\ Replied(w) \in ProcRow /\ Replied(w).at = "loop" /\ Replied(w).snap = Missing
         /\ Working(Replied(w), ord, ven)
<1>1. proc[w] \in ProcRow /\ Working(proc[w], order, venue)
  BY AtWork
<1>2. /\ Replied(w) \in ProcRow /\ Replied(w).at = "loop" /\ Replied(w).snap = proc[w].snap
      /\ Replied(w).todo = proc[w].todo
  BY <1>1 DEF Replied, ProcRow, Places
<1>3. proc[w].snap = Missing /\ \A u \in proc[w].todo : u \in Orders /\ order[u].status # "absent"
  BY <1>1 DEF Working, ProcRow
<1>4. QED
  BY <1>2, <1>3 DEF Working

LEMMA ReplyUnclearKeeps ==
  ASSUME IInv, NEW w \in Procs, ReplyUnclear(w)
  PROVE  IInv'
<1>0. PICK o : o = proc[w].on
  OBVIOUS
<1>1. /\ TypeOK /\ proc[w] \in ProcRow /\ Working(proc[w], order, venue)
      /\ proc[w].at \in {"send", "reply"} /\ order' = Marked(o, "uncertain")
      /\ proc' = [proc EXCEPT ![w] = IF @.intents # {} THEN Replied(w) ELSE Idle]
      /\ UNCHANGED <<held, posn, venue>>
  BY <1>0, AtWork DEF IInv, ReplyUnclear
<1>2. o \in Orders /\ order[o].status # "absent"
  BY <1>0, <1>1 DEF Working
<1>3. PICK r \in Rows : /\ order' = [order EXCEPT ![o] = r] /\ r.status = "uncertain"
                        /\ r.intent = order[o].intent /\ r.filled = order[o].filled
  BY <1>1, <1>2, MarkedRow DEF Pending
<1>4. \A u \in Orders : order[u].status # "absent" => order'[u].status # "absent"
  BY <1>1, <1>2, <1>3, MarkedWorks
<1>5. PICK x \in ProcRow : /\ proc' = [proc EXCEPT ![w] = x] /\ x.at # "send"
                           /\ Working(x, order', venue)
  <2>1. /\ Replied(w) \in ProcRow /\ Replied(w).at = "loop"
        /\ Working(Replied(w), order', venue)
    BY <1>1, <1>4, RepliedShape
  <2>2. Idle \in ProcRow /\ Idle.at = "idle" /\ Working(Idle, order', venue)
    BY IdleShape, Free
  <2>3. proc' = [proc EXCEPT ![w] = Replied(w)] \/ proc' = [proc EXCEPT ![w] = Idle]
    BY <1>1
  <2>4. QED
    BY <2>1, <2>2, <2>3
<1>6. r.status \notin Terminal
  BY <1>3 DEF Terminal
<1>7. QED
  BY <1>1, <1>2, <1>3, <1>5, <1>6, Mark

LEMMA ReplyApprovalKeeps ==
  ASSUME IInv, NEW w \in Procs, ReplyApproval(w)
  PROVE  IInv'
<1>0. PICK o : o = proc[w].on
  OBVIOUS
<1>1. /\ TypeOK /\ proc[w] \in ProcRow /\ Working(proc[w], order, venue)
      /\ proc[w].at = "reply"
      /\ order' = [order EXCEPT ![o].status = "awaiting_approval", ![o].approval = TRUE]
      /\ proc' = [proc EXCEPT ![w] = Replied(w)]
      /\ UNCHANGED <<held, posn, venue>>
  BY <1>0, AtWork DEF IInv, ReplyApproval
<1>2. o \in Orders /\ order[o].status # "absent" /\ order[o] \in Rows
  BY <1>0, <1>1, Types, RowShape DEF Working
<1>3. PICK r : r = [order[o] EXCEPT !.status = "awaiting_approval", !.approval = TRUE]
  OBVIOUS
<1>4. r \in Rows /\ r.status = "awaiting_approval" /\ r.intent = order[o].intent
      /\ r.filled = order[o].filled
  BY <1>2, <1>3 DEF Rows, Pending
<1>5. order' = [order EXCEPT ![o] = r]
  BY <1>1, <1>2, <1>3, Types
<1>6. \A u \in Orders : order[u].status # "absent" => order'[u].status # "absent"
  BY <1>1, <1>2, <1>4, <1>5, MarkedWorks
<1>7. PICK x \in ProcRow : x = Replied(w) /\ x.at = "loop" /\ Working(x, order', venue)
  BY <1>1, <1>6, RepliedShape
<1>8. proc' = [proc EXCEPT ![w] = x] /\ x.at # "send"
  BY <1>1, <1>7
<1>9. r.status \notin Terminal
  BY <1>4 DEF Terminal
<1>10. r \in Rows /\ o \in Orders /\ order[o].status # "absent"
      /\ UNCHANGED <<held, posn, venue>>
  BY <1>1, <1>2, <1>4
<1>11. r.intent = order[o].intent /\ r.filled = order[o].filled
  BY <1>4
<1>12. QED
  BY <1>5, <1>7, <1>8, <1>9, <1>10, <1>11, Mark

-----------------------------------------------------------------------------
(* A snapshot is booked *)

\* No holding is larger than all orders together.
LEMMA HoldingBound ==
  ASSUME NEW ord \in [Orders -> OrderRow], NEW h, BookedOnce(ord, h), NEW p \in Positions
  PROVE  h[p] \in Int /\ h[p] <= MaxQty * Cardinality(Orders)
<1> DEFINE f == FilledOf(p, "buy", ord)
           g == FilledOf(p, "sell", ord)
<1>1. \A o \in Orders : /\ f[o] \in Int /\ 0 <= f[o] /\ f[o] <= MaxQty
                        /\ g[o] \in Nat
  <2>1. \A o \in Orders : ord[o].filled \in 0..MaxQty /\ ord[o].filled \in Nat
    BY RowShape
  <2>2. QED
    BY <2>1, Constants DEF FilledOf
<1> HIDE DEF f, g
<1>2. Total(g) \in Nat
  BY <1>1, Constants, SumOfNats DEF Total
<1>3. Total(f) \in -(0 * Cardinality(Orders))..(MaxQty * Cardinality(Orders))
  <2>1. \A o \in Orders : f[o] \in Int /\ -0 <= f[o] /\ f[o] <= MaxQty
    BY <1>1
  <2>2. Orders \in SUBSET Orders /\ 0 \in Nat
    OBVIOUS
  <2>3. QED
    BY <2>1, <2>2, Constants, SumBounds DEF Total
<1>4. h[p] = Total(f) - Total(g)
  BY DEF BookedOnce, f, g
<1>5. QED
  BY <1>2, <1>3, <1>4, Constants

\* What is booked after one order's fill has grown.
LEMMA FilledMoves ==
  ASSUME NEW ord, NEW new, NEW ven, Rowed(ord, ven), Rowed(new, ven), NEW o \in Orders,
         \A u \in Orders \ {o} : new[u] = ord[u],
         ord[o].status # "absent", new[o].status # "absent", new[o].intent = ord[o].intent,
         NEW p, NEW side
  PROVE  Total(FilledOf(p, side, new)) =
           Total(FilledOf(p, side, ord))
             + IF p = ord[o].intent.pos /\ side = ord[o].intent.side
               THEN new[o].filled - ord[o].filled ELSE 0
<1>a. (\A u \in Orders : FilledOf(p, side, ord)[u] \in Nat) /\ Total(FilledOf(p, side, ord)) \in Nat
  BY SumsAreNumbers
<1>b. \A u \in Orders : FilledOf(p, side, new)[u] \in Nat
  BY SumsAreNumbers
<1>c. PICK f, g : f = FilledOf(p, side, ord) /\ g = FilledOf(p, side, new)
  OBVIOUS
<1>1. \A u \in Orders : f[u] \in Int /\ g[u] \in Int
  BY <1>a, <1>b, <1>c
<1>2. \A u \in Orders \ {o} : f[u] = g[u]
  BY <1>c DEF FilledOf
<1>3. IF p = ord[o].intent.pos /\ side = ord[o].intent.side
      THEN f[o] = ord[o].filled /\ g[o] = new[o].filled
      ELSE f[o] = 0 /\ g[o] = 0
  BY <1>c DEF FilledOf, On
<1>4. Total(f) \in Int
  BY <1>a, <1>c
<1>5. ord[o].filled \in Int /\ new[o].filled \in Int
  BY DEF Rowed
<1>6. Total(g) = Total(f) - f[o] + g[o]
  BY <1>1, <1>2, Constants, SumChangedAt DEF Total
<1>7. Total(g) = Total(f) + IF p = ord[o].intent.pos /\ side = ord[o].intent.side
                            THEN new[o].filled - ord[o].filled ELSE 0
  BY <1>1, <1>3, <1>4, <1>5, <1>6
<1>8. QED
  BY <1>7, <1>c

LEMMA SnapshotRow ==
  ASSUME TypeOK, NEW w, NEW o \in Orders, order[o].status # "absent", NEW s \in Snapshot,
         Witness(s, venue[o]), NEW after, ApplySnapshot(w, o, s, after)
  PROVE  \E r \in Rows : /\ order' = [order EXCEPT ![o] = r]
                         /\ r.intent = order[o].intent /\ r.filled = s.fill
                         /\ r.status \in Terminal => r.status = s.state
<1>1. order[o] \in Rows /\ s.fill \in 0..MaxQty
  BY Types, RowShape, SnapShape
<1>2. NextStatus(o, s) \in Pending \cup Terminal
      /\ (NextStatus(o, s) \in Terminal => NextStatus(o, s) = s.state)
  BY DEF Witness, Visible, NextStatus, LocalState, Pending, Terminal
<1>3. PICK r : r = [order[o] EXCEPT !.status = NextStatus(o, s), !.filled = s.fill, !.known = TRUE]
  OBVIOUS
<1>4. r \in Rows /\ r.status = NextStatus(o, s) /\ r.intent = order[o].intent /\ r.filled = s.fill
  BY <1>1, <1>2, <1>3 DEF Rows
<1>5. order' = [order EXCEPT ![o] = r]
  BY <1>1, <1>3, Types DEF ApplySnapshot
<1>6. QED
  BY <1>2, <1>4, <1>5

LEMMA SnapshotHoldings ==
  ASSUME TypeOK, NEW w, NEW o \in Orders, order[o].status # "absent", NEW s \in Snapshot,
         NEW after, ApplySnapshot(w, o, s, after)
  PROVE  LET i == order[o].intent
             d == s.fill - order[o].filled
         IN /\ d \in Nat /\ i.pos \in Positions /\ i.side \in {"buy", "sell"}
            /\ held'[i.pos] = (IF i.side = "buy" THEN held[i.pos] + d ELSE held[i.pos] - d)
            /\ held'[i.pos] >= 0
            /\ \A p \in Positions \ {i.pos} : held'[p] = held[p]
            /\ \E h : held' = [p \in Positions |-> h[p]]
            /\ posn' \in [Positions -> {"none", "open", "closed"}]
<1> DEFINE i == order[o].intent
           d == s.fill - order[o].filled
<1>1. /\ i.pos \in Positions /\ i.side \in {"buy", "sell"}
      /\ s.fill \in Nat /\ order[o].filled \in Nat /\ held[i.pos] \in Nat
  BY Types, RowShape, RowFields, SnapShape
<1>2. s.fill >= order[o].filled /\ (d > 0 /\ i.side = "sell" => d <= held[i.pos])
  BY DEF ApplySnapshot, Accepts
<1>3. held \in [Positions -> Nat] /\ posn \in [Positions -> {"none", "open", "closed"}]
  BY Types
<1>4. CASE d # 0
  <2>1. held' = [held EXCEPT ![i.pos] = IF i.side = "buy" THEN @ + d ELSE @ - d]
    BY <1>4 DEF ApplySnapshot, BookedHolding, Increment
  <2>2. posn' \in [Positions -> {"none", "open", "closed"}]
    <3>1. posn' = [posn EXCEPT ![i.pos] = IF held'[i.pos] = 0 THEN "closed" ELSE "open"]
      BY <1>4 DEF ApplySnapshot, Increment
    <3>2. QED
      BY <1>3, <3>1
  <2>3. held'[i.pos] = IF i.side = "buy" THEN held[i.pos] + d ELSE held[i.pos] - d
    BY <1>1, <1>3, <2>1
  <2>4. /\ \A p \in Positions \ {i.pos} : held'[p] = held[p]
        /\ \E h : held' = [p \in Positions |-> h[p]]
    <3>1. PICK n : held' = [held EXCEPT ![i.pos] = n]
      BY <2>1
    <3>2. held' = [p \in Positions |-> IF p = i.pos THEN n ELSE held[p]]
      BY <1>3, <3>1
    <3>3. PICK h : h = held'
      OBVIOUS
    <3>4. \A p \in Positions \ {i.pos} : held'[p] = held[p]
      BY <3>2
    <3>5. h = [p \in Positions |-> h[p]]
      BY <3>2, <3>3
    <3>6. QED
      BY <3>3, <3>4, <3>5
  <2>5. d \in Nat /\ held'[i.pos] >= 0
    BY <1>1, <1>2, <1>4, <2>3
  <2>6. QED
    BY <1>1, <2>2, <2>3, <2>4, <2>5
<1>5. CASE d = 0
  <2>1. held' = held /\ posn' = posn
    BY <1>5 DEF ApplySnapshot, Increment
  <2>2. \E h : held' = [p \in Positions |-> h[p]]
    BY <1>3, <2>1
  <2>3. QED
    BY <1>1, <1>3, <1>5, <2>1, <2>2
<1>6. QED
  BY <1>4, <1>5

LEMMA SnapshotKeeps ==
  ASSUME IInv, NEW w \in Procs, NEW o \in Orders, order[o].status # "absent",
         NEW s \in Snapshot, Witness(s, venue[o]),
         NEW after \in ProcRow, after.at # "send", ApplySnapshot(w, o, s, after),
         Working(after, order', venue)
  PROVE  IInv'
<1>1. TypeOK /\ BookedOnce(order, held) /\ Rowed(order, venue)
      /\ (\A u \in Orders : Sound(order[u], venue[u])) /\ venue' = venue
  BY KnownSums DEF IInv, Kept, ApplySnapshot
<1>2. PICK r \in Rows : /\ order' = [order EXCEPT ![o] = r]
                        /\ r.intent = order[o].intent /\ r.filled = s.fill
                        /\ r.status \in Terminal => r.status = s.state
  BY <1>1, SnapshotRow
<1>3. PICK i : i = order[o].intent
  OBVIOUS
<1>4. PICK d : d = s.fill - order[o].filled
  OBVIOUS
<1>5. /\ d \in Nat /\ i.pos \in Positions /\ i.side \in {"buy", "sell"}
      /\ held'[i.pos] = (IF i.side = "buy" THEN held[i.pos] + d ELSE held[i.pos] - d)
      /\ held'[i.pos] >= 0
      /\ \A p \in Positions \ {i.pos} : held'[p] = held[p]
      /\ \E h : held' = [p \in Positions |-> h[p]]
      /\ posn' \in [Positions -> {"none", "open", "closed"}]
  BY <1>1, <1>3, <1>4, SnapshotHoldings
<1>6. /\ order' \in [Orders -> OrderRow] /\ order'[o] = r
      /\ \A u \in Orders \ {o} : order'[u] = order[u]
  BY <1>1, <1>2, Types, RowsAreRows
<1>7. r.status # "absent" /\ Rowed(order', venue)
  BY <1>1, <1>6, RowFields, TypesAreRowed, Types
<1>8. BookedOnce(order', held')
  <2>1. SUFFICES ASSUME NEW p \in Positions
                 PROVE  held'[p] = Total(FilledOf(p, "buy", order')) - Total(FilledOf(p, "sell", order'))
    BY DEF BookedOnce
  <2>2. \A side : Total(FilledOf(p, side, order')) = Total(FilledOf(p, side, order))
                    + IF p = i.pos /\ side = i.side THEN d ELSE 0
    <3>1. TAKE side
    <3>2. order'[o].status # "absent" /\ order'[o].intent = order[o].intent
          /\ order'[o].filled = s.fill
      BY <1>2, <1>6, <1>7
    <3>3. Total(FilledOf(p, side, order')) = Total(FilledOf(p, side, order))
            + IF p = order[o].intent.pos /\ side = order[o].intent.side
              THEN order'[o].filled - order[o].filled ELSE 0
      BY <1>1, <1>6, <1>7, <3>2, FilledMoves
    <3>4. QED
      BY <1>3, <1>4, <3>2, <3>3
  <2>3. /\ Total(FilledOf(p, "buy", order)) \in Nat /\ Total(FilledOf(p, "sell", order)) \in Nat
        /\ held[p] = Total(FilledOf(p, "buy", order)) - Total(FilledOf(p, "sell", order))
    BY <1>1, SumsAreNumbers DEF BookedOnce
  <2>4. CASE p = i.pos
    BY <1>5, <2>2, <2>3, <2>4
  <2>5. CASE p # i.pos
    BY <1>5, <2>2, <2>3, <2>5
  <2>6. QED
    BY <2>4, <2>5
<1>9. held' \in [Positions -> 0..(MaxQty * Cardinality(Orders))]
  <2>1. ASSUME NEW p \in Positions PROVE held'[p] \in 0..(MaxQty * Cardinality(Orders))
    <3>1. held'[p] \in Int /\ held'[p] <= MaxQty * Cardinality(Orders)
      BY <1>6, <1>8, HoldingBound
    <3>2. held'[p] >= 0
      BY <1>1, <1>5, Types
    <3>3. QED
      BY <3>1, <3>2, Constants
  <2>2. QED
    BY <1>5, <2>1
<1>10. \A u \in Orders : /\ order'[u].status = "absent" <=> order[u].status = "absent"
                         /\ order'[u].intent = order[u].intent
                         /\ Sound(order'[u], venue[u])
  <2>1. Sound(r, venue[o])
    <3>1. venue[o] \in VenueRow /\ order[o].filled \in Nat
      BY <1>1, Types DEF Rowed
    <3>2. r.status \in Terminal => venue[o].state \in Final /\ r.filled = venue[o].fill
      BY <1>2 DEF Witness, Terminal, Final
    <3>3. QED
      BY <1>1, <1>2, <1>7, <3>2 DEF Sound, Witness
  <2>2. QED
    BY <1>1, <1>2, <1>6, <1>7, <2>1
<1>11. PICK x \in ProcRow : /\ proc' = [proc EXCEPT ![w] = x] \/ proc' = OthersStale(w, x)
                            /\ x.at = after.at /\ x.on = after.on /\ x.todo = after.todo
                            /\ x.snap = after.snap
  <2>1. PICK y : y = [after EXCEPT !.fresh = FALSE]
    OBVIOUS
  <2>2. /\ y \in ProcRow /\ y.at = after.at /\ y.on = after.on /\ y.todo = after.todo
        /\ y.snap = after.snap
    BY <2>1 DEF ProcRow
  <2>3. proc' = OthersStale(w, y) \/ proc' = [proc EXCEPT ![w] = after]
    BY <2>1 DEF ApplySnapshot
  <2>4. QED
    BY <2>2, <2>3
<1>12. Moves(w, x) /\ x.at # "send"
  BY <1>1, <1>11, MovesAlone
<1>13. Working(x, order', venue')
  BY <1>1, <1>11 DEF Working
<1>14. posn' \in [Positions -> {"none", "open", "closed"}] /\ venue' = venue
  BY <1>1, <1>5
<1>15. QED
  BY <1>6, <1>8, <1>9, <1>10, <1>12, <1>13, <1>14, Quiet

LEMMA RecordFoundKeeps ==
  ASSUME IInv, NEW w \in Procs, RecordFound(w)
  PROVE  IInv'
<1>1. /\ TypeOK /\ proc[w] \in ProcRow /\ Working(proc[w], order, venue)
      /\ proc[w].at = "apply" /\ proc[w].snap # Missing
      /\ ApplySnapshot(w, proc[w].on, proc[w].snap, Reconciled(w))
  BY AtWork DEF IInv, RecordFound
<1>2. PICK o \in Orders : o = proc[w].on /\ order[o].status # "absent"
  BY <1>1 DEF Working
<1>3. PICK s \in Snapshot : s = proc[w].snap /\ Witness(s, venue[o])
  BY <1>1, <1>2 DEF Working, ProcRow
<1>4. PICK r \in Rows : order' = [order EXCEPT ![o] = r]
  BY <1>1, <1>2, <1>3, SnapshotRow
<1>5. PICK x \in ProcRow : /\ x = Reconciled(w) /\ x.at = "reconciling" /\ x.snap = Missing
                           /\ x.todo = proc[w].todo \ {proc[w].on}
  BY <1>1, ReconciledShape
<1>6. \A u \in x.todo : u \in Orders /\ order[u].status # "absent"
  BY <1>1, <1>5 DEF Working, ProcRow
<1>7. Working(x, order', venue)
  BY <1>1, <1>2, <1>4, <1>5, <1>6, MarkedWorks DEF Working
<1>8. ApplySnapshot(w, o, s, x) /\ x.at # "send"
  BY <1>1, <1>2, <1>3, <1>5
<1>9. QED
  BY <1>2, <1>3, <1>7, <1>8, SnapshotKeeps

LEMMA ReplyOrderKeeps ==
  ASSUME IInv, NEW w \in Procs, ReplyOrder(w)
  PROVE  IInv'
<1>1. /\ TypeOK /\ proc[w] \in ProcRow /\ Working(proc[w], order, venue) /\ proc[w].at = "reply"
  BY AtWork DEF IInv, ReplyOrder
<1>2. PICK o \in Orders : o = proc[w].on /\ order[o].status # "absent"
  BY <1>1 DEF Working
<1>3. PICK s \in {venue[o], [state |-> "working", fill |-> 0]} :
        venue[o].state \in Visible /\ ApplySnapshot(w, o, s, Replied(w))
  BY <1>2 DEF ReplyOrder
<1>4. venue[o] \in VenueRow /\ venue[o].fill \in Nat
  BY <1>1, Types, VenueShape
<1>5. s \in Snapshot /\ Witness(s, venue[o])
  BY <1>3, <1>4, Constants DEF Snapshot, VenueRow, Witness, Visible
<1>6. PICK r \in Rows : order' = [order EXCEPT ![o] = r]
  BY <1>1, <1>2, <1>3, <1>5, SnapshotRow
<1>7. \A u \in Orders : order[u].status # "absent" => order'[u].status # "absent"
  BY <1>1, <1>2, <1>6, MarkedWorks
<1>8. PICK x \in ProcRow : x = Replied(w) /\ x.at = "loop" /\ Working(x, order', venue)
  BY <1>1, <1>7, RepliedShape
<1>9. ApplySnapshot(w, o, s, x) /\ x.at # "send"
  BY <1>3, <1>8
<1>10. QED
  BY <1>2, <1>5, <1>8, <1>9, SnapshotKeeps

-----------------------------------------------------------------------------
(* The venue moves *)

\* Order o goes on to v at the venue: nothing is sold that was not covered, and
\* no entry is at risk that was not.
LEMMA VenueSums ==
  ASSUME IInv, NEW o \in Orders, NEW v \in VenueRow, venue' = [venue EXCEPT ![o] = v],
         UNCHANGED <<order, held>>, order[o].status # "absent", venue[o].state \notin Final,
         venue[o].fill <= v.fill, v.fill <= order[o].intent.qty
  PROVE  BookedOnce(order', held') /\ Covered(order', venue') /\ OneRisk'
<1>1. /\ TypeOK /\ BookedOnce(order, held) /\ Covered(order, venue) /\ Rowed(order, venue)
      /\ OneRisk
  BY KnownSums DEF IInv
<1>2. /\ venue' \in [Orders -> VenueRow] /\ venue'[o] = v
      /\ \A u \in Orders \ {o} : venue'[u] = venue[u]
  BY <1>1, Types
<1>3. Rowed(order, venue')
  BY <1>1, <1>2, Types, TypesAreRowed
<1>4. OneRisk'
  BY <1>1, <1>2 DEF OneRisk, Risky
<1>5. ASSUME NEW p \in Positions
      PROVE  Total(SoldOf(p, order, venue')) <= Total(BoughtOf(p, order, venue'))
  <2>a. /\ \A u \in Orders : SoldOf(p, order, venue)[u] \in Nat /\ BoughtOf(p, order, venue)[u] \in Nat
        /\ Total(SoldOf(p, order, venue)) \in Nat /\ Total(BoughtOf(p, order, venue)) \in Nat
    BY <1>1, SumsAreNumbers
  <2>b. /\ \A u \in Orders : SoldOf(p, order, venue')[u] \in Nat /\ BoughtOf(p, order, venue')[u] \in Nat
        /\ Total(SoldOf(p, order, venue')) \in Nat /\ Total(BoughtOf(p, order, venue')) \in Nat
    BY <1>3, SumsAreNumbers
  <2>c. PICK s, t, b, c : /\ s = SoldOf(p, order, venue) /\ t = SoldOf(p, order, venue')
                          /\ b = BoughtOf(p, order, venue) /\ c = BoughtOf(p, order, venue')
    OBVIOUS
  <2>d. /\ v.fill \in Nat /\ venue[o].fill \in Nat /\ order[o].intent.qty \in Nat
    BY <1>1, <1>2, <1>3 DEF Rowed
  <2>1. t[o] <= s[o] /\ b[o] <= c[o]
    BY <1>2, <2>c, <2>d DEF SoldOf, BoughtOf, Ends
  <2>2. \A u \in Orders \ {o} : t[u] = s[u] /\ b[u] = c[u]
    BY <1>2, <2>c DEF SoldOf, BoughtOf
  <2>3. \A u \in Orders : /\ t[u] \in Int /\ s[u] \in Int /\ t[u] <= s[u]
                          /\ b[u] \in Int /\ c[u] \in Int /\ b[u] <= c[u]
    <3>1. \A u \in Orders : s[u] \in Nat /\ t[u] \in Nat /\ b[u] \in Nat /\ c[u] \in Nat
      BY <2>a, <2>b, <2>c
    <3>2. \A u \in Orders : t[u] <= s[u] /\ b[u] <= c[u]
      BY <2>1, <2>2, <3>1
    <3>3. QED
      BY <3>1, <3>2
  <2>4. Total(t) <= Total(s) /\ Total(b) <= Total(c)
    BY <2>3, Constants, SumMonotone DEF Total
  <2>5. Total(s) <= Total(b)
    BY <1>1, <2>c DEF Covered
  <2>6. QED
    BY <2>4, <2>5, <2>a, <2>b, <2>c
<1>6. BookedOnce(order', held') /\ Covered(order', venue')
  BY <1>1, <1>5 DEF Covered
<1>7. QED
  BY <1>4, <1>6

LEMMA VenueMoves ==
  ASSUME IInv, NEW o \in Orders, NEW v \in VenueRow, venue' = [venue EXCEPT ![o] = v],
         UNCHANGED <<order, held, posn, proc>>, venue[o].state \in {"inflight", "approval", "working"},
         venue[o].fill <= v.fill, v.fill <= order[o].intent.qty,
         v.state # "none", v.state \in Unfilled => v.fill = 0
  PROVE  IInv'
<1>1. /\ TypeOK /\ (\A u \in Orders : Sound(order[u], venue[u]))
      /\ (\A w \in Procs : Working(proc[w], order, venue)) /\ SendersApart
  BY DEF IInv, Kept
<1>2. /\ venue' \in [Orders -> VenueRow] /\ venue'[o] = v
      /\ \A u \in Orders \ {o} : venue'[u] = venue[u]
  BY <1>1, Types
<1>3. /\ v.fill \in Nat /\ venue[o].fill \in Nat /\ order[o].filled \in Nat
      /\ order[o].intent.qty \in Nat /\ order[o].status # "absent"
  <2>1. order[o].status # "absent"
    BY <1>1 DEF Sound
  <2>2. QED
    BY <1>1, <2>1, Types, RowShape, RowFields, VenueShape
<1>4. TypeOK'
  BY <1>1, <1>2 DEF TypeOK
<1>5. ASSUME NEW u \in Orders PROVE Sound(order'[u], venue'[u])
  <2>1. CASE u = o
    <3>1. Sound(order[o], venue[o]) /\ venue[o].state \notin Final
      BY <1>1 DEF Final
    <3>2. order[o].status \notin Terminal /\ order[o].filled <= venue[o].fill
      BY <1>3, <3>1 DEF Sound
    <3>3. order[o].filled <= v.fill
      BY <1>3, <3>2
    <3>4. Sound(order[o], v)
      BY <1>3, <3>2, <3>3 DEF Sound
    <3>5. QED
      BY <1>2, <2>1, <3>4
  <2>2. CASE u # o
    BY <1>1, <1>2, <2>2
  <2>3. QED
    BY <2>1, <2>2
<1>6. ASSUME NEW w \in Procs PROVE Working(proc'[w], order', venue')
  <2>1. PICK x : x = proc[w] /\ x \in ProcRow /\ Working(x, order, venue)
    BY <1>1, Types
  <2>2. x.snap # Missing => x.at = "apply" /\ x.on \in Orders /\ Witness(x.snap, venue'[x.on])
    <3>1. CASE x.snap # Missing /\ x.on = o
      <4>1. Witness(x.snap, venue[o]) /\ x.at = "apply" /\ x.snap.fill \in Nat
        BY <2>1, <3>1, SnapShape DEF Working, ProcRow
      <4>2. x.snap.state \notin {"filled", "canceled"} /\ x.snap.fill <= v.fill
        BY <1>3, <4>1 DEF Witness
      <4>3. Witness(x.snap, v)
        BY <4>1, <4>2 DEF Witness
      <4>4. QED
        BY <1>2, <3>1, <4>1, <4>3
    <3>2. CASE x.snap # Missing /\ x.on # o
      BY <1>2, <2>1, <3>2 DEF Working
    <3>3. QED
      BY <3>1, <3>2
  <2>3. x.at = "send" => venue'[x.on].state = "none"
    BY <1>2, <2>1 DEF Working
  <2>4. Working(x, order, venue')
    BY <2>1, <2>2, <2>3 DEF Working
  <2>5. QED
    BY <2>1, <2>4
<1>7. Kept' /\ SendersApart'
  BY <1>1, <1>5, <1>6 DEF Kept, SendersApart
<1>8. BookedOnce(order', held') /\ Covered(order', venue') /\ OneRisk'
  BY <1>3, VenueSums DEF Final
<1>9. QED
  BY <1>4, <1>7, <1>8, Conclude

LEMMA VenueKeeps ==
  ASSUME IInv, Venue
  PROVE  IInv'
<1>1. PICK o \in Orders : Take(o) \/ Decide(o) \/ End(o) \/ Fill(o)
  BY DEF Venue
<1>2. /\ TypeOK /\ venue \in [Orders -> VenueRow] /\ venue[o] \in VenueRow
      /\ venue[o].fill \in Nat /\ Sound(order[o], venue[o])
      /\ UNCHANGED <<order, held, posn, proc>>
  BY <1>1, Types, VenueShape DEF IInv, Kept, Take, Decide, End, Fill, VenueStep
<1>3. venue[o].state \in {"inflight", "approval", "working"}
  BY <1>1 DEF Take, Decide, End, Fill, VenueStep
<1>4. order[o].status # "absent"
  BY <1>2, <1>3 DEF Sound
<1>5. order[o].intent.qty \in Nat /\ order[o].intent.qty \in 1..MaxQty
      /\ venue[o].fill <= order[o].intent.qty
  BY <1>2, <1>4, Types, RowShape, RowFields, IntentShape DEF Sound
<1>6. PICK v \in VenueRow : /\ venue' = [venue EXCEPT ![o] = v] /\ v.state # "none"
                            /\ venue[o].fill <= v.fill /\ v.fill <= order[o].intent.qty
                            /\ v.state \in Unfilled => v.fill = 0
  <2>1. CASE Take(o) \/ Decide(o) \/ End(o)
    <3>1. PICK to \in {"approval", "working", "declined", "canceled"} :
            /\ venue' = [venue EXCEPT ![o].state = to]
            /\ to \in Unfilled => venue[o].state \in Unfilled
      BY <2>1 DEF Take, Decide, End, VenueStep, Unfilled
    <3>2. PICK v : v = [venue[o] EXCEPT !.state = to]
      OBVIOUS
    <3>3. v \in VenueRow /\ v.state = to /\ v.fill = venue[o].fill
      BY <1>2, <3>2 DEF VenueRow, Visible
    <3>4. venue' = [venue EXCEPT ![o] = v]
      BY <1>2, <3>1, <3>2
    <3>5. v.state \in Unfilled => v.fill = 0
      BY <1>2, <3>1, <3>3 DEF Sound
    <3>6. v.state # "none" /\ venue[o].fill <= v.fill /\ v.fill <= order[o].intent.qty
      BY <1>2, <1>5, <3>1, <3>3
    <3>7. QED
      BY <3>3, <3>4, <3>5, <3>6
  <2>2. CASE Fill(o)
    <3>1. PICK n \in (venue[o].fill + 1)..order[o].intent.qty :
            venue' = [venue EXCEPT ![o] =
              [state |-> IF n = order[o].intent.qty THEN "filled" ELSE "working", fill |-> n]]
      BY <2>2 DEF Fill
    <3>2. PICK v : v = [state |-> IF n = order[o].intent.qty THEN "filled" ELSE "working", fill |-> n]
      OBVIOUS
    <3>3. n \in 0..MaxQty /\ venue[o].fill <= n /\ n <= order[o].intent.qty
      BY <1>2, <1>5, Constants
    <3>4. v \in VenueRow /\ v.fill = n /\ v.state \in {"filled", "working"}
      BY <3>2, <3>3 DEF VenueRow, Visible
    <3>5. venue' = [venue EXCEPT ![o] = v]
      BY <3>1, <3>2
    <3>6. v.state \notin Unfilled /\ v.state # "none"
      BY <3>4 DEF Unfilled
    <3>7. QED
      BY <3>3, <3>4, <3>5, <3>6
  <2>3. QED
    BY <1>1, <2>1, <2>2
<1>7. QED
  BY <1>2, <1>3, <1>6, VenueMoves

LEMMA SendKeeps ==
  ASSUME IInv, NEW w \in Procs, Send(w)
  PROVE  IInv'
<1>0. PICK o : o = proc[w].on
  OBVIOUS
<1>1. /\ TypeOK /\ proc[w] \in ProcRow /\ Working(proc[w], order, venue)
      /\ proc[w].at = "send" /\ venue' = [venue EXCEPT ![o].state = "inflight"]
      /\ Goto(w, "reply") /\ UNCHANGED <<order, held, posn>>
      /\ SendersApart /\ (\A v \in Procs : Working(proc[v], order, venue))
      /\ \A u \in Orders : Sound(order[u], venue[u])
  BY <1>0, AtWork DEF IInv, Kept, Send
<1>2. o \in Orders /\ order[o].status # "absent" /\ venue[o].state = "none" /\ proc[w].snap = Missing
  BY <1>0, <1>1 DEF Working
<1>3. Sound(order[o], venue[o]) /\ venue[o] \in VenueRow /\ venue[o].fill = 0
  BY <1>1, <1>2, Types DEF Sound, Unfilled
<1>4. PICK v : v = [venue[o] EXCEPT !.state = "inflight"]
  OBVIOUS
<1>5. v \in VenueRow /\ v.state = "inflight" /\ v.fill = 0
  BY <1>3, <1>4 DEF VenueRow
<1>6. /\ venue' = [venue EXCEPT ![o] = v] /\ venue' \in [Orders -> VenueRow] /\ venue'[o] = v
      /\ \A u \in Orders \ {o} : venue'[u] = venue[u]
  BY <1>1, <1>2, <1>4, <1>5, Types
<1>7. PICK x : x = [proc[w] EXCEPT !.at = "reply"]
  OBVIOUS
<1>8. /\ x \in ProcRow /\ x.at = "reply" /\ x.on = o /\ x.snap = Missing
      /\ x.todo = proc[w].todo
  BY <1>0, <1>1, <1>2, <1>7 DEF ProcRow, Places
<1>9. /\ proc' \in [Procs -> ProcRow] /\ proc'[w] = x
      /\ \A u \in Procs \ {w} : proc'[u] = proc[u]
  BY <1>1, <1>7, <1>8, Types DEF Goto
<1>10. TypeOK'
  BY <1>1, <1>6, <1>9 DEF TypeOK
<1>11. ASSUME NEW u \in Orders PROVE Sound(order'[u], venue'[u])
  <2>1. Sound(order[o], v)
    BY <1>2, <1>3, <1>5 DEF Sound, Unfilled, Final
  <2>2. QED
    BY <1>1, <1>6, <2>1
<1>12. ASSUME NEW u \in Procs PROVE Working(proc'[u], order', venue')
  <2>1. CASE u = w
    <3>1. Working(x, order, venue')
      BY <1>1, <1>2, <1>8 DEF Working
    <3>2. QED
      BY <1>1, <1>9, <2>1, <3>1
  <2>2. CASE u # w
    <3>1. PICK y : y = proc[u] /\ y = proc'[u] /\ y \in ProcRow /\ Working(y, order, venue)
      BY <1>1, <1>9, <2>2, Types
    <3>2. y.at = "send" => y.on # o
      BY <1>0, <1>1, <2>2, <3>1 DEF SendersApart
    <3>3. y.snap # Missing => Witness(y.snap, venue'[y.on])
      <4>1. SUFFICES ASSUME y.snap # Missing PROVE Witness(y.snap, venue'[y.on])
        OBVIOUS
      <4>2. Witness(y.snap, venue[y.on]) /\ y.on \in Orders /\ y.snap \in Snapshot
        BY <3>1, <4>1 DEF Working, ProcRow
      <4>3. CASE y.on = o
        <5>1. y.snap.fill <= v.fill
          BY <1>3, <1>5, <4>2, <4>3 DEF Witness
        <5>2. y.snap.state \notin {"filled", "canceled"}
          BY <1>2, <4>2, <4>3 DEF Witness
        <5>3. QED
          BY <1>6, <4>2, <4>3, <5>1, <5>2 DEF Witness
      <4>4. CASE y.on # o
        BY <1>6, <4>2, <4>4
      <4>5. QED
        BY <4>3, <4>4
    <3>4. Working(y, order, venue')
      BY <1>6, <3>1, <3>2, <3>3 DEF Working
    <3>5. QED
      BY <1>1, <3>1, <3>4
  <2>3. QED
    BY <2>1, <2>2
<1>13. Kept' /\ SendersApart'
  BY <1>1, <1>8, <1>9, <1>11, <1>12 DEF Kept, SendersApart
<1>14. BookedOnce(order', held') /\ Covered(order', venue') /\ OneRisk'
  <2>1. venue[o].fill <= v.fill /\ v.fill <= order[o].intent.qty /\ venue[o].state \notin Final
    BY <1>2, <1>3, <1>5 DEF Sound, Final
  <2>2. QED
    BY <1>1, <1>2, <1>5, <1>6, <2>1, VenueSums
<1>15. QED
  BY <1>10, <1>13, <1>14, Conclude

-----------------------------------------------------------------------------
(* An order is reserved *)

\* An order drawn for the first time: nothing is booked for it, and the venue has
\* not heard of it.
LEMMA DrawnBooksNothing ==
  ASSUME NEW ord, NEW new, NEW h, BookedOnce(ord, h), NEW o \in Orders,
         ord[o].status = "absent", new[o].filled = 0, \A u \in Orders \ {o} : new[u] = ord[u]
  PROVE  BookedOnce(new, h)
<1>1. \A p, side : FilledOf(p, side, new) = FilledOf(p, side, ord)
  BY DEF FilledOf, On
<1>2. QED
  BY <1>1 DEF BookedOnce

\* Once no order of a position is pending, what the venue bought and sold for it is
\* what is booked.
LEMMA SettledIsHeld ==
  ASSUME IInv, NEW p \in Positions, PendingOn(p) = {}
  PROVE  Total(SoldOf(p, order, venue)) = Total(FilledOf(p, "sell", order))
         /\ Total(BoughtOf(p, order, venue)) = Total(FilledOf(p, "buy", order))
<1>1. ASSUME NEW o \in Orders, NEW side, On(order[o], p, side)
      PROVE  Ends(order[o], venue[o]) = order[o].filled /\ venue[o].fill = order[o].filled
  <2>1. TypeOK /\ Sound(order[o], venue[o])
    BY DEF IInv, Kept
  <2>2. order[o].status \in {"absent"} \cup Pending \cup Terminal
    BY <2>1, Types, RowShape
  <2>3. order[o].status \in Terminal
    BY <1>1, <2>2 DEF PendingOn, PendingOrders, On
  <2>4. QED
    BY <1>1, <2>1, <2>3 DEF Sound, Ends, On
<1>2. SoldOf(p, order, venue) = FilledOf(p, "sell", order)
  BY <1>1 DEF SoldOf, FilledOf
<1>3. BoughtOf(p, order, venue) = FilledOf(p, "buy", order)
  BY <1>1 DEF BoughtOf, FilledOf
<1>4. QED
  BY <1>2, <1>3

\* An order the venue has nothing of: a drawn entry changes neither sum, a drawn
\* exit adds its quantity to what may be sold of its position.
LEMMA DrawnSums ==
  ASSUME NEW ord, NEW new, NEW ven, Rowed(ord, ven), Rowed(new, ven), NEW o \in Orders,
         ord[o].status = "absent", ven[o].state = "none", ven[o].fill = 0,
         \A u \in Orders \ {o} : new[u] = ord[u], NEW p
  PROVE  /\ Total(BoughtOf(p, new, ven)) = Total(BoughtOf(p, ord, ven))
         /\ Total(SoldOf(p, new, ven)) =
              Total(SoldOf(p, ord, ven)) + IF On(new[o], p, "sell") THEN new[o].intent.qty ELSE 0
<1>a. (\A u \in Orders : SoldOf(p, ord, ven)[u] \in Nat) /\ Total(SoldOf(p, ord, ven)) \in Nat
  BY SumsAreNumbers
<1>b. (\A u \in Orders : SoldOf(p, new, ven)[u] \in Nat) /\ Total(SoldOf(p, new, ven)) \in Nat
  BY SumsAreNumbers
<1>c. PICK f, g : f = SoldOf(p, ord, ven) /\ g = SoldOf(p, new, ven)
  OBVIOUS
<1>1. BoughtOf(p, new, ven) = BoughtOf(p, ord, ven)
  BY DEF BoughtOf, On
<1>2. \A u \in Orders \ {o} : f[u] = g[u]
  BY <1>c DEF SoldOf
<1>3. f[o] = 0 /\ g[o] = IF On(new[o], p, "sell") THEN new[o].intent.qty ELSE 0
  BY <1>c DEF SoldOf, On, Ends, Final
<1>4. \A u \in Orders : f[u] \in Int /\ g[u] \in Int
  BY <1>a, <1>b, <1>c
<1>5. Total(g) = Total(f) - f[o] + g[o]
  BY <1>2, <1>4, Constants, SumChangedAt DEF Total
<1>6. Total(g) = Total(f) + g[o]
  BY <1>3, <1>4, <1>5, <1>a, <1>b, <1>c
<1>7. QED
  BY <1>1, <1>3, <1>6, <1>c

LEMMA ReserveKeeps ==
  ASSUME IInv, NEW w \in Procs, NEW i \in Intent, NEW o \in Orders, Reserve(w, i, o)
  PROVE  IInv'
<1>1. /\ TypeOK /\ proc[w] \in ProcRow /\ Working(proc[w], order, venue)
      /\ BookedOnce(order, held) /\ Covered(order, venue) /\ Rowed(order, venue)
      /\ (\A u \in Orders : Sound(order[u], venue[u])) /\ SendersApart /\ OneRisk
      /\ \A v \in Procs : Working(proc[v], order, venue)
  BY AtWork, KnownSums DEF IInv, Kept
<1>2. /\ proc[w].at = "loop" /\ order[o].status = "absent"
      /\ IF i.side = "buy" THEN MayEnter(w, i) ELSE MayExit(i)
      /\ order' = [order EXCEPT ![o] = [NoOrder EXCEPT !.status = "submitting", !.intent = i]]
      /\ proc' = [proc EXCEPT ![w] = [Idle EXCEPT !.at = "send", !.on = o,
                     !.intents = proc[w].intents \ {i}]]
      /\ UNCHANGED <<held, posn, venue>>
  BY DEF Reserve
<1>3. PICK r : r = [NoOrder EXCEPT !.status = "submitting", !.intent = i]
  OBVIOUS
<1>4. r \in Rows /\ r.status = "submitting" /\ r.intent = i /\ r.filled = 0
  <2>1. r = [status |-> "submitting", intent |-> i, filled |-> 0, known |-> FALSE,
             approval |-> FALSE]
    BY <1>3 DEF NoOrder
  <2>2. 0 \in 0..MaxQty
    BY Constants
  <2>3. QED
    BY <2>1, <2>2 DEF Rows, Pending
<1>5. PICK x : x = [Idle EXCEPT !.at = "send", !.on = o, !.intents = proc[w].intents \ {i}]
  OBVIOUS
<1>6. x \in ProcRow /\ x.at = "send" /\ x.on = o /\ x.snap = Missing /\ x.todo = {}
  BY <1>1, <1>5, IdleShape DEF ProcRow, Places
<1>7. /\ order' \in [Orders -> OrderRow] /\ order'[o] = r
      /\ \A u \in Orders \ {o} : order'[u] = order[u]
  BY <1>1, <1>2, <1>3, <1>4, Types, RowsAreRows
<1>8. /\ proc' \in [Procs -> ProcRow] /\ proc'[w] = x
      /\ \A v \in Procs \ {w} : proc'[v] = proc[v]
  BY <1>1, <1>2, <1>5, <1>6, Types
<1>9. TypeOK'
  BY <1>1, <1>2, <1>7, <1>8 DEF TypeOK
<1>10. venue[o].state = "none" /\ venue[o].fill = 0 /\ venue[o] \in VenueRow /\ i.qty \in Nat
  BY <1>1, <1>2, Types, IntentShape DEF Sound, Unfilled
<1>11. Kept' /\ SendersApart'
  <2>1. ASSUME NEW u \in Orders PROVE Sound(order'[u], venue'[u])
    <3>1. Sound(r, venue[o])
      BY <1>4, <1>10 DEF Sound, Terminal
    <3>2. QED
      BY <1>1, <1>2, <1>7, <3>1
  <2>2. \A u \in Orders : order[u].status # "absent" => order'[u].status # "absent"
    BY <1>2, <1>7
  <2>3. ASSUME NEW v \in Procs \ {w}
        PROVE  Working(proc[v], order', venue) /\ (proc[v].at = "send" => proc[v].on # o)
    <3>1. Working(proc[v], order, venue) /\ proc[v] \in ProcRow
      BY <1>1, Types
    <3>2. \A u \in proc[v].todo : u \in Orders
      BY <3>1 DEF ProcRow
    <3>3. QED
      BY <1>2, <2>2, <3>1, <3>2 DEF Working
  <2>4. Working(x, order', venue)
    BY <1>4, <1>6, <1>7, <1>10 DEF Working
  <2>5. Kept'
    BY <1>2, <1>8, <2>1, <2>3, <2>4 DEF Kept
  <2>6. SendersApart'
    BY <1>1, <1>6, <1>8, <2>3 DEF SendersApart
  <2>7. QED
    BY <2>5, <2>6
<1>12. BookedOnce(order', held')
  <2>1. order'[o].filled = 0
    BY <1>4, <1>7
  <2>2. BookedOnce(order', held)
    BY <1>1, <1>2, <1>7, <2>1, DrawnBooksNothing
  <2>3. QED
    BY <1>2, <2>2
<1>13. OneRisk'
  <2>1. CASE i.side = "buy"
    <3>1. \A u \in Orders : order[u].status \in {"absent"} \cup Pending \cup Terminal
      BY <1>1, Types, RowShape
    <3>2. PendingOrders = {}
      BY <1>2, <2>1 DEF MayEnter
    <3>3. \A u \in Orders : order[u].status # "absent" => venue[u].state \in Final
      BY <1>1, <3>1, <3>2 DEF PendingOrders, Sound
    <3>4. \A u \in Orders \ {o} : ~ Risky(order'[u], venue'[u])
      BY <1>2, <1>7, <3>3 DEF Risky
    <3>5. QED
      BY <3>4 DEF OneRisk
  <2>2. CASE i.side # "buy"
    <3>1. ~ Risky(order'[o], venue'[o])
      BY <1>4, <1>7, <2>2 DEF Risky
    <3>2. \A u \in Orders \ {o} : Risky(order'[u], venue'[u]) => Risky(order[u], venue[u])
      BY <1>2, <1>7
    <3>3. QED
      BY <1>1, <3>1, <3>2 DEF OneRisk
  <2>3. QED
    BY <2>1, <2>2
<1>14. Covered(order', venue')
  <2>1. SUFFICES ASSUME NEW p \in Positions
                 PROVE  Total(SoldOf(p, order', venue)) <= Total(BoughtOf(p, order', venue))
    BY <1>2 DEF Covered
  <2>2. Rowed(order', venue)
    BY <1>1, <1>7, Types, TypesAreRowed
  <2>3. /\ Total(BoughtOf(p, order', venue)) = Total(BoughtOf(p, order, venue))
        /\ Total(SoldOf(p, order', venue)) =
             Total(SoldOf(p, order, venue)) + IF On(order'[o], p, "sell") THEN order'[o].intent.qty ELSE 0
    <3>1. PICK new, ven : new = order' /\ ven = venue
      OBVIOUS
    <3>2. Rowed(order, ven) /\ Rowed(new, ven) /\ order[o].status = "absent"
      BY <1>1, <1>2, <2>2, <3>1
    <3>3. ven[o].state = "none" /\ ven[o].fill = 0 /\ \A u \in Orders \ {o} : new[u] = order[u]
      BY <1>7, <1>10, <3>1
    <3>4. /\ Total(BoughtOf(p, new, ven)) = Total(BoughtOf(p, order, ven))
          /\ Total(SoldOf(p, new, ven)) =
               Total(SoldOf(p, order, ven)) + IF On(new[o], p, "sell") THEN new[o].intent.qty ELSE 0
      BY <3>2, <3>3, DrawnSums
    <3>5. QED
      BY <3>1, <3>4
  <2>4. /\ Total(SoldOf(p, order, venue)) \in Nat /\ Total(BoughtOf(p, order, venue)) \in Nat
        /\ Total(SoldOf(p, order, venue)) <= Total(BoughtOf(p, order, venue))
    BY <1>1, SumsAreNumbers DEF Covered
  <2>5. CASE On(order'[o], p, "sell")
    <3>1. i.side = "sell" /\ i.pos = p
      BY <1>4, <1>7, <2>5 DEF On
    <3>2. PendingOn(p) = {} /\ i.qty <= held[p]
      BY <1>2, <3>1 DEF MayExit
    <3>3. Total(SoldOf(p, order, venue)) = Total(FilledOf(p, "sell", order))
          /\ Total(BoughtOf(p, order, venue)) = Total(FilledOf(p, "buy", order))
      BY <3>2, SettledIsHeld
    <3>4. held[p] = Total(BoughtOf(p, order, venue)) - Total(SoldOf(p, order, venue))
      BY <1>1, <3>3 DEF BookedOnce
    <3>5. order'[o].intent.qty = i.qty
      BY <1>4, <1>7
    <3>6. QED
      BY <1>10, <2>3, <2>4, <2>5, <3>2, <3>4, <3>5
  <2>6. CASE ~ On(order'[o], p, "sell")
    BY <2>3, <2>4, <2>6
  <2>7. QED
    BY <2>5, <2>6
<1>15. QED
  BY <1>9, <1>11, <1>12, <1>13, <1>14, Conclude

-----------------------------------------------------------------------------
(* The theorems *)

LEMMA InitInv == Init => IInv
<1> SUFFICES ASSUME Init PROVE IInv
  OBVIOUS
<1>1. TypeOK
  <2>1. [state |-> "none", fill |-> 0] \in VenueRow
    BY Constants DEF VenueRow
  <2>2. QED
    BY <2>1, Constants, RowsAreRows, IdleShape DEF Init, TypeOK
<1>2. \A o \in Orders : /\ order[o] = NoOrder /\ order[o].status = "absent"
                        /\ venue[o].state = "none" /\ venue[o].fill = 0
  BY DEF Init, NoOrder
<1>3. Kept
  <2>1. \A o \in Orders : Sound(order[o], venue[o])
    BY <1>2 DEF Sound
  <2>2. \A w \in Procs : Working(proc[w], order, venue)
    BY IdleShape, Free DEF Init
  <2>3. QED
    BY <2>1, <2>2 DEF Kept
<1>4. SendersApart /\ OneRisk
  BY <1>2, IdleShape DEF Init, SendersApart, OneRisk, Risky
<1>5. BookedOnce(order, held)
  <2>1. ASSUME NEW p \in Positions
        PROVE  held[p] = Total(FilledOf(p, "buy", order)) - Total(FilledOf(p, "sell", order))
    <3>1. FilledOf(p, "buy", order) = FilledOf(p, "sell", order)
      BY <1>2 DEF FilledOf, On
    <3>2. Rowed(order, venue)
      BY <1>1, Types, TypesAreRowed
    <3>3. Total(FilledOf(p, "buy", order)) \in Nat
      BY <3>2, SumsAreNumbers
    <3>4. held[p] = 0
      BY DEF Init
    <3>5. QED
      BY <3>1, <3>3, <3>4
  <2>2. QED
    BY <2>1 DEF BookedOnce
<1>6. Covered(order, venue)
  <2>1. ASSUME NEW p \in Positions
        PROVE  Total(SoldOf(p, order, venue)) <= Total(BoughtOf(p, order, venue))
    <3>1. SoldOf(p, order, venue) = BoughtOf(p, order, venue)
      BY <1>2 DEF SoldOf, BoughtOf, On
    <3>2. Rowed(order, venue)
      BY <1>1, Types, TypesAreRowed
    <3>3. Total(BoughtOf(p, order, venue)) \in Nat
      BY <3>2, SumsAreNumbers
    <3>4. QED
      BY <3>1, <3>3
  <2>2. QED
    BY <2>1 DEF Covered
<1>7. FillsBookedOnce /\ NeverOversold
  BY <1>1, <1>5, <1>6, Types, PropertiesAreSums DEF SumForm
<1>8. QED
  BY <1>1, <1>3, <1>4, <1>7 DEF IInv

LEMMA NextInv == IInv /\ [Next]_vars => IInv'
<1> SUFFICES ASSUME IInv, [Next]_vars PROVE IInv'
  OBVIOUS
<1>1. ASSUME NEW w \in Procs, Reconcile(w) PROVE IInv'
  BY <1>1, StartKeeps, RecordFoundKeeps, RecordMissingKeeps, FinishReconcileKeeps,
     RecordDeclinedKeeps, FetchKeeps DEF Reconcile
<1>2. ASSUME NEW w \in Procs, CancelOrder(w) PROVE IInv'
  BY <1>2, MarkCancelKeeps, StartCancelKeeps DEF CancelOrder
<1>3. ASSUME NEW w \in Procs, Tick(w) PROVE IInv'
  BY <1>3, StartKeeps, ReadBookKeeps, EvaluateKeeps, SendKeeps, ReplyOrderKeeps,
     ReplyApprovalKeeps, ReplyUnclearKeeps, StopKeeps, TurnDownKeeps, ReserveKeeps DEF Tick
<1>4. ASSUME NEW w \in Procs, Stop(w) \/ StepOver(w) PROVE IInv'
  BY <1>4, StopKeeps, StepOverKeeps
<1>5. CASE Venue
  BY <1>5, VenueKeeps
<1>6. CASE UNCHANGED vars
  <2>1. UNCHANGED <<order, held, posn, proc, venue>>
    BY <1>6 DEF vars
  <2>2. TypeOK' /\ Kept' /\ SendersApart' /\ OneRisk'
    BY <2>1 DEF IInv, TypeOK, Kept, SendersApart, OneRisk
  <2>3. BookedOnce(order', held') /\ Covered(order', venue')
    BY <2>1, KnownSums
  <2>4. QED
    BY <2>2, <2>3, Conclude
<1>7. QED
  BY <1>1, <1>2, <1>3, <1>4, <1>5, <1>6 DEF Next

LEMMA Invariance == Spec => []IInv
  BY InitInv, NextInv, PTL DEF Spec

\* Every row, place and quantity has its type; no holding is negative or larger than
\* all orders together.
THEOREM TypeSafe == Spec => []TypeOK
<1>1. IInv => TypeOK
  BY DEF IInv
<1>2. QED
  BY <1>1, Invariance, PTL

\* The confirmed holding is the sum of the booked buys less that of the booked sells.
THEOREM BookedSafe == Spec => []FillsBookedOnce
<1>1. IInv => FillsBookedOnce
  BY DEF IInv
<1>2. QED
  BY <1>1, Invariance, PTL

\* Whatever the processes and the venue do, the venue can never sell more of a
\* position than it bought.
THEOREM SoldSafe == Spec => []NeverOversold
<1>1. IInv => NeverOversold
  BY DEF IInv
<1>2. QED
  BY <1>1, Invariance, PTL

\* At most one entry can still execute, whoever reserved it.
THEOREM EntrySafe == Spec => []OneEntryAtRisk
<1>1. IInv => OneEntryAtRisk
  <2>1. SUFFICES ASSUME IInv PROVE OneEntryAtRisk
    OBVIOUS
  <2>2. PICK E : E = {o \in Orders : /\ order[o].status # "absent" /\ order[o].intent.side = "buy"
                                     /\ venue[o].state \notin Final}
    OBVIOUS
  <2>3. \A a, b \in E : a = b
    BY <2>1, <2>2 DEF IInv, OneRisk, Risky
  <2>4. Cardinality(E) <= 1
    <3>1. CASE E = {}
      BY <3>1, FS_EmptySet
    <3>2. CASE E # {}
      <4>1. PICK e : E = {e}
        BY <2>3, <3>2
      <4>2. Cardinality({e}) = 1
        BY FS_Singleton
      <4>3. QED
        BY <4>1, <4>2
    <3>3. QED
      BY <3>1, <3>2
  <2>5. QED
    BY <2>2, <2>4 DEF OneEntryAtRisk
<1>2. QED
  BY <1>1, Invariance, PTL

-----------------------------------------------------------------------------
(* Two processes: snapshots out of order, and the revisions *)

\* A step that draws no order takes no fill back.
Steady == \A o \in Orders : /\ order'[o].filled >= order[o].filled
                            /\ order[o].status = "absent" => order'[o].status = "absent"

LEMMA MarkSteady ==
  ASSUME TypeOK, NEW o \in Orders, order[o].status # "absent", NEW status, status # "absent",
         order' = Marked(o, status)
  PROVE  Steady
<1>1. order[o] \in Rows /\ \A u \in Orders : order[u].filled \in Nat
  BY Types, RowShape
<1>2. order'[o].filled = order[o].filled /\ \A u \in Orders \ {o} : order'[u] = order[u]
  BY <1>1, Types DEF Marked, Rows
<1>3. QED
  BY <1>1, <1>2 DEF Steady

LEMMA SnapshotSteady ==
  ASSUME TypeOK, NEW w \in Procs, NEW o \in Orders, order[o].status # "absent",
         NEW s \in Snapshot, NEW after, ApplySnapshot(w, o, s, after)
  PROVE  Steady
<1>1. /\ order[o] \in Rows /\ \A u \in Orders : order[u].filled \in Nat
      /\ s.fill \in Nat /\ s.fill >= order[o].filled
  BY Types, RowShape, SnapShape DEF ApplySnapshot, Accepts
<1>2. order' = [order EXCEPT ![o].status = NextStatus(o, s), ![o].filled = s.fill,
                             ![o].known = TRUE]
  BY DEF ApplySnapshot
<1>3. order'[o].filled = s.fill /\ \A u \in Orders \ {o} : order'[u] = order[u]
  BY <1>1, <1>2, Types DEF Rows
<1>4. QED
  BY <1>1, <1>3 DEF Steady

LEMMA MarksSteady ==
  ASSUME IInv, NEW w \in Procs,
         \/ \E o \in Orders : RecordDeclined(w, o)
         \/ RecordMissing(w) \/ MarkCancel(w) \/ ReplyUnclear(w)
  PROVE  Steady
<1>1. TypeOK /\ proc[w] \in ProcRow /\ Working(proc[w], order, venue)
  BY AtWork DEF IInv
<1>2. ASSUME NEW o \in Orders, RecordDeclined(w, o) PROVE Steady
  <2>1. order[o].status # "absent" /\ order' = Marked(o, "canceled")
    BY <1>1, <1>2 DEF RecordDeclined, Working
  <2>2. QED
    BY <1>1, <2>1, MarkSteady
<1>3. CASE RecordMissing(w)
  <2>1. proc[w].on \in Orders /\ order[proc[w].on].status # "absent"
    BY <1>1, <1>3 DEF RecordMissing, Working
  <2>2. PICK status : status = AbsentStatus(w, proc[w].on)
    OBVIOUS
  <2>3. status # "absent" /\ order' = Marked(proc[w].on, status)
    BY <1>3, <2>1, <2>2 DEF RecordMissing, AbsentStatus
  <2>4. QED
    BY <1>1, <2>1, <2>3, MarkSteady
<1>4. CASE MarkCancel(w)
  <2>1. /\ proc[w].on \in Orders /\ order[proc[w].on].status # "absent"
        /\ order' = Marked(proc[w].on, "cancel_pending")
    BY <1>1, <1>4 DEF MarkCancel, Working
  <2>2. QED
    BY <1>1, <2>1, MarkSteady
<1>5. CASE ReplyUnclear(w)
  <2>1. /\ proc[w].on \in Orders /\ order[proc[w].on].status # "absent"
        /\ order' = Marked(proc[w].on, "uncertain")
    BY <1>1, <1>5 DEF ReplyUnclear, Working
  <2>2. QED
    BY <1>1, <2>1, MarkSteady
<1>6. QED
  BY <1>2, <1>3, <1>4, <1>5

LEMMA RepliesSteady ==
  ASSUME IInv, NEW w \in Procs, RecordFound(w) \/ ReplyOrder(w) \/ ReplyApproval(w)
  PROVE  Steady
<1>1. TypeOK /\ proc[w] \in ProcRow /\ Working(proc[w], order, venue)
  BY AtWork DEF IInv
<1>2. proc[w].on \in Orders /\ order[proc[w].on].status # "absent"
  BY <1>1 DEF RecordFound, ReplyOrder, ReplyApproval, Working
<1>3. CASE RecordFound(w)
  <2>1. proc[w].snap \in Snapshot /\ ApplySnapshot(w, proc[w].on, proc[w].snap, Reconciled(w))
    BY <1>1, <1>3 DEF RecordFound, ProcRow
  <2>2. QED
    BY <1>1, <1>2, <2>1, SnapshotSteady
<1>4. CASE ReplyOrder(w)
  <2>1. PICK s \in {venue[proc[w].on], [state |-> "working", fill |-> 0]} :
          venue[proc[w].on].state \in Visible /\ ApplySnapshot(w, proc[w].on, s, Replied(w))
    BY <1>4 DEF ReplyOrder
  <2>2. venue[proc[w].on] \in VenueRow
    BY <1>1, <1>2, Types
  <2>3. s \in Snapshot
    BY <2>1, <2>2, Constants DEF Snapshot, VenueRow, Visible
  <2>4. QED
    BY <1>1, <1>2, <2>1, <2>3, SnapshotSteady
<1>5. CASE ReplyApproval(w)
  <2>1. order[proc[w].on] \in Rows /\ \A u \in Orders : order[u].filled \in Nat
    BY <1>1, <1>2, Types, RowShape
  <2>2. /\ order'[proc[w].on].filled = order[proc[w].on].filled
        /\ \A u \in Orders \ {proc[w].on} : order'[u] = order[u]
    BY <1>1, <1>2, <1>5, <2>1, Types DEF ReplyApproval, Rows
  <2>3. QED
    BY <1>2, <2>1, <2>2 DEF Steady
<1>6. QED
  BY <1>3, <1>4, <1>5

\* Every step draws an order or is steady.
LEMMA DrawsOrSteady ==
  ASSUME IInv, [Next]_vars
  PROVE  Steady \/ \E w \in Procs, i \in Intent, o \in Orders : Reserve(w, i, o)
<1>1. ASSUME order' = order PROVE Steady
  <2>1. \A o \in Orders : order[o].filled \in Nat
    BY Types, RowShape DEF IInv
  <2>2. QED
    BY <1>1, <2>1 DEF Steady
<1>2. ASSUME NEW w \in Procs, Reconcile(w) \/ CancelOrder(w) PROVE Steady
  <2>1. CASE \/ StartReconcile(w) \/ FinishReconcile(w)
             \/ \E o \in Orders : \/ Fetch(w, o) \/ StartCancel(w, o)
                                \/ \E i \in Intent : CancelForExit(w, i, o)
    BY <1>1, <2>1 DEF StartReconcile, FinishReconcile, Fetch, StartCancel, CancelForExit
  <2>2. CASE RecordMissing(w) \/ MarkCancel(w) \/ \E o \in Orders : RecordDeclined(w, o)
    BY <2>2, MarksSteady
  <2>3. CASE RecordFound(w)
    BY <2>3, RepliesSteady
  <2>4. QED
    BY <1>2, <2>1, <2>2, <2>3 DEF Reconcile, CancelOrder
<1>3. ASSUME NEW w \in Procs, Tick(w)
      PROVE  Steady \/ \E i \in Intent, o \in Orders : Reserve(w, i, o)
  <2>1. CASE \/ StartTick(w) \/ ReadBook(w) \/ Send(w) \/ FinishTick(w)
             \/ \E i \in Intent : TurnDown(w, i)
    BY <1>1, <2>1 DEF StartTick, ReadBook, Send, FinishTick, TurnDown
  <2>2. CASE Evaluate(w)
    BY <1>1, <2>2 DEF Evaluate
  <2>3. CASE ReplyOrder(w) \/ ReplyApproval(w) \/ ReplyUnclear(w)
    BY <2>3, MarksSteady, RepliesSteady
  <2>4. QED
    BY <1>3, <2>1, <2>2, <2>3 DEF Tick
<1>4. ASSUME NEW w \in Procs, Stop(w) \/ StepOver(w) PROVE Steady
  BY <1>1, <1>4 DEF Stop, StepOver
<1>5. CASE Venue
  BY <1>1, <1>5 DEF Venue, Take, Decide, End, VenueStep, Fill
<1>6. CASE UNCHANGED vars
  BY <1>1, <1>6 DEF vars
<1>7. QED
  BY <1>2, <1>3, <1>4, <1>5, <1>6 DEF Next

\* Drawing an order books nothing and touches no other row.
LEMMA DrawRow ==
  ASSUME TypeOK, NEW w \in Procs, NEW i \in Intent, NEW o \in Orders, Reserve(w, i, o)
  PROVE  /\ order'[o].filled = 0 /\ order[o].filled = 0 /\ order'[o].intent = i
         /\ \A u \in Orders \ {o} : order'[u] = order[u]
<1>1. order[o].filled = 0
  BY Types, RowShape DEF Reserve
<1>2. order' = [order EXCEPT ![o] = [NoOrder EXCEPT !.status = "submitting", !.intent = i]]
  BY DEF Reserve
<1>3. QED
  BY <1>1, <1>2, Types DEF NoOrder

\* Whichever process records which snapshot first, a booked fill stays booked: the
\* refusal of a regressing snapshot is in the transaction that books.
THEOREM BookedStays == Spec => BookedOnlyGrows
<1>1. IInv /\ [Next]_vars => \A o \in Orders : order'[o].filled >= order[o].filled
  <2>1. SUFFICES ASSUME IInv, [Next]_vars PROVE \A o \in Orders : order'[o].filled >= order[o].filled
    OBVIOUS
  <2>2. CASE Steady
    BY <2>2 DEF Steady
  <2>3. ASSUME NEW w \in Procs, NEW i \in Intent, NEW o \in Orders, Reserve(w, i, o)
        PROVE  \A u \in Orders : order'[u].filled >= order[u].filled
    <3>1. TypeOK /\ \A u \in Orders : order[u].filled \in Nat
      BY <2>1, Types, RowShape DEF IInv
    <3>2. /\ order'[o].filled = 0 /\ order[o].filled = 0
          /\ \A u \in Orders \ {o} : order'[u] = order[u]
      BY <2>3, <3>1, DrawRow
    <3>3. QED
      BY <3>1, <3>2
  <2>4. QED
    BY <2>1, <2>2, <2>3, DrawsOrSteady
<1>2. QED
  BY <1>1, Invariance, PTL DEF Spec, BookedOnlyGrows

\* A process whose evaluation is fresh has seen the book as it is.
Honest(x, book) == x.fresh => x.seen = book
FreshSeen == \A w \in Procs : Honest(proc[w], held)

LEMMA HonestMove ==
  ASSUME TypeOK, FreshSeen, NEW w \in Procs, NEW x, Honest(x, held'),
         \/ proc' = [proc EXCEPT ![w] = x] /\ held' = held
         \/ proc' = OthersStale(w, x)
  PROVE  FreshSeen'
<1>1. \A v \in Procs : proc[v] \in ProcRow
  BY Types
<1>2. CASE proc' = [proc EXCEPT ![w] = x] /\ held' = held
  BY <1>2, Types DEF FreshSeen
<1>3. CASE proc' = OthersStale(w, x)
  <2>1. ASSUME NEW v \in Procs \ {w} PROVE Honest(proc'[v], held')
    BY <1>1, <1>3, <2>1 DEF OthersStale, Honest, ProcRow
  <2>2. QED
    BY <1>3, <2>1 DEF FreshSeen, OthersStale
<1>4. QED
  BY <1>2, <1>3

\* The process goes on with the evaluation it has, or with none.
LEMMA HonestOn ==
  ASSUME TypeOK, FreshSeen, NEW w \in Procs, NEW x, held' = held,
         proc' = [proc EXCEPT ![w] = x],
         x.fresh = FALSE \/ (x.fresh = proc[w].fresh /\ x.seen = proc[w].seen)
  PROVE  FreshSeen'
  BY HonestMove DEF Honest, FreshSeen

LEMMA ListedHonest ==
  ASSUME NEW me \in ProcRow, NEW rows
  PROVE  Listed(me, rows).fresh = me.fresh /\ Listed(me, rows).seen = me.seen
  BY DEF Listed, ProcRow

\* Whoever books a fill makes every evaluation stale.
LEMMA ApplyHonest ==
  ASSUME TypeOK, FreshSeen, NEW w \in Procs, NEW o, NEW s, NEW after \in ProcRow,
         after.fresh = FALSE \/ (after.fresh = proc[w].fresh /\ after.seen = proc[w].seen),
         ApplySnapshot(w, o, s, after)
  PROVE  FreshSeen'
<1>1. CASE Increment(o, s) # 0
  <2>1. PICK x : x = [after EXCEPT !.fresh = FALSE]
    OBVIOUS
  <2>2. x.fresh = FALSE
    BY <2>1 DEF ProcRow
  <2>3. proc' = OthersStale(w, x)
    BY <1>1, <2>1 DEF ApplySnapshot
  <2>4. Honest(x, held')
    BY <2>2 DEF Honest
  <2>5. QED
    BY <2>3, <2>4, HonestMove
<1>2. CASE ~(Increment(o, s) # 0)
  <2>1. held' = held /\ proc' = [proc EXCEPT ![w] = after]
    BY <1>2 DEF ApplySnapshot
  <2>2. QED
    BY <2>1, HonestOn
<1>3. QED
  BY <1>1, <1>2

\* One step of a process keeps what its evaluation has seen.
LEMMA PassHonest ==
  ASSUME TypeOK, FreshSeen, NEW w \in Procs, Reconcile(w) \/ CancelOrder(w)
  PROVE  FreshSeen'
<1>1. proc[w] \in ProcRow
  BY Types
<1>2. ASSUME StartReconcile(w) PROVE FreshSeen'
  <2>1. PICK o \in PendingOrders : proc' = [proc EXCEPT ![w] = Listed(Idle, {o})]
    BY <1>2 DEF StartReconcile
  <2>2. held' = held /\ Listed(Idle, {o}).fresh = FALSE
    BY <1>2, ListedHonest, IdleShape DEF StartReconcile
  <2>3. QED
    BY <2>1, <2>2, HonestOn
<1>3. ASSUME NEW o \in Orders, RecordDeclined(w, o) \/ Fetch(w, o) PROVE FreshSeen'
  <2>1. PICK x : /\ proc' = [proc EXCEPT ![w] = x] /\ held' = held
                 /\ x.fresh = proc[w].fresh /\ x.seen = proc[w].seen
    <3>1. CASE RecordDeclined(w, o)
      <4>1. PICK x : x = [proc[w] EXCEPT !.todo = @ \ {o}]
        OBVIOUS
      <4>2. x.fresh = proc[w].fresh /\ x.seen = proc[w].seen
        BY <1>1, <4>1 DEF ProcRow
      <4>3. proc' = [proc EXCEPT ![w] = x] /\ held' = held
        BY <3>1, <4>1, Types DEF RecordDeclined
      <4>4. QED
        BY <4>2, <4>3
    <3>2. CASE Fetch(w, o)
      <4>1. PICK s : proc' = [proc EXCEPT ![w].at = "apply", ![w].on = o, ![w].snap = s]
        BY <3>2 DEF Fetch
      <4>2. PICK x : x = [proc[w] EXCEPT !.at = "apply", !.on = o, !.snap = s]
        OBVIOUS
      <4>3. x.fresh = proc[w].fresh /\ x.seen = proc[w].seen
        BY <1>1, <4>2 DEF ProcRow
      <4>4. proc' = [proc EXCEPT ![w] = x] /\ held' = held
        BY <3>2, <4>1, <4>2, Types DEF Fetch
      <4>5. QED
        BY <4>3, <4>4
    <3>3. QED
      BY <1>3, <3>1, <3>2
  <2>2. QED
    BY <2>1, HonestOn
<1>4. Reconciled(w).fresh = proc[w].fresh /\ Reconciled(w).seen = proc[w].seen
      /\ Reconciled(w) \in ProcRow
  <2>1. Missing \in Snapshot
    BY Constants DEF Snapshot, Missing
  <2>2. PICK todo \in SUBSET Orders : todo = proc[w].todo \ {proc[w].on}
    BY <1>1 DEF ProcRow
  <2>3. Reconciled(w) = [proc[w] EXCEPT !.at = "reconciling", !.todo = todo, !.on = None,
                                        !.snap = Missing]
    BY <2>2 DEF Reconciled
  <2>4. QED
    BY <1>1, <2>1, <2>2, <2>3 DEF ProcRow, Places
<1>5. ASSUME RecordFound(w) PROVE FreshSeen'
  <2>1. ApplySnapshot(w, proc[w].on, proc[w].snap, Reconciled(w))
    BY <1>5 DEF RecordFound
  <2>2. QED
    BY <1>4, <2>1, ApplyHonest
<1>6. ASSUME RecordMissing(w) PROVE FreshSeen'
  BY <1>4, <1>6, HonestOn DEF RecordMissing
<1>7. ASSUME FinishReconcile(w) PROVE FreshSeen'
  <2>1. CASE proc[w].then = "idle"
    BY <1>7, <2>1, HonestOn, IdleShape, Types DEF FinishReconcile
  <2>2. CASE proc[w].then # "idle"
    <3>1. PICK x : x = [proc[w] EXCEPT !.at = proc[w].then, !.then = "idle", !.unsent = {}]
      OBVIOUS
    <3>2. x.fresh = proc[w].fresh /\ x.seen = proc[w].seen
      BY <1>1, <3>1 DEF ProcRow
    <3>3. proc' = [proc EXCEPT ![w] = x] /\ held' = held
      BY <1>7, <2>2, <3>1, Types DEF FinishReconcile
    <3>4. QED
      BY <3>2, <3>3, HonestOn
  <2>3. QED
    BY <2>1, <2>2
<1>8. ASSUME MarkCancel(w) PROVE FreshSeen'
  <2>1. PICK me : me = [proc[w] EXCEPT !.on = None]
    OBVIOUS
  <2>2. me \in ProcRow /\ me.fresh = proc[w].fresh /\ me.seen = proc[w].seen
    BY <1>1, <2>1 DEF ProcRow
  <2>3. PICK x : x = Listed(me, PendingOrders \cup {proc[w].on})
    OBVIOUS
  <2>4. x.fresh = proc[w].fresh /\ x.seen = proc[w].seen
    BY <2>2, <2>3, ListedHonest
  <2>5. proc' = [proc EXCEPT ![w] = x] /\ held' = held
    BY <1>8, <2>1, <2>3, Types DEF MarkCancel
  <2>6. QED
    BY <2>4, <2>5, HonestOn
<1>9. ASSUME NEW o \in Orders, StartCancel(w, o) PROVE FreshSeen'
  <2>1. PICK x : x = [Idle EXCEPT !.at = "cancel", !.on = o]
    OBVIOUS
  <2>2. x.fresh = FALSE
    BY <2>1, IdleShape DEF ProcRow
  <2>3. proc' = [proc EXCEPT ![w] = x] /\ held' = held
    BY <1>9, <2>1 DEF StartCancel
  <2>4. QED
    BY <2>2, <2>3, HonestOn
<1>10. ASSUME NEW o \in Orders, NEW i \in Intent, CancelForExit(w, i, o) PROVE FreshSeen'
  <2>1. PICK x : x = [proc[w] EXCEPT !.at = "cancel", !.on = o, !.then = "loop",
                                     !.intents = @ \ {i}]
    OBVIOUS
  <2>2. x.fresh = proc[w].fresh /\ x.seen = proc[w].seen
    BY <1>1, <2>1 DEF ProcRow
  <2>3. proc' = [proc EXCEPT ![w] = x] /\ held' = held
    BY <1>10, <2>1, Types DEF CancelForExit
  <2>4. QED
    BY <2>2, <2>3, HonestOn
<1>11. CASE Reconcile(w)
  <2>1. CASE StartReconcile(w) \/ RecordFound(w) \/ RecordMissing(w) \/ FinishReconcile(w)
    BY <2>1, <1>2, <1>5, <1>6, <1>7
  <2>2. CASE \E o \in Orders : RecordDeclined(w, o) \/ Fetch(w, o)
    BY <2>2, <1>3
  <2>3. QED
    BY <1>11, <2>1, <2>2 DEF Reconcile
<1>12. CASE CancelOrder(w)
  <2>1. CASE MarkCancel(w)
    BY <2>1, <1>8
  <2>2. CASE \E o \in Orders : StartCancel(w, o) \/ \E i \in Intent : CancelForExit(w, i, o)
    BY <2>2, <1>9, <1>10
  <2>3. QED
    BY <1>12, <2>1, <2>2 DEF CancelOrder
<1>13. QED
  BY <1>11, <1>12

LEMMA TickHonest ==
  ASSUME TypeOK, FreshSeen, NEW w \in Procs, Tick(w)
  PROVE  FreshSeen'
<1>1. proc[w] \in ProcRow /\ Honest(proc[w], held)
  BY Types DEF FreshSeen
<1>2. CASE StartTick(w)
  <2>1. PICK me \in ProcRow : me = [Idle EXCEPT !.then = "tick"]
    BY IdleShape DEF ProcRow
  <2>2. PICK x : x = Listed(me, PendingOrders)
    OBVIOUS
  <2>3. x.fresh = FALSE
    BY <2>1, <2>2, ListedHonest, IdleShape DEF ProcRow
  <2>4. proc' = [proc EXCEPT ![w] = x] /\ held' = held
    BY <1>2, <2>1, <2>2 DEF StartTick
  <2>5. QED
    BY <2>3, <2>4, HonestOn
<1>3. CASE ReadBook(w)
  <2>1. PICK fresh \in BOOLEAN : proc' = [proc EXCEPT ![w].at = "evaluate", ![w].seen = held, ![w].fresh = fresh]
    BY <1>3 DEF ReadBook
  <2>2. PICK x : x = [proc[w] EXCEPT !.at = "evaluate", !.seen = held, !.fresh = fresh]
    OBVIOUS
  <2>3. x.seen = held
    BY <1>1, <2>2 DEF ProcRow
  <2>4. proc' = [proc EXCEPT ![w] = x] /\ held' = held
    BY <1>3, <2>1, <2>2, Types DEF ReadBook
  <2>5. Honest(x, held')
    BY <2>3, <2>4 DEF Honest
  <2>6. QED
    BY <2>4, <2>5, HonestMove
<1>4. CASE Evaluate(w)
  <2>1. PICK accepted \in {FALSE, proc[w].fresh}, I \in ExitBatches(w) \cup {{i} : i \in Entry} :
          /\ (\E i \in I : i.side = "buy") => accepted
          /\ LET entry == \E i \in I : i.side = "buy"
                 now == [Idle EXCEPT !.at = "loop", !.intents = I, !.fresh = entry,
                                     !.seen = IF entry THEN proc[w].seen ELSE @]
             IN proc' = IF accepted THEN OthersStale(w, now) ELSE [proc EXCEPT ![w] = now]
    BY <1>4 DEF Evaluate
  <2>2. PICK entry : entry = \E i \in I : i.side = "buy"
    OBVIOUS
  <2>3. PICK x : x = [Idle EXCEPT !.at = "loop", !.intents = I, !.fresh = entry,
                                  !.seen = IF entry THEN proc[w].seen ELSE @]
    OBVIOUS
  <2>4. held' = held /\ (proc' = [proc EXCEPT ![w] = x] \/ proc' = OthersStale(w, x))
    BY <1>4, <2>1, <2>2, <2>3 DEF Evaluate
  <2>5. x.fresh = entry /\ (entry => x.seen = proc[w].seen)
    BY <2>3, IdleShape DEF ProcRow
  <2>6. entry => proc[w].fresh
    BY <2>1, <2>2
  <2>7. Honest(x, held')
    BY <1>1, <2>4, <2>5, <2>6 DEF Honest
  <2>8. QED
    BY <2>4, <2>7, HonestMove
<1>5. CASE Send(w)
  <2>1. PICK x : x = [proc[w] EXCEPT !.at = "reply"]
    OBVIOUS
  <2>2. x.fresh = proc[w].fresh /\ x.seen = proc[w].seen
    BY <1>1, <2>1 DEF ProcRow
  <2>3. proc' = [proc EXCEPT ![w] = x] /\ held' = held
    BY <1>5, <2>1, Types DEF Send, Goto
  <2>4. QED
    BY <2>2, <2>3, HonestOn
<1>6. Replied(w).fresh = proc[w].fresh /\ Replied(w).seen = proc[w].seen /\ Replied(w) \in ProcRow
  BY <1>1, Constants DEF Replied, ProcRow, Places
<1>7. CASE ReplyOrder(w)
  <2>1. PICK s : ApplySnapshot(w, proc[w].on, s, Replied(w))
    BY <1>7 DEF ReplyOrder
  <2>2. QED
    BY <1>6, <2>1, ApplyHonest
<1>8. CASE ReplyApproval(w)
  BY <1>6, <1>8, HonestOn DEF ReplyApproval
<1>9. CASE ReplyUnclear(w)
  <2>1. held' = held
        /\ (proc' = [proc EXCEPT ![w] = Replied(w)] \/ proc' = [proc EXCEPT ![w] = Idle])
    BY <1>9, Types DEF ReplyUnclear
  <2>2. QED
    BY <1>6, <2>1, IdleShape, HonestOn
<1>10. CASE FinishTick(w)
  BY <1>10, IdleShape, HonestOn DEF FinishTick
<1>11. ASSUME NEW i \in Intent, TurnDown(w, i) PROVE FreshSeen'
  <2>1. PICK x : x = [proc[w] EXCEPT !.intents = @ \ {i}]
    OBVIOUS
  <2>2. x.fresh = proc[w].fresh /\ x.seen = proc[w].seen
    BY <1>1, <2>1 DEF ProcRow
  <2>3. proc' = [proc EXCEPT ![w] = x] /\ held' = held
    BY <1>11, <2>1, Types DEF TurnDown
  <2>4. QED
    BY <2>2, <2>3, HonestOn
<1>12. ASSUME NEW i \in Intent, NEW o \in Orders, Reserve(w, i, o) PROVE FreshSeen'
  <2>1. PICK x : x = [Idle EXCEPT !.at = "send", !.on = o, !.intents = proc[w].intents \ {i}]
    OBVIOUS
  <2>2. x.fresh = FALSE
    BY <2>1, IdleShape DEF ProcRow
  <2>3. proc' = [proc EXCEPT ![w] = x] /\ held' = held
    BY <1>12, <2>1 DEF Reserve
  <2>4. QED
    BY <2>2, <2>3, HonestOn
<1>13. QED
  BY <1>2, <1>3, <1>4, <1>5, <1>7, <1>8, <1>9, <1>10, <1>11, <1>12 DEF Tick

LEMMA FreshStep == TypeOK /\ FreshSeen /\ [Next]_vars => FreshSeen'
<1> SUFFICES ASSUME TypeOK, FreshSeen, [Next]_vars PROVE FreshSeen'
  OBVIOUS
<1>1. ASSUME NEW w \in Procs, Stop(w) PROVE FreshSeen'
  BY <1>1, IdleShape, HonestOn DEF Stop
<1>2. ASSUME NEW w \in Procs, StepOver(w) PROVE FreshSeen'
  <2>1. PICK x : x = [proc[w] EXCEPT !.at = "loop", !.then = "idle", !.on = None,
                                     !.snap = Missing, !.todo = {}, !.unsent = {}]
    OBVIOUS
  <2>2. x.fresh = proc[w].fresh /\ x.seen = proc[w].seen
    BY <2>1, Types DEF ProcRow
  <2>3. proc' = [proc EXCEPT ![w] = x] /\ held' = held
    BY <1>2, <2>1, Types DEF StepOver
  <2>4. QED
    BY <2>2, <2>3, HonestOn
<1>3. CASE UNCHANGED <<proc, held>>
  BY <1>3 DEF FreshSeen
<1>4. CASE Venue
  BY <1>3, <1>4 DEF Venue, Take, Decide, End, VenueStep, Fill
<1>5. CASE UNCHANGED vars
  BY <1>3, <1>5 DEF vars
<1>6. ASSUME NEW w \in Procs, Reconcile(w) \/ CancelOrder(w) PROVE FreshSeen'
  BY <1>6, PassHonest
<1>7. ASSUME NEW w \in Procs, Tick(w) PROVE FreshSeen'
  BY <1>7, TickHonest
<1>8. QED
  BY <1>1, <1>2, <1>4, <1>5, <1>6, <1>7 DEF Next

LEMMA FreshInvariance == Spec => [](IInv /\ FreshSeen)
<1>1. Init => FreshSeen
  BY IdleShape DEF Init, FreshSeen, Honest
<1>2. IInv => TypeOK
  BY DEF IInv
<1>3. IInv /\ FreshSeen /\ [Next]_vars => FreshSeen'
  BY <1>2, FreshStep
<1>4. QED
  BY <1>1, <1>3, Invariance, PTL DEF Spec

\* Two agents on one database never enter on a book the other has changed: the
\* revision that an evaluation carries is compared in the transaction that reserves.
THEOREM EnteredOnReadBook == Spec => EntryOnReadBook
<1>1. ASSUME IInv, FreshSeen, [Next]_vars,
             NEW o \in Orders, order[o].status = "absent", order'[o].status # "absent",
             order'[o].intent.side = "buy"
      PROVE  \E w \in Procs : proc'[w].on = o /\ proc[w].at = "loop" /\ proc[w].seen = held
  <2>1. TypeOK /\ ~Steady
    BY <1>1 DEF IInv, Steady
  <2>2. PICK w \in Procs, i \in Intent, u \in Orders : Reserve(w, i, u)
    BY <1>1, <2>1, DrawsOrSteady
  <2>3. /\ order'[u].intent = i
        /\ \A v \in Orders \ {u} : order'[v] = order[v]
    BY <2>1, <2>2, DrawRow
  <2>4. u = o /\ i.side = "buy"
    BY <1>1, <2>3
  <2>5. proc[w].at = "loop" /\ proc[w].fresh
    BY <2>2, <2>4 DEF Reserve, MayEnter
  <2>6. proc[w].seen = held
    BY <1>1, <2>5 DEF FreshSeen, Honest
  <2>7. proc'[w].on = o
    <3>1. PICK x : x = [Idle EXCEPT !.at = "send", !.on = u, !.intents = proc[w].intents \ {i}]
      OBVIOUS
    <3>2. x.on = u
      BY <3>1, IdleShape DEF ProcRow
    <3>3. proc' = [proc EXCEPT ![w] = x]
      BY <2>2, <3>1 DEF Reserve
    <3>4. QED
      BY <2>1, <2>4, <3>2, <3>3, Types
  <2>8. QED
    BY <2>5, <2>6, <2>7
<1>2. IInv /\ FreshSeen /\ [Next]_vars =>
        \A o \in Orders :
          order[o].status = "absent" /\ order'[o].status # "absent" /\ order'[o].intent.side = "buy"
            => \E w \in Procs : proc'[w].on = o /\ proc[w].at = "loop" /\ proc[w].seen = held
  BY <1>1
<1>3. QED
  BY <1>2, FreshInvariance, PTL DEF Spec, EntryOnReadBook

-----------------------------------------------------------------------------
(* One process implements OrderJournal *)

\* Under the lock of one process nobody else closes the order it is working on.
Alone == \A v, w \in Procs : v = w

\* The orders process x is working on are still pending in journal ord.
Pursues(x, ord) ==
  /\ x.at \in {"apply", "cancel", "send", "reply"} => ord[x.on].status \in Pending
  /\ \A o \in x.todo : ord[o].status \in Pending
  /\ x.at \notin {"reconciling", "apply"} => x.todo = {}

PInv == \A w \in Procs : Pursues(proc[w], order)

\* The refinement mapping, row by row.
Class(r) == CASE r.status = "absent" -> "none" [] r.status \in Pending -> "open" [] OTHER -> "closed"
States == [o \in Orders |-> Class(order[o])]
BookedMap == [o \in Orders |-> order[o].filled]
ExecutedMap == [o \in Orders |-> venue[o].fill]
OverMap == [o \in Orders |-> venue[o].state \in Final]

JournalVars == <<States, BookedMap, ExecutedMap, OverMap>>

LEMMA Classes ==
  ASSUME NEW r
  PROVE  /\ r.status = "absent" => Class(r) = "none"
         /\ r.status \in Pending => Class(r) = "open"
         /\ r.status \in Terminal => Class(r) = "closed"
  BY DEF Class, Pending, Terminal

\* A row moves: a pending order books what the venue has executed, and closes only
\* when that is all there will be.
LEMMA RowBooks ==
  ASSUME TypeOK, NEW o \in Orders, NEW r \in Rows, order' = [order EXCEPT ![o] = r],
         UNCHANGED venue, order[o].status \in Pending, order[o].filled <= r.filled,
         r.filled <= venue[o].fill,
         r.status \in Terminal => venue[o].state \in Final /\ r.filled = venue[o].fill
  PROVE  Journal!Next
<1>1. /\ order \in [Orders -> OrderRow] /\ order[o].filled \in Nat /\ venue[o].fill \in Nat
      /\ r.filled \in Nat /\ r.status \in Pending \cup Terminal
  BY Types, RowShape, VenueShape, RowFields
<1>2. /\ order'[o] = r /\ \A u \in Orders \ {o} : order'[u] = order[u]
  BY <1>1
<1>3. /\ States[o] = "open" /\ BookedMap[o] = order[o].filled
      /\ ExecutedMap[o] = venue[o].fill /\ OverMap[o] = (venue[o].state \in Final)
  BY Classes DEF States, BookedMap, ExecutedMap, OverMap
<1>4. r.filled \in BookedMap[o]..ExecutedMap[o]
  BY <1>1, <1>3
<1>5. BookedMap' = [BookedMap EXCEPT ![o] = r.filled] /\ BookedMap'[o] = r.filled
  <2>1. \A u \in Orders : order'[u].filled = IF u = o THEN r.filled ELSE order[u].filled
    BY <1>2
  <2>2. QED
    BY <2>1 DEF BookedMap
<1>6. States' = [States EXCEPT ![o] = Class(r)]
  <2>1. \A u \in Orders : Class(order'[u]) = IF u = o THEN Class(r) ELSE Class(order[u])
    BY <1>2
  <2>2. QED
    BY <2>1 DEF States
<1>7. UNCHANGED <<ExecutedMap, OverMap>>
  BY DEF ExecutedMap, OverMap
<1>8. \/ States' = States
      \/ OverMap[o] /\ BookedMap'[o] = ExecutedMap[o] /\ States' = [States EXCEPT ![o] = "closed"]
  <2>1. CASE r.status \in Pending
    <3>1. Class(r) = "open"
      BY <2>1, Classes
    <3>2. States' = States
      BY <1>3, <1>6, <3>1 DEF States
    <3>3. QED
      BY <3>2
  <2>2. CASE r.status \in Terminal
    BY <1>3, <1>5, <1>6, <2>2, Classes
  <2>3. QED
    BY <1>1, <2>1, <2>2
<1>9. Journal!Book(o)
  BY <1>3, <1>4, <1>5, <1>7, <1>8
     DEF Journal!Book, States, Class, BookedMap, ExecutedMap, OverMap
<1>10. QED
  BY <1>9 DEF Journal!Next

\* The venue goes on with an order it has not finished.
LEMMA VenueExecutes ==
  ASSUME TypeOK, NEW o \in Orders, NEW v \in VenueRow, venue' = [venue EXCEPT ![o] = v],
         UNCHANGED order, order[o].status # "absent", venue[o].state \notin Final,
         venue[o].fill <= v.fill
  PROVE  Journal!Next
<1>1. /\ venue \in [Orders -> VenueRow] /\ venue[o].fill \in Nat /\ v.fill \in 0..MaxQty
      /\ order[o].status \in Pending \cup Terminal
  BY Types, VenueShape, RowShape
<1>2. venue'[o] = v /\ \A u \in Orders \ {o} : venue'[u] = venue[u]
  BY <1>1
<1>3. States[o] # "none" /\ ~OverMap[o] /\ ExecutedMap[o] = venue[o].fill
  BY <1>1, Classes DEF States, OverMap, ExecutedMap
<1>4. v.fill \in ExecutedMap[o]..MaxQty
  BY <1>1, <1>3, Constants
<1>5. ExecutedMap' = [ExecutedMap EXCEPT ![o] = v.fill]
  <2>1. \A u \in Orders : venue'[u].fill = IF u = o THEN v.fill ELSE venue[u].fill
    BY <1>2
  <2>2. QED
    BY <2>1 DEF ExecutedMap
<1>6. OverMap' = [OverMap EXCEPT ![o] = (v.state \in Final)]
  <2>1. \A u \in Orders : (venue'[u].state \in Final)
                            = IF u = o THEN v.state \in Final ELSE venue[u].state \in Final
    BY <1>2
  <2>2. QED
    BY <2>1 DEF OverMap
<1>7. UNCHANGED <<States, BookedMap>>
  BY DEF States, BookedMap
<1>8. (v.state \in Final) \in BOOLEAN
  OBVIOUS
<1>9. \E n \in ExecutedMap[o]..MaxQty : ExecutedMap' = [ExecutedMap EXCEPT ![o] = n]
  BY <1>4, <1>5
<1>10. \E b \in BOOLEAN : OverMap' = [OverMap EXCEPT ![o] = b]
  BY <1>6, <1>8
<1>11. Journal!Execute(o)
  BY <1>3, <1>7, <1>9, <1>10
     DEF Journal!Execute, States, Class, BookedMap, ExecutedMap, OverMap
<1>12. QED
  BY <1>11 DEF Journal!Next

LEMMA NothingOnRecord ==
  ASSUME UNCHANGED <<order, venue>>
  PROVE  UNCHANGED JournalVars
  BY DEF JournalVars, States, BookedMap, ExecutedMap, OverMap

\* Only w moves: it goes on as x.
LEMMA PursuitMoves ==
  ASSUME Alone, TypeOK, NEW w \in Procs, NEW x \in ProcRow,
         proc' = [proc EXCEPT ![w] = x] \/ proc' = OthersStale(w, x), Pursues(x, order')
  PROVE  PInv'
<1>1. proc'[w] = x
  BY Types DEF OthersStale
<1>2. \A v \in Procs : v = w
  BY DEF Alone
<1>3. QED
  BY <1>1, <1>2 DEF PInv

LEMMA Resting ==
  ASSUME NEW x, x.at \in {"idle", "tick", "evaluate", "loop"}, x.todo = {}, NEW ord
  PROVE  Pursues(x, ord)
  BY DEF Pursues

LEMMA InPursuit ==
  ASSUME IInv, PInv, NEW w \in Procs
  PROVE  /\ TypeOK /\ proc[w] \in ProcRow /\ Working(proc[w], order, venue)
         /\ Pursues(proc[w], order)
         /\ proc[w].at \in {"apply", "cancel", "send", "reply"} =>
              proc[w].on \in Orders /\ order[proc[w].on].status \in Pending
         /\ proc[w].todo \in SUBSET Orders
<1>1. TypeOK /\ proc[w] \in ProcRow /\ Working(proc[w], order, venue) /\ Pursues(proc[w], order)
  BY AtWork DEF IInv, PInv
<1>2. proc[w].todo \in SUBSET Orders
  BY <1>1 DEF ProcRow
<1>3. QED
  BY <1>1, <1>2 DEF Pursues, Working

\* A process that begins a pass over pending orders.
LEMMA ListedPursues ==
  ASSUME NEW me \in ProcRow, NEW rows \in SUBSET Orders, NEW ord,
         \A o \in rows : ord[o].status \in Pending
  PROVE  Listed(me, rows) \in ProcRow /\ Pursues(Listed(me, rows), ord)
<1>1. /\ Listed(me, rows) \in ProcRow /\ Listed(me, rows).at = "reconciling"
      /\ Listed(me, rows).todo = rows
  BY DEF Listed, ProcRow, Places
<1>2. QED
  BY <1>1 DEF Pursues

\* The steps that leave the journal and the venue alone.
LEMMA OnlyProcPursues ==
  ASSUME Alone, IInv, PInv, NEW w \in Procs,
         \/ StartReconcile(w) \/ StartTick(w) \/ FinishReconcile(w) \/ ReadBook(w)
         \/ Evaluate(w) \/ FinishTick(w) \/ Stop(w) \/ StepOver(w)
         \/ \E o \in Orders : Fetch(w, o) \/ StartCancel(w, o)
         \/ \E i \in Intent : TurnDown(w, i) \/ \E o \in Orders : CancelForExit(w, i, o)
  PROVE  PInv' /\ UNCHANGED <<order, venue>>
<1>1. /\ TypeOK /\ proc[w] \in ProcRow /\ Pursues(proc[w], order) /\ proc[w].todo \in SUBSET Orders
      /\ proc \in [Procs -> ProcRow]
  BY InPursuit, Types
<1>2. UNCHANGED <<order, venue>>
  BY DEF StartReconcile, StartTick, FinishReconcile, ReadBook, Evaluate, FinishTick, Stop, StepOver,
         Fetch, StartCancel, TurnDown, CancelForExit
<1>3. SUFFICES \E x \in ProcRow : /\ proc' = [proc EXCEPT ![w] = x] \/ proc' = OthersStale(w, x)
                                  /\ Pursues(x, order)
  BY <1>1, <1>2, PursuitMoves
<1>4. CASE StartReconcile(w) \/ StartTick(w)
  <2>1. PICK me \in ProcRow, rows \in SUBSET PendingOrders : proc' = [proc EXCEPT ![w] = Listed(me, rows)]
    <3>1. CASE StartReconcile(w)
      BY <3>1, IdleShape DEF StartReconcile
    <3>2. CASE StartTick(w)
      <4>1. [Idle EXCEPT !.then = "tick"] \in ProcRow
        BY IdleShape DEF ProcRow
      <4>2. QED
        BY <3>2, <4>1 DEF StartTick
    <3>3. QED
      BY <1>4, <3>1, <3>2
  <2>2. rows \in SUBSET Orders /\ \A o \in rows : order[o].status \in Pending
    BY DEF PendingOrders
  <2>3. QED
    BY <2>1, <2>2, ListedPursues
<1>5. CASE FinishReconcile(w)
  <2>1. CASE proc[w].then = "idle"
    <3>1. proc' = [proc EXCEPT ![w] = Idle]
      BY <1>1, <1>5, <2>1 DEF FinishReconcile
    <3>2. Idle \in ProcRow /\ Pursues(Idle, order)
      BY IdleShape, Resting
    <3>3. QED
      BY <3>1, <3>2
  <2>2. CASE proc[w].then # "idle"
    <3>1. PICK x : x = [proc[w] EXCEPT !.at = proc[w].then, !.then = "idle", !.unsent = {}]
      OBVIOUS
    <3>2. x \in ProcRow /\ x.at \in {"tick", "loop"} /\ x.todo = {}
      BY <1>1, <1>5, <2>2, <3>1 DEF ProcRow, Places, FinishReconcile
    <3>3. proc' = [proc EXCEPT ![w] = x]
      BY <1>1, <1>5, <2>2, <3>1 DEF FinishReconcile
    <3>4. Pursues(x, order)
      BY <3>2, Resting
    <3>5. QED
      BY <3>2, <3>3, <3>4
  <2>3. QED
    BY <2>1, <2>2
<1>6. CASE ReadBook(w)
  <2>1. PICK complete \in BOOLEAN :
          proc' = [proc EXCEPT ![w].at = "evaluate", ![w].seen = held,
                               ![w].fresh = complete /\ PendingOrders = {}]
    BY <1>6 DEF ReadBook
  <2>2. PICK x : x = [proc[w] EXCEPT !.at = "evaluate", !.seen = held,
                                     !.fresh = complete /\ PendingOrders = {}]
    OBVIOUS
  <2>3. (complete /\ PendingOrders = {}) \in BOOLEAN /\ proc[w].at = "tick"
    BY <1>6 DEF ReadBook
  <2>4. x \in ProcRow /\ x.at = "evaluate" /\ x.todo = {}
    BY <1>1, <2>2, <2>3, Types DEF ProcRow, Places, Pursues
  <2>5. proc' = [proc EXCEPT ![w] = x]
    BY <1>1, <2>1, <2>2
  <2>6. Pursues(x, order)
    BY <2>4, Resting
  <2>7. QED
    BY <2>4, <2>5, <2>6
<1>7. CASE Evaluate(w)
  <2>1. PICK accepted \in {FALSE, proc[w].fresh}, I \in ExitBatches(w) \cup {{i} : i \in Entry} :
          LET entry == \E i \in I : i.side = "buy"
              now == [Idle EXCEPT !.at = "loop", !.intents = I, !.fresh = entry,
                                  !.seen = IF entry THEN proc[w].seen ELSE @]
          IN proc' = IF accepted THEN OthersStale(w, now) ELSE [proc EXCEPT ![w] = now]
    BY <1>7 DEF Evaluate
  <2>2. I \in SUBSET Intent /\ (\E i \in I : i.side = "buy") \in BOOLEAN
    BY DEF ExitBatches, Intent
  <2>3. PICK x : x = [Idle EXCEPT !.at = "loop", !.intents = I, !.fresh = \E i \in I : i.side = "buy",
                         !.seen = IF \E i \in I : i.side = "buy" THEN proc[w].seen ELSE @]
    OBVIOUS
  <2>4. x \in ProcRow /\ x.at = "loop" /\ x.todo = {}
    BY <1>1, <2>2, <2>3, IdleShape DEF ProcRow, Places
  <2>5. proc' = [proc EXCEPT ![w] = x] \/ proc' = OthersStale(w, x)
    BY <2>1, <2>3
  <2>6. Pursues(x, order)
    BY <2>4, Resting
  <2>7. QED
    BY <2>4, <2>5, <2>6
<1>8. CASE FinishTick(w) \/ Stop(w)
  BY <1>8, IdleShape, Resting DEF FinishTick, Stop
<1>9. CASE StepOver(w)
  <2>1. PICK x : x = [proc[w] EXCEPT !.at = "loop", !.then = "idle", !.on = None,
                                     !.snap = Missing, !.todo = {}, !.unsent = {}]
    OBVIOUS
  <2>2. x \in ProcRow /\ x.at = "loop" /\ x.todo = {}
    BY <1>1, <2>1, IdleShape DEF ProcRow, Places
  <2>3. proc' = [proc EXCEPT ![w] = x]
    BY <1>1, <1>9, <2>1 DEF StepOver
  <2>4. Pursues(x, order)
    BY <2>2, Resting
  <2>5. QED
    BY <2>2, <2>3, <2>4
<1>10. ASSUME NEW o \in Orders, Fetch(w, o)
       PROVE  \E x \in ProcRow : /\ proc' = [proc EXCEPT ![w] = x] \/ proc' = OthersStale(w, x)
                                 /\ Pursues(x, order)
  <2>1. PICK s \in {Missing} \cup ({venue[o]} \cap Snapshot) :
          proc' = [proc EXCEPT ![w].at = "apply", ![w].on = o, ![w].snap = s]
    BY <1>10 DEF Fetch
  <2>2. PICK x : x = [proc[w] EXCEPT !.at = "apply", !.on = o, !.snap = s]
    OBVIOUS
  <2>a. s \in Snapshot
    BY <2>1, Constants DEF Missing, Snapshot
  <2>3. s \in Snapshot /\ o \in proc[w].todo
    BY <1>10, <2>a DEF Fetch
  <2>4. x \in ProcRow /\ x.at = "apply" /\ x.on = o /\ x.todo = proc[w].todo
    BY <1>1, <2>2, <2>3 DEF ProcRow, Places
  <2>5. Pursues(x, order)
    BY <1>1, <2>3, <2>4 DEF Pursues
  <2>6. proc' = [proc EXCEPT ![w] = x]
    BY <1>1, <2>1, <2>2
  <2>7. QED
    BY <2>4, <2>5, <2>6
<1>11. ASSUME NEW o \in Orders, StartCancel(w, o)
       PROVE  \E x \in ProcRow : /\ proc' = [proc EXCEPT ![w] = x] \/ proc' = OthersStale(w, x)
                                 /\ Pursues(x, order)
  <2>1. PICK x : x = [Idle EXCEPT !.at = "cancel", !.on = o]
    OBVIOUS
  <2>2. x \in ProcRow /\ x.at = "cancel" /\ x.on = o /\ x.todo = {}
    BY <2>1, IdleShape DEF ProcRow, Places
  <2>3. proc' = [proc EXCEPT ![w] = x] /\ order[o].status \in Pending
    BY <1>11, <2>1 DEF StartCancel, PendingOrders
  <2>4. Pursues(x, order)
    BY <2>2, <2>3 DEF Pursues
  <2>5. QED
    BY <2>2, <2>3, <2>4
<1>12. ASSUME NEW i \in Intent, TurnDown(w, i)
       PROVE  \E x \in ProcRow : /\ proc' = [proc EXCEPT ![w] = x] \/ proc' = OthersStale(w, x)
                                 /\ Pursues(x, order)
  <2>1. PICK x : x = [proc[w] EXCEPT !.intents = @ \ {i}]
    OBVIOUS
  <2>2. proc[w].at = "loop"
    BY <1>12 DEF TurnDown
  <2>3. x \in ProcRow /\ x.at = "loop" /\ x.todo = {}
    BY <1>1, <2>1, <2>2 DEF ProcRow, Pursues
  <2>4. proc' = [proc EXCEPT ![w] = x]
    BY <1>1, <1>12, <2>1 DEF TurnDown
  <2>5. Pursues(x, order)
    BY <2>3, Resting
  <2>6. QED
    BY <2>3, <2>4, <2>5
<1>13. ASSUME NEW i \in Intent, NEW o \in Orders, CancelForExit(w, i, o)
       PROVE  \E x \in ProcRow : /\ proc' = [proc EXCEPT ![w] = x] \/ proc' = OthersStale(w, x)
                                 /\ Pursues(x, order)
  <2>1. PICK x : x = [proc[w] EXCEPT !.at = "cancel", !.on = o, !.then = "loop",
                                     !.intents = @ \ {i}]
    OBVIOUS
  <2>2. proc[w].at = "loop" /\ order[o].status \in Pending
    BY <1>13 DEF CancelForExit, PendingOn, PendingOrders
  <2>3. x \in ProcRow /\ x.at = "cancel" /\ x.on = o /\ x.todo = {}
    BY <1>1, <2>1, <2>2 DEF ProcRow, Places, Pursues
  <2>4. proc' = [proc EXCEPT ![w] = x]
    BY <1>1, <1>13, <2>1 DEF CancelForExit
  <2>5. Pursues(x, order)
    BY <2>2, <2>3 DEF Pursues
  <2>6. QED
    BY <2>3, <2>4, <2>5
<1>14. QED
  BY <1>4, <1>5, <1>6, <1>7, <1>8, <1>9, <1>10, <1>11, <1>12, <1>13

\* The steps that write one row, of an order the process is working on.
LEMMA OneRowPursues ==
  ASSUME Alone, IInv, PInv, NEW w \in Procs, NEW x \in ProcRow,
         proc' = [proc EXCEPT ![w] = x] \/ proc' = OthersStale(w, x),
         NEW o \in Orders, order[o].status \in Pending, NEW r \in Rows,
         order' = [order EXCEPT ![o] = r], UNCHANGED venue,
         order[o].filled <= r.filled, r.filled <= venue[o].fill,
         r.status \in Terminal => venue[o].state \in Final /\ r.filled = venue[o].fill,
         x.at \in {"idle", "loop", "reconciling"},
         \A u \in x.todo : u = o => r.status \in Pending,
         \A u \in x.todo : u \in Orders /\ order[u].status \in Pending,
         x.at # "reconciling" => x.todo = {}
  PROVE  PInv' /\ Journal!Next
<1>1. TypeOK
  BY DEF IInv
<1>2. order'[o] = r /\ \A u \in Orders \ {o} : order'[u] = order[u]
  BY <1>1, Types
<1>3. Pursues(x, order')
  BY <1>2 DEF Pursues
<1>4. PInv'
  BY <1>1, <1>3, PursuitMoves
<1>5. Journal!Next
  BY <1>1, RowBooks
<1>6. QED
  BY <1>4, <1>5

\* A status is written over a pending one.
LEMMA MarkPursues ==
  ASSUME Alone, IInv, PInv, NEW w \in Procs,
         \/ RecordMissing(w) \/ MarkCancel(w) \/ ReplyUnclear(w) \/ ReplyApproval(w)
         \/ \E o \in Orders : RecordDeclined(w, o)
  PROVE  PInv' /\ Journal!Next
<1>1. /\ TypeOK /\ proc[w] \in ProcRow /\ Working(proc[w], order, venue)
      /\ Pursues(proc[w], order) /\ proc[w].todo \in SUBSET Orders /\ UNCHANGED venue
  BY InPursuit DEF RecordMissing, MarkCancel, ReplyUnclear, ReplyApproval, RecordDeclined
<1>2. PICK o : /\ o \in Orders /\ order[o].status \in Pending
               /\ o = proc[w].on \/ RecordDeclined(w, o)
               /\ \/ ~(\E u \in Orders : RecordDeclined(w, u))
                  \/ RecordDeclined(w, o)
  <2>1. ASSUME NEW o \in Orders, RecordDeclined(w, o) PROVE order[o].status \in Pending
    BY <1>1, <2>1 DEF RecordDeclined, Pursues
  <2>2. CASE ~(\E u \in Orders : RecordDeclined(w, u))
    <3>1. proc[w].at \in {"apply", "cancel", "send", "reply"}
      BY <2>2 DEF RecordMissing, MarkCancel, ReplyUnclear, ReplyApproval
    <3>2. QED
      BY <2>2, <3>1, InPursuit
  <2>3. QED
    BY <2>1, <2>2
<1>3. /\ order[o].status # "absent" /\ order[o] \in Rows /\ Sound(order[o], venue[o])
      /\ order[o].filled \in Nat /\ venue[o].fill \in Nat
  BY <1>1, <1>2, Types, RowShape, VenueShape DEF Pending, IInv, Kept
<1>4. order[o].filled <= venue[o].fill
  BY <1>3 DEF Sound
<1>5. SUFFICES \E x \in ProcRow, r \in Rows :
        /\ proc' = [proc EXCEPT ![w] = x]
        /\ order' = [order EXCEPT ![o] = r] /\ r.filled = order[o].filled
        /\ r.status \in Pending \/ (venue[o].state \in Final /\ venue[o].fill = 0 /\ o \notin x.todo)
        /\ x.at \in {"idle", "loop", "reconciling"}
        /\ \A u \in x.todo : u \in Orders /\ order[u].status \in Pending
        /\ x.at # "reconciling" => x.todo = {}
  <2>1. PICK x \in ProcRow, r \in Rows :
        /\ proc' = [proc EXCEPT ![w] = x]
        /\ order' = [order EXCEPT ![o] = r] /\ r.filled = order[o].filled
        /\ r.status \in Pending \/ (venue[o].state \in Final /\ venue[o].fill = 0 /\ o \notin x.todo)
        /\ x.at \in {"idle", "loop", "reconciling"}
        /\ \A u \in x.todo : u \in Orders /\ order[u].status \in Pending
        /\ x.at # "reconciling" => x.todo = {}
    BY <1>5
  <2>2. order[o].filled <= r.filled /\ r.filled <= venue[o].fill
    BY <1>3, <1>4, <2>1
  <2>3. r.status \in Terminal => venue[o].state \in Final /\ r.filled = venue[o].fill
    BY <1>3, <1>4, <2>1 DEF Pending, Terminal
  <2>4. \A u \in x.todo : u = o => r.status \in Pending
    BY <2>1
  <2>5. QED
    BY <1>1, <1>2, <2>1, <2>2, <2>3, <2>4, OneRowPursues
<1>6. CASE RecordMissing(w)
  <2>1. /\ order' = Marked(o, AbsentStatus(w, o)) /\ proc' = [proc EXCEPT ![w] = Reconciled(w)]
        /\ proc[w].at = "apply"
    BY <1>2, <1>6 DEF RecordMissing, RecordDeclined
  <2>2. AbsentStatus(w, o) \in Pending
    BY <1>2 DEF AbsentStatus, Pending
  <2>3. PICK r \in Rows : /\ order' = [order EXCEPT ![o] = r] /\ r.status = AbsentStatus(w, o)
                          /\ r.filled = order[o].filled
    BY <1>1, <1>2, <1>3, <2>1, <2>2, MarkedRow
  <2>4. PICK x \in ProcRow : /\ x = Reconciled(w) /\ x.at = "reconciling"
                             /\ x.todo = proc[w].todo \ {proc[w].on}
    BY <1>1, ReconciledShape
  <2>5. \A u \in x.todo : u \in Orders /\ order[u].status \in Pending
    BY <1>1, <2>4 DEF Pursues
  <2>6. QED
    BY <2>1, <2>2, <2>3, <2>4, <2>5
<1>7. CASE MarkCancel(w)
  <2>1. /\ order' = Marked(o, "cancel_pending") /\ proc[w].on = o
        /\ proc' = [proc EXCEPT ![w] = Listed([@ EXCEPT !.on = None], PendingOrders \cup {@.on})]
    BY <1>2, <1>7 DEF MarkCancel, RecordDeclined
  <2>2. PICK r \in Rows : /\ order' = [order EXCEPT ![o] = r] /\ r.status = "cancel_pending"
                          /\ r.filled = order[o].filled
    BY <1>1, <1>2, <1>3, <2>1, MarkedRow DEF Pending
  <2>3. PICK me : me = [proc[w] EXCEPT !.on = None]
    OBVIOUS
  <2>4. me \in ProcRow
    BY <1>1, <2>3 DEF ProcRow
  <2>5. PICK rows : rows = PendingOrders \cup {o}
    OBVIOUS
  <2>6. rows \in SUBSET Orders /\ \A u \in rows : order[u].status \in Pending
    BY <1>2, <2>5 DEF PendingOrders
  <2>7. PICK x : x = Listed(me, rows)
    OBVIOUS
  <2>8. x \in ProcRow /\ x.at = "reconciling" /\ x.todo = rows
    BY <2>4, <2>6, <2>7 DEF Listed, ProcRow, Places
  <2>9. proc' = [proc EXCEPT ![w] = x]
    BY <1>1, <2>1, <2>3, <2>5, <2>7
  <2>10. r.status \in Pending
    BY <2>2 DEF Pending
  <2>11. QED
    BY <2>2, <2>6, <2>8, <2>9, <2>10
<1>8. CASE ReplyUnclear(w)
  <2>1. /\ order' = Marked(o, "uncertain") /\ proc[w].at \in {"send", "reply"}
        /\ proc' = [proc EXCEPT ![w] = IF @.intents # {} THEN Replied(w) ELSE Idle]
    BY <1>2, <1>8 DEF ReplyUnclear, RecordDeclined
  <2>2. PICK r \in Rows : /\ order' = [order EXCEPT ![o] = r] /\ r.status = "uncertain"
                          /\ r.filled = order[o].filled
    BY <1>1, <1>2, <1>3, <2>1, MarkedRow DEF Pending
  <2>3. Replied(w) \in ProcRow /\ Replied(w).at = "loop" /\ Replied(w).todo = {}
    BY <1>1, <2>1 DEF Replied, ProcRow, Places, Pursues
  <2>4. PICK x \in {Replied(w), Idle} : proc' = [proc EXCEPT ![w] = x]
    BY <2>1
  <2>5. x \in ProcRow /\ x.at \in {"idle", "loop"} /\ x.todo = {}
    BY <2>3, <2>4, IdleShape
  <2>6. r.status \in Pending
    BY <2>2 DEF Pending
  <2>7. QED
    BY <2>2, <2>4, <2>5, <2>6
<1>9. CASE ReplyApproval(w)
  <2>1. /\ order' = [order EXCEPT ![o].status = "awaiting_approval", ![o].approval = TRUE]
        /\ proc' = [proc EXCEPT ![w] = Replied(w)] /\ proc[w].at = "reply"
    BY <1>2, <1>9 DEF ReplyApproval, RecordDeclined
  <2>2. PICK r : r = [order[o] EXCEPT !.status = "awaiting_approval", !.approval = TRUE]
    OBVIOUS
  <2>3. r \in Rows /\ r.status \in Pending /\ r.filled = order[o].filled
    BY <1>3, <2>2 DEF Rows, Pending
  <2>4. order' = [order EXCEPT ![o] = r]
    BY <1>1, <1>2, <2>1, <2>2, Types
  <2>5. Replied(w) \in ProcRow /\ Replied(w).at = "loop" /\ Replied(w).todo = {}
    BY <1>1, <2>1 DEF Replied, ProcRow, Places, Pursues
  <2>6. QED
    BY <2>1, <2>3, <2>4, <2>5
<1>10. CASE RecordDeclined(w, o)
  <2>1. /\ order' = Marked(o, "canceled") /\ proc' = [proc EXCEPT ![w].todo = @ \ {o}]
        /\ proc[w].at = "reconciling" /\ venue[o].state = "declined"
    BY <1>10 DEF RecordDeclined
  <2>2. PICK r \in Rows : /\ order' = [order EXCEPT ![o] = r] /\ r.status = "canceled"
                          /\ r.filled = order[o].filled
    BY <1>1, <1>2, <1>3, <2>1, MarkedRow DEF Terminal
  <2>3. PICK x : x = [proc[w] EXCEPT !.todo = @ \ {o}]
    OBVIOUS
  <2>4. x \in ProcRow /\ x.at = "reconciling" /\ x.todo = proc[w].todo \ {o}
    BY <1>1, <2>1, <2>3 DEF ProcRow
  <2>5. proc' = [proc EXCEPT ![w] = x]
    BY <1>1, <2>1, <2>3, Types
  <2>6. \A u \in x.todo : u \in Orders /\ order[u].status \in Pending
    BY <1>1, <2>4 DEF Pursues
  <2>7. venue[o].state \in Final /\ venue[o].fill = 0
    BY <1>3, <2>1 DEF Sound, Unfilled, Final
  <2>8. QED
    BY <2>2, <2>4, <2>5, <2>6, <2>7
<1>11. QED
  BY <1>2, <1>6, <1>7, <1>8, <1>9, <1>10

\* A snapshot is booked for a pending order.
LEMMA SnapshotPursues ==
  ASSUME Alone, IInv, PInv, NEW w \in Procs, RecordFound(w) \/ ReplyOrder(w)
  PROVE  PInv' /\ Journal!Next
<1>1. /\ TypeOK /\ proc[w] \in ProcRow /\ Working(proc[w], order, venue)
      /\ Pursues(proc[w], order) /\ proc[w].todo \in SUBSET Orders
      /\ proc[w].at \in {"apply", "reply"}
  BY InPursuit DEF RecordFound, ReplyOrder
<1>2. PICK o \in Orders : o = proc[w].on /\ order[o].status \in Pending
  BY <1>1, InPursuit
<1>3. order[o].status # "absent" /\ venue[o] \in VenueRow /\ venue[o].fill \in Nat
      /\ order[o].filled \in Nat
  BY <1>1, <1>2, Types, VenueShape, RowShape DEF Pending
<1>4. PICK s \in Snapshot, after \in ProcRow :
        /\ Witness(s, venue[o]) /\ ApplySnapshot(w, o, s, after)
        /\ after.at \in {"loop", "reconciling"} /\ after.todo = proc[w].todo \ {o}
        /\ after.at # "reconciling" => after.todo = {}
  <2>1. CASE RecordFound(w)
    <3>1. /\ proc[w].snap # Missing /\ proc[w].snap \in Snapshot
          /\ ApplySnapshot(w, o, proc[w].snap, Reconciled(w))
      BY <1>1, <1>2, <2>1 DEF RecordFound, ProcRow
    <3>2. Witness(proc[w].snap, venue[o])
      BY <1>1, <1>2, <3>1 DEF Working
    <3>3. Reconciled(w) \in ProcRow /\ Reconciled(w).at = "reconciling"
          /\ Reconciled(w).todo = proc[w].todo \ {o}
      BY <1>1, <1>2, ReconciledShape
    <3>4. QED
      BY <3>1, <3>2, <3>3
  <2>2. CASE ReplyOrder(w)
    <3>1. PICK s \in {venue[o], [state |-> "working", fill |-> 0]} :
            venue[o].state \in Visible /\ ApplySnapshot(w, o, s, Replied(w))
      BY <1>2, <2>2 DEF ReplyOrder
    <3>2. s \in Snapshot /\ Witness(s, venue[o])
      BY <1>3, <3>1, Constants DEF Snapshot, VenueRow, Witness, Visible
    <3>3. Replied(w) \in ProcRow /\ Replied(w).at = "loop" /\ proc[w].todo = {}
          /\ Replied(w).todo = proc[w].todo
      BY <1>1, <2>2 DEF Replied, ProcRow, Places, Pursues, ReplyOrder
    <3>4. QED
      BY <3>1, <3>2, <3>3
  <2>3. QED
    BY <2>1, <2>2
<1>5. PICK r \in Rows : /\ order' = [order EXCEPT ![o] = r] /\ r.filled = s.fill
                        /\ r.status \in Terminal => r.status = s.state
  BY <1>1, <1>3, <1>4, SnapshotRow
<1>6. PICK x \in ProcRow : /\ proc' = [proc EXCEPT ![w] = x] \/ proc' = OthersStale(w, x)
                           /\ x.at = after.at /\ x.todo = after.todo
  <2>1. PICK y : y = [after EXCEPT !.fresh = FALSE]
    OBVIOUS
  <2>2. y \in ProcRow /\ y.at = after.at /\ y.todo = after.todo
    BY <2>1 DEF ProcRow
  <2>3. proc' = OthersStale(w, y) \/ proc' = [proc EXCEPT ![w] = after]
    BY <1>4, <2>1 DEF ApplySnapshot
  <2>4. QED
    BY <2>2, <2>3
<1>7. /\ order[o].filled <= r.filled /\ r.filled <= venue[o].fill
      /\ r.status \in Terminal => venue[o].state \in Final /\ r.filled = venue[o].fill
  BY <1>4, <1>5 DEF ApplySnapshot, Accepts, Witness, Terminal, Final
<1>8. /\ UNCHANGED venue /\ \A u \in x.todo : u # o
      /\ \A u \in x.todo : u \in Orders /\ order[u].status \in Pending
  BY <1>1, <1>4, <1>6 DEF ApplySnapshot, Pursues
<1>9. x.at \in {"idle", "loop", "reconciling"} /\ (x.at # "reconciling" => x.todo = {})
  BY <1>4, <1>6
<1>10. QED
  BY <1>2, <1>5, <1>6, <1>7, <1>8, <1>9, OneRowPursues

LEMMA ReservePursues ==
  ASSUME Alone, IInv, PInv, NEW w \in Procs, NEW i \in Intent, NEW o \in Orders, Reserve(w, i, o)
  PROVE  PInv' /\ Journal!Next
<1>1. /\ TypeOK /\ proc[w] \in ProcRow /\ order[o].status = "absent" /\ UNCHANGED venue
      /\ order' = [order EXCEPT ![o] = [NoOrder EXCEPT !.status = "submitting", !.intent = i]]
      /\ proc' = [proc EXCEPT ![w] = [Idle EXCEPT !.at = "send", !.on = o,
                     !.intents = proc[w].intents \ {i}]]
  BY InPursuit DEF Reserve
<1>2. PICK r : r = [NoOrder EXCEPT !.status = "submitting", !.intent = i]
  OBVIOUS
<1>3. r.status = "submitting" /\ r.filled = 0
  BY <1>2 DEF NoOrder
<1>4. order'[o] = r /\ \A u \in Orders \ {o} : order'[u] = order[u]
  BY <1>1, <1>2, Types
<1>5. PICK x : x = [Idle EXCEPT !.at = "send", !.on = o, !.intents = proc[w].intents \ {i}]
  OBVIOUS
<1>6. x \in ProcRow /\ x.at = "send" /\ x.on = o /\ x.todo = {}
  BY <1>1, <1>5, IdleShape DEF ProcRow, Places
<1>7. Pursues(x, order')
  BY <1>3, <1>4, <1>6 DEF Pursues, Pending
<1>8. PInv'
  BY <1>1, <1>5, <1>6, <1>7, PursuitMoves
<1>9. States[o] = "none"
  BY <1>1, Classes DEF States
<1>10. States' = [States EXCEPT ![o] = "open"]
  <2>1. Class(r) = "open"
    BY <1>3, Classes DEF Pending
  <2>2. \A u \in Orders : Class(order'[u]) = IF u = o THEN "open" ELSE Class(order[u])
    BY <1>4, <2>1
  <2>3. QED
    BY <2>2 DEF States
<1>11. UNCHANGED <<BookedMap, ExecutedMap, OverMap>>
  <2>1. order[o].filled = 0
    BY <1>1, Types, RowShape
  <2>2. \A u \in Orders : order'[u].filled = order[u].filled
    BY <1>3, <1>4, <2>1
  <2>3. QED
    BY <1>1, <2>2 DEF BookedMap, ExecutedMap, OverMap
<1>12. Journal!Reserve(o)
  BY <1>9, <1>10, <1>11
     DEF Journal!Reserve, States, Class, BookedMap, ExecutedMap, OverMap
<1>13. QED
  BY <1>8, <1>12 DEF Journal!Next

\* The request goes out: the venue has executed nothing yet.
LEMMA SendPursues ==
  ASSUME Alone, IInv, PInv, NEW w \in Procs, Send(w)
  PROVE  PInv' /\ UNCHANGED JournalVars
<1>1. /\ TypeOK /\ proc[w] \in ProcRow /\ Working(proc[w], order, venue) /\ Pursues(proc[w], order)
      /\ proc[w].at = "send" /\ Goto(w, "reply") /\ order' = order
      /\ venue' = [venue EXCEPT ![proc[w].on].state = "inflight"]
  BY InPursuit DEF Send
<1>2. PICK o \in Orders : o = proc[w].on /\ venue[o].state = "none"
  BY <1>1 DEF Working
<1>3. PICK x : x = [proc[w] EXCEPT !.at = "reply"]
  OBVIOUS
<1>4. x \in ProcRow /\ x.at = "reply" /\ x.on = proc[w].on /\ x.todo = proc[w].todo
  BY <1>1, <1>3 DEF ProcRow, Places
<1>5. proc' = [proc EXCEPT ![w] = x]
  BY <1>1, <1>3, Types DEF Goto
<1>6. Pursues(x, order')
  BY <1>1, <1>4 DEF Pursues
<1>7. PInv'
  BY <1>1, <1>4, <1>5, <1>6, PursuitMoves
<1>8. \A u \in Orders : venue'[u].fill = venue[u].fill /\ (venue'[u].state \in Final <=> venue[u].state \in Final)
  <2>1. venue \in [Orders -> VenueRow] /\ venue[o] \in VenueRow
    BY <1>1, Types
  <2>2. venue'[o] = [venue[o] EXCEPT !.state = "inflight"]
    BY <1>1, <1>2, <2>1
  <2>3. venue'[o].fill = venue[o].fill /\ venue'[o].state = "inflight"
    BY <2>1, <2>2 DEF VenueRow
  <2>4. \A u \in Orders \ {o} : venue'[u] = venue[u]
    BY <1>1, <1>2, <2>1
  <2>5. QED
    BY <1>2, <2>3, <2>4 DEF Final
<1>9. \A u \in Orders : (venue'[u].state \in Final) = (venue[u].state \in Final)
  BY <1>8
<1>10. UNCHANGED JournalVars
  BY <1>1, <1>8, <1>9 DEF JournalVars, States, BookedMap, ExecutedMap, OverMap
<1>11. QED
  BY <1>7, <1>10

LEMMA VenuePursues ==
  ASSUME IInv, PInv, Venue
  PROVE  PInv' /\ Journal!Next
<1>1. PICK o \in Orders : Take(o) \/ Decide(o) \/ End(o) \/ Fill(o)
  BY DEF Venue
<1>2. /\ TypeOK /\ venue[o] \in VenueRow /\ venue[o].fill \in Nat /\ Sound(order[o], venue[o])
      /\ UNCHANGED <<order, proc>>
  BY <1>1, Types, VenueShape DEF IInv, Kept, Take, Decide, End, Fill, VenueStep
<1>3. PInv'
  BY <1>2 DEF PInv
<1>4. venue[o].state \in {"inflight", "approval", "working"}
  BY <1>1 DEF Take, Decide, End, Fill, VenueStep
<1>5. order[o].status # "absent" /\ venue[o].state \notin Final
  BY <1>2, <1>4 DEF Sound, Final
<1>6. order[o].intent.qty \in Nat /\ order[o].intent.qty \in 1..MaxQty
  BY <1>2, <1>5, Types, RowShape, RowFields, IntentShape
<1>7. PICK v \in VenueRow : venue' = [venue EXCEPT ![o] = v] /\ venue[o].fill <= v.fill
  <2>1. CASE Take(o) \/ Decide(o) \/ End(o)
    <3>1. PICK to \in {"approval", "working", "declined", "canceled"} :
            venue' = [venue EXCEPT ![o].state = to]
      BY <2>1 DEF Take, Decide, End, VenueStep
    <3>2. PICK v : v = [venue[o] EXCEPT !.state = to]
      OBVIOUS
    <3>3. v \in VenueRow /\ v.fill = venue[o].fill
      BY <1>2, <3>2 DEF VenueRow, Visible
    <3>4. venue' = [venue EXCEPT ![o] = v]
      BY <1>2, <3>1, <3>2, Types
    <3>5. venue[o].fill <= v.fill
      BY <1>2, <3>3
    <3>6. QED
      BY <3>3, <3>4, <3>5
  <2>2. CASE Fill(o)
    <3>1. PICK n \in (venue[o].fill + 1)..order[o].intent.qty :
            venue' = [venue EXCEPT ![o] =
              [state |-> IF n = order[o].intent.qty THEN "filled" ELSE "working", fill |-> n]]
      BY <2>2 DEF Fill
    <3>2. PICK v : v = [state |-> IF n = order[o].intent.qty THEN "filled" ELSE "working", fill |-> n]
      OBVIOUS
    <3>3. n \in 0..MaxQty /\ venue[o].fill <= n
      BY <1>2, <1>6, Constants
    <3>4. v \in VenueRow /\ v.fill = n
      BY <3>2, <3>3 DEF VenueRow, Visible
    <3>5. venue' = [venue EXCEPT ![o] = v]
      BY <3>1, <3>2
    <3>6. QED
      BY <3>3, <3>4, <3>5
  <2>3. QED
    BY <1>1, <2>1, <2>2
<1>8. Journal!Next
  BY <1>2, <1>5, <1>7, VenueExecutes
<1>9. QED
  BY <1>3, <1>8

LEMMA JournalStep ==
  ASSUME Alone, IInv, PInv, [Next]_vars
  PROVE  PInv' /\ [Journal!Next]_JournalVars
<1>1. ASSUME NEW w \in Procs, Reconcile(w) PROVE PInv' /\ [Journal!Next]_JournalVars
  BY <1>1, OnlyProcPursues, NothingOnRecord, MarkPursues, SnapshotPursues DEF Reconcile
<1>2. ASSUME NEW w \in Procs, CancelOrder(w) PROVE PInv' /\ [Journal!Next]_JournalVars
  BY <1>2, OnlyProcPursues, NothingOnRecord, MarkPursues DEF CancelOrder
<1>3. ASSUME NEW w \in Procs, Tick(w) PROVE PInv' /\ [Journal!Next]_JournalVars
  BY <1>3, OnlyProcPursues, NothingOnRecord, MarkPursues, SnapshotPursues, ReservePursues,
     SendPursues DEF Tick
<1>4. ASSUME NEW w \in Procs, Stop(w) \/ StepOver(w) PROVE PInv' /\ [Journal!Next]_JournalVars
  BY <1>4, OnlyProcPursues, NothingOnRecord
<1>5. CASE Venue
  BY <1>5, VenuePursues
<1>6. CASE UNCHANGED vars
  BY <1>6, NothingOnRecord DEF vars, PInv
<1>7. QED
  BY <1>1, <1>2, <1>3, <1>4, <1>5, <1>6 DEF Next

\* ImplementsJournal: one process, through crashes, lost replies, a lagging history and
\* requested cancellations, keeps the journal that OrderJournal promises.  Several do
\* not: the unconditional mark of one reopens what another has just closed.
THEOREM JournalRefinement == ASSUME Alone PROVE Spec => ImplementsJournal
<1>1. Init => PInv /\ Journal!Init
  <2> SUFFICES ASSUME Init PROVE PInv /\ Journal!Init
    OBVIOUS
  <2>1. PInv
    BY IdleShape DEF Init, PInv, Pursues
  <2>2. \A o \in Orders : /\ Class(order[o]) = "none" /\ order[o].filled = 0
                          /\ venue[o].fill = 0 /\ (venue[o].state \in Final) = FALSE
    <3>1. \A o \in Orders : /\ order[o].status = "absent" /\ order[o].filled = 0
                            /\ venue[o].fill = 0 /\ venue[o].state \notin Final
      BY DEF Init, NoOrder, Final
    <3>2. \A o \in Orders : (venue[o].state \in Final) = FALSE
      BY <3>1
    <3>3. QED
      BY <3>1, <3>2, Classes
  <2>3. /\ States = [o \in Orders |-> "none"] /\ BookedMap = [o \in Orders |-> 0]
        /\ ExecutedMap = [o \in Orders |-> 0] /\ OverMap = [o \in Orders |-> FALSE]
    BY <2>2 DEF States, BookedMap, ExecutedMap, OverMap
  <2>4. Journal!Init
    BY <2>3 DEF Journal!Init, States, Class, BookedMap, ExecutedMap, OverMap
  <2>5. QED
    BY <2>1, <2>4
<1>2. IInv /\ PInv /\ [Next]_vars => PInv' /\ [Journal!Next]_(Journal!vars)
  BY JournalStep DEF Journal!vars, JournalVars, States, Class, BookedMap, ExecutedMap, OverMap
<1>3. QED
  BY <1>1, <1>2, Invariance, PTL DEF Spec, ImplementsJournal, Journal!Spec

=============================================================================
