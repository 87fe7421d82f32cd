--------------------------- MODULE DexOrdersProofs ---------------------------
(***************************************************************************)
(* Proofs about DexOrders, for any number of orders, positions and         *)
(* quantities: the types, fills booked once, no sale beyond what was       *)
(* bought, and the refinement of OrderJournal.                             *)
(*                                                                         *)
(* The inductive invariant ties the row of every order to its transactions *)
(* and to the place of the tick that executes it: a closed order has no     *)
(* swap left that could be mined, and an order no tick is executing will   *)
(* never get one.  What a sell may still take from a position is then what *)
(* is booked, plus the orders in flight, which reserve counts.              *)
(***************************************************************************)
EXTENDS DexOrders, SumTheorems, TLAPS

-----------------------------------------------------------------------------
(* The inductive invariant *)

\* Row r of order o, its transactions c, and the tick t.
Fits(o, r, c, t) ==
  /\ r.status = "absent" => c.swap = "none" /\ t.on # o
  /\ r.status # "absent" => c.fill <= r.intent.qty
  /\ c.swap # "filled" => c.fill = 0
  /\ c.swap # "none" => r.hash
  /\ r.status = "confirmed" => c.swap = "filled"
  /\ r.status \in {"fee_only", "failed"} => c.swap \in {"none", "reverted"}
  /\ r.status \in Closed => t.on # o
  /\ o \in t.todo => r.status \in Pending

\* The tick at t, in a world with journal ord and chain ch.
Doing(t, ord, ch) ==
  /\ t.at \in Executing <=> t.on \in Orders
  /\ t.at # "reconcile" => t.todo = {}
  /\ t.at \in Executing \ {"settle"} => ch[t.on].swap = "none"
  /\ t.at = "send" => ord[t.on].hash
  /\ t.at = "settle" => t.attempted /\ ch[t.on].swap # "none"

Fitting == \A o \in Orders : Fits(o, order[o], chain[o], tick)

\* A position nothing was ever booked into is empty.
Flat == \A p \in Positions : posn[p] = "none" => held[p] = 0

-----------------------------------------------------------------------------
(* Sums over the orders *)

On(r, p, side) == r.status # "absent" /\ r.intent.pos = p /\ r.intent.side = side

\* No swap of the order can be mined any more.
Over(o, c, t) == c.swap \in {"filled", "reverted"} \/ (c.swap = "none" /\ t.on # o)

\* What the order may still come to.
Ends(o, r, c, t) == IF Over(o, c, t) THEN c.fill ELSE r.intent.qty

ConfirmedOf(p, side, ord, ch) ==
  [o \in Orders |-> IF On(ord[o], p, side) /\ ord[o].status = "confirmed" THEN ch[o].fill ELSE 0]
BoughtOf(p, ord, ch) == [o \in Orders |-> IF On(ord[o], p, "buy") THEN ch[o].fill ELSE 0]
SoldOf(p, ord, ch, t) ==
  [o \in Orders |-> IF On(ord[o], p, "sell") THEN Ends(o, ord[o], ch[o], t) ELSE 0]
RiskOf(p, ord, ch) ==
  [o \in Orders |-> IF On(ord[o], p, "sell")
                    THEN IF ch[o].swap \in {"sent", "odd"} THEN ord[o].intent.qty ELSE ch[o].fill
                    ELSE 0]

Total(f) == SumFunctionOnSet(f, Orders)

BookedOnce(ord, ch, h) ==
  \A p \in Positions :
    h[p] = Total(ConfirmedOf(p, "buy", ord, ch)) - Total(ConfirmedOf(p, "sell", ord, ch))

\* The sells in flight and done, the one being executed included.
Covered == \A p \in Positions : Total(SoldOf(p, order, chain, tick)) <= Total(BoughtOf(p, order, chain))

IInv == TypeOK /\ Fitting /\ Doing(tick, order, chain) /\ Flat /\ BookedOnce(order, chain, held) /\ Covered

-----------------------------------------------------------------------------
(* Types *)

Rows == [status : Pending \cup Closed, intent : Intent, approval : BOOLEAN, hash : BOOLEAN]
ChainRow == [approval : ApprovalState, swap : SwapState, fill : 0..MaxQty]

LEMMA Constants ==
  /\ MaxQty \in Nat /\ MaxQty > 0 /\ MaxOrders \in Nat /\ IsFiniteSet(Orders)
  /\ None \notin Orders
  BY DexAssumption, FS_Interval DEF DexAssumption, Orders

LEMMA IntentShape ==
  ASSUME NEW i \in Intent
  PROVE  i.pos \in Positions /\ i.side \in {"buy", "sell"} /\ i.qty \in 1..MaxQty /\ i.qty \in Nat
<1>1. EntrySizes \subseteq 1..MaxQty
  BY DexAssumption DEF DexAssumption
<1>2. i.pos \in Positions /\ i.side \in {"buy", "sell"} /\ i.qty \in 1..MaxQty
  BY <1>1 DEF Intent
<1>3. QED
  BY <1>2, Constants

LEMMA RowShape ==
  ASSUME NEW r \in OrderRow
  PROVE  /\ r.status # "absent" => r \in Rows
         /\ r.status = "absent" => r = NoOrder
         /\ r.status \in {"absent"} \cup Pending \cup Closed /\ r.hash \in BOOLEAN
<1>1. CASE r = NoOrder
  BY <1>1 DEF NoOrder
<1>2. CASE r \in Rows
  BY <1>2 DEF Rows, Pending, Closed
<1>3. QED
  BY <1>1, <1>2 DEF OrderRow, Rows

LEMMA RowsAreRows == Rows \subseteq OrderRow /\ NoOrder \in OrderRow
  BY DEF Rows, OrderRow

LEMMA RowFields ==
  ASSUME NEW r \in Rows
  PROVE  /\ r.status \in Pending \cup Closed /\ r.status # "absent" /\ r.intent \in Intent
         /\ r.intent.pos \in Positions /\ r.intent.side \in {"buy", "sell"}
         /\ r.intent.qty \in Nat /\ r.intent.qty \in 1..MaxQty
<1>1. /\ r.status \in Pending \cup Closed /\ r.status # "absent" /\ r.intent \in Intent
  BY DEF Rows, Pending, Closed
<1>2. QED
  BY <1>1, IntentShape

LEMMA ChainShape ==
  ASSUME NEW c \in ChainRow
  PROVE  /\ c.approval \in ApprovalState /\ c.swap \in SwapState
         /\ c.fill \in 0..MaxQty /\ c.fill \in Nat
  BY Constants DEF ChainRow

LEMMA TickShape ==
  ASSUME NEW t \in TickRow
  PROVE  /\ t.at \in Places /\ t.todo \in SUBSET Orders /\ t.intents \in SUBSET Intent
         /\ t.batch \in BOOLEAN /\ t.on \in Orders \cup {None} /\ t.attempted \in BOOLEAN
  BY DEF TickRow

LEMMA Types ==
  ASSUME TypeOK
  PROVE  /\ order \in [Orders -> OrderRow] /\ chain \in [Orders -> ChainRow]
         /\ tick \in TickRow /\ posn \in [Positions -> {"none", "open", "closed"}]
         /\ held \in [Positions -> 0..MaxQty] /\ held \in [Positions -> Nat]
         /\ strategy \in {"live", "monitored", "inactive"}
<1>1. 0..MaxQty \subseteq Nat
  BY Constants
<1>2. QED
  BY <1>1 DEF TypeOK, ChainRow

LEMMA IdleShape ==
  /\ Idle \in TickRow /\ Idle.at = "idle" /\ Idle.todo = {} /\ Idle.intents = {}
  /\ Idle.batch = FALSE /\ Idle.on = None /\ Idle.attempted = FALSE
  BY DEF Idle, TickRow, Places

-----------------------------------------------------------------------------
(* The properties as sums over all orders *)

FillIn(ch, S) == MapThenSumSet(LAMBDA o : ch[o].fill, S)
RiskIn(ord, ch, S) ==
  MapThenSumSet(LAMBDA o : CASE ch[o].swap \in {"sent", "odd"} -> ord[o].intent.qty [] OTHER -> ch[o].fill, S)

LEMMA FillSum ==
  ASSUME NEW ch, NEW S \in SUBSET Orders, \A o \in S : ch[o].fill \in Nat,
         NEW g, \A o \in Orders : g[o] = IF o \in S THEN ch[o].fill ELSE 0
  PROVE  FillIn(ch, S) = Total(g)
<1> DEFINE f == [o \in S |-> ch[o].fill]
           Sums(h) == h = [T \in SUBSET S |->
                             IF T = {} THEN 0 ELSE ch[Pick(T)].fill + h[T \ {Pick(T)}]]
           k == CHOOSE h : Sums(h)
<1>0. IsFiniteSet(Orders) /\ IsFiniteSet(S)
  BY Constants, FS_Subset
<1>1. FillIn(ch, S) = k[S]
  BY DEF FillIn, MapThenSumSet, MapThenFoldSet, Pick
<1>2. \A T \in SUBSET S : T # {} => f[Pick(T)] = ch[Pick(T)].fill
  BY DEF Pick
<1>3. \A h : Computes(h, f, S) <=> Sums(h)
  BY <1>2 DEF Computes
<1>4. Computes(k, f, S)
  BY <1>0, <1>3, SumsExist
<1>5. SumFunctionOnSet(f, S) = k[S]
  <2> HIDE DEF k, f
  <2>1. S \in SUBSET S
    OBVIOUS
  <2>2. QED
    BY <1>0, <1>4, <2>1, SumComputed
<1>6. \A o \in S : f[o] \in Int
  OBVIOUS
<1>7. \A o \in Orders : g[o] = IF o \in S THEN f[o] ELSE 0
  OBVIOUS
<1> HIDE DEF f
<1>8. SumFunctionOnSet(f, S) = Total(g)
  BY <1>0, <1>6, <1>7, SumOfPart DEF Total
<1>9. QED
  BY <1>1, <1>5, <1>8

LEMMA RiskSum ==
  ASSUME NEW ord, NEW ch, NEW S \in SUBSET Orders,
         \A o \in S : (IF ch[o].swap \in {"sent", "odd"} THEN ord[o].intent.qty ELSE ch[o].fill) \in Nat,
         NEW g,
         \A o \in Orders : g[o] = IF o \in S
                                  THEN IF ch[o].swap \in {"sent", "odd"} THEN ord[o].intent.qty ELSE ch[o].fill
                                  ELSE 0
  PROVE  RiskIn(ord, ch, S) = Total(g)
<1> DEFINE E(o) == CASE ch[o].swap \in {"sent", "odd"} -> ord[o].intent.qty [] OTHER -> ch[o].fill
           f == [o \in S |-> E(o)]
           Sums(h) == h = [T \in SUBSET S |->
                             IF T = {} THEN 0 ELSE E(Pick(T)) + h[T \ {Pick(T)}]]
           k == CHOOSE h : Sums(h)
<1>0. IsFiniteSet(Orders) /\ IsFiniteSet(S)
  BY Constants, FS_Subset
<1>1. RiskIn(ord, ch, S) = k[S]
  BY DEF RiskIn, MapThenSumSet, MapThenFoldSet, Pick
<1>2. \A T \in SUBSET S : T # {} => f[Pick(T)] = E(Pick(T))
  BY DEF Pick
<1>3. \A h : Computes(h, f, S) <=> Sums(h)
  BY <1>2 DEF Computes
<1>4. Computes(k, f, S)
  BY <1>0, <1>3, SumsExist
<1>5. SumFunctionOnSet(f, S) = k[S]
  <2> HIDE DEF k, f
  <2>1. S \in SUBSET S
    OBVIOUS
  <2>2. QED
    BY <1>0, <1>4, <2>1, SumComputed
<1>6. \A o \in S : f[o] \in Int
  OBVIOUS
<1>7. \A o \in Orders : g[o] = IF o \in S THEN f[o] ELSE 0
  OBVIOUS
<1> HIDE DEF f
<1>8. SumFunctionOnSet(f, S) = Total(g)
  BY <1>0, <1>6, <1>7, SumOfPart DEF Total
<1>9. QED
  BY <1>1, <1>5, <1>8

\* What the sums are made of.
Rowed(ord, ch) ==
  \A o \in Orders : /\ ch[o].fill \in Nat
                    /\ ord[o].status # "absent" => ord[o].intent.qty \in Nat

LEMMA TypesAreRowed ==
  ASSUME NEW ord \in [Orders -> OrderRow], NEW ch \in [Orders -> ChainRow]
  PROVE  Rowed(ord, ch)
<1>1. ASSUME NEW o \in Orders
      PROVE  ch[o].fill \in Nat /\ (ord[o].status # "absent" => ord[o].intent.qty \in Nat)
  <2>1. ord[o] \in OrderRow /\ ch[o] \in ChainRow
    OBVIOUS
  <2>2. QED
    BY <2>1, RowShape, RowFields, ChainShape
<1>2. QED
  BY <1>1 DEF Rowed

LEMMA NatTotal ==
  ASSUME NEW f, \A o \in Orders : f[o] \in Nat
  PROVE  Total(f) \in Nat
  BY Constants, SumOfNats DEF Total

LEMMA SumsAreNumbers ==
  ASSUME NEW ord, NEW ch, Rowed(ord, ch), NEW p
  PROVE  /\ \A side : /\ \A o \in Orders : ConfirmedOf(p, side, ord, ch)[o] \in Nat
                      /\ Total(ConfirmedOf(p, side, ord, ch)) \in Nat
         /\ (\A o \in Orders : BoughtOf(p, ord, ch)[o] \in Nat) /\ Total(BoughtOf(p, ord, ch)) \in Nat
         /\ \A t : /\ \A o \in Orders : SoldOf(p, ord, ch, t)[o] \in Nat
                   /\ Total(SoldOf(p, ord, ch, t)) \in Nat
         /\ (\A o \in Orders : RiskOf(p, ord, ch)[o] \in Nat) /\ Total(RiskOf(p, ord, ch)) \in Nat
<1>1. \A side : \A o \in Orders : ConfirmedOf(p, side, ord, ch)[o] \in Nat
  BY DEF Rowed, ConfirmedOf
<1>2. \A o \in Orders : BoughtOf(p, ord, ch)[o] \in Nat
  BY DEF Rowed, BoughtOf
<1>3. \A t : \A o \in Orders : SoldOf(p, ord, ch, t)[o] \in Nat
  BY DEF Rowed, SoldOf, On, Ends
<1>4. \A o \in Orders : RiskOf(p, ord, ch)[o] \in Nat
  BY DEF Rowed, RiskOf, On
<1>5. QED
  BY <1>1, <1>2, <1>3, <1>4, NatTotal

\* FillsBookedOnce and NeverOversold, said with these sums.
SumForm ==
  (order \in [Orders -> OrderRow] /\ chain \in [Orders -> ChainRow]) =>
    /\ FillsBookedOnce <=> BookedOnce(order, chain, held)
    /\ NeverOversold <=>
         \A p \in Positions : Total(RiskOf(p, order, chain)) <= Total(BoughtOf(p, order, chain))

OrdersOn(p, side) ==
  {o \in Orders : order[o].status # "absent" /\ order[o].intent.pos = p /\ order[o].intent.side = side}
ConfirmedOn(p, side) ==
  {o \in Orders : order[o].status = "confirmed" /\ order[o].intent.pos = p /\ order[o].intent.side = side}

LEMMA PropertiesAreSums == SumForm
<1> SUFFICES ASSUME order \in [Orders -> OrderRow], chain \in [Orders -> ChainRow]
             PROVE  /\ FillsBookedOnce <=> BookedOnce(order, chain, held)
                    /\ NeverOversold <=> \A p \in Positions : Total(RiskOf(p, order, chain))
                                                               <= Total(BoughtOf(p, order, chain))
  BY DEF SumForm
<1>1. Rowed(order, chain)
  BY TypesAreRowed
<1>2. ASSUME NEW p, NEW side
      PROVE  Confirmed(p, side) = Total(ConfirmedOf(p, side, order, chain))
  <2> DEFINE S == ConfirmedOn(p, side)
             g == ConfirmedOf(p, side, order, chain)
  <2>1. S \in SUBSET Orders /\ (\A o \in S : chain[o].fill \in Nat)
        /\ \A o \in Orders : g[o] = IF o \in S THEN chain[o].fill ELSE 0
    BY <1>1 DEF Rowed, ConfirmedOn, ConfirmedOf, On
  <2>2. Confirmed(p, side) = FillIn(chain, S)
    BY DEF Confirmed, FillIn, ConfirmedOn
  <2> HIDE DEF S, g
  <2>3. FillIn(chain, S) = Total(g)
    BY <2>1, FillSum
  <2>4. QED
    BY <2>2, <2>3 DEF g
<1>3. ASSUME NEW p
      PROVE  Bought(p) = Total(BoughtOf(p, order, chain))
  <2> DEFINE S == OrdersOn(p, "buy")
             g == BoughtOf(p, order, chain)
  <2>1. S \in SUBSET Orders /\ (\A o \in S : chain[o].fill \in Nat)
        /\ \A o \in Orders : g[o] = IF o \in S THEN chain[o].fill ELSE 0
    BY <1>1 DEF Rowed, OrdersOn, BoughtOf, On
  <2>2. Bought(p) = FillIn(chain, S)
    BY DEF Bought, FillIn, OrdersOn
  <2> HIDE DEF S, g
  <2>3. FillIn(chain, S) = Total(g)
    BY <2>1, FillSum
  <2>4. QED
    BY <2>2, <2>3 DEF g
<1>4. ASSUME NEW p
      PROVE  RiskIn(order, chain, OrdersOn(p, "sell")) = Total(RiskOf(p, order, chain))
  <2> DEFINE S == OrdersOn(p, "sell")
             g == RiskOf(p, order, chain)
  <2>1. S \in SUBSET Orders
        /\ (\A o \in S : (IF chain[o].swap \in {"sent", "odd"} THEN order[o].intent.qty ELSE chain[o].fill) \in Nat)
        /\ \A o \in Orders : g[o] = IF o \in S
                                    THEN IF chain[o].swap \in {"sent", "odd"} THEN order[o].intent.qty ELSE chain[o].fill
                                    ELSE 0
    BY <1>1 DEF Rowed, OrdersOn, RiskOf, On
  <2> HIDE DEF S, g
  <2>2. RiskIn(order, chain, S) = Total(g)
    BY <2>1, RiskSum
  <2>3. QED
    BY <2>2 DEF S, g
<1>5. NeverOversold <=>
        \A p \in Positions : RiskIn(order, chain, OrdersOn(p, "sell")) <= Bought(p)
  BY DEF NeverOversold, RiskIn, OrdersOn, AtRisk
<1>6. QED
  BY <1>2, <1>3, <1>4, <1>5 DEF FillsBookedOnce, BookedOnce

\* What the invariant says of the exits includes NeverOversold.
LEMMA Solvent ==
  ASSUME IInv
  PROVE  FillsBookedOnce /\ NeverOversold
<1>1. /\ TypeOK /\ Fitting /\ BookedOnce(order, chain, held) /\ Covered
      /\ order \in [Orders -> OrderRow] /\ chain \in [Orders -> ChainRow]
  BY Types DEF IInv
<1>2. Rowed(order, chain)
  BY <1>1, TypesAreRowed
<1>3. ASSUME NEW p \in Positions
      PROVE  Total(RiskOf(p, order, chain)) <= Total(BoughtOf(p, order, chain))
  <2>1. PICK f, g : f = RiskOf(p, order, chain) /\ g = SoldOf(p, order, chain, tick)
    OBVIOUS
  <2>2. \A o \in Orders : f[o] \in Nat /\ g[o] \in Nat
    BY <1>2, <2>1, SumsAreNumbers
  <2>3. ASSUME NEW o \in Orders PROVE f[o] <= g[o]
    <3>1. Fits(o, order[o], chain[o], tick) /\ chain[o].swap \in SwapState /\ chain[o].fill \in Nat
      BY <1>1, ChainShape DEF Fitting
    <3>2. order[o].status # "absent" => order[o].intent.qty \in Nat
      BY <1>2 DEF Rowed
    <3>3. QED
      BY <2>1, <3>1, <3>2 DEF RiskOf, SoldOf, Ends, Over, SwapState, On, Fits
  <2>4. Total(f) <= Total(g)
    BY <2>2, <2>3, Constants, SumMonotone DEF Total
  <2>5. Total(g) <= Total(BoughtOf(p, order, chain))
    BY <1>1, <2>1 DEF Covered
  <2>6. /\ Total(f) \in Nat /\ Total(g) \in Nat /\ Total(BoughtOf(p, order, chain)) \in Nat
    BY <1>2, <2>1, SumsAreNumbers
  <2>7. QED
    BY <2>1, <2>4, <2>5, <2>6
<1>4. QED
  BY <1>1, <1>3, PropertiesAreSums DEF SumForm

-----------------------------------------------------------------------------
(* Steps *)

\* A step that draws no order: no intent changes, no fill shrinks, and no order may
\* come to more than before.
LEMMA StepKeeps ==
  ASSUME IInv, TypeOK', Fitting', Doing(tick', order', chain'), Flat',
         BookedOnce(order', chain', held'),
         \A o \in Orders :
           /\ order'[o].status = "absent" <=> order[o].status = "absent"
           /\ order[o].status # "absent" => order'[o].intent = order[o].intent
           /\ chain[o].fill <= chain'[o].fill
           /\ order[o].status # "absent" =>
                Ends(o, order'[o], chain'[o], tick') <= Ends(o, order[o], chain[o], tick)
  PROVE  IInv'
<1>1. /\ TypeOK /\ Covered /\ Rowed(order, chain) /\ Rowed(order', chain')
  BY Types, TypesAreRowed DEF IInv, TypeOK, ChainRow
<1>2. ASSUME NEW p \in Positions
      PROVE  Total(SoldOf(p, order', chain', tick')) <= Total(BoughtOf(p, order', chain'))
  <2>1. PICK s, b : s = SoldOf(p, order, chain, tick) /\ b = BoughtOf(p, order, chain)
    OBVIOUS
  <2>2. PICK t, c : t = SoldOf(p, order', chain', tick') /\ c = BoughtOf(p, order', chain')
    OBVIOUS
  <2>3. (\A o \in Orders : s[o] \in Nat /\ b[o] \in Nat) /\ Total(s) \in Nat /\ Total(b) \in Nat
    BY <1>1, <2>1, SumsAreNumbers
  <2>4. (\A o \in Orders : t[o] \in Nat /\ c[o] \in Nat) /\ Total(t) \in Nat /\ Total(c) \in Nat
    <3>1. PICK ord, ch : ord = order' /\ ch = chain'
      OBVIOUS
    <3>2. Rowed(ord, ch)
      BY <1>1, <3>1
    <3>3. \A u : /\ \A o \in Orders : SoldOf(p, ord, ch, u)[o] \in Nat /\ BoughtOf(p, ord, ch)[o] \in Nat
                 /\ Total(SoldOf(p, ord, ch, u)) \in Nat /\ Total(BoughtOf(p, ord, ch)) \in Nat
      BY <3>2, SumsAreNumbers
    <3>4. QED
      BY <2>2, <3>1, <3>3
  <2>5. \A o \in Orders : \A side : On(order'[o], p, side) <=> On(order[o], p, side)
    BY DEF On
  <2>6. ASSUME NEW o \in Orders PROVE t[o] <= s[o] /\ b[o] <= c[o]
    <3>1. t[o] <= s[o]
      BY <2>1, <2>2, <2>5 DEF SoldOf, On
    <3>2. b[o] <= c[o]
      BY <2>1, <2>2, <2>5 DEF BoughtOf, On
    <3>3. QED
      BY <3>1, <3>2
  <2>7. Total(t) <= Total(s) /\ Total(b) <= Total(c)
    BY <2>3, <2>4, <2>6, Constants, SumMonotone DEF Total
  <2>8. Total(s) <= Total(b)
    BY <1>1, <2>1 DEF Covered
  <2>9. QED
    BY <2>2, <2>3, <2>4, <2>7, <2>8
<1>3. Covered'
  BY <1>2 DEF Covered
<1>4. QED
  BY <1>3 DEF IInv

\* Nothing is booked: the confirmed orders are the same, with the same fills.
LEMMA BooksTheSame ==
  ASSUME IInv, held' = held,
         \A o \in Orders :
           /\ order'[o].status = "confirmed" <=> order[o].status = "confirmed"
           /\ order[o].status = "confirmed" =>
                order'[o].intent = order[o].intent /\ chain'[o].fill = chain[o].fill
  PROVE  BookedOnce(order', chain', held')
<1>1. \A p, side : ConfirmedOf(p, side, order', chain') = ConfirmedOf(p, side, order, chain)
  <2>1. ASSUME NEW p, NEW side, NEW o \in Orders
        PROVE  /\ (On(order'[o], p, side) /\ order'[o].status = "confirmed")
                    = (On(order[o], p, side) /\ order[o].status = "confirmed")
               /\ order[o].status = "confirmed" => chain'[o].fill = chain[o].fill
    BY DEF On
  <2>2. QED
    BY <2>1 DEF ConfirmedOf
<1>2. QED
  BY <1>1 DEF IInv, BookedOnce

\* Only the tick and the strategy move; the tick goes on with its order or leaves it.
LEMMA TickMoves ==
  ASSUME IInv, UNCHANGED <<order, held, posn, chain>>, NEW t \in TickRow, tick' = t,
         strategy' \in {"live", "monitored", "inactive"},
         t.on \in {tick.on, None}, \A o \in t.todo : order[o].status \in Pending,
         Doing(t, order, chain)
  PROVE  IInv'
<1>1. TypeOK /\ Fitting /\ Flat
  BY DEF IInv
<1>2. TypeOK' /\ Flat' /\ Doing(tick', order', chain')
  BY <1>1 DEF TypeOK, Flat
<1>3. \A o \in Orders : t.on = o => tick.on = o
  BY Constants
<1>4. Fitting'
  <2>1. ASSUME NEW o \in Orders PROVE Fits(o, order[o], chain[o], t)
    <3>1. Fits(o, order[o], chain[o], tick)
      BY <1>1 DEF Fitting
    <3>2. QED
      BY <1>3, <3>1 DEF Fits
  <2>2. QED
    BY <2>1 DEF Fitting
<1>5. BookedOnce(order', chain', held')
  BY BooksTheSame
<1>6. ASSUME NEW o \in Orders
      PROVE  /\ chain[o].fill <= chain'[o].fill
             /\ order[o].status # "absent" =>
                  Ends(o, order'[o], chain'[o], tick') <= Ends(o, order[o], chain[o], tick)
  <2>1. /\ chain[o].fill \in Nat /\ Fits(o, order[o], chain[o], tick)
        /\ order[o].status # "absent" => order[o].intent.qty \in Nat
    BY <1>1, Types, TypesAreRowed DEF Rowed, Fitting
  <2>2. QED
    BY <1>3, <2>1 DEF Ends, Over, Fits
<1>7. QED
  BY <1>2, <1>4, <1>5, <1>6, StepKeeps

LEMMA Facts ==
  ASSUME IInv
  PROVE  /\ TypeOK /\ Fitting /\ Doing(tick, order, chain) /\ Flat
         /\ tick \in TickRow /\ strategy \in {"live", "monitored", "inactive"}
         /\ order \in [Orders -> OrderRow] /\ chain \in [Orders -> ChainRow]
  BY Types DEF IInv

LEMMA PausedShape == Paused \in {"monitored", "inactive"}
  BY DEF Paused

LEMMA HaltedShape ==
  ASSUME IInv, Halted
  PROVE  strategy' \in {"live", "monitored", "inactive"}
  BY PausedShape, Facts DEF Halted

LEMMA LifeKeeps ==
  ASSUME IInv, Pause \/ Activate
  PROVE  IInv'
<1>1. /\ tick \in TickRow /\ Doing(tick, order, chain) /\ Fitting
      /\ UNCHANGED <<order, held, posn, chain>> /\ tick' = tick
  BY Facts DEF Pause, Activate
<1>2. strategy' \in {"live", "monitored", "inactive"}
  BY PausedShape DEF Pause, Activate
<1>3. \A o \in tick.todo : order[o].status \in Pending
  BY <1>1, TickShape DEF Fitting, Fits
<1>4. QED
  BY <1>1, <1>2, <1>3, TickMoves

\* A tick at rest does nothing to any order.
LEMMA AtRest ==
  ASSUME NEW t \in TickRow, t.at \notin Executing, t.on = None, t.at # "reconcile" => t.todo = {},
         NEW ord, NEW ch
  PROVE  Doing(t, ord, ch)
  BY Constants DEF Doing, Executing

LEMMA OnNone ==
  ASSUME IInv, tick.at \notin Executing
  PROVE  tick.on = None
  BY Facts, TickShape DEF Doing

LEMMA StartTickKeeps ==
  ASSUME IInv, StartTick
  PROVE  IInv'
<1>1. PICK t : t = [Idle EXCEPT !.at = "reconcile", !.todo = PendingOrders]
  OBVIOUS
<1>2. /\ t \in TickRow /\ t.at = "reconcile" /\ t.todo = PendingOrders /\ t.on = None
  BY <1>1, IdleShape DEF TickRow, Places, PendingOrders
<1>3. UNCHANGED <<order, held, posn, strategy, chain>> /\ tick' = t
  BY <1>1 DEF StartTick
<1>4. \A o \in t.todo : order[o].status \in Pending
  BY <1>2 DEF PendingOrders
<1>5. Doing(t, order, chain)
  BY <1>2, AtRest DEF Executing
<1>6. strategy' \in {"live", "monitored", "inactive"}
  BY <1>3, Facts
<1>7. UNCHANGED <<order, held, posn, chain>>
  BY <1>3
<1>8. QED
  BY <1>2, <1>3, <1>4, <1>5, <1>6, <1>7, TickMoves

\* The steps of a tick between orders.
LEMMA BetweenKeeps ==
  ASSUME IInv,
         \/ (\E o \in Orders : ReconcileNothing(o)) \/ CheckPortfolio \/ Evaluate
         \/ (\E i \in Intent : SkipIntent(i))
  PROVE  IInv'
<1>0. \/ (\E o \in Orders : ReconcileNothing(o)) \/ CheckPortfolio \/ Evaluate
      \/ (\E i \in Intent : SkipIntent(i))
  OBVIOUS
<1>1. /\ tick \in TickRow /\ Doing(tick, order, chain) /\ Fitting
      /\ UNCHANGED <<order, held, posn, chain>>
  BY Facts DEF ReconcileNothing, CheckPortfolio, Evaluate, SkipIntent
<1>2. tick.at \in {"reconcile", "evaluate", "loop"}
  BY DEF ReconcileNothing, CheckPortfolio, Evaluate, SkipIntent
<1>3. tick.on = None /\ \A o \in tick.todo : order[o].status \in Pending
  BY <1>1, <1>2, OnNone, TickShape DEF Executing, Fitting, Fits
<1>4. strategy' \in {"live", "monitored", "inactive"}
  BY HaltedShape, Facts DEF ReconcileNothing, CheckPortfolio, Evaluate, SkipIntent
<1>5. PICK t \in TickRow : /\ tick' = t /\ t.on = None /\ t.todo \subseteq tick.todo
                           /\ t.at \in {"reconcile", "evaluate", "loop"}
                           /\ t.at # "reconcile" => t.todo = {}
  <2> DEFINE Goal == \E t \in TickRow : /\ tick' = t /\ t.on = None /\ t.todo \subseteq tick.todo
                                        /\ t.at \in {"reconcile", "evaluate", "loop"}
                                        /\ t.at # "reconcile" => t.todo = {}
  <2>1. ASSUME NEW o \in Orders, ReconcileNothing(o)
        PROVE  Goal
    <3>1. PICK t : t = [tick EXCEPT !.todo = @ \ {o}]
      OBVIOUS
    <3>2. tick' = t /\ tick.at = "reconcile"
      BY <2>1, <3>1 DEF ReconcileNothing
    <3>3. t \in TickRow /\ t.at = "reconcile" /\ t.on = None /\ t.todo = tick.todo \ {o}
      BY <1>1, <1>3, <3>1, <3>2 DEF TickRow
    <3>4. QED
      BY <3>2, <3>3
  <2>2. ASSUME CheckPortfolio PROVE Goal
    <3>1. PICK t : t = [tick EXCEPT !.at = "evaluate"]
      OBVIOUS
    <3>2. tick' = t /\ tick.todo = {}
      BY <2>2, <3>1 DEF CheckPortfolio
    <3>3. t \in TickRow /\ t.at = "evaluate" /\ t.on = None /\ t.todo = {}
      BY <1>1, <1>3, <3>1, <3>2 DEF TickRow, Places
    <3>4. QED
      BY <3>2, <3>3
  <2>3. ASSUME Evaluate PROVE Goal
    <3>1. PICK I \in ExitBatches \cup Entries :
            tick' = [tick EXCEPT !.at = "loop", !.intents = I, !.batch = Cardinality(I) > 1]
      BY <2>3 DEF Evaluate
    <3>2. I \in SUBSET Intent
      BY DEF ExitBatches, Entries
    <3>a. PICK b : b = (Cardinality(I) > 1)
      OBVIOUS
    <3>b. (Cardinality(I) > 1) \in BOOLEAN
      OBVIOUS
    <3>3. b \in BOOLEAN /\ b = (Cardinality(I) > 1)
      BY <3>a, <3>b
    <3>4. PICK t : t = [tick EXCEPT !.at = "loop", !.intents = I, !.batch = b]
      OBVIOUS
    <3>5. tick.todo = {}
      BY <1>1, <2>3 DEF Evaluate, Doing
    <3>6. t \in TickRow /\ t.at = "loop" /\ t.on = None /\ t.todo = {}
      BY <1>1, <1>3, <3>2, <3>3, <3>4, <3>5 DEF TickRow, Places
    <3>7. tick' = t
      BY <3>1, <3>3, <3>4
    <3>8. QED
      BY <3>6, <3>7
  <2>4. ASSUME NEW i \in Intent, SkipIntent(i)
        PROVE  Goal
    <3>1. PICK t : t = [tick EXCEPT !.intents = @ \ {i}]
      OBVIOUS
    <3>2. tick' = t /\ tick.at = "loop"
      BY <2>4, <3>1 DEF SkipIntent
    <3>3. t \in TickRow /\ t.at = "loop" /\ t.on = None /\ t.todo = tick.todo
      BY <1>1, <1>3, <3>1, <3>2 DEF TickRow
    <3>4. tick.todo = {}
      BY <1>1, <3>2 DEF Doing
    <3>5. QED
      BY <3>2, <3>3, <3>4
  <2>5. Goal
    <3> HIDE DEF Goal
    <3>1. QED
      BY <1>0, <2>1, <2>2, <2>3, <2>4
  <2>6. QED
    BY <2>5
<1>6. Doing(t, order, chain)
  BY <1>5, AtRest DEF Executing
<1>7. t.on \in {tick.on, None} /\ \A o \in t.todo : order[o].status \in Pending
  BY <1>3, <1>5
<1>8. QED
  BY <1>1, <1>4, <1>5, <1>6, <1>7, TickMoves

LEMMA EndKeeps ==
  ASSUME IInv, FinishTick \/ Stop
  PROVE  IInv'
<1>1. UNCHANGED <<order, held, posn, chain>> /\ tick' = Idle
  BY DEF FinishTick, Stop
<1>2. strategy' \in {"live", "monitored", "inactive"}
  BY Facts DEF FinishTick, Stop
<1>3. Doing(Idle, order, chain)
  BY IdleShape, AtRest DEF Executing
<1>4. Idle.on \in {tick.on, None} /\ \A o \in Idle.todo : order[o].status \in Pending
  BY IdleShape
<1>5. QED
  BY <1>1, <1>2, <1>3, <1>4, IdleShape, TickMoves

LEMMA PollKeeps ==
  ASSUME IInv, PollApproval
  PROVE  IInv'
<1>1. /\ tick \in TickRow /\ Doing(tick, order, chain) /\ Fitting /\ tick.at = "poll"
      /\ UNCHANGED <<order, held, posn, chain>> /\ strategy' = strategy
      /\ tick' = [tick EXCEPT !.at = "swap"]
  BY Facts DEF PollApproval
<1>2. PICK t : t = [tick EXCEPT !.at = "swap"]
  OBVIOUS
<1>3. t \in TickRow /\ t.at = "swap" /\ t.on = tick.on /\ t.todo = tick.todo
  BY <1>1, <1>2 DEF TickRow, Places
<1>4. tick.todo = {} /\ tick.on \in Orders /\ chain[tick.on].swap = "none"
  BY <1>1 DEF Doing, Executing
<1>5. Doing(t, order, chain)
  BY <1>3, <1>4 DEF Doing, Executing
<1>6. strategy' \in {"live", "monitored", "inactive"}
  BY <1>1, Facts
<1>7. t.on \in {tick.on, None} /\ \A o \in t.todo : order[o].status \in Pending
  BY <1>3, <1>4
<1>8. QED
  BY <1>1, <1>2, <1>3, <1>5, <1>6, <1>7, TickMoves

-----------------------------------------------------------------------------
(* Steps of one order *)

\* A step with one order.
LEMMA OneOrder ==
  ASSUME IInv, NEW o \in Orders, NEW r \in OrderRow, NEW c \in ChainRow, NEW t \in TickRow,
         order' = [order EXCEPT ![o] = r], chain' = [chain EXCEPT ![o] = c], tick' = t,
         TypeOK', Flat', BookedOnce(order', chain', held'),
         t.on \in {tick.on, None}, t.todo \subseteq tick.todo, Doing(t, order', chain'),
         Fits(o, r, c, t), r.status = "absent" <=> order[o].status = "absent",
         chain[o].fill <= c.fill,
         order[o].status # "absent" =>
           r.intent = order[o].intent /\ Ends(o, r, c, t) <= Ends(o, order[o], chain[o], tick)
  PROVE  IInv'
<1>1. /\ TypeOK /\ Fitting /\ order \in [Orders -> OrderRow] /\ chain \in [Orders -> ChainRow]
      /\ Rowed(order, chain)
  BY Facts, TypesAreRowed
<1>2. \A u \in Orders : t.on = u => tick.on = u
  BY Constants
<1>3. \A u \in Orders : /\ order'[u] = IF u = o THEN r ELSE order[u]
                        /\ chain'[u] = IF u = o THEN c ELSE chain[u]
  BY <1>1
<1>4. ASSUME NEW u \in Orders PROVE Fits(u, order'[u], chain'[u], t)
  <2>1. CASE u = o
    BY <1>3, <2>1
  <2>2. CASE u # o
    <3>1. Fits(u, order[u], chain[u], tick)
      BY <1>1 DEF Fitting
    <3>2. Fits(u, order[u], chain[u], t)
      BY <1>2, <3>1 DEF Fits
    <3>3. QED
      BY <1>3, <2>2, <3>2
  <2>3. QED
    BY <2>1, <2>2
<1>5. Fitting'
  BY <1>4 DEF Fitting
<1>6. ASSUME NEW u \in Orders
      PROVE  /\ order'[u].status = "absent" <=> order[u].status = "absent"
             /\ order[u].status # "absent" => order'[u].intent = order[u].intent
             /\ chain[u].fill <= chain'[u].fill
             /\ order[u].status # "absent" =>
                  Ends(u, order'[u], chain'[u], tick') <= Ends(u, order[u], chain[u], tick)
  <2>1. CASE u = o
    BY <1>3, <2>1
  <2>2. CASE u # o
    <3>1. /\ chain[u].fill \in Nat /\ Fits(u, order[u], chain[u], tick)
          /\ order[u].status # "absent" => order[u].intent.qty \in Nat
      BY <1>1 DEF Rowed, Fitting
    <3>2. order'[u] = order[u] /\ chain'[u] = chain[u] /\ chain[u].fill <= chain[u].fill
      BY <1>3, <2>2, <3>1
    <3>3. order[u].status # "absent" =>
            Ends(u, order[u], chain[u], t) <= Ends(u, order[u], chain[u], tick)
      BY <1>2, <3>1 DEF Ends, Over, Fits
    <3>4. QED
      BY <3>2, <3>3
  <2>3. QED
    BY <2>1, <2>2
<1>7. QED
  BY <1>5, <1>6, StepKeeps

\* One that books nothing.
LEMMA OneQuiet ==
  ASSUME IInv, NEW o \in Orders, NEW r \in OrderRow, NEW c \in ChainRow, NEW t \in TickRow,
         order' = [order EXCEPT ![o] = r], chain' = [chain EXCEPT ![o] = c], tick' = t,
         held' = held, posn' = posn, strategy' \in {"live", "monitored", "inactive"},
         t.on \in {tick.on, None}, t.todo \subseteq tick.todo, Doing(t, order', chain'),
         Fits(o, r, c, t), r.status = "absent" <=> order[o].status = "absent",
         chain[o].fill <= c.fill,
         order[o].status # "absent" =>
           r.intent = order[o].intent /\ Ends(o, r, c, t) <= Ends(o, order[o], chain[o], tick),
         r.status = "confirmed" <=> order[o].status = "confirmed",
         r.status = "confirmed" => c.fill = chain[o].fill
  PROVE  IInv'
<1>1. /\ TypeOK /\ Flat /\ order \in [Orders -> OrderRow] /\ chain \in [Orders -> ChainRow]
  BY Facts
<1>2. TypeOK' /\ Flat'
  BY <1>1 DEF TypeOK, Flat, ChainRow
<1>3. \A u \in Orders : /\ order'[u] = IF u = o THEN r ELSE order[u]
                        /\ chain'[u] = IF u = o THEN c ELSE chain[u]
  BY <1>1
<1>4. ASSUME NEW u \in Orders
      PROVE  /\ order'[u].status = "confirmed" <=> order[u].status = "confirmed"
             /\ order[u].status = "confirmed" =>
                  order'[u].intent = order[u].intent /\ chain'[u].fill = chain[u].fill
  BY <1>3
<1>5. BookedOnce(order', chain', held')
  BY <1>4, BooksTheSame
<1>6. QED
  BY <1>2, <1>5, OneOrder

\* The order a tick is executing.
LEMMA AtWork ==
  ASSUME IInv, tick.at \in Executing
  PROVE  /\ tick.on \in Orders /\ tick.todo = {} /\ order[tick.on] \in Rows
         /\ order[tick.on].status \in Pending /\ chain[tick.on] \in ChainRow
         /\ Fits(tick.on, order[tick.on], chain[tick.on], tick)
<1>1. /\ tick.on \in Orders /\ tick.todo = {}
  BY Facts DEF Doing, Executing
<1>2. /\ Fits(tick.on, order[tick.on], chain[tick.on], tick)
      /\ order[tick.on] \in OrderRow /\ chain[tick.on] \in ChainRow
  BY <1>1, Facts DEF Fitting
<1>3. order[tick.on].status # "absent" /\ order[tick.on].status \notin Closed
  BY <1>2 DEF Fits
<1>4. QED
  BY <1>1, <1>2, <1>3, RowShape

LEMMA SignKeeps ==
  ASSUME IInv, SignApproval \/ SignSwap
  PROVE  IInv'
<1>0. SignApproval \/ SignSwap
  OBVIOUS
<1>1. tick.at \in {"prepare", "swap"} /\ tick.at \in Executing
      /\ UNCHANGED <<held, posn, strategy, chain>>
  BY DEF SignApproval, SignSwap, Executing
<1>2. PICK o : o = tick.on
  OBVIOUS
<1>3. /\ o \in Orders /\ tick.todo = {} /\ order[o] \in Rows
      /\ order[o].status \in Pending /\ chain[o] \in ChainRow
      /\ Fits(o, order[o], chain[o], tick)
  BY <1>1, <1>2, AtWork
<1>4. /\ tick \in TickRow /\ order \in [Orders -> OrderRow] /\ chain \in [Orders -> ChainRow]
      /\ Doing(tick, order, chain) /\ strategy' \in {"live", "monitored", "inactive"}
  BY <1>1, Facts
<1>5. chain[o].swap = "none"
  BY <1>1, <1>2, <1>4 DEF Doing, Executing
<1>6. PICK r, t : /\ r \in Rows /\ order' = [order EXCEPT ![o] = r] /\ tick' = t /\ t \in TickRow
                  /\ t.at \in {"approve", "send"} /\ t.on = o /\ t.todo = {}
                  /\ r.intent = order[o].intent /\ r.status \in Pending
                  /\ t.at = "send" => r.hash
  <2>1. CASE SignApproval
    <3>1. PICK r : r = [order[o] EXCEPT !.approval = TRUE]
      OBVIOUS
    <3>2. PICK t : t = [tick EXCEPT !.at = "approve"]
      OBVIOUS
    <3>3. order' = [order EXCEPT ![o] = r] /\ tick' = t
      BY <1>2, <2>1, <3>1, <3>2 DEF SignApproval
    <3>4. r \in Rows /\ r.intent = order[o].intent /\ r.status \in Pending
      BY <1>3, <3>1 DEF Rows
    <3>5. t \in TickRow /\ t.at = "approve" /\ t.on = o /\ t.todo = {}
      BY <1>2, <1>3, <1>4, <3>2 DEF TickRow, Places
    <3>6. QED
      BY <3>3, <3>4, <3>5
  <2>2. CASE SignSwap
    <3>1. PICK r : r = [order[o] EXCEPT !.hash = TRUE, !.status = "pending"]
      OBVIOUS
    <3>2. PICK t : t = [tick EXCEPT !.at = "send"]
      OBVIOUS
    <3>a. order[o] = [order[o] EXCEPT !.hash = order[o].hash]
      BY <1>3 DEF Rows
    <3>3. order' = [order EXCEPT ![o] = r] /\ tick' = t
      BY <1>2, <1>3, <1>4, <2>2, <3>1, <3>2 DEF SignSwap, Sign
    <3>4. r \in Rows /\ r.intent = order[o].intent /\ r.status \in Pending /\ r.hash
      BY <1>3, <3>1 DEF Rows, Pending
    <3>5. t \in TickRow /\ t.at = "send" /\ t.on = o /\ t.todo = {}
      BY <1>2, <1>3, <1>4, <3>2 DEF TickRow, Places
    <3>6. QED
      BY <3>3, <3>4, <3>5
  <2>3. QED
    BY <1>0, <2>1, <2>2
<1>7. PICK c : c = chain[o]
  OBVIOUS
<1>8. chain' = [chain EXCEPT ![o] = c] /\ c \in ChainRow
  BY <1>1, <1>3, <1>4, <1>7
<1>9. order'[o] = r /\ chain'[o] = c
  BY <1>3, <1>4, <1>6, <1>8
<1>10. Doing(t, order', chain')
  BY <1>3, <1>5, <1>6, <1>7, <1>9 DEF Doing, Executing
<1>11. r \in OrderRow /\ r.status # "absent" /\ r.status # "confirmed"
       /\ order[o].status # "absent" /\ order[o].status # "confirmed"
  BY <1>3, <1>6, RowsAreRows DEF Pending
<1>12. Fits(o, r, c, t)
  BY <1>3, <1>5, <1>6, <1>7, <1>11 DEF Fits, Pending, Closed
<1>13. chain[o].fill <= c.fill /\ Ends(o, r, c, t) <= Ends(o, order[o], chain[o], tick)
  <2>1. c.fill \in Nat /\ order[o].intent.qty \in Nat
    BY <1>3, <1>7, ChainShape, RowFields
  <2>2. QED
    BY <1>2, <1>5, <1>6, <1>7, <2>1 DEF Ends, Over
<1>14. held' = held /\ posn' = posn /\ t.on \in {tick.on, None} /\ t.todo \subseteq tick.todo
  BY <1>1, <1>2, <1>3, <1>6
<1>15. QED
  BY <1>3, <1>4, <1>6, <1>7, <1>8, <1>10, <1>11, <1>12, <1>13, <1>14, OneQuiet

LEMMA BroadcastKeeps ==
  ASSUME IInv, BroadcastApproval \/ BroadcastSwap
  PROVE  IInv'
<1>0. BroadcastApproval \/ BroadcastSwap
  OBVIOUS
<1>1. tick.at \in {"approve", "send"} /\ tick.at \in Executing
      /\ UNCHANGED <<order, held, posn, strategy>>
  BY DEF BroadcastApproval, BroadcastSwap, Executing
<1>2. PICK o : o = tick.on
  OBVIOUS
<1>3. /\ o \in Orders /\ tick.todo = {} /\ order[o] \in Rows
      /\ order[o].status \in Pending /\ chain[o] \in ChainRow
      /\ Fits(o, order[o], chain[o], tick)
  BY <1>1, <1>2, AtWork
<1>4. /\ tick \in TickRow /\ order \in [Orders -> OrderRow] /\ chain \in [Orders -> ChainRow]
      /\ Doing(tick, order, chain) /\ strategy' \in {"live", "monitored", "inactive"}
  BY <1>1, Facts
<1>5. chain[o].swap = "none" /\ chain[o].fill = 0
  BY <1>1, <1>2, <1>3, <1>4 DEF Doing, Executing, Fits
<1>6. PICK c, t : /\ c \in ChainRow /\ chain' = [chain EXCEPT ![o] = c] /\ tick' = t /\ t \in TickRow
                  /\ t.on = o /\ t.todo = {} /\ c.fill = 0
                  /\ \/ t.at = "poll" /\ c.swap = "none"
                     \/ t.at = "settle" /\ t.attempted /\ c.swap = "sent" /\ order[o].hash
  <2>1. CASE BroadcastApproval
    <3>1. PICK c : c = [chain[o] EXCEPT !.approval = "sent"]
      OBVIOUS
    <3>2. PICK t : t = [tick EXCEPT !.at = "poll", !.attempted = TRUE]
      OBVIOUS
    <3>3. chain' = [chain EXCEPT ![o] = c] /\ tick' = t
      BY <1>2, <2>1, <3>1, <3>2 DEF BroadcastApproval
    <3>4. c \in ChainRow /\ c.fill = 0 /\ c.swap = "none"
      BY <1>3, <1>5, <3>1 DEF ChainRow, ApprovalState
    <3>5. t \in TickRow /\ t.at = "poll" /\ t.on = o /\ t.todo = {}
      BY <1>2, <1>3, <1>4, <3>2 DEF TickRow, Places
    <3>6. QED
      BY <3>3, <3>4, <3>5
  <2>2. CASE BroadcastSwap
    <3>1. PICK c : c = [chain[o] EXCEPT !.swap = "sent"]
      OBVIOUS
    <3>2. PICK t : t = [tick EXCEPT !.at = "settle", !.attempted = TRUE]
      OBVIOUS
    <3>3. chain' = [chain EXCEPT ![o] = c] /\ tick' = t /\ tick.at = "send"
      BY <1>2, <2>2, <3>1, <3>2 DEF BroadcastSwap
    <3>4. c \in ChainRow /\ c.fill = 0 /\ c.swap = "sent"
      BY <1>3, <1>5, <3>1 DEF ChainRow, SwapState
    <3>5. t \in TickRow /\ t.at = "settle" /\ t.attempted /\ t.on = o /\ t.todo = {}
      BY <1>2, <1>3, <1>4, <3>2 DEF TickRow, Places
    <3>6. order[o].hash
      BY <1>2, <1>4, <3>3 DEF Doing
    <3>7. QED
      BY <3>3, <3>4, <3>5, <3>6
  <2>3. QED
    BY <1>0, <2>1, <2>2
<1>7. PICK r : r = order[o]
  OBVIOUS
<1>8. order' = [order EXCEPT ![o] = r] /\ r \in OrderRow
  BY <1>1, <1>3, <1>4, <1>7
<1>9. order'[o] = r /\ chain'[o] = c
  BY <1>3, <1>4, <1>6, <1>8
<1>10. Doing(t, order', chain')
  BY <1>3, <1>6, <1>9 DEF Doing, Executing
<1>11. r.status # "absent" /\ r.status # "confirmed"
  BY <1>3, <1>7 DEF Pending
<1>12. Fits(o, r, c, t)
  BY <1>3, <1>6, <1>7, <1>11, RowFields DEF Fits, Pending, Closed
<1>13. chain[o].fill <= c.fill /\ Ends(o, r, c, t) <= Ends(o, order[o], chain[o], tick)
  <2>1. order[o].intent.qty \in Nat
    BY <1>3, RowFields
  <2>2. QED
    BY <1>2, <1>5, <1>6, <1>7, <2>1 DEF Ends, Over
<1>14. held' = held /\ posn' = posn /\ t.on \in {tick.on, None} /\ t.todo \subseteq tick.todo
       /\ r.intent = order[o].intent
  BY <1>1, <1>2, <1>3, <1>6, <1>7
<1>15. QED
  BY <1>3, <1>4, <1>6, <1>7, <1>8, <1>10, <1>11, <1>12, <1>13, <1>14, OneQuiet

LEMMA FailsKeeps ==
  ASSUME IInv, ExecuteFails
  PROVE  IInv'
<1>1. tick.at \in Executing /\ Fails /\ Halted /\ UNCHANGED <<held, posn, chain>>
  BY DEF ExecuteFails, Fails
<1>2. PICK o : o = tick.on
  OBVIOUS
<1>3. /\ o \in Orders /\ tick.todo = {} /\ order[o] \in Rows
      /\ order[o].status \in Pending /\ chain[o] \in ChainRow
      /\ Fits(o, order[o], chain[o], tick)
  BY <1>1, <1>2, AtWork
<1>4. /\ tick \in TickRow /\ order \in [Orders -> OrderRow] /\ chain \in [Orders -> ChainRow]
      /\ Doing(tick, order, chain) /\ strategy' \in {"live", "monitored", "inactive"}
  BY <1>1, Facts, HaltedShape
<1>5. PICK r : r = [order[o] EXCEPT !.status = Outcome]
  OBVIOUS
<1>6. /\ r \in Rows /\ r.intent = order[o].intent /\ r.hash = order[o].hash
      /\ r.status \in {"uncertain", "failed"}
      /\ r.status = "failed" => ~tick.attempted
  BY <1>3, <1>5 DEF Rows, Outcome, Pending, Closed
<1>7. order' = [order EXCEPT ![o] = r]
  BY <1>1, <1>2, <1>5 DEF Fails
<1>8. PICK t : t = IF tick.batch THEN [tick EXCEPT !.at = "loop", !.on = None] ELSE Idle
  OBVIOUS
<1>9. tick' = t /\ t \in TickRow /\ t.at \notin Executing /\ t.on = None /\ t.todo = {}
  <2>1. tick' = t
    BY <1>1, <1>8 DEF Fails
  <2>2. CASE tick.batch
    BY <1>3, <1>4, <1>8, <2>1, <2>2 DEF TickRow, Places, Executing
  <2>3. CASE ~tick.batch
    BY <1>8, <2>1, <2>3, IdleShape DEF Executing
  <2>4. QED
    BY <2>2, <2>3
<1>10. r.status = "failed" => chain[o].swap = "none"
  BY <1>1, <1>2, <1>4, <1>6 DEF Doing
<1>11. PICK c : c = chain[o]
  OBVIOUS
<1>12. chain' = [chain EXCEPT ![o] = c] /\ c \in ChainRow
  BY <1>1, <1>3, <1>4, <1>11
<1>13. Doing(t, order', chain')
  BY <1>9, AtRest
<1>14. r \in OrderRow /\ r.status # "absent" /\ r.status # "confirmed"
       /\ order[o].status # "absent" /\ order[o].status # "confirmed"
  BY <1>3, <1>6, RowsAreRows DEF Pending
<1>15. Fits(o, r, c, t)
  <2>1. t.on # o /\ o \notin t.todo
    BY <1>3, <1>9, Constants
  <2>2. r.status # "fee_only"
    BY <1>6
  <2>3. order[o].status # "absent" /\ c = chain[o]
    BY <1>11, <1>14
  <2>4. QED
    BY <1>3, <1>6, <1>10, <1>14, <2>1, <2>2, <2>3 DEF Fits
<1>16. chain[o].fill <= c.fill /\ Ends(o, r, c, t) <= Ends(o, order[o], chain[o], tick)
  <2>1. c.fill \in Nat /\ order[o].intent.qty \in Nat /\ c.swap \in SwapState
    BY <1>3, <1>11, ChainShape, RowFields
  <2>2. c.swap # "filled" => c.fill = 0
    BY <1>3, <1>11 DEF Fits
  <2>3. QED
    BY <1>2, <1>6, <1>11, <2>1, <2>2 DEF Ends, Over, SwapState
<1>17. held' = held /\ posn' = posn /\ t.on \in {tick.on, None} /\ t.todo \subseteq tick.todo
  BY <1>1, <1>9
<1>18. QED
  BY <1>3, <1>4, <1>6, <1>7, <1>9, <1>11, <1>12, <1>13, <1>14, <1>15, <1>16, <1>17, OneQuiet

LEMMA MineKeeps ==
  ASSUME IInv, NEW o \in Orders, MineApproval(o)
  PROVE  IInv'
<1>1. /\ TypeOK /\ Fitting /\ Flat /\ Doing(tick, order, chain)
      /\ order \in [Orders -> OrderRow] /\ chain \in [Orders -> ChainRow] /\ tick \in TickRow
      /\ UNCHANGED <<order, held, posn, strategy, tick>>
      /\ strategy' \in {"live", "monitored", "inactive"}
  BY Facts DEF MineApproval
<1>2. PICK s \in {"mined", "reverted"} : chain' = [chain EXCEPT ![o].approval = s]
  BY DEF MineApproval
<1>3. PICK c : c = [chain[o] EXCEPT !.approval = s]
  OBVIOUS
<1>4. PICK r, t : r = order[o] /\ t = tick
  OBVIOUS
<1>5. c \in ChainRow /\ c.swap = chain[o].swap /\ c.fill = chain[o].fill
      /\ chain' = [chain EXCEPT ![o] = c]
  BY <1>1, <1>2, <1>3 DEF ChainRow, ApprovalState
<1>6. Fits(o, order[o], chain[o], tick)
  BY <1>1 DEF Fitting
<1>7. Fits(o, r, c, t)
  BY <1>4, <1>5, <1>6 DEF Fits
<1>8. order' = [order EXCEPT ![o] = r] /\ r \in OrderRow /\ tick' = t /\ t \in TickRow
  BY <1>1, <1>4
<1>9. \A u \in Orders : chain'[u].swap = chain[u].swap
  BY <1>1, <1>5
<1>10. Doing(t, order', chain')
  BY <1>1, <1>4, <1>9 DEF Doing, Executing
<1>11. /\ chain[o].fill <= c.fill
       /\ order[o].status # "absent" =>
            r.intent = order[o].intent /\ Ends(o, r, c, t) <= Ends(o, order[o], chain[o], tick)
  <2>1. chain[o].fill \in Nat /\ (order[o].status # "absent" => order[o].intent.qty \in Nat)
    BY <1>1, TypesAreRowed DEF Rowed
  <2>2. QED
    BY <1>4, <1>5, <2>1 DEF Ends, Over
<1>12. held' = held /\ posn' = posn /\ t.on \in {tick.on, None} /\ t.todo \subseteq tick.todo
  BY <1>1, <1>4
<1>13. QED
  BY <1>1, <1>4, <1>5, <1>7, <1>8, <1>10, <1>11, <1>12, OneQuiet

LEMMA FinalizeKeeps ==
  ASSUME IInv, NEW o \in Orders, FinalizeSwap(o)
  PROVE  IInv'
<1>1. /\ TypeOK /\ Fitting /\ Flat /\ Doing(tick, order, chain)
      /\ order \in [Orders -> OrderRow] /\ chain \in [Orders -> ChainRow] /\ tick \in TickRow
      /\ UNCHANGED <<order, held, posn, strategy, tick>> /\ chain[o].swap = "sent"
      /\ strategy' \in {"live", "monitored", "inactive"}
  BY Facts DEF FinalizeSwap
<1>2. Fits(o, order[o], chain[o], tick) /\ order[o] \in OrderRow /\ chain[o] \in ChainRow
  BY <1>1 DEF Fitting
<1>3. order[o].status # "absent" /\ order[o].status \notin Closed /\ order[o].hash
      /\ chain[o].fill = 0
  BY <1>1, <1>2 DEF Fits, Closed
<1>4. order[o] \in Rows /\ order[o].intent.qty \in Nat /\ order[o].intent.qty \in 1..MaxQty
  BY <1>2, <1>3, RowShape, RowFields
<1>5. PICK c \in ChainRow :
        /\ chain' = [chain EXCEPT ![o] = c]
        /\ c.swap \in {"reverted", "odd", "filled"} /\ c.fill \in Nat
        /\ c.fill <= order[o].intent.qty
        /\ c.swap # "filled" => c.fill = 0
  <2>1. ASSUME NEW s \in {"reverted", "odd"}, chain' = [chain EXCEPT ![o].swap = s]
        PROVE  \E c \in ChainRow :
                 /\ chain' = [chain EXCEPT ![o] = c]
                 /\ c.swap \in {"reverted", "odd", "filled"} /\ c.fill \in Nat
                 /\ c.fill <= order[o].intent.qty
                 /\ c.swap # "filled" => c.fill = 0
    <3>1. PICK c : c = [chain[o] EXCEPT !.swap = s]
      OBVIOUS
    <3>2. c \in ChainRow /\ c.swap = s /\ c.fill = 0
      BY <1>2, <1>3, <3>1 DEF ChainRow, SwapState
    <3>3. chain' = [chain EXCEPT ![o] = c]
      BY <1>1, <2>1, <3>1
    <3>4. c.fill \in Nat /\ c.fill <= order[o].intent.qty
      BY <1>4, <3>2
    <3>5. QED
      BY <3>2, <3>3, <3>4
  <2>2. ASSUME NEW n \in 1..order[o].intent.qty,
               chain' = [chain EXCEPT ![o].swap = "filled", ![o].fill = n]
        PROVE  \E c \in ChainRow :
                 /\ chain' = [chain EXCEPT ![o] = c]
                 /\ c.swap \in {"reverted", "odd", "filled"} /\ c.fill \in Nat
                 /\ c.fill <= order[o].intent.qty
                 /\ c.swap # "filled" => c.fill = 0
    <3>1. PICK c : c = [chain[o] EXCEPT !.swap = "filled", !.fill = n]
      OBVIOUS
    <3>a. n \in 0..MaxQty /\ n \in Nat /\ n <= order[o].intent.qty
      BY <1>4, Constants
    <3>2. c \in ChainRow /\ c.swap = "filled" /\ c.fill = n
      BY <1>2, <3>1, <3>a DEF ChainRow, SwapState
    <3>3. chain' = [chain EXCEPT ![o] = c]
      BY <1>1, <2>2, <3>1
    <3>4. QED
      BY <3>a, <3>2, <3>3
  <2>3. QED
    BY <2>1, <2>2 DEF FinalizeSwap
<1>6. PICK r, t : r = order[o] /\ t = tick
  OBVIOUS
<1>7. Fits(o, r, c, t)
  BY <1>2, <1>3, <1>5, <1>6 DEF Fits, Closed
<1>8. order' = [order EXCEPT ![o] = r] /\ r \in OrderRow /\ tick' = t /\ t \in TickRow
  BY <1>1, <1>6
<1>9. \A u \in Orders : chain'[u].swap = "none" <=> chain[u].swap = "none"
  BY <1>1, <1>5
<1>10. Doing(t, order', chain')
  BY <1>1, <1>6, <1>9 DEF Doing, Executing
<1>11. /\ chain[o].fill <= c.fill /\ r.intent = order[o].intent
       /\ Ends(o, r, c, t) <= Ends(o, order[o], chain[o], tick)
  BY <1>1, <1>3, <1>4, <1>5, <1>6 DEF Ends, Over
<1>12. held' = held /\ posn' = posn /\ t.on \in {tick.on, None} /\ t.todo \subseteq tick.todo
       /\ r.status # "confirmed" /\ order[o].status # "confirmed" /\ r.status # "absent"
  BY <1>1, <1>3, <1>6 DEF Closed
<1>13. QED
  BY <1>1, <1>3, <1>5, <1>7, <1>8, <1>10, <1>11, <1>12, OneQuiet

-----------------------------------------------------------------------------
(* Settlement *)

\* The confirmed fills of both sides when order o, so far not confirmed, is.
LEMMA ConfirmedMoves ==
  ASSUME NEW ord, NEW new, NEW ch, Rowed(ord, ch), Rowed(new, ch), NEW o \in Orders,
         ord[o].status # "confirmed", new[o].status = "confirmed",
         \A u \in Orders \ {o} : new[u] = ord[u], NEW p, NEW side
  PROVE  Total(ConfirmedOf(p, side, new, ch))
           = Total(ConfirmedOf(p, side, ord, ch))
             + (IF new[o].intent.pos = p /\ new[o].intent.side = side THEN ch[o].fill ELSE 0)
<1>1. PICK f, g : f = ConfirmedOf(p, side, ord, ch) /\ g = ConfirmedOf(p, side, new, ch)
  OBVIOUS
<1>2. /\ \A u \in Orders : f[u] \in Nat /\ g[u] \in Nat
      /\ Total(f) \in Nat /\ Total(g) \in Nat
  BY <1>1, SumsAreNumbers
<1>3. \A u \in Orders \ {o} : f[u] = g[u]
  BY <1>1 DEF ConfirmedOf
<1>4. f[o] = 0 /\ g[o] = IF new[o].intent.pos = p /\ new[o].intent.side = side THEN ch[o].fill ELSE 0
  BY <1>1 DEF ConfirmedOf, On
<1>5. Total(g) = Total(f) - f[o] + g[o]
  BY <1>2, <1>3, Constants, SumChangedAt DEF Total
<1>6. Total(g) = Total(f) + g[o]
  BY <1>2, <1>4, <1>5
<1>7. QED
  BY <1>1, <1>4, <1>6

\* The tick settles o, and works on it no more.
Settled(o) == tick.on \in {o, None} /\ order[o].status \in Pending /\ chain' = chain /\ strategy' = strategy

LEMMA FillKeeps ==
  ASSUME IInv, NEW o \in Orders, Settled(o), ApplyFill(o),
         NEW t \in TickRow, tick' = t, t.at \notin Executing, t.on = None,
         t.todo \subseteq tick.todo \ {o}, t.at # "reconcile" => t.todo = {}
  PROVE  IInv'
<1>1. /\ TypeOK /\ Fitting /\ Flat /\ order \in [Orders -> OrderRow] /\ chain \in [Orders -> ChainRow]
      /\ Fits(o, order[o], chain[o], tick) /\ order[o] \in OrderRow /\ chain[o] \in ChainRow
      /\ held \in [Positions -> 0..MaxQty] /\ held \in [Positions -> Nat]
      /\ posn \in [Positions -> {"none", "open", "closed"}]
      /\ strategy \in {"live", "monitored", "inactive"}
  BY Facts, Types DEF Fitting
<1>2. /\ order[o].status \in Pending /\ order[o].status # "absent" /\ chain' = chain
      /\ strategy' = strategy
  BY DEF Settled, Pending
<1>3. order[o] \in Rows
  BY <1>1, <1>2, RowShape
<1>4. PICK i, n : i = order[o].intent /\ n = chain[o].fill
  OBVIOUS
<1>5. i.pos \in Positions /\ i.side \in {"buy", "sell"} /\ n \in 0..MaxQty /\ n \in Nat
      /\ i.qty \in Nat /\ n <= i.qty
  BY <1>1, <1>2, <1>3, <1>4, RowFields, ChainShape DEF Fits
<1>6. /\ order[o].hash /\ chain[o].swap = "filled"
      /\ IF i.side = "buy" THEN posn[i.pos] = "none" ELSE posn[i.pos] # "none" /\ n <= held[i.pos]
      /\ order' = [order EXCEPT ![o].status = "confirmed"]
      /\ held' = [held EXCEPT ![i.pos] = IF i.side = "buy" THEN n ELSE @ - n]
      /\ posn' = [posn EXCEPT ![i.pos] = IF held'[i.pos] = 0 THEN "closed" ELSE "open"]
  BY <1>4 DEF ApplyFill
<1>7. PICK h : h = IF i.side = "buy" THEN n ELSE held[i.pos] - n
  OBVIOUS
<1>8. h \in 0..MaxQty /\ \A p \in Positions : held'[p] = IF p = i.pos THEN h ELSE held[p]
  <2>1. \A p \in Positions : held'[p] = IF p = i.pos THEN h ELSE held[p]
    BY <1>1, <1>5, <1>6, <1>7
  <2>2. held[i.pos] \in 0..MaxQty /\ held[i.pos] \in Nat
    BY <1>1, <1>5
  <2>3. CASE i.side = "buy"
    BY <1>5, <1>7, <2>1, <2>3
  <2>4. CASE i.side # "buy"
    <3>1. h = held[i.pos] - n /\ n <= held[i.pos]
      BY <1>6, <1>7, <2>4
    <3>2. h \in 0..MaxQty
      BY <1>5, <2>2, <3>1, Constants
    <3>3. QED
      BY <2>1, <3>2
  <2>5. QED
    BY <2>3, <2>4
<1>9. held' \in [Positions -> 0..MaxQty]
  <2>1. held' = [held EXCEPT ![i.pos] = h]
    BY <1>6, <1>7
  <2>2. QED
    BY <1>1, <1>5, <1>8, <2>1
<1>10. /\ posn' \in [Positions -> {"none", "open", "closed"}]
       /\ posn'[i.pos] # "none" /\ \A p \in Positions : p # i.pos => posn'[p] = posn[p]
  BY <1>1, <1>5, <1>6
<1>11. PICK r : r = [order[o] EXCEPT !.status = "confirmed"]
  OBVIOUS
<1>12. /\ r \in Rows /\ r.status = "confirmed" /\ r.intent = i /\ r.hash = order[o].hash
       /\ order' = [order EXCEPT ![o] = r] /\ r \in OrderRow
  BY <1>3, <1>4, <1>6, <1>11, RowsAreRows DEF Rows, Closed
<1>13. chain' = [chain EXCEPT ![o] = chain[o]]
  BY <1>1, <1>2
<1>14. order' \in [Orders -> OrderRow] /\ chain' \in [Orders -> ChainRow]
  BY <1>1, <1>2, <1>12
<1>15. TypeOK'
  BY <1>1, <1>2, <1>9, <1>10, <1>14 DEF TypeOK, ChainRow
<1>16. Flat'
  <2>1. ASSUME NEW p \in Positions, posn'[p] = "none" PROVE held'[p] = 0
    BY <1>1, <1>8, <1>10, <2>1 DEF Flat
  <2>2. QED
    BY <2>1 DEF Flat
<1>17. BookedOnce(order', chain', held')
  <2>1. ASSUME NEW p \in Positions
        PROVE  held'[p] = Total(ConfirmedOf(p, "buy", order', chain'))
                            - Total(ConfirmedOf(p, "sell", order', chain'))
    <3>1. PICK b, s, x, y :
            /\ b = Total(ConfirmedOf(p, "buy", order, chain))
            /\ s = Total(ConfirmedOf(p, "sell", order, chain))
            /\ x = Total(ConfirmedOf(p, "buy", order', chain'))
            /\ y = Total(ConfirmedOf(p, "sell", order', chain'))
      OBVIOUS
    <3>2. /\ x = b + (IF i.pos = p /\ i.side = "buy" THEN n ELSE 0)
          /\ y = s + (IF i.pos = p /\ i.side = "sell" THEN n ELSE 0)
      <4>1. ASSUME NEW side
            PROVE  Total(ConfirmedOf(p, side, order', chain'))
                     = Total(ConfirmedOf(p, side, order, chain))
                       + (IF r.intent.pos = p /\ r.intent.side = side THEN chain[o].fill ELSE 0)
        <5>1. PICK new, ch : new = order' /\ ch = chain
          OBVIOUS
        <5>2. Rowed(order, ch) /\ Rowed(new, ch)
          BY <1>1, <1>2, <1>14, <5>1, TypesAreRowed
        <5>3. new[o] = r /\ \A u \in Orders \ {o} : new[u] = order[u]
          BY <1>1, <1>12, <5>1
        <5>4. order[o].status # "confirmed" /\ new[o].status = "confirmed"
          BY <1>2, <1>12, <5>3 DEF Pending
        <5>5. Total(ConfirmedOf(p, side, new, ch))
                = Total(ConfirmedOf(p, side, order, ch))
                  + (IF new[o].intent.pos = p /\ new[o].intent.side = side THEN ch[o].fill ELSE 0)
          BY <5>2, <5>3, <5>4, ConfirmedMoves
        <5>6. QED
          BY <1>2, <5>1, <5>3, <5>5
      <4>2. r.intent = i /\ chain[o].fill = n
        BY <1>4, <1>12
      <4>3. QED
        BY <3>1, <4>1, <4>2
    <3>3. b \in Nat /\ s \in Nat
      BY <1>1, <3>1, TypesAreRowed, SumsAreNumbers
    <3>4. held[p] = b - s /\ held[p] \in Nat
      BY <1>1, <3>1 DEF IInv, BookedOnce
    <3>5. held'[p] = IF p = i.pos THEN h ELSE held[p]
      BY <1>8
    <3>6. p = i.pos /\ i.side = "buy" => held[p] = 0
      BY <1>1, <1>6 DEF Flat
    <3>7. held'[p] = x - y
      <4>1. CASE p # i.pos
        BY <3>2, <3>3, <3>4, <3>5, <4>1
      <4>2. CASE p = i.pos /\ i.side = "buy"
        BY <1>5, <1>7, <3>2, <3>3, <3>4, <3>5, <3>6, <4>2
      <4>3. CASE p = i.pos /\ i.side = "sell"
        BY <1>5, <1>7, <3>2, <3>3, <3>4, <3>5, <4>3
      <4>4. QED
        BY <1>5, <4>1, <4>2, <4>3
    <3>8. QED
      BY <3>1, <3>7
  <2>2. QED
    BY <2>1 DEF BookedOnce
<1>18. Fits(o, r, chain[o], t)
  <2>1. t.on # o /\ o \notin t.todo
    BY Constants
  <2>2. QED
    BY <1>1, <1>2, <1>4, <1>5, <1>6, <1>12, <2>1 DEF Fits
<1>19. chain[o].fill <= chain[o].fill /\ Ends(o, r, chain[o], t) <= Ends(o, order[o], chain[o], tick)
  BY <1>4, <1>5, <1>6 DEF Ends, Over
<1>20. Doing(t, order', chain')
  BY AtRest
<1>21. t.on \in {tick.on, None} /\ t.todo \subseteq tick.todo /\ r.status # "absent"
       /\ r.intent = order[o].intent
  BY <1>4, <1>12
<1>22. QED
  BY <1>1, <1>2, <1>12, <1>13, <1>15, <1>16, <1>17, <1>18, <1>19, <1>20, <1>21, OneOrder

LEMMA FeeKeeps ==
  ASSUME IInv, NEW o \in Orders, Settled(o), FeeOnly(o),
         NEW t \in TickRow, tick' = t, t.at \notin Executing, t.on = None,
         t.todo \subseteq tick.todo \ {o}, t.at # "reconcile" => t.todo = {}
  PROVE  IInv'
<1>1. /\ Fitting /\ order \in [Orders -> OrderRow] /\ chain \in [Orders -> ChainRow]
      /\ Fits(o, order[o], chain[o], tick) /\ order[o] \in OrderRow /\ chain[o] \in ChainRow
      /\ strategy \in {"live", "monitored", "inactive"}
  BY Facts DEF Fitting
<1>2. /\ order[o].status \in Pending /\ order[o].status # "absent" /\ order[o].status # "confirmed"
      /\ chain' = chain /\ strategy' = strategy
  BY DEF Settled, Pending
<1>3. order[o] \in Rows
  BY <1>1, <1>2, RowShape
<1>4. chain[o].swap \in {"none", "reverted"} /\ chain[o].fill = 0
  BY <1>1 DEF FeeOnly, OnlyFees, Fits
<1>5. PICK r : r = [order[o] EXCEPT !.status = "fee_only"]
  OBVIOUS
<1>6. /\ r \in Rows /\ r.status = "fee_only" /\ r.intent = order[o].intent /\ r.hash = order[o].hash
      /\ order' = [order EXCEPT ![o] = r] /\ r \in OrderRow /\ held' = held /\ posn' = posn
  BY <1>3, <1>5, RowsAreRows DEF FeeOnly, Rows, Closed
<1>7. chain' = [chain EXCEPT ![o] = chain[o]]
  BY <1>1, <1>2
<1>8. Fits(o, r, chain[o], t)
  <2>1. t.on # o /\ o \notin t.todo
    BY Constants
  <2>2. QED
    BY <1>1, <1>2, <1>4, <1>6, <2>1 DEF Fits
<1>9. chain[o].fill <= chain[o].fill /\ Ends(o, r, chain[o], t) <= Ends(o, order[o], chain[o], tick)
  <2>1. order[o].intent.qty \in Nat /\ t.on # o
    BY <1>3, RowFields, Constants
  <2>2. QED
    BY <1>4, <2>1 DEF Ends, Over
<1>10. Doing(t, order', chain')
  BY AtRest
<1>11. t.on \in {tick.on, None} /\ t.todo \subseteq tick.todo
       /\ strategy' \in {"live", "monitored", "inactive"}
  BY <1>1, <1>2
<1>12. r.status # "absent" /\ r.status # "confirmed"
  BY <1>6
<1>13. QED
  BY <1>1, <1>2, <1>6, <1>7, <1>8, <1>9, <1>10, <1>11, <1>12, OneQuiet

LEMMA ReconcileKeeps ==
  ASSUME IInv, NEW o \in Orders, ReconcileFinal(o)
  PROVE  IInv'
<1>1. /\ tick.at = "reconcile" /\ o \in tick.todo /\ (ApplyFill(o) \/ FeeOnly(o))
      /\ tick' = [tick EXCEPT !.todo = @ \ {o}] /\ UNCHANGED <<strategy, chain>>
  BY DEF ReconcileFinal
<1>2. tick \in TickRow /\ tick.on = None /\ order[o].status \in Pending
  BY <1>1, Facts, OnNone DEF Executing, Fitting, Fits
<1>3. PICK t : t = [tick EXCEPT !.todo = @ \ {o}]
  OBVIOUS
<1>4. /\ t \in TickRow /\ tick' = t /\ t.at = "reconcile" /\ t.on = None
      /\ t.todo \subseteq tick.todo \ {o}
  BY <1>1, <1>2, <1>3 DEF TickRow
<1>5. Settled(o) /\ t.at \notin Executing
  BY <1>1, <1>2, <1>4 DEF Settled, Executing
<1>6. CASE ApplyFill(o)
  BY <1>4, <1>5, <1>6, FillKeeps
<1>7. CASE FeeOnly(o)
  BY <1>4, <1>5, <1>7, FeeKeeps
<1>8. QED
  BY <1>1, <1>6, <1>7

LEMMA SettleKeeps ==
  ASSUME IInv, SettleNow
  PROVE  IInv'
<1>1. /\ tick.at = "settle" /\ tick.at \in Executing /\ UNCHANGED <<strategy, chain>>
      /\ tick' = [tick EXCEPT !.at = "loop", !.on = None]
      /\ ApplyFill(tick.on) \/ FeeOnly(tick.on) \/ UNCHANGED <<order, held, posn>>
  BY DEF SettleNow, Executing
<1>2. PICK o : o = tick.on
  OBVIOUS
<1>3. o \in Orders /\ tick.todo = {} /\ order[o].status \in Pending
  BY <1>1, <1>2, AtWork
<1>4. PICK t : t = [tick EXCEPT !.at = "loop", !.on = None]
  OBVIOUS
<1>5. t \in TickRow /\ tick' = t /\ t.at = "loop" /\ t.on = None /\ t.todo = {}
  BY <1>1, <1>3, <1>4, Facts DEF TickRow, Places
<1>6. Settled(o) /\ t.at \notin Executing /\ t.todo \subseteq tick.todo \ {o}
  BY <1>1, <1>2, <1>3, <1>5 DEF Settled, Executing
<1>7. CASE ApplyFill(o)
  BY <1>3, <1>5, <1>6, <1>7, FillKeeps
<1>8. CASE FeeOnly(o)
  BY <1>3, <1>5, <1>6, <1>8, FeeKeeps
<1>9. CASE UNCHANGED <<order, held, posn>>
  <2>1. Doing(t, order, chain)
    BY <1>5, <1>6, AtRest
  <2>2. UNCHANGED <<order, held, posn, chain>> /\ strategy' \in {"live", "monitored", "inactive"}
    BY <1>1, <1>9, Facts
  <2>3. t.on \in {tick.on, None} /\ \A u \in t.todo : order[u].status \in Pending
    BY <1>5
  <2>4. QED
    BY <1>5, <2>1, <2>2, <2>3, TickMoves
<1>10. QED
  BY <1>1, <1>2, <1>7, <1>8, <1>9

-----------------------------------------------------------------------------
(* Reservation *)

\* Once no order of a position is pending, what the chain bought and sold for it is
\* what is booked.
LEMMA SettledIsHeld ==
  ASSUME IInv, NEW p \in Positions, PendingOn(p) = {}, tick.on = None
  PROVE  Total(SoldOf(p, order, chain, tick)) = Total(ConfirmedOf(p, "sell", order, chain))
         /\ Total(BoughtOf(p, order, chain)) = Total(ConfirmedOf(p, "buy", order, chain))
<1>1. ASSUME NEW o \in Orders, NEW side, On(order[o], p, side)
      PROVE  /\ Ends(o, order[o], chain[o], tick) =
                  IF order[o].status = "confirmed" THEN chain[o].fill ELSE 0
             /\ chain[o].fill = IF order[o].status = "confirmed" THEN chain[o].fill ELSE 0
  <2>1. Fits(o, order[o], chain[o], tick) /\ order[o] \in OrderRow
    BY Facts DEF Fitting
  <2>2. order[o].status \in Closed
    BY <1>1, <2>1, RowShape DEF PendingOn, PendingOrders, On
  <2>3. tick.on # o
    BY Constants
  <2>4. QED
    BY <2>1, <2>2, <2>3 DEF Fits, Ends, Over, Closed
<1>2. SoldOf(p, order, chain, tick) = ConfirmedOf(p, "sell", order, chain)
  <2>1. ASSUME NEW o \in Orders
        PROVE (IF On(order[o], p, "sell") THEN Ends(o, order[o], chain[o], tick) ELSE 0)
                = (IF On(order[o], p, "sell") /\ order[o].status = "confirmed" THEN chain[o].fill ELSE 0)
    BY <1>1
  <2>2. QED
    BY <2>1 DEF SoldOf, ConfirmedOf
<1>3. BoughtOf(p, order, chain) = ConfirmedOf(p, "buy", order, chain)
  <2>1. ASSUME NEW o \in Orders
        PROVE (IF On(order[o], p, "buy") THEN chain[o].fill ELSE 0)
                = (IF On(order[o], p, "buy") /\ order[o].status = "confirmed" THEN chain[o].fill ELSE 0)
    BY <1>1
  <2>2. QED
    BY <2>1 DEF BoughtOf, ConfirmedOf
<1>4. QED
  BY <1>2, <1>3

\* An order with nothing on the chain: a drawn entry changes neither sum, a drawn
\* exit adds its quantity to what may be sold of its position.
LEMMA DrawnSums ==
  ASSUME NEW ord, NEW new, NEW ch, Rowed(ord, ch), Rowed(new, ch), NEW o \in Orders,
         ord[o].status = "absent", ch[o].swap = "none", ch[o].fill = 0,
         \A u \in Orders \ {o} : new[u] = ord[u], NEW s, s.on = None, NEW t, t.on = o, NEW p
  PROVE  /\ Total(BoughtOf(p, new, ch)) = Total(BoughtOf(p, ord, ch))
         /\ Total(SoldOf(p, new, ch, t)) =
              Total(SoldOf(p, ord, ch, s)) + IF On(new[o], p, "sell") THEN new[o].intent.qty ELSE 0
<1>a. (\A u \in Orders : SoldOf(p, ord, ch, s)[u] \in Nat) /\ Total(SoldOf(p, ord, ch, s)) \in Nat
  BY SumsAreNumbers
<1>b. (\A u \in Orders : SoldOf(p, new, ch, t)[u] \in Nat) /\ Total(SoldOf(p, new, ch, t)) \in Nat
  BY SumsAreNumbers
<1>c. PICK f, g : f = SoldOf(p, ord, ch, s) /\ g = SoldOf(p, new, ch, t)
  OBVIOUS
<1>1. BoughtOf(p, new, ch) = BoughtOf(p, ord, ch)
  BY DEF BoughtOf, On
<1>2. \A u \in Orders \ {o} : f[u] = g[u]
  <2>1. ASSUME NEW u \in Orders \ {o} PROVE s.on # u /\ t.on # u /\ new[u] = ord[u]
    BY Constants
  <2>2. QED
    BY <1>c, <2>1 DEF SoldOf, Ends, Over
<1>3. f[o] = 0 /\ g[o] = IF On(new[o], p, "sell") THEN new[o].intent.qty ELSE 0
  BY <1>c DEF SoldOf, On, Ends, Over
<1>4. \A u \in Orders : f[u] \in Int /\ g[u] \in Int
  BY <1>a, <1>b, <1>c
<1>5. Total(g) = Total(f) - f[o] + g[o]
  BY <1>2, <1>4, Constants, SumChangedAt DEF Total
<1>6. Total(g) = Total(f) + g[o]
  BY <1>3, <1>4, <1>5, <1>a, <1>b, <1>c
<1>7. QED
  BY <1>1, <1>3, <1>6, <1>c

LEMMA ReserveKeeps ==
  ASSUME IInv, NEW i \in Intent, NEW o \in Orders, Reserve(i, o)
  PROVE  IInv'
<1>1. /\ TypeOK /\ Fitting /\ Flat /\ Doing(tick, order, chain) /\ Covered
      /\ BookedOnce(order, chain, held) /\ Rowed(order, chain) /\ tick \in TickRow
      /\ order \in [Orders -> OrderRow] /\ chain \in [Orders -> ChainRow]
  BY Facts, TypesAreRowed DEF IInv
<1>2. /\ tick.at = "loop" /\ order[o].status = "absent"
      /\ IF i.side = "buy" THEN MayEnter(i) ELSE MayExit(i)
      /\ order' = [order EXCEPT ![o] = [NoOrder EXCEPT !.status = "submitting", !.intent = i]]
      /\ tick' = [tick EXCEPT !.at = "prepare", !.intents = @ \ {i}, !.on = o, !.attempted = FALSE]
      /\ UNCHANGED <<held, posn, strategy, chain>>
  <2>1. o >= o
    BY DEF Orders
  <2>2. QED
    BY <2>1 DEF Reserve
<1>3. PICK r : r = [NoOrder EXCEPT !.status = "submitting", !.intent = i]
  OBVIOUS
<1>4. r \in Rows /\ r.status = "submitting" /\ r.intent = i /\ r \in OrderRow
  <2>1. r = [status |-> "submitting", intent |-> i, approval |-> FALSE, hash |-> FALSE]
    BY <1>3 DEF NoOrder
  <2>2. r \in Rows
    BY <2>1 DEF Rows, Pending
  <2>3. QED
    BY <2>1, <2>2, RowsAreRows
<1>5. PICK t : t = [tick EXCEPT !.at = "prepare", !.intents = @ \ {i}, !.on = o, !.attempted = FALSE]
  OBVIOUS
<1>6. tick' = t /\ t \in TickRow /\ t.at = "prepare" /\ t.on = o /\ t.todo = {} /\ tick.todo = {}
  BY <1>1, <1>2, <1>5 DEF TickRow, Places, Doing
<1>7. tick.on = None
  BY <1>2, OnNone DEF Executing
<1>8. order' \in [Orders -> OrderRow] /\ \A u \in Orders : order'[u] = IF u = o THEN r ELSE order[u]
  BY <1>1, <1>2, <1>3, <1>4
<1>9. TypeOK' /\ Flat'
  BY <1>1, <1>2, <1>6, <1>8 DEF TypeOK, Flat
<1>10. Fits(o, order[o], chain[o], tick)
  BY <1>1 DEF Fitting
<1>11. chain[o].swap = "none" /\ chain[o].fill = 0 /\ i.qty \in Nat
  BY <1>2, <1>10, IntentShape DEF Fits
<1>12. Fitting'
  <2>1. ASSUME NEW u \in Orders PROVE Fits(u, order'[u], chain[u], t)
    <3>1. CASE u = o
      <4>1. Fits(o, r, chain[o], t)
        BY <1>4, <1>6, <1>11 DEF Fits, Closed
      <4>2. QED
        BY <1>8, <3>1, <4>1
    <3>2. CASE u # o
      <4>1. Fits(u, order[u], chain[u], tick)
        BY <1>1 DEF Fitting
      <4>2. Fits(u, order[u], chain[u], t)
        BY <1>6, <3>2, <4>1 DEF Fits
      <4>3. QED
        BY <1>8, <3>2, <4>2
    <3>3. QED
      BY <3>1, <3>2
  <2>2. QED
    BY <1>2, <1>6, <2>1 DEF Fitting
<1>13. Doing(t, order', chain')
  BY <1>2, <1>6, <1>11 DEF Doing, Executing
<1>14. BookedOnce(order', chain', held')
  <2>1. \A u \in Orders :
           /\ order'[u].status = "confirmed" <=> order[u].status = "confirmed"
           /\ order[u].status = "confirmed" =>
                order'[u].intent = order[u].intent /\ chain'[u].fill = chain[u].fill
    BY <1>2, <1>4, <1>8
  <2>2. held' = held
    BY <1>2
  <2>3. QED
    BY <2>1, <2>2, BooksTheSame
<1>15. Covered'
  <2>1. SUFFICES ASSUME NEW p \in Positions
                 PROVE  Total(SoldOf(p, order', chain, t)) <= Total(BoughtOf(p, order', chain))
    BY <1>2, <1>6 DEF Covered
  <2>2. Rowed(order', chain)
    BY <1>1, <1>8, TypesAreRowed
  <2>3. /\ Total(BoughtOf(p, order', chain)) = Total(BoughtOf(p, order, chain))
        /\ Total(SoldOf(p, order', chain, t)) =
             Total(SoldOf(p, order, chain, tick))
               + IF On(order'[o], p, "sell") THEN order'[o].intent.qty ELSE 0
    <3>1. PICK new, ch, s : new = order' /\ ch = chain /\ s = tick
      OBVIOUS
    <3>2. Rowed(order, ch) /\ Rowed(new, ch) /\ order[o].status = "absent" /\ s.on = None /\ t.on = o
      BY <1>1, <1>2, <1>6, <1>7, <2>2, <3>1
    <3>3. ch[o].swap = "none" /\ ch[o].fill = 0 /\ \A u \in Orders \ {o} : new[u] = order[u]
      BY <1>8, <1>11, <3>1
    <3>4. /\ Total(BoughtOf(p, new, ch)) = Total(BoughtOf(p, order, ch))
          /\ Total(SoldOf(p, new, ch, t)) =
               Total(SoldOf(p, order, ch, s)) + IF On(new[o], p, "sell") THEN new[o].intent.qty ELSE 0
      BY <3>2, <3>3, DrawnSums
    <3>5. QED
      BY <3>1, <3>4
  <2>4. /\ Total(SoldOf(p, order, chain, tick)) \in Nat /\ Total(BoughtOf(p, order, chain)) \in Nat
        /\ Total(SoldOf(p, order, chain, tick)) <= Total(BoughtOf(p, order, chain))
    BY <1>1, SumsAreNumbers DEF Covered
  <2>5. order'[o] = r
    BY <1>8
  <2>6. CASE On(order'[o], p, "sell")
    <3>1. i.side = "sell" /\ i.pos = p
      BY <1>4, <2>5, <2>6 DEF On
    <3>2. PendingOn(p) = {} /\ i.qty <= held[p]
      BY <1>2, <3>1 DEF MayExit
    <3>3. Total(SoldOf(p, order, chain, tick)) = Total(ConfirmedOf(p, "sell", order, chain))
          /\ Total(BoughtOf(p, order, chain)) = Total(ConfirmedOf(p, "buy", order, chain))
      BY <1>7, <3>2, SettledIsHeld
    <3>4. held[p] = Total(BoughtOf(p, order, chain)) - Total(SoldOf(p, order, chain, tick))
      BY <1>1, <3>3 DEF BookedOnce
    <3>5. order'[o].intent.qty = i.qty
      BY <1>4, <2>5
    <3>6. QED
      BY <1>11, <2>3, <2>4, <2>6, <3>2, <3>4, <3>5
  <2>7. CASE ~ On(order'[o], p, "sell")
    BY <2>3, <2>4, <2>7
  <2>8. QED
    BY <2>6, <2>7
<1>16. QED
  BY <1>6, <1>9, <1>12, <1>13, <1>14, <1>15 DEF IInv

-----------------------------------------------------------------------------
(* The theorems *)

LEMMA ZeroTotal ==
  ASSUME NEW f, \A o \in Orders : f[o] = 0
  PROVE  Total(f) = 0
<1> DEFINE g == [o \in Orders |-> 0]
           h == [o \in {} |-> 0]
<1>1. \A o \in {} : h[o] \in Int
  OBVIOUS
<1>2. \A o \in Orders : f[o] = IF o \in {} THEN h[o] ELSE 0
  OBVIOUS
<1>3. {} \in SUBSET Orders
  OBVIOUS
<1> HIDE DEF h
<1>4. SumFunctionOnSet(h, {}) = SumFunctionOnSet(f, Orders)
  BY <1>1, <1>2, <1>3, Constants, SumOfPart
<1>5. SumFunctionOnSet(h, {}) = 0
  BY SumOfNothing
<1>6. QED
  BY <1>4, <1>5 DEF Total

LEMMA InitInv == Init => IInv
<1> SUFFICES ASSUME Init PROVE IInv
  OBVIOUS
<1>1. TypeOK
  <2>1. [approval |-> "none", swap |-> "none", fill |-> 0]
          \in [approval : ApprovalState, swap : SwapState, fill : 0..MaxQty]
    BY Constants DEF ApprovalState, SwapState
  <2>2. 0 \in 0..MaxQty
    BY Constants
  <2>3. QED
    BY <2>1, <2>2, RowsAreRows, IdleShape DEF Init, TypeOK
<1>2. \A o \in Orders : /\ order[o] = NoOrder /\ order[o].status = "absent"
                        /\ chain[o].swap = "none" /\ chain[o].fill = 0
  BY DEF Init, NoOrder
<1>3. tick = Idle /\ tick.at = "idle" /\ tick.todo = {} /\ tick.on = None
  BY IdleShape DEF Init
<1>4. Fitting
  <2>1. ASSUME NEW o \in Orders PROVE Fits(o, order[o], chain[o], tick)
    BY <1>2, <1>3, Constants DEF Fits, Closed
  <2>2. QED
    BY <2>1 DEF Fitting
<1>5. Doing(tick, order, chain)
  BY <1>3, Constants DEF Doing, Executing
<1>6. Flat
  BY DEF Init, Flat
<1>7. ASSUME NEW p
      PROVE  /\ Total(ConfirmedOf(p, "buy", order, chain)) = 0
             /\ Total(ConfirmedOf(p, "sell", order, chain)) = 0
             /\ Total(SoldOf(p, order, chain, tick)) = 0 /\ Total(BoughtOf(p, order, chain)) = 0
  <2>1. \A side : \A o \in Orders : ConfirmedOf(p, side, order, chain)[o] = 0
    BY <1>2 DEF ConfirmedOf
  <2>2. \A o \in Orders : SoldOf(p, order, chain, tick)[o] = 0
    BY <1>2 DEF SoldOf, On
  <2>3. \A o \in Orders : BoughtOf(p, order, chain)[o] = 0
    BY <1>2 DEF BoughtOf, On
  <2>4. QED
    BY <2>1, <2>2, <2>3, ZeroTotal
<1>8. BookedOnce(order, chain, held)
  <2>1. \A p \in Positions : held[p] = 0
    BY DEF Init
  <2>2. QED
    BY <1>7, <2>1 DEF BookedOnce
<1>9. Covered
  BY <1>7 DEF Covered
<1>10. QED
  BY <1>1, <1>4, <1>5, <1>6, <1>8, <1>9 DEF IInv

LEMMA StutterKeeps ==
  ASSUME IInv, UNCHANGED vars
  PROVE  IInv'
<1>1. /\ UNCHANGED <<order, held, posn, chain>> /\ tick' = tick /\ strategy' = strategy
  BY DEF vars
<1>2. tick \in TickRow /\ Doing(tick, order, chain) /\ strategy' \in {"live", "monitored", "inactive"}
  BY <1>1, Facts
<1>3. \A o \in tick.todo : order[o].status \in Pending
  BY <1>2, Facts, TickShape DEF Fitting, Fits
<1>4. QED
  BY <1>1, <1>2, <1>3, TickMoves

LEMMA NextInv == IInv /\ [Next]_vars => IInv'
<1> SUFFICES ASSUME IInv, [Next]_vars PROVE IInv'
  OBVIOUS
<1>1. CASE UNCHANGED vars
  BY <1>1, StutterKeeps
<1>2. CASE Pause \/ Activate
  BY <1>2, LifeKeeps
<1>3. CASE StartTick
  BY <1>3, StartTickKeeps
<1>4. CASE Stop
  BY <1>4, EndKeeps
<1>5. CASE Chain
  BY <1>5, MineKeeps, FinalizeKeeps DEF Chain
<1>6. CASE Reconcile
  <2>1. ASSUME NEW o \in Orders, ReconcileFinal(o) PROVE IInv'
    BY <2>1, ReconcileKeeps
  <2>2. ASSUME NEW o \in Orders, ReconcileNothing(o) PROVE IInv'
    BY <2>2, BetweenKeeps
  <2>3. QED
    BY <1>6, <2>1, <2>2 DEF Reconcile
<1>7. CASE Decide
  <2>1. CASE CheckPortfolio \/ Evaluate
    BY <2>1, BetweenKeeps
  <2>2. CASE FinishTick
    BY <2>2, EndKeeps
  <2>3. ASSUME NEW i \in Intent, SkipIntent(i) PROVE IInv'
    BY <2>3, BetweenKeeps
  <2>4. ASSUME NEW i \in Intent, NEW o \in Orders, Reserve(i, o) PROVE IInv'
    BY <2>4, ReserveKeeps
  <2>5. QED
    BY <1>7, <2>1, <2>2, <2>3, <2>4 DEF Decide
<1>8. CASE Execute
  <2>1. CASE SignApproval \/ SignSwap
    BY <2>1, SignKeeps
  <2>2. CASE BroadcastApproval \/ BroadcastSwap
    BY <2>2, BroadcastKeeps
  <2>3. CASE PollApproval
    BY <2>3, PollKeeps
  <2>4. CASE SettleNow
    BY <2>4, SettleKeeps
  <2>5. CASE ExecuteFails
    BY <2>5, FailsKeeps
  <2>6. QED
    BY <1>8, <2>1, <2>2, <2>3, <2>4, <2>5 DEF Execute
<1>9. QED
  BY <1>1, <1>2, <1>3, <1>4, <1>5, <1>6, <1>7, <1>8 DEF Next, TickStep

LEMMA Invariance == Spec => []IInv
<1>1. QED
  BY InitInv, NextInv, PTL DEF Spec

\* Every row, place, quantity and transaction has its type, for any number of
\* orders (dex_confirmed.py).
THEOREM TypeSafe == Spec => []TypeOK
<1>1. IInv => TypeOK
  BY DEF IInv
<1>2. QED
  BY <1>1, Invariance, PTL

\* A holding is what the confirmed receipts add up to, wherever the process stops
\* and however often an order is reconciled (dex_confirmed.py, apply_fill).
THEOREM BookedSafe == Spec => []FillsBookedOnce
<1>1. IInv => FillsBookedOnce
  BY Solvent
<1>2. QED
  BY <1>1, Invariance, PTL

\* However slowly receipts come, the sells in flight and done never exceed what the
\* position bought (dex_confirmed.py, reserve).
THEOREM SoldSafe == Spec => []NeverOversold
<1>1. IInv => NeverOversold
  BY Solvent
<1>2. QED
  BY <1>1, Invariance, PTL

-----------------------------------------------------------------------------
(* Refinement of OrderJournal *)

\* The refinement mapping, row by row.
Class(r) == CASE r.status = "absent" -> "none" [] r.status \in Pending -> "open" [] OTHER -> "closed"
Booked(r, c) == IF r.status = "confirmed" THEN c.fill ELSE 0
Done(o, r, c, t) ==
  \/ c.swap \in {"filled", "reverted", "odd"}
  \/ c.swap = "none" /\ r.status # "absent" /\ t.on # o

States == [o \in Orders |-> Class(order[o])]
BookedMap == [o \in Orders |-> Booked(order[o], chain[o])]
ExecutedMap == [o \in Orders |-> chain[o].fill]
OverMap == [o \in Orders |-> Done(o, order[o], chain[o], tick)]

JournalVars == <<States, BookedMap, ExecutedMap, OverMap>>

LEMMA Classes ==
  ASSUME NEW r
  PROVE  /\ r.status = "absent" => Class(r) = "none"
         /\ r.status \in Pending => Class(r) = "open"
         /\ r.status \in Closed => Class(r) = "closed"
  BY DEF Class, Pending, Closed

\* The step is about order o alone.
About(o) ==
  \A u \in Orders \ {o} : order'[u] = order[u] /\ chain'[u] = chain[u] /\ (tick'.on = u <=> tick.on = u)

LEMMA MapsMove ==
  ASSUME NEW o \in Orders, About(o)
  PROVE  /\ States' = [States EXCEPT ![o] = Class(order'[o])]
         /\ BookedMap' = [BookedMap EXCEPT ![o] = Booked(order'[o], chain'[o])]
         /\ ExecutedMap' = [ExecutedMap EXCEPT ![o] = chain'[o].fill]
         /\ OverMap' = [OverMap EXCEPT ![o] = Done(o, order'[o], chain'[o], tick')]
<1>1. \A u \in Orders : Class(order'[u]) = IF u = o THEN Class(order'[o]) ELSE Class(order[u])
  BY DEF About
<1>2. \A u \in Orders : Booked(order'[u], chain'[u])
                          = IF u = o THEN Booked(order'[o], chain'[o]) ELSE Booked(order[u], chain[u])
  BY DEF About
<1>3. \A u \in Orders : chain'[u].fill = IF u = o THEN chain'[o].fill ELSE chain[u].fill
  BY DEF About
<1>4. \A u \in Orders : Done(u, order'[u], chain'[u], tick')
                          = IF u = o THEN Done(o, order'[o], chain'[o], tick')
                            ELSE Done(u, order[u], chain[u], tick)
  BY DEF About, Done
<1>5. States' = [States EXCEPT ![o] = Class(order'[o])]
  BY <1>1 DEF States
<1>6. BookedMap' = [BookedMap EXCEPT ![o] = Booked(order'[o], chain'[o])]
  BY <1>2 DEF BookedMap
<1>7. ExecutedMap' = [ExecutedMap EXCEPT ![o] = chain'[o].fill]
  BY <1>3 DEF ExecutedMap
<1>8. OverMap' = [OverMap EXCEPT ![o] = Done(o, order'[o], chain'[o], tick')]
  BY <1>4 DEF OverMap
<1>9. QED
  BY <1>5, <1>6, <1>7, <1>8

LEMMA MapsAt ==
  ASSUME NEW o \in Orders
  PROVE  /\ States[o] = Class(order[o]) /\ BookedMap[o] = Booked(order[o], chain[o])
         /\ ExecutedMap[o] = chain[o].fill /\ OverMap[o] = Done(o, order[o], chain[o], tick)
         /\ [States EXCEPT ![o] = Class(order[o])] = States
         /\ [BookedMap EXCEPT ![o] = Booked(order[o], chain[o])] = BookedMap
         /\ [ExecutedMap EXCEPT ![o] = chain[o].fill] = ExecutedMap
         /\ [OverMap EXCEPT ![o] = Done(o, order[o], chain[o], tick)] = OverMap
<1>1. /\ States[o] = Class(order[o]) /\ [States EXCEPT ![o] = Class(order[o])] = States
  BY DEF States
<1>2. /\ BookedMap[o] = Booked(order[o], chain[o])
      /\ [BookedMap EXCEPT ![o] = Booked(order[o], chain[o])] = BookedMap
  BY DEF BookedMap
<1>3. /\ ExecutedMap[o] = chain[o].fill /\ [ExecutedMap EXCEPT ![o] = chain[o].fill] = ExecutedMap
  BY DEF ExecutedMap
<1>4. /\ OverMap[o] = Done(o, order[o], chain[o], tick)
      /\ [OverMap EXCEPT ![o] = Done(o, order[o], chain[o], tick)] = OverMap
  BY DEF OverMap
<1>5. QED
  BY <1>1, <1>2, <1>3, <1>4

LEMMA Stutters ==
  ASSUME NEW o \in Orders, About(o), Class(order'[o]) = Class(order[o]),
         Booked(order'[o], chain'[o]) = Booked(order[o], chain[o]),
         chain'[o].fill = chain[o].fill,
         Done(o, order'[o], chain'[o], tick') = Done(o, order[o], chain[o], tick)
  PROVE  UNCHANGED JournalVars
<1>1. States' = States /\ BookedMap' = BookedMap /\ ExecutedMap' = ExecutedMap /\ OverMap' = OverMap
  BY MapsMove, MapsAt
<1>2. QED
  BY <1>1 DEF JournalVars

LEMMA Executes ==
  ASSUME NEW o \in Orders, About(o), Class(order'[o]) = Class(order[o]),
         order[o] \in OrderRow, order[o].status # "absent", order[o].status # "confirmed",
         order'[o].status # "confirmed",
         ~Done(o, order[o], chain[o], tick), Done(o, order'[o], chain'[o], tick'),
         chain[o].fill = 0, chain'[o].fill \in 0..MaxQty
  PROVE  Journal!Next
<1>1. States[o] # "none" /\ ~OverMap[o] /\ ExecutedMap[o] = 0
  BY MapsAt, RowShape, Classes
<1>2. UNCHANGED <<States, BookedMap>>
  <2>1. Booked(order'[o], chain'[o]) = Booked(order[o], chain[o])
    BY DEF Booked
  <2>2. QED
    BY <2>1, MapsMove, MapsAt
<1>3. \E n \in ExecutedMap[o]..MaxQty : ExecutedMap' = [ExecutedMap EXCEPT ![o] = n]
  BY <1>1, MapsMove
<1>4. \E b \in BOOLEAN : OverMap' = [OverMap EXCEPT ![o] = b]
  <2>1. Done(o, order'[o], chain'[o], tick') \in BOOLEAN
    BY DEF Done
  <2>2. QED
    BY <2>1, MapsMove
<1>5. Journal!Execute(o)
  BY <1>1, <1>2, <1>3, <1>4
     DEF Journal!Execute, States, Class, BookedMap, Booked, ExecutedMap, OverMap, Done
<1>6. QED
  BY <1>5 DEF Journal!Next

\* The order closes with all that was executed booked.
LEMMA Books ==
  ASSUME NEW o \in Orders, About(o), chain' = chain, order[o].status \in Pending,
         order'[o].status \in Closed, Done(o, order[o], chain[o], tick),
         Done(o, order'[o], chain'[o], tick'), chain[o].fill \in Nat,
         Booked(order'[o], chain'[o]) = chain[o].fill
  PROVE  Journal!Next
<1>1. States[o] = "open" /\ BookedMap[o] = 0 /\ ExecutedMap[o] = chain[o].fill /\ OverMap[o]
  BY MapsAt, Classes DEF Booked, Pending
<1>2. States' = [States EXCEPT ![o] = "closed"]
  BY MapsMove, Classes
<1>3. BookedMap' = [BookedMap EXCEPT ![o] = chain[o].fill] /\ BookedMap'[o] = ExecutedMap[o]
  BY <1>1, MapsMove DEF BookedMap
<1>4. \E n \in BookedMap[o]..ExecutedMap[o] : BookedMap' = [BookedMap EXCEPT ![o] = n]
  <2>1. chain[o].fill \in BookedMap[o]..ExecutedMap[o]
    BY <1>1
  <2>2. QED
    BY <1>3, <2>1
<1>5. UNCHANGED <<ExecutedMap, OverMap>>
  <2>1. Done(o, order'[o], chain'[o], tick') = Done(o, order[o], chain[o], tick)
    BY DEF Done
  <2>2. QED
    BY <2>1, MapsMove, MapsAt
<1>6. Journal!Book(o)
  BY <1>1, <1>2, <1>3, <1>4, <1>5
     DEF Journal!Book, States, Class, BookedMap, Booked, ExecutedMap, OverMap, Done
<1>7. QED
  BY <1>6 DEF Journal!Next

LEMMA Withdraws ==
  ASSUME NEW o \in Orders, About(o), chain' = chain, order[o].status \in Pending,
         order'[o].status = "failed", ~Done(o, order[o], chain[o], tick),
         Done(o, order'[o], chain'[o], tick'), chain[o].fill = 0
  PROVE  Journal!Next
<1>1. States[o] = "open" /\ ExecutedMap[o] = 0 /\ ~OverMap[o]
  BY MapsAt, Classes
<1>2. States' = [States EXCEPT ![o] = "closed"]
  BY MapsMove, Classes DEF Closed
<1>3. UNCHANGED <<BookedMap, ExecutedMap>>
  <2>1. Booked(order'[o], chain'[o]) = Booked(order[o], chain[o])
    BY DEF Booked
  <2>2. QED
    BY <2>1, MapsMove, MapsAt
<1>4. OverMap' = [OverMap EXCEPT ![o] = TRUE]
  <2>1. Done(o, order'[o], chain'[o], tick') = TRUE
    BY DEF Done
  <2>2. QED
    BY <2>1, MapsMove
<1>5. Journal!Withdraw(o)
  BY <1>1, <1>2, <1>3, <1>4
     DEF Journal!Withdraw, States, Class, BookedMap, Booked, ExecutedMap, OverMap, Done
<1>6. QED
  BY <1>5 DEF Journal!Next

LEMMA Reserves ==
  ASSUME NEW o \in Orders, About(o), chain' = chain, order[o].status = "absent",
         order'[o].status = "submitting", chain[o].swap = "none", tick'.on = o
  PROVE  Journal!Next
<1>1. States[o] = "none"
  BY MapsAt, Classes
<1>2. States' = [States EXCEPT ![o] = "open"]
  BY MapsMove, Classes DEF Pending
<1>3. UNCHANGED <<BookedMap, ExecutedMap, OverMap>>
  <2>1. Booked(order'[o], chain'[o]) = Booked(order[o], chain[o])
    BY DEF Booked
  <2>2. Done(o, order'[o], chain'[o], tick') = Done(o, order[o], chain[o], tick)
    BY DEF Done
  <2>3. QED
    BY <2>1, <2>2, MapsMove, MapsAt
<1>4. Journal!Reserve(o)
  BY <1>1, <1>2, <1>3
     DEF Journal!Reserve, States, Class, BookedMap, Booked, ExecutedMap, OverMap, Done
<1>5. QED
  BY <1>4 DEF Journal!Next

\* The tick alone moves, and stays with its order.
LEMMA NothingOnRecord ==
  ASSUME UNCHANGED <<order, chain>>, tick'.on = tick.on
  PROVE  UNCHANGED JournalVars
  BY DEF JournalVars, States, BookedMap, ExecutedMap, OverMap, Done

\* A tick leaves its order, or had none, and nothing else happens.
LEMMA LeavesOrder ==
  ASSUME IInv, UNCHANGED <<order, chain>>, tick'.on = None
  PROVE  [Journal!Next]_JournalVars
<1>1. CASE tick.on = None
  BY <1>1, NothingOnRecord
<1>2. CASE tick.on # None
  <2>1. PICK o \in Orders : o = tick.on
    BY <1>2, Facts, TickShape
  <2>2. /\ tick.at \in Executing /\ order[o] \in Rows /\ order[o].status \in Pending
        /\ chain[o] \in ChainRow /\ Fits(o, order[o], chain[o], tick)
    <3>1. tick.at \in Executing
      BY <2>1, Facts DEF Doing
    <3>2. QED
      BY <2>1, <3>1, AtWork
  <2>3. About(o) /\ tick'.on # o
    BY <2>1, Constants DEF About
  <2>4. chain[o].swap \in SwapState /\ order[o].status # "absent" /\ order[o].status # "confirmed"
        /\ order[o] \in OrderRow
    BY <2>2, ChainShape, RowsAreRows DEF Pending
  <2>5. CASE chain[o].swap = "none"
    <3>1. ~Done(o, order[o], chain[o], tick) /\ Done(o, order'[o], chain'[o], tick')
      BY <2>1, <2>3, <2>4, <2>5 DEF Done
    <3>2. chain[o].fill = 0 /\ chain'[o].fill \in 0..MaxQty
      BY <2>2, <2>5, ChainShape DEF Fits
    <3>3. order' = order
      OBVIOUS
    <3>4. QED
      BY <2>3, <2>4, <3>1, <3>2, <3>3, Executes
  <2>6. CASE chain[o].swap # "none"
    <3>1. Done(o, order'[o], chain'[o], tick') = Done(o, order[o], chain[o], tick)
      BY <2>6 DEF Done
    <3>2. Class(order'[o]) = Class(order[o]) /\ chain'[o].fill = chain[o].fill
          /\ Booked(order'[o], chain'[o]) = Booked(order[o], chain[o])
      OBVIOUS
    <3>3. QED
      BY <2>3, <3>1, <3>2, Stutters
  <2>7. QED
    BY <2>5, <2>6
<1>3. QED
  BY <1>1, <1>2

LEMMA SignIsSilent ==
  ASSUME IInv, SignApproval \/ SignSwap
  PROVE  UNCHANGED JournalVars
<1>0. SignApproval \/ SignSwap
  OBVIOUS
<1>1. tick.at \in Executing /\ chain' = chain /\ tick'.on = tick.on
  <2>1. tick \in TickRow
    BY Facts
  <2>2. QED
    BY <1>0, <2>1 DEF SignApproval, SignSwap, Executing, TickRow
<1>2. PICK o \in Orders : o = tick.on
  BY <1>1, AtWork
<1>3. order[o] \in Rows /\ order[o].status \in Pending /\ order \in [Orders -> OrderRow]
  BY <1>1, <1>2, AtWork, Facts
<1>4. order'[o].status \in Pending /\ \A u \in Orders \ {o} : order'[u] = order[u]
  <2>1. CASE SignApproval
    <3>1. order' = [order EXCEPT ![o] = [order[o] EXCEPT !.approval = TRUE]]
      BY <1>2, <2>1 DEF SignApproval
    <3>2. order'[o].status = order[o].status
      BY <1>3, <3>1 DEF Rows
    <3>3. QED
      BY <1>3, <3>1, <3>2
  <2>2. CASE SignSwap
    <3>1. order' = [order EXCEPT ![o] = [order[o] EXCEPT !.hash = TRUE, !.status = "pending"]]
      BY <1>2, <1>3, <2>2 DEF SignSwap, Sign
    <3>2. order'[o].status = "pending"
      BY <1>3, <3>1 DEF Rows
    <3>3. QED
      BY <1>3, <3>1, <3>2 DEF Pending
  <2>3. QED
    BY <1>0, <2>1, <2>2
<1>5. About(o)
  BY <1>1, <1>4 DEF About
<1>6. Class(order'[o]) = Class(order[o]) /\ Booked(order'[o], chain'[o]) = Booked(order[o], chain[o])
      /\ chain'[o].fill = chain[o].fill
  BY <1>1, <1>3, <1>4, Classes DEF Booked, Pending
<1>7. Done(o, order'[o], chain'[o], tick') = Done(o, order[o], chain[o], tick)
  BY <1>1, <1>3, <1>4 DEF Done, Pending
<1>8. QED
  BY <1>5, <1>6, <1>7, Stutters

LEMMA BroadcastIsSilent ==
  ASSUME IInv, BroadcastApproval \/ BroadcastSwap
  PROVE  UNCHANGED JournalVars
<1>0. BroadcastApproval \/ BroadcastSwap
  OBVIOUS
<1>1. tick.at \in Executing /\ tick.at # "settle" /\ order' = order /\ tick'.on = tick.on
  <2>1. tick \in TickRow
    BY Facts
  <2>2. QED
    BY <1>0, <2>1 DEF BroadcastApproval, BroadcastSwap, Executing, TickRow
<1>2. PICK o \in Orders : o = tick.on
  BY <1>1, AtWork
<1>3. chain[o] \in ChainRow /\ chain \in [Orders -> ChainRow] /\ chain[o].swap = "none"
  BY <1>1, <1>2, AtWork, Facts DEF Doing
<1>4. /\ chain'[o].swap \in {"none", "sent"} /\ chain'[o].fill = chain[o].fill
      /\ \A u \in Orders \ {o} : chain'[u] = chain[u]
  <2>1. CASE BroadcastApproval
    <3>1. chain' = [chain EXCEPT ![o] = [chain[o] EXCEPT !.approval = "sent"]]
      BY <1>2, <2>1 DEF BroadcastApproval
    <3>2. QED
      BY <1>3, <3>1 DEF ChainRow
  <2>2. CASE BroadcastSwap
    <3>1. chain' = [chain EXCEPT ![o] = [chain[o] EXCEPT !.swap = "sent"]]
      BY <1>2, <2>2 DEF BroadcastSwap
    <3>2. QED
      BY <1>3, <3>1 DEF ChainRow
  <2>3. QED
    BY <1>0, <2>1, <2>2
<1>5. About(o)
  BY <1>1, <1>4 DEF About
<1>6. Class(order'[o]) = Class(order[o]) /\ Booked(order'[o], chain'[o]) = Booked(order[o], chain[o])
  BY <1>1, <1>4 DEF Booked
<1>7. Done(o, order'[o], chain'[o], tick') = Done(o, order[o], chain[o], tick)
  BY <1>1, <1>2, <1>3, <1>4 DEF Done
<1>8. QED
  BY <1>4, <1>5, <1>6, <1>7, Stutters

LEMMA FailsInJournal ==
  ASSUME IInv, ExecuteFails
  PROVE  [Journal!Next]_JournalVars
<1>1. tick.at \in Executing /\ Fails /\ chain' = chain
  BY DEF ExecuteFails, Fails
<1>2. PICK o \in Orders : o = tick.on
  BY <1>1, AtWork
<1>3. /\ order[o] \in Rows /\ order[o].status \in Pending /\ order \in [Orders -> OrderRow]
      /\ Fits(o, order[o], chain[o], tick) /\ chain[o] \in ChainRow
      /\ Doing(tick, order, chain) /\ tick \in TickRow
  BY <1>1, <1>2, AtWork, Facts
<1>4. tick'.on = None
  <2>1. tick' = IF tick.batch THEN [tick EXCEPT !.at = "loop", !.on = None] ELSE Idle
    BY <1>1 DEF Fails
  <2>2. QED
    BY <1>3, <2>1, IdleShape DEF TickRow
<1>5. order' = [order EXCEPT ![o] = [order[o] EXCEPT !.status = Outcome]]
  BY <1>1, <1>2 DEF Fails
<1>6. order'[o].status = Outcome /\ \A u \in Orders \ {o} : order'[u] = order[u]
  BY <1>3, <1>5 DEF Rows
<1>7. About(o) /\ tick'.on # o
  BY <1>1, <1>2, <1>4, <1>6, Constants DEF About
<1>8. order[o].status # "absent" /\ order[o].status # "confirmed" /\ chain[o].swap \in SwapState
  BY <1>3, ChainShape DEF Pending
<1>9. CASE Outcome = "failed"
  <2>1. chain[o].swap = "none" /\ chain[o].fill = 0
    <3>1. ~tick.attempted
      BY <1>9 DEF Outcome
    <3>2. QED
      BY <1>1, <1>2, <1>3, <3>1 DEF Doing, Fits
  <2>2. ~Done(o, order[o], chain[o], tick) /\ Done(o, order'[o], chain'[o], tick')
    BY <1>1, <1>2, <1>6, <1>7, <1>9, <2>1 DEF Done
  <2>3. order'[o].status = "failed"
    BY <1>6, <1>9
  <2>4. QED
    BY <1>1, <1>3, <1>7, <2>1, <2>2, <2>3, Withdraws
<1>10. CASE Outcome = "uncertain"
  <2>1. order'[o].status \in Pending /\ order'[o].status # "confirmed" /\ order'[o].status # "absent"
    BY <1>6, <1>10 DEF Pending
  <2>2. Class(order'[o]) = Class(order[o]) /\ Booked(order'[o], chain'[o]) = Booked(order[o], chain[o])
        /\ chain'[o].fill = chain[o].fill
    BY <1>1, <1>3, <1>8, <2>1, Classes DEF Booked
  <2>3. CASE chain[o].swap = "none"
    <3>1. ~Done(o, order[o], chain[o], tick) /\ Done(o, order'[o], chain'[o], tick')
      BY <1>1, <1>2, <1>7, <2>1, <2>3 DEF Done
    <3>2. chain[o].fill = 0 /\ chain'[o].fill \in 0..MaxQty
      BY <1>1, <1>3, <2>3, ChainShape DEF Fits
    <3>3. order[o] \in OrderRow
      BY <1>3, RowsAreRows
    <3>4. QED
      BY <1>7, <1>8, <2>1, <2>2, <3>1, <3>2, <3>3, Executes
  <2>4. CASE chain[o].swap # "none"
    <3>1. Done(o, order'[o], chain'[o], tick') = Done(o, order[o], chain[o], tick)
      BY <1>1, <2>4 DEF Done
    <3>2. QED
      BY <1>7, <2>2, <3>1, Stutters
  <2>5. QED
    BY <2>3, <2>4
<1>11. QED
  BY <1>9, <1>10 DEF Outcome

\* The row of o is closed with its receipt.
LEMMA SettlesInJournal ==
  ASSUME IInv, NEW o \in Orders, tick.on \in {o, None}, tick'.on = None, chain' = chain,
         order[o].status \in Pending, tick.on = o => chain[o].swap # "none",
         ApplyFill(o) \/ FeeOnly(o)
  PROVE  Journal!Next
<1>0. ApplyFill(o) \/ FeeOnly(o)
  OBVIOUS
<1>1. /\ order \in [Orders -> OrderRow] /\ order[o] \in OrderRow /\ chain[o] \in ChainRow
      /\ Fits(o, order[o], chain[o], tick)
  BY Facts DEF Fitting
<1>2. order[o] \in Rows /\ order[o].status # "absent" /\ chain[o].fill \in Nat
  BY <1>1, RowShape, ChainShape DEF Pending
<1>3. /\ order'[o].status \in {"confirmed", "fee_only"}
      /\ \A u \in Orders \ {o} : order'[u] = order[u]
      /\ order'[o].status = "confirmed" => chain[o].swap = "filled"
      /\ order'[o].status = "fee_only" =>
           chain[o].fill = 0 /\ chain[o].swap \in {"none", "reverted"}
  <2>1. CASE ApplyFill(o)
    <3>1. /\ order' = [order EXCEPT ![o] = [order[o] EXCEPT !.status = "confirmed"]]
          /\ chain[o].swap = "filled"
      BY <2>1 DEF ApplyFill
    <3>2. order'[o].status = "confirmed"
      BY <1>1, <1>2, <3>1 DEF Rows
    <3>3. QED
      BY <1>1, <3>1, <3>2
  <2>2. CASE FeeOnly(o)
    <3>1. /\ order' = [order EXCEPT ![o] = [order[o] EXCEPT !.status = "fee_only"]]
          /\ OnlyFees(o)
      BY <2>2 DEF FeeOnly
    <3>2. order'[o].status = "fee_only"
      BY <1>1, <1>2, <3>1 DEF Rows
    <3>3. chain[o].fill = 0 /\ chain[o].swap \in {"none", "reverted"}
      BY <1>1, <3>1 DEF OnlyFees, Fits
    <3>4. QED
      BY <1>1, <3>1, <3>2, <3>3
  <2>3. QED
    BY <1>0, <2>1, <2>2
<1>4. About(o)
  BY <1>3, Constants DEF About
<1>5. Done(o, order[o], chain[o], tick)
  <2>1. chain[o].swap = "none" => tick.on # o
    OBVIOUS
  <2>2. QED
    BY <1>2, <1>3, <2>1 DEF Done
<1>6. Done(o, order'[o], chain'[o], tick')
  <2>1. tick'.on # o
    BY Constants
  <2>2. QED
    BY <1>3, <2>1 DEF Done
<1>7. Booked(order'[o], chain'[o]) = chain[o].fill
  BY <1>3 DEF Booked
<1>8. order'[o].status \in Closed
  BY <1>3 DEF Closed
<1>9. QED
  BY <1>2, <1>4, <1>5, <1>6, <1>7, <1>8, Books

LEMMA ReconcileInJournal ==
  ASSUME IInv, NEW o \in Orders, ReconcileFinal(o)
  PROVE  Journal!Next
<1>1. /\ tick.at = "reconcile" /\ o \in tick.todo /\ (ApplyFill(o) \/ FeeOnly(o))
      /\ tick' = [tick EXCEPT !.todo = @ \ {o}] /\ chain' = chain
  BY DEF ReconcileFinal
<1>2. tick \in TickRow /\ tick.on = None /\ order[o].status \in Pending
  BY <1>1, Facts, OnNone DEF Executing, Fitting, Fits
<1>3. tick'.on = None /\ tick.on # o
  BY <1>1, <1>2, Constants DEF TickRow
<1>4. QED
  BY <1>1, <1>2, <1>3, SettlesInJournal

LEMMA SettleInJournal ==
  ASSUME IInv, SettleNow
  PROVE  [Journal!Next]_JournalVars
<1>1. /\ tick.at = "settle" /\ tick.at \in Executing /\ chain' = chain
      /\ tick' = [tick EXCEPT !.at = "loop", !.on = None]
      /\ ApplyFill(tick.on) \/ FeeOnly(tick.on) \/ UNCHANGED <<order, held, posn>>
  BY DEF SettleNow, Executing
<1>2. PICK o \in Orders : o = tick.on
  BY <1>1, AtWork
<1>3. /\ order[o].status \in Pending /\ chain[o].swap # "none" /\ tick \in TickRow
  BY <1>1, <1>2, AtWork, Facts DEF Doing
<1>4. tick'.on = None
  BY <1>1, <1>3 DEF TickRow
<1>5. CASE ApplyFill(o) \/ FeeOnly(o)
  <2>1. Journal!Next
    BY <1>1, <1>2, <1>3, <1>4, <1>5, SettlesInJournal
  <2>2. QED
    BY <2>1
<1>6. CASE UNCHANGED <<order, held, posn>>
  BY <1>1, <1>4, <1>6, LeavesOrder
<1>7. QED
  BY <1>1, <1>2, <1>5, <1>6

LEMMA ReserveInJournal ==
  ASSUME IInv, NEW i \in Intent, NEW o \in Orders, Reserve(i, o)
  PROVE  Journal!Next
<1>1. /\ tick.at = "loop" /\ order[o].status = "absent" /\ chain' = chain
      /\ order' = [order EXCEPT ![o] = [NoOrder EXCEPT !.status = "submitting", !.intent = i]]
      /\ tick' = [tick EXCEPT !.at = "prepare", !.intents = @ \ {i}, !.on = o, !.attempted = FALSE]
  <2>1. o >= o
    BY DEF Orders
  <2>2. QED
    BY <2>1 DEF Reserve
<1>2. /\ tick.on = None /\ tick \in TickRow /\ order \in [Orders -> OrderRow]
      /\ Fits(o, order[o], chain[o], tick)
  BY <1>1, Facts, OnNone DEF Executing, Fitting
<1>3. tick'.on = o
  BY <1>1, <1>2 DEF TickRow
<1>4. order'[o].status = "submitting" /\ \A u \in Orders \ {o} : order'[u] = order[u]
  BY <1>1, <1>2 DEF NoOrder
<1>5. About(o)
  BY <1>1, <1>2, <1>3, <1>4, Constants DEF About
<1>6. chain[o].swap = "none"
  BY <1>1, <1>2 DEF Fits
<1>7. QED
  BY <1>1, <1>3, <1>4, <1>5, <1>6, Reserves

LEMMA ChainInJournal ==
  ASSUME IInv, NEW o \in Orders, MineApproval(o) \/ FinalizeSwap(o)
  PROVE  [Journal!Next]_JournalVars
<1>0. MineApproval(o) \/ FinalizeSwap(o)
  OBVIOUS
<1>1. /\ order' = order /\ tick' = tick /\ chain \in [Orders -> ChainRow] /\ chain[o] \in ChainRow
      /\ order[o] \in OrderRow /\ Fits(o, order[o], chain[o], tick)
  BY Facts DEF MineApproval, FinalizeSwap, Fitting
<1>2. CASE MineApproval(o)
  <2>1. PICK s : chain' = [chain EXCEPT ![o] = [chain[o] EXCEPT !.approval = s]]
    BY <1>2 DEF MineApproval
  <2>2. /\ chain'[o].swap = chain[o].swap /\ chain'[o].fill = chain[o].fill
        /\ \A u \in Orders \ {o} : chain'[u] = chain[u]
    BY <1>1, <2>1 DEF ChainRow
  <2>3. About(o)
    BY <1>1, <2>2 DEF About
  <2>4. Booked(order'[o], chain'[o]) = Booked(order[o], chain[o])
        /\ Done(o, order'[o], chain'[o], tick') = Done(o, order[o], chain[o], tick)
        /\ Class(order'[o]) = Class(order[o])
    BY <1>1, <2>2 DEF Booked, Done
  <2>5. QED
    BY <2>2, <2>3, <2>4, Stutters
<1>3. CASE FinalizeSwap(o)
  <2>1. /\ order[o].status # "absent" /\ order[o].status # "confirmed" /\ chain[o].fill = 0
        /\ chain[o].swap = "sent"
    BY <1>1, <1>3 DEF FinalizeSwap, Fits
  <2>2. order[o].intent.qty \in 1..MaxQty
    BY <1>1, <2>1, RowShape, RowFields
  <2>3. /\ chain'[o].swap \in {"filled", "reverted", "odd"} /\ chain'[o].fill \in 0..MaxQty
        /\ \A u \in Orders \ {o} : chain'[u] = chain[u]
    <3>1. ASSUME NEW s \in {"reverted", "odd"}, chain' = [chain EXCEPT ![o].swap = s]
          PROVE  /\ chain'[o].swap \in {"filled", "reverted", "odd"} /\ chain'[o].fill \in 0..MaxQty
                 /\ \A u \in Orders \ {o} : chain'[u] = chain[u]
      <4>1. chain' = [chain EXCEPT ![o] = [chain[o] EXCEPT !.swap = s]]
        BY <1>1, <3>1
      <4>2. chain'[o].swap = s /\ chain'[o].fill = 0
        BY <1>1, <2>1, <4>1 DEF ChainRow
      <4>3. QED
        BY <1>1, <4>1, <4>2, Constants
    <3>2. ASSUME NEW n \in 1..order[o].intent.qty,
                 chain' = [chain EXCEPT ![o].swap = "filled", ![o].fill = n]
          PROVE  /\ chain'[o].swap \in {"filled", "reverted", "odd"} /\ chain'[o].fill \in 0..MaxQty
                 /\ \A u \in Orders \ {o} : chain'[u] = chain[u]
      <4>1. chain' = [chain EXCEPT ![o] = [chain[o] EXCEPT !.swap = "filled", !.fill = n]]
        BY <1>1, <3>2
      <4>2. chain'[o].swap = "filled" /\ chain'[o].fill = n
        BY <1>1, <4>1 DEF ChainRow
      <4>3. n \in 0..MaxQty
        BY <2>2, Constants
      <4>4. \A u \in Orders \ {o} : chain'[u] = chain[u]
        BY <1>1, <4>1
      <4>5. QED
        BY <4>2, <4>3, <4>4
    <3>3. QED
      BY <1>3, <3>1, <3>2 DEF FinalizeSwap
  <2>4. About(o)
    BY <1>1, <2>3 DEF About
  <2>5. ~Done(o, order[o], chain[o], tick) /\ Done(o, order'[o], chain'[o], tick')
    BY <2>1, <2>3 DEF Done
  <2>6. Journal!Next
    BY <1>1, <2>1, <2>3, <2>4, <2>5, Executes
  <2>7. QED
    BY <2>6
<1>4. QED
  BY <1>0, <1>2, <1>3

\* The rest of a tick, and what people do.
LEMMA OthersAreSilent ==
  ASSUME IInv,
         \/ Pause \/ Activate \/ StartTick \/ CheckPortfolio \/ Evaluate \/ PollApproval
         \/ (\E o \in Orders : ReconcileNothing(o)) \/ (\E i \in Intent : SkipIntent(i))
  PROVE  UNCHANGED JournalVars
<1>1. UNCHANGED <<order, chain>>
  BY DEF Pause, Activate, StartTick, CheckPortfolio, Evaluate, PollApproval, ReconcileNothing, SkipIntent
<1>2. tick'.on = tick.on
  <2>1. tick \in TickRow
    BY Facts
  <2>2. CASE Pause \/ Activate
    BY <2>2 DEF Pause, Activate
  <2>3. CASE StartTick
    <3>1. tick.on = None
      BY <2>3, OnNone DEF StartTick, Executing
    <3>2. QED
      BY <2>3, <3>1, IdleShape DEF StartTick, Idle
  <2>4. CASE CheckPortfolio \/ Evaluate \/ PollApproval
    BY <2>1, <2>4 DEF CheckPortfolio, Evaluate, PollApproval, TickRow
  <2>5. ASSUME NEW o \in Orders, ReconcileNothing(o) PROVE tick'.on = tick.on
    BY <2>1, <2>5 DEF ReconcileNothing, TickRow
  <2>6. ASSUME NEW i \in Intent, SkipIntent(i) PROVE tick'.on = tick.on
    BY <2>1, <2>6 DEF SkipIntent, TickRow
  <2>7. QED
    BY <2>2, <2>3, <2>4, <2>5, <2>6
<1>3. QED
  BY <1>1, <1>2, NothingOnRecord

LEMMA EndInJournal ==
  ASSUME IInv, FinishTick \/ Stop
  PROVE  [Journal!Next]_JournalVars
<1>1. UNCHANGED <<order, chain>> /\ tick' = Idle
  BY DEF FinishTick, Stop
<1>2. tick'.on = None
  BY <1>1, IdleShape
<1>3. QED
  BY <1>1, <1>2, LeavesOrder

LEMMA JournalStep ==
  ASSUME IInv, [Next]_vars
  PROVE  [Journal!Next]_JournalVars
<1>1. CASE UNCHANGED vars
  <2>1. UNCHANGED <<order, chain>> /\ tick'.on = tick.on
    BY <1>1 DEF vars
  <2>2. QED
    BY <2>1, NothingOnRecord
<1>2. CASE Pause \/ Activate \/ StartTick
  BY <1>2, OthersAreSilent
<1>3. CASE Stop
  BY <1>3, EndInJournal
<1>4. CASE Chain
  BY <1>4, ChainInJournal DEF Chain
<1>5. CASE Reconcile
  <2>1. ASSUME NEW o \in Orders, ReconcileFinal(o) PROVE [Journal!Next]_JournalVars
    BY <2>1, ReconcileInJournal
  <2>2. ASSUME NEW o \in Orders, ReconcileNothing(o) PROVE [Journal!Next]_JournalVars
    BY <2>2, OthersAreSilent
  <2>3. QED
    BY <1>5, <2>1, <2>2 DEF Reconcile
<1>6. CASE Decide
  <2>1. CASE CheckPortfolio \/ Evaluate
    BY <2>1, OthersAreSilent
  <2>2. CASE FinishTick
    BY <2>2, EndInJournal
  <2>3. ASSUME NEW i \in Intent, SkipIntent(i) PROVE [Journal!Next]_JournalVars
    BY <2>3, OthersAreSilent
  <2>4. ASSUME NEW i \in Intent, NEW o \in Orders, Reserve(i, o) PROVE [Journal!Next]_JournalVars
    BY <2>4, ReserveInJournal
  <2>5. QED
    BY <1>6, <2>1, <2>2, <2>3, <2>4 DEF Decide
<1>7. CASE Execute
  <2>1. CASE SignApproval \/ SignSwap
    BY <2>1, SignIsSilent
  <2>2. CASE BroadcastApproval \/ BroadcastSwap
    BY <2>2, BroadcastIsSilent
  <2>3. CASE PollApproval
    BY <2>3, OthersAreSilent
  <2>4. CASE SettleNow
    BY <2>4, SettleInJournal
  <2>5. CASE ExecuteFails
    BY <2>5, FailsInJournal
  <2>6. QED
    BY <1>7, <2>1, <2>2, <2>3, <2>4, <2>5 DEF Execute
<1>8. QED
  BY <1>1, <1>2, <1>3, <1>4, <1>5, <1>6, <1>7 DEF Next, TickStep

\* ImplementsJournal: through crashes, slow receipts and failed requests, the tick of
\* a strategy keeps the journal that OrderJournal promises: only finalized fills are
\* booked, once, and an order is closed when its swap can no longer be mined.
THEOREM JournalRefinement == Spec => ImplementsJournal
<1>1. Init => Journal!Init
  <2> SUFFICES ASSUME Init PROVE Journal!Init
    OBVIOUS
  <2>1. \A o \in Orders : /\ Class(order[o]) = "none" /\ Booked(order[o], chain[o]) = 0
                          /\ chain[o].fill = 0 /\ Done(o, order[o], chain[o], tick) = FALSE
    <3>1. \A o \in Orders : /\ order[o].status = "absent" /\ chain[o].swap = "none"
                            /\ chain[o].fill = 0
      BY DEF Init, NoOrder
    <3>2. \A o \in Orders : Class(order[o]) = "none"
      BY <3>1, Classes
    <3>3. \A o \in Orders : Booked(order[o], chain[o]) = 0 /\ chain[o].fill = 0
      BY <3>1 DEF Booked
    <3>4. \A o \in Orders : Done(o, order[o], chain[o], tick) = FALSE
      BY <3>1 DEF Done
    <3>5. QED
      BY <3>2, <3>3, <3>4
  <2>2. /\ States = [o \in Orders |-> "none"] /\ BookedMap = [o \in Orders |-> 0]
        /\ ExecutedMap = [o \in Orders |-> 0] /\ OverMap = [o \in Orders |-> FALSE]
    BY <2>1 DEF States, BookedMap, ExecutedMap, OverMap
  <2>3. QED
    BY <2>2 DEF Journal!Init, States, Class, BookedMap, Booked, ExecutedMap, OverMap, Done
<1>2. IInv /\ [Next]_vars => [Journal!Next]_(Journal!vars)
  BY JournalStep DEF Journal!vars, JournalVars, States, Class, BookedMap, Booked, ExecutedMap, OverMap, Done
<1>3. QED
  BY <1>1, <1>2, Invariance, PTL DEF Spec, ImplementsJournal, Journal!Spec

=============================================================================
