----------------------- MODULE PaymentOperationsProofs -----------------------
(***************************************************************************)
(* Proofs about SpendLedger, about PaymentOperations, which extends it,    *)
(* and about PaymentBudget, which meters both.                             *)
(*                                                                         *)
(* The ledger, for any set of reservations and any amounts: its types, no  *)
(* two refunds share a repayment, the committed amounts stay within the    *)
(* cap, a closed period only shrinks, the latch never drifts.  The sums    *)
(* are taken apart with SumTheorems.                                       *)
(*                                                                         *)
(* The operations, for any number of operations, reservations, callers and *)
(* workers: the types, and that a paid action never has two live           *)
(* authorizations, never loses one it released to the chain, and is        *)
(* charged at most once.  With PaymentBudget: the money that left in a     *)
(* period stays within the greatest cap the period ran under.              *)
(*                                                                         *)
(* None of them is inductive.  For the operations IInv adds what the code  *)
(* relies on: an operation gets one row, only its sole owner may still add *)
(* it, headers are saved before disclosure, finalized facts do not change, *)
(* evidence in a worker's hands stays true, and the operations of one      *)
(* action form a line whose superseded members hold nothing but released   *)
(* rows.                                                                   *)
(***************************************************************************)
EXTENDS PaymentBudget, SumTheorems, TLAPS

-----------------------------------------------------------------------------
(* The ledger *)

\* A refund is only ever watched for a settled row that moved money.
WatchedIsSettled ==
  \A r \in Resv : refund[r].state # "none" =>
    pay[r].state = "settled" /\ pay[r].amount > 0

CreditInv == LedgerTypeOK /\ WatchedIsSettled /\ CreditOnce

-----------------------------------------------------------------------------
(* Types *)

\* The tables start well typed.
LEMMA LedgerTypeInit == LedgerInit => LedgerTypeOK
<1> SUFFICES ASSUME LedgerInit PROVE LedgerTypeOK
  OBVIOUS
<1> USE LedgerAssumption DEF LedgerAssumption, LedgerInit
<1>1. pay \in [Resv -> PayRow]
  BY DEF PayRow
<1>2. refund \in [Resv -> RefundRow]
  BY DEF RefundRow, NoRefund
<1>3. transfer \in [Txs -> Amounts \cup {0}]
  OBVIOUS
<1>4. period \in 1..MaxPeriod
  OBVIOUS
<1>5. periodCap \in Caps \cup {NoCap} /\ configCap \in ConfigCaps /\ exhausted \in BOOLEAN
  OBVIOUS
<1>6. QED
  BY <1>1, <1>2, <1>3, <1>4, <1>5 DEF LedgerTypeOK

\* A new row is a live row.
LEMMA BookedType ==
  ASSUME LedgerTypeOK, NEW r \in Resv, NEW a \in Amounts
  PROVE  Booked(r, a, period) \in [Resv -> PayRow]
  BY DEF LedgerTypeOK, Booked, PayRow, LiveRow, Counting

\* Only live rows are corrected.
LEMMA LiveRowType ==
  ASSUME LedgerTypeOK, NEW r \in Resv, pay[r].state = "authorized"
  PROVE  /\ pay[r] \in LiveRow
         /\ [pay[r] EXCEPT !.state = "settled"] \in LiveRow
         /\ \A why \in Reasons \ {"none"} :
              [pay[r] EXCEPT !.state = "released", !.reason = why] \in ReleasedRow
<1>1. pay[r] \in LiveRow
  BY DEF LedgerTypeOK, PayRow, LiveRow, ReleasedRow, AbsentRow, Counting
<1>2. [pay[r] EXCEPT !.state = "settled"] \in LiveRow
  BY <1>1 DEF LiveRow, Counting
<1>3. ASSUME NEW why \in Reasons \ {"none"}
      PROVE  [pay[r] EXCEPT !.state = "released", !.reason = why] \in ReleasedRow
  BY <1>1 DEF LiveRow, ReleasedRow
<1>4. QED
  BY <1>1, <1>2, <1>3

\* Every transaction keeps the tables well typed.
LEMMA LedgerTypeStep ==
  LedgerTypeOK /\ [LedgerNext]_ledgerVars => LedgerTypeOK'
<1> SUFFICES ASSUME LedgerTypeOK, [LedgerNext]_ledgerVars
             PROVE  LedgerTypeOK'
  OBVIOUS
<1> USE LedgerAssumption DEF LedgerAssumption
<1>1. ASSUME NEW r \in Resv, NEW a \in Amounts, Reserve(r, a)
      PROVE  LedgerTypeOK'
  BY <1>1, BookedType DEF Reserve, LatchFor, LedgerTypeOK
<1>2. ASSUME NEW r \in Resv, ReleaseUnsigned(r)
      PROVE  LedgerTypeOK'
  <2>1. pay' \in [Resv -> PayRow]
    BY <1>2, LiveRowType DEF ReleaseUnsigned, LedgerTypeOK, PayRow, Reasons
  <2>2. exhausted' \in BOOLEAN
    BY <1>2 DEF ReleaseUnsigned, LedgerTypeOK
  <2>3. QED
    BY <1>2, <2>1, <2>2 DEF ReleaseUnsigned, LedgerTypeOK
<1>3. ASSUME NEW r \in Resv, Settle(r)
      PROVE  LedgerTypeOK'
  BY <1>3, LiveRowType DEF Settle, LedgerTypeOK, PayRow
<1>4. ASSUME NEW r \in Resv, NEW why \in EvidenceReasons, RecordReleased(r, why)
      PROVE  LedgerTypeOK'
  <2>1. pay' \in [Resv -> PayRow]
    BY <1>4, LiveRowType DEF RecordReleased, LedgerTypeOK, PayRow, Reasons, EvidenceReasons
  <2>2. exhausted' \in BOOLEAN
    BY <1>4 DEF RecordReleased, LedgerTypeOK
  <2>3. QED
    BY <1>4, <2>1, <2>2 DEF RecordReleased, LedgerTypeOK
<1>5. ASSUME NEW c \in Caps \cup {NoCap}, Reset(c)
      PROVE  LedgerTypeOK'
  <2>1. period' \in 1..MaxPeriod
    BY <1>5 DEF Reset, LedgerTypeOK
  <2>2. periodCap' \in Caps \cup {NoCap}
    BY <1>5 DEF Reset, LedgerTypeOK
  <2>3. QED
    BY <1>5, <2>1, <2>2 DEF Reset, LedgerTypeOK
<1>6. ASSUME NEW c \in ConfigCaps, Restart(c)
      PROVE  LedgerTypeOK'
  BY <1>6 DEF Restart, LedgerTypeOK
<1>7. ASSUME NEW rs \in SUBSET Resv, Watch(rs)
      PROVE  LedgerTypeOK'
  BY <1>7 DEF Watch, Watched, LedgerTypeOK, RefundRow
<1>8. ASSUME NEW r \in Resv, Review(r)
      PROVE  LedgerTypeOK'
  BY <1>8 DEF Review, LedgerTypeOK, RefundRow
<1>9. ASSUME NEW r \in Resv, NEW t \in Txs, ConfirmRefund(r, t)
      PROVE  LedgerTypeOK'
  <2>1. refund' \in [Resv -> RefundRow]
    BY <1>9 DEF ConfirmRefund, LedgerTypeOK, RefundRow
  <2>2. exhausted' \in BOOLEAN
    BY <1>9 DEF ConfirmRefund, LedgerTypeOK
  <2>3. QED
    BY <1>9, <2>1, <2>2 DEF ConfirmRefund, LedgerTypeOK
<1>10. ASSUME NEW t \in Txs, NEW a \in Amounts, MineRefund(t, a)
       PROVE  LedgerTypeOK'
  BY <1>10 DEF MineRefund, LedgerTypeOK
<1>11. CASE UNCHANGED ledgerVars
  BY <1>11 DEF ledgerVars, LedgerTypeOK
<1>12. QED
  BY <1>1, <1>2, <1>3, <1>4, <1>5, <1>6, <1>7, <1>8, <1>9, <1>10, <1>11 DEF LedgerNext

\* The ledger is well typed in every reachable state.
THEOREM LedgerTypeSafe == LedgerSpec => []LedgerTypeOK
<1>1. QED
  BY LedgerTypeInit, LedgerTypeStep, PTL DEF LedgerSpec

-----------------------------------------------------------------------------
(* Refund credits *)

\* A row that is not authorized is never written again.
LEMMA SettledRowsStay ==
  ASSUME LedgerTypeOK, [LedgerNext]_ledgerVars,
         NEW r \in Resv, pay[r].state = "settled"
  PROVE  pay'[r] = pay[r]
  BY DEF LedgerTypeOK, ledgerVars, LedgerNext, Reserve, Booked, ReleaseUnsigned, Settle,
         RecordReleased, Reset, Restart, Watch, Review, ConfirmRefund, MineRefund

\* The strengthened invariant is preserved: a refund row is created only for a
\* settled charge, and a mined transfer never changes.
LEMMA CreditStep ==
  CreditInv /\ [LedgerNext]_ledgerVars => CreditInv'
<1> SUFFICES ASSUME CreditInv, [LedgerNext]_ledgerVars
             PROVE  CreditInv'
  OBVIOUS
<1> USE DEF CreditInv
<1>1. LedgerTypeOK'
  BY LedgerTypeStep
<1>2. ASSUME UNCHANGED refund
      PROVE  WatchedIsSettled'
  BY <1>2, SettledRowsStay DEF WatchedIsSettled
<1>3. ASSUME UNCHANGED refund, UNCHANGED transfer
      PROVE  CreditOnce'
  BY <1>3, SettledRowsStay DEF CreditOnce
<1>4. ASSUME NEW rs \in SUBSET Resv, Watch(rs)
      PROVE  WatchedIsSettled' /\ CreditOnce'
  <2>1. /\ pay' = pay /\ transfer' = transfer
        /\ refund' = Watched(rs)
    BY <1>4 DEF Watch
  <2>2. \A r \in Resv : \/ refund'[r] = refund[r]
                        \/ /\ refund[r].state = "none" /\ refund'[r].state = "pending"
                           /\ refund'[r].tx = NoTx
                           /\ pay[r].state = "settled" /\ pay[r].amount > 0
    BY <2>1 DEF Watched
  <2>3. QED
    BY <2>1, <2>2, LedgerAssumption
       DEF WatchedIsSettled, CreditOnce, LedgerAssumption, LedgerTypeOK, RefundRow
<1>5. ASSUME NEW q \in Resv, Review(q)
      PROVE  WatchedIsSettled' /\ CreditOnce'
  BY <1>5 DEF Review, WatchedIsSettled, CreditOnce, LedgerTypeOK, RefundRow
<1>6. ASSUME NEW q \in Resv, NEW t \in Txs, ConfirmRefund(q, t)
      PROVE  WatchedIsSettled' /\ CreditOnce'
  <2>1. /\ pay' = pay /\ transfer' = transfer
        /\ refund' = [refund EXCEPT ![q] = [state |-> "confirmed", tx |-> t]]
        /\ pay[q].state = "settled" /\ transfer[t] = pay[q].amount
        /\ \A s \in Resv : refund[s].tx # t
        /\ refund[q].state # "none"
    BY <1>6 DEF ConfirmRefund, VerifiedRefund
  <2>2. /\ refund'[q] = [state |-> "confirmed", tx |-> t]
        /\ \A s \in Resv \ {q} : refund'[s] = refund[s]
    BY <2>1 DEF LedgerTypeOK
  <2>3. WatchedIsSettled'
    BY <2>1, <2>2 DEF WatchedIsSettled
  <2>4. CreditOnce'
    BY <2>1, <2>2 DEF CreditOnce
  <2>5. QED
    BY <2>3, <2>4
<1>7. ASSUME NEW t \in Txs, NEW a \in Amounts, MineRefund(t, a)
      PROVE  CreditOnce'
  <2>1. /\ pay' = pay /\ refund' = refund
        /\ transfer[t] = 0 /\ transfer' = [transfer EXCEPT ![t] = a]
    BY <1>7 DEF MineRefund
  <2>2. \A r \in Resv : refund[r].state = "confirmed" => refund[r].tx # t
    BY <2>1 DEF CreditOnce, WatchedIsSettled
  <2>3. QED
    BY <2>1, <2>2 DEF CreditOnce, LedgerTypeOK
<1>8. WatchedIsSettled' /\ CreditOnce'
  <2>1. CASE \E rs \in SUBSET Resv : Watch(rs)
    BY <2>1, <1>4
  <2>2. CASE \E r \in Resv : Review(r)
    BY <2>2, <1>5
  <2>3. CASE \E r \in Resv, t \in Txs : ConfirmRefund(r, t)
    BY <2>3, <1>6
  <2>4. CASE \E t \in Txs, a \in Amounts : MineRefund(t, a)
    BY <2>4, <1>2, <1>7 DEF MineRefund
  <2>5. CASE UNCHANGED <<refund, transfer>>
    BY <2>5, <1>2, <1>3
  <2>6. QED
    BY <2>1, <2>2, <2>3, <2>4, <2>5
       DEF LedgerNext, ledgerVars, Reserve, ReleaseUnsigned, Settle, RecordReleased, Reset, Restart
<1>9. QED
  BY <1>1, <1>8

LEMMA LedgerCreditInit == LedgerInit => CreditInv
  BY LedgerTypeInit DEF LedgerInit, CreditInv, WatchedIsSettled, CreditOnce, NoRefund

\* No two confirmed refunds share a repayment, and each is backed by a final
\* transfer of exactly the amount that was charged.
THEOREM CreditOnceSafe == LedgerSpec => []CreditOnce
<1>1. CreditInv => CreditOnce
  BY DEF CreditInv
<1>2. QED
  BY <1>1, LedgerCreditInit, CreditStep, PTL DEF LedgerSpec

-----------------------------------------------------------------------------
(* Sums over the rows *)

\* A sum of amounts is the sum of a function.
LEMMA AmountsSum ==
  ASSUME NEW rows, NEW S, IsFiniteSet(S)
  PROVE  MapThenSumSet(LAMBDA r : rows[r].amount, S)
           = SumFunctionOnSet([r \in S |-> rows[r].amount], S)
<1> DEFINE f == [r \in S |-> rows[r].amount]
           Sums(g) == g = [T \in SUBSET S |->
                             IF T = {} THEN 0 ELSE rows[Pick(T)].amount + g[T \ {Pick(T)}]]
           h == CHOOSE g : Sums(g)
<1>1. MapThenSumSet(LAMBDA r : rows[r].amount, S) = h[S]
  BY DEF MapThenSumSet, MapThenFoldSet, Pick
<1>2. \A T \in SUBSET S : T # {} => f[Pick(T)] = rows[Pick(T)].amount
  BY DEF Pick
<1>3. \A g : Computes(g, f, S) <=> Sums(g)
  BY <1>2 DEF Computes
<1>4. Computes(h, f, S)
  BY <1>3, SumsExist
<1> HIDE DEF h
<1>5. QED
  BY <1>1, <1>4, SumComputed

\* What a row adds to the spending of period p, and what its refund takes back.
Charged(p, rows) ==
  [r \in Resv |-> IF rows[r].period = p /\ rows[r].state \in Counting
                  THEN rows[r].amount ELSE 0]
Refunded(p, rows, refs) ==
  [r \in Resv |-> IF /\ rows[r].period = p /\ rows[r].state = "settled"
                     /\ refs[r].state = "confirmed"
                  THEN rows[r].amount ELSE 0]
Net(p, rows, refs) ==
  [r \in Resv |-> Charged(p, rows)[r] - Refunded(p, rows, refs)[r]]

LEMMA ChargedIsSum ==
  ASSUME NEW p, NEW rows, \A r \in Resv : rows[r].amount \in Nat
  PROVE  ChargedIn(p, rows) = SumFunctionOnSet(Charged(p, rows), Resv)
<1> DEFINE S == {r \in Resv : rows[r].period = p /\ rows[r].state \in Counting}
           f == [r \in S |-> rows[r].amount]
<1>1. IsFiniteSet(Resv) /\ IsFiniteSet(S)
  BY FS_Subset, LedgerAssumption DEF LedgerAssumption
<1>2. ChargedIn(p, rows) = SumFunctionOnSet(f, S)
  BY <1>1, AmountsSum DEF ChargedIn
<1>3. \A r \in Resv : Charged(p, rows)[r] = IF r \in S THEN f[r] ELSE 0
  BY DEF Charged
<1>4. QED
  BY <1>1, <1>2, <1>3, SumOfPart

LEMMA RefundedIsSum ==
  ASSUME NEW p, NEW rows, NEW refs, \A r \in Resv : rows[r].amount \in Nat
  PROVE  RefundedIn(p, rows, refs) = SumFunctionOnSet(Refunded(p, rows, refs), Resv)
<1> DEFINE S == {r \in Resv : /\ rows[r].period = p
                              /\ rows[r].state = "settled"
                              /\ refs[r].state = "confirmed"}
           f == [r \in S |-> rows[r].amount]
<1>1. IsFiniteSet(Resv) /\ IsFiniteSet(S)
  BY FS_Subset, LedgerAssumption DEF LedgerAssumption
<1>2. RefundedIn(p, rows, refs) = SumFunctionOnSet(f, S)
  BY <1>1, AmountsSum DEF RefundedIn
<1>3. \A r \in Resv : Refunded(p, rows, refs)[r] = IF r \in S THEN f[r] ELSE 0
  BY DEF Refunded
<1>4. QED
  BY <1>1, <1>2, <1>3, SumOfPart

LEMMA SumsAreNumbers ==
  ASSUME NEW p, NEW rows, NEW refs, \A r \in Resv : rows[r].amount \in Nat
  PROVE  ChargedIn(p, rows) \in Nat /\ RefundedIn(p, rows, refs) \in Nat
<1>1. IsFiniteSet(Resv)
  BY LedgerAssumption DEF LedgerAssumption
<1>2. \A r \in Resv : Charged(p, rows)[r] \in Nat /\ Refunded(p, rows, refs)[r] \in Nat
  BY DEF Charged, Refunded
<1>3. QED
  BY <1>1, <1>2, SumOfNats, ChargedIsSum, RefundedIsSum

\* The spending is the sum of what every row weighs, and never negative: a
\* refund takes back a charge of the same row and the same period.
LEMMA SpentIsSum ==
  ASSUME NEW p, NEW rows, NEW refs, \A r \in Resv : rows[r].amount \in Nat
  PROVE  /\ \A r \in Resv : Net(p, rows, refs)[r] \in Nat
         /\ SpentIn(p, rows, refs) \in Nat
         /\ SpentIn(p, rows, refs) = SumFunctionOnSet(Net(p, rows, refs), Resv)
         /\ ChargedIn(p, rows) - RefundedIn(p, rows, refs) = SpentIn(p, rows, refs)
<1> DEFINE net == SumFunctionOnSet(Net(p, rows, refs), Resv)
<1>1. \A r \in Resv : Net(p, rows, refs)[r] \in Nat
  BY DEF Net, Charged, Refunded, Counting
<1>2. IsFiniteSet(Resv)
  BY LedgerAssumption DEF LedgerAssumption
<1>3. net \in Nat
  BY <1>1, <1>2, SumOfNats
<1>4. \A r \in Resv : /\ Charged(p, rows)[r] \in Int /\ Refunded(p, rows, refs)[r] \in Int
                      /\ Net(p, rows, refs)[r]
                           = Charged(p, rows)[r] - Refunded(p, rows, refs)[r]
  BY DEF Net, Charged, Refunded
<1>5. net = SumFunctionOnSet(Charged(p, rows), Resv)
              - SumFunctionOnSet(Refunded(p, rows, refs), Resv)
  BY <1>2, <1>4, SumOfDifferences
<1>6. net = ChargedIn(p, rows) - RefundedIn(p, rows, refs)
  BY <1>5, ChargedIsSum, RefundedIsSum
<1> HIDE DEF net
<1>7. Max({0, net}) = net
  BY <1>3 DEF Max
<1>8. SpentIn(p, rows, refs) = net
  BY <1>6, <1>7 DEF SpentIn
<1>9. QED
  BY <1>1, <1>3, <1>6, <1>8 DEF net

\* A correction of one row moves the spending by what that row weighs.
LEMMA SpentMoves ==
  ASSUME NEW p, NEW rows, NEW refs, NEW rows2, NEW refs2, NEW q \in Resv,
         \A r \in Resv : rows[r].amount \in Nat /\ rows2[r].amount \in Nat,
         \A r \in Resv \ {q} : rows2[r] = rows[r] /\ refs2[r] = refs[r]
  PROVE  SpentIn(p, rows2, refs2)
           = SpentIn(p, rows, refs) - Net(p, rows, refs)[q] + Net(p, rows2, refs2)[q]
<1>1. IsFiniteSet(Resv)
  BY LedgerAssumption DEF LedgerAssumption
<1>2. \A r \in Resv : Net(p, rows, refs)[r] \in Int /\ Net(p, rows2, refs2)[r] \in Int
  BY SpentIsSum
<1>3. \A r \in Resv \ {q} : Net(p, rows, refs)[r] = Net(p, rows2, refs2)[r]
  BY DEF Net, Charged, Refunded
<1>4. SumFunctionOnSet(Net(p, rows2, refs2), Resv)
        = SumFunctionOnSet(Net(p, rows, refs), Resv)
            - Net(p, rows, refs)[q] + Net(p, rows2, refs2)[q]
  BY <1>1, <1>2, <1>3, SumChangedAt
<1>5. QED
  BY <1>4, SpentIsSum

\* Rows that weigh the same are spent the same.
LEMMA SpentStays ==
  ASSUME NEW p, NEW rows, NEW refs, NEW rows2, NEW refs2,
         \A r \in Resv : rows[r].amount \in Nat /\ rows2[r].amount \in Nat,
         \A r \in Resv : Net(p, rows2, refs2)[r] = Net(p, rows, refs)[r]
  PROVE  SpentIn(p, rows2, refs2) = SpentIn(p, rows, refs)
<1>1. IsFiniteSet(Resv)
  BY LedgerAssumption DEF LedgerAssumption
<1>2. QED
  BY <1>1, SumSame, SpentIsSum

-----------------------------------------------------------------------------
(* What each transaction does to the spending of a period *)

\* No row is dated ahead of the period in force.
RowsDated == \A r \in Resv : pay[r].period <= period

BudgetInv == CreditInv /\ RowsDated

\* What one row weighs in period p when it counts.
Weight(r, p) == IF pay[r].period = p THEN pay[r].amount ELSE 0

LEMMA RowNumbers ==
  ASSUME NEW row \in PayRow
  PROVE  row.amount \in Nat /\ row.period \in Nat
<1>1. CASE row = AbsentRow
  BY <1>1 DEF AbsentRow
<1>2. row # AbsentRow => row.amount \in Amounts /\ row.period \in 1..MaxPeriod
  BY DEF PayRow, LiveRow, ReleasedRow
<1>3. Amounts \subseteq Nat /\ 1..MaxPeriod \subseteq Nat
  BY LedgerAssumption DEF LedgerAssumption
<1>4. QED
  BY <1>1, <1>2, <1>3

LEMMA AmountsAreNumbers ==
  ASSUME LedgerTypeOK
  PROVE  \A r \in Resv : pay[r].amount \in Nat /\ pay[r].period \in Nat
  BY RowNumbers DEF LedgerTypeOK

LEMMA ReserveSpends ==
  ASSUME LedgerTypeOK, NEW r \in Resv, NEW a \in Amounts, Reserve(r, a), NEW p \in Nat \ {0}
  PROVE  SpentIn(p, pay', refund')
           = SpentIn(p, pay, refund) + (IF p = period THEN a ELSE 0)
<1>1. a \in Nat
  BY LedgerAssumption DEF LedgerAssumption
<1>2. pay' = [pay EXCEPT ![r] = [state |-> "authorized", amount |-> a, period |-> period,
                                 reason |-> "none"]] /\ refund' = refund
  BY DEF Reserve, Booked
<1>3. \A q \in Resv \ {r} : pay'[q] = pay[q] /\ refund'[q] = refund[q]
  BY <1>2
<1>4. pay'[r] = [state |-> "authorized", amount |-> a, period |-> period, reason |-> "none"]
  BY <1>2 DEF LedgerTypeOK
<1>5. \A q \in Resv : pay[q].amount \in Nat /\ pay'[q].amount \in Nat
  BY <1>1, <1>3, <1>4, AmountsAreNumbers
<1>6. Net(p, pay, refund)[r] = 0
  BY DEF Reserve, Net, Charged, Refunded, Counting
<1>7. Net(p, pay', refund')[r] = IF p = period THEN a ELSE 0
  BY <1>1, <1>4 DEF Net, Charged, Refunded, Counting
<1>8. SpentIn(p, pay, refund) \in Nat
  BY <1>5, SpentIsSum
<1>9. SpentIn(p, pay', refund')
        = SpentIn(p, pay, refund) - Net(p, pay, refund)[r] + Net(p, pay', refund')[r]
  BY <1>3, <1>5, SpentMoves
<1>10. QED
  BY <1>1, <1>6, <1>7, <1>8, <1>9

LEMMA ReleaseSpends ==
  ASSUME LedgerTypeOK, NEW r \in Resv, pay[r].state = "authorized",
         pay'[r].state = "released", pay'[r].amount = pay[r].amount,
         \A q \in Resv \ {r} : pay'[q] = pay[q] /\ refund'[q] = refund[q],
         NEW p \in Nat
  PROVE  SpentIn(p, pay', refund') = SpentIn(p, pay, refund) - Weight(r, p)
<1>1. \A q \in Resv : pay[q].amount \in Nat /\ pay'[q].amount \in Nat
  BY AmountsAreNumbers
<1>2. Net(p, pay, refund)[r] = Weight(r, p)
  BY <1>1 DEF Net, Charged, Refunded, Counting, Weight
<1>3. Net(p, pay', refund')[r] = 0
  BY DEF Net, Charged, Refunded, Counting
<1>4. SpentIn(p, pay, refund) \in Nat /\ Weight(r, p) \in Nat
  BY <1>1, SpentIsSum DEF Weight
<1>5. SpentIn(p, pay', refund')
        = SpentIn(p, pay, refund) - Net(p, pay, refund)[r] + Net(p, pay', refund')[r]
  <2>1. PICK rows, refs : rows = pay' /\ refs = refund'
    OBVIOUS
  <2>2. \A q \in Resv : pay[q].amount \in Nat /\ rows[q].amount \in Nat
    BY <1>1, <2>1
  <2>3. \A q \in Resv \ {r} : rows[q] = pay[q] /\ refs[q] = refund[q]
    BY <2>1
  <2>4. SpentIn(p, rows, refs) = SpentIn(p, pay, refund) - Net(p, pay, refund)[r] + Net(p, rows, refs)[r]
    BY <2>2, <2>3, SpentMoves
  <2>5. QED
    BY <2>1, <2>4
<1>6. QED
  BY <1>2, <1>3, <1>4, <1>5

\* A release is one of an authorized row, and of that row alone.
LEMMA ReleaseShape ==
  ASSUME LedgerTypeOK, NEW r \in Resv, NEW why, pay[r].state = "authorized",
         pay' = [pay EXCEPT ![r].state = "released", ![r].reason = why], refund' = refund
  PROVE  /\ pay'[r].state = "released" /\ pay'[r].amount = pay[r].amount
         /\ pay'[r].period = pay[r].period
         /\ \A q \in Resv \ {r} : pay'[q] = pay[q] /\ refund'[q] = refund[q]
<1>1. pay[r] \in LiveRow
  BY LiveRowType
<1>2. QED
  BY <1>1 DEF LedgerTypeOK, LiveRow

LEMMA SettleSpends ==
  ASSUME CreditInv, NEW r \in Resv, Settle(r), NEW p \in Nat
  PROVE  SpentIn(p, pay', refund') = SpentIn(p, pay, refund)
<1>1. pay' = [pay EXCEPT ![r].state = "settled"] /\ refund' = refund
      /\ pay[r].state = "authorized" /\ LedgerTypeOK
  BY DEF Settle, CreditInv
<1>2. pay[r] \in LiveRow
  BY <1>1, LiveRowType
<1>3. \A q \in Resv : /\ pay'[q].amount = pay[q].amount /\ pay'[q].period = pay[q].period
                      /\ q # r => pay'[q] = pay[q]
  BY <1>1, <1>2 DEF LedgerTypeOK, LiveRow
<1>4. refund[r].state = "none" /\ pay'[r].state = "settled"
  BY <1>1, <1>2 DEF CreditInv, WatchedIsSettled, LedgerTypeOK, LiveRow
<1>5. \A q \in Resv : Net(p, pay', refund')[q] = Net(p, pay, refund)[q]
  BY <1>1, <1>3, <1>4 DEF Net, Charged, Refunded, Counting
<1>6. \A q \in Resv : pay[q].amount \in Nat /\ pay'[q].amount \in Nat
  BY <1>1, <1>3, AmountsAreNumbers
<1>7. QED
  BY <1>5, <1>6, SpentStays

\* Only a confirmation changes what is refunded.
LEMMA WatchingSpendsNothing ==
  ASSUME LedgerTypeOK, UNCHANGED pay, NEW p \in Nat,
         \A r \in Resv : refund'[r].state = "confirmed" <=> refund[r].state = "confirmed"
  PROVE  SpentIn(p, pay', refund') = SpentIn(p, pay, refund)
<1>1. \A q \in Resv : Net(p, pay', refund')[q] = Net(p, pay, refund)[q]
  BY DEF Net, Charged, Refunded
<1>2. \A q \in Resv : pay[q].amount \in Nat /\ pay'[q].amount \in Nat
  BY AmountsAreNumbers
<1>3. QED
  BY <1>1, <1>2, SpentStays

LEMMA ConfirmSpends ==
  ASSUME LedgerTypeOK, NEW r \in Resv, NEW t \in Txs, ConfirmRefund(r, t), NEW p \in Nat
  PROVE  SpentIn(p, pay', refund') = SpentIn(p, pay, refund) - Weight(r, p)
<1>1. /\ pay' = pay /\ refund' = [refund EXCEPT ![r] = [state |-> "confirmed", tx |-> t]]
      /\ pay[r].state = "settled" /\ refund[r].state # "confirmed"
  BY DEF ConfirmRefund, VerifiedRefund
<1>2. \A q \in Resv \ {r} : pay'[q] = pay[q] /\ refund'[q] = refund[q]
  BY <1>1
<1>3. refund'[r].state = "confirmed"
  BY <1>1 DEF LedgerTypeOK
<1>4. \A q \in Resv : pay[q].amount \in Nat /\ pay'[q].amount \in Nat
  BY <1>1, AmountsAreNumbers
<1>5. Net(p, pay, refund)[r] = Weight(r, p)
  BY <1>1, <1>4 DEF Net, Charged, Refunded, Counting, Weight
<1>6. Net(p, pay', refund')[r] = 0
  BY <1>1, <1>3, <1>4 DEF Net, Charged, Refunded, Counting
<1>7. SpentIn(p, pay, refund) \in Nat /\ Weight(r, p) \in Nat
  BY <1>4, SpentIsSum DEF Weight
<1>8. SpentIn(p, pay', refund')
        = SpentIn(p, pay, refund) - Net(p, pay, refund)[r] + Net(p, pay', refund')[r]
  BY <1>2, <1>4, SpentMoves
<1>9. QED
  BY <1>5, <1>6, <1>7, <1>8

\* Every transaction but a reservation leaves a period's spending or lowers it.
LEMMA SpendingStep ==
  ASSUME CreditInv, [LedgerNext]_ledgerVars, NEW p \in Nat \ {0}
  PROVE  \/ SpentIn(p, pay', refund') <= SpentIn(p, pay, refund)
         \/ /\ p = period /\ UNCHANGED <<period, periodCap, configCap>>
            /\ SpentIn(p, pay', refund') <= Cap
<1>0. LedgerTypeOK /\ SpentIn(p, pay, refund) \in Nat
      /\ \A r \in Resv : Weight(r, p) \in Nat
  BY AmountsAreNumbers, SpentIsSum DEF CreditInv, Weight
<1>1. ASSUME NEW r \in Resv, NEW a \in Amounts, Reserve(r, a)
      PROVE  \/ SpentIn(p, pay', refund') <= SpentIn(p, pay, refund)
             \/ /\ p = period /\ UNCHANGED <<period, periodCap, configCap>>
                /\ SpentIn(p, pay', refund') <= Cap
  <2>1. SpentIn(p, pay', refund') = SpentIn(p, pay, refund) + (IF p = period THEN a ELSE 0)
    BY <1>0, <1>1, ReserveSpends
  <2>2. UNCHANGED <<period, periodCap, configCap>> /\ Spent + a <= Cap
    BY <1>1 DEF Reserve
  <2>3. QED
    BY <1>0, <2>1, <2>2 DEF Spent
<1>2. ASSUME NEW r \in Resv, NEW why, pay[r].state = "authorized",
             pay' = [pay EXCEPT ![r].state = "released", ![r].reason = why], refund' = refund
      PROVE  SpentIn(p, pay', refund') <= SpentIn(p, pay, refund)
  <2>1. SpentIn(p, pay', refund') = SpentIn(p, pay, refund) - Weight(r, p)
    BY <1>0, <1>2, ReleaseShape, ReleaseSpends
  <2>2. QED
    BY <1>0, <2>1
<1>3. ASSUME NEW r \in Resv, NEW t \in Txs, ConfirmRefund(r, t)
      PROVE  SpentIn(p, pay', refund') <= SpentIn(p, pay, refund)
  <2>1. SpentIn(p, pay', refund') = SpentIn(p, pay, refund) - Weight(r, p)
    BY <1>0, <1>3, ConfirmSpends
  <2>2. QED
    BY <1>0, <2>1
<1>4. ASSUME UNCHANGED pay,
             \A r \in Resv : refund'[r].state = "confirmed" <=> refund[r].state = "confirmed"
      PROVE  SpentIn(p, pay', refund') <= SpentIn(p, pay, refund)
  <2>1. SpentIn(p, pay', refund') = SpentIn(p, pay, refund)
    BY <1>0, <1>4, WatchingSpendsNothing
  <2>2. QED
    BY <1>0, <2>1
<1>5. ASSUME NEW r \in Resv, Settle(r)
      PROVE  SpentIn(p, pay', refund') <= SpentIn(p, pay, refund)
  <2>1. SpentIn(p, pay', refund') = SpentIn(p, pay, refund)
    BY <1>5, SettleSpends
  <2>2. QED
    BY <1>0, <2>1
<1>6. ASSUME NEW rs \in SUBSET Resv, Watch(rs)
      PROVE  SpentIn(p, pay', refund') <= SpentIn(p, pay, refund)
  <2>1. UNCHANGED pay
        /\ \A r \in Resv : refund'[r].state = "confirmed" <=> refund[r].state = "confirmed"
    BY <1>6 DEF Watch, Watched
  <2>2. QED
    BY <2>1, <1>4
<1>7. ASSUME NEW r \in Resv, Review(r)
      PROVE  SpentIn(p, pay', refund') <= SpentIn(p, pay, refund)
  <2>1. UNCHANGED pay
        /\ \A q \in Resv : refund'[q].state = "confirmed" <=> refund[q].state = "confirmed"
    BY <1>0, <1>7 DEF Review, LedgerTypeOK, RefundRow
  <2>2. QED
    BY <2>1, <1>4
<1>8. ASSUME UNCHANGED <<pay, refund>>
      PROVE  SpentIn(p, pay', refund') <= SpentIn(p, pay, refund)
  BY <1>4, <1>8
<1>9. CASE \E r \in Resv, a \in Amounts : Reserve(r, a)
  BY <1>1, <1>9
<1>10. CASE \/ \E r \in Resv : ReleaseUnsigned(r)
            \/ \E r \in Resv, why \in EvidenceReasons : RecordReleased(r, why)
  BY <1>2, <1>10 DEF ReleaseUnsigned, RecordReleased
<1>11. CASE \/ \E c \in Caps \cup {NoCap} : Reset(c)
            \/ \E c \in ConfigCaps : Restart(c)
            \/ \E t \in Txs, a \in Amounts : MineRefund(t, a)
            \/ UNCHANGED ledgerVars
  BY <1>8, <1>11 DEF Reset, Restart, MineRefund, ledgerVars
<1>12. CASE \E r \in Resv, t \in Txs : ConfirmRefund(r, t)
  BY <1>3, <1>12
<1>13. CASE \/ \E r \in Resv : Settle(r)
            \/ \E rs \in SUBSET Resv : Watch(rs)
            \/ \E r \in Resv : Review(r)
  BY <1>5, <1>6, <1>7, <1>13
<1>14. QED
  BY <1>9, <1>10, <1>11, <1>12, <1>13 DEF LedgerNext

\* Nothing is added to a period's spending beyond the cap in force.
THEOREM CapSafe == LedgerSpec => SpendingRespectsCap
<1>1. CreditInv /\ [LedgerNext]_ledgerVars
        => [\A p \in 1..MaxPeriod :
              SpentIn(p, pay', refund') > SpentIn(p, pay, refund)
                => p = period' /\ SpentIn(p, pay', refund') <= Cap']_ledgerVars
  <2> SUFFICES ASSUME CreditInv, [LedgerNext]_ledgerVars, NEW p \in 1..MaxPeriod,
                      SpentIn(p, pay', refund') > SpentIn(p, pay, refund)
               PROVE  p = period' /\ SpentIn(p, pay', refund') <= Cap'
    OBVIOUS
  <2>1. p \in Nat \ {0} /\ SpentIn(p, pay, refund) \in Nat
    BY LedgerAssumption, AmountsAreNumbers, SpentIsSum DEF LedgerAssumption, CreditInv
  <2>2. SpentIn(p, pay', refund') \in Nat
    <3>1. LedgerTypeOK'
      BY LedgerTypeStep DEF CreditInv
    <3>2. \A r \in Resv : pay'[r].amount \in Nat
      BY <3>1, RowNumbers DEF LedgerTypeOK
    <3>3. QED
      BY <3>2, SpentIsSum
  <2>3. p = period /\ UNCHANGED <<period, periodCap, configCap>>
        /\ SpentIn(p, pay', refund') <= Cap
    BY <2>1, <2>2, SpendingStep
  <2>4. QED
    BY <2>3 DEF Cap
<1>2. LedgerSpec => []CreditInv
  BY LedgerCreditInit, CreditStep, PTL DEF LedgerSpec
<1>3. QED
  BY <1>1, <1>2, PTL DEF LedgerSpec, SpendingRespectsCap

\* What a closed period spent is only ever corrected downwards.
THEOREM ClosedPeriodsSafe == LedgerSpec => ClosedPeriodsOnlyShrink
<1>1. CreditInv /\ [LedgerNext]_ledgerVars
        => [\A p \in 1..MaxPeriod :
              p < period' => SpentIn(p, pay', refund') <= SpentIn(p, pay, refund)]_ledgerVars
  <2> SUFFICES ASSUME CreditInv, [LedgerNext]_ledgerVars, NEW p \in 1..MaxPeriod, p < period'
               PROVE  SpentIn(p, pay', refund') <= SpentIn(p, pay, refund)
    OBVIOUS
  <2>1. p \in Nat \ {0} /\ period \in Nat
    BY LedgerAssumption DEF LedgerAssumption, CreditInv, LedgerTypeOK
  <2>2. QED
    BY <2>1, SpendingStep
<1>2. LedgerSpec => []CreditInv
  BY LedgerCreditInit, CreditStep, PTL DEF LedgerSpec
<1>3. QED
  BY <1>1, <1>2, PTL DEF LedgerSpec, ClosedPeriodsOnlyShrink

-----------------------------------------------------------------------------
(* The latch *)

\* Nothing is spent in a period that has not begun.
LEMMA FutureUnspent ==
  ASSUME LedgerTypeOK, NEW p \in Nat, \A r \in Resv : pay[r].period < p
  PROVE  SpentIn(p, pay, refund) = 0
<1>1. IsFiniteSet(Resv)
  BY LedgerAssumption DEF LedgerAssumption
<1>2. \A r \in Resv : pay[r].amount \in Nat /\ pay[r].period # p
  BY AmountsAreNumbers
<1>3. \A r \in Resv : Net(p, pay, refund)[r] = 0
  BY <1>2 DEF Net, Charged, Refunded
<1>4. SumFunctionOnSet(Net(p, pay, refund), {}) = SumFunctionOnSet(Net(p, pay, refund), Resv)
  <2>1. \A r \in Resv : Net(p, pay, refund)[r]
                          = IF r \in {} THEN Net(p, pay, refund)[r] ELSE 0
    BY <1>3
  <2>2. {} \in SUBSET Resv
    OBVIOUS
  <2>3. QED
    BY <1>1, <2>1, <2>2, SumOfPart
<1>5. QED
  BY <1>2, <1>4, SumOfNothing, SpentIsSum

\* Rows are dated with the period in force, and the period only moves on.
LEMMA BudgetStep ==
  BudgetInv /\ [LedgerNext]_ledgerVars => BudgetInv'
<1> SUFFICES ASSUME BudgetInv, [LedgerNext]_ledgerVars
             PROVE  BudgetInv'
  OBVIOUS
<1>0. LedgerTypeOK /\ period \in Nat /\ \A r \in Resv : pay[r].period \in Nat
  BY LedgerAssumption, AmountsAreNumbers
     DEF BudgetInv, CreditInv, LedgerTypeOK, LedgerAssumption
<1>1. CreditInv'
  BY CreditStep DEF BudgetInv
<1>2. ASSUME NEW r \in Resv, NEW a \in Amounts, Reserve(r, a)
      PROVE  RowsDated'
  BY <1>0, <1>2 DEF BudgetInv, RowsDated, Reserve, Booked, LedgerTypeOK
<1>3. ASSUME NEW r \in Resv, NEW why, pay[r].state = "authorized",
             pay' = [pay EXCEPT ![r].state = "released", ![r].reason = why],
             refund' = refund, period' = period
      PROVE  RowsDated'
  <2>1. /\ pay'[r].period = pay[r].period
        /\ \A q \in Resv \ {r} : pay'[q] = pay[q]
    BY <1>0, <1>3, ReleaseShape
  <2>2. QED
    BY <1>3, <2>1 DEF BudgetInv, RowsDated
<1>4. ASSUME NEW r \in Resv, Settle(r)
      PROVE  RowsDated'
  <2>1. pay[r] \in LiveRow
    BY <1>0, <1>4, LiveRowType DEF Settle
  <2>2. \A q \in Resv : pay'[q].period = pay[q].period
    BY <1>0, <1>4, <2>1 DEF Settle, LedgerTypeOK, LiveRow
  <2>3. QED
    BY <1>4, <2>2 DEF Settle, BudgetInv, RowsDated
<1>5. ASSUME UNCHANGED pay, period' \in Nat, period <= period'
      PROVE  RowsDated'
  BY <1>0, <1>5 DEF BudgetInv, RowsDated
<1>6. RowsDated'
  <2>1. CASE \E r \in Resv, a \in Amounts : Reserve(r, a)
    BY <1>2, <2>1
  <2>2. CASE \/ \E r \in Resv : ReleaseUnsigned(r)
             \/ \E r \in Resv, why \in EvidenceReasons : RecordReleased(r, why)
    BY <1>3, <2>2 DEF ReleaseUnsigned, RecordReleased
  <2>3. CASE \E r \in Resv : Settle(r)
    BY <1>4, <2>3
  <2>4. CASE \E c \in Caps \cup {NoCap} : Reset(c)
    BY <1>0, <1>5, <2>4 DEF Reset
  <2>5. CASE UNCHANGED <<pay, period>>
    BY <1>0, <1>5, <2>5
  <2>6. QED
    BY <2>1, <2>2, <2>3, <2>4, <2>5
       DEF LedgerNext, ledgerVars, Restart, Watch, Review, ConfirmRefund, MineRefund
<1>7. QED
  BY <1>1, <1>6 DEF BudgetInv

LEMMA BudgetInit == LedgerInit => BudgetInv
<1> SUFFICES ASSUME LedgerInit PROVE BudgetInv
  OBVIOUS
<1>1. CreditInv
  BY LedgerCreditInit
<1>2. RowsDated
  BY DEF LedgerInit, RowsDated, AbsentRow
<1>3. QED
  BY <1>1, <1>2 DEF BudgetInv

\* The latch after a correction that lowers what is spent.
LEMMA LatchFollows ==
  ASSUME NEW c \in Nat, NEW before \in Nat, NEW after \in Nat, after <= before,
         c > 0 \/ before = 0, NEW same \in BOOLEAN, ~same => after = before
  PROVE  (before >= c /\ before > 0) /\ ~(same /\ after < c) <=> after >= c /\ after > 0
  OBVIOUS

\* No transaction makes the latch drift from what it stands for.
LEMMA LatchStep ==
  ASSUME BudgetInv, [LedgerNext]_ledgerVars, configCap' = configCap,
         LatchExact, Cap > 0 \/ Spent = 0
  PROVE  LatchExact'
<1>0. /\ LedgerTypeOK /\ CreditInv /\ period \in Nat \ {0} /\ Cap \in Nat /\ Spent \in Nat
      /\ \A r \in Resv : Weight(r, period) \in Nat
  <2>1. LedgerTypeOK /\ CreditInv
    BY DEF BudgetInv, CreditInv
  <2>2. period \in Nat \ {0} /\ Cap \in Nat
    BY <2>1, LedgerAssumption DEF LedgerTypeOK, LedgerAssumption, Cap
  <2>3. QED
    BY <2>1, <2>2, AmountsAreNumbers, SpentIsSum DEF Spent, Weight
<1>1. ASSUME UNCHANGED <<period, periodCap, exhausted>>,
             SpentIn(period, pay', refund') = Spent
      PROVE  LatchExact'
  BY <1>1 DEF LatchExact, LatchFor, Cap, Spent
<1>2. ASSUME NEW r \in Resv, UNCHANGED <<period, periodCap>>,
             SpentIn(period, pay', refund') = Spent - Weight(r, period),
             SpentIn(period, pay', refund') \in Nat,
             exhausted' = (exhausted /\ ~UnlatchedBy(r))
      PROVE  LatchExact'
  <2> DEFINE after == SpentIn(period, pay', refund')
             same == pay[r].period = period
  <2>1. after \in Nat /\ after <= Spent /\ (~same => after = Spent)
    BY <1>0, <1>2 DEF Weight
  <2>2. LatchFor(Spent) /\ ~(same /\ after < Cap) <=> after >= Cap /\ after > 0
    <3>1. same \in BOOLEAN
      OBVIOUS
    <3> HIDE DEF after, same
    <3>2. QED
      BY <1>0, <2>1, <3>1, LatchFollows DEF LatchFor
  <2>3. exhausted' <=> exhausted /\ ~(same /\ after < Cap)
    BY <1>2 DEF UnlatchedBy
  <2>4. exhausted' <=> after >= Cap /\ after > 0
    BY <2>2, <2>3 DEF LatchExact
  <2>5. Cap' = Cap /\ Spent' = after
    BY <1>2 DEF Cap, Spent
  <2>6. QED
    BY <2>4, <2>5 DEF LatchExact, LatchFor
<1>3. SpentIn(period, pay', refund') \in Nat
  <2>1. LedgerTypeOK'
    BY <1>0, LedgerTypeStep
  <2>2. \A r \in Resv : pay'[r].amount \in Nat
    BY <2>1, RowNumbers DEF LedgerTypeOK
  <2>3. QED
    BY <2>2, SpentIsSum
<1>4. ASSUME NEW r \in Resv, NEW a \in Amounts, Reserve(r, a)
      PROVE  LatchExact'
  <2>1. SpentIn(period, pay', refund') = Spent + a
    BY <1>0, <1>4, ReserveSpends DEF Spent
  <2>2. exhausted' = LatchFor(Spent + a) /\ Cap' = Cap /\ period' = period
    BY <1>4 DEF Reserve, Cap
  <2>3. Spent' = Spent + a
    BY <2>1, <2>2 DEF Spent
  <2>4. QED
    BY <2>2, <2>3 DEF LatchExact, LatchFor
<1>5. ASSUME NEW r \in Resv, ReleaseUnsigned(r)
      PROVE  LatchExact'
  <2>1. SpentIn(period, pay', refund') = Spent - Weight(r, period)
    BY <1>0, <1>5, ReleaseShape, ReleaseSpends DEF ReleaseUnsigned, Spent
  <2>2. pay[r].amount \in Nat
    BY <1>0, AmountsAreNumbers
  <2>3. UnlatchedBy(r) /\ exhausted => pay[r].amount > 0 /\ Spent >= Cap
    BY <1>0, <2>1, <2>2 DEF UnlatchedBy, Weight, LatchExact, LatchFor
  <2>4. exhausted' = (exhausted /\ ~UnlatchedBy(r))
    BY <1>0, <1>5, <2>3 DEF ReleaseUnsigned, LedgerTypeOK
  <2>5. QED
    BY <1>2, <1>3, <1>5, <2>1, <2>4 DEF ReleaseUnsigned
<1>6. ASSUME NEW r \in Resv, NEW why \in EvidenceReasons, RecordReleased(r, why)
      PROVE  LatchExact'
  <2>1. SpentIn(period, pay', refund') = Spent - Weight(r, period)
    BY <1>0, <1>6, ReleaseShape, ReleaseSpends DEF RecordReleased, Spent
  <2>2. QED
    BY <1>2, <1>3, <1>6, <2>1 DEF RecordReleased
<1>7. ASSUME NEW r \in Resv, NEW t \in Txs, ConfirmRefund(r, t)
      PROVE  LatchExact'
  <2>1. SpentIn(period, pay', refund') = Spent - Weight(r, period)
    BY <1>0, <1>7, ConfirmSpends DEF Spent
  <2>2. QED
    BY <1>2, <1>3, <1>7, <2>1 DEF ConfirmRefund
<1>8. ASSUME NEW r \in Resv, Settle(r)
      PROVE  LatchExact'
  <2>1. SpentIn(period, pay', refund') = Spent
    BY <1>0, <1>8, SettleSpends DEF Spent
  <2>2. QED
    BY <1>1, <1>8, <2>1 DEF Settle
<1>9. ASSUME UNCHANGED <<period, periodCap, exhausted, pay>>,
             \A r \in Resv : refund'[r].state = "confirmed" <=> refund[r].state = "confirmed"
      PROVE  LatchExact'
  <2>1. SpentIn(period, pay', refund') = Spent
    BY <1>0, <1>9, WatchingSpendsNothing DEF Spent
  <2>2. QED
    BY <1>1, <1>9, <2>1
<1>10. ASSUME NEW rs \in SUBSET Resv, Watch(rs)
       PROVE  LatchExact'
  <2>1. \A r \in Resv : refund'[r].state = "confirmed" <=> refund[r].state = "confirmed"
    BY <1>10 DEF Watch, Watched
  <2>2. QED
    BY <1>9, <1>10, <2>1 DEF Watch
<1>11. ASSUME NEW r \in Resv, Review(r)
       PROVE  LatchExact'
  <2>1. \A q \in Resv : refund'[q].state = "confirmed" <=> refund[q].state = "confirmed"
    BY <1>0, <1>11 DEF Review, LedgerTypeOK, RefundRow
  <2>2. QED
    BY <1>9, <1>11, <2>1 DEF Review
<1>12. ASSUME NEW c \in Caps \cup {NoCap}, Reset(c)
       PROVE  LatchExact'
  <2>1. BudgetInv'
    BY BudgetStep
  <2>2. LedgerTypeOK' /\ period' = period + 1 /\ pay' = pay /\ refund' = refund /\ ~exhausted'
    BY <1>12, <2>1 DEF BudgetInv, CreditInv, Reset
  <2>3. \A r \in Resv : pay[r].period < period + 1
    BY <1>0, AmountsAreNumbers DEF BudgetInv, RowsDated
  <2>4. SpentIn(period + 1, pay, refund) = 0
    BY <1>0, <2>3, FutureUnspent
  <2>5. Spent' = 0
    BY <2>2, <2>4 DEF Spent
  <2>6. QED
    BY <2>2, <2>5 DEF LatchExact, LatchFor
<1>13. CASE UNCHANGED <<period, periodCap, exhausted, pay, refund>>
  BY <1>9, <1>13
<1>14. QED
  BY <1>4, <1>5, <1>6, <1>7, <1>8, <1>10, <1>11, <1>12, <1>13
     DEF LedgerNext, ledgerVars, Restart, MineRefund

\* While the configured cap stands, the latch means exactly that a positive
\* budget is fully committed.
THEOREM LatchSafe == LedgerSpec => LatchNeverDrifts
<1>1. BudgetInv /\ [LedgerNext]_ledgerVars
        => [configCap' = configCap /\ LatchExact /\ (Cap > 0 \/ Spent = 0)
              => LatchExact']_ledgerVars
  BY LatchStep
<1>2. LedgerSpec => []BudgetInv
  BY BudgetInit, BudgetStep, PTL DEF LedgerSpec
<1>3. QED
  BY <1>1, <1>2, PTL DEF LedgerSpec, LatchNeverDrifts

-----------------------------------------------------------------------------
(* The cap *)

\* The greater of two numbers.
LEMMA GreaterOfTwo ==
  ASSUME NEW a \in Nat, NEW b \in Nat
  PROVE  Max({a, b}) \in Nat /\ a <= Max({a, b}) /\ b <= Max({a, b})
<1>1. Max({a, b}) = IF a >= b THEN a ELSE b
  BY DEF Max
<1>2. QED
  BY <1>1

\* However the cap moves, the spending of the period in force stays within the
\* greatest cap it ran under.
LEMMA CeilingKept ==
  ASSUME BudgetInv, [LedgerNext]_ledgerVars, Remember,
         ceiling \in Nat, Cap <= ceiling, Spent <= ceiling
  PROVE  ceiling' \in Nat /\ Cap' <= ceiling' /\ Spent' <= ceiling'
<1>0. /\ LedgerTypeOK /\ CreditInv /\ LedgerTypeOK' /\ BudgetInv'
      /\ period \in Nat \ {0} /\ Cap \in Nat /\ Cap' \in Nat /\ Spent \in Nat
  <2>1. LedgerTypeOK /\ CreditInv /\ BudgetInv'
    BY BudgetStep DEF BudgetInv, CreditInv
  <2>2. LedgerTypeOK'
    BY <2>1, LedgerTypeStep
  <2>3. period \in Nat \ {0} /\ Cap \in Nat /\ Cap' \in Nat
    BY <2>1, <2>2, LedgerAssumption DEF LedgerTypeOK, LedgerAssumption, Cap
  <2>4. QED
    BY <2>1, <2>2, <2>3, AmountsAreNumbers, SpentIsSum DEF Spent
<1>1. CASE \E c \in Caps \cup {NoCap} : Reset(c)
  <2>1. period' = period + 1 /\ pay' = pay /\ refund' = refund
    BY <1>1 DEF Reset
  <2>2. \A r \in Resv : pay[r].period < period + 1
    BY <1>0, AmountsAreNumbers DEF BudgetInv, RowsDated
  <2>3. SpentIn(period + 1, pay, refund) = 0
    BY <1>0, <2>2, FutureUnspent
  <2>4. Spent' = 0
    BY <2>1, <2>3 DEF Spent
  <2>5. ceiling' = Cap'
    BY <1>0, <2>1 DEF Remember
  <2>6. QED
    BY <1>0, <2>4, <2>5
<1>2. CASE period' = period
  <2>1. ceiling' \in Nat /\ ceiling <= ceiling' /\ Cap' <= ceiling'
    BY <1>0, <1>2, GreaterOfTwo DEF Remember
  <2>2. Spent' = SpentIn(period, pay', refund')
    BY <1>2 DEF Spent
  <2>3. Spent' <= Spent \/ Spent' <= Cap
    BY <1>0, <2>2, SpendingStep DEF Spent
  <2>4. Spent' \in Nat
    <3>1. \A r \in Resv : pay'[r].amount \in Nat
      BY <1>0, RowNumbers DEF LedgerTypeOK
    <3>2. QED
      BY <2>2, <3>1, SpentIsSum
  <2>5. QED
    BY <1>0, <2>1, <2>3, <2>4
<1>3. QED
  BY <1>1, <1>2 DEF LedgerNext, ledgerVars, Reserve, ReleaseUnsigned, Settle, RecordReleased,
                    Restart, Watch, Review, ConfirmRefund, MineRefund

-----------------------------------------------------------------------------
(* The operations *)

\* The steps in which a caller has, or may have, signed for its row.
Signing == {"reserved", "saved", "resending", "sent", "replied", "settled"}

\* A row exists exactly when an operation owns it; before that the chain has
\* never heard of it.
Rows ==
  \A r \in Resv :
    /\ pay[r].state = "absent" <=> opOf[r] = NoOp
    /\ opOf[r] # NoOp => op[opOf[r]].state # "absent"
    /\ opOf[r] = NoOp => /\ auth[r].chain = "unused" /\ auth[r].fin = "unused"
                         /\ ~auth[r].disclosed

\* One authorization is ever signed for one operation.
OneRow == \A r, s \in Resv : opOf[r] # NoOp /\ opOf[r] = opOf[s] => r = s

\* A caller works on an existing operation and on its own row.
Holding ==
  \A c \in Callers :
    /\ caller[c].pc # "idle" => op[caller[c].op].state # "absent"
    /\ caller[c].pc \notin {"idle", "begun"} => opOf[caller[c].resv] = caller[c].op

\* Until its proof is saved, an operation has one caller.
Sole ==
  \A c \in Callers : caller[c].pc \in {"begun", "reserved"} =>
    /\ op[caller[c].op].hdr = "none" /\ op[caller[c].op].state # "complete"
    /\ \A d \in Callers \ {c} : caller[d].op # caller[c].op

Begun ==
  \A c \in Callers : caller[c].pc = "begun" =>
    /\ op[caller[c].op].state = "pending"
    /\ \A r \in Resv : opOf[r] # caller[c].op

Unrefused ==
  \A c \in Callers : caller[c].pc \in Signing =>
    pay[caller[c].resv].reason # "signature_refused"

\* Saved headers sign for a row of the same operation.
Proofs ==
  \A o \in Op : op[o].proof # NoResv =>
    /\ opOf[op[o].proof] = o
    /\ pay[op[o].proof].reason # "signature_refused"

\* Nothing is sent whose proof is not stored.
Sending ==
  \A c \in Callers : caller[c].pc \in {"saved", "resending"} =>
    op[caller[c].op].proof = caller[c].resv \/ op[caller[c].op].state = "complete"

Disclosure ==
  \A r \in Resv : auth[r].disclosed =>
    /\ op[opOf[r]].proof = r \/ op[opOf[r]].state = "complete"
    /\ pay[r].reason # "signature_refused"

\* What the chain can still do to an authorization.
ChainFacts ==
  \A r \in Resv :
    /\ auth[r].finExpired => auth[r].expired
    /\ auth[r].fin # "unused" => auth[r].chain = auth[r].fin
    /\ auth[r].finExpired /\ auth[r].fin = "unused" => auth[r].chain # "used"
    /\ auth[r].unspendable \/ ~auth[r].disclosed =>
         auth[r].chain # "used" /\ auth[r].fin # "used"

Proves(r, outcome) ==
  /\ outcome = "expired_unused" => auth[r].finExpired /\ auth[r].fin # "used"
  /\ outcome = "cancelled" => auth[r].fin = "cancelled"
  /\ outcome = "unspendable" => auth[r].unspendable

\* Evidence stays true while a worker holds it, and after it is recorded.
Evidence == \A w \in Workers : worker[w].resv # NoResv =>
              /\ Proves(worker[w].resv, worker[w].outcome)
              /\ opOf[worker[w].resv] # NoOp

Dead ==
  \A r \in Resv : pay[r].state = "released" =>
    /\ pay[r].reason = "signature_refused" => ~auth[r].disclosed
    /\ Proves(r, pay[r].reason)

\* The operations of one action form a line.
Line ==
  /\ \A o \in Op : op[o].state # "absent" => op[op[o].action].state # "absent"
  /\ \A o, p \in Op :
       /\ o # p /\ op[o].action = op[p].action
       /\ op[o].state # "absent" /\ op[p].state # "absent"
       => op[o].next # NoOp \/ op[p].next # NoOp

Superseded ==
  \A o \in Op : op[o].next # NoOp =>
    /\ op[o].state = "unsigned_failed"
    /\ \A r \in Resv : opOf[r] = o => pay[r].state = "released"

\* Evidence that releases a row closes its operation.
ReleaseCloses ==
  \A r \in Resv : pay[r].state = "released" /\ pay[r].reason # "signature_refused"
    => op[opOf[r]].state # "pending"

Answering ==
  \A c \in Callers : caller[c].pc = "settled" =>
    pay[caller[c].resv].state \in {"settled", "released"}

IInv ==
  /\ TypeOK /\ Rows /\ OneRow
  /\ Holding /\ Sole /\ Begun /\ Unrefused
  /\ Proofs /\ Sending /\ Disclosure
  /\ ChainFacts /\ Evidence /\ Dead
  /\ Line /\ Superseded
  /\ ReleaseCloses /\ Answering /\ CompleteIsSettled

-----------------------------------------------------------------------------
(* Shapes of rows *)

\* What the type of an operation's row says of its fields.
LEMMA OpShape ==
  ASSUME TypeOK, NEW o \in Op
  PROVE  /\ op[o].state \in {"absent", "pending", "complete", "unsigned_failed"}
         /\ op[o].fp \in Fps /\ op[o].repl \in BOOLEAN
         /\ op[o].next \in Op \cup {NoOp} /\ op[o].action \in Op \cup {NoOp}
         /\ op[o].state # "absent" => op[o].action \in Op
         /\ op[o].hdr = "none" <=> op[o].proof = NoResv
         /\ op[o].hdr \in {"none", "plain", "v1"}
         /\ op[o].proof \in Resv \cup {NoResv}
         /\ op[o].state \in {"absent", "complete"} => op[o].hdr = "none"
         /\ op[o].state = "absent" => op[o].next = NoOp
<1>1. CASE op[o] = AbsentOp
  <2>1. (CHOOSE f \in Fps : TRUE) \in Fps
    BY OperationsAssumption DEF OperationsAssumption
  <2>2. QED
    BY <1>1, <2>1 DEF AbsentOp
<1>2. CASE op[o] \in UnprovenRow
  BY <1>2 DEF UnprovenRow
<1>3. CASE op[o] \in ProvenRow
  BY <1>3, OperationsAssumption DEF ProvenRow, OperationsAssumption
<1>4. QED
  BY <1>1, <1>2, <1>3 DEF TypeOK, OpRow

\* The writes of begin, save_headers, complete and abandon keep the type.
LEMMA OpWrites ==
  ASSUME TypeOK, NEW o \in Op, op[o].state # "absent"
  PROVE  /\ op[o] \in UnprovenRow \cup ProvenRow
         /\ op[o].state # "complete" =>
              /\ [op[o] EXCEPT !.state = "pending"] \in OpRow
              /\ [op[o] EXCEPT !.state = "unsigned_failed"] \in OpRow
         /\ [op[o] EXCEPT !.repl = TRUE] \in OpRow
         /\ \A n \in Op : [op[o] EXCEPT !.next = n] \in OpRow
         /\ [op[o] EXCEPT !.state = "complete", !.hdr = "none", !.proof = NoResv] \in OpRow
         /\ \A h \in {"plain", "v1"}, r \in Resv : op[o].state = "pending" =>
              [op[o] EXCEPT !.hdr = h, !.proof = r] \in OpRow
<1>1. op[o] \in UnprovenRow \cup ProvenRow
  BY DEF TypeOK, OpRow, AbsentOp
<1>2. op[o].state # "complete" =>
        /\ [op[o] EXCEPT !.state = "pending"] \in OpRow
        /\ [op[o] EXCEPT !.state = "unsigned_failed"] \in OpRow
  BY <1>1 DEF OpRow, UnprovenRow, ProvenRow
<1>3. [op[o] EXCEPT !.repl = TRUE] \in OpRow
  BY <1>1 DEF OpRow, UnprovenRow, ProvenRow
<1>4. \A n \in Op : [op[o] EXCEPT !.next = n] \in OpRow
  BY <1>1 DEF OpRow, UnprovenRow, ProvenRow
<1>5. [op[o] EXCEPT !.state = "complete", !.hdr = "none", !.proof = NoResv] \in OpRow
  BY <1>1 DEF OpRow, UnprovenRow, ProvenRow
<1>6. \A h \in {"plain", "v1"}, r \in Resv : op[o].state = "pending" =>
        [op[o] EXCEPT !.hdr = h, !.proof = r] \in OpRow
  BY <1>1 DEF OpRow, UnprovenRow, ProvenRow
<1>7. QED
  BY <1>1, <1>2, <1>3, <1>4, <1>5, <1>6

\* A new operation has the type of a row.
LEMMA NewOpType ==
  ASSUME NEW f \in Fps, NEW a \in Op
  PROVE  NewOp(f, a) \in OpRow
  BY DEF NewOp, OpRow, UnprovenRow

\* A caller that has left idle holds an operation, and a row once it reserved.
LEMMA CallerShape ==
  ASSUME TypeOK, NEW c \in Callers
  PROVE  /\ caller[c].pc = "idle" => caller[c].op = NoOp
         /\ caller[c].pc # "idle" => caller[c].op \in Op
         /\ caller[c].pc \notin {"idle", "begun"} => caller[c].resv \in Resv
         /\ caller[c].pc \in {"idle", "begun", "refused"} \cup Signing
         /\ caller[c].pc \notin {"idle", "begun"} =>
              \A pc \in {"refused"} \cup Signing : [caller[c] EXCEPT !.pc = pc] \in CallerRow
  BY DEF TypeOK, CallerRow, Idle, Signing

-----------------------------------------------------------------------------
(* Types *)

\* Whatever a caller or a worker does to the ledger is a ledger transaction.
LEMMA LedgerPart ==
  ASSUME TypeOK, [Next]_vars
  PROVE  [LedgerNext]_ledgerVars
<1> USE DEF LedgerNext
<1>1. ASSUME NEW c \in Callers, CallerStep(c) PROVE [LedgerNext]_ledgerVars
  <2>1. ASSUME NEW r \in Resv, NEW a \in Amounts, NEW u \in Unspendable,
               ReserveFor(c, r, a, u)
        PROVE  LedgerNext
    BY <2>1 DEF ReserveFor, Claim
  <2>2. ASSUME RefuseSignature(c) PROVE [LedgerNext]_ledgerVars
    BY <2>2, CallerShape DEF RefuseSignature, Signing
  <2>3. ASSUME Receipt(c) PROVE [LedgerNext]_ledgerVars
    BY <2>3, CallerShape DEF Receipt, Signing
  <2>4. ASSUME NEW failed \in BOOLEAN, Complete(c, failed) PROVE [LedgerNext]_ledgerVars
    BY <2>4 DEF Complete, WatchIfFailed, RowsOf
  <2>5. CASE UNCHANGED ledgerVars
    BY <2>5
  <2>6. QED
    BY <1>1, <2>1, <2>2, <2>3, <2>4, <2>5
       DEF CallerStep, BeginNew, BeginReclaim, BeginReplace, BeginResend, SaveHeaders,
           Send, Disclose, Permit, AbandonUnsigned, Lose
<1>2. ASSUME NEW w \in Workers, WorkerStep(w) PROVE [LedgerNext]_ledgerVars
  <2>1. ASSUME RecordEvidence(w) PROVE [LedgerNext]_ledgerVars
    <3>1. worker[w].resv \in Resv
      BY <2>1, OperationsAssumption DEF RecordEvidence, TypeOK, WorkerRow, Free
    <3>2. QED
      BY <2>1, <3>1 DEF RecordEvidence, Apply
  <2>2. QED
    BY <1>2, <2>1 DEF WorkerStep, Inspect, InspectLocally, Hold
<1>3. ASSUME NEW r \in Resv, ChainStep(r) PROVE UNCHANGED ledgerVars
  BY <1>3 DEF ChainStep, Charge, Cancel, Expire, Finalize, Reorg, OnChain
<1>4. ASSUME LedgerOnly PROVE LedgerNext
  BY <1>4 DEF LedgerOnly
<1>5. CASE Crash \/ UNCHANGED vars
  BY <1>5 DEF Crash, vars
<1>6. QED
  BY <1>1, <1>2, <1>3, <1>4, <1>5 DEF Next

\* Every step keeps the operations, their owners and the chain well typed.
LEMMA TypeStep ==
  TypeOK /\ Holding /\ [Next]_vars => TypeOK'
<1> SUFFICES ASSUME TypeOK, Holding, [Next]_vars PROVE TypeOK'
  OBVIOUS
<1> DEFINE Rest == /\ op \in [Op -> OpRow] /\ opOf \in [Resv -> Op \cup {NoOp}]
                   /\ auth \in [Resv -> AuthRow] /\ caller \in [Callers -> CallerRow]
                   /\ worker \in [Workers -> WorkerRow]
<1>1. Rest
  BY DEF TypeOK
<1>2. ASSUME NEW c \in Callers, CallerStep(c) PROVE Rest'
  <2>1. \A o \in Op : [pc |-> "begun", op |-> o, resv |-> NoResv] \in CallerRow
    BY DEF CallerRow
  <2>2. Idle \in CallerRow
    BY DEF CallerRow
  <2>3. ASSUME NEW o \in Op, NEW f \in Fps, BeginNew(c, o, f) PROVE Rest'
    <3>1. op' \in [Op -> OpRow]
      BY <1>1, <2>3, NewOpType DEF BeginNew
    <3>2. QED
      BY <1>1, <2>1, <2>3, <3>1 DEF BeginNew, Own
  <2>4. ASSUME NEW o \in Op, BeginReclaim(c, o) PROVE Rest'
    <3>1. op' \in [Op -> OpRow]
      BY <1>1, <2>4, OpWrites DEF BeginReclaim
    <3>2. QED
      BY <1>1, <2>1, <2>4, <3>1 DEF BeginReclaim, Own
  <2>5. ASSUME NEW o \in Op, NEW n \in Op, BeginReplace(c, o, n) PROVE Rest'
    <3>1. op[o].state = "unsigned_failed" /\ op[n].state = "absent" /\ n # o
      BY <2>5 DEF BeginReplace, ProvenUnpaid
    <3>2. NewOp(op[o].fp, op[o].action) \in OpRow
      BY <3>1, OpShape, NewOpType
    <3>3. [op[o] EXCEPT !.next = n] \in OpRow
      BY <3>1, OpWrites
    <3>4. op' = [[op EXCEPT ![n] = NewOp(op[o].fp, op[o].action)]
                   EXCEPT ![o] = [op[o] EXCEPT !.next = n]]
      BY <1>1, <2>5, <3>1 DEF BeginReplace, Linked
    <3>5. op' \in [Op -> OpRow]
      BY <1>1, <3>2, <3>3, <3>4
    <3>6. QED
      BY <1>1, <2>1, <2>5, <3>5 DEF BeginReplace, Own
  <2>6. ASSUME NEW o \in Op, BeginResend(c, o) PROVE Rest'
    <3>1. op[o].proof \in Resv
      BY <2>6, OpShape DEF BeginResend
    <3>2. [pc |-> "resending", op |-> o, resv |-> op[o].proof] \in CallerRow
      BY <3>1 DEF CallerRow
    <3>3. QED
      BY <1>1, <2>6, <3>2 DEF BeginResend
  <2>7. ASSUME NEW r \in Resv, NEW a \in Amounts, NEW u \in Unspendable,
               ReserveFor(c, r, a, u)
        PROVE  Rest'
    <3>1. caller[c].op \in Op
      BY <2>7, CallerShape DEF ReserveFor
    <3>2. [caller[c] EXCEPT !.pc = "reserved", !.resv = r] \in CallerRow
      <4>1. caller[c] \in [pc : {"begun"}, op : Op, resv : {NoResv}]
        BY <1>1, <2>7 DEF ReserveFor, CallerRow, Idle
      <4>2. QED
        BY <4>1 DEF CallerRow
    <3>3. [auth[r] EXCEPT !.unspendable = u] \in AuthRow
      BY <1>1, OperationsAssumption DEF AuthRow, OperationsAssumption
    <3>4. QED
      BY <1>1, <2>7, <3>1, <3>2, <3>3 DEF ReserveFor, Claim
  <2>8. ASSUME RefuseSignature(c) PROVE Rest'
    BY <1>1, <2>8, CallerShape DEF RefuseSignature, Goto, Signing
  <2>9. ASSUME NEW h \in Idempotency, SaveHeaders(c, h) PROVE Rest'
    <3>1. caller[c].op \in Op /\ caller[c].resv \in Resv /\ h \in {"plain", "v1"}
      BY <2>9, CallerShape, OperationsAssumption DEF SaveHeaders, OperationsAssumption
    <3>2. op' \in [Op -> OpRow]
      BY <1>1, <2>9, <3>1, OpWrites DEF SaveHeaders
    <3>3. caller' \in [Callers -> CallerRow]
      BY <1>1, <2>9, CallerShape DEF SaveHeaders, Goto, Signing
    <3>4. QED
      BY <1>1, <2>9, <3>2, <3>3 DEF SaveHeaders
  <2>10. ASSUME Send(c) PROVE Rest'
    <3>1. caller[c].resv \in Resv /\ [auth[caller[c].resv] EXCEPT !.disclosed = TRUE] \in AuthRow
      BY <1>1, <2>10, CallerShape DEF Send, AuthRow, Signing
    <3>2. caller' \in [Callers -> CallerRow]
      BY <1>1, <2>10, CallerShape DEF Send, Disclose, Goto, Signing
    <3>3. QED
      BY <1>1, <2>10, <3>1, <3>2 DEF Send, Disclose
  <2>11. ASSUME Permit(c) PROVE Rest'
    <3>1. op' \in [Op -> OpRow]
      BY <1>1, <2>11, CallerShape, OpWrites DEF Permit, Holding
    <3>2. caller' \in [Callers -> CallerRow]
      BY <1>1, <2>11, CallerShape DEF Permit, Goto, Signing
    <3>3. QED
      BY <1>1, <2>11, <3>1, <3>2 DEF Permit
  <2>12. ASSUME Receipt(c) PROVE Rest'
    BY <1>1, <2>12, CallerShape DEF Receipt, Goto, Signing
  <2>13. ASSUME NEW failed \in BOOLEAN, Complete(c, failed) PROVE Rest'
    <3>1. op' \in [Op -> OpRow]
      BY <1>1, <2>13, CallerShape, OpWrites DEF Complete, Answered
    <3>2. QED
      BY <1>1, <2>2, <2>13, <3>1 DEF Complete, Leave
  <2>14. ASSUME AbandonUnsigned(c) PROVE Rest'
    <3>1. op' \in [Op -> OpRow]
      BY <1>1, <2>14, CallerShape, OpWrites DEF AbandonUnsigned
    <3>2. QED
      BY <1>1, <2>2, <2>14, <3>1 DEF AbandonUnsigned, Leave
  <2>15. ASSUME Lose(c) PROVE Rest'
    BY <1>1, <2>2, <2>15 DEF Lose, Leave
  <2>16. QED
    BY <1>2, <2>3, <2>4, <2>5, <2>6, <2>7, <2>8, <2>9, <2>10, <2>11, <2>12, <2>13, <2>14,
       <2>15 DEF CallerStep
<1>3. ASSUME NEW w \in Workers, WorkerStep(w) PROVE Rest'
  <2>1. ASSUME NEW r \in Resv, NEW out \in {"settled"} \cup EvidenceReasons,
               pay[r].state = "authorized", Hold(w, r, out)
        PROVE  Rest'
    <3>1. [resv |-> r, row |-> pay[r], outcome |-> out] \in WorkerRow
      BY <2>1, LiveRowType DEF WorkerRow, TypeOK
    <3>2. QED
      BY <1>1, <2>1, <3>1 DEF Hold
  <2>2. ASSUME NEW r \in Resv, Inspect(w, r) PROVE Rest'
    <3>1. ChainOutcome(r) \in {"settled"} \cup EvidenceReasons
      BY <2>2 DEF Inspect, ChainOutcome, EvidenceReasons
    <3>2. QED
      BY <2>1, <2>2, <3>1 DEF Inspect
  <2>3. ASSUME NEW r \in Resv, InspectLocally(w, r) PROVE Rest'
    BY <2>1, <2>3 DEF InspectLocally, EvidenceReasons
  <2>4. ASSUME RecordEvidence(w) PROVE Rest'
    <3>1. op' \in [Op -> OpRow]
      <4>1. \A o \in Op : Closed(o) \in [Op -> OpRow]
        BY <1>1, OpWrites DEF Closed
      <4>2. \A o : o \notin Op => Closed(o) \in [Op -> OpRow]
        BY <1>1 DEF Closed
      <4>3. QED
        BY <1>1, <2>4, <4>1, <4>2 DEF RecordEvidence, Apply
    <3>2. Free \in WorkerRow
      BY DEF WorkerRow
    <3>3. QED
      BY <1>1, <2>4, <3>1, <3>2 DEF RecordEvidence, Conclude
  <2>5. QED
    BY <1>3, <2>2, <2>3, <2>4 DEF WorkerStep
<1>4. ASSUME NEW r \in Resv, ChainStep(r) PROVE Rest'
  <2>1. \A a \in AuthRow : /\ [a EXCEPT !.chain = "used"] \in AuthRow
                           /\ [a EXCEPT !.chain = "cancelled"] \in AuthRow
                           /\ [a EXCEPT !.expired = TRUE] \in AuthRow
                           /\ [a EXCEPT !.fin = a.chain, !.finExpired = a.expired] \in AuthRow
                           /\ [a EXCEPT !.chain = a.fin, !.expired = a.finExpired] \in AuthRow
    BY DEF AuthRow
  <2>2. \E row \in AuthRow : OnChain(r, row)
    <3>1. auth[r] \in AuthRow
      BY <1>1
    <3>2. QED
      BY <1>4, <2>1, <3>1 DEF ChainStep, Charge, Cancel, Expire, Finalize, Reorg
  <2>3. QED
    BY <1>1, <2>2 DEF OnChain
<1>5. ASSUME LedgerOnly PROVE Rest'
  BY <1>1, <1>5 DEF LedgerOnly
<1>6. ASSUME Crash PROVE Rest'
  BY <1>1, <1>6 DEF Crash, CallerRow, WorkerRow
<1>7. ASSUME UNCHANGED vars PROVE Rest'
  BY <1>1, <1>7 DEF vars
<1>8. Rest'
  BY <1>2, <1>3, <1>4, <1>5, <1>6, <1>7 DEF Next
<1>9. LedgerTypeOK'
  BY LedgerPart, LedgerTypeStep DEF TypeOK
<1>10. QED
  BY <1>8, <1>9 DEF TypeOK

-----------------------------------------------------------------------------
(* The invariant, step by step *)

\* What rows, operations and callers point to exists.
LEMMA Pointers ==
  ASSUME TypeOK, Rows
  PROVE  /\ \A r \in Resv : /\ opOf[r] \in Op \cup {NoOp}
                            /\ pay[r].state # "absent" => opOf[r] \in Op
         /\ \A o \in Op : /\ op[o].state # "absent" => op[o].action \in Op
                          /\ op[o].proof \in Resv \cup {NoResv}
         /\ \A d \in Callers :
              /\ caller[d].op \in Op \cup {NoOp}
              /\ caller[d].pc = "idle" => caller[d].op = NoOp
              /\ caller[d].pc # "idle" => caller[d].op \in Op
              /\ caller[d].pc \notin {"idle", "begun"} => caller[d].resv \in Resv
              /\ caller[d].pc \in Signing => caller[d].op \in Op /\ caller[d].resv \in Resv
  BY OpShape, CallerShape, OperationsAssumption DEF TypeOK, Rows, Signing

\* The program starts with nothing signed.
LEMMA InvInit == Init => IInv
<1> SUFFICES ASSUME Init PROVE IInv
  OBVIOUS
<1>1. LedgerTypeOK
  BY LedgerTypeInit DEF Init
<1>2. TypeOK
  BY <1>1 DEF TypeOK, Init, OpRow, AuthRow, NewAuth, CallerRow, WorkerRow
<1>3. Rows /\ OneRow
  BY DEF Init, LedgerInit, AbsentRow, NewAuth, Rows, OneRow
<1>4. Holding /\ Sole /\ Begun /\ Unrefused /\ Sending /\ Answering
  BY DEF Init, Idle, Holding, Sole, Begun, Unrefused, Sending, Answering, Signing
<1>5. Proofs /\ Line /\ Superseded /\ CompleteIsSettled
  BY DEF Init, AbsentOp, Proofs, Line, Superseded, CompleteIsSettled
<1>6. Disclosure /\ ChainFacts
  BY DEF Init, NewAuth, Disclosure, ChainFacts
<1>7. Evidence
  BY OperationsAssumption DEF Init, Free, Evidence
<1>8. Dead /\ ReleaseCloses
  BY DEF Init, LedgerInit, AbsentRow, Dead, ReleaseCloses
<1>9. QED
  BY <1>2, <1>3, <1>4, <1>5, <1>6, <1>7, <1>8 DEF IInv

\* Losing callers and workers, or moving only budget and refunds, disturbs nothing.
LEMMA Frame ==
  ASSUME IInv, TypeOK', UNCHANGED <<pay, op, opOf, auth>>,
         \A c \in Callers : caller'[c] = caller[c] \/ caller'[c] = Idle,
         \A w \in Workers : worker'[w] = worker[w] \/ worker'[w] = Free
  PROVE  IInv'
<1> USE DEF IInv
<1>1. (Rows /\ OneRow /\ Proofs /\ Disclosure /\ ChainFacts)'
  BY DEF Rows, OneRow, Proofs, Disclosure, ChainFacts
<1>2. (Dead /\ Line /\ Superseded /\ ReleaseCloses /\ CompleteIsSettled)'
  BY DEF Dead, Proves, Line, Superseded, ReleaseCloses, CompleteIsSettled, RowsOf
<1>3. Evidence'
  BY OperationsAssumption DEF Evidence, Proves, Free
<1>4. (Holding /\ Begun /\ Unrefused /\ Sending /\ Answering)'
  BY DEF Holding, Begun, Unrefused, Sending, Answering, Idle, Signing
<1>5. Sole'
  <2>1. ASSUME NEW c \in Callers, caller'[c].pc \in {"begun", "reserved"}
        PROVE  \A d \in Callers \ {c} : caller'[d].op # caller'[c].op
    <3>1. caller'[c] = caller[c] /\ caller[c].op \in Op
      BY <2>1, CallerShape DEF Idle
    <3>2. QED
      BY <2>1, <3>1, OperationsAssumption DEF Sole, Idle
  <2>2. QED
    BY <2>1 DEF Sole, Idle
<1>6. QED
  BY <1>1, <1>2, <1>3, <1>4, <1>5

\* The chain moves an authorization only as far as ChainFacts allows; what is
\* final stays.
LEMMA ChainKeeps ==
  ASSUME IInv, TypeOK', NEW q \in Resv, ChainStep(q)
  PROVE  IInv'
<1> USE DEF IInv
<1>1. /\ UNCHANGED <<pay, op, opOf, caller, worker>>
      /\ \A r \in Resv \ {q} : auth'[r] = auth[r]
  BY DEF ChainStep, Charge, Cancel, Expire, Finalize, Reorg, OnChain, TypeOK, ledgerVars
<1> DEFINE a == auth[q]
           b == auth'[q]
<1>2. a \in AuthRow
  BY DEF TypeOK
<1>3. \/ /\ a.disclosed /\ ~a.unspendable /\ a.chain = "unused" /\ ~a.expired
         /\ b = [a EXCEPT !.chain = "used"]
      \/ /\ pay[q].state # "absent" /\ a.chain = "unused"
         /\ b = [a EXCEPT !.chain = "cancelled"]
      \/ b = [a EXCEPT !.expired = TRUE]
      \/ b = [a EXCEPT !.fin = a.chain, !.finExpired = a.expired]
      \/ b = [a EXCEPT !.chain = a.fin, !.expired = a.finExpired]
  BY DEF ChainStep, Charge, Cancel, Expire, Finalize, Reorg, OnChain, TypeOK
<1>4. /\ a.finExpired => a.expired
      /\ a.fin # "unused" => a.chain = a.fin
      /\ a.finExpired /\ a.fin = "unused" => a.chain # "used"
      /\ a.unspendable \/ ~a.disclosed => a.chain # "used" /\ a.fin # "used"
  BY DEF ChainFacts
<1> HIDE DEF a, b
<1>5. /\ b.disclosed = a.disclosed /\ b.unspendable = a.unspendable
      /\ a.fin # "unused" => b.fin = a.fin
      /\ a.finExpired => b.finExpired
  BY <1>2, <1>3, <1>4 DEF AuthRow
<1>6. /\ b.finExpired => b.expired
      /\ b.fin # "unused" => b.chain = b.fin
      /\ b.finExpired /\ b.fin = "unused" => b.chain # "used"
      /\ b.unspendable \/ ~b.disclosed => b.chain # "used" /\ b.fin # "used"
  BY <1>2, <1>3, <1>4 DEF AuthRow
<1>7. a.finExpired /\ a.fin # "used" => b.fin # "used"
  BY <1>2, <1>3, <1>4 DEF AuthRow
<1>8. pay[q].state = "absent" /\ a.chain = "unused" /\ a.fin = "unused" /\ ~a.disclosed =>
        b.chain = "unused" /\ b.fin = "unused"
  BY <1>2, <1>3 DEF AuthRow
<1>9. ChainFacts'
  BY <1>1, <1>6 DEF ChainFacts, b
<1>10. (Rows /\ Disclosure)'
  BY <1>1, <1>5, <1>8 DEF Rows, Disclosure, a, b
<1>11. \A r \in Resv : \A out : Proves(r, out) => Proves(r, out)'
  BY <1>1, <1>2, <1>5, <1>7 DEF Proves, a, b, AuthRow
<1>12. Evidence'
  <2>1. \A w \in Workers : worker[w].resv # NoResv => worker[w].resv \in Resv
    BY DEF TypeOK, WorkerRow, Free
  <2>2. QED
    BY <1>1, <1>11, <2>1 DEF Evidence
<1>13. Dead'
  BY <1>1, <1>5, <1>11 DEF Dead, a, b
<1>14. (OneRow /\ Holding /\ Sole /\ Begun /\ Unrefused /\ Proofs /\ Sending)'
  BY <1>1 DEF OneRow, Holding, Sole, Begun, Unrefused, Proofs, Sending
<1>15. (Line /\ Superseded /\ ReleaseCloses /\ Answering /\ CompleteIsSettled)'
  BY <1>1 DEF Line, Superseded, ReleaseCloses, Answering, CompleteIsSettled, RowsOf
<1>16. QED
  BY <1>9, <1>10, <1>12, <1>13, <1>14, <1>15

\* A new operation has no rows, no other caller, and starts its own line.
LEMMA BeginNewKeeps ==
  ASSUME IInv, TypeOK', NEW c \in Callers, NEW o \in Op, NEW f \in Fps, BeginNew(c, o, f)
  PROVE  IInv'
<1> USE DEF IInv
<1>1. /\ UNCHANGED <<pay, opOf, auth, worker>>
      /\ op[o].state = "absent" /\ op[o].hdr = "none"
      /\ op'[o] = NewOp(f, o) /\ \A p \in Op \ {o} : op'[p] = op[p]
      /\ caller[c].pc = "idle"
      /\ caller'[c] = [pc |-> "begun", op |-> o, resv |-> NoResv]
      /\ \A d \in Callers \ {c} : caller'[d] = caller[d]
  BY OpShape DEF BeginNew, Own, TypeOK, ledgerVars
<1>2. \A d \in Callers : caller[d].op # o /\ caller[d].op \in Op \cup {NoOp}
  BY <1>1, CallerShape, OperationsAssumption DEF Holding
<1>3. \A r \in Resv : opOf[r] # o /\ opOf[r] \in Op \cup {NoOp}
  BY <1>1, OperationsAssumption DEF Rows, TypeOK
<1>4. (Rows /\ OneRow /\ Proofs /\ Disclosure /\ ChainFacts)'
  BY <1>1, <1>3, OperationsAssumption DEF Rows, OneRow, Proofs, Disclosure, ChainFacts, NewOp
<1>5. (Holding /\ Sole /\ Begun)'
  BY <1>1, <1>2, <1>3, CallerShape, OperationsAssumption DEF Holding, Sole, Begun, NewOp
<1>6. (Unrefused /\ Sending /\ Answering)'
  <2>1. \A d \in Callers : caller'[d].pc \in Signing =>
          /\ caller'[d] = caller[d] /\ op'[caller[d].op] = op[caller[d].op]
    BY <1>1, <1>2, Pointers DEF Signing
  <2>2. QED
    BY <1>1, <2>1 DEF Unrefused, Sending, Answering, Signing
<1>7. (Evidence /\ Dead)'
  BY <1>1 DEF Evidence, Dead, Proves
<1>8. Line'
  <2>1. \A p \in Op : p # o /\ op[p].state # "absent" => op[p].action # o /\ op[p].action \in Op
    BY <1>1, OpShape DEF Line
  <2>2. QED
    BY <1>1, <2>1 DEF Line, NewOp
<1>9. (Superseded /\ ReleaseCloses /\ CompleteIsSettled)'
  BY <1>1, <1>3, OperationsAssumption
     DEF Superseded, ReleaseCloses, CompleteIsSettled, RowsOf, NewOp, Rows
<1>10. QED
  BY <1>4, <1>5, <1>6, <1>7, <1>8, <1>9

\* Nobody else can hold an operation that failed before it had a row.
LEMMA BeginReclaimKeeps ==
  ASSUME IInv, TypeOK', NEW c \in Callers, NEW o \in Op, BeginReclaim(c, o)
  PROVE  IInv'
<1> USE DEF IInv
<1>1. /\ UNCHANGED <<pay, opOf, auth, worker>>
      /\ op[o].state = "unsigned_failed" /\ op[o].next = NoOp
      /\ \A p \in Op \ {o} : op'[p] = op[p]
      /\ caller[c].pc = "idle"
      /\ caller'[c] = [pc |-> "begun", op |-> o, resv |-> NoResv]
      /\ \A d \in Callers \ {c} : caller'[d] = caller[d]
  BY DEF BeginReclaim, Own, TypeOK, ledgerVars
<1>2. \A r \in Resv : opOf[r] # o /\ opOf[r] \in Op \cup {NoOp}
  BY DEF BeginReclaim, RowsOf, TypeOK
<1>3. op[o].hdr = "none" /\ op[o].proof = NoResv
  BY <1>2, OpShape DEF Proofs
<1>4. /\ op'[o].state = "pending" /\ op'[o].next = NoOp
      /\ op'[o].hdr = "none" /\ op'[o].proof = NoResv /\ op'[o].action = op[o].action
  <2>1. op'[o] = [op[o] EXCEPT !.state = "pending"]
    BY DEF BeginReclaim, TypeOK
  <2>2. QED
    BY <1>1, <1>3, <2>1, OpWrites DEF UnprovenRow, ProvenRow
<1>5. \A d \in Callers : caller[d].op # o /\ caller[d].op \in Op \cup {NoOp}
  BY <1>1, <1>2, CallerShape, OperationsAssumption DEF Holding, Begun
<1>6. (Rows /\ OneRow /\ Proofs)'
  BY <1>1, <1>2, <1>4 DEF Rows, OneRow, Proofs
<1>7. (Disclosure /\ ChainFacts)'
  BY <1>1, <1>2, <1>4, OperationsAssumption DEF Disclosure, ChainFacts, Rows
<1>8. (Holding /\ Sole /\ Begun)'
  BY <1>1, <1>2, <1>4, <1>5, Pointers, OperationsAssumption DEF Holding, Sole, Begun
<1>9. (Unrefused /\ Sending /\ Answering)'
  <2>1. \A d \in Callers : caller'[d].pc \in Signing =>
          /\ caller'[d] = caller[d] /\ op'[caller[d].op] = op[caller[d].op]
    BY <1>1, <1>5, Pointers DEF Signing
  <2>2. QED
    BY <1>1, <2>1 DEF Unrefused, Sending, Answering, Signing
<1>10. (Evidence /\ Dead)'
  BY <1>1 DEF Evidence, Dead, Proves
<1>11. Line'
  BY <1>1, <1>4, Pointers DEF Line
<1>12. (Superseded /\ ReleaseCloses)'
  BY <1>1, <1>2, <1>4, Pointers DEF Superseded, ReleaseCloses
<1>13. CompleteIsSettled'
  BY <1>1, <1>4 DEF CompleteIsSettled, RowsOf
<1>14. QED
  BY <1>6, <1>7, <1>8, <1>9, <1>10, <1>11, <1>12, <1>13

\* The successor is new; the operation it supersedes holds only dead rows.
LEMMA BeginReplaceKeeps ==
  ASSUME IInv, TypeOK', NEW c \in Callers, NEW o \in Op, NEW n \in Op, BeginReplace(c, o, n)
  PROVE  IInv'
<1> USE DEF IInv
<1>1. /\ UNCHANGED <<pay, opOf, auth, worker>>
      /\ op[o].state = "unsigned_failed" /\ op[o].next = NoOp
      /\ op[n].state = "absent" /\ n # o
      /\ \A r \in Resv : opOf[r] = o => pay[r].state = "released"
      /\ \A p \in Op \ {o, n} : op'[p] = op[p]
      /\ caller[c].pc = "idle"
      /\ caller'[c] = [pc |-> "begun", op |-> n, resv |-> NoResv]
      /\ \A d \in Callers \ {c} : caller'[d] = caller[d]
  BY DEF BeginReplace, ProvenUnpaid, RowsOf, Linked, Own, TypeOK, ledgerVars
<1>2. /\ op'[n].state = "pending" /\ op'[n].next = NoOp /\ op'[n].action = op[o].action
      /\ op'[n].hdr = "none" /\ op'[n].proof = NoResv
  <2>1. op'[n] = NewOp(op[o].fp, op[o].action)
    BY <1>1 DEF BeginReplace, Linked, TypeOK
  <2>2. QED
    BY <2>1 DEF NewOp
<1>3. /\ op'[o].state = op[o].state /\ op'[o].next = n /\ op'[o].action = op[o].action
      /\ op'[o].hdr = op[o].hdr /\ op'[o].proof = op[o].proof
  <2>1. op'[o] = [op[o] EXCEPT !.next = n]
    BY <1>1 DEF BeginReplace, Linked, TypeOK
  <2>2. QED
    BY <1>1, <2>1, OpWrites DEF UnprovenRow, ProvenRow
<1>4. \A d \in Callers : caller[d].op # n
  BY <1>1, Pointers, OperationsAssumption DEF Holding
<1>5. \A r \in Resv : opOf[r] # n
  BY <1>1, OperationsAssumption DEF Rows
<1>6. op[n].proof = NoResv
  BY <1>1, OpShape
<1>7. (Rows /\ OneRow /\ Proofs)'
  BY <1>1, <1>2, <1>3, <1>5, <1>6, Pointers DEF Rows, OneRow, Proofs
<1>8. (Disclosure /\ ChainFacts)'
  BY <1>1, <1>2, <1>3, <1>5, Pointers, OperationsAssumption DEF Disclosure, ChainFacts, Rows
<1>9. (Holding /\ Begun)'
  BY <1>1, <1>2, <1>3, <1>4, <1>5, Pointers, OperationsAssumption DEF Holding, Begun
<1>10. Sole'
  BY <1>1, <1>2, <1>3, <1>4, <1>5, Pointers, OperationsAssumption DEF Sole
<1>11. (Unrefused /\ Sending /\ Answering)'
  <2>1. \A d \in Callers : caller'[d].pc \in Signing =>
          /\ caller'[d] = caller[d]
          /\ op'[caller[d].op].proof = op[caller[d].op].proof
          /\ op'[caller[d].op].state = op[caller[d].op].state
    BY <1>1, <1>3, <1>4, Pointers DEF Signing
  <2>2. QED
    BY <1>1, <2>1 DEF Unrefused, Sending, Answering, Signing
<1>12. (Evidence /\ Dead)'
  BY <1>1 DEF Evidence, Dead, Proves
<1>13. Line'
  <2>1. \A p \in Op : op'[p].state # "absent" => op'[op'[p].action].state # "absent"
    BY <1>1, <1>2, <1>3, Pointers DEF Line
  <2>2. n # NoOp /\ op'[o].next # NoOp
    BY <1>3, OperationsAssumption
  <2>3. \A p \in Op \ {o, n} : op'[p].action = op[o].action /\ op'[p].state # "absent" =>
          op'[p].next # NoOp
    BY <1>1 DEF Line
  <2>4. QED
    BY <1>1, <1>2, <1>3, <2>1, <2>2, <2>3 DEF Line
<1>14. (Superseded /\ ReleaseCloses)'
  BY <1>1, <1>2, <1>3, <1>5, Pointers DEF Superseded, ReleaseCloses
<1>15. CompleteIsSettled'
  BY <1>1, <1>2, <1>3 DEF CompleteIsSettled, RowsOf
<1>16. QED
  BY <1>7, <1>8, <1>9, <1>10, <1>11, <1>12, <1>13, <1>14, <1>15

\* Only a stored proof is sent again.
LEMMA BeginResendKeeps ==
  ASSUME IInv, TypeOK', NEW c \in Callers, NEW o \in Op, BeginResend(c, o)
  PROVE  IInv'
<1> USE DEF IInv
<1>1. /\ UNCHANGED <<pay, op, opOf, auth, worker>>
      /\ op[o].hdr = "v1" /\ op[o].state # "absent"
      /\ op[o].proof \in Resv
      /\ caller[c].pc = "idle"
      /\ caller'[c] = [pc |-> "resending", op |-> o, resv |-> op[o].proof]
      /\ \A d \in Callers \ {c} : caller'[d] = caller[d]
  BY OpShape DEF BeginResend, ProvenUnpaid, TypeOK, ledgerVars
<1>2. opOf[op[o].proof] = o /\ pay[op[o].proof].reason # "signature_refused"
  BY <1>1, OperationsAssumption DEF Proofs
<1>3. \A d \in Callers : caller[d].pc \in {"begun", "reserved"} => caller[d].op # o
  BY <1>1 DEF Sole
<1>4. (Rows /\ OneRow /\ Proofs /\ Disclosure /\ ChainFacts)'
  BY <1>1 DEF Rows, OneRow, Proofs, Disclosure, ChainFacts
<1>5. (Holding /\ Sole /\ Begun)'
  BY <1>1, <1>2, <1>3 DEF Holding, Sole, Begun
<1>6. (Unrefused /\ Sending /\ Answering)'
  BY <1>1, <1>2 DEF Unrefused, Sending, Answering
<1>7. (Evidence /\ Dead /\ Line)'
  BY <1>1 DEF Evidence, Dead, Proves, Line
<1>8. (Superseded /\ ReleaseCloses /\ CompleteIsSettled)'
  BY <1>1 DEF Superseded, ReleaseCloses, CompleteIsSettled, RowsOf
<1>9. QED
  BY <1>4, <1>5, <1>6, <1>7, <1>8

\* The one row of an operation is made by the sole caller that has begun it.
LEMMA ReserveKeeps ==
  ASSUME IInv, TypeOK', NEW c \in Callers, NEW q \in Resv, NEW a \in Amounts,
         NEW u \in Unspendable, ReserveFor(c, q, a, u)
  PROVE  IInv'
<1> USE DEF IInv
<1> DEFINE o == caller[c].op
<1>1. /\ UNCHANGED <<op, worker>> /\ o \in Op
      /\ caller[c].pc = "begun" /\ op[o].state = "pending"
      /\ pay[q].state = "absent"
      /\ pay'[q].state = "authorized" /\ pay'[q].reason = "none"
      /\ \A r \in Resv \ {q} : pay'[r] = pay[r]
      /\ opOf'[q] = o /\ \A r \in Resv \ {q} : opOf'[r] = opOf[r]
      /\ \A r \in Resv \ {q} : auth'[r] = auth[r]
      /\ caller'[c].pc = "reserved" /\ caller'[c].op = o /\ caller'[c].resv = q
      /\ \A d \in Callers \ {c} : caller'[d] = caller[d]
  BY Pointers DEF ReserveFor, Claim, Reserve, Booked, TypeOK, LedgerTypeOK
<1>2. /\ auth'[q].disclosed = auth[q].disclosed /\ auth'[q].chain = auth[q].chain
      /\ auth'[q].fin = auth[q].fin /\ auth'[q].expired = auth[q].expired
      /\ auth'[q].finExpired = auth[q].finExpired
  <2>1. auth'[q] = [auth[q] EXCEPT !.unspendable = u]
    BY DEF ReserveFor, Claim, TypeOK
  <2>2. QED
    BY <2>1 DEF TypeOK, AuthRow
<1>3. /\ opOf[q] = NoOp /\ auth[q].chain = "unused" /\ auth[q].fin = "unused"
      /\ ~auth[q].disclosed
  BY <1>1 DEF Rows
<1>4. /\ \A r \in Resv : opOf[r] # o
      /\ op[o].hdr = "none" /\ op[o].proof = NoResv /\ op[o].next = NoOp
      /\ \A d \in Callers \ {c} : caller[d].op # o
  BY <1>1, OpShape DEF Sole, Begun, Superseded
<1>5. \A d \in Callers : caller[d].pc \notin {"idle", "begun"} =>
        caller[d].resv # q /\ caller[d].op # NoOp
  BY <1>3, Pointers, CallerShape, OperationsAssumption DEF Holding
<1> HIDE DEF o
<1>6. (Rows /\ OneRow)'
  BY <1>1, <1>2, <1>3, <1>4, OperationsAssumption DEF Rows, OneRow
<1>7. (Proofs /\ Disclosure)'
  BY <1>1, <1>2, <1>3, <1>4, Pointers, OperationsAssumption DEF Proofs, Disclosure
<1>8. (Holding /\ Begun)'
  BY <1>1, <1>4, <1>5, Pointers DEF Holding, Begun, o
<1>9. Sole'
  BY <1>1, <1>4, <1>5 DEF Sole, o
<1>10. (Unrefused /\ Sending /\ Answering)'
  BY <1>1, <1>4, <1>5, Pointers DEF Unrefused, Sending, Answering, Signing
<1>11. ChainFacts'
  BY <1>1, <1>2, <1>3 DEF ChainFacts
<1>12. (Evidence /\ Dead)'
  <2>1. \A w \in Workers : worker[w].resv # NoResv => worker[w].resv \in Resv \ {q}
    BY <1>3 DEF Evidence, TypeOK, WorkerRow, Free
  <2>2. QED
    BY <1>1, <2>1 DEF Evidence, Dead, Proves
<1>13. Line'
  BY <1>1 DEF Line
<1>14. (Superseded /\ ReleaseCloses)'
  BY <1>1, <1>4 DEF Superseded, ReleaseCloses
<1>15. CompleteIsSettled'
  BY <1>1, <1>4 DEF CompleteIsSettled, RowsOf
<1>16. QED
  BY <1>6, <1>7, <1>8, <1>9, <1>10, <1>11, <1>12, <1>13, <1>14, <1>15

\* A refused signature was never stored nor disclosed.
LEMMA RefuseKeeps ==
  ASSUME IInv, TypeOK', NEW c \in Callers, RefuseSignature(c)
  PROVE  IInv'
<1> USE DEF IInv
<1> DEFINE o == caller[c].op
           q == caller[c].resv
<1>1. /\ UNCHANGED <<op, opOf, auth, worker>>
      /\ caller[c].pc = "reserved" /\ o \in Op /\ q \in Resv
      /\ caller'[c].pc = "refused" /\ caller'[c].op = o /\ caller'[c].resv = q
      /\ \A d \in Callers \ {c} : caller'[d] = caller[d]
      /\ \A r \in Resv \ {q} : pay'[r] = pay[r]
  BY Pointers DEF RefuseSignature, ReleaseUnsigned, Goto, TypeOK, LedgerTypeOK, ledgerVars, Signing
<1>2. \/ pay'[q] = pay[q]
      \/ /\ pay[q].state = "authorized"
         /\ pay'[q].state = "released" /\ pay'[q].reason = "signature_refused"
  <2>1. CASE ReleaseUnsigned(q)
    <3>1. pay'[q] = [pay[q] EXCEPT !.state = "released", !.reason = "signature_refused"]
      BY <1>1, <2>1 DEF ReleaseUnsigned, TypeOK, LedgerTypeOK
    <3>2. QED
      <4>1. pay[q].state = "authorized" /\ pay[q] \in LiveRow
        BY <1>1, <2>1, LiveRowType DEF ReleaseUnsigned, TypeOK
      <4>2. QED
        BY <3>1, <4>1 DEF LiveRow
  <2>2. QED
    BY <2>1 DEF RefuseSignature, ledgerVars
<1>3. /\ opOf[q] = o /\ op[o].proof = NoResv /\ op[o].state # "complete"
      /\ \A d \in Callers \ {c} : caller[d].op # o
  BY <1>1, OpShape DEF Holding, Sole
<1>4. ~auth[q].disclosed
  BY <1>1, <1>3, OperationsAssumption DEF Disclosure
<1>5. \A d \in Callers \ {c} : caller[d].pc \notin {"idle", "begun"} => caller[d].resv # q
  BY <1>3 DEF Holding
<1> HIDE DEF o, q
<1>6. (Rows /\ OneRow)'
  BY <1>1, <1>2 DEF Rows, OneRow
<1>7. (Proofs /\ Disclosure)'
  BY <1>1, <1>2, <1>3, <1>4, Pointers, OperationsAssumption DEF Proofs, Disclosure
<1>8. (Holding /\ Begun)'
  BY <1>1, <1>3 DEF Holding, Begun, o, q
<1>9. Sole'
  BY <1>1, <1>3 DEF Sole
<1>10. (Unrefused /\ Sending /\ Answering)'
  BY <1>1, <1>5, Pointers DEF Unrefused, Sending, Answering, Signing
<1>11. (ChainFacts /\ Evidence /\ Line)'
  BY <1>1 DEF ChainFacts, Evidence, Proves, Line
<1>12. Dead'
  BY <1>1, <1>2, <1>4 DEF Dead, Proves
<1>13. (Superseded /\ ReleaseCloses)'
  BY <1>1, <1>2 DEF Superseded, ReleaseCloses
<1>14. CompleteIsSettled'
  BY <1>1, <1>2, <1>3 DEF CompleteIsSettled, RowsOf
<1>15. QED
  BY <1>6, <1>7, <1>8, <1>9, <1>10, <1>11, <1>12, <1>13, <1>14

\* The sole caller stores the proof for its own row.
LEMMA SaveKeeps ==
  ASSUME IInv, TypeOK', NEW c \in Callers, NEW h \in Idempotency, SaveHeaders(c, h)
  PROVE  IInv'
<1> USE DEF IInv
<1> DEFINE o == caller[c].op
           q == caller[c].resv
<1>1. /\ UNCHANGED <<pay, opOf, auth, worker>>
      /\ caller[c].pc = "reserved" /\ o \in Op /\ q \in Resv
      /\ op[o].state = "pending" /\ op[o].hdr = "none" /\ op[o].proof = NoResv
      /\ caller'[c].pc = "saved" /\ caller'[c].op = o /\ caller'[c].resv = q
      /\ \A d \in Callers \ {c} : caller'[d] = caller[d]
      /\ \A p \in Op \ {o} : op'[p] = op[p]
  BY Pointers, OpShape DEF SaveHeaders, Goto, TypeOK, ledgerVars, Signing
<1>2. /\ op'[o].hdr = h /\ op'[o].proof = q /\ op'[o].state = op[o].state
      /\ op'[o].next = op[o].next /\ op'[o].action = op[o].action
  <2>1. op'[o] = [op[o] EXCEPT !.hdr = h, !.proof = q]
    BY <1>1 DEF SaveHeaders, TypeOK
  <2>2. QED
    BY <1>1, <2>1, OpWrites DEF UnprovenRow, ProvenRow
<1>3. /\ opOf[q] = o /\ pay[q].reason # "signature_refused"
      /\ \A d \in Callers \ {c} : caller[d].op # o
  BY <1>1 DEF Holding, Sole, Unrefused, Signing
<1>4. \A r \in Resv : opOf[r] = o => ~auth[r].disclosed
  BY <1>1, OperationsAssumption DEF Disclosure
<1> HIDE DEF o, q
<1>5. (Rows /\ OneRow)'
  BY <1>1, <1>2, Pointers DEF Rows, OneRow
<1>6. Proofs'
  BY <1>1, <1>2, <1>3 DEF Proofs
<1>7. Disclosure'
  BY <1>1, <1>4, Pointers, OperationsAssumption DEF Disclosure, Rows
<1>8. (Holding /\ Begun)'
  BY <1>1, <1>2, <1>3, Pointers DEF Holding, Begun
<1>9. Sole'
  BY <1>1, <1>2, <1>3, Pointers DEF Sole
<1>10. (Unrefused /\ Sending /\ Answering)'
  BY <1>1, <1>2, <1>3, Pointers DEF Unrefused, Sending, Answering, Signing
<1>11. (ChainFacts /\ Evidence /\ Dead)'
  BY <1>1 DEF ChainFacts, Evidence, Dead, Proves
<1>12. Line'
  BY <1>1, <1>2, Pointers DEF Line
<1>13. (Superseded /\ ReleaseCloses)'
  BY <1>1, <1>2, Pointers DEF Superseded, ReleaseCloses
<1>14. CompleteIsSettled'
  BY <1>1, <1>2 DEF CompleteIsSettled, RowsOf
<1>15. QED
  BY <1>5, <1>6, <1>7, <1>8, <1>9, <1>10, <1>11, <1>12, <1>13, <1>14

\* Only a stored proof is disclosed.
LEMMA SendKeeps ==
  ASSUME IInv, TypeOK', NEW c \in Callers, Send(c)
  PROVE  IInv'
<1> USE DEF IInv
<1> DEFINE o == caller[c].op
           q == caller[c].resv
<1>1. /\ UNCHANGED <<pay, op, opOf, worker>>
      /\ caller[c].pc \in {"saved", "resending"} /\ o \in Op /\ q \in Resv
      /\ caller'[c].pc = "sent" /\ caller'[c].op = o /\ caller'[c].resv = q
      /\ \A d \in Callers \ {c} : caller'[d] = caller[d]
      /\ \A r \in Resv \ {q} : auth'[r] = auth[r]
  BY Pointers DEF Send, Disclose, Goto, TypeOK, ledgerVars, Signing
<1>2. /\ auth'[q].disclosed
      /\ auth'[q].unspendable = auth[q].unspendable /\ auth'[q].chain = auth[q].chain
      /\ auth'[q].fin = auth[q].fin /\ auth'[q].expired = auth[q].expired
      /\ auth'[q].finExpired = auth[q].finExpired
  <2>1. auth'[q] = [auth[q] EXCEPT !.disclosed = TRUE]
    BY <1>1 DEF Send, Disclose, TypeOK
  <2>2. QED
    BY <1>1, <2>1 DEF TypeOK, AuthRow
<1>3. /\ opOf[q] = o /\ pay[q].reason # "signature_refused"
      /\ op[o].proof = q \/ op[o].state = "complete"
  BY <1>1 DEF Holding, Unrefused, Sending, Signing
<1> HIDE DEF o, q
<1>4. (Rows /\ OneRow)'
  BY <1>1, <1>2, <1>3, OperationsAssumption DEF Rows, OneRow
<1>5. (Proofs /\ Disclosure)'
  BY <1>1, <1>3 DEF Proofs, Disclosure
<1>6. (Holding /\ Begun)'
  BY <1>1, <1>3 DEF Holding, Begun, o, q
<1>7. Sole'
  BY <1>1 DEF Sole, o
<1>8. (Unrefused /\ Sending /\ Answering)'
  BY <1>1, <1>3 DEF Unrefused, Sending, Answering, Signing
<1>9. ChainFacts'
  BY <1>1, <1>2 DEF ChainFacts
<1>10. (Evidence /\ Dead)'
  <2>1. \A r \in Resv : \A out : Proves(r, out) => Proves(r, out)'
    BY <1>1, <1>2 DEF Proves
  <2>2. \A w \in Workers : worker[w].resv # NoResv => worker[w].resv \in Resv
    BY DEF TypeOK, WorkerRow, Free
  <2>3. QED
    BY <1>1, <1>3, <2>1, <2>2 DEF Evidence, Dead
<1>11. (Line /\ Superseded /\ ReleaseCloses /\ CompleteIsSettled)'
  BY <1>1 DEF Line, Superseded, ReleaseCloses, CompleteIsSettled, RowsOf
<1>12. QED
  BY <1>4, <1>5, <1>6, <1>7, <1>8, <1>9, <1>10, <1>11

\* Permission changes nothing the invariant speaks of.
LEMMA PermitKeeps ==
  ASSUME IInv, TypeOK', NEW c \in Callers, Permit(c)
  PROVE  IInv'
<1> USE DEF IInv
<1> DEFINE o == caller[c].op
           q == caller[c].resv
<1>1. /\ UNCHANGED <<pay, opOf, auth, worker>>
      /\ caller[c].pc = "sent" /\ o \in Op /\ q \in Resv
      /\ caller'[c].pc = "replied" /\ caller'[c].op = o /\ caller'[c].resv = q
      /\ \A d \in Callers \ {c} : caller'[d] = caller[d]
      /\ \A p \in Op \ {o} : op'[p] = op[p]
  BY Pointers DEF Permit, Goto, TypeOK, ledgerVars, Signing
<1>2. /\ op'[o].hdr = op[o].hdr /\ op'[o].proof = op[o].proof /\ op'[o].state = op[o].state
      /\ op'[o].next = op[o].next /\ op'[o].action = op[o].action
  <2>1. op'[o] = [op[o] EXCEPT !.repl = TRUE]
    BY <1>1 DEF Permit, TypeOK
  <2>2. op[o].state # "absent"
    BY <1>1 DEF Holding
  <2>3. QED
    BY <1>1, <2>1, <2>2, OpWrites DEF UnprovenRow, ProvenRow
<1>3. \A p \in Op : /\ op'[p].hdr = op[p].hdr /\ op'[p].proof = op[p].proof
                    /\ op'[p].state = op[p].state /\ op'[p].next = op[p].next
                    /\ op'[p].action = op[p].action
  BY <1>1, <1>2
<1> HIDE DEF o, q
<1>4. (Rows /\ OneRow /\ Proofs /\ Disclosure)'
  BY <1>1, <1>3, Pointers, OperationsAssumption DEF Rows, OneRow, Proofs, Disclosure
<1>5. (Holding /\ Begun)'
  BY <1>1, <1>3, Pointers DEF Holding, Begun, o, q
<1>6. Sole'
  BY <1>1, <1>3, Pointers DEF Sole, o
<1>7. (Unrefused /\ Sending /\ Answering)'
  BY <1>1, <1>3, Pointers DEF Unrefused, Sending, Answering, Signing, o, q
<1>8. (ChainFacts /\ Evidence /\ Dead)'
  BY <1>1 DEF ChainFacts, Evidence, Dead, Proves
<1>9. Line'
  BY <1>3, Pointers DEF Line
<1>10. (Superseded /\ ReleaseCloses)'
  BY <1>1, <1>3, Pointers DEF Superseded, ReleaseCloses
<1>11. CompleteIsSettled'
  BY <1>1, <1>3 DEF CompleteIsSettled, RowsOf
<1>12. QED
  BY <1>4, <1>5, <1>6, <1>7, <1>8, <1>9, <1>10, <1>11

\* A settled row stays settled and keeps its reason.
LEMMA SettleEffect ==
  ASSUME TypeOK, NEW q \in Resv, Settle(q)
  PROVE  /\ pay[q].state = "authorized" /\ pay'[q].state = "settled"
         /\ pay'[q].reason = "none" /\ pay[q].reason = "none"
         /\ \A r \in Resv \ {q} : pay'[r] = pay[r]
<1>1. pay[q] \in LiveRow /\ pay[q].state = "authorized"
  BY LiveRowType DEF Settle, TypeOK
<1>2. pay'[q] = [pay[q] EXCEPT !.state = "settled"]
  BY DEF Settle, TypeOK, LedgerTypeOK
<1>3. \A r \in Resv \ {q} : pay'[r] = pay[r]
  BY DEF Settle, TypeOK, LedgerTypeOK
<1>4. QED
  BY <1>1, <1>2, <1>3 DEF LiveRow

\* Settling a row, by receipt or evidence, keeps what is known about it.
LEMMA SettledKeeps ==
  ASSUME IInv, UNCHANGED <<op, opOf, auth>>, NEW q \in Resv,
         Settle(q) \/ UNCHANGED pay
  PROVE  (/\ Rows /\ OneRow /\ Proofs /\ Disclosure /\ ChainFacts /\ Dead /\ Line
          /\ Superseded /\ ReleaseCloses /\ CompleteIsSettled)'
<1> USE DEF IInv
<1>1. /\ \A r \in Resv : \/ pay'[r] = pay[r]
                         \/ /\ pay[r].state = "authorized" /\ pay'[r].state = "settled"
                            /\ pay'[r].reason = "none" /\ pay[r].reason = "none"
  BY SettleEffect
<1>2. (Rows /\ OneRow /\ ChainFacts /\ Dead /\ Line)'
  BY <1>1 DEF Rows, OneRow, ChainFacts, Dead, Proves, Line
<1>3. (Proofs /\ Disclosure)'
  BY <1>1, Pointers DEF Proofs, Disclosure
<1>4. (Superseded /\ ReleaseCloses)'
  BY <1>1 DEF Superseded, ReleaseCloses
<1>5. CompleteIsSettled'
  BY <1>1 DEF CompleteIsSettled, RowsOf
<1>6. QED
  BY <1>2, <1>3, <1>4, <1>5

\* A receipt settles the caller's row, or finds it decided.
LEMMA ReceiptKeeps ==
  ASSUME IInv, TypeOK', NEW c \in Callers, Receipt(c)
  PROVE  IInv'
<1> USE DEF IInv
<1> DEFINE o == caller[c].op
           q == caller[c].resv
<1>1. /\ UNCHANGED <<op, opOf, auth, worker>>
      /\ caller[c].pc \in {"sent", "replied"} /\ o \in Op /\ q \in Resv
      /\ caller'[c].pc = "settled" /\ caller'[c].op = o /\ caller'[c].resv = q
      /\ \A d \in Callers \ {c} : caller'[d] = caller[d]
  BY Pointers DEF Receipt, Goto, TypeOK, Signing
<1>2. Settle(q) \/ (UNCHANGED pay /\ pay[q].state # "authorized")
  BY DEF Receipt, ledgerVars
<1>3. /\ opOf[q] = o /\ pay[q].state # "absent"
  BY <1>1, OperationsAssumption DEF Holding, Rows
<1>4. pay'[q].state \in {"settled", "released"}
  <2>1. pay[q].state \in {"absent", "authorized", "settled", "released"}
    BY <1>1 DEF TypeOK, LedgerTypeOK, PayRow, AbsentRow, LiveRow, ReleasedRow, Counting
  <2>2. QED
    BY <1>1, <1>2, <1>3, <2>1, SettleEffect
<1>5. \A r \in Resv : \/ pay'[r] = pay[r]
                      \/ /\ pay[r].state = "authorized" /\ pay'[r].state = "settled"
                         /\ pay'[r].reason = "none" /\ pay[r].reason = "none"
  BY <1>1, <1>2, SettleEffect
<1> HIDE DEF o, q
<1>6. (Holding /\ Begun)'
  BY <1>1, <1>3 DEF Holding, Begun, o, q
<1>7. Sole'
  BY <1>1 DEF Sole, o
<1>8. (Unrefused /\ Sending)'
  BY <1>1, <1>5, Pointers DEF Unrefused, Sending, Signing, o, q
<1>9. Answering'
  BY <1>1, <1>4, <1>5, Pointers DEF Answering, Signing, o, q
<1>10. Evidence'
  BY <1>1 DEF Evidence, Proves
<1>11. QED
  BY <1>1, <1>2, <1>6, <1>7, <1>8, <1>9, <1>10, SettledKeeps

\* An operation still pending when its receipt is recorded owns a settled row:
\* evidence that had released the row would have closed the operation.
LEMMA CompleteKeeps ==
  ASSUME IInv, TypeOK', NEW c \in Callers, NEW failed \in BOOLEAN, Complete(c, failed)
  PROVE  IInv'
<1> USE DEF IInv
<1> DEFINE o == caller[c].op
           q == caller[c].resv
<1>1. /\ UNCHANGED <<pay, opOf, auth, worker>>
      /\ caller[c].pc = "settled" /\ o \in Op /\ q \in Resv
      /\ caller'[c] = Idle
      /\ \A d \in Callers \ {c} : caller'[d] = caller[d]
      /\ op' = Answered(o)
  BY Pointers DEF Complete, WatchIfFailed, Watch, Leave, TypeOK, ledgerVars, Signing
<1>2. CASE op[o].state # "pending"
  <2>1. op' = op
    BY <1>1, <1>2 DEF Answered
  <2>2. \A d \in Callers : caller'[d] = caller[d] \/ caller'[d] = Idle
    BY <1>1
  <2>3. QED
    BY <1>1, <2>1, <2>2, Frame
<1>3. CASE op[o].state = "pending"
  <2>1. /\ \A p \in Op \ {o} : op'[p] = op[p]
        /\ op'[o].state = "complete" /\ op'[o].hdr = "none" /\ op'[o].proof = NoResv
        /\ op'[o].next = op[o].next /\ op'[o].action = op[o].action
    <3>1. op' = [op EXCEPT ![o] = [op[o] EXCEPT !.state = "complete", !.hdr = "none",
                                                !.proof = NoResv]]
      BY <1>1, <1>3 DEF Answered, TypeOK
    <3>2. op[o] \in UnprovenRow \cup ProvenRow
      BY <1>1, <1>3, OpWrites
    <3>3. QED
      BY <1>1, <3>1, <3>2 DEF UnprovenRow, ProvenRow, TypeOK
  <2>2. /\ opOf[q] = o /\ pay[q].state \in {"settled", "released"}
        /\ pay[q].reason # "signature_refused"
    BY <1>1 DEF Holding, Answering, Unrefused, Signing
  <2>3. pay[q].state = "settled"
    BY <1>1, <1>3, <2>2 DEF ReleaseCloses
  <2>4. /\ op[o].next = NoOp
        /\ \A d \in Callers : caller[d].pc \in {"begun", "reserved"} => caller[d].op # o
    BY <1>1, <1>3 DEF Superseded, Sole
  <2> HIDE DEF o, q
  <2>5. (Rows /\ OneRow)'
    BY <1>1, <2>1, Pointers DEF Rows, OneRow
  <2>6. Proofs'
    BY <1>1, <2>1 DEF Proofs
  <2>7. Disclosure'
    BY <1>1, <2>1, Pointers, OperationsAssumption DEF Disclosure, Rows
  <2>8. (Holding /\ Begun)'
    BY <1>1, <2>1, <2>4, Pointers DEF Holding, Begun, Idle
  <2>9. Sole'
    BY <1>1, <2>1, <2>4, Pointers, OperationsAssumption DEF Sole, Idle
  <2>10. (Unrefused /\ Sending /\ Answering)'
    BY <1>1, <2>1, Pointers DEF Unrefused, Sending, Answering, Signing, Idle
  <2>11. (ChainFacts /\ Evidence /\ Dead)'
    BY <1>1 DEF ChainFacts, Evidence, Dead, Proves
  <2>12. Line'
    BY <1>1, <1>3, <2>1, Pointers DEF Line, o
  <2>13. (Superseded /\ ReleaseCloses)'
    BY <1>1, <2>1, <2>4, Pointers DEF Superseded, ReleaseCloses
  <2>14. CompleteIsSettled'
    BY <1>1, <2>1, <2>2, <2>3 DEF CompleteIsSettled, RowsOf
  <2>15. QED
    BY <2>5, <2>6, <2>7, <2>8, <2>9, <2>10, <2>11, <2>12, <2>13, <2>14
<1>4. QED
  BY <1>2, <1>3

\* Closing a pending operation that nobody is still to reserve for.
LEMMA CloseKeeps ==
  ASSUME IInv, NEW o \in Op, op[o].state = "pending", UNCHANGED <<opOf, auth>>,
         op' = [op EXCEPT ![o].state = "unsigned_failed"],
         \A r \in Resv : pay'[r].state = "absent" <=> pay[r].state = "absent",
         \A r \in Resv : pay[r].state \in {"settled", "released"} => pay'[r] = pay[r]
  PROVE  /\ (OneRow /\ ChainFacts /\ Line /\ Superseded /\ CompleteIsSettled /\ Rows)'
         /\ op'[o].state = "unsigned_failed"
         /\ \A p \in Op \ {o} : op'[p] = op[p]
         /\ \A p \in Op : /\ op'[p].hdr = op[p].hdr /\ op'[p].proof = op[p].proof
                          /\ (op'[p].state = "absent" <=> op[p].state = "absent")
                          /\ (op'[p].state = "complete" <=> op[p].state = "complete")
                          /\ op[p].state # "pending" => op'[p].state = op[p].state
                          /\ op'[p].next = op[p].next /\ op'[p].action = op[p].action
<1> USE DEF IInv
<1>1. /\ \A p \in Op \ {o} : op'[p] = op[p]
      /\ op'[o] = [op[o] EXCEPT !.state = "unsigned_failed"]
  BY DEF TypeOK
<1>2. /\ op'[o].state = "unsigned_failed" /\ op'[o].hdr = op[o].hdr
      /\ op'[o].proof = op[o].proof
      /\ op'[o].next = op[o].next /\ op'[o].action = op[o].action
  <2>1. op[o] \in UnprovenRow \cup ProvenRow
    BY OpWrites
  <2>2. QED
    BY <1>1, <2>1 DEF UnprovenRow, ProvenRow
<1>3. \A p \in Op : /\ op'[p].hdr = op[p].hdr /\ op'[p].proof = op[p].proof
                    /\ (op'[p].state = "absent" <=> op[p].state = "absent")
                    /\ (op'[p].state = "complete" <=> op[p].state = "complete")
                    /\ op[p].state # "pending" => op'[p].state = op[p].state
                    /\ op'[p].next = op[p].next /\ op'[p].action = op[p].action
  BY <1>1, <1>2
<1>4. (OneRow /\ ChainFacts)'
  BY DEF OneRow, ChainFacts
<1>5. Rows'
  BY <1>3, Pointers DEF Rows
<1>6. Line'
  BY <1>3, Pointers DEF Line
<1>7. Superseded'
  BY <1>3 DEF Superseded
<1>8. CompleteIsSettled'
  BY <1>3 DEF CompleteIsSettled, RowsOf
<1>9. QED
  BY <1>1, <1>2, <1>3, <1>4, <1>5, <1>6, <1>7, <1>8

\* Whoever abandons an operation was the last that could reserve for it.
LEMMA AbandonKeeps ==
  ASSUME IInv, TypeOK', NEW c \in Callers, AbandonUnsigned(c)
  PROVE  IInv'
<1> USE DEF IInv
<1> DEFINE o == caller[c].op
<1>1. /\ UNCHANGED <<pay, opOf, auth, worker>>
      /\ caller[c].pc \in {"begun", "refused"} /\ o \in Op
      /\ caller'[c] = Idle
      /\ \A d \in Callers \ {c} : caller'[d] = caller[d]
  BY Pointers DEF AbandonUnsigned, Leave, TypeOK, ledgerVars
<1>2. CASE op' = op
  <2>1. \A d \in Callers : caller'[d] = caller[d] \/ caller'[d] = Idle
    BY <1>1
  <2>2. QED
    BY <1>1, <1>2, <2>1, Frame
<1>3. CASE op' # op
  <2>1. op[o].state = "pending" /\ op' = [op EXCEPT ![o].state = "unsigned_failed"]
    BY <1>3 DEF AbandonUnsigned
  <2>2. /\ (OneRow /\ ChainFacts /\ Line /\ Superseded /\ CompleteIsSettled /\ Rows)'
        /\ op'[o].state = "unsigned_failed"
        /\ \A p \in Op \ {o} : op'[p] = op[p]
        /\ \A p \in Op : /\ op'[p].hdr = op[p].hdr /\ op'[p].proof = op[p].proof
                         /\ (op'[p].state = "absent" <=> op[p].state = "absent")
                         /\ (op'[p].state = "complete" <=> op[p].state = "complete")
                         /\ op[p].state # "pending" => op'[p].state = op[p].state
    <3>1. UNCHANGED <<pay, opOf, auth>>
      BY <1>1
    <3>2. QED
      BY <1>1, <2>1, <3>1, CloseKeeps
  <2>3. \A d \in Callers : caller'[d].pc = "begun" => caller[d].op # o /\ caller'[d] = caller[d]
    BY <1>1 DEF Sole, Idle
  <2> HIDE DEF o
  <2>4. (Proofs /\ Disclosure)'
    BY <1>1, <2>2, Pointers, OperationsAssumption DEF Proofs, Disclosure, Rows
  <2>5. (Holding /\ Begun)'
    BY <1>1, <2>2, <2>3, Pointers DEF Holding, Begun, Idle
  <2>6. Sole'
    BY <1>1, <2>2, Pointers, OperationsAssumption DEF Sole, Idle
  <2>7. (Unrefused /\ Sending /\ Answering)'
    BY <1>1, <2>2, Pointers DEF Unrefused, Sending, Answering, Signing, Idle
  <2>8. (Evidence /\ Dead)'
    BY <1>1 DEF Evidence, Dead, Proves
  <2>9. ReleaseCloses'
    BY <1>1, <2>2, Pointers DEF ReleaseCloses
  <2>10. QED
    BY <2>2, <2>4, <2>5, <2>6, <2>7, <2>8, <2>9
<1>4. QED
  BY <1>2, <1>3

\* What an inspection concludes is already final.
LEMMA InspectKeeps ==
  ASSUME IInv, TypeOK', NEW w \in Workers, NEW q \in Resv, Inspect(w, q) \/ InspectLocally(w, q)
  PROVE  IInv'
<1> USE DEF IInv
<1>1. /\ UNCHANGED <<pay, op, opOf, auth, caller>>
      /\ pay[q].state = "authorized"
      /\ worker'[w].resv = q
      /\ \A v \in Workers \ {w} : worker'[v] = worker[v]
  BY DEF Inspect, InspectLocally, Hold, TypeOK, ledgerVars
<1>2. Proves(q, worker'[w].outcome)
  <2>1. CASE Inspect(w, q)
    <3>1. worker'[w].outcome = ChainOutcome(q)
      BY <2>1 DEF Inspect, Hold, TypeOK
    <3>2. auth[q].fin \in {"unused", "used", "cancelled"}
      BY DEF TypeOK, AuthRow
    <3>3. QED
      BY <3>1, <3>2 DEF ChainOutcome, Proves
  <2>2. CASE InspectLocally(w, q)
    BY <2>2 DEF InspectLocally, Hold, Proves, TypeOK
  <2>3. QED
    BY <2>1, <2>2
<1>3. Evidence'
  BY <1>1, <1>2 DEF Evidence, Proves, Rows
<1>4. (Rows /\ OneRow /\ Holding /\ Sole /\ Begun /\ Unrefused /\ Proofs /\ Sending)'
  BY <1>1 DEF Rows, OneRow, Holding, Sole, Begun, Unrefused, Proofs, Sending
<1>5. (Disclosure /\ ChainFacts /\ Dead /\ Line)'
  BY <1>1 DEF Disclosure, ChainFacts, Dead, Proves, Line
<1>6. (Superseded /\ ReleaseCloses /\ Answering /\ CompleteIsSettled)'
  BY <1>1 DEF Superseded, ReleaseCloses, Answering, CompleteIsSettled, RowsOf
<1>7. QED
  BY <1>3, <1>4, <1>5, <1>6

\* A released row carries the reason that was recorded.
LEMMA ReleaseEffect ==
  ASSUME TypeOK, NEW q \in Resv, NEW why \in EvidenceReasons, RecordReleased(q, why)
  PROVE  /\ pay[q].state = "authorized" /\ pay'[q].state = "released"
         /\ pay'[q].reason = why
         /\ \A r \in Resv \ {q} : pay'[r] = pay[r]
<1>1. pay[q] \in LiveRow /\ pay[q].state = "authorized"
  BY LiveRowType DEF RecordReleased, TypeOK
<1>2. pay'[q] = [pay[q] EXCEPT !.state = "released", !.reason = why]
  BY DEF RecordReleased, TypeOK, LedgerTypeOK
<1>3. \A r \in Resv \ {q} : pay'[r] = pay[r]
  BY DEF RecordReleased, TypeOK, LedgerTypeOK
<1>4. QED
  BY <1>1, <1>2, <1>3 DEF LiveRow

\* Recorded evidence decides one row and closes its operation with it.
LEMMA EvidenceKeeps ==
  ASSUME IInv, TypeOK', NEW w \in Workers, RecordEvidence(w)
  PROVE  IInv'
<1> USE DEF IInv
<1> DEFINE q == worker[w].resv
           o == opOf[q]
<1>1. /\ UNCHANGED <<opOf, auth, caller>> /\ q \in Resv
      /\ worker'[w] = Free
      /\ \A v \in Workers \ {w} : worker'[v] = worker[v]
      /\ o \in Op /\ Proves(q, worker[w].outcome)
  BY OperationsAssumption
     DEF RecordEvidence, Conclude, TypeOK, WorkerRow, Free, Evidence
<1>2. Evidence'
  BY <1>1, OperationsAssumption DEF Evidence, Proves, Free
<1>3. CASE UNCHANGED op /\ (Settle(q) \/ UNCHANGED pay)
  <2>1. \A r \in Resv : \/ pay'[r] = pay[r]
                        \/ /\ pay[r].state = "authorized" /\ pay'[r].state = "settled"
                           /\ pay'[r].reason = "none" /\ pay[r].reason = "none"
    BY <1>1, <1>3, SettleEffect
  <2>2. (Holding /\ Sole /\ Begun /\ Sending)'
    BY <1>1, <1>3 DEF Holding, Sole, Begun, Sending
  <2>3. (Unrefused /\ Answering)'
    BY <1>1, <2>1, Pointers DEF Unrefused, Answering, Signing
  <2>4. (/\ Rows /\ OneRow /\ Proofs /\ Disclosure /\ ChainFacts /\ Dead /\ Line
         /\ Superseded /\ ReleaseCloses /\ CompleteIsSettled)'
    BY <1>1, <1>3, SettledKeeps
  <2>5. QED
    BY <1>2, <2>2, <2>3, <2>4
<1>4. CASE /\ worker[w].outcome \in EvidenceReasons
           /\ RecordReleased(q, worker[w].outcome) /\ op' = Closed(o)
  <2>1. /\ pay[q].state = "authorized" /\ pay'[q].state = "released"
        /\ pay'[q].reason = worker[w].outcome /\ pay'[q].reason # "signature_refused"
        /\ \A r \in Resv \ {q} : pay'[r] = pay[r]
    BY <1>1, <1>4, ReleaseEffect DEF EvidenceReasons
  <2>2. \A r \in Resv : opOf[r] = o => r = q
    BY <1>1, OperationsAssumption DEF OneRow
  <2>3. NothingLive(o, pay')
    BY <1>1, <2>1, <2>2 DEF NothingLive
  <2>4. op' = IF op[o].state = "pending" THEN [op EXCEPT ![o].state = "unsigned_failed"] ELSE op
    BY <1>4, <2>3 DEF Closed
  <2>5. \A c \in Callers : caller[c].pc = "begun" => caller[c].op # o
    BY <1>1 DEF Begun
  <2>6. \A r \in Resv : /\ pay'[r].state = "absent" <=> pay[r].state = "absent"
                        /\ pay[r].state \in {"settled", "released"} => pay'[r] = pay[r]
    BY <2>1
  <2> HIDE DEF q, o
  <2>7. /\ (OneRow /\ ChainFacts /\ Line /\ Superseded /\ CompleteIsSettled /\ Rows)'
        /\ op'[o].state # "pending"
        /\ \A p \in Op \ {o} : op'[p] = op[p]
        /\ \A p \in Op : /\ op'[p].hdr = op[p].hdr /\ op'[p].proof = op[p].proof
                         /\ (op'[p].state = "absent" <=> op[p].state = "absent")
                         /\ (op'[p].state = "complete" <=> op[p].state = "complete")
                         /\ op[p].state # "pending" => op'[p].state = op[p].state
    <3>1. CASE op[o].state = "pending"
      <4>1. UNCHANGED <<opOf, auth>>
        BY <1>1
      <4>2. op' = [op EXCEPT ![o].state = "unsigned_failed"]
        BY <2>4, <3>1
      <4>3. /\ \A r \in Resv : pay'[r].state = "absent" <=> pay[r].state = "absent"
            /\ \A r \in Resv : pay[r].state \in {"settled", "released"} => pay'[r] = pay[r]
        BY <2>6
      <4>4. QED
        BY <1>1, <3>1, <4>1, <4>2, <4>3, CloseKeeps
    <3>2. CASE op[o].state # "pending"
      <4>1. op' = op
        BY <2>4, <3>2
      <4>2. (OneRow /\ ChainFacts /\ Line /\ Rows)'
        BY <1>1, <2>6, <4>1 DEF OneRow, ChainFacts, Line, Rows
      <4>3. Superseded'
        BY <1>1, <2>6, <4>1 DEF Superseded
      <4>4. CompleteIsSettled'
        BY <1>1, <2>6, <4>1 DEF CompleteIsSettled, RowsOf
      <4>5. QED
        BY <3>2, <4>1, <4>2, <4>3, <4>4
    <3>3. QED
      BY <3>1, <3>2
  <2>8. (Proofs /\ Disclosure)'
    BY <1>1, <2>1, <2>7, Pointers, OperationsAssumption DEF Proofs, Disclosure, Rows
  <2>9. (Holding /\ Begun)'
    BY <1>1, <2>5, <2>7, Pointers DEF Holding, Begun
  <2>10. Sole'
    BY <1>1, <2>7, Pointers DEF Sole
  <2>11. (Unrefused /\ Sending /\ Answering)'
    BY <1>1, <2>1, <2>7, Pointers DEF Unrefused, Sending, Answering, Signing
  <2>12. Dead'
    BY <1>1, <2>1 DEF Dead, Proves
  <2>13. ReleaseCloses'
    BY <1>1, <2>1, <2>7, Pointers DEF ReleaseCloses, o
  <2>14. QED
    BY <1>2, <2>7, <2>8, <2>9, <2>10, <2>11, <2>12, <2>13
<1>5. QED
  BY <1>3, <1>4 DEF RecordEvidence, Apply, ledgerVars

-----------------------------------------------------------------------------
(* Theorems *)

\* Every step keeps the invariant.
LEMMA InvStep ==
  IInv /\ [Next]_vars => IInv'
<1> SUFFICES ASSUME IInv, [Next]_vars PROVE IInv'
  OBVIOUS
<1>1. TypeOK'
  BY TypeStep DEF IInv
<1>2. ASSUME NEW c \in Callers, CallerStep(c) PROVE IInv'
  <2>1. CASE Lose(c)
    BY <1>1, <2>1, Frame DEF Lose, Leave, ledgerVars, IInv, TypeOK
  <2>2. QED
    BY <1>1, <1>2, <2>1, BeginNewKeeps, BeginReclaimKeeps, BeginReplaceKeeps, BeginResendKeeps,
       ReserveKeeps, RefuseKeeps, SaveKeeps, SendKeeps, PermitKeeps, ReceiptKeeps,
       CompleteKeeps, AbandonKeeps DEF CallerStep
<1>3. ASSUME NEW w \in Workers, WorkerStep(w) PROVE IInv'
  BY <1>1, <1>3, InspectKeeps, EvidenceKeeps DEF WorkerStep
<1>4. ASSUME NEW r \in Resv, ChainStep(r) PROVE IInv'
  BY <1>1, <1>4, ChainKeeps
<1>5. CASE LedgerOnly
  BY <1>1, <1>5, Frame DEF LedgerOnly, Reset, Restart, Review, ConfirmRefund, MineRefund
<1>6. CASE Crash
  BY <1>1, <1>6, Frame DEF Crash, ledgerVars
<1>7. CASE UNCHANGED vars
  BY <1>1, <1>7, Frame DEF vars, ledgerVars
<1>8. QED
  BY <1>2, <1>3, <1>4, <1>5, <1>6, <1>7 DEF Next

\* The strengthened invariant holds in every reachable state.
THEOREM Invariant == Spec => []IInv
<1>1. QED
  BY InvInit, InvStep, PTL DEF Spec

\* Every variable keeps its type.
THEOREM TypeSafe == Spec => []TypeOK
<1>1. IInv => TypeOK
  BY DEF IInv
<1>2. QED
  BY <1>1, Invariant, PTL

\* Budget is given back only for an authorization that never moved money.
LEMMA DeadRows == IInv => ReleasedIsDead
<1> SUFFICES ASSUME IInv, NEW r \in Resv, pay[r].state = "released"
             PROVE  auth[r].chain # "used"
  BY DEF ReleasedIsDead
<1>1. pay[r].reason \in {"signature_refused", "expired_unused", "cancelled", "unspendable"}
  BY DEF IInv, TypeOK, LedgerTypeOK, PayRow, AbsentRow, LiveRow, ReleasedRow, Counting,
         Reasons, EvidenceReasons
<1>2. auth[r].fin \in {"unused", "used", "cancelled"}
  BY DEF IInv, TypeOK, AuthRow
<1>3. QED
  BY <1>1, <1>2 DEF IInv, Dead, Proves, ChainFacts

\* ReleasedIsDead: no evidence, refusal or race releases a charge that happened.
THEOREM ReleasedSafe == Spec => []ReleasedIsDead
<1>1. QED
  BY DeadRows, Invariant, PTL

\* Two live rows of one action would need two of its operations without a successor.
LEMMA OneLive == IInv => OneLiveAuthorization
<1> SUFFICES ASSUME IInv, NEW r \in Resv, NEW s \in Resv, SameAction(r, s),
                    pay[r].state \in Counting, pay[s].state \in Counting
             PROVE  r = s
  BY DEF OneLiveAuthorization
<1>1. /\ opOf[r] \in Op /\ opOf[s] \in Op
      /\ op[opOf[r]].state # "absent" /\ op[opOf[s]].state # "absent"
      /\ op[opOf[r]].action = op[opOf[s]].action
  BY Pointers DEF IInv, Rows, SameAction, ActionOf
<1>2. op[opOf[r]].next = NoOp /\ op[opOf[s]].next = NoOp
  BY <1>1 DEF IInv, Superseded, Counting
<1>3. opOf[r] = opOf[s]
  BY <1>1, <1>2 DEF IInv, Line
<1>4. QED
  BY <1>1, <1>3, OperationsAssumption DEF IInv, OneRow

\* OneLiveAuthorization: retries, replays, replacements and crashes never leave
\* two chargeable authorizations of one paid action.
THEOREM OneLiveSafe == Spec => []OneLiveAuthorization
<1>1. QED
  BY OneLive, Invariant, PTL

\* A charged authorization still counts, so it is the action's live one.
LEMMA ChargedCounts ==
  ASSUME IInv, NEW r \in Resv, opOf[r] # NoOp, auth[r].chain = "used"
  PROVE  pay[r].state \in Counting
<1>1. pay[r].state \in {"absent", "authorized", "settled", "released"}
  BY DEF IInv, TypeOK, LedgerTypeOK, PayRow, AbsentRow, LiveRow, ReleasedRow, Counting
<1>2. QED
  BY <1>1, DeadRows DEF ReleasedIsDead, IInv, Rows, Counting

\* ChargedOncePerAction: whatever is retried or replaced, one action is charged once.
THEOREM ChargedOnceSafe == Spec => []ChargedOncePerAction
<1>1. IInv => ChargedOncePerAction
  BY OneLive, ChargedCounts DEF OneLiveAuthorization, ChargedOncePerAction, SameAction
<1>2. QED
  BY <1>1, Invariant, PTL

\* DisclosedIsRecoverable: a disclosed signature can be presented again.
THEOREM RecoverableSafe == Spec => []DisclosedIsRecoverable
<1>1. IInv => DisclosedIsRecoverable
  <2> SUFFICES ASSUME IInv, NEW r \in Resv, auth[r].disclosed
               PROVE  \/ op[opOf[r]].proof = r /\ op[opOf[r]].hdr # "none"
                      \/ op[opOf[r]].state = "complete"
    BY DEF DisclosedIsRecoverable
  <2>1. opOf[r] \in Op
    BY Pointers DEF IInv, Rows
  <2>2. QED
    BY <2>1, OpShape, OperationsAssumption DEF IInv, Disclosure
<1>2. QED
  BY <1>1, Invariant, PTL

\* CompleteIsSettled: a stored result stands for a recorded charge.
THEOREM CompleteSafe == Spec => []CompleteIsSettled
<1>1. IInv => CompleteIsSettled
  BY DEF IInv
<1>2. QED
  BY <1>1, Invariant, PTL

\* A row that is decided is never written again.
LEMMA DecidedRows ==
  ASSUME TypeOK, [Next]_vars, NEW r \in Resv, pay[r].state \in {"settled", "released"}
  PROVE  pay'[r] = pay[r]
<1>1. [LedgerNext]_ledgerVars
  BY LedgerPart
<1>2. QED
  BY <1>1 DEF TypeOK, LedgerTypeOK, ledgerVars, LedgerNext, Reserve, Booked, ReleaseUnsigned,
     Settle, RecordReleased, Reset, Restart, Watch, Review, ConfirmRefund, MineRefund

\* What no step does to an operation that exists.
LEMMA OpFate ==
  ASSUME IInv, [Next]_vars, NEW o \in Op, op[o].state # "absent"
  PROVE  /\ op'[o].action = op[o].action
         /\ op'[o].state # "absent"
         /\ op[o].state = "complete" => op'[o].state = "complete"
         /\ op[o].state = "unsigned_failed" /\ RowsOf(o) # {} => op'[o].state = op[o].state
<1> USE DEF IInv
<1>1. op[o] \in UnprovenRow \cup ProvenRow /\ op \in [Op -> OpRow]
  BY OpWrites DEF TypeOK
<1> DEFINE Fate == /\ op'[o].action = op[o].action
                   /\ op'[o].state # "absent"
                   /\ op[o].state = "complete" => op'[o].state = "complete"
                   /\ op[o].state = "unsigned_failed" /\ RowsOf(o) # {} =>
                        op'[o].state = op[o].state
<1>2. ASSUME op'[o] = op[o] PROVE Fate
  BY <1>2
<1>3. ASSUME NEW c \in Callers, CallerStep(c) PROVE Fate
  <2>1. ASSUME NEW p \in Op, NEW f \in Fps, BeginNew(c, p, f) PROVE Fate
    BY <1>1, <2>1 DEF BeginNew
  <2>2. ASSUME NEW p \in Op, BeginReclaim(c, p) PROVE Fate
    BY <1>1, <2>2 DEF BeginReclaim, UnprovenRow, ProvenRow
  <2>3. ASSUME NEW p \in Op, NEW n \in Op, BeginReplace(c, p, n) PROVE Fate
    <3>1. o # n
      BY <2>3 DEF BeginReplace
    <3>2. op'[o] = op[o] \/ op'[o] = [op[o] EXCEPT !.next = n]
      BY <1>1, <2>3, <3>1 DEF BeginReplace, Linked
    <3>3. QED
      BY <1>1, <3>2 DEF UnprovenRow, ProvenRow
  <2>4. ASSUME NEW h \in Idempotency, SaveHeaders(c, h) PROVE Fate
    <3>1. \/ op'[o] = op[o]
          \/ op'[o] = [op[o] EXCEPT !.hdr = h, !.proof = caller[c].resv]
      BY <1>1, <2>4 DEF SaveHeaders
    <3>2. QED
      BY <1>1, <3>1 DEF UnprovenRow, ProvenRow
  <2>5. ASSUME Permit(c) PROVE Fate
    BY <1>1, <2>5 DEF Permit, UnprovenRow, ProvenRow
  <2>6. ASSUME NEW failed \in BOOLEAN, Complete(c, failed) PROVE Fate
    <3>1. \/ op'[o] = op[o]
          \/ /\ op[o].state = "pending"
             /\ op'[o] = [op[o] EXCEPT !.state = "complete", !.hdr = "none", !.proof = NoResv]
      BY <1>1, <2>6 DEF Complete, Answered
    <3>2. QED
      BY <1>1, <3>1 DEF UnprovenRow, ProvenRow
  <2>7. ASSUME AbandonUnsigned(c) PROVE Fate
    <3>1. \/ op'[o] = op[o]
          \/ /\ op[o].state = "pending"
             /\ op'[o] = [op[o] EXCEPT !.state = "unsigned_failed"]
      BY <1>1, <2>7 DEF AbandonUnsigned
    <3>2. QED
      BY <1>1, <3>1 DEF UnprovenRow, ProvenRow
  <2>8. CASE op' = op
    BY <1>2, <2>8
  <2>9. QED
    BY <1>3, <2>1, <2>2, <2>3, <2>4, <2>5, <2>6, <2>7, <2>8
       DEF CallerStep, BeginResend, ReserveFor, Claim, RefuseSignature, Send, Disclose,
           Receipt, Lose
<1>4. ASSUME NEW w \in Workers, WorkerStep(w) PROVE Fate
  <2>1. \/ op'[o] = op[o]
        \/ /\ op[o].state = "pending"
           /\ op'[o] = [op[o] EXCEPT !.state = "unsigned_failed"]
    BY <1>1, <1>4 DEF WorkerStep, Inspect, InspectLocally, Hold, RecordEvidence, Apply, Closed
  <2>2. QED
    BY <1>1, <2>1 DEF UnprovenRow, ProvenRow
<1>5. CASE op' = op
  BY <1>2, <1>5
<1>6. QED
  BY <1>3, <1>4, <1>5 DEF Next, ChainStep, Charge, Cancel, Expire, Finalize, Reorg, OnChain,
     LedgerOnly, Crash, vars

\* OutcomesAreFinal: stale evidence, late receipts and replays rewrite nothing.
THEOREM OutcomesSafe == Spec => OutcomesAreFinal
<1> DEFINE Final == /\ \A r \in Resv : pay[r].state \in {"settled", "released"} =>
                         pay'[r] = pay[r]
                    /\ \A o \in Op : \/ op[o].state = "complete"
                                     \/ op[o].state = "unsigned_failed" /\ RowsOf(o) # {}
                                     => op'[o].state = op[o].state
<1>1. IInv /\ [Next]_vars => [Final]_vars
  BY DecidedRows, OpFate DEF IInv
<1>2. QED
  BY <1>1, Invariant, PTL DEF Spec, OutcomesAreFinal

-----------------------------------------------------------------------------
(* PaymentOperations implements Purchase *)

LiveMap == [a \in Op |-> LiveOf(a)]
ChargedMap == [a \in Op |-> ChargedOf(a)]

\* What an action has charged is its live authorization, and there is one.
LEMMA AtMostOne ==
  ASSUME IInv, NEW a \in Op
  PROVE  /\ ChargedOf(a) \subseteq LiveOf(a)
         /\ \A r, s \in LiveOf(a) : r = s
  BY OneLive, ChargedCounts DEF OneLiveAuthorization, SameAction, LiveOf, ChargedOf

\* The same two facts of the next state.
LEMMA NextSafe == IInv' => ReleasedIsDead' /\ OneLiveAuthorization'
  BY DeadRows, OneLive, PTL

\* A row that has an owner stays with its action.
LEMMA ActionStays ==
  ASSUME IInv, [Next]_vars, NEW r \in Resv, opOf'[r] = opOf[r]
  PROVE  ActionOf(r)' = ActionOf(r)
<1>1. CASE opOf[r] = NoOp
  BY <1>1 DEF ActionOf
<1>2. CASE opOf[r] # NoOp
  <2>1. opOf[r] \in Op /\ op[opOf[r]].state # "absent"
    BY <1>2, Pointers DEF IInv, Rows
  <2>2. QED
    BY <1>2, <2>1, OpFate DEF ActionOf
<1>3. QED
  BY <1>1, <1>2

\* A step that leaves every row counting and charged as it was shows nothing.
LEMMA NothingShows ==
  ASSUME IInv, [Next]_vars, opOf' = opOf,
         \A r \in Resv : pay'[r].state \in Counting <=> pay[r].state \in Counting,
         \A r \in Resv : auth'[r].chain = "used" <=> auth[r].chain = "used"
  PROVE  UNCHANGED <<LiveMap, ChargedMap>>
  BY ActionStays DEF LiveMap, ChargedMap, LiveOf, ChargedOf

\* Reserving authorizes an action all of whose authorizations are void.
LEMMA ReserveAuthorizes ==
  ASSUME IInv, [Next]_vars, NEW c \in Callers, NEW q \in Resv, NEW a \in Amounts,
         NEW u \in Unspendable, ReserveFor(c, q, a, u)
  PROVE  \E x \in Op : P!Authorize(x, q)
<1>1. PICK o \in Op : o = caller[c].op
  BY Pointers DEF ReserveFor, IInv
<1>2. /\ UNCHANGED op /\ op[o].state = "pending"
      /\ pay[q].state = "absent" /\ pay'[q].state = "authorized"
      /\ \A r \in Resv \ {q} : pay'[r] = pay[r]
      /\ opOf' = [opOf EXCEPT ![q] = o] /\ opOf'[q] = o
      /\ \A r \in Resv : auth'[r].chain = auth[r].chain
  <2>1. \A r \in Resv : auth'[r].chain = auth[r].chain
    BY DEF ReserveFor, Claim, IInv, TypeOK, AuthRow
  <2>2. QED
    BY <1>1, <2>1 DEF ReserveFor, Claim, Reserve, Booked, IInv, TypeOK, LedgerTypeOK
<1>3. PICK x \in Op : x = op[o].action
  BY <1>2, Pointers DEF IInv
<1>4. opOf[q] = NoOp /\ o # NoOp /\ auth[q].chain = "unused"
  BY <1>1, <1>2, OperationsAssumption DEF IInv, Rows
<1>5. /\ \A r \in Resv \ {q} : opOf'[r] = opOf[r] /\ ActionOf(r)' = ActionOf(r)
      /\ ActionOf(q)' = x
  BY <1>2, <1>3, <1>4 DEF ActionOf, IInv, TypeOK
<1>6. \A b \in Op : /\ LiveOf(b)' = IF b = x THEN LiveOf(b) \cup {q} ELSE LiveOf(b)
                    /\ ChargedOf(b)' = ChargedOf(b)
                    /\ q \notin LiveOf(b)
  BY <1>2, <1>4, <1>5 DEF LiveOf, ChargedOf, Counting
<1>7. LiveOf(x) = {}
  <2>1. OneLiveAuthorization'
    BY InvStep, NextSafe
  <2>2. ASSUME NEW r \in LiveOf(x)' PROVE r = q
    <3>1. r \in Resv /\ opOf'[r] # NoOp /\ ActionOf(r)' = x /\ pay'[r].state \in Counting
      BY <2>2 DEF LiveOf
    <3>2. SameAction(r, q)' /\ pay'[q].state \in Counting
      BY <1>2, <1>4, <1>5, <3>1 DEF SameAction, Counting
    <3>3. QED
      BY <2>1, <3>1, <3>2 DEF OneLiveAuthorization
  <2>3. QED
    BY <1>6, <2>2
<1>8. ChargedOf(x) = {}
  BY <1>7, AtMostOne
<1>9. LiveMap' = [LiveMap EXCEPT ![x] = {q}] /\ UNCHANGED ChargedMap
  BY <1>6, <1>7 DEF LiveMap, ChargedMap
<1>10. QED
  BY <1>7, <1>8, <1>9 DEF P!Authorize, LiveMap, ChargedMap

\* Releasing a live row voids its action.
LEMMA ReleaseVoids ==
  ASSUME IInv, [Next]_vars, UNCHANGED <<opOf, auth>>, NEW q \in Resv,
         pay[q].state = "authorized", pay'[q].state = "released",
         \A r \in Resv \ {q} : pay'[r] = pay[r]
  PROVE  \E x \in Op : P!Void(x)
<1> DEFINE x == ActionOf(q)
<1>1. opOf[q] # NoOp /\ x \in Op
  BY Pointers DEF IInv, Rows, ActionOf
<1>2. \A r \in Resv : ActionOf(r)' = ActionOf(r)
  BY ActionStays
<1>3. auth[q].chain # "used"
  <2>1. IInv'
    BY InvStep
  <2>2. auth'[q].chain # "used"
    BY <2>1, NextSafe DEF ReleasedIsDead
  <2>3. QED
    BY <2>2
<1> HIDE DEF x
<1>4. \A b \in Op : /\ ChargedOf(b)' = ChargedOf(b)
                    /\ LiveOf(b)' = LiveOf(b) \ {q}
  BY <1>2 DEF LiveOf, ChargedOf, Counting
<1>5. \A b \in Op : q \in LiveOf(b) <=> b = x
  BY <1>1 DEF LiveOf, Counting, x
<1>6. LiveOf(x) = {q}
  BY <1>1, <1>5, AtMostOne
<1>7. ChargedOf(x) = {}
  BY <1>1, <1>3, <1>6, AtMostOne DEF ChargedOf
<1>8. LiveMap' = [LiveMap EXCEPT ![x] = {}] /\ UNCHANGED ChargedMap
  <2>1. \A b \in Op : LiveOf(b)' = IF b = x THEN {} ELSE LiveOf(b)
    BY <1>4, <1>5, <1>6
  <2>2. QED
    BY <1>1, <1>4, <2>1 DEF LiveMap, ChargedMap
<1>9. QED
  BY <1>1, <1>6, <1>7, <1>8 DEF P!Void, LiveMap, ChargedMap

\* The chain charges, or orphans a charge of, the live row of one action.
LEMMA ChainShows ==
  ASSUME IInv, [Next]_vars, NEW q \in Resv, ChainStep(q)
  PROVE  [P!Next]_<<LiveMap, ChargedMap>>
<1>1. /\ UNCHANGED <<pay, op, opOf>>
      /\ \A r \in Resv \ {q} : auth'[r] = auth[r]
  BY DEF ChainStep, Charge, Cancel, Expire, Finalize, Reorg, OnChain, IInv, TypeOK, ledgerVars
<1>2. \A r \in Resv : ActionOf(r)' = ActionOf(r)
  BY <1>1 DEF ActionOf
<1>3. CASE auth'[q].chain = "used" <=> auth[q].chain = "used"
  BY <1>1, <1>3, NothingShows
<1>4. CASE ~(auth'[q].chain = "used" <=> auth[q].chain = "used")
  <2>1. auth[q].chain = "used" \/ auth'[q].chain = "used"
    BY <1>4
  <2>2. opOf[q] # NoOp /\ pay[q].state \in Counting
    <3>1. IInv'
      BY InvStep
    <3>2. opOf[q] # NoOp
      BY <1>1, <2>1, <3>1 DEF IInv, Rows
    <3>3. pay[q].state # "released"
      BY <1>1, <2>1, <3>1, NextSafe, DeadRows DEF ReleasedIsDead
    <3>4. pay[q].state \in {"absent", "authorized", "settled", "released"}
      BY DEF IInv, TypeOK, LedgerTypeOK, PayRow, AbsentRow, LiveRow, ReleasedRow, Counting
    <3>5. QED
      BY <3>2, <3>3, <3>4 DEF IInv, Rows, Counting
  <2>3. PICK x \in Op : x = ActionOf(q)
    BY <2>2, Pointers DEF IInv, Rows, ActionOf
  <2>4. \A b \in Op : /\ LiveOf(b)' = LiveOf(b)
                      /\ q \in LiveOf(b) <=> b = x
    BY <1>1, <1>2, <2>2, <2>3 DEF LiveOf
  <2>5. LiveOf(x) = {q}
    BY <2>4, AtMostOne
  <2>6. \A b \in Op \ {x} : q \notin ChargedOf(b) /\ q \notin ChargedOf(b)'
    BY <1>2, <2>3 DEF ChargedOf
  <2>7. \A b \in Op \ {x} : ChargedOf(b)' = ChargedOf(b)
    BY <1>1, <1>2, <2>6 DEF ChargedOf
  <2>8. UNCHANGED LiveMap
    BY <2>4 DEF LiveMap
  <2>9. ChargedOf(x) \subseteq {q}
    BY <2>5, AtMostOne
  <2>10. ChargedOf(x)' \subseteq {q}
    BY <1>1, <1>2, <2>9 DEF ChargedOf
  <2>11. CASE auth[q].chain # "used" /\ auth'[q].chain = "used"
    <3>1. ChargedOf(x) = {} /\ q \in ChargedOf(x)'
      BY <1>1, <1>2, <2>2, <2>3, <2>9, <2>11 DEF ChargedOf
    <3>2. ChargedOf(x)' = {q}
      BY <2>10, <3>1
    <3>3. ChargedMap' = [ChargedMap EXCEPT ![x] = {q}]
      BY <2>7, <3>2 DEF ChargedMap
    <3>4. P!Charge(x, q)
      BY <2>5, <2>8, <3>1, <3>3 DEF P!Charge, LiveMap, ChargedMap
    <3>5. QED
      BY <3>4 DEF P!Next
  <2>12. CASE auth[q].chain = "used" /\ auth'[q].chain # "used"
    <3>1. q \in ChargedOf(x) /\ q \notin ChargedOf(x)'
      BY <2>2, <2>3, <2>12 DEF ChargedOf
    <3>2. ChargedOf(x)' = {}
      BY <2>10, <3>1
    <3>3. ChargedMap' = [ChargedMap EXCEPT ![x] = {}]
      BY <2>7, <3>2 DEF ChargedMap
    <3>4. P!Orphan(x)
      BY <2>8, <3>1, <3>3 DEF P!Orphan, LiveMap, ChargedMap
    <3>5. QED
      BY <3>4 DEF P!Next
  <2>13. QED
    BY <1>4, <2>11, <2>12
<1>5. QED
  BY <1>3, <1>4

\* Every step of callers, workers and the chain is a step of Purchase, or none.
LEMMA PurchaseStep ==
  IInv /\ [Next]_vars => [P!Next]_<<LiveMap, ChargedMap>>
<1> SUFFICES ASSUME IInv, [Next]_vars PROVE [P!Next]_<<LiveMap, ChargedMap>>
  OBVIOUS
<1>1. ASSUME opOf' = opOf, auth' = auth, pay' = pay
      PROVE  UNCHANGED <<LiveMap, ChargedMap>>
  BY <1>1, NothingShows
<1>2. ASSUME opOf' = opOf, auth' = auth, NEW q \in Resv, Settle(q)
      PROVE  UNCHANGED <<LiveMap, ChargedMap>>
  <2>1. \A r \in Resv : pay'[r].state \in Counting <=> pay[r].state \in Counting
    BY <1>2, SettleEffect DEF IInv, Counting
  <2>2. QED
    BY <1>2, <2>1, NothingShows
<1>3. ASSUME NEW c \in Callers, CallerStep(c)
      PROVE  [P!Next]_<<LiveMap, ChargedMap>>
  <2>1. ASSUME NEW q \in Resv, NEW a \in Amounts, NEW u \in Unspendable,
               ReserveFor(c, q, a, u)
        PROVE  P!Next
    BY <2>1, ReserveAuthorizes DEF P!Next
  <2>2. ASSUME RefuseSignature(c) PROVE [P!Next]_<<LiveMap, ChargedMap>>
    <3>1. caller[c].resv \in Resv /\ UNCHANGED <<opOf, auth>>
      BY <2>2, Pointers DEF IInv, RefuseSignature, Signing
    <3>2. CASE UNCHANGED pay
      BY <1>1, <3>1, <3>2
    <3>3. CASE ReleaseUnsigned(caller[c].resv)
      <4>1. /\ pay[caller[c].resv].state = "authorized"
            /\ pay'[caller[c].resv].state = "released"
            /\ \A r \in Resv \ {caller[c].resv} : pay'[r] = pay[r]
        <5>1. PICK q \in Resv : q = caller[c].resv
          BY <3>1
        <5>2. pay[q].state = "authorized" /\ pay[q] \in LiveRow
          BY <3>3, <5>1, LiveRowType DEF ReleaseUnsigned, IInv, TypeOK
        <5>3. /\ pay'[q] = [pay[q] EXCEPT !.state = "released", !.reason = "signature_refused"]
              /\ \A r \in Resv \ {q} : pay'[r] = pay[r]
          BY <3>3, <5>1 DEF ReleaseUnsigned, IInv, TypeOK, LedgerTypeOK
        <5>4. QED
          BY <5>1, <5>2, <5>3 DEF LiveRow
      <4>2. QED
        BY <3>1, <4>1, ReleaseVoids DEF P!Next
    <3>4. QED
      BY <2>2, <3>2, <3>3 DEF RefuseSignature, ledgerVars
  <2>3. ASSUME Receipt(c) PROVE UNCHANGED <<LiveMap, ChargedMap>>
    BY <1>1, <1>2, <2>3, Pointers DEF IInv, Receipt, Signing, ledgerVars
  <2>4. ASSUME Send(c) PROVE UNCHANGED <<LiveMap, ChargedMap>>
    <3>1. /\ opOf' = opOf /\ pay' = pay
          /\ \A r \in Resv : auth'[r].chain = auth[r].chain
      BY <2>4 DEF Send, Disclose, ledgerVars, IInv, TypeOK, AuthRow
    <3>2. QED
      BY <3>1, NothingShows
  <2>5. CASE UNCHANGED <<pay, opOf, auth>>
    BY <1>1, <2>5
  <2>6. QED
    BY <1>3, <2>1, <2>2, <2>3, <2>4, <2>5
       DEF CallerStep, BeginNew, BeginReclaim, BeginReplace, BeginResend, SaveHeaders,
           Permit, Complete, WatchIfFailed, Watch, AbandonUnsigned, Lose, ledgerVars
<1>4. ASSUME NEW w \in Workers, WorkerStep(w)
      PROVE  [P!Next]_<<LiveMap, ChargedMap>>
  <2>1. CASE UNCHANGED <<pay, opOf, auth>>
    BY <1>1, <2>1
  <2>2. CASE RecordEvidence(w) /\ ~ UNCHANGED pay
    <3>1. PICK q \in Resv : q = worker[w].resv
      BY <2>2, OperationsAssumption DEF IInv, TypeOK, RecordEvidence, WorkerRow, Free
    <3>2. UNCHANGED <<opOf, auth>>
      BY <2>2 DEF RecordEvidence, Conclude
    <3>3. \/ Settle(q)
          \/ \E why \in EvidenceReasons : RecordReleased(q, why)
      BY <2>2, <3>1 DEF RecordEvidence, Apply, ledgerVars
    <3>4. CASE Settle(q)
      BY <1>2, <3>2, <3>4
    <3>5. CASE \E why \in EvidenceReasons : RecordReleased(q, why)
      BY <3>2, <3>5, ReleaseEffect, ReleaseVoids DEF IInv, P!Next
    <3>6. QED
      BY <3>3, <3>4, <3>5
  <2>3. QED
    BY <1>4, <2>1, <2>2
       DEF WorkerStep, Inspect, InspectLocally, Hold, RecordEvidence, Conclude, ledgerVars
<1>5. ASSUME NEW q \in Resv, ChainStep(q)
      PROVE  [P!Next]_<<LiveMap, ChargedMap>>
  BY <1>5, ChainShows
<1>6. CASE LedgerOnly \/ Crash \/ UNCHANGED vars
  BY <1>1, <1>6 DEF LedgerOnly, Reset, Restart, Review, ConfirmRefund, MineRefund, Crash, vars, ledgerVars
<1>7. QED
  BY <1>3, <1>4, <1>5, <1>6 DEF Next

\* PurchaseSpec: the durable operation identity implements one purchase per action.
THEOREM Refinement == Spec => PurchaseSpec
<1>1. Init => P!Init
  <2> SUFFICES ASSUME Init PROVE LiveMap = [a \in Op |-> {}] /\ ChargedMap = [a \in Op |-> {}]
    BY DEF P!Init, LiveMap, ChargedMap
  <2>1. \A r \in Resv : opOf[r] = NoOp
    BY DEF Init
  <2>2. QED
    BY <2>1 DEF LiveMap, ChargedMap, LiveOf, ChargedOf
<1>2. IInv /\ [Next]_vars => [P!Next]_(P!purchaseVars)
  BY PurchaseStep DEF P!purchaseVars, LiveMap, ChargedMap
<1>3. QED
  BY <1>1, <1>2, Invariant, PTL DEF Spec, PurchaseSpec, P!Spec

-----------------------------------------------------------------------------
(* The cap *)

\* What left the wallet was charged: the chain never runs ahead of the ledger.
LEMMA OutIsCharged ==
  ASSUME IInv
  PROVE  Outflow \in Nat /\ Outflow <= ChargedIn(period, pay)
<1> DEFINE S == {r \in Resv : pay[r].period = period /\ auth[r].chain = "used"}
           f == [r \in S |-> pay[r].amount]
           g == [r \in Resv |-> IF r \in S THEN f[r] ELSE 0]
<1>1. IsFiniteSet(Resv) /\ IsFiniteSet(S)
  BY FS_Subset, LedgerAssumption DEF LedgerAssumption
<1>2. \A r \in Resv : pay[r].amount \in Nat
  BY AmountsAreNumbers DEF IInv, TypeOK
<1>3. Outflow = SumFunctionOnSet(f, S)
  BY <1>1, AmountsSum DEF Outflow
<1>4. Outflow = SumFunctionOnSet(g, Resv)
  BY <1>1, <1>2, <1>3, SumOfPart
<1>5. \A r \in S : opOf[r] # NoOp
  BY DEF IInv, Rows
<1>6. \A r \in S : pay[r].state \in Counting
  BY <1>5, ChargedCounts
<1>7. \A r \in Resv : /\ g[r] \in Nat /\ Charged(period, pay)[r] \in Nat
                      /\ g[r] <= Charged(period, pay)[r]
  BY <1>2, <1>6 DEF Charged
<1>8. SumFunctionOnSet(g, Resv) \in Nat
  <2> HIDE DEF g
  <2> QED BY <1>1, <1>7, SumOfNats
<1>9. SumFunctionOnSet(g, Resv) <= SumFunctionOnSet(Charged(period, pay), Resv)
  <2> HIDE DEF g
  <2> QED BY <1>1, <1>7, SumMonotone
<1>10. ChargedIn(period, pay) = SumFunctionOnSet(Charged(period, pay), Resv)
  BY <1>2, ChargedIsSum
<1>11. QED
  BY <1>4, <1>8, <1>9, <1>10

\* OutflowWithinCap: whatever is lost, repeated, released or refunded, and however
\* the cap is edited, what left the wallet in a period stays within the greatest
\* cap the period has run under.
THEOREM OutflowSafe == MeteredSpec => []OutflowWithinCap
<1> DEFINE Inv == /\ IInv /\ BudgetInv
                  /\ ceiling \in Nat /\ Cap <= ceiling /\ Spent <= ceiling
<1>1. MeteredInit => Inv
  <2> SUFFICES ASSUME MeteredInit PROVE Inv
    OBVIOUS
  <2>1. IInv /\ BudgetInv
    BY InvInit, BudgetInit DEF MeteredInit, Init
  <2>2. LedgerTypeOK /\ \A r \in Resv : pay[r].period < period
    BY <2>1 DEF IInv, TypeOK, MeteredInit, Init, LedgerInit, AbsentRow
  <2>3. Spent = 0
    BY <2>2, LedgerAssumption, FutureUnspent DEF Spent, LedgerTypeOK, LedgerAssumption
  <2>4. Cap \in Nat
    BY <2>2, LedgerAssumption DEF LedgerTypeOK, LedgerAssumption, Cap
  <2>5. QED
    BY <2>1, <2>3, <2>4 DEF MeteredInit
<1>2. Inv /\ [MeteredNext]_meteredVars => Inv'
  <2> SUFFICES ASSUME Inv, [MeteredNext]_meteredVars PROVE Inv'
    OBVIOUS
  <2>1. CASE MeteredNext
    <3>1. [LedgerNext]_ledgerVars
      BY <2>1, LedgerPart DEF IInv, MeteredNext
    <3>2. QED
      BY <2>1, <3>1, InvStep, BudgetStep, CeilingKept DEF MeteredNext
  <2>2. CASE UNCHANGED meteredVars
    <3>1. IInv' /\ BudgetInv'
      BY <2>2, InvStep, BudgetStep DEF meteredVars, vars
    <3>2. Cap' = Cap /\ Spent' = Spent /\ ceiling' = ceiling
      BY <2>2 DEF meteredVars, vars, ledgerVars, Cap, Spent
    <3>3. QED
      BY <3>1, <3>2
  <2>3. QED
    BY <2>1, <2>2
<1>3. Inv => OutflowWithinCap
  <2> SUFFICES ASSUME Inv PROVE OutflowWithinCap
    OBVIOUS
  <2>1. Outflow \in Nat /\ Outflow <= ChargedIn(period, pay)
    BY OutIsCharged
  <2>2. \A r \in Resv : pay[r].amount \in Nat
    BY AmountsAreNumbers DEF IInv, TypeOK
  <2>3. Spent \in Nat /\ ChargedIn(period, pay) - RefundedIn(period, pay, refund) = Spent
    BY <2>2, SpentIsSum DEF Spent
  <2>4. ChargedIn(period, pay) \in Nat /\ RefundedIn(period, pay, refund) \in Nat
    BY <2>2, SumsAreNumbers
  <2>5. QED
    BY <2>1, <2>3, <2>4 DEF OutflowWithinCap
<1>4. QED
  BY <1>1, <1>2, <1>3, PTL DEF MeteredSpec

=============================================================================
