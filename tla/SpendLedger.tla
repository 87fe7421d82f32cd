----------------------------- MODULE SpendLedger -----------------------------
(***************************************************************************)
(* The agent-wide x402 spending budget and its refunds                     *)
(* (server/src/services/spend_service.py and refund_service.py).           *)
(*                                                                         *)
(* A row of `x402_payments` is one payment authorization; the budget is    *)
(* the sum of the rows of the current period, and `x402_spend_state` holds *)
(* the period, the cap a person authorized and the `exhausted` latch.      *)
(* Every writer runs inside `_budget_transaction`, so every action here is *)
(* one such transaction.  Who calls them, and when, is the business of     *)
(* PaymentOperations, which composes this module.                          *)
(***************************************************************************)
EXTENDS Integers, FiniteSets, FiniteSetsExt

CONSTANTS
  Resv,        \* reservation ids: the rows the ledger may come to hold
  Amounts,     \* micro-USD amounts an authorization may be for
  ConfigCaps,  \* values X402_SPEND_CAP_USD may have when the process starts
  Caps,        \* budgets a person may authorize at a reset
  NoCap,       \* period_cap_micro_usd IS NULL
  Txs,         \* refund transactions that may be mined
  NoTx,        \* refund_tx IS NULL
  MaxPeriod    \* bound on the period counter

ASSUME LedgerAssumption ==
  /\ IsFiniteSet(Resv)
  /\ Amounts \subseteq Nat
  /\ ConfigCaps \subseteq Nat /\ Caps \subseteq Nat
  /\ ConfigCaps # {}
  /\ NoCap \notin Nat
  /\ NoTx \notin Txs
  /\ MaxPeriod \in Nat \ {0}

VARIABLES
  period,      \* x402_spend_state.period_id
  periodCap,   \* x402_spend_state.period_cap_micro_usd
  configCap,   \* the configured cap the running process read at start
  exhausted,   \* x402_spend_state.exhausted
  pay,         \* the rows of x402_payments
  refund,      \* the rows of x402_refunds, by reservation
  transfer     \* environment: amount each mined refund transaction moved

budgetVars == <<period, periodCap, configCap, exhausted>>
ledgerVars == <<period, periodCap, configCap, exhausted, pay, refund, transfer>>

-----------------------------------------------------------------------------
(* Rows *)

Counting == {"authorized", "settled"}

EvidenceReasons == {"expired_unused", "cancelled", "unspendable"}
Reasons == {"none", "signature_refused"} \cup EvidenceReasons

AbsentRow == [state |-> "absent", amount |-> 0, period |-> 0, reason |-> "none"]
NoRefund == [state |-> "none", tx |-> NoTx]

\* A row says why it was released, and only then.
LiveRow == [state : Counting, amount : Amounts, period : 1..MaxPeriod, reason : {"none"}]
ReleasedRow == [state : {"released"}, amount : Amounts, period : 1..MaxPeriod,
                reason : Reasons \ {"none"}]
PayRow == {AbsentRow} \cup LiveRow \cup ReleasedRow

RefundRow == [state : {"none", "pending", "review"}, tx : {NoTx}]
               \cup [state : {"confirmed"}, tx : Txs]

-----------------------------------------------------------------------------
(* Sums the code computes on read *)

\* The budget of the current period: what a person authorized, else config.
Cap == IF periodCap = NoCap THEN configCap ELSE periodCap

\* Everything of period p that is not released.
ChargedIn(p, rows) ==
  MapThenSumSet(LAMBDA r : rows[r].amount,
                {r \in Resv : rows[r].period = p /\ rows[r].state \in Counting})

\* Confirmed refunds of settled rows of period p.
RefundedIn(p, rows, refs) ==
  MapThenSumSet(LAMBDA r : rows[r].amount,
                {r \in Resv : /\ rows[r].period = p
                              /\ rows[r].state = "settled"
                              /\ refs[r].state = "confirmed"})

\* _spent_micro_usd
SpentIn(p, rows, refs) == Max({0, ChargedIn(p, rows) - RefundedIn(p, rows, refs)})

Spent == SpentIn(period, pay, refund)

\* The latch after a correction of row r that may have made room: only a row
\* of the current period, and only when the new total is under the cap.
UnlatchedBy(r) ==
  /\ pay[r].period = period
  /\ SpentIn(period, pay', refund') < Cap

-----------------------------------------------------------------------------
LedgerInit ==
  /\ period = 1
  /\ periodCap = NoCap
  /\ configCap \in ConfigCaps
  /\ exhausted = FALSE
  /\ pay = [r \in Resv |-> AbsentRow]
  /\ refund = [r \in Resv |-> NoRefund]
  /\ transfer = [t \in Txs |-> 0]

\* INSERT of an authorized row.
Booked(r, a, p) ==
  [pay EXCEPT ![r] = [state |-> "authorized", amount |-> a, period |-> p,
                      reason |-> "none"]]

LatchFor(total) == total >= Cap /\ total > 0

\* Variant: the price is left out of the cap check.
ReserveUnpriced(r, a) ==
  /\ pay[r].state = "absent"
  /\ ~exhausted
  /\ Spent < Cap
  /\ pay' = Booked(r, a, period)
  /\ exhausted' = LatchFor(Spent + a)
  /\ UNCHANGED <<period, periodCap, configCap, refund, transfer>>

\* Variant: the row is stamped with a period read before the lock was taken.
ReserveStale(r, a) ==
  /\ pay[r].state = "absent"
  /\ ~exhausted
  /\ Spent + a <= Cap
  /\ \E p \in 1..period : pay' = Booked(r, a, p)
  /\ exhausted' = LatchFor(Spent + a)
  /\ UNCHANGED <<period, periodCap, configCap, refund, transfer>>

\* reserve: refused (an exception, no change) unless the amount fits; the row
\* that fills the budget sets the latch in the same transaction.
Reserve(r, a) ==
  /\ pay[r].state = "absent"
  /\ ~exhausted
  /\ Spent + a <= Cap
  /\ pay' = Booked(r, a, period)
  /\ exhausted' = LatchFor(Spent + a)
  /\ UNCHANGED <<period, periodCap, configCap, refund, transfer>>

\* Variant: the latch is left set when the refused signature gives room back.
ReleaseUnsignedLatched(r) ==
  /\ pay[r].state = "authorized"
  /\ pay' = [pay EXCEPT ![r].state = "released", ![r].reason = "signature_refused"]
  /\ UNCHANGED <<period, periodCap, configCap, exhausted, refund, transfer>>

\* release_unsigned: the signature was refused before anything was disclosed.
ReleaseUnsigned(r) ==
  /\ pay[r].state = "authorized"
  /\ pay' = [pay EXCEPT ![r].state = "released", ![r].reason = "signature_refused"]
  /\ UNCHANGED <<period, periodCap, configCap, refund, transfer>>
  /\ exhausted' = (exhausted /\ ~(/\ pay[r].amount > 0
                                  /\ Spent >= Cap
                                  /\ UnlatchedBy(r)))

\* settle, and _record_evidence when the money moved: only an authorized row.
Settle(r) ==
  /\ pay[r].state = "authorized"
  /\ pay' = [pay EXCEPT ![r].state = "settled"]
  /\ UNCHANGED <<period, periodCap, configCap, exhausted, refund, transfer>>

\* _record_evidence, the ledger's half, when the money never can move.
RecordReleased(r, why) ==
  /\ pay[r].state = "authorized"
  /\ pay' = [pay EXCEPT ![r].state = "released", ![r].reason = why]
  /\ UNCHANGED <<period, periodCap, configCap, refund, transfer>>
  /\ exhausted' = (exhausted /\ ~UnlatchedBy(r))

\* reset: the human top-up; an omitted cap keeps the one in force.
Reset(c) ==
  /\ period < MaxPeriod
  /\ period' = period + 1
  /\ exhausted' = FALSE
  /\ periodCap' = IF c = NoCap THEN periodCap ELSE c
  /\ UNCHANGED <<configCap, pay, refund, transfer>>

\* A restart re-reads X402_SPEND_CAP_USD; the tables survive.
Restart(c) ==
  /\ configCap' = c
  /\ UNCHANGED <<period, periodCap, exhausted, pay, refund, transfer>>

-----------------------------------------------------------------------------
(* Refunds *)

\* watch_failed_operation, for the settled rows among rs (INSERT OR IGNORE).
Watched(rs) ==
  [r \in Resv |-> IF /\ r \in rs
                     /\ pay[r].state = "settled"
                     /\ pay[r].amount > 0
                     /\ refund[r].state = "none"
                  THEN [state |-> "pending", tx |-> NoTx] ELSE refund[r]]

Watch(rs) ==
  /\ refund' = Watched(rs)
  /\ UNCHANGED <<period, periodCap, configCap, exhausted, pay, transfer>>

\* run_once: the provider reports that a person is reviewing the refund.
Review(r) ==
  /\ refund[r].state \in {"pending", "review"}
  /\ refund' = [refund EXCEPT ![r].state = "review"]
  /\ UNCHANGED <<period, periodCap, configCap, exhausted, pay, transfer>>

\* verify_refund: the finalized transaction t moves exactly the row's amount
\* back.  Nothing in it names the charge it repays.
VerifiedRefund(r, t) ==
  /\ pay[r].state = "settled"
  /\ transfer[t] = pay[r].amount

\* Variant: without UNIQUE(network, refund_tx).
ConfirmRefundShared(r, t) ==
  /\ refund[r].state \in {"pending", "review"}
  /\ VerifiedRefund(r, t)
  /\ refund' = [refund EXCEPT ![r] = [state |-> "confirmed", tx |-> t]]
  /\ UNCHANGED <<period, periodCap, configCap, pay, transfer>>
  /\ exhausted' = (exhausted /\ ~UnlatchedBy(r))

\* apply_confirmed_refund: UNIQUE(network, refund_tx) lets one transaction be
\* credited once; the second UPDATE raises and its transaction rolls back.
ConfirmRefund(r, t) ==
  /\ refund[r].state \in {"pending", "review"}
  /\ VerifiedRefund(r, t)
  /\ \A s \in Resv : refund[s].tx # t
  /\ refund' = [refund EXCEPT ![r] = [state |-> "confirmed", tx |-> t]]
  /\ UNCHANGED <<period, periodCap, configCap, pay, transfer>>
  /\ exhausted' = (exhausted /\ ~UnlatchedBy(r))

\* Environment: the payee sends a transfer that becomes final.
MineRefund(t, a) ==
  /\ transfer[t] = 0
  /\ a > 0
  /\ transfer' = [transfer EXCEPT ![t] = a]
  /\ UNCHANGED <<period, periodCap, configCap, exhausted, pay, refund>>

-----------------------------------------------------------------------------
LedgerNext ==
  \/ \E r \in Resv, a \in Amounts : Reserve(r, a)
  \/ \E r \in Resv : ReleaseUnsigned(r)
  \/ \E r \in Resv : Settle(r)
  \/ \E r \in Resv, why \in EvidenceReasons : RecordReleased(r, why)
  \/ \E c \in Caps \cup {NoCap} : Reset(c)
  \/ \E c \in ConfigCaps : Restart(c)
  \/ \E rs \in SUBSET Resv : Watch(rs)
  \/ \E r \in Resv : Review(r)
  \/ \E r \in Resv, t \in Txs : ConfirmRefund(r, t)
  \/ \E t \in Txs, a \in Amounts : MineRefund(t, a)

LedgerSpec == LedgerInit /\ [][LedgerNext]_ledgerVars

-----------------------------------------------------------------------------
(* Properties *)

\* Every variable of the ledger has its type.
LedgerTypeOK ==
  /\ period \in 1..MaxPeriod
  /\ periodCap \in Caps \cup {NoCap}
  /\ configCap \in ConfigCaps
  /\ exhausted \in BOOLEAN
  /\ pay \in [Resv -> PayRow]
  /\ refund \in [Resv -> RefundRow]
  /\ transfer \in [Txs -> Amounts \cup {0}]

\* No step that adds to a period's spending leaves it over the cap in force,
\* even when the configured cap was lowered under running reservations and
\* even when the room came from releases and refunds.
SpendingRespectsCap ==
  [][\A p \in 1..MaxPeriod :
       SpentIn(p, pay', refund') > SpentIn(p, pay, refund)
         => p = period' /\ SpentIn(p, pay', refund') <= Cap']_ledgerVars

\* The latch never drifts from the condition it caches: payments are stopped
\* when, and only when, a positive budget is fully committed, and no
\* interleaving of reservations, releases, evidence, refunds and resets makes
\* it otherwise.  Only an edit of the configured cap under a running period can;
\* after one that left a cap of zero under some spending, corrections down to
\* nothing leave the latch set (spent < cap is strict), and nothing fits anyway.
LatchExact == exhausted <=> LatchFor(Spent)

LatchNeverDrifts ==
  [][configCap' = configCap /\ LatchExact /\ (Cap > 0 \/ Spent = 0)
       => LatchExact']_ledgerVars

\* Spending of a closed period can only be corrected downwards: no reserve,
\* receipt, evidence or refund that arrives after a reset adds to it.
ClosedPeriodsOnlyShrink ==
  [][\A p \in 1..MaxPeriod :
       p < period' => SpentIn(p, pay', refund') <= SpentIn(p, pay, refund)]_ledgerVars

\* Credits are backed by distinct transfers of the exact amount: two charges
\* of equal terms never share one repayment.
CreditOnce ==
  \A r, s \in Resv :
    refund[r].state = "confirmed" =>
      /\ refund[r].tx \in Txs
      /\ pay[r].state = "settled"
      /\ transfer[refund[r].tx] = pay[r].amount
      /\ (r # s => refund[s].tx # refund[r].tx)

=============================================================================
