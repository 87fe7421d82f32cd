------------------------------ MODULE DexOrders ------------------------------
(***************************************************************************)
(* Swaps of one live strategy on a chain                                   *)
(* (server/src/services/dex_confirmed.py, strategy_service._tick_live,     *)
(* the response fences of confirmed_execution.py).                         *)
(*                                                                         *)
(* A tick settles what is pending from finalized receipts, asks for an     *)
(* evaluation, and reserves, signs and broadcasts one order at a time.  An *)
(* order may need an approval transaction before its swap.  The hash of a  *)
(* signed transaction is stored before it is broadcast, and nothing is ever *)
(* broadcast again.  `tick_lock` lets one tick of the strategy run and     *)
(* refuses a change of its status meanwhile; the tick itself may pause the *)
(* strategy, when the portfolio switch trips under it.  The process may    *)
(* stop at any step.                                                       *)
(***************************************************************************)
EXTENDS Integers, FiniteSets, FiniteSetsExt

CONSTANTS
  MaxOrders,  \* rows of dex_orders that may be inserted
  Positions,  \* engine_position_ids
  MaxQty,     \* quantity of the largest order
  EntrySizes, \* quantities an entry may be for
  Unapproved, \* the sides whose token may need an approval before its swap
  Approved,   \* the sides whose token may have one already
  None        \* no order

ASSUME DexAssumption ==
  /\ Unapproved \subseteq {"buy", "sell"} /\ Approved \subseteq {"buy", "sell"}
  /\ MaxOrders \in Nat /\ MaxQty \in Nat \ {0}
  /\ EntrySizes \subseteq 1..MaxQty
  /\ None \notin 1..MaxOrders

\* In the order of created_at.
Orders == 1..MaxOrders

VARIABLES
  order,      \* the rows of dex_orders
  held,       \* dex_holdings.quantity, by position
  posn,       \* positions.status
  strategy,   \* live; monitored (inactive, exit_only_mode live); inactive
  tick,       \* what the running tick is doing
  chain       \* environment: the transactions of each order

vars == <<order, held, posn, strategy, tick, chain>>

-----------------------------------------------------------------------------
(* The journal *)

Pending == {"submitting", "pending", "uncertain"}
Closed == {"confirmed", "fee_only", "failed"}

Intent == [pos : Positions, side : {"buy"}, qty : EntrySizes]
  \cup [pos : Positions, side : {"sell"}, qty : 1..MaxQty]

\* approval: approval_tx_hash is stored; hash: tx_hash is stored.
NoOrder == [status |-> "absent", intent |-> None, approval |-> FALSE, hash |-> FALSE]

OrderRow == {NoOrder} \cup
  [status : Pending \cup Closed, intent : Intent, approval : BOOLEAN, hash : BOOLEAN]

PendingOrders == {o \in Orders : order[o].status \in Pending}
PendingOn(p) == {o \in PendingOrders : order[o].intent.pos = p}

\* confirmed_execution.has_exposure: a position or an unresolved order.
HasExposure == PendingOrders # {} \/ \E p \in Positions : posn[p] = "open"

\* The transactions.  A sent one may stay unseen for ever; a swap counts as
\* filled, reverted or odd when its receipt is final.  An odd receipt is one the
\* code will not book: token or wallet flows other than those of the order.
ApprovalState == {"none", "sent", "mined", "reverted"}
SwapState == {"none", "sent", "filled", "reverted", "odd"}

Places == {"idle", "reconcile", "evaluate", "loop", "prepare", "approve",
           "poll", "swap", "send", "settle"}

Idle == [at |-> "idle", todo |-> {}, intents |-> {}, batch |-> FALSE, on |-> None,
         attempted |-> FALSE]

\* batch: several exits, where one that fails is passed over; attempted: a
\* broadcast of this order was begun.
TickRow == [at : Places, todo : SUBSET Orders, intents : SUBSET Intent,
            batch : BOOLEAN, on : Orders \cup {None}, attempted : BOOLEAN]

Init ==
  /\ order = [o \in Orders |-> NoOrder]
  /\ held = [p \in Positions |-> 0]
  /\ posn = [p \in Positions |-> "none"]
  /\ strategy = "live"
  /\ tick = Idle
  /\ chain = [o \in Orders |-> [approval |-> "none", swap |-> "none", fill |-> 0]]

-----------------------------------------------------------------------------
(* The life of the strategy, as far as a tick depends on it *)

\* Pausing keeps ticks coming until the book is flat.
Paused == IF HasExposure THEN "monitored" ELSE "inactive"

\* A person changes the status; a running tick refuses it.
Pause ==
  /\ tick.at = "idle" /\ strategy = "live"
  /\ strategy' = Paused
  /\ UNCHANGED <<order, held, posn, tick, chain>>

Activate ==
  /\ tick.at = "idle" /\ strategy # "live"
  /\ strategy' = "live"
  /\ UNCHANGED <<order, held, posn, tick, chain>>

\* The portfolio check of a tick trips: the tick's own strategy is paused under
\* its fence.  It may fail to be, and is then paused by a later check.
Halted == strategy' \in {strategy, IF strategy = "live" THEN Paused ELSE strategy}

-----------------------------------------------------------------------------
(* Settlement from receipts: reconcile, at the start of every tick *)

StartTick ==
  /\ tick.at = "idle" /\ strategy # "inactive"
  /\ tick' = [Idle EXCEPT !.at = "reconcile", !.todo = PendingOrders]
  /\ UNCHANGED <<order, held, posn, strategy, chain>>

\* apply_fill: order, trade, position, holding and book revision in one commit.
ApplyFill(o) ==
  LET i == order[o].intent
      n == chain[o].fill
  IN /\ order[o].hash /\ chain[o].swap = "filled"
     /\ IF i.side = "buy" THEN posn[i.pos] = "none" ELSE posn[i.pos] # "none" /\ n <= held[i.pos]
     /\ order' = [order EXCEPT ![o].status = "confirmed"]
     /\ held' = [held EXCEPT ![i.pos] = IF i.side = "buy" THEN n ELSE @ - n]
     /\ posn' = [posn EXCEPT ![i.pos] = IF held'[i.pos] = 0 THEN "closed" ELSE "open"]

\* No swap was signed and the approval is final, or the swap reverted.
OnlyFees(o) ==
  \/ ~order[o].hash /\ order[o].approval /\ chain[o].approval \in {"mined", "reverted"}
  \/ order[o].hash /\ chain[o].swap = "reverted"

FeeOnly(o) ==
  /\ OnlyFees(o)
  /\ order' = [order EXCEPT ![o].status = "fee_only"]
  /\ UNCHANGED <<held, posn>>

ReconcileFinal(o) ==
  /\ tick.at = "reconcile" /\ o \in tick.todo /\ \A u \in tick.todo : o <= u
  /\ ApplyFill(o) \/ FeeOnly(o)
  /\ tick' = [tick EXCEPT !.todo = @ \ {o}]
  /\ UNCHANGED <<strategy, chain>>

\* Variant: a receipt that fails its checks ends the reconciliation.
ReconcileNothingRaises(o) ==
  /\ tick.at = "reconcile" /\ o \in tick.todo /\ \A u \in tick.todo : o <= u
  /\ tick' = IF chain[o].swap = "odd" THEN Idle ELSE [tick EXCEPT !.todo = @ \ {o}]
  /\ UNCHANGED <<order, held, posn, strategy, chain>>

\* No hash, no final receipt, a receipt that cannot be read or fails its checks:
\* the order is left as it is.
ReconcileNothing(o) ==
  /\ tick.at = "reconcile" /\ o \in tick.todo /\ \A u \in tick.todo : o <= u
  /\ tick' = [tick EXCEPT !.todo = @ \ {o}]
  /\ UNCHANGED <<order, held, posn, strategy, chain>>

\* The portfolio is checked; an evaluation may be turned down by the switch.
CheckPortfolio ==
  /\ tick.at = "reconcile" /\ tick.todo = {}
  /\ tick' = [tick EXCEPT !.at = "evaluate"]
  /\ Halted
  /\ UNCHANGED <<order, held, posn, chain>>

-----------------------------------------------------------------------------
(* Evaluation and reservation *)

ExitBatches == {I \in SUBSET {i \in Intent : i.side = "sell" /\ i.qty <= held[i.pos]} :
                  Cardinality(I) <= 2}
Entries == IF strategy = "live" /\ PendingOrders = {}
           THEN {{i} : i \in {j \in Intent : j.side = "buy"}} ELSE {}

\* Exits, or one entry: of a live strategy with a complete book and nothing
\* pending.  An entry that the history, the revisions or the switch turn down is
\* one not chosen here.  Only this tick books fills, so its revisions stand.
Evaluate ==
  /\ tick.at = "evaluate"
  /\ \E I \in ExitBatches \cup Entries :
       tick' = [tick EXCEPT !.at = "loop", !.intents = I, !.batch = Cardinality(I) > 1]
  /\ UNCHANGED <<order, held, posn, strategy, chain>>

MayEnter(i) == strategy = "live" /\ posn[i.pos] = "none" /\ PendingOrders = {}

\* Variant: pending orders of the position do not hold up an exit.
MayExitBeside(i) == strategy # "inactive" /\ i.qty <= held[i.pos]

MayExit(i) == strategy # "inactive" /\ PendingOn(i.pos) = {} /\ i.qty <= held[i.pos]

Reserve(i, o) ==
  /\ tick.at = "loop" /\ i \in tick.intents
  /\ \A u \in Orders : order[u].status = "absent" <=> u >= o
  /\ IF i.side = "buy" THEN MayEnter(i) ELSE MayExit(i)
  /\ order' = [order EXCEPT ![o] = [NoOrder EXCEPT !.status = "submitting", !.intent = i]]
  /\ tick' = [tick EXCEPT !.at = "prepare", !.intents = @ \ {i}, !.on = o, !.attempted = FALSE]
  /\ UNCHANGED <<held, posn, strategy, chain>>

\* The reservation is refused: a pending order, a changed status, a used key, an
\* exit beyond the holding, or the portfolio switch.
SkipIntent(i) ==
  /\ tick.at = "loop" /\ i \in tick.intents
  /\ tick' = [tick EXCEPT !.intents = @ \ {i}]
  /\ Halted
  /\ UNCHANGED <<order, held, posn, chain>>

\* The end of a tick that was not cut short: a monitor retires when flat.
FinishTick ==
  /\ tick.at = "loop" /\ tick.intents = {}
  /\ tick' = Idle
  /\ strategy' = IF strategy = "monitored" /\ ~HasExposure THEN "inactive" ELSE strategy
  /\ UNCHANGED <<order, held, posn, chain>>

-----------------------------------------------------------------------------
(* execute *)

\* Variant: an execution that did not end well has failed.
OutcomeFailed == "failed"

\* Nothing was broadcast: terminal.  Otherwise unknown.
Outcome == IF tick.attempted THEN "uncertain" ELSE "failed"

\* Any exception, at any place: the outcome is stored, and the tick ends unless
\* it is working through several exits.
Fails ==
  /\ order' = [order EXCEPT ![tick.on].status = Outcome]
  /\ tick' = IF tick.batch THEN [tick EXCEPT !.at = "loop", !.on = None] ELSE Idle
  /\ UNCHANGED <<held, posn, chain>>

Executing == {"prepare", "approve", "poll", "swap", "send", "settle"}

\* A quote, a check, a signature, a poll or a request fails, or an entry is no
\* longer authorized.
ExecuteFails == tick.at \in Executing /\ Fails /\ Halted

\* The hash is stored before the broadcast.
Sign(o) == [order EXCEPT ![o].hash = TRUE, ![o].status = "pending"]

\* The approval is signed and its hash stored.
SignApproval ==
  /\ tick.at = "prepare" /\ order[tick.on].intent.side \in Unapproved
  /\ order' = [order EXCEPT ![tick.on].approval = TRUE]
  /\ tick' = [tick EXCEPT !.at = "approve"]
  /\ UNCHANGED <<held, posn, strategy, chain>>

\* An entry is authorized once more, under the lock of the broadcast.
Authorized == order[tick.on].intent.side = "buy" => strategy = "live"

\* A request that is lost before it reaches the chain is one never mined.
BroadcastApproval ==
  /\ tick.at = "approve" /\ Authorized
  /\ chain' = [chain EXCEPT ![tick.on].approval = "sent"]
  /\ tick' = [tick EXCEPT !.at = "poll", !.attempted = TRUE]
  /\ UNCHANGED <<order, held, posn, strategy>>

\* Only a mined approval lets the swap go on.
PollApproval ==
  /\ tick.at = "poll" /\ chain[tick.on].approval = "mined"
  /\ tick' = [tick EXCEPT !.at = "swap"]
  /\ UNCHANGED <<order, held, posn, strategy, chain>>

SignSwap ==
  /\ \/ tick.at = "prepare" /\ order[tick.on].intent.side \in Approved
     \/ tick.at = "swap"
  /\ Authorized
  /\ order' = Sign(tick.on)
  /\ tick' = [tick EXCEPT !.at = "send"]
  /\ UNCHANGED <<held, posn, strategy, chain>>

BroadcastSwap ==
  /\ tick.at = "send" /\ Authorized
  /\ chain' = [chain EXCEPT ![tick.on].swap = "sent"]
  /\ tick' = [tick EXCEPT !.at = "settle", !.attempted = TRUE]
  /\ UNCHANGED <<order, held, posn, strategy>>

\* reconcile_one, right after the broadcast.
SettleNow ==
  /\ tick.at = "settle"
  /\ ApplyFill(tick.on) \/ FeeOnly(tick.on) \/ UNCHANGED <<order, held, posn>>
  /\ tick' = [tick EXCEPT !.at = "loop", !.on = None]
  /\ UNCHANGED <<strategy, chain>>

-----------------------------------------------------------------------------
(* Failures and the chain *)

\* The process stops, or a tick fails outside an execution.
Stop ==
  /\ tick.at # "idle"
  /\ tick' = Idle
  /\ UNCHANGED <<order, held, posn, strategy, chain>>

MineApproval(o) ==
  /\ chain[o].approval = "sent"
  /\ \E s \in {"mined", "reverted"} : chain' = [chain EXCEPT ![o].approval = s]
  /\ UNCHANGED <<order, held, posn, strategy, tick>>

FinalizeSwap(o) ==
  /\ chain[o].swap = "sent"
  /\ \/ \E s \in {"reverted", "odd"} : chain' = [chain EXCEPT ![o].swap = s]
     \/ \E n \in 1..order[o].intent.qty :
          chain' = [chain EXCEPT ![o].swap = "filled", ![o].fill = n]
  /\ UNCHANGED <<order, held, posn, strategy, tick>>

-----------------------------------------------------------------------------
Reconcile == \E o \in Orders : ReconcileFinal(o) \/ ReconcileNothing(o)

Execute ==
  \/ SignApproval \/ BroadcastApproval \/ PollApproval \/ SignSwap \/ BroadcastSwap
  \/ SettleNow \/ ExecuteFails

Decide ==
  \/ CheckPortfolio \/ Evaluate \/ FinishTick
  \/ \E i \in Intent : SkipIntent(i) \/ \E o \in Orders : Reserve(i, o)

TickStep == Reconcile \/ Decide \/ Execute

Chain == \E o \in Orders : MineApproval(o) \/ FinalizeSwap(o)

Next == Pause \/ Activate \/ StartTick \/ TickStep \/ Stop \/ Chain

\* The pass of a reconciliation over one order, and one that settles its swap.
ReconcileOne(o) == ReconcileFinal(o) \/ ReconcileNothing(o)
SettleSwap(o) == order[o].hash /\ ReconcileFinal(o)

\* The scheduler fires ticks while the job exists, and a tick that is not stopped
\* goes on.  A process that comes to the same order again and again is not
\* killed there every time, and a receipt that is looked for again and again is
\* read once; nothing is assumed of a receipt that fails its checks.
Fairness ==
  /\ WF_vars(StartTick) /\ WF_vars(TickStep)
  /\ \A o \in Orders : SF_vars(ReconcileOne(o)) /\ SF_vars(SettleSwap(o))

Spec == Init /\ [][Next]_vars /\ Fairness

-----------------------------------------------------------------------------
(* Properties *)

\* Every row, place and quantity has its type.
TypeOK ==
  /\ order \in [Orders -> OrderRow]
  /\ held \in [Positions -> 0..MaxQty]
  /\ posn \in [Positions -> {"none", "open", "closed"}]
  /\ strategy \in {"live", "monitored", "inactive"}
  /\ tick \in TickRow
  /\ chain \in [Orders -> [approval : ApprovalState, swap : SwapState, fill : 0..MaxQty]]

\* The journal promises what OrderJournal says: only finalized fills are booked,
\* once, and an order is closed only when its swap can no longer be mined
\* (docs/confirmed-execution.md:57).
Journal == INSTANCE OrderJournal WITH
  state <- [o \in Orders |-> CASE order[o].status = "absent" -> "none"
                               [] order[o].status \in Pending -> "open"
                               [] OTHER -> "closed"],
  booked <- [o \in Orders |-> IF order[o].status = "confirmed" THEN chain[o].fill ELSE 0],
  executed <- [o \in Orders |-> chain[o].fill],
  over <- [o \in Orders |->
             \/ chain[o].swap \in {"filled", "reverted", "odd"}
             \/ chain[o].swap = "none" /\ order[o].status # "absent" /\ tick.on # o]

ImplementsJournal == Journal!Spec

Confirmed(p, side) ==
  MapThenSumSet(LAMBDA o : chain[o].fill,
                {o \in Orders : /\ order[o].status = "confirmed"
                                /\ order[o].intent.pos = p /\ order[o].intent.side = side})

\* A holding is what confirmed receipts add up to, however often an order is
\* reconciled and wherever the process stops (dex_confirmed.py, apply_fill).
FillsBookedOnce == \A p \in Positions : held[p] = Confirmed(p, "buy") - Confirmed(p, "sell")

Bought(p) == MapThenSumSet(LAMBDA o : chain[o].fill,
  {o \in Orders : order[o].status # "absent" /\ order[o].intent.pos = p /\ order[o].intent.side = "buy"})

\* What the chain may still make of an order, or has made of it unverified.
AtRisk(o) ==
  CASE chain[o].swap \in {"sent", "odd"} -> order[o].intent.qty
    [] OTHER -> chain[o].fill

\* However slowly receipts come, the sells in flight and done never exceed what
\* the position bought (dex_confirmed.py, reserve).
NeverOversold ==
  \A p \in Positions :
    MapThenSumSet(LAMBDA o : AtRisk(o),
      {o \in Orders : order[o].status # "absent" /\ order[o].intent.pos = p /\ order[o].intent.side = "sell"})
      <= Bought(p)

\* A swap that filled or reverted is settled in the journal in the end, through
\* crashes, pauses, failed reads and beside orders that never settle: a strategy
\* with an unresolved order keeps its monitor (confirmed_execution.py,
\* has_exposure), and one order that fails does not hold up the next.  A final
\* receipt stays final and a closed order closed, so that this says of each order
\* that the one leads to the other.
Settles ==
  <>[](\A o \in Orders : chain[o].swap \in {"filled", "reverted"} => order[o].status \in Closed)

=============================================================================
