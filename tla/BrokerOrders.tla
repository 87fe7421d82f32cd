---------------------------- MODULE BrokerOrders ----------------------------
(***************************************************************************)
(* Robinhood execution of one strategy                                     *)
(* (server/src/services/broker_execution.py, broker_store.py,              *)
(* robinhood_venue.py and the fences of confirmed_execution.py).           *)
(*                                                                         *)
(* An order is a durable intent, reserved before it is sent.  What the     *)
(* venue made of it is learned from the reply or, later, from its order    *)
(* history; cumulative snapshots are booked into positions exactly once.   *)
(* `broker_execution._lock` makes one process do one thing at a time; the  *)
(* journal is shared, and the code's transactions and unique indexes are   *)
(* what orders several processes, so the model runs several.  The status of *)
(* the strategy and the portfolio check can only turn an intent down, which *)
(* is always possible here; StrategyLifecycle models them.                  *)
(***************************************************************************)
EXTENDS Integers, FiniteSets, FiniteSetsExt

CONSTANTS
  Procs,      \* agent processes on one database
  Tickers,    \* those that tick and cancel; the others only reconcile
  Orders,     \* ref_ids that may be drawn
  Positions,  \* engine_position_ids
  MaxQty,     \* quantity of the largest order
  EntrySizes, \* quantities an entry may be for
  None        \* no order

ASSUME BrokerAssumption ==
  /\ Tickers \subseteq Procs /\ IsFiniteSet(Orders)
  /\ MaxQty \in Nat \ {0}
  /\ EntrySizes \subseteq 1..MaxQty
  /\ None \notin Orders

VARIABLES
  order,      \* the rows of broker_orders
  held,       \* broker_holdings.quantity, by position
  posn,       \* positions.status
  proc,       \* what each process is doing under its lock
  venue       \* environment: the venue's own view of each order

vars == <<order, held, posn, proc, venue>>

-----------------------------------------------------------------------------
(* The journal *)

\* Variant: an order of unknown outcome is not waited for.
PendingKnown == {"submitting", "open", "awaiting_approval", "cancel_pending"}

\* "open" stands for open and partial, "canceled" for canceled and rejected: no
\* code tells the two of a pair apart.
Pending == {"submitting", "uncertain", "open", "awaiting_approval", "cancel_pending"}
Terminal == {"filled", "canceled"}

Entry == [pos : Positions, side : {"buy"}, qty : EntrySizes]
Exit == [pos : Positions, side : {"sell"}, qty : 1..MaxQty]
Intent == Entry \cup Exit

NoOrder == [status |-> "absent", intent |-> None, filled |-> 0,
            known |-> FALSE, approval |-> FALSE]

\* known: broker_order_id is set; approval: approval_id is set.
OrderRow == {NoOrder} \cup
  [status : Pending \cup Terminal, intent : Intent, filled : 0..MaxQty,
   known : BOOLEAN, approval : BOOLEAN]

PendingOrders == {o \in Orders : order[o].status \in Pending}
PendingOn(p) == {o \in PendingOrders : order[o].intent.pos = p}

\* mark: an unconditional UPDATE of the status by id.
Marked(o, status) == [order EXCEPT ![o].status = status]

-----------------------------------------------------------------------------
(* The venue *)

\* What a lookup of the order's identity can return.
Visible == {"working", "filled", "canceled"}
Final == {"filled", "canceled", "declined"}

VenueRow == [state : {"none", "inflight", "approval"} \cup Visible \cup {"declined"},
             fill : 0..MaxQty]

Missing == [state |-> "missing", fill |-> 0]
Snapshot == [state : Visible \cup {"missing"}, fill : 0..MaxQty]

\* apply_snapshot's table of venue states.
LocalState(s) == IF s.state = "working" THEN "open" ELSE s.state

-----------------------------------------------------------------------------
(* A process: where it is, and what it read *)

Places == {"idle", "reconciling", "apply", "tick", "evaluate", "loop",
           "cancel", "send", "reply"}

Idle == [at |-> "idle", then |-> "idle", todo |-> {}, unsent |-> {}, on |-> None,
         snap |-> Missing, fresh |-> FALSE, seen |-> [p \in Positions |-> 0],
         intents |-> {}]

\* fresh: the evaluation saw a complete book with nothing pending, and both
\* revisions of the strategy are still the ones it expects.  Whoever advances a
\* revision clears the flag of everybody else.
ProcRow ==
  [at : Places, then : {"idle", "tick", "loop"}, todo : SUBSET Orders,
   unsent : SUBSET Orders, on : Orders \cup {None}, snap : Snapshot,
   fresh : BOOLEAN,
   seen : [Positions -> 0..(MaxQty * Cardinality(Orders))],
   intents : SUBSET Intent]

Init ==
  /\ order = [o \in Orders |-> NoOrder]
  /\ held = [p \in Positions |-> 0]
  /\ posn = [p \in Positions |-> "none"]
  /\ proc = [w \in Procs |-> Idle]
  /\ venue = [o \in Orders |-> [state |-> "none", fill |-> 0]]

Goto(w, place) == proc' = [proc EXCEPT ![w].at = place]

\* Every other process that holds an evaluation of the old revision is stale.
OthersStale(w, now) ==
  [v \in Procs |-> IF v = w THEN now ELSE [proc[v] EXCEPT !.fresh = FALSE]]

-----------------------------------------------------------------------------
(* Reconciliation: run by the job, by a person, by every tick, by cancel *)

\* store.orders(pending=True), read once for the whole pass.
Listed(me, rows) ==
  [me EXCEPT !.at = "reconciling", !.todo = rows,
             !.unsent = {o \in rows : order[o].status = "submitting"}]

\* The job and the person's request: order by order, each a pass of its own.
StartReconcile(w) ==
  /\ proc[w].at = "idle"
  /\ \E o \in PendingOrders : proc' = [proc EXCEPT ![w] = Listed(Idle, {o})]
  /\ UNCHANGED <<order, held, posn, venue>>

StartTick(w) ==
  /\ proc[w].at = "idle"
  /\ w \in Tickers
  /\ proc' = [proc EXCEPT ![w] = Listed([Idle EXCEPT !.then = "tick"], PendingOrders)]
  /\ UNCHANGED <<order, held, posn, venue>>

\* An approval that a person declined, or that expired, never becomes an order.
RecordDeclined(w, o) ==
  /\ proc[w].at = "reconciling" /\ o \in proc[w].todo
  /\ order[o].approval /\ venue[o].state = "declined"
  /\ order' = Marked(o, "canceled")
  /\ proc' = [proc EXCEPT ![w].todo = @ \ {o}]
  /\ UNCHANGED <<held, posn, venue>>

\* find_order: the history may lag, so an order that exists can be missing.
Fetch(w, o) ==
  /\ proc[w].at = "reconciling" /\ o \in proc[w].todo
  /\ \E s \in {Missing} \cup ({venue[o]} \cap Snapshot) :
       proc' = [proc EXCEPT ![w].at = "apply", ![w].on = o, ![w].snap = s]
  /\ UNCHANGED <<order, held, posn, venue>>

-----------------------------------------------------------------------------
(* apply_snapshot, one transaction *)

\* The refusals: a regressing snapshot, a terminal order that changed, an exit
\* beyond the holding, an entry into a closed position.
Accepts(o, s) ==
  LET row == order[o]
      p == row.intent.pos
      delta == s.fill - row.filled
  IN /\ s.fill >= row.filled
     /\ row.status \in Terminal => delta = 0 /\ LocalState(s) = row.status
     /\ delta > 0 /\ row.intent.side = "sell" => posn[p] = "open" /\ delta <= held[p]
     /\ delta > 0 /\ row.intent.side = "buy" => posn[p] # "closed"

\* Variant: the venue's word is stored as it came.
NextStatusRaw(o, s) == s.state

\* An open snapshot does not end an outstanding cancellation.
NextStatus(o, s) ==
  IF order[o].status = "cancel_pending" /\ LocalState(s) \in Pending
  THEN "cancel_pending" ELSE LocalState(s)

\* The quantity a snapshot adds to what is booked.
Increment(o, s) == s.fill - order[o].filled

BookedHolding(o, s) ==
  [held EXCEPT ![order[o].intent.pos] =
     IF order[o].intent.side = "buy" THEN @ + Increment(o, s) ELSE @ - Increment(o, s)]

\* Journal, trades, position, holding and book revision in one commit; `after`
\* is where the process goes on.
ApplySnapshot(w, o, s, after) ==
  /\ Accepts(o, s)
  /\ order' = [order EXCEPT ![o].status = NextStatus(o, s), ![o].filled = s.fill,
                            ![o].known = TRUE]
  /\ IF Increment(o, s) # 0
     THEN /\ held' = BookedHolding(o, s)
          /\ posn' = [posn EXCEPT ![order[o].intent.pos] =
                        IF held'[order[o].intent.pos] = 0 THEN "closed" ELSE "open"]
          /\ proc' = OthersStale(w, [after EXCEPT !.fresh = FALSE])
     ELSE /\ UNCHANGED <<held, posn>>
          /\ proc' = [proc EXCEPT ![w] = after]
  /\ UNCHANGED venue

Reconciled(w) ==
  [proc[w] EXCEPT !.at = "reconciling", !.todo = @ \ {proc[w].on}, !.on = None,
                  !.snap = Missing]

RecordFound(w) ==
  /\ proc[w].at = "apply" /\ proc[w].snap # Missing
  /\ ApplySnapshot(w, proc[w].on, proc[w].snap, Reconciled(w))

\* Variant: an order the history does not show was never placed.
AbsentStatusRejected(w, o) ==
  IF o \in proc[w].unsent THEN "canceled" ELSE order[o].status

\* Absence from history is not proof of rejection: an order that was being
\* submitted when the list was read becomes uncertain, any other is left alone.
AbsentStatus(w, o) ==
  IF o \in proc[w].unsent THEN "uncertain" ELSE order[o].status

RecordMissing(w) ==
  /\ proc[w].at = "apply" /\ proc[w].snap = Missing
  /\ order' = Marked(proc[w].on, AbsentStatus(w, proc[w].on))
  /\ proc' = [proc EXCEPT ![w] = Reconciled(w)]
  /\ UNCHANGED <<held, posn, venue>>

FinishReconcile(w) ==
  /\ proc[w].at = "reconciling" /\ proc[w].todo = {}
  /\ proc' = [proc EXCEPT ![w] =
       IF @.then = "idle" THEN Idle
       ELSE [@ EXCEPT !.at = proc[w].then, !.then = "idle", !.unsent = {}]]
  /\ UNCHANGED <<order, held, posn, venue>>

-----------------------------------------------------------------------------
(* Cancelling *)

StartCancel(w, o) ==
  /\ proc[w].at = "idle"
  /\ w \in Tickers
  /\ o \in PendingOrders /\ order[o].known
  /\ proc' = [proc EXCEPT ![w] = [Idle EXCEPT !.at = "cancel", !.on = o]]
  /\ UNCHANGED <<order, held, posn, venue>>

\* An exit of a position whose entry is still working cancels the entry first;
\* the exit itself waits for a later evaluation.
CancelForExit(w, i, o) ==
  /\ proc[w].at = "loop" /\ i \in proc[w].intents
  /\ i.side = "sell"
  /\ o \in PendingOn(i.pos)
  /\ order[o].intent.side = "buy" /\ order[o].known
  /\ order[o].status # "cancel_pending"
  /\ proc' = [proc EXCEPT ![w].at = "cancel", ![w].on = o, ![w].then = "loop",
                          ![w].intents = @ \ {i}]
  /\ UNCHANGED <<order, held, posn, venue>>

\* The mark is written without looking at the row again.  The request may or
\* may not reach the venue, which may cancel an order at any time anyway.
\* A reconciliation follows.
MarkCancel(w) ==
  /\ proc[w].at = "cancel"
  /\ order' = Marked(proc[w].on, "cancel_pending")
  /\ proc' = [proc EXCEPT ![w] = Listed([@ EXCEPT !.on = None], PendingOrders \cup {@.on})]
  /\ UNCHANGED <<held, posn, venue>>

-----------------------------------------------------------------------------
(* A tick *)

\* The pending orders, both revisions, the confirmed book and the revisions
\* again.  Whether the history is complete is a choice here.
ReadBook(w) ==
  /\ proc[w].at = "tick"
  /\ \E complete \in BOOLEAN :
       proc' = [proc EXCEPT ![w].at = "evaluate", ![w].seen = held,
                            ![w].fresh = complete /\ PendingOrders = {}]
  /\ UNCHANGED <<order, held, posn, venue>>

\* An exit is bounded by what was seen; a batch may name a position twice.
ExitBatches(w) == SUBSET {i \in Exit : i.qty <= proc[w].seen[i.pos]}

\* The evaluation answers with exits or with one entry.  Its risk state is
\* committed by save_risk, a compare-and-set on both revisions; an entry
\* survives only an accepted commit of a complete book, and carries the
\* revisions it was evaluated on.
Evaluate(w) ==
  /\ proc[w].at = "evaluate"
  /\ \E accepted \in {FALSE, proc[w].fresh},
        I \in ExitBatches(w) \cup {{i} : i \in Entry} :
       /\ (\E i \in I : i.side = "buy") => accepted
       /\ LET entry == \E i \in I : i.side = "buy"
              now == [Idle EXCEPT !.at = "loop", !.intents = I, !.fresh = entry,
                                  !.seen = IF entry THEN proc[w].seen ELSE @]
          IN proc' = IF accepted THEN OthersStale(w, now) ELSE [proc EXCEPT ![w] = now]
  /\ UNCHANGED <<order, held, posn, venue>>

\* The account, the balance, the quote, the pair and its hours, the price, the
\* size, the broker's own review, or a key used before turn an intent down; what
\* is left of a batch goes on.  Sizes are those prepare has rounded.
TurnDown(w, i) ==
  /\ proc[w].at = "loop" /\ i \in proc[w].intents
  /\ proc' = [proc EXCEPT ![w].intents = @ \ {i}]
  /\ UNCHANGED <<order, held, posn, venue>>

\* What reserve asks of the journal before it inserts an entry or an exit.
\* Checks made before the transaction on the same facts are only refusals.
MayEnter(w, i) ==
  /\ proc[w].fresh
  /\ posn[i.pos] # "closed"
  /\ PendingOrders = {}

\* Variant: pending orders of the position do not hold up an exit.
MayExitBeside(i) ==
  /\ posn[i.pos] = "open" /\ i.qty <= held[i.pos]

MayExit(i) ==
  /\ PendingOn(i.pos) = {}
  /\ posn[i.pos] = "open" /\ i.qty <= held[i.pos]

Reserve(w, i, o) ==
  /\ proc[w].at = "loop" /\ i \in proc[w].intents
  /\ order[o].status = "absent"
  /\ IF i.side = "buy" THEN MayEnter(w, i) ELSE MayExit(i)
  /\ order' = [order EXCEPT ![o] = [NoOrder EXCEPT !.status = "submitting", !.intent = i]]
  /\ proc' = [proc EXCEPT ![w] = [Idle EXCEPT !.at = "send", !.on = o,
                 !.intents = proc[w].intents \ {i}]]
  /\ UNCHANGED <<held, posn, venue>>

Send(w) ==
  /\ proc[w].at = "send"
  /\ venue' = [venue EXCEPT ![proc[w].on].state = "inflight"]
  /\ Goto(w, "reply")
  /\ UNCHANGED <<order, held, posn>>

Replied(w) == [proc[w] EXCEPT !.at = "loop", !.on = None]

\* The reply shows the order as it was accepted, or as it is by now.
ReplyOrder(w) ==
  /\ proc[w].at = "reply"
  /\ \E s \in {venue[proc[w].on], [state |-> "working", fill |-> 0]} :
       /\ venue[proc[w].on].state \in Visible
       /\ ApplySnapshot(w, proc[w].on, s, Replied(w))

ReplyApproval(w) ==
  /\ proc[w].at = "reply"
  /\ venue[proc[w].on].state = "approval"
  /\ order' = [order EXCEPT ![proc[w].on].status = "awaiting_approval",
                            ![proc[w].on].approval = TRUE]
  /\ proc' = [proc EXCEPT ![w] = Replied(w)]
  /\ UNCHANGED <<held, posn, venue>>

\* A timeout, a refused or unreadable reply, a refused snapshot: the outcome is
\* unknown.  A batch of exits goes on to the next one.
ReplyUnclear(w) ==
  /\ proc[w].at \in {"send", "reply"}
  /\ order' = Marked(proc[w].on, "uncertain")
  /\ proc' = [proc EXCEPT ![w] = IF @.intents # {} THEN Replied(w) ELSE Idle]
  /\ UNCHANGED <<held, posn, venue>>

FinishTick(w) ==
  /\ proc[w].at = "loop" /\ proc[w].intents = {}
  /\ proc' = [proc EXCEPT ![w] = Idle]
  /\ UNCHANGED <<order, held, posn, venue>>

-----------------------------------------------------------------------------
(* Failures *)

\* An exception that ends the operation, or the death of the process: nothing
\* is written.
Stop(w) ==
  /\ proc[w].at # "idle"
  /\ proc' = [proc EXCEPT ![w] = Idle]
  /\ UNCHANGED <<order, held, posn, venue>>

\* A cancellation that failed inside a batch of exits is logged and passed over.
StepOver(w) ==
  /\ proc[w].intents # {}
  /\ proc[w].at \in {"cancel", "reconciling", "apply"}
  /\ proc' = [proc EXCEPT ![w] = [@ EXCEPT !.at = "loop", !.then = "idle", !.on = None,
                !.snap = Missing, !.todo = {}, !.unsent = {}]]
  /\ UNCHANGED <<order, held, posn, venue>>

-----------------------------------------------------------------------------
(* The venue *)

VenueStep(o, from, to) ==
  /\ venue[o].state = from
  /\ venue' = [venue EXCEPT ![o].state = to]
  /\ UNCHANGED <<order, held, posn, proc>>

\* A request on the wire may be taken up at any later time, or never.
Take(o) == \E to \in {"approval", "working"} : VenueStep(o, "inflight", to)

Decide(o) == \E to \in {"working", "declined"} : VenueStep(o, "approval", to)

\* Cancelled on request, at the end of the day, or by the venue.
End(o) == VenueStep(o, "working", "canceled")

Fill(o) ==
  /\ venue[o].state = "working"
  /\ \E n \in (venue[o].fill + 1)..order[o].intent.qty :
       venue' = [venue EXCEPT ![o] =
         [state |-> IF n = order[o].intent.qty THEN "filled" ELSE "working", fill |-> n]]
  /\ UNCHANGED <<order, held, posn, proc>>

-----------------------------------------------------------------------------
Reconcile(w) ==
  \/ StartReconcile(w) \/ RecordFound(w) \/ RecordMissing(w)
  \/ FinishReconcile(w)
  \/ \E o \in Orders : RecordDeclined(w, o) \/ Fetch(w, o)

CancelOrder(w) ==
  \/ MarkCancel(w)
  \/ \E o \in Orders : StartCancel(w, o) \/ \E i \in Intent : CancelForExit(w, i, o)

Tick(w) ==
  \/ StartTick(w) \/ ReadBook(w) \/ Evaluate(w) \/ Send(w)
  \/ ReplyOrder(w) \/ ReplyApproval(w) \/ ReplyUnclear(w) \/ FinishTick(w)
  \/ \E i \in Intent : TurnDown(w, i) \/ \E o \in Orders : Reserve(w, i, o)

Venue == \E o \in Orders : Take(o) \/ Decide(o) \/ End(o) \/ Fill(o)

Next ==
  \/ \E w \in Procs : Reconcile(w) \/ CancelOrder(w) \/ Tick(w) \/ Stop(w) \/ StepOver(w)
  \/ Venue

Spec == Init /\ [][Next]_vars

-----------------------------------------------------------------------------
(* Properties *)

\* Every row, place and quantity has its type.
TypeOK ==
  /\ order \in [Orders -> OrderRow]
  /\ held \in [Positions -> 0..(MaxQty * Cardinality(Orders))]
  /\ posn \in [Positions -> {"none", "open", "closed"}]
  /\ proc \in [Procs -> ProcRow]
  /\ venue \in [Orders -> VenueRow]

Booked(p, side) ==
  MapThenSumSet(LAMBDA o : order[o].filled,
                {o \in Orders : /\ order[o].status # "absent"
                                /\ order[o].intent.pos = p /\ order[o].intent.side = side})

\* The confirmed holding is what the booked fills add up to: snapshots repeated,
\* reordered or read again after a crash are booked once (broker_store.py,
\* apply_snapshot).
FillsBookedOnce ==
  \A p \in Positions : held[p] = Booked(p, "buy") - Booked(p, "sell")

\* The journal promises what OrderJournal says: nothing is booked that the venue
\* did not fill, and a timeout, a crash, a lagging history or a requested
\* cancellation is never taken for an outcome (docs/robinhood-execution.md:191).
Journal == INSTANCE OrderJournal WITH
  state <- [o \in Orders |-> CASE order[o].status = "absent" -> "none"
                               [] order[o].status \in Pending -> "open"
                               [] OTHER -> "closed"],
  booked <- [o \in Orders |-> order[o].filled],
  executed <- [o \in Orders |-> venue[o].fill],
  over <- [o \in Orders |-> venue[o].state \in Final]

ImplementsJournal == Journal!Spec

\* What an order may still do at the venue.
AtVenue(o) == IF venue[o].state \in Final THEN venue[o].fill ELSE order[o].intent.qty

\* However requests, replies and fills fall, the sells the venue may execute
\* for a position never exceed what it bought (broker_store.py, reserve).
NeverOversold ==
  \A p \in Positions :
    MapThenSumSet(LAMBDA o : AtVenue(o),
                  {o \in Orders : /\ order[o].status # "absent"
                                  /\ order[o].intent.pos = p /\ order[o].intent.side = "sell"})
      <= MapThenSumSet(LAMBDA o : venue[o].fill,
                  {o \in Orders : /\ order[o].status # "absent"
                                  /\ order[o].intent.pos = p /\ order[o].intent.side = "buy"})

\* At most one entry of the strategy can still execute, through crashes and
\* unknown outcomes and whichever process reserved it (021_confirmed_execution.sql:12).
OneEntryAtRisk ==
  Cardinality({o \in Orders : /\ order[o].status # "absent" /\ order[o].intent.side = "buy"
                              /\ venue[o].state \notin Final}) <= 1

\* A fill once booked is never taken back: replies and history read by two
\* processes arrive in any order (broker_store.py, apply_snapshot).
BookedOnlyGrows == [][\A o \in Orders : order'[o].filled >= order[o].filled]_vars

\* An entry is reserved on the confirmed book its evaluation read, although other
\* processes book fills, evaluate and reserve in between (broker_store.py, reserve;
\* confirmed_execution.py, save_risk).
EntryOnReadBook ==
  [][\A o \in Orders :
       order[o].status = "absent" /\ order'[o].status # "absent" /\ order'[o].intent.side = "buy"
         => \E w \in Procs : proc'[w].on = o /\ proc[w].at = "loop" /\ proc[w].seen = held]_vars

=============================================================================
