------------------------- MODULE StrategyLifecycle -------------------------
(***************************************************************************)
(* The life of strategies and the portfolio kill switch                    *)
(* (server/src/services/strategy_service.py, local_deployment.py,          *)
(* allocation_service.py, portfolio_risk_service.py, scheduler_service.py).*)
(*                                                                         *)
(* A change of status takes several commits: the allocation, the server,   *)
(* the exit monitor, the job of the scheduler, the status, the high-water  *)
(* mark.  `_lock` lets one change run at a time and `tick_lock` keeps a     *)
(* tick and a change of its own strategy apart; ticks of other strategies  *)
(* go on between the commits.  Every live tick checks the drawdown of the  *)
(* whole book, and one that trips the switch pauses every live strategy.   *)
(***************************************************************************)
EXTENDS Integers, FiniteSets, FiniteSetsExt

CONSTANTS
  Dex,        \* strategies with a wallet allocation (update_status)
  Adopted,    \* adopted broker strategies (local_deployment)
  Capital,    \* what a strategy commits
  MaxLoss,    \* realized loss of a strategy
  Requests,   \* statuses a person asks for
  MaxCrashes  \* restarts of the process

Strategies == Dex \cup Adopted

ASSUME LifecycleAssumption ==
  /\ Dex \cap Adopted = {} /\ IsFiniteSet(Strategies) /\ "user" \notin Strategies
  /\ Capital \in Nat /\ MaxLoss \in 0..Capital /\ MaxCrashes \in Nat
  /\ Requests \subseteq {"inactive", "paper", "live", "archived"}

VARIABLES
  row,      \* strategies, with the local_deployments and broker_routes of each
  alloc,    \* an active allocation
  job,      \* the cron job eval-<strategy>
  book,     \* live and paper exposure, realized loss
  risk,     \* portfolio_risk: high_water_mark, tripped
  op,       \* the change of status that holds _lock
  tick,     \* what each running tick is doing
  crashes

vars == <<row, alloc, job, book, risk, op, tick, crashes>>

-----------------------------------------------------------------------------
Status == {"absent", "inactive", "paper", "live", "archived"}
Monitor == {"none", "live", "paper"}

\* Who keeps the books of a paper strategy: the server, or this agent.
Lane == {"server", "stateless"}

\* A deployment is bound to its definition, then routed to an account, and from
\* its first order on it has a history.
Binding == {"none", "bound", "routed", "traded"}

\* monitor: exit_only_mode; lane: evaluation_lane.
Row == [status : Status, monitor : Monitor, lane : Lane, bind : Binding]
Value == -(MaxLoss * Cardinality(Strategies))..(Capital * Cardinality(Strategies))

\* _TRANSITIONS; drafts are made inactive elsewhere.
Transitions == [inactive |-> {"paper", "live", "archived"},
                paper |-> {"live", "inactive", "archived"},
                live |-> {"inactive", "archived"},
                archived |-> {}]

\* The rows and exposures the book counts.
InBook(s) == row[s].status = "live" \/ row[s].monitor = "live"

\* Variant: realized losses are added.
BookValueGross ==
  MapThenSumSet(LAMBDA s : (IF s \in Adopted \/ alloc[s] THEN Capital ELSE 0) + book[s].loss,
                {s \in Strategies : InBook(s)})

\* compute_book_value: committed capital and realized profit and loss.
BookValue ==
  MapThenSumSet(LAMBDA s : (IF s \in Adopted \/ alloc[s] THEN Capital ELSE 0) - book[s].loss,
                {s \in Strategies : InBook(s)})

LiveIds == {s \in Strategies : row[s].status = "live"}

\* Variant: only a strategy that is live now gets a monitor.
MonitorModeLive(s, was) ==
  IF was.status = "live" /\ book[s].live THEN "live"
  ELSE IF was.status = "paper" /\ book[s].paper THEN "paper" ELSE "none"

\* _exit_monitor_mode
MonitorMode(s, was) ==
  LET paper == was.monitor = "paper" \/ (was.status = "paper" /\ was.lane = "stateless")
  IN IF paper THEN IF book[s].paper THEN "paper" ELSE "none"
     ELSE IF book[s].live /\ (was.status = "live" \/ was.monitor = "live") THEN "live" ELSE "none"

Idle == [at |-> "idle", entering |-> FALSE, ok |-> FALSE, hwm |-> 0, seen |-> 0,
         todo |-> {}, was |-> "none"]

\* entering: the check before an entry; ok: what the check allowed; hwm, seen:
\* the high-water mark and the book it read; was: the monitor being retired.
TickPlaces == {"idle", "check", "read", "verdict", "halt", "pause", "paper", "server", "trade",
               "enter", "finish", "release", "cancel", "rebaseline", "write"}

Tick == [at : TickPlaces,
         entering : BOOLEAN, ok : BOOLEAN, hwm : Value, seen : Value,
         todo : SUBSET Strategies, was : Monitor]

\* by: the strategy whose tick asked for it, or the operation's own; hwm: the book
\* value to be written.
Op == [at : {"none"}] \cup
  [at : {"upstream", "effects", "register", "release", "status", "rebaseline", "write"},
   s : Strategies, by : Strategies \cup {"user"}, target : Status, was : Row, prior : BOOLEAN,
   hwm : Value]

NoOp == [at |-> "none"]

Init ==
  /\ \E lane \in [Dex -> Lane] :
       row = [s \in Strategies |->
                [status |-> IF s \in Dex THEN "inactive" ELSE "absent", monitor |-> "none",
                 lane |-> IF s \in Dex THEN lane[s] ELSE "stateless", bind |-> "none"]]
  /\ alloc = [s \in Strategies |-> FALSE]
  /\ job = [s \in Strategies |-> FALSE]
  /\ book = [s \in Strategies |-> [live |-> FALSE, paper |-> FALSE, loss |-> 0]]
  /\ risk = [hwm |-> 0, tripped |-> FALSE]
  /\ op = NoOp
  /\ tick = [s \in Strategies |-> Idle]
  /\ crashes = 0

\* _lock: held by a change of status, and by the tick of a broker strategy.
LockFree(by) == op = NoOp /\ \A a \in Adopted \ {by} : tick[a].at = "idle"

\* tick_lock: refused, not waited for; a tick may change its own strategy.
TickLockFree(s, by) == s = by \/ tick[s].at = "idle"

-----------------------------------------------------------------------------
(* update_status *)

\* Variant: only the exit monitor is looked at.
MayGoLiveUnmonitored(s) == row[s].monitor # "paper"

MayGoLive(s) == row[s].monitor # "paper" /\ ~book[s].paper
MayGoPaper(s) == row[s].monitor # "live"

\* record_allocation: an allocation that is there is kept.
RecordAllocation(s) == alloc' = [alloc EXCEPT ![s] = TRUE]

\* Checks, then the allocation, before the server is told.
BeginUpdate(s, target, by) ==
  /\ s \in Dex /\ LockFree(by) /\ TickLockFree(s, by)
  /\ target \in Transitions[row[s].status]
  /\ target = "live" => MayGoLive(s)
  /\ target = "paper" => MayGoPaper(s)
  /\ IF target = "live" THEN RecordAllocation(s) ELSE UNCHANGED alloc
  /\ op' = [at |-> "upstream", s |-> s, by |-> by, target |-> target, was |-> row[s],
            prior |-> alloc[s], hwm |-> 0]
  /\ UNCHANGED <<row, job, book, risk, crashes>>

\* The server refuses or is not reached: a new allocation is given back.
UpstreamFails ==
  /\ op.at = "upstream"
  /\ alloc' = [alloc EXCEPT ![op.s] = IF op.target = "live" THEN op.prior ELSE @]
  /\ op' = NoOp
  /\ UNCHANGED <<row, job, book, risk, tick, crashes>>

UpstreamAccepts ==
  /\ op.at = "upstream"
  /\ op' = [op EXCEPT !.at = "effects"]
  /\ UNCHANGED <<row, alloc, job, book, risk, tick, crashes>>

WasLive == op.was.status = "live"

\* What follows _apply_scheduler_effects: update_status sets the status now, a
\* broker's activate and stop have set it already.
AfterEffects ==
  CASE op.s \in Dex -> [op EXCEPT !.at = "status"]
    [] op.s \in Adopted /\ (op.target = "live" \/ WasLive) -> [op EXCEPT !.at = "rebaseline"]
    [] OTHER -> NoOp

\* _apply_scheduler_effects, up to its first commit.
ApplySchedulerEffects ==
  /\ op.at = "effects"
  /\ LET mode == MonitorMode(op.s, op.was)
     IN \/ /\ op.target \in {"paper", "live"}
           /\ job' = [job EXCEPT ![op.s] = TRUE]
           /\ op' = AfterEffects
           /\ UNCHANGED row
        \/ /\ op.target \notin {"paper", "live"} /\ mode # "none"
           /\ row' = [row EXCEPT ![op.s].monitor = mode]
           /\ op' = [op EXCEPT !.at = "register"]
           /\ UNCHANGED job
        \/ /\ op.target \notin {"paper", "live"} /\ mode = "none"
           /\ job' = [job EXCEPT ![op.s] = FALSE]
           /\ op' = IF WasLive \/ op.was.monitor = "live" THEN [op EXCEPT !.at = "release"]
                    ELSE AfterEffects
           /\ UNCHANGED row
  /\ UNCHANGED <<alloc, book, risk, tick, crashes>>

RegisterMonitor ==
  /\ op.at = "register"
  /\ job' = [job EXCEPT ![op.s] = TRUE]
  /\ op' = AfterEffects
  /\ UNCHANGED <<row, alloc, book, risk, tick, crashes>>

ReleaseAllocation ==
  /\ op.at = "release"
  /\ alloc' = [alloc EXCEPT ![op.s] = FALSE]
  /\ op' = AfterEffects
  /\ UNCHANGED <<row, job, book, risk, tick, crashes>>

SetStatus ==
  /\ op.at = "status"
  /\ row' = [row EXCEPT ![op.s].status = op.target]
  /\ op' = IF op.target = "live" \/ WasLive THEN [op EXCEPT !.at = "rebaseline"] ELSE NoOp
  /\ UNCHANGED <<alloc, job, book, risk, tick, crashes>>

\* rebaseline reads the latch and the book, and writes the mark after that:
\* nothing while the switch is latched.
ReadBaseline ==
  /\ op.at = "rebaseline"
  /\ op' = IF risk.tripped THEN NoOp ELSE [op EXCEPT !.at = "write", !.hwm = BookValue]
  /\ UNCHANGED <<row, alloc, job, book, risk, tick, crashes>>

WriteBaseline ==
  /\ op.at = "write"
  /\ risk' = [risk EXCEPT !.hwm = op.hwm] /\ op' = NoOp
  /\ UNCHANGED <<row, alloc, job, book, tick, crashes>>

\* Any of these commits fails: what is done stays done, but for a broker's
\* activation whose job cannot be registered.
ChangeFails ==
  /\ op.at \notin {"none", "upstream"} /\ op' = NoOp
  /\ row' = IF op.at = "effects" /\ op.s \in Adopted /\ op.target = "live"
            THEN [row EXCEPT ![op.s].status = "inactive"] ELSE row
  /\ UNCHANGED <<alloc, job, book, risk, tick, crashes>>

-----------------------------------------------------------------------------
(* local_deployment: adopted strategies of the server, executed by the broker *)

\* adopt: a saved definition becomes a deployment; once more to rebind a changed
\* definition, which also takes the route away.
Adopt(s) ==
  /\ s \in Adopted /\ LockFree("user")
  /\ row[s].status \in {"absent", "inactive"} /\ row[s].bind # "traded"
  /\ row' = [row EXCEPT ![s].status = "inactive", ![s].bind = "bound"]
  /\ UNCHANGED <<alloc, job, book, risk, op, tick, crashes>>

\* configure: the account and the capital.
Configure(s) ==
  /\ s \in Adopted /\ LockFree("user")
  /\ row[s].status = "inactive" /\ row[s].bind \in {"bound", "routed"}
  /\ row' = [row EXCEPT ![s].bind = "routed"]
  /\ UNCHANGED <<alloc, job, book, risk, op, tick, crashes>>

\* The status is committed first.
Activate(s) ==
  /\ s \in Adopted /\ LockFree("user") /\ TickLockFree(s, "user")
  /\ row[s].status = "inactive" /\ row[s].bind \in {"routed", "traded"}
  /\ row' = [row EXCEPT ![s].status = "live"]
  /\ op' = [at |-> "effects", s |-> s, by |-> "user", target |-> "live", was |-> row[s],
            prior |-> FALSE, hwm |-> 0]
  /\ UNCHANGED <<alloc, job, book, risk, tick, crashes>>

\* Status and exit monitor in one commit.
BeginStop(s, by) ==
  /\ s \in Adopted /\ LockFree(by) /\ TickLockFree(s, by)
  /\ row[s].status # "absent"
  /\ row' = [row EXCEPT ![s].status = "inactive", ![s].monitor = MonitorMode(s, row[s])]
  /\ op' = [at |-> "effects", s |-> s, by |-> by, target |-> "inactive", was |-> row[s],
            prior |-> FALSE, hwm |-> 0]
  /\ UNCHANGED <<alloc, job, book, risk, crashes>>

UserStop(s) == "inactive" \in Requests /\ BeginStop(s, "user") /\ UNCHANGED tick
UserUpdate(s, target) == BeginUpdate(s, target, "user") /\ UNCHANGED tick

-----------------------------------------------------------------------------
(* A tick: the portfolio check *)

Goes(s, t) == tick' = [tick EXCEPT ![s] = t]

\* reconcile: an order is settled, a position closed, perhaps at a loss.
Settled(s) ==
  \/ UNCHANGED book
  \/ /\ book[s].live
     /\ \E l \in book[s].loss..MaxLoss :
          book' = [book EXCEPT ![s].live = FALSE, ![s].loss = l]

StartLiveTick(s) ==
  /\ job[s] /\ tick[s].at = "idle" /\ InBook(s)
  /\ op # NoOp => op.s # s
  /\ s \in Adopted => LockFree(s)
  /\ Settled(s)
  /\ Goes(s, [Idle EXCEPT !.at = "check"])
  /\ UNCHANGED <<row, alloc, job, risk, op, crashes>>

\* validate: the definition, its owner or its readiness changed on the server, or
\* it cannot be read.  The tick stops its own strategy and ends.
ValidateFails(s) ==
  /\ tick[s].at = "check" /\ ~tick[s].entering
  /\ BeginStop(s, s)
  /\ Goes(s, Idle)

Halting(s) == [Idle EXCEPT !.at = "halt", !.entering = tick[s].entering]

\* A latched switch pauses what is still live, at every tick.
CheckLatch(s) ==
  /\ tick[s].at = "check"
  /\ Goes(s, IF risk.tripped
             THEN Halting(s)
             ELSE [tick[s] EXCEPT !.at = "read", !.hwm = risk.hwm])
  /\ UNCHANGED <<row, alloc, job, book, risk, op, crashes>>

ReadBook(s) ==
  /\ tick[s].at = "read"
  /\ Goes(s, [tick[s] EXCEPT !.at = "verdict", !.seen = BookValue])
  /\ UNCHANGED <<row, alloc, job, book, risk, op, crashes>>

Peak(s) == IF tick[s].hwm > tick[s].seen THEN tick[s].hwm ELSE tick[s].seen

\* The default limit, 30 percent.
DrawnDown(s) == Peak(s) > 0 /\ 10 * (Peak(s) - tick[s].seen) >= 3 * Peak(s)

\* Where a tick goes after a check.
Checked(s, ok) ==
  [Idle EXCEPT !.at = IF tick[s].entering THEN "enter" ELSE "trade", !.ok = ok]

Trip(s) ==
  /\ tick[s].at = "verdict" /\ DrawnDown(s)
  /\ risk' = [hwm |-> Peak(s), tripped |-> TRUE]
  /\ Goes(s, Halting(s))
  /\ UNCHANGED <<row, alloc, job, book, op, crashes>>

Allow(s) ==
  /\ tick[s].at = "verdict" /\ ~DrawnDown(s)
  /\ risk' = IF Peak(s) > tick[s].hwm THEN [risk EXCEPT !.hwm = Peak(s)] ELSE risk
  /\ Goes(s, Checked(s, TRUE))
  /\ UNCHANGED <<row, alloc, job, book, op, crashes>>

-----------------------------------------------------------------------------
(* _pause_all_live: one strategy after another, failures passed over *)

ListLive(s) ==
  /\ tick[s].at = "halt"
  /\ Goes(s, [tick[s] EXCEPT !.at = "pause", !.todo = LiveIds])
  /\ UNCHANGED <<row, alloc, job, book, risk, op, crashes>>

Paused(s, v) == Goes(s, [tick[s] EXCEPT !.todo = @ \ {v}])

PauseOne(s, v) ==
  /\ tick[s].at = "pause" /\ v \in tick[s].todo
  /\ BeginUpdate(v, "inactive", s) \/ BeginStop(v, s)
  /\ Paused(s, v)

\* Ticking, changed meanwhile, or a failure.
PauseFails(s, v) ==
  /\ tick[s].at = "pause" /\ v \in tick[s].todo /\ LockFree(s)
  /\ ~TickLockFree(v, s) \/ row[v].status # "live"
  /\ Paused(s, v)
  /\ UNCHANGED <<row, alloc, job, book, risk, op, crashes>>

PauseDone(s) ==
  /\ tick[s].at = "pause" /\ tick[s].todo = {}
  /\ op # NoOp => op.by # s
  /\ Goes(s, Checked(s, FALSE))
  /\ UNCHANGED <<row, alloc, job, book, risk, op, crashes>>

-----------------------------------------------------------------------------
(* A tick: orders, and the end of an exit monitor *)

\* An evaluation that asks for an entry has the portfolio checked once more.
AskEntry(s) ==
  /\ tick[s].at = "trade" /\ tick[s].ok /\ row[s].status = "live" /\ ~book[s].live
  /\ Goes(s, [Idle EXCEPT !.at = "check", !.entering = TRUE])
  /\ UNCHANGED <<row, alloc, job, book, risk, op, crashes>>

\* Exits, or nothing.
Exit(s) ==
  /\ tick[s].at = "trade"
  /\ Settled(s)
  /\ Goes(s, [Idle EXCEPT !.at = "finish"])
  /\ UNCHANGED <<row, alloc, job, risk, op, crashes>>

Enter(s) ==
  /\ tick[s].at = "enter"
  /\ book' = [book EXCEPT ![s].live = tick[s].ok /\ row[s].status = "live"]
  /\ row' = [row EXCEPT ![s].bind = IF s \in Adopted /\ book'[s].live THEN "traded" ELSE @]
  /\ Goes(s, [Idle EXCEPT !.at = "finish"])
  /\ UNCHANGED <<alloc, job, risk, op, crashes>>

\* The evaluation or an order fails: the tick ends.
TickFails(s) ==
  /\ tick[s].at \in {"trade", "finish"}
  /\ Goes(s, Idle)
  /\ UNCHANGED <<row, alloc, job, book, risk, op, crashes>>

StartPaperTick(s) ==
  /\ job[s] /\ tick[s].at = "idle"
  /\ row[s].monitor = "paper" \/ (row[s].status = "paper" /\ row[s].lane = "stateless")
  /\ op # NoOp => op.s # s
  /\ Goes(s, [Idle EXCEPT !.at = "paper"])
  /\ UNCHANGED <<row, alloc, job, book, risk, op, crashes>>

\* paper_confirmed.fill: entries of a paper strategy, exits of a monitor too.
PaperTrade(s) ==
  /\ tick[s].at = "paper"
  /\ \/ row[s].status = "paper" /\ book' = [book EXCEPT ![s].paper = TRUE]
     \/ book' = [book EXCEPT ![s].paper = FALSE]
     \/ UNCHANGED book
  /\ Goes(s, [Idle EXCEPT !.at = "finish"])
  /\ UNCHANGED <<row, alloc, job, risk, op, crashes>>

\* The default lane: the server evaluates from its own books.
StartServerTick(s) ==
  /\ job[s] /\ tick[s].at = "idle" /\ row[s].status = "paper"
  /\ row[s].monitor = "none" /\ row[s].lane = "server"
  /\ op # NoOp => op.s # s
  /\ Goes(s, [Idle EXCEPT !.at = "server"])
  /\ UNCHANGED <<row, alloc, job, book, risk, op, crashes>>

\* One intent after another is filled at the mark price and booked here, too.
ServerFill(s) ==
  /\ tick[s].at = "server"
  /\ \E open \in BOOLEAN : book' = [book EXCEPT ![s].paper = open]
  /\ UNCHANGED <<row, alloc, job, risk, op, tick, crashes>>

\* The intents are through; one that failed was passed over.
ServerDone(s) ==
  /\ tick[s].at = "server"
  /\ Goes(s, Idle)
  /\ UNCHANGED <<row, alloc, job, book, risk, op, crashes>>

\* _finish_exit_monitor_if_flat: four commits.
Exposed(s) == IF row[s].monitor = "paper" THEN book[s].paper ELSE book[s].live

FinishTick(s) ==
  /\ tick[s].at = "finish"
  /\ IF row[s].monitor = "none" \/ Exposed(s)
     THEN Goes(s, Idle) /\ UNCHANGED row
     ELSE /\ row' = [row EXCEPT ![s].monitor = "none"]
          /\ Goes(s, [Idle EXCEPT !.at = "release", !.was = row[s].monitor])
  /\ UNCHANGED <<alloc, job, book, risk, op, crashes>>

FinishRelease(s) ==
  /\ tick[s].at = "release"
  /\ alloc' = [alloc EXCEPT ![s] = @ /\ (tick[s].was # "live" \/ row[s].status = "live")]
  /\ Goes(s, [tick[s] EXCEPT !.at = "cancel"])
  /\ UNCHANGED <<row, job, book, risk, op, crashes>>

FinishCancel(s) ==
  /\ tick[s].at = "cancel"
  /\ job' = [job EXCEPT ![s] = @ /\ row[s].status \in {"live", "paper"}]
  /\ Goes(s, IF tick[s].was = "live" THEN [tick[s] EXCEPT !.at = "rebaseline"] ELSE Idle)
  /\ UNCHANGED <<row, alloc, book, risk, op, crashes>>

FinishRebaseline(s) ==
  /\ tick[s].at = "rebaseline"
  /\ Goes(s, IF risk.tripped THEN Idle ELSE [tick[s] EXCEPT !.at = "write", !.hwm = BookValue])
  /\ UNCHANGED <<row, alloc, job, book, risk, op, crashes>>

FinishWrite(s) ==
  /\ tick[s].at = "write"
  /\ risk' = [risk EXCEPT !.hwm = tick[s].hwm] /\ Goes(s, Idle)
  /\ UNCHANGED <<row, alloc, job, book, op, crashes>>

-----------------------------------------------------------------------------
(* Everything else *)

\* The reconciliation job of the broker, under _lock alone.
ReconcilePending(s) ==
  /\ s \in Adopted /\ LockFree("user")
  /\ Settled(s)
  /\ UNCHANGED <<row, alloc, job, risk, op, tick, crashes>>

\* A person clears the latch.
Reset ==
  /\ risk' = [hwm |-> BookValue, tripped |-> FALSE]
  /\ UNCHANGED <<row, alloc, job, book, op, tick, crashes>>

\* Rows and jobs are on disk; restore_jobs mends those of adopted strategies.
Crash ==
  /\ crashes < MaxCrashes /\ crashes' = crashes + 1
  /\ op' = NoOp /\ tick' = [s \in Strategies |-> Idle]
  /\ job' = [s \in Strategies |-> IF s \in Adopted THEN InBook(s) ELSE job[s]]
  /\ UNCHANGED <<row, alloc, book, risk>>

-----------------------------------------------------------------------------
StatusStep ==
  \/ UpstreamAccepts \/ ApplySchedulerEffects \/ RegisterMonitor
  \/ ReleaseAllocation \/ SetStatus \/ ReadBaseline \/ WriteBaseline

TickStep(s) ==
  \/ CheckLatch(s) \/ ReadBook(s) \/ Trip(s) \/ Allow(s) \/ ListLive(s) \/ PauseDone(s)
  \/ ValidateFails(s) \/ AskEntry(s) \/ Exit(s) \/ Enter(s) \/ TickFails(s)
  \/ PaperTrade(s) \/ ServerFill(s) \/ ServerDone(s)
  \/ FinishTick(s) \/ FinishRelease(s) \/ FinishCancel(s) \/ FinishRebaseline(s)
  \/ FinishWrite(s)
  \/ \E v \in Strategies : PauseFails(s, v)

PauseNext(s) == \E v \in Strategies : PauseOne(s, v)

Next ==
  \/ StatusStep \/ UpstreamFails \/ ChangeFails \/ Reset \/ Crash
  \/ \E s \in Strategies :
       \/ StartLiveTick(s) \/ StartPaperTick(s) \/ StartServerTick(s) \/ TickStep(s)
       \/ PauseNext(s) \/ Adopt(s) \/ Configure(s) \/ Activate(s) \/ UserStop(s) \/ ReconcilePending(s)
       \/ \E target \in Requests : UserUpdate(s, target)

Spec == Init /\ [][Next]_vars

-----------------------------------------------------------------------------
(* Properties *)

\* Every column, operation and tick has its type.
TypeOK ==
  /\ row \in [Strategies -> Row]
  /\ alloc \in [Strategies -> BOOLEAN] /\ job \in [Strategies -> BOOLEAN]
  /\ book \in [Strategies -> [live : BOOLEAN, paper : BOOLEAN, loss : 0..MaxLoss]]
  /\ risk \in [hwm : Value, tripped : BOOLEAN]
  /\ op \in Op /\ tick \in [Strategies -> Tick] /\ crashes \in 0..MaxCrashes

\* Confirmed exposure keeps its job, its mode and its allocation, through pauses,
\* archiving, failed changes and crashes (docs/confirmed-execution.md:71).
MonitoredUntilFlat ==
  \A s \in Strategies : book[s].live => InBook(s) /\ job[s] /\ (s \in Dex => alloc[s])

\* A strategy never has paper and live exposure at once: each mode waits until
\* the other has settled flat (docs/confirmed-execution.md:23).
PaperAndLiveApart == \A s \in Strategies : ~(book[s].live /\ book[s].paper)

\* What docs/architecture.md:182 says: the switch trips on losses, not on a
\* deliberate change of the live set.
TripMeansLoss == risk.tripped => \E s \in Strategies : book[s].loss > 0

=============================================================================
