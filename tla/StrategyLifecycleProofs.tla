----------------------- MODULE StrategyLifecycleProofs -----------------------
(***************************************************************************)
(* Proofs about StrategyLifecycle, for any strategies and any bounds: the  *)
(* types, the monitoring of confirmed exposure and the separation of paper *)
(* and live exposure.                                                      *)
(*                                                                         *)
(* The inductive invariant speaks of one strategy at a time: its columns   *)
(* fit together, its running tick still finds what it started from, and    *)
(* the change under way, if it is of this strategy, what it has looked up  *)
(* before its commits.  The last part is stable because tick_lock and      *)
(* _lock keep the ticks of that strategy out until the change has ended.   *)
(***************************************************************************)
EXTENDS StrategyLifecycle, SumTheorems, TLAPS

-----------------------------------------------------------------------------
(* The inductive invariant *)

Exposure == [live : BOOLEAN, paper : BOOLEAN, loss : 0..MaxLoss]

Changes ==
  [at : {"upstream", "effects", "register", "release", "status", "rebaseline", "write"},
   s : Strategies, by : Strategies \cup {"user"}, target : Status, was : Row, prior : BOOLEAN,
   hwm : Value]

\* What fits together in a strategy: row r, allocation a, job j, exposure b.  No
\* mode runs beside another's exposure; live exposure has its job and a wallet
\* strategy its allocation; an adopted strategy knows no paper mode.
Fit(s, r, a, j, b) ==
  /\ r.status = "live" => r.monitor # "paper" /\ ~b.paper
  /\ r.monitor = "live" => r.status # "paper" /\ ~b.paper
  /\ b.live => /\ r.status = "live" \/ r.monitor = "live"
               /\ ~b.paper /\ j
  /\ s \in Dex /\ (b.live \/ (r.status = "live" /\ j)) => a
  /\ s \in Dex => r.status # "absent"
  /\ s \in Adopted => /\ r.status \in {"absent", "inactive", "live"}
                      /\ r.monitor # "paper" /\ ~b.paper

\* Where a tick may still enter, the job it started from is there; a paper tick
\* still finds its mode, and a retired monitor is gone.
MayEnter(t) == t.at \in {"check", "read", "verdict"} \/ (t.at \in {"trade", "enter"} /\ t.ok)

InTick(t, r, j) ==
  /\ MayEnter(t) => j
  /\ t.at = "paper" => r.monitor = "paper" \/ r.status = "paper"
  /\ t.at = "server" => r.status = "paper" /\ r.monitor = "none"
  /\ t.at \in {"release", "cancel"} => r.monitor = "none"

\* A change of a wallet strategy still finds the row it read and what it checked.
DexChange(o, r, a, j, b) ==
  /\ o.was.status # "absent" /\ o.target \in Transitions[o.was.status]
  /\ o.at \in {"upstream", "effects"} => r = o.was
  /\ o.at = "upstream" /\ b.live => o.prior
  /\ o.at \in {"upstream", "effects", "status"} =>
       /\ o.target = "live" => a /\ ~b.paper /\ r.monitor # "paper"
       /\ o.target = "paper" => r.monitor # "live" /\ ~b.live
  /\ o.at = "status" /\ o.target = "live" => j

\* A change of an adopted strategy has set its status before anything else.
AdoptedChange(o, r, b) ==
  /\ o.at \notin {"upstream", "status"}
  /\ o.was.monitor # "paper" /\ o.was.status # "paper"
  /\ o.at = "effects" /\ o.target = "live" /\ b.live => r.monitor = "live"
  /\ o.target \notin {"paper", "live"} =>
       /\ r.status = "inactive"
       /\ b.live => r.monitor = "live" /\ (o.was.status = "live" \/ o.was.monitor = "live")

\* The change o of the strategy with these columns.  Its tick is not running, or
\* it is the one that asked.
Under(o, t, r, a, j, b) ==
  /\ t.at = "idle" \/ (o.by = o.s /\ t.at = "pause")
  /\ o.s \in Dex => DexChange(o, r, a, j, b)
  /\ o.s \in Adopted => AdoptedChange(o, r, b)
  /\ o.at = "register" => (r.monitor = "live" /\ b.live) \/ r.monitor = "paper"
  /\ o.at = "release" => ~j /\ ~b.live
  /\ o.at \in {"register", "release"} => o.target \notin {"paper", "live"}
  /\ o.at = "status" /\ o.target \notin {"paper", "live"} /\ b.live => r.monitor = "live"

FitNow(s) == Fit(s, row[s], alloc[s], job[s], book[s])
InTickNow(s) == InTick(tick[s], row[s], job[s])
UnderNow == Under(op, tick[op.s], row[op.s], alloc[op.s], job[op.s], book[op.s])

IInv ==
  /\ TypeOK
  /\ \A s \in Strategies : FitNow(s) /\ InTickNow(s)
  /\ op # NoOp => UnderNow

-----------------------------------------------------------------------------
(* Types *)

LEMMA StrategiesFinite ==
  /\ IsFiniteSet(Strategies) /\ Cardinality(Strategies) \in Nat
  /\ Dex \subseteq Strategies /\ Adopted \subseteq Strategies /\ "user" \notin Strategies
  /\ \A s \in Strategies : ~(s \in Dex /\ s \in Adopted)
  BY LifecycleAssumption, FS_CardinalityType DEF LifecycleAssumption, Strategies

\* The value of the book, a sum over the strategies in it.
LEMMA BookValueIsValue ==
  ASSUME book \in [Strategies -> Exposure]
  PROVE  BookValue \in Value
<1> DEFINE U == {s \in Strategies : InBook(s)}
           Worth(s) == (IF s \in Adopted \/ alloc[s] THEN Capital ELSE 0) - book[s].loss
           f == [s \in Strategies |-> Worth(s)]
           Sums(g) == g = [T \in SUBSET U |->
                             IF T = {} THEN 0 ELSE Worth(Pick(T)) + g[T \ {Pick(T)}]]
           h == CHOOSE g : Sums(g)
<1>1. IsFiniteSet(Strategies) /\ IsFiniteSet(U)
  BY StrategiesFinite, FS_Subset
<1>2. BookValue = h[U]
  BY DEF BookValue, MapThenSumSet, MapThenFoldSet, Pick
<1>3. \A T \in SUBSET U : T # {} => f[Pick(T)] = Worth(Pick(T))
  BY DEF Pick
<1>4. \A g : Computes(g, f, U) <=> Sums(g)
  BY <1>3 DEF Computes
<1>5. Computes(h, f, U)
  BY <1>1, <1>4, SumsExist
<1>6. BookValue = SumFunctionOnSet(f, U)
  <2> HIDE DEF h, f, U
  <2>1. U \in SUBSET U
    OBVIOUS
  <2>2. SumFunctionOnSet(f, U) = h[U]
    BY <1>1, <1>5, <2>1, SumComputed
  <2>3. QED
    BY <1>2, <2>2
<1>7. MaxLoss \in Nat /\ Capital \in Nat /\ MaxLoss <= Capital
  BY LifecycleAssumption DEF LifecycleAssumption
<1>8. \A s \in Strategies : f[s] \in Int /\ -MaxLoss <= f[s] /\ f[s] <= Capital
  <2> TAKE s \in Strategies
  <2>1. book[s].loss \in 0..MaxLoss
    BY DEF Exposure
  <2>2. Worth(s) \in Int /\ -MaxLoss <= Worth(s) /\ Worth(s) <= Capital
    BY <1>7, <2>1
  <2>3. QED
    BY <2>2
<1>9. U \in SUBSET Strategies
  OBVIOUS
<1>10. QED
  <2> HIDE DEF f, U
  <2> QED BY <1>1, <1>6, <1>7, <1>8, <1>9, SumBounds DEF Value

LEMMA Types ==
  ASSUME TypeOK
  PROVE  /\ row \in [Strategies -> Row] /\ alloc \in [Strategies -> BOOLEAN]
         /\ job \in [Strategies -> BOOLEAN] /\ book \in [Strategies -> Exposure]
         /\ risk \in [hwm : Value, tripped : BOOLEAN] /\ op \in Op
         /\ tick \in [Strategies -> Tick] /\ crashes \in 0..MaxCrashes
  BY DEF TypeOK, Exposure

\* A change under way is a record of a change.
LEMMA ChangeShape ==
  ASSUME TypeOK
  PROVE  /\ op # NoOp <=> op \in Changes
         /\ op.at # "none" => op # NoOp
         /\ op # NoOp => op.at # "none"
  BY DEF TypeOK, Op, Changes, NoOp

LEMMA Numbers ==
  /\ Value \subseteq Int /\ 0 \in Value
  /\ MaxLoss \in Nat /\ MaxCrashes \in Nat /\ 0 \in 0..MaxLoss
<1>1. Capital \in Nat /\ MaxLoss \in Nat /\ MaxCrashes \in Nat
  BY LifecycleAssumption DEF LifecycleAssumption
<1>2. \A k \in Nat, n \in Nat : k * n \in Nat
  OBVIOUS
<1>3. QED
  BY <1>1, <1>2, StrategiesFinite DEF Value

LEMMA Ticks ==
  /\ Idle \in Tick
  /\ \A t \in Tick, at \in TickPlaces :
       [t EXCEPT !.at = at] \in Tick /\ [t EXCEPT !.at = at].at = at
  BY Numbers DEF Idle, Tick, TickPlaces, Monitor

-----------------------------------------------------------------------------
(* Steps: what they leave alone, and what is left to show *)

Same(v) ==
  /\ row'[v] = row[v] /\ alloc'[v] = alloc[v] /\ job'[v] = job[v]
  /\ book'[v] = book[v] /\ tick'[v] = tick[v]

\* A step keeps the invariant if the strategies it changes still fit, and the
\* change under way is over, or of a strategy the step leaves alone, or still finds
\* what it should.
LEMMA Step ==
  ASSUME IInv, TypeOK',
         \A v \in Strategies : Same(v) \/ (FitNow(v)' /\ InTickNow(v)'),
         \/ op' = NoOp
         \/ op' = op /\ (op # NoOp => Same(op.s))
         \/ UnderNow'
  PROVE  IInv'
<1>1. ASSUME NEW v \in Strategies, Same(v) PROVE FitNow(v)' /\ InTickNow(v)'
  BY <1>1 DEF IInv, FitNow, InTickNow, Same
<1>2. ASSUME op' = op, op # NoOp, Same(op.s) PROVE UnderNow'
  BY <1>2 DEF IInv, UnderNow, Same
<1>3. QED
  BY <1>1, <1>2 DEF IInv

\* A strategy whose tick is at work is not the one being changed.
LEMMA NotUnder ==
  ASSUME IInv, op # NoOp, NEW s \in Strategies, tick[s].at # "idle",
         tick[s].at # "pause" \/ op.by # s
  PROVE  op.s # s
  BY DEF IInv, UnderNow, Under

\* A tick that moves on and may change the risk row, and nothing else.
LEMMA TickMoves ==
  ASSUME IInv, NEW s \in Strategies, NEW t \in Tick, Goes(s, t),
         InTick(t, row[s], job[s]),
         op # NoOp => op.s # s,
         UNCHANGED <<row, alloc, job, book, op, crashes>>,
         risk' \in [hwm : Value, tripped : BOOLEAN]
  PROVE  IInv'
<1>1. TypeOK
  BY DEF IInv
<1>2. tick' \in [Strategies -> Tick] /\ tick'[s] = t
      /\ \A v \in Strategies \ {s} : tick'[v] = tick[v]
  BY <1>1, Types DEF Goes
<1>3. TypeOK'
  BY <1>1, <1>2 DEF TypeOK
<1>4. \A v \in Strategies \ {s} : Same(v)
  BY <1>2 DEF Same
<1>5. FitNow(s)' /\ InTickNow(s)'
  BY <1>2 DEF IInv, FitNow, InTickNow
<1>6. op # NoOp => op.s \in Strategies
  BY <1>1, ChangeShape DEF Changes
<1>7. QED
  BY <1>3, <1>4, <1>5, <1>6, Step

-----------------------------------------------------------------------------
(* A tick: the portfolio check *)

\* A tick that found the switch latched, or has latched it.
LEMMA HaltingTick ==
  ASSUME NEW s \in Strategies, tick[s] \in Tick
  PROVE  Halting(s) \in Tick /\ Halting(s).at = "halt"
<1>1. tick[s].entering \in BOOLEAN
  BY DEF Tick
<1>2. Idle \in Tick
  BY Ticks
<1>3. QED
  BY <1>1, <1>2 DEF Halting, Idle, Tick, TickPlaces

LEMMA CheckLatchKeeps ==
  ASSUME IInv, NEW s \in Strategies, CheckLatch(s)
  PROVE  IInv'
<1>1. TypeOK /\ tick[s] \in Tick
  BY Types DEF IInv
<1>2. op # NoOp => op.s # s
  BY NotUnder DEF CheckLatch
<1>3. risk.hwm \in Value
  BY <1>1, Types
<1>4. job[s]
  BY DEF IInv, InTickNow, InTick, MayEnter, CheckLatch
<1>5. ASSUME NEW t, t = Halting(s) \/ t = [tick[s] EXCEPT !.at = "read", !.hwm = risk.hwm]
      PROVE  t \in Tick /\ InTick(t, row[s], job[s])
  <2>1. CASE t = Halting(s)
    BY <1>1, <2>1, HaltingTick DEF InTick, MayEnter
  <2>2. CASE t = [tick[s] EXCEPT !.at = "read", !.hwm = risk.hwm]
    BY <1>1, <1>3, <1>4, <2>2 DEF Tick, TickPlaces, InTick, MayEnter
  <2>3. QED
    BY <1>5, <2>1, <2>2
<1>6. UNCHANGED <<row, alloc, job, book, op, crashes>>
      /\ risk' \in [hwm : Value, tripped : BOOLEAN]
  BY <1>1, Types DEF CheckLatch
<1>7. PICK t : /\ Goes(s, t)
               /\ t = Halting(s) \/ t = [tick[s] EXCEPT !.at = "read", !.hwm = risk.hwm]
  BY DEF CheckLatch
<1>8. t \in Tick /\ InTick(t, row[s], job[s])
  BY <1>5, <1>7
<1>9. QED
  BY <1>2, <1>6, <1>7, <1>8, TickMoves

LEMMA ReadBookKeeps ==
  ASSUME IInv, NEW s \in Strategies, ReadBook(s)
  PROVE  IInv'
<1>1. TypeOK /\ tick[s] \in Tick /\ tick[s].at = "read"
  BY Types DEF IInv, ReadBook
<1>2. op # NoOp => op.s # s
  BY <1>1, NotUnder
<1>3. BookValue \in Value
  BY <1>1, Types, BookValueIsValue
<1> DEFINE t == [tick[s] EXCEPT !.at = "verdict", !.seen = BookValue]
<1>4. job[s]
  BY <1>1 DEF IInv, InTickNow, InTick, MayEnter
<1>5. t \in Tick /\ t.at = "verdict"
  BY <1>1, <1>3 DEF Tick, TickPlaces
<1>6. InTick(t, row[s], job[s])
  BY <1>4, <1>5 DEF InTick
<1>7. UNCHANGED <<row, alloc, job, book, op, crashes>> /\ Goes(s, t)
      /\ risk' \in [hwm : Value, tripped : BOOLEAN]
  BY <1>1, Types DEF ReadBook
<1> HIDE DEF t
<1>8. QED
  BY <1>2, <1>5, <1>6, <1>7, TickMoves

LEMMA TripKeeps ==
  ASSUME IInv, NEW s \in Strategies, Trip(s)
  PROVE  IInv'
<1>1. TypeOK /\ tick[s] \in Tick /\ tick[s].at = "verdict"
  BY Types DEF IInv, Trip
<1>2. op # NoOp => op.s # s
  BY <1>1, NotUnder
<1>3. Peak(s) \in Value
  BY <1>1 DEF Peak, Tick, TickPlaces
<1>5. Halting(s) \in Tick /\ Halting(s).at = "halt"
  BY <1>1, HaltingTick
<1>6. InTick(Halting(s), row[s], job[s])
  BY <1>5 DEF InTick, MayEnter
<1>7. UNCHANGED <<row, alloc, job, book, op, crashes>> /\ Goes(s, Halting(s))
      /\ risk' \in [hwm : Value, tripped : BOOLEAN]
  BY <1>3 DEF Trip
<1>8. QED
  BY <1>2, <1>5, <1>6, <1>7, TickMoves

LEMMA ListLiveKeeps ==
  ASSUME IInv, NEW s \in Strategies, ListLive(s)
  PROVE  IInv'
<1>1. TypeOK /\ tick[s] \in Tick /\ tick[s].at = "halt"
  BY Types DEF IInv, ListLive
<1>2. op # NoOp => op.s # s
  BY <1>1, NotUnder
<1>3. LiveIds \subseteq Strategies
  BY DEF LiveIds
<1> DEFINE t == [tick[s] EXCEPT !.at = "pause", !.todo = LiveIds]
<1>4. t \in Tick /\ t.at = "pause"
  BY <1>1, <1>3 DEF Tick, TickPlaces
<1>5. InTick(t, row[s], job[s])
  BY <1>4 DEF InTick, MayEnter
<1>6. UNCHANGED <<row, alloc, job, book, op, crashes>> /\ Goes(s, t)
      /\ risk' \in [hwm : Value, tripped : BOOLEAN]
  BY <1>1, Types DEF ListLive
<1> HIDE DEF t
<1>7. QED
  BY <1>2, <1>4, <1>5, <1>6, TickMoves

LEMMA CheckedTick ==
  ASSUME NEW s, NEW ok \in BOOLEAN
  PROVE  /\ Checked(s, ok) \in Tick
         /\ Checked(s, ok).at \in {"enter", "trade"} /\ Checked(s, ok).ok = ok
<1>1. Idle \in Tick /\ Idle = [at |-> "idle", entering |-> FALSE, ok |-> FALSE, hwm |-> 0,
                              seen |-> 0, todo |-> {}, was |-> "none"]
  BY Ticks DEF Idle
<1> HIDE DEF Idle
<1>2. QED
  BY <1>1 DEF Checked, Tick, TickPlaces

LEMMA AllowKeeps ==
  ASSUME IInv, NEW s \in Strategies, Allow(s)
  PROVE  IInv'
<1>1. TypeOK /\ tick[s] \in Tick /\ tick[s].at = "verdict"
  BY Types DEF IInv, Allow
<1>2. op # NoOp => op.s # s
  BY <1>1, NotUnder
<1>3. Peak(s) \in Value /\ risk \in [hwm : Value, tripped : BOOLEAN]
  BY <1>1, Types DEF Peak, Tick, TickPlaces
<1>4. job[s]
  BY <1>1 DEF IInv, InTickNow, InTick, MayEnter
<1>5. Checked(s, TRUE) \in Tick /\ Checked(s, TRUE).at \in {"enter", "trade"}
  BY CheckedTick
<1>6. InTick(Checked(s, TRUE), row[s], job[s])
  BY <1>4, <1>5 DEF InTick
<1>7. UNCHANGED <<row, alloc, job, book, op, crashes>> /\ Goes(s, Checked(s, TRUE))
      /\ risk' \in [hwm : Value, tripped : BOOLEAN]
  BY <1>3 DEF Allow
<1>8. QED
  BY <1>2, <1>5, <1>6, <1>7, TickMoves

LEMMA PauseDoneKeeps ==
  ASSUME IInv, NEW s \in Strategies, PauseDone(s)
  PROVE  IInv'
<1>1. TypeOK /\ tick[s].at = "pause" /\ (op # NoOp => op.by # s)
  BY DEF IInv, PauseDone
<1>2. op # NoOp => op.s # s
  BY <1>1, NotUnder
<1>3. Checked(s, FALSE) \in Tick /\ Checked(s, FALSE).at \in {"enter", "trade"}
      /\ ~Checked(s, FALSE).ok
  BY CheckedTick
<1>4. InTick(Checked(s, FALSE), row[s], job[s])
  BY <1>3 DEF InTick, MayEnter
<1>5. UNCHANGED <<row, alloc, job, book, op, crashes>> /\ Goes(s, Checked(s, FALSE))
      /\ risk' \in [hwm : Value, tripped : BOOLEAN]
  BY <1>1, Types DEF PauseDone
<1>6. QED
  BY <1>2, <1>3, <1>4, <1>5, TickMoves

LEMMA PauseFailsKeeps ==
  ASSUME IInv, NEW s \in Strategies, NEW v \in Strategies, PauseFails(s, v)
  PROVE  IInv'
<1> DEFINE t == [tick[s] EXCEPT !.todo = @ \ {v}]
<1>1. TypeOK /\ tick[s] \in Tick /\ tick[s].at = "pause" /\ op = NoOp
  BY Types DEF IInv, PauseFails, LockFree
<1>2. t \in Tick /\ t.at = "pause"
  BY <1>1 DEF Tick, TickPlaces
<1>3. InTick(t, row[s], job[s])
  BY <1>2 DEF InTick, MayEnter
<1>4. UNCHANGED <<row, alloc, job, book, op, crashes>> /\ Goes(s, t)
      /\ risk' \in [hwm : Value, tripped : BOOLEAN]
  BY <1>1, Types DEF PauseFails, Paused
<1> HIDE DEF t
<1>5. QED
  BY <1>1, <1>2, <1>3, <1>4, TickMoves

LEMMA AskEntryKeeps ==
  ASSUME IInv, NEW s \in Strategies, AskEntry(s)
  PROVE  IInv'
<1> DEFINE t == [Idle EXCEPT !.at = "check", !.entering = TRUE]
<1>1. TypeOK /\ tick[s].at = "trade" /\ tick[s].ok
  BY DEF IInv, AskEntry
<1>2. op # NoOp => op.s # s
  BY <1>1, NotUnder
<1>3. t \in Tick /\ t.at = "check"
  BY Numbers DEF Idle, Tick, TickPlaces, Monitor
<1>4. job[s]
  BY <1>1 DEF IInv, InTickNow, InTick, MayEnter
<1>5. InTick(t, row[s], job[s])
  BY <1>3, <1>4 DEF InTick
<1>6. UNCHANGED <<row, alloc, job, book, op, crashes>> /\ Goes(s, t)
      /\ risk' \in [hwm : Value, tripped : BOOLEAN]
  BY <1>1, Types DEF AskEntry
<1> HIDE DEF t
<1>7. QED
  BY <1>2, <1>3, <1>5, <1>6, TickMoves

LEMMA EndOfTick ==
  ASSUME NEW r, NEW j, NEW t, t.at \in {"idle", "finish", "rebaseline"}
  PROVE  InTick(t, r, j)
  BY DEF InTick, MayEnter

LEMMA TickFailsKeeps ==
  ASSUME IInv, NEW s \in Strategies, TickFails(s) \/ ServerDone(s)
  PROVE  IInv'
<1>1. TypeOK /\ tick[s].at \in {"trade", "finish", "server"}
  BY DEF IInv, TickFails, ServerDone
<1>2. op # NoOp => op.s # s
  BY <1>1, NotUnder
<1>3. Idle \in Tick /\ Idle.at = "idle"
  BY Ticks DEF Idle
<1>4. InTick(Idle, row[s], job[s])
  BY <1>3, EndOfTick
<1>5. UNCHANGED <<row, alloc, job, book, op, crashes>> /\ Goes(s, Idle)
      /\ risk' \in [hwm : Value, tripped : BOOLEAN]
  BY <1>1, Types DEF TickFails, ServerDone
<1>6. QED
  BY <1>2, <1>3, <1>4, <1>5, TickMoves

LEMMA PaperTickStarts ==
  ASSUME IInv, NEW s \in Strategies, StartPaperTick(s) \/ StartServerTick(s)
  PROVE  IInv'
<1>1. TypeOK /\ (op # NoOp => op.s # s)
  BY DEF IInv, StartPaperTick, StartServerTick
<1>2. UNCHANGED <<row, alloc, job, book, op, crashes>>
      /\ risk' \in [hwm : Value, tripped : BOOLEAN]
  BY <1>1, Types DEF StartPaperTick, StartServerTick
<1>3. PICK at \in {"paper", "server"} :
        /\ Goes(s, [Idle EXCEPT !.at = at])
        /\ at = "paper" => row[s].monitor = "paper" \/ row[s].status = "paper"
        /\ at = "server" => row[s].status = "paper" /\ row[s].monitor = "none"
  BY DEF StartPaperTick, StartServerTick
<1> DEFINE t == [Idle EXCEPT !.at = at]
<1>4. t \in Tick /\ t.at = at
  BY Numbers DEF Idle, Tick, TickPlaces, Monitor
<1> HIDE DEF t
<1>5. InTick(t, row[s], job[s])
  BY <1>3, <1>4 DEF InTick, MayEnter
<1>6. Goes(s, t)
  BY <1>3 DEF t
<1>7. QED
  BY <1>1, <1>2, <1>4, <1>5, <1>6, TickMoves

LEMMA FinishRebaselineKeeps ==
  ASSUME IInv, NEW s \in Strategies, FinishRebaseline(s) \/ FinishWrite(s)
  PROVE  IInv'
<1>1. TypeOK /\ tick[s] \in Tick /\ tick[s].at \in {"rebaseline", "write"}
  BY Types DEF IInv, FinishRebaseline, FinishWrite
<1>2. op # NoOp => op.s # s
  BY <1>1, NotUnder
<1>3. BookValue \in Value /\ tick[s].hwm \in Value
  BY <1>1, Types, BookValueIsValue DEF Tick
<1>4. Idle \in Tick /\ Idle.at = "idle"
  BY Ticks DEF Idle
<1> DEFINE w == [tick[s] EXCEPT !.at = "write", !.hwm = BookValue]
<1>5. w \in Tick /\ w.at = "write"
  BY <1>1, <1>3 DEF Tick, TickPlaces
<1>6. InTick(Idle, row[s], job[s]) /\ InTick(w, row[s], job[s])
  BY <1>4, <1>5, EndOfTick DEF InTick, MayEnter
<1>7. UNCHANGED <<row, alloc, job, book, op, crashes>> /\ (Goes(s, Idle) \/ Goes(s, w))
      /\ risk' \in [hwm : Value, tripped : BOOLEAN]
  BY <1>1, <1>3, Types DEF FinishRebaseline, FinishWrite
<1> HIDE DEF w
<1>8. QED
  BY <1>2, <1>4, <1>5, <1>6, <1>7, TickMoves

-----------------------------------------------------------------------------
(* A tick: orders, and the end of an exit monitor *)

\* A tick that changes its own strategy.
LEMMA OwnStep ==
  ASSUME IInv, NEW s \in Strategies, TypeOK', op' = op, op # NoOp => op.s # s,
         \A v \in Strategies \ {s} : Same(v), FitNow(s)', InTickNow(s)'
  PROVE  IInv'
<1>1. op # NoOp => op.s \in Strategies
  BY ChangeShape DEF IInv, Changes
<1>2. QED
  BY <1>1, Step

\* What a settlement may do to a strategy, and what it may not.
LEMMA SettledBook ==
  ASSUME TypeOK, NEW s \in Strategies, Settled(s)
  PROVE  /\ book' \in [Strategies -> Exposure]
         /\ \A v \in Strategies \ {s} : book'[v] = book[v]
         /\ book'[s].paper = book[s].paper /\ (book'[s].live => book[s].live)
<1>1. CASE UNCHANGED book
  BY <1>1, Types
<1>2. CASE book[s].live /\ \E l \in book[s].loss..MaxLoss :
             book' = [book EXCEPT ![s].live = FALSE, ![s].loss = l]
  <2>1. PICK l \in book[s].loss..MaxLoss :
          book' = [book EXCEPT ![s].live = FALSE, ![s].loss = l]
    BY <1>2
  <2>2. book[s] \in Exposure /\ book[s].loss \in Int /\ 0 <= book[s].loss
    BY Types, Numbers DEF Exposure
  <2>3. l \in 0..MaxLoss
    BY <2>2, Numbers
  <2>4. book'[s] \in Exposure /\ book'[s].paper = book[s].paper /\ book'[s].live = FALSE
    BY <2>1, <2>2, <2>3, Types DEF Exposure
  <2>5. QED
    BY <2>1, <2>4, Types
<1>3. QED
  BY <1>1, <1>2 DEF Settled

\* A strategy that settles still fits.
LEMMA SettledFits ==
  ASSUME TypeOK, NEW s \in Strategies, Settled(s), FitNow(s),
         row'[s] = row[s], alloc'[s] = alloc[s], job'[s] = job[s]
  PROVE  FitNow(s)'
  BY SettledBook DEF FitNow, Fit

LEMMA TickGoes ==
  ASSUME TypeOK, NEW s \in Strategies, NEW t \in Tick, Goes(s, t)
  PROVE  /\ tick' \in [Strategies -> Tick] /\ tick'[s] = t
         /\ \A v \in Strategies \ {s} : tick'[v] = tick[v]
  BY Types DEF Goes

LEMMA StartLiveTickKeeps ==
  ASSUME IInv, NEW s \in Strategies, StartLiveTick(s)
  PROVE  IInv'
<1> DEFINE t == [Idle EXCEPT !.at = "check"]
<1>1. TypeOK /\ FitNow(s) /\ job[s] /\ Settled(s) /\ Goes(s, t) /\ (op # NoOp => op.s # s)
      /\ UNCHANGED <<row, alloc, job, risk, op, crashes>>
  BY DEF IInv, StartLiveTick
<1>2. t \in Tick /\ t.at = "check"
  BY Numbers DEF Idle, Tick, TickPlaces, Monitor
<1> HIDE DEF t
<1>3. /\ tick' \in [Strategies -> Tick] /\ tick'[s] = t
      /\ \A v \in Strategies \ {s} : tick'[v] = tick[v]
  BY <1>1, <1>2, TickGoes
<1>4. TypeOK'
  BY <1>1, <1>3, SettledBook DEF TypeOK, Exposure
<1>5. \A v \in Strategies \ {s} : Same(v)
  BY <1>1, <1>3, SettledBook DEF Same
<1>6. FitNow(s)'
  BY <1>1, SettledFits
<1>7. InTickNow(s)'
  BY <1>1, <1>2, <1>3 DEF InTickNow, InTick
<1>8. op' = op
  BY <1>1
<1>9. QED
  BY <1>1, <1>4, <1>5, <1>6, <1>7, <1>8, OwnStep

LEMMA FinishingTick ==
  ASSUME TypeOK, NEW s \in Strategies, Goes(s, [Idle EXCEPT !.at = "finish"])
  PROVE  /\ tick' \in [Strategies -> Tick] /\ InTickNow(s)'
         /\ \A v \in Strategies \ {s} : tick'[v] = tick[v]
<1> DEFINE t == [Idle EXCEPT !.at = "finish"]
<1>1. t \in Tick /\ t.at = "finish"
  BY Numbers DEF Idle, Tick, TickPlaces, Monitor
<1> HIDE DEF t
<1>2. Goes(s, t)
  BY DEF t
<1>3. /\ tick' \in [Strategies -> Tick] /\ tick'[s] = t
      /\ \A v \in Strategies \ {s} : tick'[v] = tick[v]
  BY <1>1, <1>2, TickGoes
<1>4. InTickNow(s)'
  BY <1>1, <1>3, EndOfTick DEF InTickNow
<1>5. QED
  BY <1>3, <1>4

LEMMA ExitKeeps ==
  ASSUME IInv, NEW s \in Strategies, Exit(s)
  PROVE  IInv'
<1>1. TypeOK /\ FitNow(s) /\ Settled(s) /\ tick[s].at = "trade"
      /\ Goes(s, [Idle EXCEPT !.at = "finish"])
      /\ UNCHANGED <<row, alloc, job, risk, op, crashes>>
  BY DEF IInv, Exit
<1>2. op # NoOp => op.s # s
  BY <1>1, NotUnder
<1>3. /\ tick' \in [Strategies -> Tick] /\ InTickNow(s)'
      /\ \A v \in Strategies \ {s} : tick'[v] = tick[v]
  BY <1>1, FinishingTick
<1>4. TypeOK'
  BY <1>1, <1>3, SettledBook DEF TypeOK, Exposure
<1>5. \A v \in Strategies \ {s} : Same(v)
  BY <1>1, <1>3, SettledBook DEF Same
<1>6. FitNow(s)'
  BY <1>1, SettledFits
<1>7. op' = op
  BY <1>1
<1>8. QED
  BY <1>2, <1>3, <1>4, <1>5, <1>6, <1>7, OwnStep

LEMMA EnterKeeps ==
  ASSUME IInv, NEW s \in Strategies, Enter(s)
  PROVE  IInv'
<1> DEFINE opens == tick[s].ok /\ row[s].status = "live"
<1>1. TypeOK /\ FitNow(s) /\ InTickNow(s) /\ tick[s].at = "enter"
      /\ Goes(s, [Idle EXCEPT !.at = "finish"])
      /\ UNCHANGED <<alloc, job, risk, op, crashes>>
  BY DEF IInv, Enter
<1>2. op # NoOp => op.s # s
  BY <1>1, NotUnder
<1>3. /\ tick' \in [Strategies -> Tick] /\ InTickNow(s)'
      /\ \A v \in Strategies \ {s} : tick'[v] = tick[v]
  BY <1>1, FinishingTick
<1>4. row[s] \in Row /\ book[s] \in Exposure /\ tick[s].ok \in BOOLEAN
  BY <1>1, Types DEF Tick, TickPlaces
<1>5. /\ book' = [book EXCEPT ![s].live = opens]
      /\ \E b \in Binding : row' = [row EXCEPT ![s].bind = b]
  <2>1. book' = [book EXCEPT ![s].live = opens]
    BY DEF Enter
  <2>2. row[s].bind \in Binding /\ "traded" \in Binding
    BY <1>4 DEF Row, Binding
  <2>3. QED
    BY <1>1, <2>1, <2>2, Types DEF Enter
<1>6. PICK bind \in Binding : row' = [row EXCEPT ![s].bind = bind]
  BY <1>5
<1>7. /\ book' \in [Strategies -> Exposure] /\ book'[s].live = opens
      /\ book'[s].paper = book[s].paper /\ \A v \in Strategies \ {s} : book'[v] = book[v]
  BY <1>1, <1>4, <1>5, Types DEF Exposure
<1>8. /\ row' \in [Strategies -> Row] /\ row'[s].status = row[s].status
      /\ row'[s].monitor = row[s].monitor /\ \A v \in Strategies \ {s} : row'[v] = row[v]
  BY <1>1, <1>4, <1>6, Types DEF Row
<1>9. TypeOK'
  BY <1>1, <1>3, <1>7, <1>8 DEF TypeOK, Exposure
<1>10. \A v \in Strategies \ {s} : Same(v)
  BY <1>1, <1>3, <1>7, <1>8 DEF Same
<1>11. opens => job[s]
  BY <1>1 DEF InTickNow, InTick, MayEnter
<1>12. FitNow(s)'
  <2> HIDE DEF opens
  <2>1. opens => row[s].status = "live"
    BY DEF opens
  <2>2. QED
    BY <1>1, <1>7, <1>8, <1>11, <2>1 DEF FitNow, Fit
<1>13. op' = op
  BY <1>1
<1>14. QED
  BY <1>2, <1>3, <1>9, <1>10, <1>12, <1>13, OwnStep

\* Paper exposure moves only where the strategy has no live mode and no live
\* exposure; an adopted strategy has no paper tick.
LEMMA PaperBook ==
  ASSUME TypeOK, NEW s \in Strategies, FitNow(s), NEW open \in BOOLEAN,
         book' = [book EXCEPT ![s].paper = open],
         row[s].monitor = "paper" \/ row[s].status = "paper",
         open => row[s].status = "paper",
         row'[s] = row[s], alloc'[s] = alloc[s], job'[s] = job[s]
  PROVE  /\ book' \in [Strategies -> Exposure] /\ FitNow(s)'
         /\ \A v \in Strategies \ {s} : book'[v] = book[v]
<1>1. book[s] \in Exposure
  BY Types
<1>2. /\ book' \in [Strategies -> Exposure] /\ book'[s].live = book[s].live
      /\ book'[s].paper = open /\ \A v \in Strategies \ {s} : book'[v] = book[v]
  BY <1>1, Types DEF Exposure
<1>3. FitNow(s)'
  BY <1>2 DEF FitNow, Fit
<1>4. QED
  BY <1>2, <1>3

LEMMA PaperTradeKeeps ==
  ASSUME IInv, NEW s \in Strategies, PaperTrade(s)
  PROVE  IInv'
<1>1. TypeOK /\ FitNow(s) /\ InTickNow(s) /\ tick[s].at = "paper"
      /\ Goes(s, [Idle EXCEPT !.at = "finish"])
      /\ UNCHANGED <<row, alloc, job, risk, op, crashes>>
  BY DEF IInv, PaperTrade
<1>2. op # NoOp => op.s # s
  BY <1>1, NotUnder
<1>3. /\ tick' \in [Strategies -> Tick] /\ InTickNow(s)'
      /\ \A v \in Strategies \ {s} : tick'[v] = tick[v]
  BY <1>1, FinishingTick
<1>4. row[s].monitor = "paper" \/ row[s].status = "paper"
  BY <1>1 DEF InTickNow, InTick
<1>5. row'[s] = row[s] /\ alloc'[s] = alloc[s] /\ job'[s] = job[s]
  BY <1>1
<1>6. /\ book' \in [Strategies -> Exposure] /\ FitNow(s)'
      /\ \A v \in Strategies \ {s} : book'[v] = book[v]
  <2>1. CASE UNCHANGED book
    BY <1>1, <1>5, <2>1, Types DEF FitNow
  <2>2. CASE row[s].status = "paper" /\ book' = [book EXCEPT ![s].paper = TRUE]
    BY <1>1, <1>4, <1>5, <2>2, PaperBook
  <2>3. CASE book' = [book EXCEPT ![s].paper = FALSE]
    BY <1>1, <1>4, <1>5, <2>3, PaperBook
  <2>4. QED
    BY <2>1, <2>2, <2>3 DEF PaperTrade
<1>7. TypeOK'
  BY <1>1, <1>3, <1>6 DEF TypeOK, Exposure
<1>8. \A v \in Strategies \ {s} : Same(v)
  BY <1>1, <1>3, <1>6 DEF Same
<1>9. op' = op
  BY <1>1
<1>10. QED
  BY <1>2, <1>3, <1>6, <1>7, <1>8, <1>9, OwnStep

LEMMA ServerFillKeeps ==
  ASSUME IInv, NEW s \in Strategies, ServerFill(s)
  PROVE  IInv'
<1>1. TypeOK /\ FitNow(s) /\ InTickNow(s) /\ tick[s].at = "server"
      /\ UNCHANGED <<row, alloc, job, risk, op, tick, crashes>>
  BY DEF IInv, ServerFill
<1>2. op # NoOp => op.s # s
  BY <1>1, NotUnder
<1>3. PICK open \in BOOLEAN : book' = [book EXCEPT ![s].paper = open]
  BY DEF ServerFill
<1>4. row[s].status = "paper"
  BY <1>1 DEF InTickNow, InTick
<1>5. row'[s] = row[s] /\ alloc'[s] = alloc[s] /\ job'[s] = job[s]
  BY <1>1
<1>6. /\ book' \in [Strategies -> Exposure] /\ FitNow(s)'
      /\ \A v \in Strategies \ {s} : book'[v] = book[v]
  BY <1>1, <1>3, <1>4, <1>5, PaperBook
<1>7. TypeOK' /\ InTickNow(s)'
  BY <1>1, <1>6 DEF TypeOK, Exposure, InTickNow
<1>8. \A v \in Strategies \ {s} : Same(v)
  BY <1>1, <1>6 DEF Same
<1>9. op' = op
  BY <1>1
<1>10. QED
  BY <1>2, <1>6, <1>7, <1>8, <1>9, OwnStep

LEMMA FinishTickKeeps ==
  ASSUME IInv, NEW s \in Strategies, FinishTick(s)
  PROVE  IInv'
<1>1. TypeOK /\ FitNow(s) /\ tick[s].at = "finish"
      /\ UNCHANGED <<alloc, job, book, risk, op, crashes>>
  BY DEF IInv, FinishTick
<1>2. op # NoOp => op.s # s
  BY <1>1, NotUnder
<1>3. op' = op /\ row[s] \in Row
  BY <1>1, Types
<1>4. CASE Goes(s, Idle) /\ UNCHANGED row
  <2>1. Idle \in Tick /\ Idle.at = "idle"
    BY Ticks DEF Idle
  <2>2. InTick(Idle, row[s], job[s])
    BY <2>1, EndOfTick
  <2>3. UNCHANGED <<row, alloc, job, book, op, crashes>>
        /\ risk' \in [hwm : Value, tripped : BOOLEAN]
    BY <1>1, <1>4, Types
  <2>4. QED
    BY <1>2, <1>4, <2>1, <2>2, <2>3, TickMoves
<1>5. CASE /\ row[s].monitor # "none" /\ ~Exposed(s)
           /\ row' = [row EXCEPT ![s].monitor = "none"]
           /\ Goes(s, [Idle EXCEPT !.at = "release", !.was = row[s].monitor])
  <2> DEFINE t == [Idle EXCEPT !.at = "release", !.was = row[s].monitor]
  <2>1. t \in Tick /\ t.at = "release"
    BY <1>3, Numbers DEF Idle, Tick, TickPlaces, Row
  <2> HIDE DEF t
  <2>2. Goes(s, t)
    BY <1>5 DEF t
  <2>3. /\ tick' \in [Strategies -> Tick] /\ tick'[s] = t
        /\ \A v \in Strategies \ {s} : tick'[v] = tick[v]
    BY <1>1, <2>1, <2>2, TickGoes
  <2>4. /\ row' \in [Strategies -> Row] /\ row'[s].status = row[s].status
        /\ row'[s].monitor = "none" /\ \A v \in Strategies \ {s} : row'[v] = row[v]
    BY <1>1, <1>3, <1>5, Types DEF Row, Monitor
  <2>5. ~book[s].live
    BY <1>1, <1>5 DEF Exposed, FitNow, Fit
  <2>6. FitNow(s)'
    BY <1>1, <2>4, <2>5 DEF FitNow, Fit
  <2>7. InTickNow(s)'
    BY <2>1, <2>3, <2>4 DEF InTickNow, InTick, MayEnter
  <2>8. TypeOK'
    BY <1>1, <2>3, <2>4 DEF TypeOK
  <2>9. \A v \in Strategies \ {s} : Same(v)
    BY <1>1, <2>3, <2>4 DEF Same
  <2>10. QED
    BY <1>2, <1>3, <2>6, <2>7, <2>8, <2>9, OwnStep
<1>6. QED
  BY <1>4, <1>5 DEF FinishTick

\* A strategy whose monitor is gone and that is not live has no live exposure.
LEMMA FlatWithoutMonitor ==
  ASSUME NEW s \in Strategies, FitNow(s), row[s].monitor = "none", row[s].status # "live"
  PROVE  ~book[s].live
  BY DEF FitNow, Fit

LEMMA FinishReleaseKeeps ==
  ASSUME IInv, NEW s \in Strategies, FinishRelease(s)
  PROVE  IInv'
<1> DEFINE t == [tick[s] EXCEPT !.at = "cancel"]
           kept == tick[s].was # "live" \/ row[s].status = "live"
<1>1. TypeOK /\ FitNow(s) /\ InTickNow(s) /\ tick[s].at = "release" /\ Goes(s, t)
      /\ UNCHANGED <<row, job, book, risk, op, crashes>>
      /\ alloc' = [alloc EXCEPT ![s] = @ /\ kept]
  BY DEF IInv, FinishRelease
<1>2. op # NoOp => op.s # s
  BY <1>1, NotUnder
<1>3. tick[s] \in Tick /\ alloc[s] \in BOOLEAN /\ kept \in BOOLEAN
  BY <1>1, Types
<1>4. t \in Tick /\ t.at = "cancel"
  BY <1>3 DEF Tick, TickPlaces
<1> HIDE DEF t
<1>5. /\ tick' \in [Strategies -> Tick] /\ tick'[s] = t
      /\ \A v \in Strategies \ {s} : tick'[v] = tick[v]
  BY <1>1, <1>4, TickGoes
<1>6. ~kept => row[s].status # "live"
  OBVIOUS
<1> HIDE DEF kept
<1>7. /\ alloc' \in [Strategies -> BOOLEAN] /\ (kept => alloc'[s] = alloc[s])
      /\ \A v \in Strategies \ {s} : alloc'[v] = alloc[v]
  BY <1>1, <1>3, Types
<1>8. row[s].monitor = "none"
  BY <1>1 DEF InTickNow, InTick
<1>9. ~kept => ~book[s].live
  BY <1>1, <1>6, <1>8, FlatWithoutMonitor
<1>10. FitNow(s)'
  BY <1>1, <1>6, <1>7, <1>9 DEF FitNow, Fit
<1>11. InTickNow(s)'
  BY <1>1, <1>4, <1>5, <1>8 DEF InTickNow, InTick, MayEnter
<1>12. TypeOK'
  BY <1>1, <1>5, <1>7 DEF TypeOK
<1>13. \A v \in Strategies \ {s} : Same(v)
  BY <1>1, <1>5, <1>7 DEF Same
<1>14. op' = op
  BY <1>1
<1>15. QED
  BY <1>2, <1>10, <1>11, <1>12, <1>13, <1>14, OwnStep

LEMMA FinishCancelKeeps ==
  ASSUME IInv, NEW s \in Strategies, FinishCancel(s)
  PROVE  IInv'
<1> DEFINE kept == row[s].status \in {"live", "paper"}
<1>1. TypeOK /\ FitNow(s) /\ InTickNow(s) /\ tick[s].at = "cancel"
      /\ UNCHANGED <<row, alloc, book, risk, op, crashes>>
      /\ job' = [job EXCEPT ![s] = @ /\ kept]
  BY DEF IInv, FinishCancel
<1>2. op # NoOp => op.s # s
  BY <1>1, NotUnder
<1>3. tick[s] \in Tick /\ job[s] \in BOOLEAN /\ kept \in BOOLEAN
  BY <1>1, Types
<1>4. PICK t \in Tick : Goes(s, t) /\ t.at \in {"idle", "rebaseline"}
  <2>1. Idle \in Tick /\ Idle.at = "idle"
    BY Ticks DEF Idle
  <2>2. [tick[s] EXCEPT !.at = "rebaseline"] \in Tick
        /\ [tick[s] EXCEPT !.at = "rebaseline"].at = "rebaseline"
    BY <1>3 DEF Tick, TickPlaces
  <2>3. QED
    BY <2>1, <2>2 DEF FinishCancel
<1>5. /\ tick' \in [Strategies -> Tick] /\ tick'[s] = t
      /\ \A v \in Strategies \ {s} : tick'[v] = tick[v]
  BY <1>1, <1>4, TickGoes
<1>6. ~kept => row[s].status # "live"
  OBVIOUS
<1> HIDE DEF kept
<1>7. /\ job' \in [Strategies -> BOOLEAN] /\ (kept => job'[s] = job[s])
      /\ (~kept => ~job'[s]) /\ \A v \in Strategies \ {s} : job'[v] = job[v]
  BY <1>1, <1>3, Types
<1>8. row[s].monitor = "none"
  BY <1>1 DEF InTickNow, InTick
<1>9. ~kept => ~book[s].live
  BY <1>1, <1>6, <1>8, FlatWithoutMonitor
<1>10. FitNow(s)'
  BY <1>1, <1>6, <1>7, <1>9 DEF FitNow, Fit
<1>11. InTickNow(s)'
  BY <1>4, <1>5, EndOfTick DEF InTickNow
<1>12. TypeOK'
  BY <1>1, <1>5, <1>7 DEF TypeOK
<1>13. \A v \in Strategies \ {s} : Same(v)
  BY <1>1, <1>5, <1>7 DEF Same
<1>14. op' = op
  BY <1>1
<1>15. QED
  BY <1>2, <1>10, <1>11, <1>12, <1>13, <1>14, OwnStep

-----------------------------------------------------------------------------
(* Everything else that happens outside a change of status *)

\* What the lock of the broker promises an operation of a person.
LEMMA Unlocked ==
  ASSUME NEW s \in Adopted, LockFree("user")
  PROVE  s \in Strategies /\ op = NoOp /\ tick[s].at = "idle"
  BY StrategiesFinite DEF LockFree

LEMMA AdoptKeeps ==
  ASSUME IInv, NEW s \in Strategies, Adopt(s) \/ Configure(s)
  PROVE  IInv'
<1>1. TypeOK /\ FitNow(s) /\ s \in Adopted /\ LockFree("user")
      /\ UNCHANGED <<alloc, job, book, risk, op, tick, crashes>>
  BY DEF IInv, Adopt, Configure
<1>2. op = NoOp /\ tick[s].at = "idle" /\ row[s] \in Row
  BY <1>1, Unlocked, Types
<1>3. row[s].status # "live" /\ row[s].status # "paper"
  BY DEF Adopt, Configure
<1>4. PICK b \in Binding : row' = [row EXCEPT ![s].status = "inactive", ![s].bind = b]
  <2>1. CASE Adopt(s)
    BY <2>1 DEF Adopt, Binding
  <2>2. CASE Configure(s)
    <3>1. row' = [row EXCEPT ![s].bind = "routed"] /\ row[s].status = "inactive"
      BY <2>2 DEF Configure
    <3>2. row' = [row EXCEPT ![s].status = "inactive", ![s].bind = "routed"]
      BY <1>1, <1>2, <3>1, Types DEF Row
    <3>3. QED
      BY <3>2 DEF Binding
  <2>3. QED
    BY <2>1, <2>2
<1>5. /\ row' \in [Strategies -> Row] /\ row'[s].status = "inactive"
      /\ row'[s].monitor = row[s].monitor /\ \A v \in Strategies \ {s} : row'[v] = row[v]
  BY <1>1, <1>2, <1>4, Types DEF Row, Status
<1>6. TypeOK'
  BY <1>1, <1>5 DEF TypeOK
<1>7. \A v \in Strategies \ {s} : Same(v)
  BY <1>1, <1>5 DEF Same
<1>8. FitNow(s)'
  BY <1>1, <1>3, <1>5, StrategiesFinite DEF FitNow, Fit
<1>9. InTickNow(s)'
  BY <1>1, <1>2 DEF InTickNow, InTick, MayEnter
<1>10. op' = NoOp
  BY <1>1, <1>2
<1>11. QED
  BY <1>6, <1>7, <1>8, <1>9, <1>10, Step

LEMMA ReconcilePendingKeeps ==
  ASSUME IInv, NEW s \in Strategies, ReconcilePending(s)
  PROVE  IInv'
<1>1. TypeOK /\ FitNow(s) /\ InTickNow(s) /\ s \in Adopted /\ LockFree("user") /\ Settled(s)
      /\ UNCHANGED <<row, alloc, job, risk, op, tick, crashes>>
  BY DEF IInv, ReconcilePending
<1>2. op' = NoOp
  BY <1>1, Unlocked
<1>3. TypeOK'
  BY <1>1, SettledBook DEF TypeOK, Exposure
<1>4. \A v \in Strategies \ {s} : Same(v)
  BY <1>1, SettledBook DEF Same
<1>5. FitNow(s)'
  BY <1>1, SettledFits
<1>6. InTickNow(s)'
  BY <1>1 DEF InTickNow
<1>7. QED
  BY <1>2, <1>3, <1>4, <1>5, <1>6, Step

LEMMA RiskKeeps ==
  ASSUME IInv, risk' \in [hwm : Value, tripped : BOOLEAN],
         UNCHANGED <<row, alloc, job, book, tick, crashes>>, op' = op \/ op' = NoOp
  PROVE  IInv'
<1>1. TypeOK'
  <2>1. NoOp \in Op
    BY DEF NoOp, Op
  <2>2. QED
    BY <2>1 DEF IInv, TypeOK
<1>2. \A v \in Strategies : Same(v)
  BY DEF Same
<1>3. op # NoOp => op.s \in Strategies
  BY ChangeShape DEF IInv, Changes
<1>4. QED
  BY <1>1, <1>2, <1>3, Step

LEMMA ResetKeeps ==
  ASSUME IInv, Reset
  PROVE  IInv'
<1>1. BookValue \in Value
  BY Types, BookValueIsValue DEF IInv
<1>2. risk' \in [hwm : Value, tripped : BOOLEAN]
      /\ UNCHANGED <<row, alloc, job, book, op, tick, crashes>>
  BY <1>1 DEF Reset
<1>3. QED
  BY <1>2, RiskKeeps

LEMMA CrashKeeps ==
  ASSUME IInv, Crash
  PROVE  IInv'
<1>1. TypeOK /\ UNCHANGED <<row, alloc, book, risk>> /\ op' = NoOp
      /\ tick' = [s \in Strategies |-> Idle]
      /\ job' = [s \in Strategies |-> IF s \in Adopted THEN InBook(s) ELSE job[s]]
  BY DEF IInv, Crash
<1>2. crashes' \in 0..MaxCrashes
  BY <1>1, Types, Numbers DEF Crash
<1>3. NoOp \in Op /\ Idle \in Tick /\ Idle.at = "idle"
  BY Ticks DEF NoOp, Op, Idle
<1>4. \A s \in Strategies : InBook(s) \in BOOLEAN
  BY DEF InBook
<1>5. job' \in [Strategies -> BOOLEAN]
  BY <1>1, <1>4, Types
<1>6. TypeOK'
  BY <1>1, <1>2, <1>3, <1>5 DEF TypeOK
<1>7. ASSUME NEW s \in Strategies PROVE FitNow(s)' /\ InTickNow(s)'
  <2>1. InTick(Idle, row[s], job'[s])
    BY <1>3, EndOfTick
  <2>2. FitNow(s) /\ tick'[s] = Idle
    BY <1>1 DEF IInv
  <2>3. job'[s] = IF s \in Adopted THEN InBook(s) ELSE job[s]
    BY <1>1
  <2>4. FitNow(s)'
    BY <1>1, <2>2, <2>3, StrategiesFinite DEF FitNow, Fit, InBook
  <2>5. QED
    BY <1>1, <2>1, <2>2, <2>4 DEF InTickNow
<1>8. QED
  BY <1>1, <1>6, <1>7, Step

-----------------------------------------------------------------------------
(* A change of status *)

\* What a change of status finds: itself, and its strategy untouched since.
LEMMA Underway ==
  ASSUME IInv, op.at # "none"
  PROVE  /\ TypeOK /\ op # NoOp /\ op \in Changes /\ op.s \in Strategies
         /\ UnderNow /\ FitNow(op.s) /\ InTickNow(op.s)
         /\ row[op.s] \in Row /\ op.was \in Row /\ book[op.s] \in Exposure
  BY ChangeShape, Types DEF IInv, Changes

\* A tick of this strategy is idle or asked for the change: nothing it may enter on.
LEMMA StillOut ==
  ASSUME IInv, op.at # "none"
  PROVE  \A r, j : InTick(tick[op.s], r, j)
<1>1. tick[op.s].at \in {"idle", "pause"}
  BY Underway DEF UnderNow, Under
<1>2. QED
  BY <1>1 DEF InTick, MayEnter

LEMMA UpstreamFailsKeeps ==
  ASSUME IInv, UpstreamFails
  PROVE  IInv'
<1>0. PICK s \in Strategies : s = op.s
  BY Underway DEF UpstreamFails
<1> DEFINE a == IF op.target = "live" THEN op.prior ELSE alloc[s]
<1>1. /\ TypeOK /\ op \in Changes /\ UnderNow /\ FitNow(s) /\ InTickNow(s)
      /\ op.at = "upstream"
  BY <1>0, Underway DEF UpstreamFails
<1>2. /\ alloc' = [alloc EXCEPT ![s] = a] /\ op' = NoOp
      /\ UNCHANGED <<row, job, book, risk, tick, crashes>>
  BY <1>0, <1>1, Types DEF UpstreamFails
<1>3. op.prior \in BOOLEAN /\ alloc[s] \in BOOLEAN /\ NoOp \in Op
  BY <1>1, Types DEF Changes, NoOp, Op
<1>4. /\ alloc' \in [Strategies -> BOOLEAN] /\ alloc'[s] = a
      /\ \A v \in Strategies \ {s} : alloc'[v] = alloc[v]
  BY <1>1, <1>2, <1>3, Types
<1>5. TypeOK'
  BY <1>1, <1>2, <1>3, <1>4 DEF TypeOK
<1>6. \A v \in Strategies \ {s} : Same(v)
  BY <1>2, <1>4 DEF Same
<1>7. s \in Dex => /\ row[s] = op.was /\ op.target \in Transitions[op.was.status]
                   /\ book[s].live => op.prior
                   /\ op.was.status # "absent"
  BY <1>0, <1>1 DEF UnderNow, Under, DexChange
<1>8. s \in Dex /\ op.target = "live" => row[s].status # "live"
  <2>1. s \in Dex => op.was.status \in Status
    BY <1>1 DEF Changes, Row
  <2>2. QED
    BY <1>7, <2>1 DEF Transitions, Status
<1>9. FitNow(s)'
  BY <1>1, <1>2, <1>4, <1>7, <1>8 DEF FitNow, Fit
<1>10. InTickNow(s)'
  BY <1>1, <1>2 DEF InTickNow
<1>11. QED
  BY <1>2, <1>5, <1>6, <1>9, <1>10, Step

\* A later stage of the same change.
LEMMA LaterStage ==
  ASSUME TypeOK, op \in Changes,
         NEW at \in {"effects", "register", "release", "status", "rebaseline"}
  PROVE  /\ [op EXCEPT !.at = at] \in Changes /\ [op EXCEPT !.at = at] \in Op
         /\ [op EXCEPT !.at = at].at = at /\ [op EXCEPT !.at = at].s = op.s
         /\ [op EXCEPT !.at = at].by = op.by /\ [op EXCEPT !.at = at].target = op.target
         /\ [op EXCEPT !.at = at].was = op.was /\ [op EXCEPT !.at = at].prior = op.prior
  BY DEF Changes, Op

LEMMA UpstreamAcceptsKeeps ==
  ASSUME IInv, UpstreamAccepts
  PROVE  IInv'
<1>1. /\ TypeOK /\ op \in Changes /\ UnderNow /\ op.at = "upstream"
  BY Underway DEF UpstreamAccepts
<1>2. /\ op' = [op EXCEPT !.at = "effects"]
      /\ UNCHANGED <<row, alloc, job, book, risk, tick, crashes>>
  BY DEF UpstreamAccepts
<1>3. /\ op' \in Op /\ op'.at = "effects" /\ op'.s = op.s /\ op'.by = op.by
      /\ op'.target = op.target /\ op'.was = op.was /\ op'.prior = op.prior
  BY <1>1, <1>2, LaterStage
<1>4. TypeOK'
  BY <1>1, <1>2, <1>3 DEF TypeOK
<1>5. \A v \in Strategies : Same(v)
  BY <1>2 DEF Same
<1>6. UnderNow'
  BY <1>1, <1>2, <1>3 DEF UnderNow, Under, DexChange, AdoptedChange
<1>7. QED
  BY <1>4, <1>5, <1>6, Step

\* The stage after the effects: the status of a wallet strategy is still to be set,
\* that of an adopted one is.
LEMMA NextStage ==
  ASSUME TypeOK, op \in Changes, op' = AfterEffects
  PROVE  /\ op' \in Op
         /\ \/ op' = NoOp
            \/ /\ op'.s = op.s /\ op'.by = op.by /\ op'.target = op.target
               /\ op'.was = op.was /\ op'.prior = op.prior
               /\ \/ op'.at = "status" /\ op.s \in Dex
                  \/ op'.at = "rebaseline" /\ op.s \in Adopted
<1>1. op.s \in Dex \/ op.s \in Adopted
  BY DEF Changes, Strategies
<1>2. \/ op' = NoOp
      \/ op' = [op EXCEPT !.at = "status"] /\ op.s \in Dex
      \/ op' = [op EXCEPT !.at = "rebaseline"] /\ op.s \in Adopted
  BY <1>1 DEF AfterEffects
<1>3. NoOp \in Op
  BY DEF NoOp, Op
<1>4. CASE op' = NoOp
  BY <1>3, <1>4
<1>5. CASE op' = [op EXCEPT !.at = "status"] /\ op.s \in Dex
  BY <1>5, LaterStage
<1>6. CASE op' = [op EXCEPT !.at = "rebaseline"] /\ op.s \in Adopted
  BY <1>6, LaterStage
<1>7. QED
  BY <1>2, <1>4, <1>5, <1>6

\* The monitor that takes over when a strategy leaves its mode: live exposure gets a
\* live one, and only then may there be none.
LEMMA ModeFacts ==
  ASSUME NEW s \in Strategies, NEW was \in Row, FitNow(s),
         \/ row[s] = was
         \/ s \in Adopted /\ was.monitor # "paper" /\ was.status # "paper"
            /\ row[s].status = "inactive"
            /\ (book[s].live => was.status = "live" \/ was.monitor = "live")
  PROVE  /\ MonitorMode(s, was) \in Monitor
         /\ MonitorMode(s, was) = "paper" =>
              book[s].paper /\ s \notin Adopted /\ row[s].status # "live" /\ ~book[s].live
         /\ MonitorMode(s, was) = "live" => book[s].live /\ ~book[s].paper /\ row[s].status # "paper"
         /\ MonitorMode(s, was) = "none" => ~book[s].live
  BY DEF MonitorMode, Monitor, FitNow, Fit

LEMMA ApplySchedulerEffectsKeeps ==
  ASSUME IInv, ApplySchedulerEffects
  PROVE  IInv'
<1>0. PICK s \in Strategies : s = op.s
  BY Underway DEF ApplySchedulerEffects
<1>1. /\ TypeOK /\ op \in Changes /\ UnderNow /\ FitNow(s)
      /\ op.at = "effects" /\ row[s] \in Row /\ op.was \in Row
      /\ UNCHANGED <<alloc, book, risk, tick, crashes>>
  BY <1>0, Underway DEF ApplySchedulerEffects
<1> DEFINE mode == MonitorMode(s, op.was)
<1>2. s \in Dex \/ s \in Adopted
  BY DEF Strategies
<1>3. /\ s \in Dex => DexChange(op, row[s], alloc[s], job[s], book[s])
      /\ s \in Adopted => AdoptedChange(op, row[s], book[s])
      /\ tick[s].at = "idle" \/ (op.by = op.s /\ tick[s].at = "pause")
  BY <1>0, <1>1 DEF UnderNow, Under
<1>4. InTickNow(s)'
  BY <1>0, <1>1, StillOut DEF InTickNow
<1>5. CASE op.target \in {"paper", "live"} /\ job' = [job EXCEPT ![s] = TRUE]
           /\ op' = AfterEffects /\ UNCHANGED row
  <2>1. /\ job' \in [Strategies -> BOOLEAN] /\ job'[s]
        /\ \A v \in Strategies \ {s} : job'[v] = job[v]
    BY <1>1, <1>5, Types
  <2>2. TypeOK'
    BY <1>1, <1>5, <2>1, NextStage DEF TypeOK
  <2>3. \A v \in Strategies \ {s} : Same(v)
    BY <1>1, <1>5, <2>1 DEF Same
  <2>4. s \in Dex => /\ row[s].status = "live" => alloc[s]
                     /\ book[s].live => alloc[s]
    <3>1. ASSUME s \in Dex, op.target = "paper" PROVE row[s].status # "live"
      <4>1. op.was.status \in Status /\ op.was.status # "absent" /\ row[s] = op.was
            /\ op.target \in Transitions[op.was.status]
        BY <1>1, <1>3, <3>1 DEF Row, DexChange
      <4>2. QED
        BY <3>1, <4>1 DEF Transitions, Status
    <3>2. QED
      BY <1>1, <1>3, <1>5, <3>1 DEF DexChange, FitNow, Fit
  <2>5. FitNow(s)'
    BY <1>1, <1>5, <2>1, <2>4 DEF FitNow, Fit
  <2>6. op' = NoOp \/ UnderNow'
    BY <1>0, <1>1, <1>3, <1>5, <2>1, NextStage, StrategiesFinite
       DEF UnderNow, Under, DexChange, AdoptedChange
  <2>7. QED
    BY <1>4, <2>2, <2>3, <2>5, <2>6, Step
<1>6. ASSUME op.target \notin {"paper", "live"}
      PROVE  /\ mode \in Monitor
             /\ mode = "paper" =>
                  book[s].paper /\ s \notin Adopted /\ row[s].status # "live" /\ ~book[s].live
             /\ mode = "live" => book[s].live /\ ~book[s].paper /\ row[s].status # "paper"
             /\ mode = "none" => ~book[s].live
  <2>1. \/ row[s] = op.was
        \/ s \in Adopted /\ op.was.monitor # "paper" /\ op.was.status # "paper"
           /\ row[s].status = "inactive"
           /\ (book[s].live => op.was.status = "live" \/ op.was.monitor = "live")
    BY <1>1, <1>2, <1>3, <1>6 DEF DexChange, AdoptedChange
  <2>2. QED
    BY <1>1, <2>1, ModeFacts
<1> HIDE DEF mode
<1>7. CASE op.target \notin {"paper", "live"} /\ mode # "none"
           /\ row' = [row EXCEPT ![s].monitor = mode]
           /\ op' = [op EXCEPT !.at = "register"] /\ UNCHANGED job
  <2>1. /\ row' \in [Strategies -> Row] /\ row'[s].status = row[s].status
        /\ row'[s].monitor = mode /\ \A v \in Strategies \ {s} : row'[v] = row[v]
    BY <1>1, <1>6, <1>7, Types DEF Row
  <2>2. /\ op' \in Op /\ op'.at = "register" /\ op'.s = op.s /\ op'.by = op.by
        /\ op'.target = op.target /\ op'.was = op.was /\ op'.prior = op.prior
    BY <1>1, <1>7, LaterStage
  <2>3. TypeOK'
    BY <1>1, <1>7, <2>1, <2>2 DEF TypeOK
  <2>4. \A v \in Strategies \ {s} : Same(v)
    BY <1>1, <1>7, <2>1 DEF Same
  <2>5. mode = "paper" \/ mode = "live"
    BY <1>6, <1>7 DEF Monitor
  <2>6. FitNow(s)'
    BY <1>1, <1>6, <1>7, <2>1, <2>5 DEF FitNow, Fit
  <2>7. UnderNow'
    BY <1>0, <1>1, <1>3, <1>6, <1>7, <2>1, <2>2, <2>5
       DEF UnderNow, Under, DexChange, AdoptedChange
  <2>8. QED
    BY <1>4, <2>3, <2>4, <2>6, <2>7, Step
<1>8. CASE op.target \notin {"paper", "live"} /\ mode = "none"
           /\ job' = [job EXCEPT ![s] = FALSE]
           /\ (op' = [op EXCEPT !.at = "release"] \/ op' = AfterEffects)
           /\ UNCHANGED row
  <2>1. /\ job' \in [Strategies -> BOOLEAN] /\ ~job'[s]
        /\ \A v \in Strategies \ {s} : job'[v] = job[v]
    BY <1>1, <1>8, Types
  <2>2. /\ op' \in Op
        /\ \/ op' = NoOp
           \/ /\ op'.s = op.s /\ op'.by = op.by /\ op'.target = op.target
              /\ op'.was = op.was /\ op'.prior = op.prior
              /\ op'.at \in {"release", "status", "rebaseline"}
              /\ op'.at = "status" => op.s \in Dex
    BY <1>1, <1>8, LaterStage, NextStage
  <2>3. TypeOK'
    BY <1>1, <1>8, <2>1, <2>2 DEF TypeOK
  <2>4. \A v \in Strategies \ {s} : Same(v)
    BY <1>1, <1>8, <2>1 DEF Same
  <2>5. FitNow(s)'
    BY <1>1, <1>6, <1>8, <2>1 DEF FitNow, Fit
  <2>6. op' = NoOp \/ UnderNow'
    BY <1>0, <1>1, <1>3, <1>6, <1>8, <2>1, <2>2, StrategiesFinite
       DEF UnderNow, Under, DexChange, AdoptedChange
  <2>7. QED
    BY <1>4, <2>3, <2>4, <2>5, <2>6, Step
<1>9. QED
  BY <1>0, <1>5, <1>7, <1>8 DEF ApplySchedulerEffects, mode

LEMMA RegisterMonitorKeeps ==
  ASSUME IInv, RegisterMonitor
  PROVE  IInv'
<1>0. PICK s \in Strategies : s = op.s
  BY Underway DEF RegisterMonitor
<1>1. /\ TypeOK /\ op \in Changes /\ UnderNow /\ FitNow(s) /\ op.at = "register"
      /\ UNCHANGED <<row, alloc, book, risk, tick, crashes>>
      /\ job' = [job EXCEPT ![s] = TRUE] /\ op' = AfterEffects
  BY <1>0, Underway DEF RegisterMonitor
<1>2. InTickNow(s)'
  BY <1>0, <1>1, StillOut DEF InTickNow
<1>3. /\ job' \in [Strategies -> BOOLEAN] /\ job'[s]
      /\ \A v \in Strategies \ {s} : job'[v] = job[v]
  BY <1>1, Types
<1>4. TypeOK'
  BY <1>1, <1>3, NextStage DEF TypeOK
<1>5. \A v \in Strategies \ {s} : Same(v)
  BY <1>1, <1>3 DEF Same
<1>6. /\ (row[s].monitor = "live" /\ book[s].live) \/ row[s].monitor = "paper"
      /\ op.target \notin {"paper", "live"}
  BY <1>0, <1>1 DEF UnderNow, Under
<1>7. FitNow(s)'
  BY <1>1, <1>3, <1>6 DEF FitNow, Fit
<1>8. op' = NoOp \/ UnderNow'
  <2>1. book[s].live => row[s].monitor = "live"
    BY <1>1, <1>6 DEF FitNow, Fit
  <2>2. QED
    BY <1>0, <1>1, <1>3, <1>6, <2>1, NextStage, StrategiesFinite
       DEF UnderNow, Under, DexChange, AdoptedChange
<1>9. QED
  BY <1>2, <1>4, <1>5, <1>7, <1>8, Step

LEMMA ReleaseAllocationKeeps ==
  ASSUME IInv, ReleaseAllocation
  PROVE  IInv'
<1>0. PICK s \in Strategies : s = op.s
  BY Underway DEF ReleaseAllocation
<1>1. /\ TypeOK /\ op \in Changes /\ UnderNow /\ FitNow(s) /\ op.at = "release"
      /\ UNCHANGED <<row, job, book, risk, tick, crashes>>
      /\ alloc' = [alloc EXCEPT ![s] = FALSE] /\ op' = AfterEffects
  BY <1>0, Underway DEF ReleaseAllocation
<1>2. InTickNow(s)'
  BY <1>0, <1>1, StillOut DEF InTickNow
<1>3. /\ alloc' \in [Strategies -> BOOLEAN] /\ ~alloc'[s]
      /\ \A v \in Strategies \ {s} : alloc'[v] = alloc[v]
  BY <1>1, Types
<1>4. TypeOK'
  BY <1>1, <1>3, NextStage DEF TypeOK
<1>5. \A v \in Strategies \ {s} : Same(v)
  BY <1>1, <1>3 DEF Same
<1>6. /\ ~job[s] /\ ~book[s].live
      /\ op.target \notin {"paper", "live"}
  BY <1>0, <1>1 DEF UnderNow, Under
<1>7. FitNow(s)'
  BY <1>1, <1>3, <1>6 DEF FitNow, Fit
<1>8. op' = NoOp \/ UnderNow'
  BY <1>0, <1>1, <1>3, <1>6, NextStage, StrategiesFinite
     DEF UnderNow, Under, DexChange, AdoptedChange
<1>9. QED
  BY <1>2, <1>4, <1>5, <1>7, <1>8, Step

LEMMA SetStatusKeeps ==
  ASSUME IInv, SetStatus
  PROVE  IInv'
<1>0. PICK s \in Strategies : s = op.s
  BY Underway DEF SetStatus
<1>1. /\ TypeOK /\ op \in Changes /\ UnderNow /\ FitNow(s) /\ op.at = "status"
      /\ row[s] \in Row /\ op.was \in Row
      /\ UNCHANGED <<alloc, job, book, risk, tick, crashes>>
      /\ row' = [row EXCEPT ![s].status = op.target]
      /\ (op' = [op EXCEPT !.at = "rebaseline"] \/ op' = NoOp)
  BY <1>0, Underway DEF SetStatus
<1>2. InTickNow(s)'
  BY <1>0, <1>1, StillOut DEF InTickNow
<1>3. s \in Dex /\ s \notin Adopted /\ DexChange(op, row[s], alloc[s], job[s], book[s])
  BY <1>0, <1>1, StrategiesFinite DEF UnderNow, Under, AdoptedChange, Strategies
<1>4. op.target \in {"inactive", "paper", "live", "archived"}
  <2>1. op.was.status \in Status
    BY <1>1 DEF Row
  <2>2. QED
    BY <1>3, <2>1 DEF DexChange, Transitions, Status
<1>5. /\ row' \in [Strategies -> Row] /\ row'[s].status = op.target
      /\ row'[s].monitor = row[s].monitor /\ \A v \in Strategies \ {s} : row'[v] = row[v]
  BY <1>1, <1>4, Types DEF Row, Status
<1>6. /\ op' \in Op
      /\ \/ op' = NoOp
         \/ /\ op'.s = op.s /\ op'.by = op.by /\ op'.target = op.target
            /\ op'.was = op.was /\ op'.prior = op.prior /\ op'.at = "rebaseline"
  BY <1>1, LaterStage DEF NoOp, Op
<1>7. TypeOK'
  BY <1>1, <1>5, <1>6 DEF TypeOK
<1>8. \A v \in Strategies \ {s} : Same(v)
  BY <1>1, <1>5 DEF Same
<1>9. op.target \notin {"paper", "live"} /\ book[s].live => row[s].monitor = "live"
  BY <1>0, <1>1 DEF UnderNow, Under
<1>10. FitNow(s)'
  BY <1>1, <1>3, <1>4, <1>5, <1>9 DEF FitNow, Fit, DexChange
<1>11. op' = NoOp \/ UnderNow'
  BY <1>0, <1>1, <1>3, <1>5, <1>6 DEF UnderNow, Under, DexChange
<1>12. QED
  BY <1>2, <1>7, <1>8, <1>10, <1>11, Step

LEMMA ReadBaselineKeeps ==
  ASSUME IInv, ReadBaseline
  PROVE  IInv'
<1>1. /\ TypeOK /\ op \in Changes /\ UnderNow /\ op.at = "rebaseline"
      /\ UNCHANGED <<row, alloc, job, book, risk, tick, crashes>>
      /\ op' = NoOp \/ op' = [op EXCEPT !.at = "write", !.hwm = BookValue]
  BY Underway DEF ReadBaseline
<1>2. BookValue \in Value /\ NoOp \in Op
  BY <1>1, Types, BookValueIsValue DEF NoOp, Op
<1>3. /\ op' \in Op
      /\ \/ op' = NoOp
         \/ /\ op'.s = op.s /\ op'.by = op.by /\ op'.target = op.target
            /\ op'.was = op.was /\ op'.prior = op.prior /\ op'.at = "write"
  BY <1>1, <1>2 DEF Changes, Op
<1>4. TypeOK'
  BY <1>1, <1>3 DEF TypeOK
<1>5. \A v \in Strategies : Same(v)
  BY <1>1 DEF Same
<1>6. op' = NoOp \/ UnderNow'
  BY <1>1, <1>3 DEF UnderNow, Under, DexChange, AdoptedChange
<1>7. QED
  BY <1>4, <1>5, <1>6, Step

LEMMA WriteBaselineKeeps ==
  ASSUME IInv, WriteBaseline
  PROVE  IInv'
<1>1. TypeOK /\ op \in Changes
  BY Underway DEF WriteBaseline
<1>2. risk' \in [hwm : Value, tripped : BOOLEAN]
  BY <1>1, Types DEF WriteBaseline, Changes
<1>3. UNCHANGED <<row, alloc, job, book, tick, crashes>> /\ op' = NoOp
  BY DEF WriteBaseline
<1>4. QED
  BY <1>2, <1>3, RiskKeeps

\* A change that fails half-way; only the activation of an adopted strategy takes its
\* status back, and exposure it may have is still monitored.
LEMMA ChangeFailsKeeps ==
  ASSUME IInv, ChangeFails
  PROVE  IInv'
<1>0. PICK s \in Strategies : s = op.s
  BY Underway DEF ChangeFails
<1>1. /\ TypeOK /\ op \in Changes /\ UnderNow /\ FitNow(s) /\ row[s] \in Row
      /\ UNCHANGED <<alloc, job, book, risk, tick, crashes>> /\ op' = NoOp
  BY <1>0, Underway DEF ChangeFails
<1>2. NoOp \in Op
  BY DEF NoOp, Op
<1>3. CASE row' = row
  BY <1>1, <1>3, Types, RiskKeeps
<1>4. CASE op.at = "effects" /\ s \in Adopted /\ op.target = "live"
           /\ row' = [row EXCEPT ![s].status = "inactive"]
  <2>1. /\ row' \in [Strategies -> Row] /\ row'[s].status = "inactive"
        /\ row'[s].monitor = row[s].monitor /\ \A v \in Strategies \ {s} : row'[v] = row[v]
    BY <1>1, <1>4, Types DEF Row, Status
  <2>2. TypeOK'
    BY <1>1, <1>2, <2>1 DEF TypeOK
  <2>3. \A v \in Strategies \ {s} : Same(v)
    BY <1>1, <2>1 DEF Same
  <2>4. book[s].live => row[s].monitor = "live"
    BY <1>0, <1>1, <1>4 DEF UnderNow, Under, AdoptedChange
  <2>5. FitNow(s)'
    BY <1>1, <1>4, <2>1, <2>4, StrategiesFinite DEF FitNow, Fit
  <2>6. InTickNow(s)'
    BY <1>0, <1>1, StillOut DEF InTickNow, ChangeFails
  <2>7. QED
    BY <1>1, <2>2, <2>3, <2>5, <2>6, Step
<1>5. QED
  BY <1>0, <1>3, <1>4 DEF ChangeFails

-----------------------------------------------------------------------------
(* The beginning of a change of status *)

\* A change begins: of a strategy whose tick is out of the way, while the tick that
\* asks for it, if one does, has no entry before it.
LEMMA BeginStep ==
  ASSUME IInv, TypeOK', NEW s \in Strategies,
         \A v \in Strategies \ {s} :
           /\ row'[v] = row[v] /\ alloc'[v] = alloc[v] /\ job'[v] = job[v] /\ book'[v] = book[v]
           /\ tick'[v] = tick[v] \/ InTick(tick'[v], row[v], job[v]),
         tick'[s].at \in {"idle", "pause"}, FitNow(s)', UnderNow'
  PROVE  IInv'
<1>1. InTickNow(s)'
  BY DEF InTickNow, InTick, MayEnter
<1>2. \A v \in Strategies \ {s} : FitNow(v)' /\ InTickNow(v)'
  BY DEF IInv, FitNow, InTickNow
<1>3. QED
  BY <1>1, <1>2, Step

LEMMA BeginUpdateKeeps ==
  ASSUME IInv, NEW s \in Strategies, NEW by \in Strategies \cup {"user"}, NEW target,
         BeginUpdate(s, target, by), tick' \in [Strategies -> Tick],
         tick'[s].at = "idle" \/ (by = s /\ tick'[s].at = "pause"),
         \A v \in Strategies \ {s} : tick'[v] = tick[v] \/ InTick(tick'[v], row[v], job[v])
  PROVE  IInv'
<1>1. /\ TypeOK /\ FitNow(s) /\ s \in Dex /\ s \notin Adopted /\ row[s] \in Row
      /\ alloc[s] \in BOOLEAN /\ target \in Transitions[row[s].status]
      /\ target = "live" => MayGoLive(s)
      /\ target = "paper" => MayGoPaper(s)
      /\ UNCHANGED <<row, job, book, risk, crashes>>
      /\ alloc' = [alloc EXCEPT ![s] = @ \/ target = "live"]
      /\ op' = [at |-> "upstream", s |-> s, by |-> by, target |-> target, was |-> row[s],
                prior |-> alloc[s], hwm |-> 0]
  BY Types, StrategiesFinite DEF IInv, BeginUpdate, RecordAllocation
<1>2. row[s].status \in Status /\ row[s].status # "absent"
  BY <1>1 DEF Row, FitNow, Fit
<1>3. /\ target \in {"inactive", "paper", "live", "archived"}
      /\ target = "live" => row[s].status # "live"
      /\ target = "paper" => row[s].status = "inactive"
  BY <1>1, <1>2 DEF Transitions, Status
<1>4. op' \in Op
  BY <1>1, <1>3, Numbers DEF Op, Status
<1>5. /\ alloc' \in [Strategies -> BOOLEAN]
      /\ alloc[s] => alloc'[s]
      /\ target = "live" => alloc'[s]
      /\ \A v \in Strategies \ {s} : alloc'[v] = alloc[v]
  <2>1. \A p \in BOOLEAN : (alloc[s] \/ p) \in BOOLEAN
    BY <1>1
  <2>2. QED
    BY <1>1, <2>1, Types
<1>6. TypeOK'
  BY <1>1, <1>4, <1>5 DEF TypeOK
<1>7. FitNow(s)'
  BY <1>1, <1>5 DEF FitNow, Fit
<1>8. /\ op'.at = "upstream" /\ op'.s = s /\ op'.by = by /\ op'.target = target
      /\ op'.was = row[s] /\ op'.prior = alloc[s]
  BY <1>1
<1>9. /\ target = "live" => row[s].monitor # "paper" /\ ~book[s].paper
      /\ target = "paper" => row[s].monitor # "live" /\ ~book[s].live
      /\ book[s].live => alloc[s]
  BY <1>1, <1>3 DEF MayGoLive, MayGoPaper, FitNow, Fit
<1>10. UnderNow'
  BY <1>1, <1>2, <1>5, <1>8, <1>9 DEF UnderNow, Under, DexChange
<1>11. tick'[s].at \in {"idle", "pause"}
  OBVIOUS
<1>12. QED
  BY <1>1, <1>5, <1>6, <1>7, <1>10, <1>11, BeginStep

LEMMA BeginStopKeeps ==
  ASSUME IInv, NEW s \in Strategies, NEW by \in Strategies \cup {"user"},
         BeginStop(s, by), tick' \in [Strategies -> Tick],
         tick'[s].at = "idle" \/ (by = s /\ tick'[s].at = "pause"),
         \A v \in Strategies \ {s} : tick'[v] = tick[v] \/ InTick(tick'[v], row[v], job[v])
  PROVE  IInv'
<1> DEFINE mode == MonitorMode(s, row[s])
<1>1. /\ TypeOK /\ FitNow(s) /\ s \in Adopted /\ s \notin Dex /\ row[s] \in Row
      /\ UNCHANGED <<alloc, job, book, risk, crashes>>
      /\ row' = [row EXCEPT ![s].status = "inactive", ![s].monitor = mode]
      /\ op' = [at |-> "effects", s |-> s, by |-> by, target |-> "inactive", was |-> row[s],
                prior |-> FALSE, hwm |-> 0]
  BY Types, StrategiesFinite DEF IInv, BeginStop
<1>2. /\ mode \in Monitor /\ mode # "paper"
      /\ mode = "live" => book[s].live /\ ~book[s].paper
      /\ mode = "none" => ~book[s].live
  BY <1>1, ModeFacts
<1>3. /\ row[s].monitor # "paper" /\ row[s].status # "paper"
      /\ book[s].live => row[s].status = "live" \/ row[s].monitor = "live"
  BY <1>1 DEF FitNow, Fit
<1> HIDE DEF mode
<1>4. /\ row' \in [Strategies -> Row] /\ row'[s].status = "inactive"
      /\ row'[s].monitor = mode /\ \A v \in Strategies \ {s} : row'[v] = row[v]
  BY <1>1, <1>2, Types DEF Row, Status
<1>5. op' \in Op
  BY <1>1, Numbers DEF Op, Status
<1>6. TypeOK'
  BY <1>1, <1>4, <1>5 DEF TypeOK
<1>7. mode = "live" \/ mode = "none"
  BY <1>2 DEF Monitor
<1>8. FitNow(s)'
  BY <1>1, <1>2, <1>4, <1>7 DEF FitNow, Fit
<1>9. /\ op'.at = "effects" /\ op'.s = s /\ op'.by = by /\ op'.target = "inactive"
      /\ op'.was = row[s]
  BY <1>1
<1>10. UnderNow'
  BY <1>1, <1>2, <1>3, <1>4, <1>7, <1>9 DEF UnderNow, Under, AdoptedChange
<1>11. tick'[s].at \in {"idle", "pause"}
  OBVIOUS
<1>12. QED
  BY <1>1, <1>4, <1>6, <1>8, <1>10, <1>11, BeginStep

LEMMA ActivateKeeps ==
  ASSUME IInv, NEW s \in Strategies, Activate(s)
  PROVE  IInv'
<1>1. /\ TypeOK /\ FitNow(s) /\ s \in Adopted /\ s \notin Dex /\ row[s] \in Row
      /\ tick[s].at = "idle" /\ row[s].status = "inactive"
      /\ UNCHANGED <<alloc, job, book, risk, tick, crashes>>
      /\ row' = [row EXCEPT ![s].status = "live"]
      /\ op' = [at |-> "effects", s |-> s, by |-> "user", target |-> "live", was |-> row[s],
                prior |-> FALSE, hwm |-> 0]
  BY Types, StrategiesFinite DEF IInv, Activate, TickLockFree
<1>2. /\ row' \in [Strategies -> Row] /\ row'[s].status = "live"
      /\ row'[s].monitor = row[s].monitor /\ \A v \in Strategies \ {s} : row'[v] = row[v]
  BY <1>1, Types DEF Row, Status
<1>3. op' \in Op
  BY <1>1, Numbers DEF Op, Status
<1>4. TypeOK'
  BY <1>1, <1>2, <1>3 DEF TypeOK
<1>5. FitNow(s)'
  BY <1>1, <1>2 DEF FitNow, Fit
<1>6. /\ op'.at = "effects" /\ op'.s = s /\ op'.target = "live" /\ op'.was = row[s]
  BY <1>1
<1>7. row[s].monitor # "paper" /\ (book[s].live => row[s].monitor = "live")
  BY <1>1 DEF FitNow, Fit
<1>8. UnderNow'
  BY <1>1, <1>2, <1>6, <1>7 DEF UnderNow, Under, AdoptedChange
<1>9. tick'[s].at \in {"idle", "pause"}
      /\ \A v \in Strategies \ {s} : tick'[v] = tick[v]
  BY <1>1
<1>10. QED
  BY <1>1, <1>2, <1>4, <1>5, <1>8, <1>9, BeginStep

LEMMA UserChangeKeeps ==
  ASSUME IInv, NEW s \in Strategies, UserStop(s) \/ \E target \in Requests : UserUpdate(s, target)
  PROVE  IInv'
<1>1. tick' = tick /\ tick' \in [Strategies -> Tick] /\ s # "user"
  BY Types, StrategiesFinite DEF IInv, UserStop, UserUpdate
<1>2. tick'[s].at = "idle"
  BY <1>1 DEF UserStop, UserUpdate, BeginUpdate, BeginStop, TickLockFree
<1>3. \A v \in Strategies \ {s} : tick'[v] = tick[v]
  BY <1>1
<1>4. "user" \in Strategies \cup {"user"}
  OBVIOUS
<1>5. CASE UserStop(s)
  BY <1>1, <1>2, <1>3, <1>4, <1>5, BeginStopKeeps DEF UserStop
<1>6. CASE \E target \in Requests : UserUpdate(s, target)
  BY <1>1, <1>2, <1>3, <1>4, <1>6, BeginUpdateKeeps DEF UserUpdate
<1>7. QED
  BY <1>5, <1>6

LEMMA ValidateFailsKeeps ==
  ASSUME IInv, NEW s \in Strategies, ValidateFails(s)
  PROVE  IInv'
<1>1. TypeOK /\ BeginStop(s, s) /\ Goes(s, Idle)
  BY DEF IInv, ValidateFails
<1>2. Idle \in Tick /\ Idle.at = "idle"
  BY Ticks DEF Idle
<1>3. /\ tick' \in [Strategies -> Tick] /\ tick'[s].at = "idle"
      /\ \A v \in Strategies \ {s} : tick'[v] = tick[v]
  BY <1>1, <1>2, TickGoes
<1>4. s \in Strategies \cup {"user"}
  OBVIOUS
<1>5. QED
  BY <1>1, <1>3, <1>4, BeginStopKeeps

LEMMA PauseOneKeeps ==
  ASSUME IInv, NEW s \in Strategies, NEW v \in Strategies, PauseOne(s, v)
  PROVE  IInv'
<1> DEFINE t == [tick[s] EXCEPT !.todo = @ \ {v}]
<1>1. TypeOK /\ tick[s] \in Tick /\ tick[s].at = "pause" /\ Goes(s, t)
      /\ (BeginUpdate(v, "inactive", s) \/ BeginStop(v, s))
  BY Types DEF IInv, PauseOne, Paused
<1>2. t \in Tick /\ t.at = "pause"
  BY <1>1 DEF Tick, TickPlaces
<1> HIDE DEF t
<1>3. /\ tick' \in [Strategies -> Tick] /\ tick'[s] = t
      /\ \A w \in Strategies \ {s} : tick'[w] = tick[w]
  BY <1>1, <1>2, TickGoes
<1>4. \A r, j : InTick(t, r, j)
  BY <1>2 DEF InTick, MayEnter
<1>5. v = s \/ tick[v].at = "idle"
  BY <1>1 DEF BeginUpdate, BeginStop, TickLockFree
<1>6. tick'[v].at = "idle" \/ (s = v /\ tick'[v].at = "pause")
  BY <1>2, <1>3, <1>5
<1>7. \A w \in Strategies \ {v} : tick'[w] = tick[w] \/ InTick(tick'[w], row[w], job[w])
  BY <1>3, <1>4
<1>8. s \in Strategies \cup {"user"}
  OBVIOUS
<1>9. CASE BeginUpdate(v, "inactive", s)
  BY <1>3, <1>6, <1>7, <1>8, <1>9, BeginUpdateKeeps
<1>10. CASE BeginStop(v, s)
  BY <1>3, <1>6, <1>7, <1>8, <1>10, BeginStopKeeps
<1>11. QED
  BY <1>1, <1>9, <1>10

-----------------------------------------------------------------------------
(* Theorems *)

LEMMA InitInv == Init => IInv
<1> SUFFICES ASSUME Init PROVE IInv
  OBVIOUS
<1>1. Idle \in Tick /\ Idle.at = "idle" /\ NoOp \in Op
  BY Ticks DEF Idle, NoOp, Op
<1>2. PICK lane \in [Dex -> Lane] :
        row = [s \in Strategies |->
                 [status |-> IF s \in Dex THEN "inactive" ELSE "absent", monitor |-> "none",
                  lane |-> IF s \in Dex THEN lane[s] ELSE "stateless", bind |-> "none"]]
  BY DEF Init
<1>3. row \in [Strategies -> Row]
  BY <1>2, StrategiesFinite DEF Row, Status, Monitor, Lane, Binding
<1>4. TypeOK
  BY <1>1, <1>3, Numbers DEF Init, TypeOK
<1>5. ASSUME NEW s \in Strategies PROVE FitNow(s) /\ InTickNow(s)
  <2>1. /\ row[s].monitor = "none" /\ (s \in Dex => row[s].status = "inactive")
        /\ (s \notin Dex => row[s].status = "absent")
    BY <1>2
  <2>2. ~book[s].live /\ ~book[s].paper /\ ~job[s] /\ tick[s] = Idle
    BY DEF Init
  <2>3. FitNow(s)
    BY <2>1, <2>2, StrategiesFinite DEF FitNow, Fit
  <2>4. InTickNow(s)
    BY <1>1, <2>2, EndOfTick DEF InTickNow
  <2>5. QED
    BY <2>3, <2>4
<1>6. op = NoOp
  BY DEF Init
<1>7. QED
  BY <1>4, <1>5, <1>6 DEF IInv

LEMMA TickStepKeeps ==
  ASSUME IInv, NEW s \in Strategies, TickStep(s)
  PROVE  IInv'
  BY CheckLatchKeeps, ReadBookKeeps, TripKeeps, AllowKeeps, PauseDoneKeeps,
     ValidateFailsKeeps, AskEntryKeeps, ExitKeeps, EnterKeeps, TickFailsKeeps,
     PaperTradeKeeps, ServerFillKeeps, FinishTickKeeps, FinishReleaseKeeps,
     FinishCancelKeeps, FinishRebaselineKeeps, PauseFailsKeeps, ListLiveKeeps
  DEF TickStep

LEMMA StatusStepKeeps ==
  ASSUME IInv, StatusStep \/ UpstreamFails \/ ChangeFails
  PROVE  IInv'
  BY UpstreamAcceptsKeeps, ApplySchedulerEffectsKeeps, RegisterMonitorKeeps,
     ReleaseAllocationKeeps, SetStatusKeeps, ReadBaselineKeeps, WriteBaselineKeeps,
     UpstreamFailsKeeps, ChangeFailsKeeps
  DEF StatusStep

LEMMA StrategyStepKeeps ==
  ASSUME IInv, NEW s \in Strategies,
         \/ StartLiveTick(s) \/ StartPaperTick(s) \/ StartServerTick(s) \/ TickStep(s)
         \/ PauseNext(s) \/ Adopt(s) \/ Configure(s) \/ Activate(s) \/ UserStop(s)
         \/ ReconcilePending(s)
         \/ \E target \in Requests : UserUpdate(s, target)
  PROVE  IInv'
  BY StartLiveTickKeeps, PaperTickStarts, TickStepKeeps, PauseOneKeeps, AdoptKeeps,
     ActivateKeeps, UserChangeKeeps, ReconcilePendingKeeps
  DEF PauseNext

LEMMA NextInv == IInv /\ [Next]_vars => IInv'
<1> SUFFICES ASSUME IInv, [Next]_vars PROVE IInv'
  OBVIOUS
<1>1. CASE Next
  BY <1>1, StatusStepKeeps, StrategyStepKeeps, ResetKeeps, CrashKeeps DEF Next
<1>2. CASE UNCHANGED vars
  BY <1>2 DEF vars, IInv, TypeOK, FitNow, InTickNow, UnderNow
<1>3. QED
  BY <1>1, <1>2

LEMMA Invariance == Spec => []IInv
  BY InitInv, NextInv, PTL DEF Spec

\* Every column, operation and tick keeps its type; the high-water mark and the book
\* value stay between all losses and all capital.
THEOREM TypeSafe == Spec => []TypeOK
<1>1. IInv => TypeOK
  BY DEF IInv
<1>2. QED
  BY <1>1, Invariance, PTL

\* Confirmed live exposure keeps its mode, its job and its allocation, through ticks
\* of any strategies, failed and half done changes of status, the kill switch and
\* crashes.
THEOREM MonitoredSafe == Spec => []MonitoredUntilFlat
<1>1. IInv => MonitoredUntilFlat
  BY DEF IInv, MonitoredUntilFlat, FitNow, Fit, InBook
<1>2. QED
  BY <1>1, Invariance, PTL

\* No strategy ever has paper and live exposure at once.
THEOREM ApartSafe == Spec => []PaperAndLiveApart
<1>1. IInv => PaperAndLiveApart
  BY DEF IInv, PaperAndLiveApart, FitNow, Fit
<1>2. QED
  BY <1>1, Invariance, PTL

=============================================================================
