------------------------- MODULE PaperScheduleProofs -------------------------
(***************************************************************************)
(* Theorems of PaperSchedule, for any number of callers, requests and      *)
(* slots and any limit.  The invariant says that nothing runs while a      *)
(* start is out, that the tick that asks the server is the one the row has *)
(* claimed, and that the counter covers what was or may be evaluated.      *)
(***************************************************************************)
EXTENDS PaperSchedule, FiniteSetTheorems, TLAPS

\* Requests are numbered as they are drawn.
Bounded ==
  /\ row.request # None => row.request <= drawn
  /\ row.run # None => row.run <= drawn
  /\ \A e \in server.evaluated : e[1] <= drawn

Evaluations(r) == {e \in server.evaluated : e[1] = r}

\* A start that is out, or whose outcome is unknown, is the last thing that was
\* asked for, and nothing runs: not the old run and not yet the new one.
Starting ==
  row.state \in {"starting", "start_uncertain"} =>
    /\ row.request # None /\ wish = row.request
    /\ tick = Idle /\ row.pending = None /\ row.evaluations = 0
    /\ row.run # row.request /\ Evaluations(row.request) = {}

\* A row that may evaluate, or evaluate again once recovered, is under the last start.
Running == row.state \in {"active", "attention"} => wish # None /\ row.run = wish

Known == row.state # "absent" => row.request # None

\* The tick that waits for the server asks for the slot the row has claimed.
Sent == tick.at = "sent" => tick.was.run = row.run /\ tick.slot = row.pending

Claimed == row.pending # None => row.run # None

Out == IF row.pending = None THEN {} ELSE {<<row.run, row.pending>>}

\* While the run may be evaluated, the counter covers what was, or may be.
Counted ==
  row.state \in {"active", "attention"} \/ row.pending # None =>
    Cardinality(Evaluations(row.run) \cup Out) <= row.evaluations

IInv == /\ TypeOK /\ Bounded /\ Starting /\ Running /\ Known /\ Sent /\ Claimed /\ Counted
        /\ EvaluationsAccounted /\ WithinLimit

-----------------------------------------------------------------------------
(* Shapes *)

LEMMA Nulls == None \notin Slot /\ None \notin Request /\ Request \subseteq Nat /\ Limit \in Nat
  BY ScheduleAssumption DEF Slot, Request

LEMMA RowShape ==
  ASSUME TypeOK
  PROVE  /\ row.state \in State /\ row.request \in Request \cup {None}
         /\ row.run \in Request \cup {None} /\ row.evaluations \in 0..Limit
         /\ row.pending \in Slot \cup {None} /\ row.last \in Slot \cup {None}
         /\ row = [state |-> row.state, request |-> row.request, run |-> row.run,
                   evaluations |-> row.evaluations, pending |-> row.pending, last |-> row.last]
  BY DEF TypeOK, Row

LEMMA TickShape ==
  ASSUME TypeOK
  PROVE  /\ tick.at \in {"idle", "submitted", "sent"}
         /\ tick.at = "idle" <=> tick = Idle
         /\ tick.at # "idle" => tick.recovery \in BOOLEAN
         /\ tick.at = "sent" => tick.was \in Row /\ tick.slot \in Slot
  BY DEF TypeOK, Tick, Idle

LEMMA CallShape ==
  ASSUME TypeOK, NEW c \in Callers, call[c] # NoCall
  PROVE  call[c] \in [kind : {"start", "pause"}, request : Request,
                      answer : {"none", "ok", "rejected", "lost"}]
  BY DEF TypeOK, Call

\* The counts below are counts of finite sets.
LEMMA Finite ==
  ASSUME TypeOK, NEW r
  PROVE  IsFiniteSet(Evaluations(r)) /\ IsFiniteSet(Out)
<1>1. IsFiniteSet(Request) /\ IsFiniteSet(Slot)
  BY FS_Interval, ScheduleAssumption DEF Request, Slot
<1>2. IsFiniteSet(Request \X Slot)
  BY <1>1, FS_Product
<1>3. Evaluations(r) \subseteq Request \X Slot
  BY DEF TypeOK, Evaluations
<1>4. IsFiniteSet(Out)
  BY FS_Singleton, FS_EmptySet DEF Out
<1> QED
  BY <1>2, <1>3, <1>4, FS_Subset

-----------------------------------------------------------------------------
LEMMA InitInv == Init => IInv
<1> SUFFICES ASSUME Init PROVE IInv
  OBVIOUS
<1> USE ScheduleAssumption
<1>1. TypeOK
  BY DEF Init, TypeOK, Row, State, Call, Tick, Slot
<1>2. Bounded /\ Starting /\ Running /\ Known /\ Sent /\ Claimed /\ EvaluationsAccounted
  BY DEF Init, Bounded, Starting, Running, Known, Sent, Claimed, EvaluationsAccounted, Idle
<1>3. Counted
  BY DEF Init, Counted
<1>4. WithinLimit
  BY FS_EmptySet DEF Init, WithinLimit
<1> QED
  BY <1>1, <1>2, <1>3, <1>4 DEF IInv

\* A step that leaves run, claim and counter, and what the server evaluated,
\* and lets no row run that did not.
LEMMA CountsStay ==
  ASSUME IInv, row'.run = row.run, row'.pending = row.pending,
         row'.evaluations = row.evaluations, server'.evaluated = server.evaluated,
         row'.state \in {"active", "attention"} /\ row.pending = None =>
           row.state \in {"active", "attention"}
  PROVE  Counted' /\ WithinLimit'
<1>1. Evaluations(row.run)' = Evaluations(row.run) /\ Out' = Out
  BY DEF Evaluations, Out
<1>2. Counted'
  BY <1>1 DEF IInv, Counted
<1>3. WithinLimit'
  BY DEF IInv, WithinLimit
<1> QED
  BY <1>2, <1>3

\* A step that leaves row and server.
LEMMA RowStays ==
  ASSUME IInv, UNCHANGED <<row, server, drawn, wish>>, TypeOK',
         tick' # Idle => row.state \notin {"starting", "start_uncertain"},
         tick'.at = "sent" => tick = tick'
  PROVE  IInv'
<1>1. Bounded' /\ Running' /\ Known' /\ Claimed' /\ EvaluationsAccounted'
  BY DEF IInv, Bounded, Running, Known, Claimed, EvaluationsAccounted
<1>2. Starting'
  BY DEF IInv, Starting, Evaluations
<1>3. Sent'
  BY DEF IInv, Sent
<1> QED
  BY <1>1, <1>2, <1>3, CountsStay DEF IInv

-----------------------------------------------------------------------------
(* start and pause *)

LEMMA StartKeeps ==
  ASSUME IInv, NEW c \in Callers, Start(c)
  PROVE  IInv'
<1> USE Nulls, RowShape DEF IInv
<1>1. /\ tick = Idle /\ row.pending = None /\ UNCHANGED <<tick, now, server>>
      /\ row.state \in {"absent", "starting", "start_uncertain", "start_rejected", "paused",
                        "exhausted"}
      /\ wish' = row'.request
      /\ call' = [call EXCEPT ![c] = [kind |-> "start", request |-> row'.request,
                                      answer |-> "none"]]
  BY DEF Start, MayRestart
<1>2. CASE row.state \in {"starting", "start_uncertain"}
  <2>1. row' = [row EXCEPT !.state = "starting"] /\ drawn' = drawn
    BY <1>2 DEF Start
  <2>2. row.request \in Request
    BY <1>2 DEF Starting
  <2>3. row' \in Row /\ row'.state = "starting" /\ row'.request = row.request /\ row'.run = row.run
        /\ row'.pending = None /\ row'.evaluations = row.evaluations
    BY <1>1, <2>1 DEF Row, State
  <2>4. TypeOK'
    BY <1>1, <2>1, <2>2, <2>3 DEF TypeOK, Call
  <2>5. Bounded' /\ Running' /\ Known' /\ Sent' /\ Claimed' /\ EvaluationsAccounted'
    BY <1>1, <2>1, <2>2, <2>3
       DEF Bounded, Running, Known, Sent, Claimed, EvaluationsAccounted, Idle
  <2>6. Starting'
    BY <1>1, <1>2, <2>3 DEF Starting, Evaluations
  <2>7. Counted' /\ WithinLimit'
    BY <1>1, <2>3, CountsStay
  <2> QED
    BY <2>4, <2>5, <2>6, <2>7
<1>3. CASE row.state \notin {"starting", "start_uncertain"}
  <2>1. /\ drawn < MaxRequests /\ drawn' = drawn + 1
        /\ row' = [row EXCEPT !.state = "starting", !.request = drawn', !.evaluations = 0,
                              !.pending = None, !.last = None]
    BY <1>3 DEF Start, Draw
  <2>2. drawn \in Nat /\ drawn' \in Request /\ drawn' \in 0..MaxRequests
    BY <2>1, ScheduleAssumption DEF TypeOK, Request
  <2>3. row' \in Row /\ row'.state = "starting" /\ row'.request = drawn' /\ row'.run = row.run
        /\ row'.pending = None /\ row'.evaluations = 0
    <3>1. row' = [state |-> "starting", request |-> drawn', run |-> row.run,
                  evaluations |-> 0, pending |-> None, last |-> None]
      BY <2>1
    <3>2. 0 \in 0..Limit /\ "starting" \in State
      BY DEF State
    <3> QED
      BY <2>2, <3>1, <3>2 DEF Row
  <2>4. TypeOK'
    BY <1>1, <2>2, <2>3 DEF TypeOK, Call
  <2>5. \A e \in server.evaluated : e[1] \in Nat /\ e[1] <= drawn
    BY DEF TypeOK, Bounded
  <2>6. Bounded'
    BY <1>1, <2>1, <2>2, <2>3, <2>5 DEF Bounded
  <2>7. Starting'
    <3>1. row.run # drawn'
      BY <2>1, <2>2 DEF Bounded
    <3>2. Evaluations(drawn') = {}
      BY <2>1, <2>2, <2>5 DEF Evaluations
    <3> QED
      BY <1>1, <2>2, <2>3, <3>1, <3>2 DEF Starting, Evaluations
  <2>8. Running' /\ Known' /\ Sent' /\ Claimed' /\ EvaluationsAccounted'
    BY <1>1, <2>2, <2>3 DEF Running, Known, Sent, Claimed, EvaluationsAccounted, Idle
  <2>9. Counted' /\ WithinLimit'
    BY <1>1, <2>3 DEF Counted, WithinLimit
  <2> QED
    BY <2>4, <2>6, <2>7, <2>8, <2>9
<1> QED
  BY <1>2, <1>3

\* The row runs under the start it waited for; nothing of that run is evaluated yet.
LEMMA ActivatedKeeps ==
  ASSUME IInv, NEW c \in Callers, StillMine(c), row' = Activated(c), TypeOK',
         UNCHANGED <<drawn, tick, now, server, wish>>
  PROVE  IInv'
<1> USE Nulls, RowShape DEF IInv
<1>1. /\ call[c].request = row.request /\ row.state = "starting"
      /\ wish = row.request /\ tick = Idle /\ row.pending = None /\ row.evaluations = 0
      /\ Evaluations(row.request) = {} /\ row.request \in Request
  BY DEF StillMine, Starting
<1>2. /\ row'.state = "active" /\ row'.run = row.request /\ row'.request = row.request
      /\ row'.pending = None /\ row'.evaluations = 0
  BY <1>1 DEF Activated
<1>3. Bounded' /\ Starting' /\ Running' /\ Known' /\ Sent' /\ Claimed'
  BY <1>1, <1>2 DEF Bounded, Starting, Running, Known, Sent, Claimed, Idle
<1>4. EvaluationsAccounted'
  <2>1. server.evaluated \ server.acked = {}
    <3> SUFFICES ASSUME NEW e \in server.evaluated \ server.acked PROVE FALSE
      OBVIOUS
    <3>1. e = <<row.run, None>>
      BY <1>1 DEF EvaluationsAccounted
    <3>2. e \in Request \X Slot
      BY DEF TypeOK
    <3> QED
      BY <3>1, <3>2
  <2> QED
    BY <2>1 DEF EvaluationsAccounted
<1>5. Counted'
  <2>1. Evaluations(row.run)' = {} /\ Out' = {}
    BY <1>1, <1>2 DEF Evaluations, Out
  <2>2. (Evaluations(row.run) \cup Out)' = {}
    BY <2>1
  <2>3. Cardinality((Evaluations(row.run) \cup Out)') = 0
    BY <2>2, FS_EmptySet
  <2> QED
    BY <1>2, <2>3 DEF Counted
<1>6. WithinLimit'
  BY DEF WithinLimit
<1> QED
  BY <1>3, <1>4, <1>5, <1>6

LEMMA StartAnsweredKeeps ==
  ASSUME IInv, NEW c \in Callers, StartAnswered(c)
  PROVE  IInv'
<1> USE Nulls, RowShape
<1>1. /\ call[c] # NoCall /\ call' = [call EXCEPT ![c] = NoCall]
      /\ UNCHANGED <<drawn, tick, now, server, wish>>
  BY DEF StartAnswered
<1>2. call[c].request \in Request
  BY <1>1, CallShape DEF IInv
<1>3. call' \in [Callers -> Call]
  BY <1>1 DEF IInv, TypeOK, Call
<1>4. CASE row' = row
  <2>1. TypeOK'
    BY <1>1, <1>3, <1>4 DEF IInv, TypeOK
  <2> QED
    BY <1>1, <1>4, <2>1, RowStays DEF IInv, Starting, Sent
<1>5. CASE StillMine(c) /\ row' = Activated(c)
  <2>1. row' \in Row
    BY <1>2, <1>5 DEF Activated, Row, State, IInv
  <2>2. TypeOK'
    BY <1>1, <1>3, <2>1 DEF IInv, TypeOK
  <2> QED
    BY <1>1, <1>5, <2>2, ActivatedKeeps
<1>6. ASSUME NEW s \in {"start_rejected", "start_uncertain"},
             StillMine(c), row' = [row EXCEPT !.state = s]
      PROVE  IInv'
  <2>1. /\ row' \in Row /\ row'.state = s /\ row'.request = row.request /\ row'.run = row.run
        /\ row'.pending = row.pending /\ row'.evaluations = row.evaluations
    BY <1>6 DEF Row, State, IInv
  <2>2. TypeOK'
    BY <1>1, <1>3, <2>1 DEF IInv, TypeOK
  <2>3. row.state = "starting"
    BY <1>6 DEF StillMine
  <2>4. Bounded' /\ Running' /\ Known' /\ Sent' /\ Claimed' /\ EvaluationsAccounted'
    BY <1>1, <2>1, <2>3
       DEF IInv, Bounded, Running, Known, Sent, Claimed, EvaluationsAccounted
  <2>5. Starting'
    BY <1>1, <2>1, <2>3 DEF IInv, Starting, Evaluations
  <2>6. Counted' /\ WithinLimit'
    BY <1>1, <2>1, CountsStay
  <2> QED
    BY <2>2, <2>4, <2>5, <2>6 DEF IInv
<1> QED
  BY <1>4, <1>5, <1>6 DEF StartAnswered

\* A step that takes the row to a state that is not running, and counts nothing.
LEMMA StateOnly ==
  ASSUME IInv, NEW s \in {"attention", "pausing", "paused", "exhausted"},
         row'.state = s, row' \in Row, TypeOK',
         row'.run = row.run, row'.pending = row.pending, row'.evaluations = row.evaluations,
         row'.request # None, row'.request <= drawn',
         drawn \in Nat, drawn' \in Nat, drawn <= drawn',
         s = "attention" => row.state \in {"active", "attention"} /\ wish' = wish,
         tick'.at = "sent" => tick' = tick, server' = server
  PROVE  IInv'
<1> USE Nulls, RowShape
<1>1. \A e \in server.evaluated : e[1] \in Nat
  BY DEF IInv, TypeOK
<1>2. Bounded'
  BY <1>1 DEF IInv, Bounded
<1>3. Starting' /\ Running' /\ Known' /\ Claimed' /\ EvaluationsAccounted'
  BY DEF IInv, Starting, Running, Known, Claimed, EvaluationsAccounted
<1>4. Sent'
  BY DEF IInv, Sent
<1>5. Counted' /\ WithinLimit'
  BY CountsStay
<1> QED
  BY <1>2, <1>3, <1>4, <1>5 DEF IInv

LEMMA PauseKeeps ==
  ASSUME IInv, NEW c \in Callers, Pause(c)
  PROVE  IInv'
<1> USE Nulls, RowShape
<1>1. /\ row.state # "absent" /\ UNCHANGED <<tick, now, server>> /\ wish' = None
      /\ call' = [call EXCEPT ![c] = [kind |-> "pause", request |-> row'.request,
                                      answer |-> "none"]]
  BY DEF Pause
<1>2. drawn \in Nat /\ row.request \in Request
  BY <1>1 DEF IInv, TypeOK, Known
<1>3. CASE row.state = "pausing"
  <2>1. row' = row /\ drawn' = drawn
    BY <1>3 DEF Pause
  <2>2. TypeOK'
    BY <1>1, <1>2, <2>1 DEF IInv, TypeOK, Call
  <2>3. row' \in Row /\ row.request <= drawn
    BY <1>2, <2>1 DEF IInv, TypeOK, Bounded
  <2> QED
    BY <1>1, <1>2, <1>3, <2>1, <2>2, <2>3, StateOnly DEF IInv
<1>4. CASE row.state # "pausing"
  <2>1. /\ drawn < MaxRequests /\ drawn' = drawn + 1
        /\ row' = [row EXCEPT !.state = "pausing", !.request = drawn']
    BY <1>4 DEF Pause, Draw
  <2>2. drawn' \in Request /\ drawn' \in 0..MaxRequests
    BY <1>2, <2>1, ScheduleAssumption DEF Request
  <2>3. /\ row' \in Row /\ row'.state = "pausing" /\ row'.request = drawn' /\ row'.run = row.run
        /\ row'.pending = row.pending /\ row'.evaluations = row.evaluations
    BY <2>1, <2>2 DEF Row, State, IInv
  <2>4. TypeOK'
    BY <1>1, <2>2, <2>3 DEF IInv, TypeOK, Call
  <2>5. drawn <= drawn' /\ drawn' \in Nat /\ drawn' # None
    BY <1>2, <2>1, <2>2
  <2> QED
    BY <1>1, <1>2, <2>3, <2>4, <2>5, StateOnly
<1> QED
  BY <1>3, <1>4

LEMMA PauseAnsweredKeeps ==
  ASSUME IInv, NEW c \in Callers, PauseAnswered(c)
  PROVE  IInv'
<1> USE Nulls, RowShape
<1>1. /\ call' = [call EXCEPT ![c] = NoCall]
      /\ UNCHANGED <<drawn, tick, now, server, wish>>
  BY DEF PauseAnswered
<1>2. call' \in [Callers -> Call]
  BY <1>1 DEF IInv, TypeOK, Call
<1>3. CASE row' = row
  <2>1. TypeOK'
    BY <1>1, <1>2, <1>3 DEF IInv, TypeOK
  <2> QED
    BY <1>1, <1>3, <2>1, RowStays DEF IInv, Starting, Sent
<1>4. CASE row.state = "pausing" /\ row' = [row EXCEPT !.state = "paused"]
  <2>1. /\ row' \in Row /\ row'.state = "paused" /\ row'.request = row.request
        /\ row'.run = row.run /\ row'.pending = row.pending
        /\ row'.evaluations = row.evaluations
    BY <1>4 DEF Row, State, IInv
  <2>2. TypeOK'
    BY <1>1, <1>2, <2>1 DEF IInv, TypeOK
  <2>3. row.request # None /\ row.request <= drawn /\ drawn \in Nat /\ drawn <= drawn
    BY <1>4 DEF IInv, Known, Bounded, TypeOK
  <2> QED
    BY <1>1, <2>1, <2>2, <2>3, StateOnly
<1> QED
  BY <1>3, <1>4 DEF PauseAnswered

-----------------------------------------------------------------------------
(* dispatch, tick, reconcile *)

LEMMA SubmitKeeps ==
  ASSUME IInv, Dispatch \/ Reconcile
  PROVE  IInv'
<1>1. /\ UNCHANGED <<row, drawn, call, now, server, wish>>
      /\ row.state \in {"active", "attention", "paused", "pausing"}
      /\ \E r \in BOOLEAN : tick' = [at |-> "submitted", recovery |-> r]
  BY DEF Dispatch, Reconcile
<1>2. TypeOK'
  BY <1>1 DEF IInv, TypeOK, Tick
<1>3. tick'.at # "sent"
  BY <1>1
<1> QED
  BY <1>1, <1>2, <1>3, RowStays

\* The tick ends, or asks for the slot that is out.
LEMMA ClaimedBeforeKeeps ==
  ASSUME IInv, tick.at = "submitted", UNCHANGED <<row, drawn, call, now, server, wish>>,
         \/ tick' = Idle
         \/ /\ Wanted /\ row.pending # None
            /\ tick' = [at |-> "sent", recovery |-> tick.recovery, was |-> row, slot |-> Due,
                        answer |-> "none"]
  PROVE  IInv'
<1> USE Nulls, RowShape
<1>1. TypeOK'
  <2>1. tick' \in Tick
    BY TickShape DEF IInv, TypeOK, Tick, Due
  <2> QED
    BY <2>1 DEF IInv, TypeOK
<1>2. CASE tick' = Idle
  BY <1>1, <1>2, RowStays DEF Idle
<1>3. CASE /\ Wanted /\ row.pending # None
           /\ tick' = [at |-> "sent", recovery |-> tick.recovery, was |-> row, slot |-> Due,
                       answer |-> "none"]
  <2>1. tick'.was = row /\ tick'.slot = row.pending
    BY <1>3 DEF Due
  <2>2. row.state \notin {"starting", "start_uncertain"}
    BY <1>3 DEF Wanted
  <2>3. Bounded' /\ Starting' /\ Running' /\ Known' /\ Sent' /\ Claimed' /\ EvaluationsAccounted'
    BY <2>1, <2>2
       DEF IInv, Bounded, Starting, Running, Known, Sent, Claimed, EvaluationsAccounted
  <2> QED
    BY <1>1, <2>3, CountsStay DEF IInv
<1> QED
  BY <1>2, <1>3

\* A new slot: the claim is counted before the server is asked.
LEMMA ClaimSlotKeeps ==
  ASSUME IInv, tick.at = "submitted", UNCHANGED <<drawn, call, now, server, wish>>,
         Wanted, row.pending = None, ~Spent,
         row' = [row EXCEPT !.pending = now, !.evaluations = @ + 1],
         tick' = [at |-> "sent", recovery |-> tick.recovery, was |-> row, slot |-> Due,
                  answer |-> "none"]
  PROVE  IInv'
<1> USE Nulls, RowShape DEF IInv
<1>1. row.state = "active" /\ now \in Slot /\ Due = now
  BY TickShape DEF Wanted, Due, TypeOK
<1>2. row.evaluations \in Nat /\ row.evaluations + 1 \in 0..Limit
  BY DEF Spent
<1>3. /\ row' \in Row /\ row'.state = "active" /\ row'.request = row.request
      /\ row'.run = row.run /\ row'.pending = now /\ row'.evaluations = row.evaluations + 1
  BY <1>1, <1>2 DEF Row
<1>4. TypeOK'
  <2>1. tick' \in Tick
    BY <1>1, TickShape DEF TypeOK, Tick
  <2> QED
    BY <1>3, <2>1 DEF TypeOK
<1>5. row.run # None /\ row.run = wish
  BY <1>1 DEF Running
<1>6. Bounded' /\ Starting' /\ Running' /\ Known' /\ Sent' /\ Claimed'
  BY <1>1, <1>3, <1>5 DEF Bounded, Starting, Running, Known, Sent, Claimed
<1>7. EvaluationsAccounted'
  <2>1. server.evaluated \ server.acked = {}
    <3> SUFFICES ASSUME NEW e \in server.evaluated \ server.acked PROVE FALSE
      OBVIOUS
    <3>1. e = <<row.run, None>>
      BY DEF EvaluationsAccounted
    <3>2. e \in Request \X Slot
      BY DEF TypeOK
    <3> QED
      BY <3>1, <3>2
  <2> QED
    BY <2>1 DEF EvaluationsAccounted
<1>8. Counted'
  <2> DEFINE it == <<row.run, now>>
             E == Evaluations(row.run)
  <2>1. IsFiniteSet(E) /\ (Evaluations(row.run) \cup Out)' = E \cup {it}
    BY <1>1, <1>3, Finite DEF Evaluations, Out
  <2>2. Cardinality(E) <= row.evaluations
    <3>1. Evaluations(row.run) \cup Out = E
      BY DEF Out
    <3> QED
      BY <1>1, <3>1 DEF Counted
  <2>3. Cardinality(E) \in Nat /\ Cardinality(E \cup {it}) \in {Cardinality(E), Cardinality(E) + 1}
    BY <2>1, FS_AddElement, FS_CardinalityType
  <2> HIDE DEF E, it
  <2>4. Cardinality(E \cup {it}) <= row'.evaluations
    BY <1>2, <1>3, <2>2, <2>3
  <2>5. Cardinality((Evaluations(row.run) \cup Out)') = Cardinality(E \cup {it})
    BY <2>1
  <2> QED
    BY <2>4, <2>5 DEF Counted
<1>9. WithinLimit'
  BY DEF WithinLimit
<1> QED
  BY <1>4, <1>6, <1>7, <1>8, <1>9

LEMMA ClaimKeeps ==
  ASSUME IInv, Claim
  PROVE  IInv'
<1> USE Nulls, RowShape
<1>1. tick.at = "submitted" /\ UNCHANGED <<drawn, call, now, server, wish>>
  BY DEF Claim
<1>2. CASE ~Wanted
  BY <1>1, <1>2, ClaimedBeforeKeeps DEF Claim
<1>3. CASE Wanted /\ row.pending = None /\ Spent
  <2>1. tick' = Idle /\ row' = [row EXCEPT !.state = "exhausted"]
    BY <1>3 DEF Claim
  <2>2. /\ row' \in Row /\ row'.state = "exhausted" /\ row'.request = row.request
        /\ row'.run = row.run /\ row'.pending = row.pending
        /\ row'.evaluations = row.evaluations
    BY <2>1 DEF Row, State, IInv
  <2>3. TypeOK'
    BY <1>1, <2>1, <2>2 DEF IInv, TypeOK, Tick
  <2>4. row.request # None /\ row.request <= drawn /\ drawn \in Nat /\ drawn <= drawn
    BY <1>3 DEF IInv, Known, Bounded, TypeOK, Wanted
  <2>5. tick'.at # "sent"
    BY <2>1 DEF Idle
  <2> QED
    BY <1>1, <2>2, <2>3, <2>4, <2>5, StateOnly
<1>4. CASE Wanted /\ row.pending = None /\ ~Spent
  BY <1>1, <1>4, ClaimSlotKeeps DEF Claim
<1>5. CASE Wanted /\ row.pending # None
  BY <1>1, <1>5, ClaimedBeforeKeeps DEF Claim
<1> QED
  BY <1>2, <1>3, <1>4, <1>5

\* The answer is for the claim of the row, and is taken into account.
LEMMA EvaluatedKeeps ==
  ASSUME IInv, Evaluated
  PROVE  IInv'
<1> USE Nulls, RowShape DEF IInv
<1>1. tick.at = "sent" /\ tick' = Idle /\ UNCHANGED <<drawn, call, now, wish>>
  BY DEF Evaluated
<1>2. tick.slot \in Slot /\ row.pending = tick.slot /\ row.run = tick.was.run
  BY <1>1, TickShape DEF Sent
<1>3. row.run \in Request
  BY <1>2 DEF Claimed
<1>4. /\ row' = [row EXCEPT !.pending = None, !.last = tick.slot, !.state = AfterEvaluation]
      /\ server' = [server EXCEPT !.acked = @ \cup {<<row.run, tick.slot>>}]
  BY <1>2 DEF Evaluated
<1>5. AfterEvaluation = row.state \/ (AfterEvaluation = "active" /\ row.state = "attention")
  BY DEF AfterEvaluation
<1>6. /\ row' \in Row /\ row'.request = row.request /\ row'.run = row.run
      /\ row'.pending = None /\ row'.evaluations = row.evaluations
      /\ row'.state = row.state \/ (row'.state = "active" /\ row.state = "attention")
  BY <1>2, <1>4, <1>5 DEF Row, State
<1>7. server'.evaluated = server.evaluated
      /\ server'.acked = server.acked \cup {<<row.run, row.pending>>}
  BY <1>2, <1>4 DEF TypeOK
<1>8. TypeOK'
  <2>1. server' \in [run : Request \cup {None}, open : BOOLEAN,
                     evaluated : SUBSET (Request \X Slot), acked : SUBSET (Request \X Slot)]
    BY <1>2, <1>3, <1>4 DEF TypeOK
  <2> QED
    BY <1>1, <1>6, <2>1 DEF TypeOK, Tick
<1>9. Bounded' /\ Running' /\ Known' /\ Sent' /\ Claimed'
  BY <1>1, <1>6, <1>7 DEF Bounded, Running, Known, Sent, Claimed, Idle
<1>10. Starting'
  BY <1>1, <1>2, <1>6 DEF Starting
<1>11. EvaluationsAccounted'
  BY <1>6, <1>7 DEF EvaluationsAccounted
<1>12. Counted'
  <2> DEFINE all == Evaluations(row.run) \cup Out
             E == Evaluations(row.run)
  <2>1. (Evaluations(row.run) \cup Out)' = E
    BY <1>6, <1>7 DEF Evaluations, Out
  <2>2. IsFiniteSet(all) /\ E \subseteq all
    BY Finite, FS_Union
  <2>3. Cardinality(E) \in Nat /\ Cardinality(all) \in Nat /\ Cardinality(E) <= Cardinality(all)
    BY <2>2, FS_Subset, FS_CardinalityType
  <2>4. Cardinality(all) <= row.evaluations
    BY <1>2 DEF Counted
  <2> HIDE DEF all, E
  <2>5. Cardinality(E) <= row'.evaluations
    BY <1>6, <2>3, <2>4
  <2>6. Cardinality((Evaluations(row.run) \cup Out)') = Cardinality(E)
    BY <2>1
  <2> QED
    BY <2>5, <2>6 DEF Counted
<1>13. WithinLimit'
  BY <1>7 DEF WithinLimit
<1> QED
  BY <1>8, <1>9, <1>10, <1>11, <1>12, <1>13

LEMMA EvaluationFailsKeeps ==
  ASSUME IInv, EvaluationFails
  PROVE  IInv'
<1> USE Nulls, RowShape
<1>1. tick' = Idle /\ tick'.at # "sent" /\ UNCHANGED <<drawn, call, now, server, wish>>
  BY DEF EvaluationFails, Idle
<1>2. CASE row.state = "active"
  <2>1. row' = [row EXCEPT !.state = "attention"]
    BY <1>2 DEF EvaluationFails
  <2>2. /\ row' \in Row /\ row'.state = "attention" /\ row'.request = row.request
        /\ row'.run = row.run /\ row'.pending = row.pending
        /\ row'.evaluations = row.evaluations
    BY <2>1 DEF Row, State, IInv
  <2>3. TypeOK'
    BY <1>1, <2>2 DEF IInv, TypeOK, Tick
  <2>4. row.request # None /\ row.request <= drawn /\ drawn \in Nat /\ drawn <= drawn
    BY <1>2 DEF IInv, Known, Bounded, TypeOK
  <2> QED
    BY <1>1, <1>2, <2>2, <2>3, <2>4, StateOnly
<1>3. CASE row.state # "active"
  <2>1. row' = row
    BY <1>3 DEF EvaluationFails
  <2>2. TypeOK'
    BY <1>1, <2>1 DEF IInv, TypeOK, Tick
  <2> QED
    BY <1>1, <2>1, <2>2, RowStays
<1> QED
  BY <1>2, <1>3

-----------------------------------------------------------------------------
(* The server *)

\* A start or a pause at the server evaluates nothing.
LEMMA ServerCallKeeps ==
  ASSUME IInv, NEW c \in Callers, ServerStart(c) \/ ServerPause(c)
  PROVE  IInv'
<1> USE Nulls, RowShape
<1>1. UNCHANGED <<row, drawn, tick, now, wish>> /\ call[c] # NoCall
  BY DEF ServerStart, ServerPause
<1>2. \E a \in {"ok", "rejected", "lost"} : call' = [call EXCEPT ![c].answer = a]
  BY DEF ServerStart, ServerPause
<1>3. call' \in [Callers -> Call]
  BY <1>1, <1>2, CallShape DEF IInv, TypeOK, Call
<1>4. call[c].request \in Request
  BY <1>1, CallShape DEF IInv
<1>5. \/ server' = server
      \/ server' = [server EXCEPT !.run = call[c].request, !.open = TRUE]
      \/ server' = [server EXCEPT !.open = FALSE]
  BY DEF ServerStart, ServerPause
<1>6. /\ server'.evaluated = server.evaluated /\ server'.acked = server.acked
      /\ server' \in [run : Request \cup {None}, open : BOOLEAN,
                      evaluated : SUBSET (Request \X Slot), acked : SUBSET (Request \X Slot)]
  BY <1>4, <1>5 DEF IInv, TypeOK
<1>7. TypeOK'
  BY <1>1, <1>3, <1>6 DEF IInv, TypeOK
<1>8. /\ Bounded' /\ Starting' /\ Running' /\ Known' /\ Sent' /\ Claimed'
      /\ EvaluationsAccounted'
  BY <1>1, <1>6 DEF IInv, Bounded, Starting, Running, Known, Sent, Claimed,
                    EvaluationsAccounted, Evaluations
<1> QED
  BY <1>1, <1>6, <1>7, <1>8, CountsStay DEF IInv

\* What the server evaluates is the claim, which the counter already covers.
LEMMA ServerTickKeeps ==
  ASSUME IInv, ServerTick
  PROVE  IInv'
<1> USE Nulls, RowShape DEF IInv
<1> DEFINE it == <<row.run, row.pending>>
<1>1. /\ tick.at = "sent" /\ UNCHANGED <<row, drawn, call, now, wish>>
      /\ \E a \in {"ok", "failed"} : tick' = [tick EXCEPT !.answer = a]
  BY DEF ServerTick
<1>2. /\ tick \in [at : {"sent"}, recovery : BOOLEAN, was : Row, slot : Slot,
                   answer : {"none", "ok", "failed"}]
  BY <1>1 DEF TypeOK, Tick, Idle
<1>3. tick' \in Tick /\ tick'.at = "sent" /\ tick'.was = tick.was /\ tick'.slot = tick.slot
  BY <1>1, <1>2 DEF Tick
<1>4. tick.was.run = row.run /\ tick.slot = row.pending /\ row.pending \in Slot
  BY <1>1, <1>2 DEF Sent
<1>5. row.run \in Request
  BY <1>4 DEF Claimed
<1>6. row.state \notin {"starting", "start_uncertain"}
  BY <1>4 DEF Starting
<1>7. \/ server' = server
      \/ server' = [server EXCEPT !.evaluated = @ \cup {it}]
  BY <1>4 DEF ServerTick
<1>8. /\ server' \in [run : Request \cup {None}, open : BOOLEAN,
                      evaluated : SUBSET (Request \X Slot), acked : SUBSET (Request \X Slot)]
      /\ server'.acked = server.acked
      /\ server.evaluated \subseteq server'.evaluated
      /\ server'.evaluated \subseteq server.evaluated \cup {it}
  BY <1>4, <1>5, <1>7 DEF TypeOK
<1>9. TypeOK'
  BY <1>1, <1>3, <1>8 DEF TypeOK
<1>10. Bounded'
  <2>1. it[1] <= drawn
    BY <1>5 DEF Bounded
  <2> QED
    BY <1>1, <1>8, <2>1 DEF Bounded
<1>11. Starting' /\ Running' /\ Known' /\ Sent' /\ Claimed'
  BY <1>1, <1>3, <1>4, <1>6 DEF Starting, Running, Known, Sent, Claimed
<1>12. EvaluationsAccounted'
  BY <1>1, <1>8 DEF EvaluationsAccounted
<1>13. (Evaluations(row.run) \cup Out)' = Evaluations(row.run) \cup Out
  <2>1. Out' = Out /\ Out = {it}
    BY <1>1, <1>4 DEF Out
  <2>2. Evaluations(row.run)' = {e \in server'.evaluated : e[1] = row.run}
    BY <1>1 DEF Evaluations
  <2>3. Evaluations(row.run) = {e \in server.evaluated : e[1] = row.run}
    BY DEF Evaluations
  <2> HIDE DEF it
  <2> QED
    BY <1>8, <2>1, <2>2, <2>3
<1>14. Cardinality(Evaluations(row.run) \cup Out) <= row.evaluations
  BY <1>4 DEF Counted
<1>15. Counted'
  <2>1. Cardinality((Evaluations(row.run) \cup Out)') = Cardinality(Evaluations(row.run) \cup Out)
    BY <1>13
  <2> QED
    BY <1>1, <1>14, <2>1 DEF Counted
<1>16. WithinLimit'
  <2> SUFFICES ASSUME NEW r \in Request
               PROVE  Cardinality({e \in server'.evaluated : e[1] = r}) <= Limit
    BY DEF WithinLimit
  <2> DEFINE new == {e \in server'.evaluated : e[1] = r}
             all == Evaluations(row.run) \cup Out
  <2>1. CASE r = row.run
    <3>1. IsFiniteSet(all)
      BY Finite, FS_Union
    <3>2. new \subseteq all
      BY <1>4, <1>8, <2>1 DEF Evaluations, Out
    <3>3. Cardinality(new) <= Cardinality(all) /\ Cardinality(all) \in Nat /\ Cardinality(new) \in Nat
      BY <3>1, <3>2, FS_Subset, FS_CardinalityType
    <3> HIDE DEF new
    <3>4. Cardinality(new) <= row.evaluations
      <4> HIDE DEF all
      <4>1. Cardinality(all) <= row.evaluations
        BY <1>14 DEF all
      <4> QED
        BY <3>3, <4>1
    <3>5. Cardinality(new) <= Limit
      BY <3>3, <3>4
    <3> QED
      BY <3>5 DEF new
  <2>2. CASE r # row.run
    <3>1. new = {e \in server.evaluated : e[1] = r}
      BY <1>8, <2>2
    <3> QED
      BY <3>1 DEF WithinLimit
  <2> QED
    BY <2>1, <2>2
<1> QED
  BY <1>9, <1>10, <1>11, <1>12, <1>15, <1>16

-----------------------------------------------------------------------------
LEMMA ClockKeeps ==
  ASSUME IInv, Advance \/ Crash \/ UNCHANGED vars
  PROVE  IInv'
<1>1. UNCHANGED <<row, drawn, server, wish>> /\ (tick' = Idle \/ tick' = tick)
  BY DEF Advance, Crash, vars
<1>2. now' \in Slot /\ call' \in [Callers -> Call]
  BY ScheduleAssumption DEF Advance, Crash, vars, IInv, TypeOK, Slot, Call
<1>3. TypeOK'
  BY <1>1, <1>2 DEF IInv, TypeOK, Tick
<1>4. /\ tick' # Idle => row.state \notin {"starting", "start_uncertain"}
      /\ tick'.at = "sent" => tick = tick'
  BY <1>1 DEF IInv, Starting, Idle
<1> QED
  BY <1>1, <1>3, <1>4, RowStays

LEMMA StepInv == IInv /\ [Next]_vars => IInv'
<1> SUFFICES ASSUME IInv, [Next]_vars PROVE IInv'
  OBVIOUS
<1>1. ASSUME NEW c \in Callers, Start(c) \/ StartAnswered(c)
      PROVE  IInv'
  BY <1>1, StartKeeps, StartAnsweredKeeps
<1>2. ASSUME NEW c \in Callers, Pause(c) \/ PauseAnswered(c)
      PROVE  IInv'
  BY <1>2, PauseKeeps, PauseAnsweredKeeps
<1>3. ASSUME NEW c \in Callers, ServerStart(c) \/ ServerPause(c)
      PROVE  IInv'
  BY <1>3, ServerCallKeeps
<1>4. CASE Dispatch \/ Reconcile
  BY <1>4, SubmitKeeps
<1>5. CASE Claim
  BY <1>5, ClaimKeeps
<1>6. CASE Evaluated \/ EvaluationFails
  BY <1>6, EvaluatedKeeps, EvaluationFailsKeeps
<1>7. CASE ServerTick
  BY <1>7, ServerTickKeeps
<1>8. CASE Advance \/ Crash \/ UNCHANGED vars
  BY <1>8, ClockKeeps
<1> QED
  BY <1>1, <1>2, <1>3, <1>4, <1>5, <1>6, <1>7, <1>8 DEF Next

\* The invariant, on which the four theorems below rest, holds in every state.
THEOREM Invariant == Spec => []IInv
<1>1. Init => IInv
  BY InitInv
<1>2. IInv /\ [Next]_vars => IInv'
  BY StepInv
<1> QED
  BY <1>1, <1>2, PTL DEF Spec

\* Every column of the row and every call that is out keeps its type.
THEOREM TypeSafe == Spec => []TypeOK
<1>1. IInv => TypeOK
  BY DEF IInv
<1> QED
  BY <1>1, Invariant, PTL

\* Whatever answer comes late, a schedule is active only under the last start that was
\* asked for and not paused since: start and pause compare the request of the row.
THEOREM PauseWinsSafe == Spec => []PauseWins
<1>1. IInv => PauseWins
  BY DEF IInv, Running, PauseWins
<1> QED
  BY <1>1, Invariant, PTL

\* No evaluation of the server, which may have been charged for, is forgotten: a slot
\* is claimed in the row before the server is asked and kept until it answers.
THEOREM AccountedSafe == Spec => []EvaluationsAccounted
<1>1. IInv => EvaluationsAccounted
  BY DEF IInv
<1> QED
  BY <1>1, Invariant, PTL

\* No run is evaluated more often than confirmed, whatever is repeated or recovered:
\* the claim counts a slot once, before the server is asked.
THEOREM WithinLimitSafe == Spec => []WithinLimit
<1>1. IInv => WithinLimit
  BY DEF IInv
<1> QED
  BY <1>1, Invariant, PTL

=============================================================================
