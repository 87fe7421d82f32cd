--------------------------- MODULE PaperSchedule ---------------------------
(***************************************************************************)
(* The schedule of one server-owned paper strategy                         *)
(* (server/src/services/paper_schedule_service.py).                        *)
(*                                                                         *)
(* The agent owns the clock and a row; the server owns the run and the      *)
(* evaluations, each of which may cost money.  Starts, pauses and ticks    *)
(* call the server outside `_lock`, so answers come late, out of order or  *)
(* not at all, and the process may stop while one is out.  A slot is       *)
(* claimed in the row before the server is asked to evaluate it and stays  *)
(* there until an answer for it is seen.                                   *)
(***************************************************************************)
EXTENDS Integers, FiniteSets

CONSTANTS
  Callers,      \* concurrent start and pause requests
  MaxRequests,  \* request_ids drawn; a run bears the id of its start
  MaxSlot,      \* last slot of the clock
  Limit,        \* max_evaluations
  None

ASSUME ScheduleAssumption ==
  /\ MaxRequests \in Nat /\ MaxSlot \in Nat /\ Limit \in Nat \ {0}
  /\ None \notin 0..MaxSlot /\ None \notin 0..MaxRequests

Request == 1..MaxRequests
Slot == 0..MaxSlot

VARIABLES
  row,     \* the row of paper_schedules
  drawn,   \* request_ids drawn so far
  call,    \* what each caller waits for
  tick,    \* the tick of the schedule; idle when it is not in _inflight
  now,     \* the slot of the clock
  server,  \* external: the run, whether it accepts ticks, what it evaluated
  wish     \* history: the last thing the user was told is under way

vars == <<row, drawn, call, tick, now, server, wish>>

-----------------------------------------------------------------------------
State == {"absent", "starting", "start_uncertain", "start_rejected", "active",
          "attention", "pausing", "paused", "exhausted"}

Row == [state : State, request : Request \cup {None}, run : Request \cup {None},
        evaluations : 0..Limit, pending : Slot \cup {None}, last : Slot \cup {None}]

NoCall == [kind |-> "none"]
Call == {NoCall} \cup [kind : {"start", "pause"}, request : Request,
                       answer : {"none", "ok", "rejected", "lost"}]

Idle == [at |-> "idle"]

\* was: the row the tick read.
Tick == {Idle} \cup [at : {"submitted"}, recovery : BOOLEAN]
  \cup [at : {"sent"}, recovery : BOOLEAN, was : Row, slot : Slot,
        answer : {"none", "ok", "failed"}]

Init ==
  /\ row = [state |-> "absent", request |-> None, run |-> None,
            evaluations |-> 0, pending |-> None, last |-> None]
  /\ drawn = 0
  /\ call = [c \in Callers |-> NoCall]
  /\ tick = Idle
  /\ now = 0
  /\ server = [run |-> None, open |-> FALSE, evaluated |-> {}, acked |-> {}]
  /\ wish = None

Draw == drawn < MaxRequests /\ drawn' = drawn + 1

-----------------------------------------------------------------------------
(* start *)

\* Variant: an unresolved evaluation does not hold up a new start.
MayRestartPending ==
  /\ row.state \in {"absent", "starting", "start_uncertain", "start_rejected", "paused", "exhausted"}

MayRestart ==
  /\ row.pending = None
  /\ row.state \in {"absent", "starting", "start_uncertain", "start_rejected", "paused", "exhausted"}

\* A start whose outcome is unknown is repeated under its own request_id;
\* otherwise the counters start over.
Start(c) ==
  /\ call[c] = NoCall /\ tick = Idle /\ MayRestart
  /\ IF row.state \in {"starting", "start_uncertain"}
     THEN row' = [row EXCEPT !.state = "starting"] /\ UNCHANGED drawn
     ELSE /\ Draw
          /\ row' = [row EXCEPT !.state = "starting", !.request = drawn', !.evaluations = 0,
                                !.pending = None, !.last = None]
  /\ call' = [call EXCEPT ![c] = [kind |-> "start", request |-> row'.request, answer |-> "none"]]
  /\ wish' = row'.request
  /\ UNCHANGED <<tick, now, server>>

StillMine(c) == row.state = "starting" /\ row.request = call[c].request

Activated(c) == [row EXCEPT !.run = call[c].request, !.state = "active"]

\* The answer counts only while the row still waits for it.
StartAnswered(c) ==
  /\ call[c] # NoCall /\ call[c].kind = "start" /\ call[c].answer # "none"
  /\ row' = IF ~StillMine(c) THEN row
            ELSE CASE call[c].answer = "ok" -> Activated(c)
                   [] call[c].answer = "rejected" -> [row EXCEPT !.state = "start_rejected"]
                   [] OTHER -> [row EXCEPT !.state = "start_uncertain"]
  /\ call' = [call EXCEPT ![c] = NoCall]
  /\ UNCHANGED <<drawn, tick, now, server, wish>>

-----------------------------------------------------------------------------
(* pause *)

\* Local scheduling stops before the server is told.
Pause(c) ==
  /\ call[c] = NoCall /\ row.state # "absent"
  /\ IF row.state = "pausing" THEN UNCHANGED <<row, drawn>>
     ELSE Draw /\ row' = [row EXCEPT !.state = "pausing", !.request = drawn']
  /\ call' = [call EXCEPT ![c] = [kind |-> "pause", request |-> row'.request, answer |-> "none"]]
  /\ wish' = None
  /\ UNCHANGED <<tick, now, server>>

\* A failure leaves the row pausing.
PauseAnswered(c) ==
  /\ call[c] # NoCall /\ call[c].kind = "pause" /\ call[c].answer # "none"
  /\ row' = IF call[c].answer = "ok" /\ row.state = "pausing" /\ row.request = call[c].request
            THEN [row EXCEPT !.state = "paused"] ELSE row
  /\ call' = [call EXCEPT ![c] = NoCall]
  /\ UNCHANGED <<drawn, tick, now, server, wish>>

-----------------------------------------------------------------------------
(* dispatch, tick, reconcile *)

\* The job: an active schedule with an unresolved slot, or a slot not yet seen.
Dispatch ==
  /\ tick = Idle /\ row.state = "active"
  /\ row.pending # None \/ row.last # now
  /\ tick' = [at |-> "submitted", recovery |-> FALSE]
  /\ UNCHANGED <<row, drawn, call, now, server, wish>>

\* A person asks for the outcome of the slot that is out.
Reconcile ==
  /\ tick = Idle /\ row.pending # None
  /\ row.state \in {"attention", "paused", "pausing"}
  /\ tick' = [at |-> "submitted", recovery |-> TRUE]
  /\ UNCHANGED <<row, drawn, call, now, server, wish>>

\* Variant: one evaluation too many.
SpentLate == row.evaluations > Limit

Spent == row.evaluations >= Limit

\* What the tick would evaluate: the slot that is out, or the clock's.
Due == IF row.pending # None THEN row.pending ELSE now

Wanted == IF tick.recovery THEN row.pending # None /\ row.state \in {"attention", "paused", "pausing"}
          ELSE row.state = "active" /\ (row.pending # None \/ row.last # now)

\* The slot is claimed before the server is asked.
Claim ==
  /\ tick.at = "submitted"
  /\ CASE ~Wanted -> tick' = Idle /\ UNCHANGED row
       [] Wanted /\ row.pending = None /\ Spent ->
            tick' = Idle /\ row' = [row EXCEPT !.state = "exhausted"]
       [] OTHER ->
            /\ row' = IF row.pending # None THEN row
                      ELSE [row EXCEPT !.pending = now, !.evaluations = @ + 1]
            /\ tick' = [at |-> "sent", recovery |-> tick.recovery, was |-> row, slot |-> Due,
                        answer |-> "none"]
  /\ UNCHANGED <<drawn, call, now, server, wish>>

\* Variant: a recovered evaluation makes the schedule active whatever happened since.
AfterSettled == IF tick.recovery THEN "active" ELSE row.state

\* A recovered evaluation makes the schedule active again, unless it was paused.
AfterEvaluation ==
  IF tick.recovery /\ row.state = "attention" /\ tick.was.state = "attention"
     /\ row.request = tick.was.request
  THEN "active" ELSE row.state

Evaluated ==
  /\ tick.at = "sent" /\ tick.answer = "ok"
  /\ IF row.run = tick.was.run /\ row.pending = tick.slot
     THEN /\ row' = [row EXCEPT !.pending = None, !.last = tick.slot, !.state = AfterEvaluation]
          /\ server' = [server EXCEPT !.acked = @ \cup {<<row.run, tick.slot>>}]
     ELSE UNCHANGED <<row, server>>
  /\ tick' = Idle
  /\ UNCHANGED <<drawn, call, now, wish>>

\* A tick that fails stops an active schedule until a person looks at it.
EvaluationFails ==
  /\ tick.at = "sent" /\ tick.answer = "failed"
  /\ row' = IF row.state = "active" THEN [row EXCEPT !.state = "attention"] ELSE row
  /\ tick' = Idle
  /\ UNCHANGED <<drawn, call, now, server, wish>>

-----------------------------------------------------------------------------
(* The server, the clock and the process *)

\* A start opens its run, once: a repetition is answered the same.  A refusal is
\* final for its request; a lost answer may come before or after the deed.
ServerStart(c) ==
  /\ call[c] # NoCall /\ call[c].kind = "start" /\ call[c].answer = "none"
  /\ \/ /\ server' = IF server.run = call[c].request THEN server
                     ELSE [server EXCEPT !.run = call[c].request, !.open = TRUE]
        /\ \E a \in {"ok", "lost"} : call' = [call EXCEPT ![c].answer = a]
     \/ /\ server.run # call[c].request
        /\ \E a \in {"rejected", "lost"} : call' = [call EXCEPT ![c].answer = a]
        /\ UNCHANGED server
  /\ UNCHANGED <<row, drawn, tick, now, wish>>

ServerPause(c) ==
  /\ call[c] # NoCall /\ call[c].kind = "pause" /\ call[c].answer = "none"
  /\ server' \in {server, [server EXCEPT !.open = FALSE]}
  /\ \E a \in {"ok", "lost"} :
       /\ a = "ok" => ~server'.open
       /\ call' = [call EXCEPT ![c].answer = a]
  /\ UNCHANGED <<row, drawn, tick, now, wish>>

\* A slot is evaluated in its run, once; a repetition gets the stored answer.
ServerTick ==
  LET it == <<tick.was.run, tick.slot>> IN
  /\ tick.at = "sent" /\ tick.answer = "none"
  /\ \/ /\ it \in server.evaluated \/ (server.open /\ server.run = tick.was.run)
        /\ server' = [server EXCEPT !.evaluated = @ \cup {it}]
        /\ \E a \in {"ok", "failed"} : tick' = [tick EXCEPT !.answer = a]
     \/ tick' = [tick EXCEPT !.answer = "failed"] /\ UNCHANGED server
  /\ UNCHANGED <<row, drawn, call, now, wish>>

Advance ==
  /\ now < MaxSlot /\ now' = now + 1
  /\ UNCHANGED <<row, drawn, call, tick, server, wish>>

\* The process stops: callers, ticks and _inflight are gone, the row stays.
Crash ==
  /\ call' = [c \in Callers |-> NoCall] /\ tick' = Idle
  /\ UNCHANGED <<row, drawn, now, server, wish>>

-----------------------------------------------------------------------------
Next ==
  \/ \E c \in Callers :
       \/ Start(c) \/ StartAnswered(c) \/ Pause(c) \/ PauseAnswered(c)
       \/ ServerStart(c) \/ ServerPause(c)
  \/ Dispatch \/ Reconcile \/ Claim \/ Evaluated \/ EvaluationFails
  \/ ServerTick \/ Advance \/ Crash

Spec == Init /\ [][Next]_vars

-----------------------------------------------------------------------------
(* Properties *)

\* Every column and every outstanding call has its type.
TypeOK ==
  /\ row \in Row /\ drawn \in 0..MaxRequests
  /\ call \in [Callers -> Call] /\ tick \in Tick /\ now \in Slot
  /\ server \in [run : Request \cup {None}, open : BOOLEAN,
                 evaluated : SUBSET (Request \X Slot), acked : SUBSET (Request \X Slot)]
  /\ wish \in Request \cup {None}

\* A concurrent pause wins: a schedule is active only under the last start that
\* was asked for and not paused since, whatever answer comes late
\* (paper_schedule_service.py:172).
PauseWins == row.state = "active" => wish # None /\ row.run = wish

\* What the server evaluated, and may have charged for, is acknowledged in the row
\* or is the one slot still out, across crashes, pauses and new starts
\* (paper_schedule_service.py, tick).
EvaluationsAccounted ==
  \A e \in server.evaluated \ server.acked : e = <<row.run, row.pending>>

\* No run is evaluated more often than the user confirmed.
WithinLimit ==
  \A r \in Request : Cardinality({e \in server.evaluated : e[1] = r}) <= Limit

=============================================================================
