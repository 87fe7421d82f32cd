--------------------------- MODULE SharedSessions ---------------------------
(***************************************************************************)
(* The MCP sessions callers share (server/src/mcp/mangrove_proxy.py).      *)
(*                                                                         *)
(* All calls to one destination under one credential run on one session,   *)
(* which a task in the background opens, owns and ends.  A caller that     *)
(* finds no living session queues on the destination's lock, looks again   *)
(* and opens one.  A transport error ends the session for everyone; the    *)
(* next caller opens another.  The module is about one destination, on the *)
(* one event loop of the server: a step is what a coroutine does between   *)
(* two awaits.  _sessions_lock is held for no longer than that.            *)
(***************************************************************************)
EXTENDS Integers, FiniteSets

CONSTANTS
  Caller,       \* requests of the agent being served
  MaxSessions,  \* sessions opened
  MaxRequests   \* requests sent on one session

ASSUME BoundsAssumption == MaxSessions \in Nat /\ MaxRequests \in Nat

Session == 1..MaxSessions
Request == 1..MaxRequests    \* JSON-RPC ids, drawn per session
None == 0

VARIABLES
  at,      \* where each caller is, in which session, for which request, with what error
  lock,    \* who holds _open_locks[slot]
  stored,  \* _sessions[slot]
  held,    \* _open_failures[slot] is there and younger than the hold
  task,    \* the transport task of each session
  stop,    \* sessions asked to end: _stop is set, or the task cancelled
  sent,    \* requests drawn in each session
  posted,  \* external: requests the server has not answered yet
  refused, \* requests answered with an HTTP error, which the session carries
  down     \* the application has shut down

tableVars == <<lock, stored, held>>
wireVars == <<sent, posted, refused>>
vars == <<at, lock, stored, held, task, stop, sent, posted, refused, down>>

Place(where, s) == [in |-> where, s |-> s, id |-> None, error |-> "none"]
Idle == Place("idle", None)

Init ==
  /\ at = [c \in Caller |-> Idle]
  /\ lock = {} /\ stored = None /\ held = FALSE
  /\ task = [s \in Session |-> "none"] /\ stop = {}
  /\ sent = [s \in Session |-> 0]
  /\ posted = [s \in Session |-> {}] /\ refused = [s \in Session |-> {}]
  /\ down = FALSE

-----------------------------------------------------------------------------
In(c, where) == at[c].in = where
Alive(s) == s # None /\ task[s] = "up"
Unopened == {s \in Session : task[s] = "none"}

Running(s) == task[s] \in {"starting", "up"}
Goes(c, where, s) == at' = [at EXCEPT ![c] = Place(where, s)]
\* Variant for a mutant: a task that has ended is asked again.
CloseAlways(s) == stop' = stop \cup ({s} \ {None})

\* close(): a task that has ended needs no closing.
Close(s) == stop' = stop \cup {r \in {s} \ {None} : Running(r)}
Leaves(c) == at' = [at EXCEPT ![c] = Idle]
Unlock == lock' = {}

-----------------------------------------------------------------------------
(* Finding a session *)

\* Bound: whoever queues may have to open a session.
Enter(c) ==
  /\ In(c, "idle") /\ ~down
  /\ Cardinality({d \in Caller : In(d, "queued")}) < Cardinality(Unopened)
  /\ IF Alive(stored) THEN Goes(c, "using", stored) ELSE Goes(c, "queued", None)
  /\ UNCHANGED <<tableVars, task, stop, wireVars, down>>

\* Variant for a mutant: the caller opens a session without a second look.
OpenUnseen(c) ==
  \E s \in Unopened :
    /\ \A r \in Unopened : s <= r
    /\ Goes(c, "opening", s) /\ stored' = None
    /\ lock' = {c} /\ task' = [task EXCEPT ![s] = "starting"]

\* What a caller does under the lock: another may have opened a session meanwhile,
\* or failed to just now.  A dead session is forgotten; its task has ended.
SecondLook(c) ==
  CASE Alive(stored) -> /\ Goes(c, "using", stored)
                        /\ UNCHANGED <<lock, stored, task>>
    [] ~Alive(stored) /\ held -> /\ Leaves(c) /\ stored' = None
                                 /\ UNCHANGED <<lock, task>>
    [] OTHER -> \E s \in Unopened :
                  /\ \A r \in Unopened : s <= r
                  /\ Goes(c, "opening", s) /\ stored' = None
                  /\ lock' = {c} /\ task' = [task EXCEPT ![s] = "starting"]

Acquire(c) ==
  /\ In(c, "queued") /\ lock = {}
  /\ SecondLook(c)
  /\ UNCHANGED <<held, stop, wireVars, down>>

-----------------------------------------------------------------------------
(* Opening it *)

\* _ready is set when the session is up, and when its task ends.
Opened(c) ==
  /\ In(c, "opening") /\ task[at[c].s] # "starting"
  /\ Goes(c, IF Alive(at[c].s) THEN "opened" ELSE "unopened", at[c].s)
  /\ UNCHANGED <<tableVars, task, stop, wireVars, down>>

\* The opener gives up and waits a little for the task to end.
OpenTimeout(c) ==
  /\ In(c, "opening") /\ task[at[c].s] = "starting"
  /\ Goes(c, "closing", at[c].s) /\ Close(at[c].s)
  /\ UNCHANGED <<tableVars, task, wireVars, down>>

Closed(c) ==
  /\ In(c, "closing")
  /\ Goes(c, "unopened", at[c].s)
  /\ UNCHANGED <<tableVars, task, stop, wireVars, down>>

\* The failure answers those behind for a while.
KeepFailure(c) ==
  /\ In(c, "unopened")
  /\ held' = TRUE /\ Unlock /\ Leaves(c)
  /\ UNCHANGED <<stored, task, stop, wireVars, down>>

Store(c) ==
  /\ In(c, "opened")
  /\ stored' = at[c].s /\ held' = FALSE /\ Unlock /\ Goes(c, "using", at[c].s)
  /\ UNCHANGED <<task, stop, wireVars, down>>

HoldEnds ==
  /\ held /\ held' = FALSE
  /\ UNCHANGED <<at, lock, stored, task, stop, wireVars, down>>

-----------------------------------------------------------------------------
(* Using it *)

\* A request is sent, unless the session died since the caller got it.
Send(c) ==
  /\ In(c, "using") /\ Alive(at[c].s)
  /\ LET s == at[c].s IN
     /\ sent[s] < MaxRequests /\ sent' = [sent EXCEPT ![s] = @ + 1]
     /\ posted' = [posted EXCEPT ![s] = @ \cup {sent'[s]}]
     /\ at' = [at EXCEPT ![c] = [Place("calling", s) EXCEPT !.id = sent'[s]]]
  /\ UNCHANGED <<tableVars, task, stop, refused, down>>

\* The use ends well.
Finish(c) ==
  /\ In(c, "using") /\ Leaves(c)
  /\ UNCHANGED <<tableVars, task, stop, wireVars, down>>

\* An exception leaves the use: only a dead session is to be dropped.
Raises(c) == IF Alive(at[c].s) THEN Leaves(c) ELSE Goes(c, "dropping", at[c].s)

\* An answer the caller cannot use, a request it does not get to send, its deadline.
UseFails(c) ==
  /\ In(c, "using") /\ Raises(c)
  /\ UNCHANGED <<tableVars, task, stop, wireVars, down>>

\* External: the server answers a request; the answer finds its caller by the id,
\* or nobody.
Answer(s, id) ==
  /\ Alive(s) /\ id \in posted[s]
  /\ posted' = [posted EXCEPT ![s] = @ \ {id}]
  /\ \/ \E c \in Caller :
          /\ In(c, "calling") /\ at[c].s = s /\ at[c].id = id
          /\ Goes(c, "using", s)
     \/ /\ \A c \in Caller : ~(In(c, "calling") /\ at[c].s = s /\ at[c].id = id)
        /\ UNCHANGED at
  /\ UNCHANGED <<tableVars, task, stop, sent, refused, down>>


\* What a request that died with its session is told (_request_failure): the error
\* of the transport if it is its own, an interruption if it is another's.
Failure(s, id) ==
  CASE id \in refused[s] -> "refused"
    [] refused[s] # {} /\ id \notin refused[s] -> "interrupted"
    [] OTHER -> "broken"

\* Variant for a mutant: a caller awaits its response only.
NeverLost(c) == FALSE

\* The call is raced against _lost, which the end of the task sets.
Lost(c) == In(c, "calling") /\ task[at[c].s] = "ended"

CallFails(c) ==
  /\ Lost(c)
  /\ at' = [at EXCEPT ![c].in = "dropping", ![c].error = Failure(at[c].s, at[c].id)]
  /\ UNCHANGED <<tableVars, task, stop, wireVars, down>>

\* Variant for a mutant: whatever session is there is dropped.
DropCurrent(s) == stored # None

\* The session is forgotten if it is still the one the caller used.
DropSession(s) == stored = s

Drop(c) ==
  /\ In(c, "dropping")
  /\ IF DropSession(at[c].s)
       THEN stored' = None /\ Close(stored)
       ELSE UNCHANGED <<stored, stop>>
  /\ Leaves(c)
  /\ UNCHANGED <<lock, held, task, wireVars, down>>

\* The caller's deadline passes, or its client goes away, in an await: an opener
\* takes its session along, a request is left to the server, the lock is released.
Cancel(c) ==
  /\ at[c].in \in {"queued", "opening", "closing", "opened", "unopened", "calling"}
  /\ IF In(c, "calling") THEN Raises(c) ELSE Leaves(c)
  /\ lock' = lock \ {c}
  /\ IF In(c, "opening") THEN Close(at[c].s) ELSE UNCHANGED stop
  /\ UNCHANGED <<stored, held, task, wireVars, down>>

-----------------------------------------------------------------------------
(* The transport task of a session *)

Initialized(s) ==
  /\ task[s] = "starting" /\ task' = [task EXCEPT ![s] = "up"]
  /\ UNCHANGED <<at, tableVars, stop, wireVars, down>>

\* It ends when it was asked to, when its connection breaks, or by an HTTP error; what
\* was not answered on it never will be.
Ends(s) ==
  /\ Running(s)
  /\ task' = [task EXCEPT ![s] = "ended"] /\ stop' = stop \ {s}
  /\ sent' = [sent EXCEPT ![s] = 0] /\ posted' = [posted EXCEPT ![s] = {}]
  /\ UNCHANGED <<at, tableVars, refused, down>>

\* External: a request is refused; others may be before the task is unwound.
Refuse(s, id) ==
  /\ Alive(s) /\ id \in posted[s]
  /\ posted' = [posted EXCEPT ![s] = @ \ {id}]
  /\ refused' = [refused EXCEPT ![s] = @ \cup {id}]
  /\ UNCHANGED <<at, tableVars, task, stop, sent, down>>

\* The application shuts down when its last request has ended (app.py).
CloseSessions ==
  /\ ~down /\ down' = TRUE
  /\ \A c \in Caller : In(c, "idle")
  /\ Close(stored) /\ stored' = None /\ held' = FALSE
  /\ UNCHANGED <<at, lock, task, wireVars>>

-----------------------------------------------------------------------------
Next ==
  \/ \E c \in Caller :
       \/ Enter(c) \/ Acquire(c) \/ Opened(c) \/ OpenTimeout(c) \/ Closed(c)
       \/ KeepFailure(c) \/ Store(c) \/ Send(c) \/ Finish(c) \/ UseFails(c)
       \/ CallFails(c) \/ Drop(c) \/ Cancel(c)
  \/ \E s \in Session :
       \/ Initialized(s) \/ Ends(s)
       \/ \E id \in Request : Answer(s, id) \/ Refuse(s, id)
  \/ HoldEnds \/ CloseSessions

Spec == Init /\ [][Next]_vars

\* Coroutines run on; an open has its timeout; a task that carries an HTTP error is
\* unwound; the lock wakes its waiters in turn.
Fairness ==
  /\ \A c \in Caller :
       /\ SF_vars(Acquire(c))
       /\ WF_vars(Opened(c)) /\ WF_vars(OpenTimeout(c)) /\ WF_vars(Closed(c))
       /\ WF_vars(KeepFailure(c)) /\ WF_vars(Store(c))
       /\ WF_vars(CallFails(c)) /\ WF_vars(Drop(c))
  /\ \A s \in Session : WF_vars(refused[s] # {} /\ Ends(s))

FairSpec == Spec /\ Fairness

-----------------------------------------------------------------------------
(* Properties *)

\* Every field is in its domain, the lock has one holder, and a table entry is a
\* session that was opened.
TypeOK ==
  /\ at \in [Caller -> [in : {"idle", "queued", "opening", "closing", "opened", "unopened",
                               "using", "calling", "dropping"},
                        s : Session \cup {None}, id : Request \cup {None},
                        error : {"none", "refused", "interrupted", "broken"}]]
  /\ lock \subseteq Caller /\ Cardinality(lock) <= 1
  /\ stored = None \/ (stored \in Session /\ task[stored] # "none")
  /\ held \in BOOLEAN /\ down \in BOOLEAN /\ \A s \in stop : s \in Session /\ Running(s)
  /\ task \in [Session -> {"none", "starting", "up", "ended"}]
  /\ sent \in [Session -> Request \cup {0}]
  /\ posted \in [Session -> SUBSET Request] /\ refused \in [Session -> SUBSET Request]

Serves(s, c) == at[c].s = s /\ at[c].in \in {"using", "calling"}

\* One caller's failure says nothing about a session that serves others: nothing ends
\* a living session a caller uses, neither another's failure or deadline nor a late
\* report of the death of an earlier session (mangrove_proxy.py, session, drop_session).
ServedUntilDead ==
  \A c \in Caller, s \in stop : Serves(s, c) => ~Alive(s)

\* However opens, deaths and drops interleave, the callers of a destination whose
\* sessions live share one (mangrove_proxy.py, shared_session).
OneServing ==
  \A c, d \in Caller, s, r \in Session :
    Serves(s, c) /\ Serves(r, d) /\ Alive(s) /\ Alive(r) => s = r


\* A caller in the queue, at an open, or in a call whose session died or that was refused.
Waits(c) ==
  \/ at[c].in \in {"queued", "opening", "closing", "opened", "unopened", "dropping"}
  \/ In(c, "calling") /\ (task[at[c].s] = "ended" \/ at[c].id \in refused[at[c].s])

\* No caller waits for ever for a session or on a dead one, without a deadline of its
\* own (mangrove_proxy.py, race, open).
NobodyStuck == \A c \in Caller : Waits(c) ~> ~Waits(c)

=============================================================================
