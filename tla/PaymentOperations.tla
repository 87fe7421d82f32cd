-------------------------- MODULE PaymentOperations --------------------------
(***************************************************************************)
(* The durable identity of a paid operation and everybody who works on it: *)
(* the three payers (x402_payer.pay, x402_payer.pay_mcp, the synchronous   *)
(* SDK transport), the reconciliation worker and the operator's command,   *)
(* the receiver, and the chain that executes a disclosed authorization.    *)
(*                                                                         *)
(* An action is one database transaction of payment_operations.py,         *)
(* spend_service.py or x402_reconciliation.py, a disclosure, or a step of  *)
(* the environment.  Between two transactions of one caller anything else  *)
(* may run, and the process may die.                                       *)
(***************************************************************************)
EXTENDS SpendLedger

CONSTANTS
  Op,       \* operation ids
  NoOp,     \* no operation
  NoResv,   \* no reservation
  Fps,      \* request fingerprints
  Callers,  \* threads and tasks that drive a payment
  Workers,  \* threads and commands that inspect a reservation
  Idempotency,  \* receivers: "v1" deduplicates an exact proof, "plain" does not
  Unspendable   \* whether quotes may name no payee or an empty window

ASSUME OperationsAssumption ==
  /\ NoOp \notin Op
  /\ NoResv \notin Resv
  /\ Fps # {}
  /\ Idempotency \subseteq {"plain", "v1"}
  /\ Unspendable \subseteq BOOLEAN

VARIABLES
  op,       \* x402_operations with its row of x402_recovery_state
  opOf,     \* x402_payments.operation_id
  auth,     \* environment: where each signed authorization stands on chain
  caller,   \* each payer's place in its exchange
  worker    \* the snapshot and evidence an inspection holds

vars == <<ledgerVars, op, opOf, auth, caller, worker>>

-----------------------------------------------------------------------------
(* State *)

\* fp: fingerprint; hdr: payment_headers, by the idempotency they were saved
\* with; proof: the reservation they sign for; repl: replacement_allowed;
\* next: next_id; action: action_id.
NewOp(f, a) == [state |-> "pending", fp |-> f, hdr |-> "none", proof |-> NoResv,
                repl |-> FALSE, next |-> NoOp, action |-> a]
AbsentOp == [state |-> "absent", fp |-> CHOOSE f \in Fps : TRUE, hdr |-> "none",
             proof |-> NoResv, repl |-> FALSE, next |-> NoOp, action |-> NoOp]

\* A complete operation keeps its result, no longer its proof.
UnprovenRow == [state : {"pending", "complete", "unsigned_failed"}, fp : Fps,
                hdr : {"none"}, proof : {NoResv}, repl : BOOLEAN,
                next : Op \cup {NoOp}, action : Op]
ProvenRow == [state : {"pending", "unsigned_failed"}, fp : Fps,
              hdr : {"plain", "v1"}, proof : Resv, repl : BOOLEAN,
              next : Op \cup {NoOp}, action : Op]
OpRow == {AbsentOp} \cup UnprovenRow \cup ProvenRow

AuthRow == [disclosed : BOOLEAN, unspendable : BOOLEAN,
            chain : {"unused", "used", "cancelled"},  \* nonce at the chain's head
            fin : {"unused", "used", "cancelled"},    \* nonce at the finalized block
            expired : BOOLEAN,      \* the head's time is past validBefore
            finExpired : BOOLEAN]   \* so is the finalized block's

NewAuth == [disclosed |-> FALSE, unspendable |-> FALSE, chain |-> "unused",
            fin |-> "unused", expired |-> FALSE, finExpired |-> FALSE]

Idle == [pc |-> "idle", op |-> NoOp, resv |-> NoResv]
CallerRow == {Idle}
  \cup [pc : {"begun"}, op : Op, resv : {NoResv}]
  \cup [pc : {"reserved", "refused", "saved", "resending", "sent", "replied", "settled"},
        op : Op, resv : Resv]

Free == [resv |-> NoResv, row |-> AbsentRow, outcome |-> "none"]
WorkerRow == {Free}
  \cup [resv : Resv, row : LiveRow, outcome : {"settled"} \cup EvidenceReasons]

Init ==
  /\ LedgerInit
  /\ op = [o \in Op |-> AbsentOp]
  /\ opOf = [r \in Resv |-> NoOp]
  /\ auth = [r \in Resv |-> NewAuth]
  /\ caller = [c \in Callers |-> Idle]
  /\ worker = [w \in Workers |-> Free]

-----------------------------------------------------------------------------
(* Reads shared by several transactions *)

RowsOf(o) == {r \in Resv : opOf[r] = o}
NothingLive(o, rows) == \A r \in Resv : opOf[r] = o => rows[r].state = "released"

\* _proven_unpaid: every authorization is finalized unused or cancelled.
ProvenUnpaid(o) ==
  /\ op[o].state = "unsigned_failed"
  /\ RowsOf(o) # {}
  /\ \A r \in RowsOf(o) : /\ pay[r].state = "released"
                          /\ pay[r].reason \in {"expired_unused", "cancelled"}

Goto(c, pc) == caller' = [caller EXCEPT ![c].pc = pc]
Leave(c) == caller' = [caller EXCEPT ![c] = Idle]
Own(c, o) == caller' = [caller EXCEPT ![c] = [pc |-> "begun", op |-> o, resv |-> NoResv]]

-----------------------------------------------------------------------------
(* begin: one transaction.  A caller may name any operation it was ever given; *)
(* the links are followed to the last one of its chain, so it lands on an      *)
(* operation with no next.  Without a name it lands on a pending operation of  *)
(* its fingerprint.  A completed operation answers from its stored result, a   *)
(* mismatched fingerprint and an operation in progress are refused: none of    *)
(* those writes.                                                               *)

\* No such operation yet: insert it.
BeginNew(c, o, f) ==
  /\ caller[c].pc = "idle"
  /\ op[o].state = "absent"
  /\ op' = [op EXCEPT ![o] = NewOp(f, o)]
  /\ Own(c, o)
  /\ UNCHANGED <<ledgerVars, opOf, auth, worker>>

\* It failed before any reservation: take it over.
BeginReclaim(c, o) ==
  /\ caller[c].pc = "idle"
  /\ op[o].state = "unsigned_failed" /\ op[o].next = NoOp
  /\ RowsOf(o) = {}
  /\ op' = [op EXCEPT ![o].state = "pending"]
  /\ Own(c, o)
  /\ UNCHANGED <<ledgerVars, opOf, auth, worker>>

Linked(o, n) == [op EXCEPT ![n] = NewOp(op[o].fp, op[o].action), ![o].next = n]

\* Variant: the receiver's word is enough, no proof of non-payment is asked.
BeginReplaceUnproven(c, o, n) ==
  /\ caller[c].pc = "idle"
  /\ op[o].state \in {"pending", "unsigned_failed"} /\ op[o].next = NoOp
  /\ op[n].state = "absent"
  /\ op[o].repl
  /\ op' = Linked(o, n)
  /\ Own(c, n)
  /\ UNCHANGED <<ledgerVars, opOf, auth, worker>>

\* It is proven unpaid and the receiver allowed a replacement: its successor
\* carries on the same action under a new identity.
BeginReplace(c, o, n) ==
  /\ caller[c].pc = "idle"
  /\ op[o].next = NoOp /\ op[n].state = "absent"
  /\ ProvenUnpaid(o) /\ op[o].repl
  /\ op' = Linked(o, n)
  /\ Own(c, n)
  /\ UNCHANGED <<ledgerVars, opOf, auth, worker>>

\* It has a saved proof the receiver will deduplicate: send that one again.
BeginResend(c, o) ==
  /\ caller[c].pc = "idle"
  /\ op[o].next = NoOp /\ op[o].hdr = "v1"
  /\ \/ op[o].state = "pending"
     \/ ProvenUnpaid(o) /\ ~op[o].repl
  /\ caller' = [caller EXCEPT ![c] = [pc |-> "resending", op |-> o, resv |-> op[o].proof]]
  /\ UNCHANGED <<ledgerVars, op, opOf, auth, worker>>

-----------------------------------------------------------------------------
(* The owner of a new operation signs, saves the proof, then discloses it *)

Claim(c, r, a, u) ==
  /\ Reserve(r, a)
  /\ opOf' = [opOf EXCEPT ![r] = caller[c].op]
  /\ auth' = [auth EXCEPT ![r].unspendable = u]
  /\ caller' = [caller EXCEPT ![c].pc = "reserved", ![c].resv = r]
  /\ UNCHANGED <<op, worker>>

\* reserve with an operation id: require_unsigned in the same transaction.
\* u: the payee or validity window makes the authorization unspendable.
ReserveFor(c, r, a, u) ==
  /\ caller[c].pc = "begun"
  /\ op[caller[c].op].state = "pending"
  /\ NothingLive(caller[c].op, pay)
  /\ Claim(c, r, a, u)

\* The guard refuses to sign: sign_typed_data undoes the reservation, unless
\* an inspection of the stalled row has released it already.
RefuseSignature(c) ==
  /\ caller[c].pc = "reserved"
  /\ \/ ReleaseUnsigned(caller[c].resv)
     \/ pay[caller[c].resv].state # "authorized" /\ UNCHANGED ledgerVars
  /\ Goto(c, "refused")
  /\ UNCHANGED <<op, opOf, auth, worker>>

\* save_headers: one proof per operation, and only while it is pending.
SaveHeaders(c, h) ==
  /\ caller[c].pc = "reserved"
  /\ op[caller[c].op].state = "pending" /\ op[caller[c].op].hdr = "none"
  /\ op' = [op EXCEPT ![caller[c].op].hdr = h, ![caller[c].op].proof = caller[c].resv]
  /\ Goto(c, "saved")
  /\ UNCHANGED <<ledgerVars, opOf, auth, worker>>

Disclose(c) ==
  /\ auth' = [auth EXCEPT ![caller[c].resv].disclosed = TRUE]
  /\ Goto(c, "sent")
  /\ UNCHANGED <<ledgerVars, op, opOf, worker>>

\* Variant: the signed request leaves before its proof is stored.
SendUnsaved(c) == caller[c].pc \in {"reserved", "resending"} /\ Disclose(c)

\* The signed request leaves the process, for the first time or again.
Send(c) == caller[c].pc \in {"saved", "resending"} /\ Disclose(c)

-----------------------------------------------------------------------------
(* The reply.  Permission and receipt are whatever the receiver says; the     *)
(* receipt is checked for its form, not against the chain.                    *)

\* record_replacement_permission
Permit(c) ==
  /\ caller[c].pc = "sent"
  /\ op' = [op EXCEPT ![caller[c].op].repl = TRUE]
  /\ Goto(c, "replied")
  /\ UNCHANGED <<ledgerVars, opOf, auth, worker>>

\* reconcile: a valid receipt settles the row, if it is still authorized.
Receipt(c) ==
  /\ caller[c].pc \in {"sent", "replied"}
  /\ \/ Settle(caller[c].resv)
     \/ pay[caller[c].resv].state # "authorized" /\ UNCHANGED ledgerVars
  /\ Goto(c, "settled")
  /\ UNCHANGED <<op, opOf, auth, worker>>

\* Variant: payment_headers outlive the operation they were saved for.
AnsweredWithProof(o) ==
  IF op[o].state = "pending" THEN [op EXCEPT ![o].state = "complete"] ELSE op

Answered(o) ==
  IF op[o].state = "pending"
  THEN [op EXCEPT ![o].state = "complete", ![o].hdr = "none", ![o].proof = NoResv]
  ELSE op

WatchIfFailed(o, failed) ==
  IF failed /\ op[o].hdr # "none" THEN Watch(RowsOf(o)) ELSE UNCHANGED ledgerVars

\* Variant: the result is cached before a receipt was recorded.
CompleteUnsettled(c, failed) ==
  /\ caller[c].pc \in {"sent", "replied", "settled"}
  /\ WatchIfFailed(caller[c].op, failed)
  /\ op' = Answered(caller[c].op)
  /\ Leave(c)
  /\ UNCHANGED <<opOf, auth, worker>>

\* complete: the result is stored, a failed one puts the charge under refund
\* watch.  The owner's closing abandon_unsigned then finds nothing pending.
Complete(c, failed) ==
  /\ caller[c].pc = "settled"
  /\ WatchIfFailed(caller[c].op, failed)
  /\ op' = Answered(caller[c].op)
  /\ Leave(c)
  /\ UNCHANGED <<opOf, auth, worker>>

\* abandon_unsigned: no 402, a failed preflight, a refused reservation or a
\* refused signature end the exchange with nothing signed.
AbandonUnsigned(c) ==
  /\ caller[c].pc \in {"begun", "refused"}
  /\ LET o == caller[c].op
     IN  op' = IF /\ op[o].state = "pending" /\ op[o].hdr = "none"
                  /\ NothingLive(o, pay)
               THEN [op EXCEPT ![o].state = "unsigned_failed"] ELSE op
  /\ Leave(c)
  /\ UNCHANGED <<ledgerVars, opOf, auth, worker>>

\* A lost reply, a reply without a receipt or with a pending result, a result
\* too large to keep, a failed save, a cancelled task: X402PaymentUncertain.
\* abandon_unsigned, where it follows, is barred by the saved proof or the row.
Lose(c) ==
  /\ caller[c].pc \in {"reserved", "saved", "resending", "sent", "replied", "settled"}
  /\ Leave(c)
  /\ UNCHANGED <<ledgerVars, op, opOf, auth, worker>>

\* The process dies; only the database survives.
Crash ==
  /\ caller' = [c \in Callers |-> Idle]
  /\ worker' = [w \in Workers |-> Free]
  /\ UNCHANGED <<ledgerVars, op, opOf, auth>>

-----------------------------------------------------------------------------
(* Inspection and evidence *)

\* Variant: the head's clock is trusted instead of the finalized block's.
ChainOutcomeAtHead(r) ==
  CASE auth[r].fin = "used" -> "settled"
    [] auth[r].fin = "cancelled" -> "cancelled"
    [] auth[r].fin = "unused" /\ auth[r].expired -> "expired_unused"
    [] OTHER -> "none"

\* Variant: expiry is no evidence, as it was before finalized state was read.
ChainOutcomeTimeless(r) ==
  CASE auth[r].fin = "used" -> "settled"
    [] auth[r].fin = "cancelled" -> "cancelled"
    [] OTHER -> "none"

\* inspect_authorization / inspect_transaction on the finalized block.
ChainOutcome(r) ==
  CASE auth[r].fin = "used" -> "settled"
    [] auth[r].fin = "cancelled" -> "cancelled"
    [] auth[r].fin = "unused" /\ auth[r].finExpired -> "expired_unused"
    [] OTHER -> "none"

Hold(w, r, outcome) ==
  /\ worker' = [worker EXCEPT ![w] = [resv |-> r, row |-> pay[r], outcome |-> outcome]]
  /\ UNCHANGED <<ledgerVars, op, opOf, auth, caller>>

Inspect(w, r) ==
  /\ worker[w].resv = NoResv
  /\ pay[r].state = "authorized"
  /\ ChainOutcome(r) # "none"
  /\ Hold(w, r, ChainOutcome(r))

\* reconcile_unspendable: the saved proof itself shows it cannot pay anyone.
InspectLocally(w, r) ==
  /\ worker[w].resv = NoResv
  /\ pay[r].state = "authorized"
  /\ op[opOf[r]].state = "pending" /\ op[opOf[r]].hdr # "none"
  /\ op[opOf[r]].proof = r
  /\ auth[r].unspendable
  /\ Hold(w, r, "unspendable")

\* _record_evidence closes the operation once nothing of it is live.
Closed(o) ==
  IF op[o].state = "pending" /\ NothingLive(o, pay')
  THEN [op EXCEPT ![o].state = "unsigned_failed"] ELSE op

Apply(w, r) ==
  \/ /\ worker[w].outcome = "settled"
     /\ Settle(r)
     /\ UNCHANGED op
  \/ /\ worker[w].outcome \in EvidenceReasons
     /\ RecordReleased(r, worker[w].outcome)
     /\ op' = Closed(opOf[r])

Conclude(w) == worker' = [worker EXCEPT ![w] = Free] /\ UNCHANGED <<opOf, auth, caller>>

\* Variant: the evidence is written without comparing the row to the snapshot.
RecordEvidenceBlind(w) ==
  /\ worker[w].resv # NoResv
  /\ LET r == worker[w].resv
     IN  /\ pay' = [pay EXCEPT ![r].state =
                      IF worker[w].outcome = "settled" THEN "settled" ELSE "released"]
         /\ UNCHANGED <<period, periodCap, configCap, exhausted, refund, transfer>>
         /\ op' = Closed(opOf[r])
  /\ Conclude(w)

\* _record_evidence: applied only to the very row that was inspected.
RecordEvidence(w) ==
  /\ worker[w].resv # NoResv
  /\ \/ pay[worker[w].resv] = worker[w].row /\ Apply(w, worker[w].resv)
     \/ pay[worker[w].resv] # worker[w].row /\ UNCHANGED <<ledgerVars, op>>
  /\ Conclude(w)

-----------------------------------------------------------------------------
(* Environment: the chain.  USDC executes an authorization once, before its   *)
(* validBefore, and only one that names a payee and a window.                 *)

OnChain(r, row) ==
  /\ auth' = [auth EXCEPT ![r] = row]
  /\ UNCHANGED <<ledgerVars, op, opOf, caller, worker>>

Charge(r) ==
  /\ auth[r].disclosed /\ ~auth[r].unspendable
  /\ auth[r].chain = "unused" /\ ~auth[r].expired
  /\ OnChain(r, [auth[r] EXCEPT !.chain = "used"])

\* The wallet's owner cancels the nonce from elsewhere.
Cancel(r) ==
  /\ pay[r].state # "absent" /\ auth[r].chain = "unused"
  /\ OnChain(r, [auth[r] EXCEPT !.chain = "cancelled"])

Expire(r) ==
  /\ pay[r].state # "absent" /\ ~auth[r].expired
  /\ OnChain(r, [auth[r] EXCEPT !.expired = TRUE])

Finalize(r) ==
  /\ <<auth[r].fin, auth[r].finExpired>> # <<auth[r].chain, auth[r].expired>>
  /\ OnChain(r, [auth[r] EXCEPT !.fin = auth[r].chain, !.finExpired = auth[r].expired])

\* What is not final may be undone, the head's clock included.
Reorg(r) ==
  /\ <<auth[r].fin, auth[r].finExpired>> # <<auth[r].chain, auth[r].expired>>
  /\ OnChain(r, [auth[r] EXCEPT !.chain = auth[r].fin, !.expired = auth[r].finExpired])

-----------------------------------------------------------------------------
\* Budget and refund transactions that touch no operation.  A process that starts,
\* after a crash or beside another, reads the cap as it is configured by then.
LedgerOnly ==
  /\ \/ \E c \in Caps \cup {NoCap} : Reset(c)
     \/ \E c \in ConfigCaps : Restart(c)
     \/ \E r \in Resv : Review(r)
     \/ \E r \in Resv, t \in Txs : ConfirmRefund(r, t)
     \/ \E t \in Txs, a \in Amounts : MineRefund(t, a)
  /\ UNCHANGED <<op, opOf, auth, caller, worker>>

CallerStep(c) ==
  \/ \E o \in Op, f \in Fps : BeginNew(c, o, f)
  \/ \E o \in Op : BeginReclaim(c, o)
  \/ \E o, n \in Op : BeginReplace(c, o, n)
  \/ \E o \in Op : BeginResend(c, o)
  \/ \E r \in Resv, a \in Amounts, u \in Unspendable : ReserveFor(c, r, a, u)
  \/ RefuseSignature(c)
  \/ \E h \in Idempotency : SaveHeaders(c, h)
  \/ Send(c)
  \/ Permit(c)
  \/ Receipt(c)
  \/ \E failed \in BOOLEAN : Complete(c, failed)
  \/ AbandonUnsigned(c)
  \/ Lose(c)

WorkerStep(w) ==
  \/ \E r \in Resv : Inspect(w, r)
  \/ \E r \in Resv : InspectLocally(w, r)
  \/ RecordEvidence(w)

ChainStep(r) == Charge(r) \/ Cancel(r) \/ Expire(r) \/ Finalize(r) \/ Reorg(r)

Next ==
  \/ \E c \in Callers : CallerStep(c)
  \/ \E w \in Workers : WorkerStep(w)
  \/ \E r \in Resv : ChainStep(r)
  \/ LedgerOnly
  \/ Crash

Spec == Init /\ [][Next]_vars

\* The worker runs every 15 seconds and its crash loses only a snapshot, so an
\* inspection that keeps being possible is made and, sooner or later, written;
\* blocks keep being produced and finalized.
Fairness ==
  /\ \A w \in Workers : SF_vars(RecordEvidence(w))
  /\ \A w \in Workers, r \in Resv : SF_vars(Inspect(w, r))
  /\ \A r \in Resv : WF_vars(Expire(r)) /\ SF_vars(Finalize(r))

FairSpec == Spec /\ Fairness

-----------------------------------------------------------------------------
(* Properties *)

\* Every variable has its type.
TypeOK ==
  /\ LedgerTypeOK
  /\ op \in [Op -> OpRow]
  /\ opOf \in [Resv -> Op \cup {NoOp}]
  /\ auth \in [Resv -> AuthRow]
  /\ caller \in [Callers -> CallerRow]
  /\ worker \in [Workers -> WorkerRow]

ActionOf(r) == IF opOf[r] = NoOp THEN NoOp ELSE op[opOf[r]].action
SameAction(r, s) == opOf[r] # NoOp /\ opOf[s] # NoOp /\ ActionOf(r) = ActionOf(s)

\* Retries, replays, replacements and crashes never leave two authorizations
\* of one paid action that could both still be charged.
OneLiveAuthorization ==
  \A r, s \in Resv :
    /\ SameAction(r, s)
    /\ pay[r].state \in Counting /\ pay[s].state \in Counting
    => r = s

\* Budget is given back only for an authorization that is dead: whatever was
\* released is not charged, at the head of the chain or later.
ReleasedIsDead ==
  \A r \in Resv : pay[r].state = "released" => auth[r].chain # "used"

\* The chain charges a paid action at most once.
ChargedOncePerAction ==
  \A r, s \in Resv :
    /\ SameAction(r, s)
    /\ auth[r].chain = "used" /\ auth[s].chain = "used"
    => r = s

\* A signature that has left the process can be presented again after any
\* crash, unless its result is stored: never lost, never signed anew.
DisclosedIsRecoverable ==
  \A r \in Resv : auth[r].disclosed =>
    \/ op[opOf[r]].proof = r /\ op[opOf[r]].hdr # "none"
    \/ op[opOf[r]].state = "complete"

\* A stored result stands for a recorded charge.
CompleteIsSettled ==
  \A o \in Op : op[o].state = "complete" =>
    \E r \in RowsOf(o) : pay[r].state = "settled"

\* Evidence from a stale snapshot never overrides a receipt, nor a receipt a
\* release; a completed operation, and a closed one that had a reservation,
\* are never reopened.
OutcomesAreFinal ==
  [][/\ \A r \in Resv : pay[r].state \in {"settled", "released"} => pay'[r] = pay[r]
     /\ \A o \in Op : \/ op[o].state = "complete"
                      \/ op[o].state = "unsigned_failed" /\ RowsOf(o) # {}
                      => op'[o].state = op[o].state]_vars

\* A signed authorization does not consume budget for ever without an outcome.
AuthorizationsResolve ==
  \A r \in Resv : pay[r].state = "authorized" ~> pay[r].state # "authorized"

\* The abstract promise, on the operation rows and the chain.
LiveOf(a) == {r \in Resv : opOf[r] # NoOp /\ ActionOf(r) = a /\ pay[r].state \in Counting}
ChargedOf(a) == {r \in Resv : opOf[r] # NoOp /\ ActionOf(r) = a /\ auth[r].chain = "used"}

P == INSTANCE Purchase WITH
       Actions <- Op, Auths <- Resv,
       live <- [a \in Op |-> LiveOf(a)],
       charged <- [a \in Op |-> ChargedOf(a)]

\* Every step of callers, workers and chain is a step of Purchase, or none.
PurchaseSpec == P!Spec

=============================================================================
