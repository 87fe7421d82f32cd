------------------------ MODULE MarketplaceApproval ------------------------
(***************************************************************************)
(* Approvals of marketplace actions                                        *)
(* (server/src/services/marketplace.py, marketplace_payments.py).          *)
(*                                                                         *)
(* `prepare` fetches a challenge and stores what the user will review;     *)
(* `submit`, called later and perhaps more than once, checks that nothing  *)
(* reviewed has changed, claims the row, signs the challenge with the      *)
(* wallet and sends it.  When Markets answers with an offer to pay, the    *)
(* same submit, or a later one of the completed approval, pays it under    *)
(* the approval's id as operation id.  That payment is the abstract        *)
(* Purchase, which PaymentOperations implements.                           *)
(***************************************************************************)
EXTENDS Integers, FiniteSets

CONSTANTS
  Approvals,   \* approval ids; a uuid is never drawn twice
  Submitters,  \* concurrent submits
  Auths,       \* payment authorizations
  MaxTime,     \* last instant of the clock
  MaxChanges   \* changes of what an approval depends on

ASSUME ApprovalAssumption == MaxTime \in Nat /\ MaxChanges \in Nat

VARIABLES
  row,      \* the rows of marketplace_approvals
  submit,   \* where each submit is, with the row it read
  world,    \* the versions of what an approval depends on
  now,      \* the clock
  signed,   \* history: ownership proofs of the approved action
  orders,   \* external: times Markets carried out the action and asked for payment
  live,     \* Purchase: authorizations of each approval that still count
  charged,  \* Purchase: authorizations the chain has executed
  reserved  \* approvals whose operation has a row in x402_payments, released or not

purchase == <<live, charged, reserved>>
vars == <<row, submit, world, now, signed, orders, live, charged, reserved>>

Payment == INSTANCE Purchase WITH Actions <- Approvals

-----------------------------------------------------------------------------
\* Local settings, API key and what the deployment declares of itself; the digest
\* of the tool it publishes; the account behind wallet and key.
Facts == {"settings", "contract", "account"}
Version == 0..MaxChanges
Time == 0..MaxTime

Result == {"none", "offer", "other"}
Absent == [state |-> "absent"]
Purged == [state |-> "purged"]
Row == {Absent, Purged}
  \cup [state : {"prepared", "submitted", "completed"}, review : [Facts -> Version],
        expires : Time, intent : BOOLEAN, result : Result]

Idle == [at |-> "idle"]
Submit == {Idle} \cup
  [at : {"read", "known", "authorized", "claimed", "signed", "sent", "offered", "other",
         "completed", "unpaid", "paying"}, id : Approvals, was : Row]

Init ==
  /\ row = [a \in Approvals |-> Absent]
  /\ submit = [p \in Submitters |-> Idle]
  /\ world = [f \in Facts |-> 0]
  /\ now = 0
  /\ signed = [a \in Approvals |-> 0]
  /\ orders = [a \in Approvals |-> 0]
  /\ Payment!Init /\ reserved = {}

Id(p) == submit[p].id

\* Each is asked for anew, from the place that has it, and compared with the review.
SameSettings(review) == review["settings"] = world["settings"]
SameContract(p) == submit[p].was.review["contract"] = world["contract"]
SameAccount(p) == submit[p].was.review["account"] = world["account"]

Step(p, from, to) ==
  submit[p].at = from /\ submit' = [submit EXCEPT ![p].at = to]
Stop(p) == submit' = [submit EXCEPT ![p] = Idle]

-----------------------------------------------------------------------------
(* prepare *)

\* Expired rows are deleted, but never one that was claimed.
Purge(r) == [a \in Approvals |->
  IF r[a].state = "prepared" /\ r[a].expires <= now THEN Purged ELSE r[a]]

\* The challenge binds contract, account and network, so the row is what held
\* when it was fetched.
Prepare(a, expires, intent) ==
  /\ row[a] = Absent /\ now < expires
  /\ row' = [Purge(row) EXCEPT ![a] =
               [state |-> "prepared", review |-> world, expires |-> expires,
                intent |-> intent, result |-> "none"]]
  /\ UNCHANGED <<submit, world, now, signed, orders, purchase>>

\* The same deletion, by a prepare of an approval that is not in Approvals.
PrepareOther ==
  /\ row' = Purge(row)
  /\ UNCHANGED <<submit, world, now, signed, orders, purchase>>

-----------------------------------------------------------------------------
(* submit, up to the claim *)

\* The row is read once; settings and key must be those of the review.  A
\* completed approval goes on to its payment, a submitted one is refused.
Read(p, a) ==
  /\ submit[p] = Idle /\ row[a] \notin {Absent, Purged}
  /\ SameSettings(row[a].review)
  /\ row[a].state \in {"prepared", "completed"}
  /\ submit' = [submit EXCEPT ![p] =
       [at |-> IF row[a].state = "completed" THEN "completed" ELSE "read", id |-> a, was |-> row[a]]]
  /\ UNCHANGED <<row, world, now, signed, orders, purchase>>

\* Every remote check is a call of its own, and the world may change between.
CheckContract(p) ==
  /\ Step(p, "read", "known")
  /\ SameContract(p)
  /\ UNCHANGED <<row, world, now, signed, orders, purchase>>

CheckAccount(p) ==
  /\ Step(p, "known", "authorized")
  /\ SameAccount(p)
  /\ now < submit[p].was.expires
  /\ UNCHANGED <<row, world, now, signed, orders, purchase>>

\* Variant: the claim trusts the row that was read.
MayClaimStale(p) == submit[p].was.state = "prepared" /\ submit[p].was.expires > now

\* Variant: nor is the time looked at again.
MayClaimLate(p) == submit[p].was.state = "prepared"

MayClaim(p) == row[Id(p)].state = "prepared" /\ row[Id(p)].expires > now

\* The claim is one conditional UPDATE; it decides between concurrent submits.
Claim(p) ==
  /\ Step(p, "authorized", "claimed")
  /\ MayClaim(p)
  /\ row' = [row EXCEPT ![Id(p)].state = "submitted"]
  /\ UNCHANGED <<world, now, signed, orders, purchase>>

-----------------------------------------------------------------------------
(* submit, once claimed *)

\* sign_marketplace_proof validates the challenge, and its lifetime, again.
Sign(p) ==
  /\ Step(p, "claimed", "signed")
  /\ now < submit[p].was.expires
  /\ signed' = [signed EXCEPT ![Id(p)] = @ + 1]
  /\ UNCHANGED <<row, world, now, orders, purchase>>

\* _markets_call lists the tools and compares the digest before it calls.
Send(p) ==
  /\ Step(p, "signed", "sent")
  /\ SameContract(p)
  /\ UNCHANGED <<row, world, now, signed, orders, purchase>>

\* External: Markets verifies the proof for the account that sends it, while it
\* lasts.  It asks for payment, or answers with a result or a refusal; the
\* answer may be lost after the deed (Fail).
Answer(p) ==
  /\ \/ /\ Step(p, "sent", "offered")
        /\ submit[p].was.intent /\ now < submit[p].was.expires
        /\ SameAccount(p)
        /\ orders' = [orders EXCEPT ![Id(p)] = @ + 1]
     \/ Step(p, "sent", "other") /\ UNCHANGED orders
  /\ UNCHANGED <<row, world, now, signed, purchase>>

\* The answer is stored before anything is paid.
Record(p) ==
  /\ submit[p].at \in {"offered", "other"}
  /\ LET r == IF submit[p].at = "offered" THEN "offer" ELSE "other"
         done == [row[Id(p)] EXCEPT !.state = "completed", !.result = r] IN
     /\ row' = [row EXCEPT ![Id(p)] = done]
     /\ submit' = [submit EXCEPT ![p] = [at |-> "completed", id |-> Id(p), was |-> done]]
  /\ UNCHANGED <<world, now, signed, orders, purchase>>

-----------------------------------------------------------------------------
(* continue_payment *)

\* Variant: whatever the action answered, its intent is paid.
AsksPaymentAlways(p) == submit[p].was.intent

AsksPayment(p) == submit[p].was.intent /\ submit[p].was.result = "offer"

\* Without an offer the stored result is the answer.  An expired approval is not
\* paid for the first time.
Continue(p) ==
  /\ submit[p].at = "completed"
  /\ IF AsksPayment(p) /\ (now < submit[p].was.expires \/ Id(p) \in reserved)
     THEN Step(p, "completed", "unpaid")
     ELSE Stop(p)
  /\ UNCHANGED <<row, world, now, signed, orders, purchase>>

CheckPayment(p) ==
  /\ Step(p, "unpaid", "paying")
  /\ SameContract(p)
  /\ SameAccount(p)
  /\ UNCHANGED <<row, world, now, signed, orders, purchase>>

\* A fresh challenge for the payment tool is signed, and the operation of this id
\* is authorized, or its earlier authorization used again.
Pay(p) ==
  /\ submit[p].at = "paying" /\ Stop(p)
  /\ SameAccount(p)
  /\ \/ (\E x \in Auths : Payment!Authorize(Id(p), x)) /\ reserved' = reserved \cup {Id(p)}
     \/ live[Id(p)] # {} /\ UNCHANGED purchase
  /\ UNCHANGED <<row, world, now, signed, orders>>

-----------------------------------------------------------------------------
\* A check, a call or the wallet fails, or an answer is lost: the submit ends, and
\* the row stays as it is.
Fail(p) ==
  /\ submit[p] # Idle /\ Stop(p)
  /\ UNCHANGED <<row, world, now, signed, orders, purchase>>

\* The process stops: rows stay, submits are gone.
Crash ==
  /\ submit' = [p \in Submitters |-> Idle]
  /\ UNCHANGED <<row, world, now, signed, orders, purchase>>

Change(f) ==
  /\ world[f] < MaxChanges
  /\ world' = [world EXCEPT ![f] = @ + 1]
  /\ UNCHANGED <<row, submit, now, signed, orders, purchase>>

Tick ==
  /\ now < MaxTime /\ now' = now + 1
  /\ UNCHANGED <<row, submit, world, signed, orders, purchase>>

\* What the chain and recovery do to an authorized payment.
Settle(a) ==
  /\ (\E x \in Auths : Payment!Charge(a, x)) \/ Payment!Void(a) \/ Payment!Orphan(a)
  /\ UNCHANGED <<row, submit, world, now, signed, orders, reserved>>

Next ==
  \/ \E a \in Approvals, e \in Time, i \in BOOLEAN : Prepare(a, e, i)
  \/ \E p \in Submitters :
       \/ \E a \in Approvals : Read(p, a)
       \/ CheckContract(p) \/ CheckAccount(p) \/ Claim(p) \/ Sign(p) \/ Send(p)
       \/ Answer(p) \/ Record(p) \/ Continue(p) \/ CheckPayment(p) \/ Pay(p) \/ Fail(p)
  \/ PrepareOther \/ Crash \/ Tick
  \/ \E f \in Facts : Change(f)
  \/ \E a \in Approvals : Settle(a)

Spec == Init /\ [][Next]_vars

-----------------------------------------------------------------------------
(* Properties *)

\* Every row, submit and counter has its type.
TypeOK ==
  /\ row \in [Approvals -> Row] /\ submit \in [Submitters -> Submit]
  /\ world \in [Facts -> Version] /\ now \in Time
  /\ signed \in [Approvals -> Nat] /\ orders \in [Approvals -> Nat]
  /\ live \in [Approvals -> SUBSET Auths] /\ charged \in [Approvals -> SUBSET Auths]
  /\ reserved \subseteq Approvals

\* "Claim once before signing": however many submits of an approval run at once,
\* come late or follow a crash, its action is signed, and carried out, at most once
\* (marketplace.py, submit).
SignedOnce == \A a \in Approvals : orders[a] <= signed[a] /\ signed[a] <= 1

\* Money is only authorized for an action that Markets carried out and priced, and
\* whose answer is in the row: an uncertain submit is never paid for
\* (marketplace_payments.py, continue_payment).
PaidForOffer ==
  \A a \in Approvals : live[a] # {} =>
    /\ orders[a] = 1
    /\ row[a].state = "completed" /\ row[a].intent /\ row[a].result = "offer"

=============================================================================
