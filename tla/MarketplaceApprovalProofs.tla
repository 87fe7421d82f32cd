--------------------- MODULE MarketplaceApprovalProofs ---------------------
(***************************************************************************)
(* Theorems of MarketplaceApproval, for any number of approvals, submits   *)
(* and authorizations, any clock and any number of changes.  The invariant *)
(* says what a submit may rely on at each of its places: a claim is one    *)
(* submit's, and what it knows of signature and answer is true; once an    *)
(* answer is in the row, the row never changes again.                      *)
(***************************************************************************)
EXTENDS MarketplaceApproval, TLAPS

\* A row that was not deleted.
Full == [state : {"prepared", "submitted", "completed"}, review : [Facts -> Version],
         expires : Time, intent : BOOLEAN, result : Result]

Held == {"claimed", "signed", "sent", "offered", "other"}
Late == {"completed", "unpaid", "paying"}
Holds(p) == submit[p].at \in Held

\* What a submit has read is a row, and the row still has the intent it read.
Reading ==
  \A p \in Submitters : submit[p] # Idle =>
    /\ submit[p].was \in Full
    /\ row[Id(p)] # Absent
    /\ row[Id(p)] \in Full => row[Id(p)].intent = submit[p].was.intent

\* A claim is one submit's, and its row waits for it.
Claimed ==
  \A p \in Submitters : Holds(p) =>
    /\ row[Id(p)] \in Full /\ row[Id(p)].state = "submitted"
    /\ \A q \in Submitters \ {p} : Holds(q) => Id(q) # Id(p)

\* What was signed and carried out at each place of a claim.
Progress ==
  \A p \in Submitters :
    /\ submit[p].at = "claimed" => signed[Id(p)] = 0 /\ orders[Id(p)] = 0
    /\ submit[p].at \in {"signed", "sent", "other"} => signed[Id(p)] = 1 /\ orders[Id(p)] = 0
    /\ submit[p].at = "offered" =>
         signed[Id(p)] = 1 /\ orders[Id(p)] = 1 /\ submit[p].was.intent

\* A submit that is past the answer has read the row as it stays.
Answered ==
  \A p \in Submitters :
    /\ submit[p].at \in Late =>
         /\ row[Id(p)] \in Full /\ row[Id(p)].state = "completed"
         /\ row[Id(p)].result = submit[p].was.result
    /\ submit[p].at \in {"unpaid", "paying"} =>
         submit[p].was.intent /\ submit[p].was.result = "offer"

\* Nothing is signed or carried out for a row that was not claimed.
Unclaimed ==
  \A a \in Approvals :
    row[a] \notin Full \/ row[a].state = "prepared" => signed[a] = 0 /\ orders[a] = 0

\* An offer in a row is one Markets made for an approval with the intent to pay.
Offered ==
  \A a \in Approvals :
    row[a] \in Full /\ row[a].state = "completed" /\ row[a].result = "offer" =>
      orders[a] = 1 /\ row[a].intent

IInv == /\ TypeOK /\ Reading /\ Claimed /\ Progress /\ Answered /\ Unclaimed /\ Offered
        /\ SignedOnce /\ PaidForOffer

-----------------------------------------------------------------------------
(* Shapes *)

Early == {"read", "known", "authorized"}
Working == Early \cup Held \cup Late

LEMMA RowShape ==
  /\ Row = {Absent, Purged} \cup Full
  /\ Absent \notin Full /\ Purged \notin Full /\ Absent # Purged
  /\ \A r \in Row : r.state \in {"prepared", "submitted", "completed"} <=> r \in Full
  BY DEF Row, Absent, Purged, Full

LEMMA SubmitShape ==
  ASSUME TypeOK, NEW p \in Submitters
  PROVE  /\ submit[p].at \in {"idle"} \cup Working
         /\ submit[p].at = "idle" <=> submit[p] = Idle
         /\ submit[p] # Idle => Id(p) \in Approvals /\ submit[p].was \in Row
  BY DEF TypeOK, Submit, Idle, Working, Early, Held, Late, Id

\* Moving a submit on changes nothing but its place.
LEMMA Steps ==
  ASSUME TypeOK, NEW p \in Submitters, NEW from \in Working, NEW to \in Working,
         Step(p, from, to)
  PROVE  /\ submit' \in [Submitters -> Submit]
         /\ submit[p] # Idle /\ submit[p].at = from
         /\ submit'[p] # Idle /\ submit'[p].at = to
         /\ Id(p)' = Id(p) /\ submit'[p].was = submit[p].was
         /\ \A q \in Submitters \ {p} : submit'[q] = submit[q] /\ Id(q)' = Id(q)
<1>1. submit[p].at = from /\ submit' = [submit EXCEPT ![p].at = to]
  BY DEF Step
<1>2. submit[p] # Idle
  BY <1>1 DEF Idle, Working, Early, Held, Late
<1>3. submit[p] \in [at : Working, id : Approvals, was : Row]
  BY <1>2 DEF TypeOK, Submit, Working, Early, Held, Late
<1>4. submit'[p] = [submit[p] EXCEPT !.at = to] /\ submit' \in [Submitters -> {submit[q] : q \in Submitters} \cup {submit'[p]}]
  BY <1>1 DEF TypeOK
<1>5. submit'[p] \in [at : Working, id : Approvals, was : Row]
  BY <1>3, <1>4
<1>6. submit'[p] \in Submit
  BY <1>5 DEF Submit, Working, Early, Held, Late
<1>7. submit' \in [Submitters -> Submit]
  BY <1>1, <1>6 DEF TypeOK
<1>8. submit'[p].at = to /\ submit'[p].id = submit[p].id /\ submit'[p].was = submit[p].was
  BY <1>3, <1>4
<1>9. submit'[p] # Idle
  BY <1>8 DEF Idle, Working, Early, Held, Late
<1>10. \A q \in Submitters \ {p} : submit'[q] = submit[q]
  BY <1>1 DEF TypeOK
<1> QED
  BY <1>1, <1>2, <1>7, <1>8, <1>9, <1>10 DEF Id

\* A submit that ends leaves the others as they are.
LEMMA Stops ==
  ASSUME TypeOK, NEW p \in Submitters, Stop(p)
  PROVE  /\ submit' \in [Submitters -> Submit]
         /\ submit'[p] = Idle /\ submit'[p].at = "idle"
         /\ \A q \in Submitters \ {p} : submit'[q] = submit[q] /\ Id(q)' = Id(q)
<1>1. submit' = [submit EXCEPT ![p] = Idle] /\ Idle \in Submit
  BY DEF Stop, Submit
<1> QED
  BY <1>1 DEF TypeOK, Idle, Id

-----------------------------------------------------------------------------
LEMMA InitInv == Init => IInv
<1> SUFFICES ASSUME Init PROVE IInv
  OBVIOUS
<1> USE ApprovalAssumption
<1>1. \A p \in Submitters : submit[p] = Idle /\ submit[p].at = "idle"
  BY DEF Init, Idle
<1>2. \A a \in Approvals : row[a] = Absent /\ signed[a] = 0 /\ orders[a] = 0 /\ live[a] = {}
  BY DEF Init, Payment!Init
<1>3. TypeOK
  BY DEF Init, TypeOK, Payment!Init, Row, Submit, Version, Time
<1>4. Reading /\ Claimed /\ Progress /\ Answered
  BY <1>1 DEF Reading, Claimed, Progress, Answered, Holds, Held, Late
<1>5. Unclaimed /\ Offered /\ SignedOnce /\ PaidForOffer
  BY <1>2, RowShape DEF Unclaimed, Offered, SignedOnce, PaidForOffer
<1> QED
  BY <1>3, <1>4, <1>5 DEF IInv

-----------------------------------------------------------------------------
(* Rows and submits that a step leaves alone *)

\* An invariant of a's row holds still when the row, the counters and the
\* payment of a stay.
LEMMA RowsStay ==
  ASSUME IInv, row' = row, signed' = signed, orders' = orders, UNCHANGED purchase
  PROVE  Unclaimed' /\ Offered' /\ SignedOnce' /\ PaidForOffer'
  BY DEF IInv, Unclaimed, Offered, SignedOnce, PaidForOffer, purchase

\* A step that moves one submit between places that claim nothing.
LEMMA EarlySteps ==
  ASSUME IInv, NEW p \in Submitters, NEW from \in Early, NEW to \in Early,
         Step(p, from, to), UNCHANGED <<row, world, now, signed, orders, purchase>>
  PROVE  IInv'
<1>1. /\ submit' \in [Submitters -> Submit]
      /\ submit[p] # Idle /\ submit[p].at = from
      /\ submit'[p] # Idle /\ submit'[p].at = to
      /\ Id(p)' = Id(p) /\ submit'[p].was = submit[p].was
      /\ \A q \in Submitters \ {p} : submit'[q] = submit[q] /\ Id(q)' = Id(q)
  <2>1. from \in Working /\ to \in Working
    BY DEF Working
  <2> QED
    BY <2>1, Steps DEF IInv
<1>2. to \notin Held \cup Late /\ to \notin {"unpaid", "paying"}
  BY DEF Early, Held, Late
<1>3. TypeOK'
  BY <1>1 DEF IInv, TypeOK, purchase
<1>4. Reading'
  BY <1>1 DEF IInv, Reading
<1>5. Claimed'
  BY <1>1, <1>2 DEF IInv, Claimed, Holds
<1>6. Progress'
  BY <1>1, <1>2 DEF IInv, Progress, Held
<1>7. Answered'
  BY <1>1, <1>2 DEF IInv, Answered
<1> QED
  BY <1>3, <1>4, <1>5, <1>6, <1>7, RowsStay DEF IInv

LEMMA ReadKeeps ==
  ASSUME IInv, NEW p \in Submitters, NEW a \in Approvals, Read(p, a)
  PROVE  IInv'
<1>1. row[a] \in Full /\ row[a].state \in {"prepared", "completed"}
  BY RowShape DEF IInv, TypeOK, Read
<1> DEFINE new == [at |-> IF row[a].state = "completed" THEN "completed" ELSE "read",
                   id |-> a, was |-> row[a]]
<1>2. /\ submit' = [submit EXCEPT ![p] = new]
      /\ UNCHANGED <<row, world, now, signed, orders, purchase>>
  BY DEF Read
<1>3. /\ new \in Submit /\ new # Idle
      /\ new.at \in {"completed", "read"}
      /\ new.at = "completed" => row[a].state = "completed"
  BY <1>1, RowShape DEF Submit, Idle
<1>4. /\ submit' \in [Submitters -> Submit]
      /\ submit'[p] = new /\ Id(p)' = a
      /\ \A q \in Submitters \ {p} : submit'[q] = submit[q] /\ Id(q)' = Id(q)
  BY <1>2, <1>3 DEF IInv, TypeOK, Id
<1>5. new.was = row[a]
  OBVIOUS
<1> HIDE DEF new
<1>6. TypeOK'
  BY <1>2, <1>4 DEF IInv, TypeOK, purchase
<1>7. Reading'
  BY <1>1, <1>2, <1>3, <1>4, <1>5, RowShape DEF IInv, Reading
<1>8. Claimed'
  BY <1>2, <1>3, <1>4 DEF IInv, Claimed, Holds, Held
<1>9. Progress'
  BY <1>2, <1>3, <1>4 DEF IInv, Progress
<1>10. Answered'
  BY <1>1, <1>2, <1>3, <1>4, <1>5 DEF IInv, Answered, Late
<1> QED
  BY <1>2, <1>6, <1>7, <1>8, <1>9, <1>10, RowsStay DEF IInv

\* The claim: its row was prepared, so nobody holds it and nothing was signed.
LEMMA ClaimKeeps ==
  ASSUME IInv, NEW p \in Submitters, Claim(p)
  PROVE  IInv'
<1> DEFINE a == Id(p)
<1>1. /\ submit' \in [Submitters -> Submit]
      /\ submit[p] # Idle /\ submit[p].at = "authorized"
      /\ submit'[p] # Idle /\ submit'[p].at = "claimed"
      /\ Id(p)' = Id(p) /\ a = Id(p) /\ submit'[p].was = submit[p].was
      /\ \A q \in Submitters \ {p} : submit'[q] = submit[q] /\ Id(q)' = Id(q)
  <2>1. "authorized" \in Working /\ "claimed" \in Working
    BY DEF Working, Early, Held
  <2> QED
    BY <2>1, Steps DEF IInv, Claim
<1>2. a \in Approvals /\ submit[p].was \in Full
  BY <1>1, SubmitShape DEF IInv, Reading
<1>3. row[a] \in Full /\ row[a].state = "prepared"
  BY <1>2, RowShape DEF IInv, TypeOK, Claim, MayClaim
<1>4. /\ row' = [row EXCEPT ![a].state = "submitted"]
      /\ UNCHANGED <<world, now, signed, orders, purchase>>
  BY DEF Claim
<1>5. /\ row'[a] \in Full /\ row'[a].state = "submitted" /\ row'[a].intent = row[a].intent
      /\ \A b \in Approvals \ {a} : row'[b] = row[b]
  BY <1>2, <1>3, <1>4 DEF IInv, TypeOK, Full
<1>6. row' \in [Approvals -> Row]
  BY <1>2, <1>4, <1>5, RowShape DEF IInv, TypeOK
<1>7. \A q \in Submitters : Holds(q) => Id(q) # a
  BY <1>3 DEF IInv, Claimed
<1>8. signed[a] = 0 /\ orders[a] = 0
  BY <1>2, <1>3 DEF IInv, Unclaimed
<1> HIDE DEF a
<1>9. TypeOK'
  BY <1>1, <1>4, <1>6 DEF IInv, TypeOK, purchase
<1>10. Reading'
  <2> SUFFICES ASSUME NEW q \in Submitters, submit'[q] # Idle
               PROVE  /\ submit'[q].was \in Full /\ row'[Id(q)'] # Absent
                      /\ row'[Id(q)'] \in Full => row'[Id(q)'].intent = submit'[q].was.intent
    BY DEF Reading
  <2>1. submit[q] # Idle /\ Id(q)' = Id(q) /\ submit'[q].was = submit[q].was
    BY <1>1
  <2>2. Id(q) \in Approvals
    BY <2>1, SubmitShape DEF IInv
  <2> QED
    BY <1>3, <1>5, <2>1, <2>2, RowShape DEF IInv, Reading
<1>11. Claimed'
  <2> SUFFICES ASSUME NEW q \in Submitters, Holds(q)'
               PROVE  /\ row'[Id(q)'] \in Full /\ row'[Id(q)'].state = "submitted"
                      /\ \A u \in Submitters \ {q} : Holds(u)' => Id(u)' # Id(q)'
    BY DEF Claimed
  <2>1. CASE q = p
    BY <1>1, <1>5, <1>7, <2>1 DEF Holds
  <2>2. CASE q # p
    <3>1. Holds(q) /\ Id(q)' = Id(q) /\ Id(q) # a /\ Id(q) \in Approvals
      <4>1. Holds(q) /\ Id(q)' = Id(q)
        BY <1>1, <2>2 DEF Holds
      <4>2. submit[q] # Idle
        BY <4>1 DEF Holds, Held, Idle
      <4> QED
        BY <1>7, <4>1, <4>2, SubmitShape DEF IInv
    <3> QED
      BY <1>1, <1>5, <3>1 DEF IInv, Claimed, Holds
  <2> QED
    BY <2>1, <2>2
<1>12. Progress'
  BY <1>1, <1>4, <1>8 DEF IInv, Progress
<1>13. Answered'
  <2> SUFFICES ASSUME NEW q \in Submitters, submit'[q].at \in Late
               PROVE  /\ row'[Id(q)'] \in Full /\ row'[Id(q)'].state = "completed"
                      /\ row'[Id(q)'].result = submit'[q].was.result
                      /\ submit'[q].at \in {"unpaid", "paying"} =>
                           submit'[q].was.intent /\ submit'[q].was.result = "offer"
    BY DEF Answered, Late
  <2>1. q # p /\ submit'[q] = submit[q] /\ Id(q)' = Id(q)
    BY <1>1 DEF Late
  <2>2. row[Id(q)] \in Full /\ row[Id(q)].state = "completed" /\ Id(q) # a
    BY <1>3, <2>1 DEF IInv, Answered
  <2>3. Id(q) \in Approvals
    BY <2>1, SubmitShape DEF IInv, Late, Idle
  <2> QED
    BY <1>5, <2>1, <2>2, <2>3 DEF IInv, Answered
<1>14. Unclaimed' /\ Offered' /\ SignedOnce' /\ PaidForOffer'
  BY <1>2, <1>3, <1>4, <1>5, <1>8, RowShape
     DEF IInv, Unclaimed, Offered, SignedOnce, PaidForOffer, purchase
<1> QED
  BY <1>9, <1>10, <1>11, <1>12, <1>13, <1>14 DEF IInv

\* A step that moves one claim on: the row waits, the counters follow the place.
LEMMA HeldSteps ==
  ASSUME IInv, NEW p \in Submitters, NEW from \in Held, NEW to \in Held,
         Step(p, from, to), UNCHANGED <<row, world, now, purchase>>,
         NEW s \in {0, 1}, NEW n \in {0, 1}, n <= s,
         signed' = [signed EXCEPT ![Id(p)] = s], orders' = [orders EXCEPT ![Id(p)] = n],
         to = "claimed" => s = 0 /\ n = 0,
         to \in {"signed", "sent", "other"} => s = 1 /\ n = 0,
         to = "offered" => s = 1 /\ n = 1 /\ submit[p].was.intent
  PROVE  IInv'
<1>1. /\ submit' \in [Submitters -> Submit]
      /\ submit[p] # Idle /\ submit[p].at = from
      /\ submit'[p] # Idle /\ submit'[p].at = to
      /\ Id(p)' = Id(p) /\ submit'[p].was = submit[p].was
      /\ \A q \in Submitters \ {p} : submit'[q] = submit[q] /\ Id(q)' = Id(q)
  <2>1. from \in Working /\ to \in Working
    BY DEF Working
  <2> QED
    BY <2>1, Steps DEF IInv
<1>2. Id(p) \in Approvals /\ Holds(p)
  BY <1>1, SubmitShape DEF IInv, Holds
<1>3. to \notin Late
  BY DEF Held, Late
<1>4. row[Id(p)] \in Full /\ row[Id(p)].state = "submitted"
  BY <1>2 DEF IInv, Claimed
<1>5. \A q \in Submitters \ {p} : Holds(q) => Id(q) # Id(p)
  BY <1>2 DEF IInv, Claimed
<1>6. /\ signed' \in [Approvals -> Nat] /\ orders' \in [Approvals -> Nat]
      /\ signed'[Id(p)] = s /\ orders'[Id(p)] = n
      /\ \A b \in Approvals : b # Id(p) => signed'[b] = signed[b] /\ orders'[b] = orders[b]
  BY <1>2 DEF IInv, TypeOK
<1>7. TypeOK'
  BY <1>1, <1>6 DEF IInv, TypeOK, purchase
<1>8. Reading'
  BY <1>1 DEF IInv, Reading
<1>9. Claimed'
  BY <1>1, <1>2 DEF IInv, Claimed, Holds
<1>10. Progress'
  <2> SUFFICES ASSUME NEW q \in Submitters
               PROVE  /\ submit'[q].at = "claimed" => signed'[Id(q)'] = 0 /\ orders'[Id(q)'] = 0
                      /\ submit'[q].at \in {"signed", "sent", "other"} =>
                           signed'[Id(q)'] = 1 /\ orders'[Id(q)'] = 0
                      /\ submit'[q].at = "offered" =>
                           signed'[Id(q)'] = 1 /\ orders'[Id(q)'] = 1 /\ submit'[q].was.intent
    BY DEF Progress
  <2>1. CASE q = p
    BY <1>1, <1>6, <2>1
  <2>2. CASE q # p /\ Holds(q)
    <3>1. Id(q) \in Approvals
      BY <2>2, SubmitShape DEF IInv, Holds, Held, Idle
    <3> QED
      BY <1>1, <1>5, <1>6, <2>2, <3>1 DEF IInv, Progress
  <2>3. CASE q # p /\ ~Holds(q)
    BY <1>1, <2>3 DEF Holds, Held
  <2> QED
    BY <2>1, <2>2, <2>3
<1>11. Answered'
  BY <1>1, <1>3 DEF IInv, Answered, Late
<1>12. Unclaimed' /\ Offered' /\ SignedOnce' /\ PaidForOffer'
  BY <1>2, <1>4, <1>6 DEF IInv, Unclaimed, Offered, SignedOnce, PaidForOffer, purchase, TypeOK
<1> QED
  BY <1>7, <1>8, <1>9, <1>10, <1>11, <1>12 DEF IInv

LEMMA SignKeeps ==
  ASSUME IInv, NEW p \in Submitters, Sign(p)
  PROVE  IInv'
<1>1. submit[p].at = "claimed" /\ Step(p, "claimed", "signed")
  BY DEF Sign, Step
<1>2. Id(p) \in Approvals /\ signed[Id(p)] = 0 /\ orders[Id(p)] = 0
  BY <1>1, SubmitShape DEF IInv, Progress, Idle
<1>3. signed' = [signed EXCEPT ![Id(p)] = 1] /\ orders' = [orders EXCEPT ![Id(p)] = 0]
  BY <1>2 DEF Sign, IInv, TypeOK
<1>4. UNCHANGED <<row, world, now, purchase>>
  BY DEF Sign
<1>5. "claimed" \in Held /\ "signed" \in Held /\ 0 <= 1
  BY DEF Held
<1> QED
  BY <1>1, <1>3, <1>4, <1>5, HeldSteps

LEMMA SendKeeps ==
  ASSUME IInv, NEW p \in Submitters, Send(p)
  PROVE  IInv'
<1>1. submit[p].at = "signed" /\ Step(p, "signed", "sent")
  BY DEF Send, Step
<1>2. Id(p) \in Approvals /\ signed[Id(p)] = 1 /\ orders[Id(p)] = 0
  BY <1>1, SubmitShape DEF IInv, Progress, Idle
<1>3. signed' = [signed EXCEPT ![Id(p)] = 1] /\ orders' = [orders EXCEPT ![Id(p)] = 0]
  BY <1>2 DEF Send, IInv, TypeOK
<1>4. UNCHANGED <<row, world, now, purchase>>
  BY DEF Send
<1>5. "signed" \in Held /\ "sent" \in Held /\ 0 <= 1
  BY DEF Held
<1> QED
  BY <1>1, <1>3, <1>4, <1>5, HeldSteps

LEMMA AnswerKeeps ==
  ASSUME IInv, NEW p \in Submitters, Answer(p)
  PROVE  IInv'
<1>1. submit[p].at = "sent"
  BY DEF Answer, Step
<1>2. Id(p) \in Approvals /\ signed[Id(p)] = 1 /\ orders[Id(p)] = 0
  BY <1>1, SubmitShape DEF IInv, Progress, Idle
<1>3. signed' = [signed EXCEPT ![Id(p)] = 1]
  BY <1>2 DEF Answer, IInv, TypeOK
<1>4. UNCHANGED <<row, world, now, purchase>>
  BY DEF Answer
<1>5. "sent" \in Held /\ "offered" \in Held /\ "other" \in Held /\ 0 <= 1 /\ 1 <= 1
  BY DEF Held
<1>6. CASE Step(p, "sent", "offered") /\ submit[p].was.intent
            /\ orders' = [orders EXCEPT ![Id(p)] = @ + 1]
  <2>1. orders' = [orders EXCEPT ![Id(p)] = 1]
    BY <1>2, <1>6
  <2> QED
    BY <1>3, <1>4, <1>5, <1>6, <2>1, HeldSteps
<1>7. CASE Step(p, "sent", "other") /\ UNCHANGED orders
  <2>1. orders' = [orders EXCEPT ![Id(p)] = 0]
    BY <1>2, <1>7 DEF IInv, TypeOK
  <2> QED
    BY <1>3, <1>4, <1>5, <1>7, <2>1, HeldSteps
<1> QED
  BY <1>6, <1>7 DEF Answer

-----------------------------------------------------------------------------
(* prepare *)

\* A deletion takes nothing that was claimed.
LEMMA PurgeShape ==
  ASSUME TypeOK
  PROVE  /\ Purge(row) \in [Approvals -> Row]
         /\ \A b \in Approvals :
              \/ Purge(row)[b] = row[b]
              \/ row[b] \in Full /\ row[b].state = "prepared" /\ Purge(row)[b] = Purged
<1>1. \A b \in Approvals : row[b] \in Row
  BY DEF TypeOK
<1> QED
  BY <1>1, RowShape DEF Purge

\* Rows that are new or deleted are rows nobody has claimed.
LEMMA FreshRows ==
  ASSUME IInv, UNCHANGED <<submit, world, now, signed, orders, purchase>>,
         row' \in [Approvals -> Row],
         \A b \in Approvals :
           \/ row'[b] = row[b]
           \/ row[b] \in Full /\ row[b].state = "prepared" /\ row'[b] = Purged
           \/ row[b] = Absent /\ row'[b] \in Full /\ row'[b].state = "prepared"
  PROVE  IInv'
<1>1. \A q \in Submitters : Id(q)' = Id(q) /\ Holds(q)' = Holds(q)
  BY DEF Id, Holds
<1>2. \A q \in Submitters : submit[q] # Idle => Id(q) \in Approvals
  BY SubmitShape DEF IInv
<1>3. \A q \in Submitters : Holds(q) \/ submit[q].at \in Late => submit[q] # Idle
  BY DEF Holds, Held, Late, Idle
<1>4. TypeOK'
  BY DEF IInv, TypeOK, purchase
<1>5. Reading'
  BY <1>1, <1>2, RowShape DEF IInv, Reading
<1>6. Claimed'
  BY <1>1, <1>2, <1>3, RowShape DEF IInv, Claimed
<1>7. Progress'
  BY <1>1 DEF IInv, Progress
<1>8. Answered'
  <2> SUFFICES ASSUME NEW q \in Submitters, submit[q].at \in Late
               PROVE  row'[Id(q)] = row[Id(q)]
    BY <1>1 DEF IInv, Answered, Late
  <2>1. Id(q) \in Approvals /\ row[Id(q)] \in Full /\ row[Id(q)].state = "completed"
    BY <1>2, <1>3 DEF IInv, Answered
  <2> QED
    BY <2>1, RowShape
<1>9. Unclaimed' /\ Offered' /\ SignedOnce' /\ PaidForOffer'
  <2>1. Unclaimed'
    BY RowShape DEF IInv, Unclaimed
  <2>2. Offered'
    BY RowShape DEF IInv, Offered
  <2>3. SignedOnce'
    BY DEF IInv, SignedOnce
  <2>4. PaidForOffer'
    BY RowShape DEF IInv, PaidForOffer, purchase
  <2> QED
    BY <2>1, <2>2, <2>3, <2>4
<1> QED
  BY <1>4, <1>5, <1>6, <1>7, <1>8, <1>9 DEF IInv

LEMMA PrepareKeeps ==
  ASSUME IInv, NEW a \in Approvals, NEW e \in Time, NEW i \in BOOLEAN, Prepare(a, e, i)
  PROVE  IInv'
<1> DEFINE new == [state |-> "prepared", review |-> world, expires |-> e,
                   intent |-> i, result |-> "none"]
<1>1. new \in Full /\ new.state = "prepared"
  BY DEF IInv, TypeOK, Full, Result
<1>2. row[a] = Absent /\ row' = [Purge(row) EXCEPT ![a] = new]
      /\ UNCHANGED <<submit, world, now, signed, orders, purchase>>
  BY DEF Prepare
<1> HIDE DEF new
<1>3. row'[a] = new /\ \A b \in Approvals \ {a} : row'[b] = Purge(row)[b]
  BY <1>2, PurgeShape DEF IInv
<1>4. row' \in [Approvals -> Row]
  BY <1>1, <1>2, PurgeShape, RowShape DEF IInv
<1>5. \A b \in Approvals :
        \/ row'[b] = row[b]
        \/ row[b] \in Full /\ row[b].state = "prepared" /\ row'[b] = Purged
        \/ row[b] = Absent /\ row'[b] \in Full /\ row'[b].state = "prepared"
  BY <1>1, <1>2, <1>3, PurgeShape DEF IInv
<1> QED
  BY <1>2, <1>4, <1>5, FreshRows

LEMMA PrepareOtherKeeps ==
  ASSUME IInv, PrepareOther
  PROVE  IInv'
<1>1. row' = Purge(row) /\ UNCHANGED <<submit, world, now, signed, orders, purchase>>
  BY DEF PrepareOther
<1>2. /\ row' \in [Approvals -> Row]
      /\ \A b \in Approvals :
           \/ row'[b] = row[b]
           \/ row[b] \in Full /\ row[b].state = "prepared" /\ row'[b] = Purged
  BY <1>1, PurgeShape DEF IInv
<1> QED
  BY <1>1, <1>2, FreshRows

-----------------------------------------------------------------------------
(* The answer and the payment *)

LEMMA RecordKeeps ==
  ASSUME IInv, NEW p \in Submitters, Record(p)
  PROVE  IInv'
<1> DEFINE a == Id(p)
           r == IF submit[p].at = "offered" THEN "offer" ELSE "other"
           done == [row[a] EXCEPT !.state = "completed", !.result = r]
           new == [at |-> "completed", id |-> a, was |-> done]
<1>1. /\ submit[p].at \in {"offered", "other"}
      /\ row' = [row EXCEPT ![a] = done]
      /\ submit' = [submit EXCEPT ![p] = new]
      /\ UNCHANGED <<world, now, signed, orders, purchase>>
  BY DEF Record
<1>2. Holds(p) /\ submit[p] # Idle
  BY <1>1 DEF Holds, Held, Idle
<1>3. a \in Approvals /\ row[a] \in Full /\ row[a].state = "submitted"
      /\ row[a].intent = submit[p].was.intent
  BY <1>2, SubmitShape DEF IInv, Claimed, Reading
<1>4. done \in Full /\ done.state = "completed" /\ done.result = r /\ done.intent = row[a].intent
      /\ r \in {"offer", "other"}
  BY <1>3 DEF Full, Result
<1>5. new \in Submit /\ new # Idle /\ new.at = "completed" /\ new.id = a /\ new.was = done
  BY <1>3, <1>4, RowShape DEF Submit, Idle
<1>6. r = "offer" => orders[a] = 1 /\ row[a].intent
  BY <1>1, <1>3 DEF IInv, Progress
<1> HIDE DEF a, r, done, new
<1>7. /\ submit' \in [Submitters -> Submit] /\ submit'[p] = new /\ Id(p)' = a
      /\ \A q \in Submitters \ {p} : submit'[q] = submit[q] /\ Id(q)' = Id(q)
  BY <1>1, <1>5 DEF IInv, TypeOK, Id
<1>8. /\ row' \in [Approvals -> Row] /\ row'[a] = done
      /\ \A b \in Approvals \ {a} : row'[b] = row[b]
  BY <1>1, <1>3, <1>4, RowShape DEF IInv, TypeOK
<1>9. \A q \in Submitters \ {p} : Holds(q) => Id(q) # a
  BY <1>2 DEF IInv, Claimed, a
<1>10. TypeOK'
  BY <1>1, <1>7, <1>8 DEF IInv, TypeOK, purchase
<1>11. Reading'
  <2> SUFFICES ASSUME NEW q \in Submitters, submit'[q] # Idle
               PROVE  /\ submit'[q].was \in Full /\ row'[Id(q)'] # Absent
                      /\ row'[Id(q)'] \in Full => row'[Id(q)'].intent = submit'[q].was.intent
    BY DEF Reading
  <2>1. CASE q = p
    BY <1>4, <1>5, <1>7, <1>8, <2>1, RowShape
  <2>2. CASE q # p
    <3>1. submit[q] # Idle /\ Id(q)' = Id(q) /\ submit'[q].was = submit[q].was
      BY <1>7, <2>2
    <3>2. Id(q) \in Approvals
      BY <3>1, SubmitShape DEF IInv
    <3> QED
      BY <1>3, <1>4, <1>8, <3>1, <3>2, RowShape DEF IInv, Reading
  <2> QED
    BY <2>1, <2>2
<1>12. Claimed'
  <2> SUFFICES ASSUME NEW q \in Submitters, Holds(q)'
               PROVE  /\ row'[Id(q)'] \in Full /\ row'[Id(q)'].state = "submitted"
                      /\ \A u \in Submitters \ {q} : Holds(u)' => Id(u)' # Id(q)'
    BY DEF Claimed
  <2>1. ~Holds(p)'
    BY <1>5, <1>7 DEF Holds, Held
  <2>2. q # p /\ Holds(q) /\ Id(q)' = Id(q)
    BY <1>7, <2>1 DEF Holds
  <2>3. Id(q) \in Approvals \ {a}
    <3>1. submit[q] # Idle
      BY <2>2 DEF Holds, Held, Idle
    <3> QED
      BY <1>9, <2>2, <3>1, SubmitShape DEF IInv
  <2>4. \A u \in Submitters \ {q} : Holds(u)' => Holds(u) /\ Id(u)' = Id(u)
    BY <1>7, <2>1 DEF Holds
  <2> QED
    BY <1>8, <2>2, <2>3, <2>4 DEF IInv, Claimed
<1>13. Progress'
  BY <1>1, <1>5, <1>7 DEF IInv, Progress
<1>14. Answered'
  <2> SUFFICES ASSUME NEW q \in Submitters, submit'[q].at \in Late
               PROVE  /\ row'[Id(q)'] \in Full /\ row'[Id(q)'].state = "completed"
                      /\ row'[Id(q)'].result = submit'[q].was.result
                      /\ submit'[q].at \in {"unpaid", "paying"} =>
                           submit'[q].was.intent /\ submit'[q].was.result = "offer"
    BY DEF Answered, Late
  <2>1. CASE q = p
    BY <1>4, <1>5, <1>7, <1>8, <2>1
  <2>2. CASE q # p
    <3>1. submit'[q] = submit[q] /\ Id(q)' = Id(q) /\ submit[q] # Idle
      BY <1>7, <2>2 DEF Late, Idle
    <3>2. row[Id(q)] \in Full /\ row[Id(q)].state = "completed" /\ Id(q) # a
      BY <1>3, <3>1 DEF IInv, Answered
    <3>3. Id(q) \in Approvals
      BY <3>1, SubmitShape DEF IInv
    <3> QED
      BY <1>8, <3>1, <3>2, <3>3 DEF IInv, Answered
  <2> QED
    BY <2>1, <2>2
<1>15. Unclaimed' /\ Offered' /\ SignedOnce' /\ PaidForOffer'
  BY <1>1, <1>3, <1>4, <1>6, <1>8
     DEF IInv, Unclaimed, Offered, SignedOnce, PaidForOffer, purchase
<1> QED
  BY <1>10, <1>11, <1>12, <1>13, <1>14, <1>15 DEF IInv

\* A step that moves one submit on towards the payment of an offer.
LEMMA LateSteps ==
  ASSUME IInv, NEW p \in Submitters, NEW from \in Late, NEW to \in Late,
         Step(p, from, to), UNCHANGED <<row, world, now, signed, orders, purchase>>,
         submit[p].was.intent, submit[p].was.result = "offer"
  PROVE  IInv'
<1>1. /\ submit' \in [Submitters -> Submit]
      /\ submit[p] # Idle /\ submit[p].at = from
      /\ submit'[p] # Idle /\ submit'[p].at = to
      /\ Id(p)' = Id(p) /\ submit'[p].was = submit[p].was
      /\ \A q \in Submitters \ {p} : submit'[q] = submit[q] /\ Id(q)' = Id(q)
  <2>1. from \in Working /\ to \in Working
    BY DEF Working
  <2> QED
    BY <2>1, Steps DEF IInv
<1>2. to \notin Held
  BY DEF Held, Late
<1>3. TypeOK'
  BY <1>1 DEF IInv, TypeOK, purchase
<1>4. Reading'
  BY <1>1 DEF IInv, Reading
<1>5. Claimed'
  BY <1>1, <1>2 DEF IInv, Claimed, Holds
<1>6. Progress'
  BY <1>1, <1>2 DEF IInv, Progress, Held
<1>7. Answered'
  BY <1>1 DEF IInv, Answered
<1> QED
  BY <1>3, <1>4, <1>5, <1>6, <1>7, RowsStay DEF IInv

\* A step in which submits at most end, and which leaves the rows.
LEMMA Ends ==
  ASSUME IInv, submit' \in [Submitters -> Submit],
         \A q \in Submitters : submit'[q] = submit[q] \/ submit'[q] = Idle,
         UNCHANGED <<row, signed, orders>>,
         world' \in [Facts -> Version], now' \in Time,
         live' \in [Approvals -> SUBSET Auths], charged' \in [Approvals -> SUBSET Auths],
         reserved' \subseteq Approvals, PaidForOffer'
  PROVE  IInv'
<1>1. \A q \in Submitters : submit'[q] # Idle => submit'[q] = submit[q] /\ Id(q)' = Id(q)
  BY DEF Id
<1>2. \A q \in Submitters : submit'[q].at # "idle" => submit'[q] # Idle
  BY DEF Idle
<1>3. TypeOK'
  BY DEF IInv, TypeOK
<1>4. Reading'
  BY <1>1 DEF IInv, Reading
<1>5. Claimed'
  <2>1. \A q \in Submitters : Holds(q)' => Holds(q) /\ Id(q)' = Id(q)
    BY <1>1, <1>2 DEF Holds, Held
  <2> QED
    BY <2>1 DEF IInv, Claimed
<1>6. Progress'
  BY <1>1, <1>2 DEF IInv, Progress
<1>7. Answered'
  BY <1>1, <1>2 DEF IInv, Answered, Late
<1>8. Unclaimed' /\ Offered' /\ SignedOnce'
  BY DEF IInv, Unclaimed, Offered, SignedOnce
<1> QED
  BY <1>3, <1>4, <1>5, <1>6, <1>7, <1>8 DEF IInv

LEMMA ContinueKeeps ==
  ASSUME IInv, NEW p \in Submitters, Continue(p)
  PROVE  IInv'
<1>1. UNCHANGED <<row, world, now, signed, orders, purchase>>
  BY DEF Continue
<1>2. CASE AsksPayment(p) /\ Step(p, "completed", "unpaid")
  <2>1. "completed" \in Late /\ "unpaid" \in Late
    BY DEF Late
  <2> QED
    BY <1>1, <1>2, <2>1, LateSteps DEF AsksPayment
<1>3. CASE Stop(p)
  BY <1>1, <1>3, Stops, Ends, RowsStay DEF IInv, TypeOK, purchase
<1> QED
  BY <1>2, <1>3 DEF Continue

LEMMA CheckPaymentKeeps ==
  ASSUME IInv, NEW p \in Submitters, CheckPayment(p)
  PROVE  IInv'
<1>1. Step(p, "unpaid", "paying") /\ submit[p].at = "unpaid"
      /\ UNCHANGED <<row, world, now, signed, orders, purchase>>
  BY DEF CheckPayment, Step
<1>2. submit[p].was.intent /\ submit[p].was.result = "offer"
  BY <1>1 DEF IInv, Answered
<1>3. "unpaid" \in Late /\ "paying" \in Late
  BY DEF Late
<1> QED
  BY <1>1, <1>2, <1>3, LateSteps

\* The payment: the submit that makes it knows the offer that is in the row.
LEMMA PayKeeps ==
  ASSUME IInv, NEW p \in Submitters, Pay(p)
  PROVE  IInv'
<1>1. submit[p].at = "paying" /\ Stop(p) /\ UNCHANGED <<row, world, now, signed, orders>>
  BY DEF Pay
<1>2. Id(p) \in Approvals
  BY <1>1, SubmitShape DEF IInv, Idle
<1>3. /\ row[Id(p)] \in Full /\ row[Id(p)].state = "completed"
      /\ row[Id(p)].result = "offer"
  BY <1>1 DEF IInv, Answered, Late
<1>4. orders[Id(p)] = 1 /\ row[Id(p)].intent
  BY <1>2, <1>3 DEF IInv, Offered
<1>5. /\ charged' = charged /\ live' \in [Approvals -> SUBSET Auths]
      /\ reserved' \subseteq Approvals
      /\ \A b \in Approvals \ {Id(p)} : live'[b] = live[b]
  BY <1>2 DEF Pay, Payment!Authorize, purchase, IInv, TypeOK
<1>6. PaidForOffer'
  BY <1>1, <1>3, <1>4, <1>5 DEF IInv, PaidForOffer
<1> QED
  BY <1>1, <1>5, <1>6, Stops, Ends DEF IInv, TypeOK

\* A charge, a void or a reorganization authorizes nothing.
LEMMA SettleKeeps ==
  ASSUME IInv, NEW a \in Approvals, Settle(a)
  PROVE  IInv'
<1>1. UNCHANGED <<row, submit, world, now, signed, orders, reserved>>
  BY DEF Settle
<1>2. /\ live' \in [Approvals -> SUBSET Auths] /\ charged' \in [Approvals -> SUBSET Auths]
      /\ \A b \in Approvals : live'[b] # {} => live[b] # {}
  BY DEF Settle, Payment!Charge, Payment!Void, Payment!Orphan, IInv, TypeOK
<1>3. PaidForOffer'
  BY <1>1, <1>2 DEF IInv, PaidForOffer
<1> QED
  BY <1>1, <1>2, <1>3, Ends DEF IInv, TypeOK

-----------------------------------------------------------------------------
(* The remaining steps change the environment, or end submits *)

LEMMA FailKeeps ==
  ASSUME IInv, NEW p \in Submitters, Fail(p)
  PROVE  IInv'
<1>1. Stop(p) /\ UNCHANGED <<row, world, now, signed, orders, purchase>>
  BY DEF Fail
<1> QED
  BY <1>1, Stops, Ends, RowsStay DEF IInv, TypeOK, purchase

LEMMA CrashKeeps ==
  ASSUME IInv, Crash
  PROVE  IInv'
<1>1. submit' = [p \in Submitters |-> Idle]
      /\ UNCHANGED <<row, world, now, signed, orders, purchase>>
  BY DEF Crash
<1>2. submit' \in [Submitters -> Submit]
  BY <1>1 DEF Submit
<1> QED
  BY <1>1, <1>2, Ends, RowsStay DEF IInv, TypeOK, purchase

LEMMA EnvironmentKeeps ==
  ASSUME IInv, Tick \/ \E f \in Facts : Change(f)
  PROVE  IInv'
<1> USE ApprovalAssumption
<1>1. UNCHANGED <<row, submit, signed, orders, purchase>>
  BY DEF Tick, Change
<1>2. now' \in Time /\ world' \in [Facts -> Version]
  <2>1. CASE Tick
    BY <2>1 DEF Tick, IInv, TypeOK, Time
  <2>2. CASE \E f \in Facts : Change(f)
    BY <2>2 DEF Change, IInv, TypeOK, Version
  <2> QED
    BY <2>1, <2>2
<1> QED
  BY <1>1, <1>2, Ends, RowsStay DEF IInv, TypeOK, purchase

-----------------------------------------------------------------------------
LEMMA StepInv == IInv /\ [Next]_vars => IInv'
<1> SUFFICES ASSUME IInv, [Next]_vars PROVE IInv'
  OBVIOUS
<1>1. CASE UNCHANGED vars
  <2>1. UNCHANGED <<row, submit, world, now, signed, orders, purchase>>
    BY <1>1 DEF vars, purchase
  <2> QED
    BY <2>1, Ends, RowsStay DEF IInv, TypeOK, purchase
<1>2. ASSUME NEW a \in Approvals, NEW e \in Time, NEW i \in BOOLEAN, Prepare(a, e, i)
      PROVE  IInv'
  BY <1>2, PrepareKeeps
<1>3. ASSUME NEW p \in Submitters, NEW a \in Approvals, Read(p, a)
      PROVE  IInv'
  BY <1>3, ReadKeeps
<1>4. ASSUME NEW p \in Submitters, CheckContract(p)
      PROVE  IInv'
  <2>1. "read" \in Early /\ "known" \in Early
    BY DEF Early
  <2> QED
    BY <1>4, <2>1, EarlySteps DEF CheckContract
<1>5. ASSUME NEW p \in Submitters, CheckAccount(p)
      PROVE  IInv'
  <2>1. "known" \in Early /\ "authorized" \in Early
    BY DEF Early
  <2> QED
    BY <1>5, <2>1, EarlySteps DEF CheckAccount
<1>6. ASSUME NEW p \in Submitters, Claim(p) \/ Sign(p) \/ Send(p) \/ Answer(p) \/ Record(p)
      PROVE  IInv'
  BY <1>6, ClaimKeeps, SignKeeps, SendKeeps, AnswerKeeps, RecordKeeps
<1>7. ASSUME NEW p \in Submitters, Continue(p) \/ CheckPayment(p) \/ Pay(p) \/ Fail(p)
      PROVE  IInv'
  BY <1>7, ContinueKeeps, CheckPaymentKeeps, PayKeeps, FailKeeps
<1>8. CASE PrepareOther
  BY <1>8, PrepareOtherKeeps
<1>9. CASE Crash
  BY <1>9, CrashKeeps
<1>10. CASE Tick \/ \E f \in Facts : Change(f)
  BY <1>10, EnvironmentKeeps
<1>11. ASSUME NEW a \in Approvals, Settle(a)
       PROVE  IInv'
  BY <1>11, SettleKeeps
<1> QED
  BY <1>1, <1>2, <1>3, <1>4, <1>5, <1>6, <1>7, <1>8, <1>9, <1>10, <1>11 DEF Next

\* The invariant, on which the three theorems below rest, holds in every state.
THEOREM Invariant == Spec => []IInv
<1>1. Init => IInv
  BY InitInv
<1>2. IInv /\ [Next]_vars => IInv'
  BY StepInv
<1> QED
  BY <1>1, <1>2, PTL DEF Spec

\* Every row, submit and counter keeps its type.
THEOREM TypeSafe == Spec => []TypeOK
<1>1. IInv => TypeOK
  BY DEF IInv
<1> QED
  BY <1>1, Invariant, PTL

\* However many submits race for an approval, its action is signed at most once, and
\* carried out only when signed: the conditional UPDATE of the claim decides.
THEOREM SignedOnceSafe == Spec => []SignedOnce
<1>1. IInv => SignedOnce
  BY DEF IInv
<1> QED
  BY <1>1, Invariant, PTL

\* No payment is authorized before the offer it pays for is in the row of an approval
\* that was to pay: continue_payment reads what submit has stored.
THEOREM PaidSafe == Spec => []PaidForOffer
<1>1. IInv => PaidForOffer
  BY DEF IInv
<1> QED
  BY <1>1, Invariant, PTL

=============================================================================
