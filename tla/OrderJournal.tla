---------------------------- MODULE OrderJournal ----------------------------
(***************************************************************************)
(* What a journal of orders promises, whatever executes them: an order is  *)
(* reserved before anything can be executed for it, only what was executed *)
(* is booked and only once, and an order is closed only when no more can be *)
(* executed for it and all of it is booked.  BrokerOrders (Robinhood) and   *)
(* DexOrders (swaps on a chain) implement it.                               *)
(***************************************************************************)
EXTENDS Integers

CONSTANTS
  Orders,
  MaxQty      \* quantity of the largest order

VARIABLES
  state,      \* of the journal's row: "none", "open" or "closed"
  booked,     \* quantity the journal has booked
  executed,   \* quantity executed at the venue
  over        \* nothing more can be executed

vars == <<state, booked, executed, over>>

Init ==
  /\ state = [o \in Orders |-> "none"]
  /\ booked = [o \in Orders |-> 0]
  /\ executed = [o \in Orders |-> 0]
  /\ over = [o \in Orders |-> FALSE]

Reserve(o) ==
  /\ state[o] = "none"
  /\ state' = [state EXCEPT ![o] = "open"]
  /\ UNCHANGED <<booked, executed, over>>

\* The venue executes some of it, or is through with it, or both.
Execute(o) ==
  /\ state[o] # "none" /\ ~over[o]
  /\ \E n \in executed[o]..MaxQty : executed' = [executed EXCEPT ![o] = n]
  /\ \E b \in BOOLEAN : over' = [over EXCEPT ![o] = b]
  /\ UNCHANGED <<state, booked>>

\* The journal books what was executed; it may close the order with it.
Book(o) ==
  /\ state[o] = "open"
  /\ \E n \in booked[o]..executed[o] : booked' = [booked EXCEPT ![o] = n]
  /\ \/ state' = state
     \/ over[o] /\ booked'[o] = executed[o] /\ state' = [state EXCEPT ![o] = "closed"]
  /\ UNCHANGED <<executed, over>>

\* An order that was never sent out is given up.
Withdraw(o) ==
  /\ state[o] = "open" /\ ~over[o] /\ executed[o] = 0
  /\ state' = [state EXCEPT ![o] = "closed"]
  /\ over' = [over EXCEPT ![o] = TRUE]
  /\ UNCHANGED <<booked, executed>>

Next == \E o \in Orders : Reserve(o) \/ Execute(o) \/ Book(o) \/ Withdraw(o)

Spec == Init /\ [][Next]_vars

=============================================================================
