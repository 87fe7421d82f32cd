------------------------------- MODULE Purchase -------------------------------
(***************************************************************************)
(* What the durable operation identity promises about one paid action: at  *)
(* any time at most one authorization of it could still move money, and    *)
(* the chain charges it at most once, whatever is retried, replayed, lost  *)
(* or replaced.  PaymentOperations implements this specification.          *)
(***************************************************************************)
CONSTANTS Actions,  \* paid actions (the action_id of x402_recovery_state)
          Auths     \* authorizations

VARIABLES live,     \* authorizations of each action that still count
          charged   \* authorizations of each action the chain has executed

purchaseVars == <<live, charged>>

Init == /\ live = [a \in Actions |-> {}]
        /\ charged = [a \in Actions |-> {}]

\* A new authorization needs every earlier one of the action to be void.
Authorize(a, x) ==
  /\ live[a] = {} /\ charged[a] = {}
  /\ live' = [live EXCEPT ![a] = {x}]
  /\ UNCHANGED charged

\* Only an authorization the chain has not executed can be declared void.
Void(a) ==
  /\ live[a] # {} /\ charged[a] = {}
  /\ live' = [live EXCEPT ![a] = {}]
  /\ UNCHANGED charged

Charge(a, x) ==
  /\ live[a] = {x} /\ charged[a] = {}
  /\ charged' = [charged EXCEPT ![a] = {x}]
  /\ UNCHANGED live

\* A charge that was not final yet is dropped by a chain reorganization.
Orphan(a) ==
  /\ charged[a] # {}
  /\ charged' = [charged EXCEPT ![a] = {}]
  /\ UNCHANGED live

\* Most of what an implementation does changes nothing here.
Next ==
  \/ UNCHANGED purchaseVars
  \/ \E a \in Actions : \/ \E x \in Auths : Authorize(a, x) \/ Charge(a, x)
                        \/ Void(a)
                        \/ Orphan(a)

Spec == Init /\ [][Next]_purchaseVars

=============================================================================
