---------------------------- MODULE PaymentBudget ----------------------------
(***************************************************************************)
(* PaymentOperations with a history variable: the greatest cap that was in *)
(* force since the period began.  The configured cap may be edited while   *)
(* authorizations are out (X402_SPEND_CAP_USD is read again at a start), so *)
(* what leaves the wallet is judged by the caps the period really ran      *)
(* under and not by the last of them.                                      *)
(***************************************************************************)
EXTENDS PaymentOperations

VARIABLE ceiling  \* history: the greatest cap in force since the period began

meteredVars == <<vars, ceiling>>

MeteredInit == Init /\ ceiling = Cap

Remember == ceiling' = IF period' # period THEN Cap' ELSE Max({ceiling, Cap'})

MeteredNext == Next /\ Remember

MeteredSpec == MeteredInit /\ [][MeteredNext]_meteredVars

\* What left the wallet for the authorizations of the running period.
Outflow ==
  MapThenSumSet(LAMBDA r : pay[r].amount,
                {r \in Resv : pay[r].period = period /\ auth[r].chain = "used"})

\* Whatever is lost, repeated, released or repaid, and however the cap is edited,
\* what really left the wallet in a period, net of the repayments credited to it,
\* never exceeds the greatest cap the period has run under: the ledger may
\* overstate the outflow, it never understates it (spend_service.py, reserve).
OutflowWithinCap == Outflow - RefundedIn(period, pay, refund) <= ceiling

=============================================================================
