SPECIFICATION Spec
CONSTANTS
  Resv = {r1, r2}
  Amounts = {0}
  ConfigCaps = {2}
  Caps = {}
  NoCap = NoCap
  Txs = {}
  NoTx = NoTx
  MaxPeriod = 1
  Op = {o1, o2}
  NoOp = NoOp
  NoResv = NoResv
  Fps = {f1}
  Callers = {c1, c2}
  Workers = {w1}
  Idempotency = {"v1"}
  Unspendable = {FALSE}
SYMMETRY Symmetry
INVARIANTS OneLiveAuthorization DisclosedIsRecoverable CompleteIsSettled ChargedOncePerAction
PROPERTIES OutcomesAreFinal PurchaseSpec
