SPECIFICATION FairSpec
CONSTANTS
  Resv = {r1}
  Amounts = {1}
  ConfigCaps = {0, 1}
  Caps = {}
  NoCap = NoCap
  Txs = {t1}
  NoTx = NoTx
  MaxPeriod = 2
  Op = {o1, o2}
  NoOp = NoOp
  NoResv = NoResv
  Fps = {f1}
  Callers = {c1}
  Workers = {w1}
  Idempotency = {"v1", "plain"}
  Unspendable = {TRUE, FALSE}
INVARIANTS TypeOK ReleasedIsDead
PROPERTIES AuthorizationsResolve
