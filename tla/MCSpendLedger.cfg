SPECIFICATION LedgerSpec
CONSTANTS
  Resv = {r1, r2, r3}
  Amounts = {0, 1, 2}
  ConfigCaps = {0, 3}
  Caps = {0, 2}
  NoCap = NoCap
  Txs = {t1}
  NoTx = NoTx
  MaxPeriod = 2
SYMMETRY Symmetry
INVARIANTS CreditOnce
PROPERTIES SpendingRespectsCap LatchNeverDrifts ClosedPeriodsOnlyShrink
