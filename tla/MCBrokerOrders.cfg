SPECIFICATION Spec
CONSTANTS
  Procs = {w1}
  Tickers = {w1}
  Orders = {o1, o2, o3}
  Positions = {p1, p2}
  MaxQty = 2
  EntrySizes = {2}
  None = None
SYMMETRY Symmetry
INVARIANTS TypeOK NeverOversold OneEntryAtRisk
PROPERTIES ImplementsJournal
