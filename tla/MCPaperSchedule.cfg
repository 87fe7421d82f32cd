SPECIFICATION Spec
CONSTANTS
  Callers = {c1, c2}
  MaxRequests = 4
  MaxSlot = 3
  Limit = 2
  None = None
SYMMETRY Symmetry
INVARIANTS TypeOK PauseWins EvaluationsAccounted WithinLimit
