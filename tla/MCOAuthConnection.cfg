SPECIFICATION Spec
CONSTANTS
  Procs = {p1, p2}
  Grants = {g1, g2, g3}
  Tokens = {t1, t2, t3}
  Issuers = {i1, i2}
  None = None
SYMMETRY Symmetry
INVARIANTS TypeOK PresentedOnce TokensStayHome
PROPERTIES RecordedUntilRevoked OnlySignInConnects
