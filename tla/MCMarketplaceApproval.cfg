SPECIFICATION Spec
CONSTANTS
  Approvals = {a1}
  Submitters = {s1, s2, s3}
  Auths = {x1, x2}
  MaxTime = 2
  MaxChanges = 1
SYMMETRY Symmetry
INVARIANTS TypeOK SignedOnce PaidForOffer
