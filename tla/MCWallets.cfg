SPECIFICATION Spec
CONSTANTS
  Wallet = {w1, w2}
  Procs = {p1}
  MaxKeys = 2
  MaxTokens = 2
  Ttl = 2
INVARIANTS KeyNeverReplaced
