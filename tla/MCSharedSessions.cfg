SPECIFICATION FairSpec
CONSTANTS
  Caller = {c1, c2}
  MaxSessions = 3
  MaxRequests = 3
INVARIANTS TypeOK ServedUntilDead OneServing 
PROPERTIES NobodyStuck
CHECK_DEADLOCK FALSE
