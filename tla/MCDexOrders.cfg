SPECIFICATION Spec
CONSTANTS
  MaxOrders = 3
  Positions = {p1, p2}
  MaxQty = 2
  EntrySizes = {2}
  Unapproved = {"sell"}
  Approved = {"buy"}
  None = None
INVARIANTS NeverOversold
PROPERTIES ImplementsJournal Settles
