SPECIFICATION Spec
CONSTANTS
  Dex = {d1}
  Adopted = {b1}
  Capital = 1
  MaxLoss = 1
  MaxCrashes = 1
  Requests = {"inactive", "paper", "live", "archived"}
INVARIANTS TypeOK MonitoredUntilFlat PaperAndLiveApart
