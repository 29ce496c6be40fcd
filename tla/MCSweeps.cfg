SPECIFICATION MCSpec
CONSTANTS
  r1 = r1
  r2 = r2
  d1 = d1
  j1 = j1
  p1 = p1
  w1 = w1
  w2 = w2
  Run = {r1, r2}
  Domain = {d1}
  Sweep = {j1}
  MaxRows = 2
  MaxBankKills = 1
  None = None
  Page = {p1}
  Worker = {w1, w2}
  Width = 2
  Depth = 1
  Span <- MCSpan
  SilentAfter = 1
  ParkAfter = 1
  MaxFails = 1
  MaxRestarts = 1
  Answers = {"complete", "cut", "silent", "refused", "failed", "error"}
INVARIANTS
  JournalsAreKept
  NothingIsLost
PROPERTIES
  SweepsSettle
CHECK_DEADLOCK FALSE
