SPECIFICATION WalkSpec
CONSTANTS
  p1 = p1  w1 = w1  None = None
  Page = {p1}
  Worker = {w1}
  Width = 2
  Depth = 1
  Span <- MCSpan
  SilentAfter = 1
  ParkAfter = 0
  MaxFails = 1
  MaxRestarts = 1
  Answers = {"complete", "cut", "failed"}
CHECK_DEADLOCK FALSE
INVARIANTS
  ParkedIsOwed
