SPECIFICATION MCSpec
CONSTANTS
  Remote = {"lane"}
  Desk = {"desk"}
  MaxHolds = 2
  MaxLabels = 1
  MaxHoldKills = 1
  MaxDries = 1
  Hours = 3
  Schedule <- Days
  Items <- Queue
  Umbrella = {"issue"}
  MaxAdds = 1
  MaxHands = 1
  MaxRefusals = 1
  MaxLost = 1
  Longest <- Spans
  Keys <- Heads
  SourceOf <- Owners
  Price <- Prices
  Bar = 2
  Admitted = {"list"}
  MaxFails = 1
  MaxKills = 1
  MaxClicks = 1
INVARIANTS
  HoldIsHonoured
  AttemptsAreKept
  AsksAreWhole
PROPERTIES
  OpsSettle
CHECK_DEADLOCK FALSE
