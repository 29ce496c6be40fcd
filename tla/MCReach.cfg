SPECIFICATION MCSpec
CONSTANTS
  Url = {"near", "far", "cdx"}
  First = "near"
  HostOf <- MCHostOf
  Cdx = {"cdx"}
  Size = 2
  Cap = 2
  Attempts = 2
  MaxHops = 1
  MaxResumes = 2
  MaxRuns = 2
  MaxVersions = 2
  Thread = {t1, t2}
  MinDelay = 1
  MaxDelay = 2
  Ramp = 2
  Breaker = 2
  Pause = 3
  MaxWait = 2
  Retries = 2
  Year = {1, 2, 3, 4}
  Domains <- MCDomains
  Pages = 3
  MaxThrottled = 2
  MaxFails = 2
  MaxFailedRuns = 2
  Rotate = 2
  MaxKills = 2
  MaxFaults = 4
INVARIANTS
  ReceiptIsSound
  PaceIsKept
  RecordIsExplained
  PagesAreKept
PROPERTIES
  EveryAskEnds
CHECK_DEADLOCK FALSE
