SPECIFICATION MCSpec
CONSTANTS
  Pid = {p1, p2, p3}
  NoPid = NoPid
  MaxFaults = 2
  Slug = {s1}
  MaxWork = 2
  MaxPushKills = 1
  Runs <- MCRuns
  Copy <- MCCopy
  Workflow <- MCWorkflow
  Artifact <- MCArtifact
  Broken = {1}
  MaxDrainKills = 1
INVARIANTS
  ExclusionUnlessOverlap
  LeadsAreKept
  ProcessedIsHeld
PROPERTIES
  LeadsSettle
  SyncSettles
CHECK_DEADLOCK FALSE
