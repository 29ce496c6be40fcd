SPECIFICATION DrainSpec
CONSTANTS
  Runs <- MCRuns
  Copy <- MCCopy
  Workflow <- MCWorkflow
  Artifact <- MCArtifact
  Broken = {}
  MaxDrainKills = 1
PROPERTY
  RedrainWritesNothing
CHECK_DEADLOCK FALSE
