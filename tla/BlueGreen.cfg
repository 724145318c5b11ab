SPECIFICATION FairSpec
CONSTANTS
  Deployment = {d1}
  Sensor = {s1, s2}
  Target = {s1, s2}
  NoDeployment = NoDeployment
  RequireAllStaged = FALSE
  MinStagedPercentage = 50
  MaxRestarts = 1
  MaxMerges = 1
INVARIANTS TypeOK SwitchNeedsQuorum ActiveIsSwitched StagedWasLoaded
PROPERTY DeploymentEnds
CHECK_DEADLOCK FALSE
