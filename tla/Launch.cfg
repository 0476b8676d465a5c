\* Two models, three shells, three runs of the conductor, one failure.
SPECIFICATION LaunchSpec
CONSTANTS
  Unset = "unset"
  Environments <- Shells
  MaxFailures = 1
  Models = {"m1", "m2"}
  PreLaunch = {"m1"}
  Postures <- Configurations
  MaxStarts = 3
INVARIANTS LaunchSound LaunchedMeansHandedOver
CHECK_DEADLOCK FALSE
