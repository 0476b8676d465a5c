\* One model, three shells, one run of the conductor.
SPECIFICATION LaunchSpec
CONSTANTS
  Unset = "unset"
  Environments <- Shells
  MaxFailures = 0
  Models = {"m1"}
  PreLaunch = {}
  Postures <- Configurations
  MaxStarts = 1
INVARIANTS CompleteMeansHandedOver
CHECK_DEADLOCK FALSE
