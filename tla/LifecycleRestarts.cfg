CONSTANTS
  Keys = {k1}
  NoKey = NoKey
  Size = 4
  IsIPv4 = TRUE
  NumAddrs = 1
  MaxUid = 2
  MaxGos = 2
  MaxFaults = 0
  Specs = {"Always", "Never", "Unsupported"}
  Probed = TRUE
  CanCrash = FALSE
SPECIFICATION Spec
CHECK_DEADLOCK FALSE
INVARIANTS TypeOK NoVMLeak NoEndpointLeak RestartFlagHonest ProbersOwned
