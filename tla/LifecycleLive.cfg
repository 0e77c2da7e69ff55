CONSTANTS
  Keys = {k1}
  NoKey = NoKey
  Size = 4
  IsIPv4 = TRUE
  NumAddrs = 1
  MaxUid = 2
  MaxGos = 1
  MaxFaults = 1
  Specs = {"Always", "OnFailure", "WrongArch"}
  Probed = FALSE
  CanCrash = FALSE
SPECIFICATION FairSpec
CHECK_DEADLOCK FALSE
PROPERTIES ExitAnswered DeleteCompletes
