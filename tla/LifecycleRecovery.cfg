CONSTANTS
  Keys = {k1}
  NoKey = NoKey
  Size = 4
  IsIPv4 = FALSE
  NumAddrs = 2
  MaxUid = 2
  MaxGos = 1
  MaxFaults = 2
  Specs = {"Always", "WrongArch"}
  Probed = FALSE
  CanCrash = TRUE
SPECIFICATION Spec
CHECK_DEADLOCK FALSE
INVARIANTS NoIPLeak StablePodIP NoVMLeak MappingCurrent AlwaysNeverFinal
PROPERTIES AdoptedSurvives
