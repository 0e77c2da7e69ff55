CONSTANTS
  Keys = {k1, k2}
  NoKey = NoKey
  Size = 4
  IsIPv4 = TRUE
  NumAddrs = 1
  MaxUid = 1
  MaxGos = 1
  MaxFaults = 1
  Specs = {"Always"}
  Probed = FALSE
  CanCrash = FALSE
SPECIFICATION Spec
CHECK_DEADLOCK FALSE
SYMMETRY KeySymmetry
INVARIANTS PodOwnsIP NoSharedMapping
