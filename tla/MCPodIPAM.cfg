CONSTANTS
  Keys = {k1, k2, k3, k4, k5, k6}
  NoKey = NoKey
  Size = 8
  IsIPv4 = TRUE
SYMMETRY KeySymmetry
SPECIFICATION IPAMSpec
INVARIANTS IPAMTypeOK MapsInverse ExhaustedOnlyWhenFull
PROPERTY ImplementsPool
