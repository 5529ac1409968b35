SPECIFICATION Spec
CONSTANTS
  SkipOpClass <- MCSkipOpClass
  Regions <- MCRegions
  World = "00"
  Regdb <- MCRegdb
  Numbers <- MCNumbers
  Limits = {2}
  DefaultLimit = 1
  None = None
INVARIANT MaxStasTakesEffect
