SPECIFICATION Spec
CONSTANTS
  Regions <- MCRegions
  BcfRegions <- MCBcfRegions
  RegdbRegions <- MCRegdbRegions
  World = "00"
  Ssids = {s1}
  None = None
INVARIANT DisconnectShowsInactive
