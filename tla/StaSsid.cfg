SPECIFICATION Spec
CONSTANTS
  Regions <- MCRegions
  BcfRegions <- MCBcfRegions
  RegdbRegions <- MCRegdbRegions
  World = "00"
  Ssids = {s1, s2}
  None = None
INVARIANT ReportedSsidIsLinked
