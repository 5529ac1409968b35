SPECIFICATION FairSpec
CONSTANTS
  Regions <- MCRegions
  BcfRegions <- MCBcfRegions
  RegdbRegions <- MCRegdbRegions
  World = "00"
  Ssids = {s1}
  None = None
INVARIANTS
  TypeOK
  NoStaleResult
  RadioObeysReportedRegion
  ReleasedIsDisabled
  OperationalHasLink
  StatusFollowsLink
PROPERTIES
  ImplementsRadioPermit
  SuccessfulSetTakesEffect
  FailedAttemptReported
  SwitchEnds
  ScanningEnds
