SPECIFICATION MCSpec
CONSTANTS
  Local = {"artifactStorage"}
  Jobs = {"issuance", "expiry"}
  Builds = {"ours", "newer"}
  Ours = "ours"
  Manifest <- MCManifest
  Checksum <- MCChecksum
  Integrity = "integrity"
  Micro = 10
  MaxClp = 1000
  MaxQuantity = 5
  MaxUnit = 3
  MaxLines = 2
  Now = 4
  CivilDate <- MCCivilDate
INVARIANTS
  TypeOK
  NothingRunsAfterClose
PROPERTIES
  NoStaleRecovery
  QuietAfterShutdown
  RecoversByItself
  ShutdownEnds
CHECK_DEADLOCK FALSE
