SPECIFICATION FairSpec
CONSTANTS
  CpuTargets = {"mem", "sprstrt", "nextccb"}
  CcbAddrs <- MCCcbAddrs
  PData <- MCPData
  FlagWords <- MCAnyCel
  ForceNextCcb = FALSE
  Resets = TRUE
PROPERTY SkippedCelReleasesBus
