SPECIFICATION BusSpec
CONSTANTS
  CmdLen = 2
  BlockSize = 3
  SectorCount = 3
  Commands <- MCCommands
  Msf <- MCMsf
  BlockCounts = {2}
  PollMasks <- MCPollMasks
  HostDrains = TRUE
  Resets = TRUE
  ReplyLen15 = 1
  RamWords = 2
  DmaStarts = {1}
  DmaLens = {4}
INVARIANT DmaCopies
PROPERTY FiqRaised
