SPECIFICATION FairSpec
CONSTANTS
  CmdLen = 2
  BlockSize = 2
  SectorCount = 4
  Commands <- MCCommands
  Msf <- MCMsf
  BlockCounts = {1, 2}
  PollMasks <- MCPollMasks
  HostDrains = TRUE
  Resets = TRUE
INVARIANTS PollHonest ReplyCurrent
PROPERTIES StreamSpec TransferEnds
