SPECIFICATION ClioLiveSpec
CONSTANTS
  N = 2
  Max = 1
  Counts = {}
  Slacks = {}
  ResetSlack = 0
  CtrlMasks <- MCCtrl
  Resets = TRUE
  TimerBits <- MCTimerBits
  DeviceBits <- MCDeviceBits
  Bits1 <- MCBits1
  Masks0 <- MCMasks0
  Masks1 <- MCMasks1
  HMax = 1
  VMax = 1
  Top = 2
  HWrites = {2}
  VWrites = {2}
  Lines0 = {1}
  Lines1 = {0}
  IrqBit <- MCIrqBit
INVARIANTS EventsArrive Irq1Delivered
PROPERTY VintEachFrame
