SPECIFICATION ClioSpec
CONSTANTS
  N = 2
  Half = 1
  Top = 3
  Counts = {0, 1, 2}
  CtrlMasks <- MCCtrlMasks
  IrqMasks <- MCIrqMasks
  Irq1Masks <- MCIrq1Masks
INVARIANT ClioInv
PROPERTY PairSpec
