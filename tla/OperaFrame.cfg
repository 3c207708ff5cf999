SPECIFICATION Spec
CONSTANTS
  N = 2
  Half = 2
  Top = 1
  Counts = {}
  CtrlMasks <- MCCtrlMasks
  IrqMasks = {}
  Irq1Masks = {}
  Cycles = {1, 2}
  Slice = 2
  PerLine = 3
  PerSample = 3
  PerTimer <- MCPerTimer
  ResetDelay = 0
  AccMax = 6
  Scanlines = 3
  VintLines = {1}
INVARIANTS Inv VintInTime
PROPERTY LinesForEver
