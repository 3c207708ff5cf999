SPECIFICATION Spec
CONSTANTS
  W = 28
  Rom <- MCRom
  Software <- MCSoftware
  DeviceWords = {1}
INVARIANT Inv
PROPERTIES BanksKept FiqReturns PopsWhatWasPushed ManyInPlace
