SPECIFICATION Spec
CONSTANTS
  W = 12
  Hosts <- MCHosts
  Noises = {0, 1, 2048, 4095}
  Words = {1, 2048}
  Addrs = {32}
  OutAddrs = {64}
  Lens = {4}
INVARIANTS Inv BranchMeans
PROPERTY SamplesInOrder
