CONSTANTS
  i1 = i1
  i2 = i2
  i3 = i3
  HeapBase = 8
  MAX_HEAP = 44
  WordMod = 256
  CHUNKSIZE = 12
  Index = {i1, i2}
  Sizes = {0, 8, 60}
  num_ops = 4
  num_traces = 2
  random_data <- MCrandom_data
SPECIFICATION FairSpec
INVARIANTS
  MissMeansFull
  DriverSatisfied
PROPERTIES AllocatorSpec CallsReturn
CHECK_DEADLOCK FALSE
