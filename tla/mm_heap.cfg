CONSTANTS
  i1 = i1
  i2 = i2
  i3 = i3
  HeapBase = 8
  MAX_HEAP = 36
  WordMod = 256
  CHUNKSIZE = 12
  Index = {i1, i2, i3}
  Sizes = {0, 8, 28}
  num_ops = 6
  num_traces = 1
  random_data <- MCrandom_data
SPECIFICATION Spec
INVARIANTS
  TypeOK
  HeapTiled
  NoFreeNeighbours
  FreeListExact
  NoLeak
CHECK_DEADLOCK FALSE
