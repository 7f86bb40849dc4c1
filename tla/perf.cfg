CONSTANTS
  i1 = i1
  i2 = i2
  HeapBase = 8
  MAX_HEAP = 36
  WordMod = 256
  CHUNKSIZE = 12
  Index = {i1, i2}
  Sizes = {0, 8, 40}
  num_ops = 4
  num_traces = 1
  random_data <- MCrandom_data
SPECIFICATION PerfSpec
INVARIANTS
  ReplaysTrue
CHECK_DEADLOCK FALSE
