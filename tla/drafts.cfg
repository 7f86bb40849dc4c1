CONSTANTS
  i1 = i1
  i2 = i2
  i3 = i3
  HeapBase = 8
  MAX_HEAP = 16
  WordMod = 128
  CHUNKSIZE = 4
  Index = {i1, i2, i3}
  Sizes = {0, 8, 20}
  random_data <- MCrandom_data
SPECIFICATION Spec
INVARIANTS Sound SearchComplete
PROPERTY AllocatorSpec
