SPECIFICATION PartsSpec
CONSTANTS
  Index = {1, 2, 3} HeapSize = 6 ALIGNMENT = 2 Sizes = {0, 1, 4} num_ops = 4
  num_tracefiles = 3 Utils = {50, 95} MaxErrors = 2
  W = 2 NEVENT = 2 THRESHOLD = 2 RECORDTHRESH = 4
  kbest = 2 maxsamples = 3 percent = 1
  Costs = {1, 2} Overheads = {6, 7} Period = 9
  size_bits = 8 int_bits = 7 MAX_HEAP = 60 CHUNKSIZE = 16
  Counts = {3, 64} num_calls = 3
INVARIANTS ListTrue CaughtByData
  PointsMeanAllWell NeverReentered Measured RightBelowWidth
PROPERTY PartsEnd
CHECK_DEADLOCK FALSE
