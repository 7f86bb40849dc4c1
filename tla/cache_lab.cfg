SPECIFICATION LabSpec
CONSTANTS
  s_bits = 1 block_bits = 1 Width = 5 Address = {0, 1, 4, 8, 12, 6}
  num_events = 6 few = 2 lines = 3
  AddrA = 0 AddrB = 65536
  Tests = 2 FUNCS = 2 Outcomes = {"right", "wrong", "crash", "hang"} Others = {"right", "hang"}
  Lows = 0 MaxLines = 4 Mishaps = {{}, {"alarm"}, {"csim-ref"}}
  lower = 2 upper = 5 full = 30
INVARIANTS TypeOK NoAlias Inclusion
  Transposed Misses ScoreEarned
PROPERTIES LruSpec DriverFinishes
CHECK_DEADLOCK FALSE
