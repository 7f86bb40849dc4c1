SPECIFICATION FairSpec
CONSTANTS
  Tests = 1 FUNCS = 1 Outcomes = {"right", "hang"} Others = {"right"}
  Lows = 1 MaxLines = 5 Mishaps = {{"alarm"}}
  lower = 3 upper = 6 full = 30
PROPERTY GivesUp
CHECK_DEADLOCK FALSE
