CONSTANTS
  w1 = w1  w2 = w2  w3 = w3
  Worker <- TwoWorkers
  Sent <- OnlyRefresh
  MaxGen = 2
SPECIFICATION Spec
PROPERTIES ReplayAlwaysRevokes
