CONSTANTS
  Worker = {w1, w2}
  Graph = {g, h}
  Torn = torn
  MaxExecs = 1
  MaxSaves = 2
SPECIFICATION LifecycleSpec
INVARIANT SignalExits
