CONSTANTS
  Worker = {w1}
  MaxEpoch = 10
  MaxItems = 10
  Capacity = 2
  Count = 5
  SeqNum = {0, 1, 2, 3, 4, 5}
  BarrierEvery = 2
SPECIFICATION TgSpec
INVARIANT NoSilentDrift
