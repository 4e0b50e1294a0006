CONSTANTS
  Worker = {w1, w2}
  MaxEpoch = 8
  MaxItems = 8
  Capacity = 2
  Count = 4
  SeqNum = {0, 1, 2, 3, 4}
  BarrierEvery = 2
SPECIFICATION TgFairSpec
INVARIANTS BlobLedger EpochBoundaries
PROPERTIES EveryItemFreed StopEndsAll
