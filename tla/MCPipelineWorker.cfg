CONSTANTS
  Worker = {w1, w2, w3}
  MaxEpoch = 4
  MaxItems = 4
  Capacity = 3
  SeqNum = {0}
SPECIFICATION PoolSpec
INVARIANTS PoolTypeOK InFlightCount EpochSkew EpochLedger TagNotEarly ItemOwnership CleanStop
PROPERTIES DrainsNumbered OrderSpec
SYMMETRY Symmetry
