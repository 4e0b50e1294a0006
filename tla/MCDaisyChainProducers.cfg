CONSTANTS
  Worker = {w1, w2}
  Capacity = 2
  MaxRings = 2
SPECIFICATION DaisySpec
INVARIANT SingleProducer
