CONSTANTS
  Worker = {w1, w2}
  Capacity = 2
  MaxRings = 4
SPECIFICATION DaisySpec
INVARIANTS LiveRingSafe RingsFreedOnce NothingStranded
SYMMETRY Symmetry
