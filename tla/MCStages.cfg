CONSTANTS
  Worker = {w1, w2}
  Chain <- Chains
  Magic = 1
  OtherMagic = 2
  Raw <- Raws
  Cap = 6
  Stray = {0, 9}
  MaxRecords = 2
  MaxUpdates = 2
SPECIFICATION StagesSpec
INVARIANTS OwnRecordOnly CountersTellOneStory DownstreamTakesAll StatusAddsUp
PROPERTY StatusNeverGoesBack
SYMMETRY Symmetry
