CONSTANTS
  Id = {a, b, c}
  MaxNodes = 3
  MaxPorts = 2
  MaxEdges = 3
  Type = {"raw", "value"}
  RawRecord = "raw"
  Stage <- Stages
  NoStage = none
  Worker = {w1, w2}
  MaxRecords = 2
SPECIFICATION PipelineSpec
INVARIANTS QueueFits AcceptedIsTree AcceptedTypesFit AcceptedWiring NoInstanceLeaks
INVARIANTS CountersAddUp InputAccepted FlaggedRoute
SYMMETRY Symmetry
