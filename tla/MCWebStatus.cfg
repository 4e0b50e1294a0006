SPECIFICATION WebSpec
CONSTANTS
  StageName = {"dump_binary", "dump_text", "forward_udp", "null_sink"}
  Invalid = "none"
  Directory <- MCDirectory
  RegistryMax = 3
  Graph <- MCGraph
  SoundGraph <- MCSoundGraph
  Path = {"out"}
  Port = {"p"}
  AnyPort = "any"
  MaxBytes = 2
  RingGraph <- MCRingGraph
  Name = {"n"}
  Torn = Torn
  Absent = Absent
  MaxStarts = 1
  MaxEdits = 1
INVARIANTS RegistryBacked ClosedOnce NothingLeftOpen DumpKeepsRecords SavedGraphLoads
