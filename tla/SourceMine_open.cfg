SPECIFICATION MineSpec
CONSTANTS
  Miners = {p1, p2}
  FileVersions = {"v1", "v2"}
  ChunksOf <- MCChunksOf
  Gone = "gone"
  Modes = {TRUE, FALSE}
  OpenWhileMining = TRUE
  MaxEffects = 3
  MaxMineFaults = 1
INVARIANTS SkipIsRight
CHECK_DEADLOCK FALSE
