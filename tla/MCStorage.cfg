SPECIFICATION StorageSpec
CONSTANTS
  Miners = {p1, p2}
  FileVersions = {"v1", "v2"}
  ChunksOf <- MCChunksOf
  Gone = "gone"
  Modes = {TRUE, FALSE}
  OpenWhileMining = FALSE
  MaxEffects = 3
  MaxMineFaults = 1
  Diarists = {d1, d2}
  MaxTexts = 3
  MaxDiaryFaults = 2
  Keepers = {k1, k2}
  LeaseTicks = 3
  RenewEvery = 1
  MaxMaintRuns = 3
  MaxMaintFaults = 1
  Actors = {x, y}
  Wings = {w1, w2}
  NoWing = NoWing
  MaxVersions = 3
  SpanTasks = {t1, t2}
  Summaries <- Ascii
  SpanCap = 2
  MaxSpans = 3
  MaxCheckpoints = 2
INVARIANTS
  SkipIsRight JournalInv
  EntryConsistent
  LeaseDiscipline
  OneAuthority ReviewsExplain
  SpansInv
CHECK_DEADLOCK FALSE
