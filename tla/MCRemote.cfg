SPECIFICATION RemoteSpec
CONSTANTS
  Last = 6
  Adds = {1, 3, 5}
  Handlers = {h1, h2, h3}
  Nobody = Nobody
  Overlapping = {2, 4, 6}
  MaxFaults = 4
  DrawerLast = 3
  DrawerAdds = {1, 3}
  DrawerSlots = {s1, s2}
  DrawerOverlapping = {2}
  MaxOthers = 2
  MaxDrawerFaults = 2
  Records = 4
  ContentOf <- MCContentOf
  Removed = "gone"
  ChunkIds <- MCChunkIds
  Servers = {v1, v2}
  Refusals = {2, 4}
  MaxIngFaults = 3
  Browsers = {b1, b2}
  Refreshers = {c1, c2}
  MaxAttempts = 2
  MaxTokens = 5
  Local = home
  Remotes = {r1}
  Feeds = {"inbox", "events", "tasks", "changes"}
  Loggers = {w1, w2}
  PageLimit = 2
  MaxRows = 3
  FeedClock = 3
INVARIANTS
  ReceiptInv ReplicaFollows
  DrawerInv CommittedAddStays
  BatchInv RecordStored
  HubInv FeedInv
CHECK_DEADLOCK FALSE
