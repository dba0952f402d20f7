\* Development build: everything may throw, components may update anywhere.
CONSTANTS
  j1 = j1
  j2 = j2
  j3 = j3
  c1 = c1
  c2 = c2
  Jobs = {j1, j2}
  Cbs = {c1}
  Ticks = {}
  Null = Null
  FlushTask = FlushTask
  Id <- MCId2
  CbArrays <- Singles
  MayThrow = {j1, c1}
  Dev = TRUE
  Recover = TRUE
  SyncRender = TRUE
  RecursionLimit = 1
  MaxCalls = 2
  MaxQueue = 3
  MaxPosts = 2
  MaxDepth = 4
SPECIFICATION Spec
INVARIANTS SingleFlush
PROPERTIES FlushEnds
