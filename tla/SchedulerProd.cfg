\* Production build, no code throws, components only updated by flushed jobs.
CONSTANTS
  j1 = j1
  j2 = j2
  j3 = j3
  c1 = c1
  c2 = c2
  Jobs = {j1, j2, j3}
  Cbs = {c1, c2}
  Ticks = {t1}
  Null = Null
  FlushTask = FlushTask
  Id <- MCId3
  CbArrays <- Arrays
  MayThrow = {}
  Dev = FALSE
  Recover = FALSE
  SyncRender = FALSE
  RecursionLimit = 0
  MaxCalls = 2
  MaxQueue = 3
  MaxPosts = 3
  MaxDepth = 4
SPECIFICATION Spec
INVARIANTS TypeOK NoLostWork BatchInOrder
PROPERTIES ImplementsDeferredWork
