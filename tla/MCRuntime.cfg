SPECIFICATION MCSpec
CONSTANTS
  MaxSlots = 2
  MaxVersion = 2
  MaxTx = 3
  Bytes = {1, 2}
  MCMaxRefs = 1
  PayloadRefs <- MCPayloadRefs
  MaxStorageCells = 2
  MaxLogicalBytes = 3
  MaxTransientStorageCells = 2
  MaxTransientLogicalBytes = 3
  NoCell = NoCell
  NoWrite = NoWrite
  main = main
  outer = outer
  inner = inner
  plain = plain
  ticks = ticks
  count = count
  bars = bars
  empty = empty
  Frames <- MCFrames
  Root = main
  Above <- MCAbove
  Locals <- MCLocals
  FrameOf <- MCFrameOf
  Storage <- MCStorage
  Depth <- MCDepth
  Inputs <- MCInputs
  InputDepth <- MCInputDepth
  Plain <- MCPlain
  Empty = empty
  None = None
  Gone = Gone
  MaxObjects = 3
  MaxAttempts = 3
  MaxOps = 3
  Specs <- MCRequests
  EventTimes <- MCTimes
  Null = Null
  MaxChild = 4
  MaxParent = 3
INVARIANTS TypeOK ReferentialIntegrity StorageExact RowsAgree RetainedLive RowsAsDocumented
PROPERTY StoreSpec
CHECK_DEADLOCK FALSE
