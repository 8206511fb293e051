SPECIFICATION MCSpec
CONSTANTS
  Executions = 2
  Channels = 1
  MaxEffectsPerRow = 2
  FrameOrder <- MCFrameOrder
  LocalsOf <- MCLocalsOf
  Storage <- MCStorage
  Depth <- MCDepth
  Calls <- MCCalls
  Callers = {a, b}
  Absent = Absent
  main = main
  outer = outer
  inner = inner
  price = price
  count = count
  bars = bars
INVARIANTS RowsMeanTheProgram LargestChunk
PROPERTIES ChunksAreAtomic EverySettles
CHECK_DEADLOCK FALSE
