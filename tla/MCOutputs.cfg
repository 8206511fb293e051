SPECIFICATION MCSpec
CONSTANTS
  MaxSource = 5
  MaxTarget = 4
  Wait = Wait
  Throw = Throw
  Projectors = {"all", "one", "sample", "window", "mixed"}
  Project <- MCProject
  Continues <- MCContinues
  Observers = {o1, o2, o3}
  NoObserver = NoObserver
  MaxEmits = 3
  Capacity = 2
  HighWaterMark = 1
  MaxWrites = 5
  MaxRows = 3
  Header = Header
  Old = Old
  Root = "root"
  MaxBinds = 3
  Unset = Unset
  EntryNames <- MCEntryNames
  CloseIds = {"Close"}
  RebalanceIds = {"Target"}
  Targets <- MCTargets
  ExitIds = {"Exit"}
  EntryStops <- MCEntryStops
  Brackets <- MCBrackets
  Bars <- MCBars
  Pyramiding = 2
  None = None
  MaxBars = 4
  MaxCommands = 3
  LotBars <- MCLotBars
  Na = Na
  InitialCash = 7
  MaxOpenTrades = 2
  MarginLong = 100
  MarginShort = 100
  Commission = 1
  Slippage = 1
  Quantities = {0, 1, 2}
  Stops = {0, 2, 3}
  MaxFills = 6
INVARIANTS ServedInOrder NoValueLost SharedRows RunReleased PolicyKept DrainedUnlessPeerCloses ResolvedMeansWritten BoundAsAsked ActiveMatchesPosition StopRespected OrdersConsistent EveryFillApplied
PROPERTIES DropsOnlyWithinNext EventuallyEnds EventuallySettles ExecuteSettles
CHECK_DEADLOCK FALSE
