SPECIFICATION TradingSpec
CONSTANTS
  EntryNames <- MCEntryNames
  CloseIds = {"Close"}
  RebalanceIds = {"Target"}
  Targets <- MCTargets
  ExitIds = {"Exit"}
  EntryStops <- MCEntryStops
  Brackets <- MCBrackets
  Bars <- MCBars
  Pyramiding = 2
  None = None
  MaxBars = 4
  MaxCommands = 3
  LotBars <- MCLotBars
  Na = Na
  InitialCash = 7
  MaxOpenTrades = 2
  MarginLong = 100
  MarginShort = 100
  Commission = 1
  Slippage = 1
  Quantities = {0, 1, 2}
  Stops = {0, 2, 3}
  MaxFills = 6
INVARIANT EveryStopRespected
CHECK_DEADLOCK FALSE
