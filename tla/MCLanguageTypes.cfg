SPECIFICATION MCSpec
CONSTANTS
  Scripts <- Widening
  Closes <- MCCloses
  InputValues <- MCInputs
  Bars = 3
  Cap = 3
  Compiled <- MCCompiled
  Runs = {"scripts"}
  Programs <- MCPrograms
  Names <- MCNames
  Owners = {"s", "t"}
  Structs = {b1, b2}
  Refs = {1, 2, 3}
  Elements <- MCElements
  MaxElements = 3
  MaxStatements = 5
  Nil = Nil
  Free = Free
  NegativeZero = NegativeZero
INVARIANT RunsThrough
CHECK_DEADLOCK FALSE
