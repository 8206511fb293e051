SPECIFICATION MCSpec
CONSTANTS
  Docs = {a, b}
  plain = plain
  importing = importing
  defect = defect
  lib = lib
  Texts = {plain, importing, defect}
  Defects = {defect}
  Imports <- MCImports
  None = None
  Undefined = Undefined
  MaxEdits = 4
  MaxDisk = 1
  Files = {f, g}
  Libraries = {lib}
  MaxImports = 2
  MaxRequests = 3
INVARIANTS DependenciesReported OutcomesRight
PROPERTIES OutputIsCurrent EventuallyShown
CHECK_DEADLOCK FALSE
