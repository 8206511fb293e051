SPECIFICATION Spec
CONSTANTS
  Programs <- MCPrograms
  Edited <- MCSmall
  Strays <- MCStrays
  MaxLayouts = 1
  MaxDamages = 1
PROPERTIES RoundTrip AlwaysEnds Contained
CHECK_DEADLOCK FALSE
