SPECIFICATION Spec
CONSTANTS
  Programs <- MCContinued
  Edited = {}
  Strays = {}
  MaxLayouts = 0
  MaxDamages = 0
PROPERTIES BlocksEndStatements
CHECK_DEADLOCK FALSE
