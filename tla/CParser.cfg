SPECIFICATION CFairSpec
CONSTANTS
  Tables <- RecoveryTables
  MaxLexemes <- CBounds
  FirstCapacity = 1
INVARIANTS
  ReturnsAreClean
  StacksHoldValues
PROPERTIES
  CallsReturn
CHECK_DEADLOCK FALSE
