SPECIFICATION FairSpec
CONSTANTS
  Tables <- RecoveryTables
  MaxLexemes <- CppBounds
INVARIANTS
  HandlersSuffice
PROPERTIES
  ImplementsLRParser
  CallReturns
CHECK_DEADLOCK FALSE
