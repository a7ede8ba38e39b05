SPECIFICATION CSpec
CONSTANTS
  Tables <- UnitTables
  MaxLexemes <- UnitBounds
  FirstCapacity = 2
INVARIANTS
  ReturnedValuesLive
CHECK_DEADLOCK FALSE
