SPECIFICATION TypedSpec
CONSTANTS
  Families <- MCFamilies
  Targets = {"go", "c"}
  Pointers = {"node"}
INVARIANTS
  TablesAreSound
  Hierarchy
  MergesAreSafe
  PackedTablesAgree
  TypedContextsAreSound
CHECK_DEADLOCK FALSE
