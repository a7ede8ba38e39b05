SPECIFICATION TypedSpec
CONSTANTS
  Families <- TypedFamilies
  Targets = {"c"}
  Pointers = {"node"}
INVARIANTS
  TypedFieldsAreTyped
CHECK_DEADLOCK FALSE
