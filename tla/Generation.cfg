SPECIFICATION Spec
CONSTANTS
  Commands  <- MCCommands
  Faults    <- MCFaults
  SourcesOf <- MCSourcesOf
  Legacy    <- MCLegacy
  MaxRuns   = 2
  MaxEdits  = 1
CHECK_DEADLOCK FALSE
INVARIANTS
  PackageIsWhole
  CommandsAgree
PROPERTIES
  WritesAreJustified
