SPECIFICATION FairSpec
CONSTANTS
  Tables <- MCTables
  MaxLexemes <- MCBounds
INVARIANTS
  TypeOK
  StackSound
  NoInternalFailure
  LexemesAccounted
  RecoveryWindow
  ValuesInOrder
  StrictSuccessIsWholeInput
  AcceptsOnlySentences
  ErrorsAreExact
PROPERTIES
  DiagnosticsSettle
  Terminates
CHECK_DEADLOCK FALSE
