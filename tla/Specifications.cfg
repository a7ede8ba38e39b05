SPECIFICATION Specs
CHECK_DEADLOCK FALSE
CONSTANTS
  Idents      <- MCIdents
  Characters  <- MCCharacters
  LowerOf     <- MCLowerOf
  YaccTokenOf <- MCYaccTokenOf
  RuleNames   = {"S"}
  Written     <- MCWritten
  Lines       <- MCLines
  MaxLines    = 3
INVARIANTS
  ReadsBack
  DeclarationsAreSound
  AcceptanceIgnoresOrder
PROPERTIES
  NothingIsSilent
