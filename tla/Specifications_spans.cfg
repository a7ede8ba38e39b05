SPECIFICATION Specs
CHECK_DEADLOCK FALSE
CONSTANTS
  Idents      <- MCIdents
  Characters  <- MCCharacters
  LowerOf     <- MCLowerOf
  YaccTokenOf <- MCYaccTokenOf
  RuleNames   = {"S"}
  Written     <- Grammars
  Lines       = {}
  MaxLines    = 0
INVARIANTS
  RulesAreLocated
