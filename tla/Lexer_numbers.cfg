SPECIFICATION LexerSpec
CONSTANTS
  Domain = {"x", "y", "z"}
  Lexers = {}
  MaxWord = 4
  MaxRune = 6
  domain <- MCDomain
  Labels = {}
  MaxLabels = 2
  Texts <- NumberTexts
  Scalars <- MCScalars
  ScannerDomain <- MCScalars
  RuneBits = 6
  RuneOf <- MCRuneOf
  PropertySets <- MCPropertySets
  MaxExpr = 5
  MaxPieces = 3
CHECK_DEADLOCK FALSE
INVARIANTS
  LargeNumbersAreRejected
