SPECIFICATION LexerSpec
CONSTANTS
  Domain = {"x", "y", "z"}
  Lexers <- MCLexers
  MaxWord = 4
  MaxRune = 6
  domain <- MCDomain
  Labels <- MCLabels
  MaxLabels = 2
  Texts <- MCTexts
  Scalars <- MCScalars
  ScannerDomain <- MCScalars
  RuneBits = 6
  RuneOf <- MCRuneOf
  PropertySets <- MCPropertySets
  MaxExpr = 5
  MaxPieces = 3
CHECK_DEADLOCK FALSE
INVARIANTS
  RangesAreSets
  RejectsExactly
  AutomatonIsExact
  ParsesTheGrammar
  BlanksAreFree
