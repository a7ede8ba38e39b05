SPECIFICATION Spec
CONSTANTS
  Spelling <- MCSpelling
  Newline = "n"
  Nul = "0"
  Units16 = {"a", "b", "n", "L", "C"}
  Callers = {c1, c2}
  NoCaller = NoCaller
  Lexers <- MCLexers
  Texts <- MCTexts
  NulTexts <- MCNulTexts
  readBufferSize = 2
  maxBufferedLexemeBytes = 3
  MaxCalls = 3
  MaxNexts = 1
  MaxFaults = 1
  FirstCapacity = 1
CHECK_DEADLOCK FALSE
INVARIANTS
  NothingIsLost
  MemorySound
PROPERTIES
  DeliversTheStream
  FailuresAreReported
  ReadsAtTheFrontier
  CallsReturn
