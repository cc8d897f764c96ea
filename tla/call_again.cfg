SPECIFICATION MessageSpec
CONSTANTS
  Table <- MCTable
  Repeatable <- MCRepeatable
  UINT16 = 40
  UINT32 = 20000
  SHRT_MAX = 39
  Streams <- MCRepeated
  Types = {"REQUEST", "RESPONSE"}
  Chunks = {1, 7}
  Capacities = {12, 39}
  Retryable = {"arguments", "full", "memory", "syntax", "none"}
INVARIANTS
  StatusHasThreeDigits
  HeadersAreAsSent
PROPERTIES
  RecordedIsKept
  ClosedHeadIsFinal
  SyntaxErrorIsFinal
CHECK_DEADLOCK FALSE
