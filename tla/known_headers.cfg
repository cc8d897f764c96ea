SPECIFICATION WholeSpec
CONSTANTS
  Table <- MCTable
  Repeatable <- MCRepeatable
  UINT16 = 256
  UINT32 = 20000
  SHRT_MAX = 255
  Streams <- MCKnown
  Types = {"REQUEST"}
  Chunks = {1}
  Capacities = {255}
  Retryable = {"memory"}
INVARIANTS
  NamesReachTheirSlots
  HeadersAreAsSent
CHECK_DEADLOCK FALSE
