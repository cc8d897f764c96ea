SPECIFICATION WholeSpec
CONSTANTS
  Table <- MCTable
  Repeatable = {1}
  UINT16 = 64
  UINT32 = 20000
  SHRT_MAX = 63
  Streams <- MCRequests
  Types = {"REQUEST"}
  Chunks = {1}
  Capacities = {63}
  Retryable = {"arguments", "full", "memory"}
INVARIANTS
  HeadersAreAsSent
PROPERTIES
  ImplementsMessage
CHECK_DEADLOCK FALSE
