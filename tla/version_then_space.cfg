SPECIFICATION MessageSpec
CONSTANTS
  Table <- MCTable
  Repeatable <- MCRepeatable
  UINT16 = 40
  UINT32 = 20000
  SHRT_MAX = 39
  Streams <- MCRequests
  Types = {"REQUEST"}
  Chunks = {1}
  Capacities = {39}
  Retryable = {"arguments", "full", "memory"}
INVARIANTS
  LinesEndInLineFeed
CHECK_DEADLOCK FALSE
