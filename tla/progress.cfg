SPECIFICATION FairSpec
CONSTANTS
  Table <- MCTable
  Repeatable <- MCRepeatable
  UINT16 = 40
  UINT32 = 20000
  SHRT_MAX = 39
  Streams <- MCShortRequests
  Types = {"REQUEST"}
  Chunks = {1, 3}
  Capacities = {4, 8, 40}
  Retryable = {"arguments", "full", "memory"}
PROPERTIES
  EventuallyAccepted
  EventuallyAnswered
CHECK_DEADLOCK FALSE
