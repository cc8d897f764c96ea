SPECIFICATION Spec
CONSTANTS
  Table <- MCTable
  Repeatable <- MCRepeatable
  UINT16 = 40
  UINT32 = 20000
  SHRT_MAX = 39
  Streams <- MCPairs
  Types = {"REQUEST"}
  Chunks = {1, 3}
  Capacities = {39}
  Retryable = {}
INVARIANTS
  FragmentsAreHandled
CHECK_DEADLOCK FALSE
