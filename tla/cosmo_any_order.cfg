SPECIFICATION Spec
CONSTANTS
  Table <- MCTable
  Repeatable <- MCRepeatable
  UINT16 = 40
  UINT32 = 20000
  SHRT_MAX = 39
  Streams <- MCPairs
  Types = {"REQUEST", "RESPONSE"}
  Chunks = {1, 2}
  Capacities = {20, 39}
  Retryable = {"arguments", "full", "syntax"}
INVARIANTS
  ReferenceStaysInInput
  ReferenceListFits
