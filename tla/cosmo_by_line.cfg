SPECIFICATION LineSpec
CONSTANTS
  Table <- MCTable
  Repeatable <- MCRepeatable
  UINT16 = 40
  UINT32 = 20000
  SHRT_MAX = 39
  Streams <- MCMessages
  Types = {"REQUEST", "RESPONSE"}
  Chunks = {1}
  Capacities = {24, 39}
  Retryable = {"arguments", "full"}
INVARIANTS
  ReferenceFirstLineIsAsSent
  ReferenceHeadersAreAsSent
PROPERTIES
  ReferenceImplementsMessage
