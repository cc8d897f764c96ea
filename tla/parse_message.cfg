SPECIFICATION Spec
CONSTANTS
  Table <- MCTable
  Repeatable <- MCRepeatable
  UINT16 = 40
  UINT32 = 20000
  SHRT_MAX = 39
  Streams <- MCMessages
  Types = {"REQUEST", "RESPONSE", "UNKNOWN"}
  Chunks = {1, 2}
  Capacities = {24, 39, 41}
  Retryable = {"arguments", "full", "memory"}
INVARIANTS
  TypeOK
  WithinInput
  SlicesInInput
  ListFitsAllocation
  FieldsClean
  FirstLineIsAsSent
  HeadersAreAsSent
PROPERTIES
  RecordedIsKept
  ImplementsMessage
