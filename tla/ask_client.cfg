SPECIFICATION ClientSpec
CONSTANTS
  Table <- MCTable
  Repeatable <- MCRepeatable
  UINT16 = 40
  UINT32 = 20000
  SHRT_MAX = 39
  Streams <- MCStreams
  Types = {"REQUEST"}
  Chunks = {1, 7}
  Capacities = {20, 39}
  Retryable = {"arguments", "full", "memory"}
  Blocks = {1, 2}
  Names <- MCNames
INVARIANTS
  AnswersReadTheBuffer
  AnswerIsAsSent
