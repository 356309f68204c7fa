SPECIFICATION Spec
CONSTANTS
  STREAMS <- MCStreams
  REQUESTS <- MCRequests
INVARIANTS
  TypeOK
  BodyAfterBlankLine
  RequestLineSplit
  HeadersAreLines
  AnsweredWhenComplete
PROPERTIES
  OnlyKnownEffects
CHECK_DEADLOCK FALSE
