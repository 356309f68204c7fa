SPECIFICATION Spec
CONSTANTS
  STREAMS <- MCStreams
  REQUESTS <- MCRequests
INVARIANTS
  EachRequestAnswered
CHECK_DEADLOCK FALSE
