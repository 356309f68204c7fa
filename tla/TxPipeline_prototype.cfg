SPECIFICATION Spec
CONSTANTS
  MAX_IOV = 3
  RESPONSE_BUFS = {2}
  KEEPALIVE_LIMIT = 2
  MARKS_EOR = TRUE
  KEEP_ALIVES = {TRUE, FALSE}
  MAY_RUN_DRY = TRUE
  SHORT_WRITES = TRUE
  MAX_RESPONSES = 3
  MAX_RECVS = 2
INVARIANTS
  PolloutTruthful
  InflightIsOneBatch
  ServedCountsResponses
PROPERTIES
  ImplementsStream
CHECK_DEADLOCK FALSE
