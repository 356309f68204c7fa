SPECIFICATION Spec
CONSTANTS
  MAX_IOV = 3
  RESPONSE_BUFS = {3}
  KEEPALIVE_LIMIT = 2
  MARKS_EOR = FALSE
  KEEP_ALIVES = {TRUE}
  MAY_RUN_DRY = FALSE
  SHORT_WRITES = FALSE
  MAX_RESPONSES = 3
  MAX_RECVS = 2
INVARIANTS
  ServedCountsResponses
CHECK_DEADLOCK FALSE
