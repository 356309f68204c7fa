SPECIFICATION FairSpec
CONSTANTS
  MAX_IOV = 2
  RESPONSE_BUFS = {3}
  KEEPALIVE_LIMIT = 2
  MARKS_EOR = FALSE
  KEEP_ALIVES = {TRUE}
  MAY_RUN_DRY = FALSE
  SHORT_WRITES = TRUE
  MAX_RESPONSES = 3
  MAX_RECVS = 2
INVARIANTS
  TypeOK
  StreamOrder
  InflightPinned
  NoLostFlush
  PolloutTruthful
PROPERTIES
  QueueDrains
  ImplementsStream
CHECK_DEADLOCK FALSE
