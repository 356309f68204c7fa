SPECIFICATION FairSpec
CONSTANTS
  Fds = {4, 5}
  LISTEN_FD = 3
  MAX_IOV = 2
  KERNELS = {TRUE}
  POOLS = {TRUE}
  SQ_ENTRIES = 0
  SHORT_WRITES = FALSE
  PEERS_CLOSE = FALSE
  BUF_CNT = 3
  RESPONSE_LEN = 3
  ROUTED = {1, 2}
  MAX_CONNS = 2
  MAX_FOREIGN = 1
  MAX_SEGMENTS = 2
  MAX_AGAINS = 1
INVARIANTS
  SendsPinned
  NoLostFlush
PROPERTIES
  RequestsAnswered
CHECK_DEADLOCK FALSE
