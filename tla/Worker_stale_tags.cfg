SPECIFICATION Spec
CONSTANTS
  Fds = {4, 5}
  LISTEN_FD = 3
  MAX_IOV = 2
  KERNELS = {TRUE}
  POOLS = {TRUE}
  SQ_ENTRIES = 6
  SHORT_WRITES = FALSE
  PEERS_CLOSE = FALSE
  BUF_CNT = 2
  RESPONSE_LEN = 2
  ROUTED = {1, 2}
  MAX_CONNS = 1
  MAX_FOREIGN = 0
  MAX_SEGMENTS = 2
  MAX_AGAINS = 0
INVARIANTS
  SendsAlwaysPinned
CHECK_DEADLOCK FALSE
