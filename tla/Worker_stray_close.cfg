SPECIFICATION Spec
CONSTANTS
  Fds = {4}
  LISTEN_FD = 3
  MAX_IOV = 2
  KERNELS = {TRUE}
  POOLS = {TRUE}
  SQ_ENTRIES = 0
  SHORT_WRITES = FALSE
  PEERS_CLOSE = TRUE
  BUF_CNT = 2
  RESPONSE_LEN = 2
  ROUTED = {1, 2}
  MAX_CONNS = 2
  MAX_FOREIGN = 0
  MAX_SEGMENTS = 2
  MAX_AGAINS = 0
INVARIANTS
  ClosesOwnFd
CHECK_DEADLOCK FALSE
