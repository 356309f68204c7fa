SPECIFICATION Spec
CONSTANTS
  MAX_IOV = 8
  Fds = {4}
  LISTEN_FD = 3
  KERNELS = {FALSE}
  POOLS = {FALSE}
  SHORT_WRITES = FALSE
  PEERS_CLOSE = FALSE
  POLITE = {TRUE}
  BUF_CNT = 1
  KEEPALIVE_LIMIT = 2
  STREAMS <- MCStreams
  MAX_CONNS = 1
  MAX_FOREIGN = 0
  MAX_AGAINS = 0
INVARIANTS
  HoldOutlivesRecv
CHECK_DEADLOCK FALSE
