SPECIFICATION Spec
CONSTANTS
  Fds = {4, 5, 6}
  LISTEN_FD = 3
  MAX_IOV = 2
  KERNELS = {TRUE, FALSE}
  POOLS = {TRUE, FALSE}
  SQ_ENTRIES = 0
  SHORT_WRITES = TRUE
  PEERS_CLOSE = TRUE
  BUF_CNT = 1
  RESPONSE_LEN = 2
  ROUTED = {1, 2}
  MAX_CONNS = 2
  MAX_FOREIGN = 1
  MAX_SEGMENTS = 1
  MAX_AGAINS = 0
INVARIANTS
  TypeOK
  OneRecvOutstanding
  BuffersConserved
  AcceptOutstanding
  LiveEntryOwnsFd
CHECK_DEADLOCK FALSE
