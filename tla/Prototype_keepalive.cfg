SPECIFICATION FairSpec
CONSTANTS
  MAX_IOV = 8
  Fds = {4, 5}
  LISTEN_FD = 3
  KERNELS = {TRUE, FALSE}
  POOLS = {TRUE}
  SHORT_WRITES = FALSE
  PEERS_CLOSE = TRUE
  POLITE = {TRUE, FALSE}
  BUF_CNT = 9
  KEEPALIVE_LIMIT = 2
  STREAMS <- MCStreams
  MAX_CONNS = 2
  MAX_FOREIGN = 0
  MAX_AGAINS = 1
INVARIANTS
  TypeOK
  OneRecvOutstanding
  BuffersConserved
  SendsPinned
  NoLostKick
  AnsweredAsAsked
PROPERTIES
  ImplementsStreams
  KeepsPromises
  RequestsAnswered
  CloseFollows
CHECK_DEADLOCK FALSE
