-------------------------------- MODULE Uring --------------------------------
(***************************************************************************)
(* What an event loop of this repository works against: its io_uring ring, *)
(* the descriptor table of the process, and the peers.  Requests go from   *)
(* sq to the kernel, which keeps the slow ones in ops and answers in cq.   *)
(* The event loops Worker and Prototype extend this module.                *)
(*                                                                         *)
(* Most of this is no code of the repository: it is what the handlers of   *)
(* the loops take the results, flags and tags of their completions to mean.*)
(* The other workers of the process are: they run the same loop, of which  *)
(* only what it does to the shared descriptors is kept here.               *)
(***************************************************************************)
EXTENDS TxOps, FiniteSets, Bags

CONSTANTS
  Fds,          (* descriptors the kernel may give to connections           *)
  KERNELS,      (* which kernels: with multishot requests (TRUE), without   *)
  PEERS_CLOSE,  (* do peers end or reset their connections?                 *)
  SHORT_WRITES, (* may a socket take only the first buffers of a sendmsg?   *)
  BUF_CNT,      (* receive buffers provided to the kernel                   *)
  MAX_CONNS,    (* bound: connections made to this worker                   *)
  MAX_FOREIGN,  (* bound: descriptors taken by other workers                *)
  MAX_AGAINS    (* bound: sends that find the socket buffer full            *)

FOREIGN == MAX_CONNS + 1   (* stands for any connection of another worker  *)

Conns == 1 .. FOREIGN

ASSUME UringAssumption ==
  /\ Fds \subseteq Nat \ {0}
  /\ KERNELS \subseteq BOOLEAN
  /\ { PEERS_CLOSE, SHORT_WRITES } \subseteq BOOLEAN
  /\ { BUF_CNT, MAX_CONNS, MAX_FOREIGN, MAX_AGAINS } \subseteq Nat

VARIABLES
  multishot,       (* does the kernel know multishot accept and receive?    *)
  sq,              (* requests queued and not yet issued                    *)
  cq,              (* completions not yet handled                           *)
  ops,             (* requests issued and not completed                     *)
  fdtab,           (* descriptor -> connection, 0 when free                 *)
  pool,            (* receive buffers the kernel may fill                   *)
  backlog,         (* connections waiting to be accepted                    *)
  ended,           (* connections whose peer has closed                     *)
  sent,            (* bytes taken from each peer                            *)
  got,             (* history: the buffers each peer received whole         *)
  misclosed,       (* history: was a connection closed on another's behalf? *)
  theirs,          (* descriptors the other workers have in their tables    *)
  robbed,          (* history: descriptors of connections of this worker    *)
                   (*   that another worker has closed                      *)
  agains, conns, foreign                    (* counters for the bounds      *)

kernelVars == << fdtab, pool, backlog, ended, sent, multishot >>
historyVars == << got, misclosed >>
others == << theirs, robbed, foreign >>
bounds == << agains, conns, others >>
uringVars == << sq, cq, ops, kernelVars, historyVars, bounds >>

-----------------------------------------------------------------------------
EINVAL == -22
EAGAIN == -11
EBADF == -9
EMFILE == -24
ENOBUFS == -105
EPIPE == -32

(* A completion.  conn is the connection it is really about; received data *)
(* are the res bytes its peer sent after the first at bytes.               *)
Cqe(tag, res, conn) ==
  [ tag |-> tag, res |-> res, conn |-> conn, at |-> 0,
    more |-> FALSE, buffer |-> FALSE ]

(* Requests; each carries the tag of its completions.                      *)
AcceptSqe(tag, multi) == [ kind |-> "accept", tag |-> tag, multi |-> multi ]
RecvSqe(tag, fd, multi) ==
  [ kind |-> "recv", tag |-> tag, fd |-> fd, multi |-> multi ]
SendSqe(tag, fd, bufs) == [ kind |-> "send", tag |-> tag, fd |-> fd, bufs |-> bufs ]
PollSqe(tag, fd) == [ kind |-> "poll", tag |-> tag, fd |-> fd ]
CloseSqe(tag, fd, conn) ==
  [ kind |-> "close", tag |-> tag, fd |-> fd, conn |-> conn ]
ProvideSqe(tag) == [ kind |-> "provide", tag |-> tag ]

Free == { f \in Fds : fdtab[f] = 0 }

LowestFree == CHOOSE f \in Free : \A g \in Free : f <= g

Taken(f, conn) == [ fdtab EXCEPT ![f] = conn ]

-----------------------------------------------------------------------------
Op(sqe, conn) == [ sqe |-> sqe, conn |-> conn ]

Begin(op) == ops' = ops (+) SetToBag({ op })

End(op) == ops' = ops (-) SetToBag({ op })

Outstanding(kind) == { op \in BagToSet(ops) : op.sqe.kind = kind }

(* A multishot operation that goes on says so in its completion.           *)
Complete(op, cqe) ==
  /\ cq' = Append(cq, cqe)
  /\ IF cqe.more THEN UNCHANGED ops ELSE End(op)

IssueAccept(sqe) ==
  /\ sqe.kind = "accept"
  /\ IF sqe.multi /\ ~ multishot
     THEN cq' = Append(cq, Cqe(sqe.tag, EINVAL, 0)) /\ UNCHANGED ops
     ELSE Begin(Op(sqe, 0)) /\ UNCHANGED cq
  /\ UNCHANGED << fdtab, pool, misclosed >>

(* An operation holds on to the connection its descriptor names now, also  *)
(* when the descriptor is closed before the operation completes.           *)
IssueOnSocket(sqe) ==
  /\ sqe.kind \in { "recv", "send", "poll" }
  /\ LET refuse(res) ==
           /\ cq' = Append(cq, Cqe(sqe.tag, res, fdtab[sqe.fd]))
           /\ UNCHANGED ops
     IN  IF sqe.kind = "recv" /\ sqe.multi /\ ~ multishot THEN refuse(EINVAL)
         ELSE IF fdtab[sqe.fd] = 0 THEN refuse(EBADF)
         ELSE Begin(Op(sqe, fdtab[sqe.fd])) /\ UNCHANGED cq
  /\ UNCHANGED << fdtab, pool, misclosed >>

IssueClose(sqe) ==
  /\ sqe.kind = "close"
  /\ LET res == IF fdtab[sqe.fd] = 0 THEN EBADF ELSE 0
     IN  cq' = Append(cq, Cqe(sqe.tag, res, sqe.conn))
  /\ fdtab' = Taken(sqe.fd, 0)
  /\ misclosed' = (misclosed \/ fdtab[sqe.fd] \notin { 0, sqe.conn })
  /\ UNCHANGED << ops, pool >>

(* A message to the own ring completes twice: as the task, and as itself.  *)
IssueTask(sqe) ==
  /\ sqe.kind = "task"
  /\ cq' = cq \o << Cqe(sqe.tag, 0, sqe.conn), Cqe(sqe.stale, 0, 0) >>
  /\ UNCHANGED << ops, fdtab, pool, misclosed >>

IssueProvide(sqe) ==
  /\ sqe.kind = "provide"
  /\ pool' = pool + 1
  /\ cq' = Append(cq, Cqe(sqe.tag, 0, 0))
  /\ UNCHANGED << ops, fdtab, misclosed >>

(* Requests are issued in the order they were queued.                      *)
Issue ==
  /\ sq # <<>>
  /\ LET sqe == Head(sq)
     IN  \/ IssueAccept(sqe) \/ IssueOnSocket(sqe) \/ IssueClose(sqe)
         \/ IssueTask(sqe) \/ IssueProvide(sqe)
  /\ sq' = Tail(sq)
  /\ UNCHANGED << multishot, backlog, ended, sent, got, bounds >>

KernelAccept ==
  /\ backlog # <<>>
  /\ \E op \in Outstanding("accept") :
       \/ /\ Free # {}
          /\ \E more \in { op.sqe.multi, FALSE } :
               Complete(op, [ Cqe(op.sqe.tag, LowestFree, Head(backlog))
                                EXCEPT !.more = more ])
          /\ fdtab' = Taken(LowestFree, Head(backlog))
          /\ backlog' = Tail(backlog)
       \/ /\ Free = {}
          /\ Complete(op, Cqe(op.sqe.tag, EMFILE, 0))
          /\ UNCHANGED << fdtab, backlog >>
  /\ UNCHANGED << sq, multishot, pool, ended, sent, historyVars, bounds >>

(* The peer of k has sent any of Ready(k) bytes, or has closed.  A         *)
(* multishot receive is ended when it looks for a buffer of the pool in    *)
(* vain, be there data or not.                                             *)
KernelRecv(Ready(_)) ==
  /\ \E op \in Outstanding("recv") :
       LET k == op.conn
           cqe == Cqe(op.sqe.tag, 0, k)
       IN  \/ /\ k \in ended
              /\ Complete(op, cqe)
              /\ UNCHANGED << pool, sent >>
           \/ /\ k \notin ended
              /\ op.sqe.multi /\ pool = 0
              /\ Complete(op, [ cqe EXCEPT !.res = ENOBUFS ])
              /\ UNCHANGED << pool, sent >>
           \/ /\ k \notin ended
              /\ op.sqe.multi => pool > 0
              /\ \E n \in Ready(k), more \in { op.sqe.multi, FALSE } :
                   /\ Complete(op, [ cqe EXCEPT !.res = n, !.at = sent[k],
                                                !.more = more,
                                                !.buffer = op.sqe.multi ])
                   /\ sent' = [ sent EXCEPT ![k] = @ + n ]
              /\ pool' = IF op.sqe.multi THEN pool - 1 ELSE pool
  /\ UNCHANGED << sq, multishot, fdtab, backlog, ended, historyVars, bounds >>

(* The socket takes the buffers of a sendmsg, or only the first of them, or*)
(* is full, or is gone.  The result of a sendmsg that has taken anything   *)
(* counts its bytes.                                                       *)
KernelSend ==
  /\ \E op \in Outstanding("send") :
       LET cqe == Cqe(op.sqe.tag, 1, op.conn)
       IN  \/ /\ Complete(op, cqe)
              /\ \E n \in 0 .. Len(op.sqe.bufs) :
                   /\ n = Len(op.sqe.bufs) \/ SHORT_WRITES
                   /\ got' = [ got EXCEPT ![op.conn] =
                                 @ \o SubSeq(op.sqe.bufs, 1, n) ]
              /\ UNCHANGED agains
           \/ /\ agains < MAX_AGAINS
              /\ agains' = agains + 1
              /\ Complete(op, [ cqe EXCEPT !.res = EAGAIN ])
              /\ UNCHANGED got
           \/ /\ op.conn \in ended
              /\ Complete(op, [ cqe EXCEPT !.res = EPIPE ])
              /\ UNCHANGED << got, agains >>
  /\ UNCHANGED << sq, kernelVars, misclosed, conns, others >>

KernelPoll ==
  /\ \E op \in Outstanding("poll") :
       Complete(op, Cqe(op.sqe.tag, 1, op.conn))
  /\ UNCHANGED << sq, kernelVars, historyVars, bounds >>

Connect ==
  /\ conns < MAX_CONNS
  /\ conns' = conns + 1
  /\ backlog' = Append(backlog, conns + 1)
  /\ UNCHANGED << sq, cq, ops, fdtab, pool, ended, sent, multishot,
                  historyVars, agains, others >>

PeerEnds ==
  /\ PEERS_CLOSE
  /\ \E k \in 1 .. conns : ended' = ended \cup { k } /\ k \notin ended
  /\ UNCHANGED << sq, cq, ops, fdtab, pool, backlog, sent, multishot,
                  historyVars, bounds >>

(* Another worker of the process accepts a connection of its own.          *)
OtherAccept ==
  /\ foreign < MAX_FOREIGN
  /\ foreign' = foreign + 1
  /\ Free # {}
  /\ fdtab' = Taken(LowestFree, FOREIGN)
  /\ theirs' = theirs \cup { LowestFree }
  /\ UNCHANGED << sq, cq, ops, pool, backlog, ended, sent, multishot,
                  historyVars, agains, conns, robbed >>

(* Another worker closes a descriptor of its table, because its peer has   *)
(* ended, or once more, because the completion of its close came back as a *)
(* receive that has ended: the descriptor then names nothing, or whatever  *)
(* connection it was given to.                                             *)
OtherClose ==
  /\ PEERS_CLOSE
  /\ \E f \in theirs :
       /\ fdtab[f] # 0
       /\ fdtab' = Taken(f, 0)
       /\ robbed' = IF fdtab[f] = FOREIGN THEN robbed ELSE robbed \cup { f }
  /\ UNCHANGED << sq, cq, ops, pool, backlog, ended, sent, multishot,
                  historyVars, agains, conns, foreign, theirs >>

-----------------------------------------------------------------------------
(* A ring onto which the loop has queued the requests first.               *)
UringInit(first) ==
  /\ multishot \in KERNELS
  /\ sq = first
  /\ cq = <<>>
  /\ ops = EmptyBag
  /\ fdtab = [ f \in Fds |-> 0 ]
  /\ backlog = <<>>
  /\ ended = {}
  /\ sent = [ k \in Conns |-> 0 ]
  /\ got = [ k \in Conns |-> <<>> ]
  /\ misclosed = FALSE
  /\ agains = 0
  /\ conns = 0
  /\ foreign = 0
  /\ theirs = {}
  /\ robbed = {}

UringNext(Ready(_)) ==
  \/ Issue
  \/ KernelAccept \/ KernelRecv(Ready) \/ KernelSend \/ KernelPoll
  \/ Connect \/ PeerEnds \/ OtherAccept \/ OtherClose

-----------------------------------------------------------------------------
(* What is outstanding for a handler: requests not issued, requests not    *)
(* completed, and completions not handled that end their request.          *)
Queued(P(_)) == Cardinality({ i \in 1 .. Len(sq) : P(sq[i]) })

(* The copies of each member of a bag, told apart.                         *)
Copies(bag) == UNION { { o } \X (1 .. bag[o]) : o \in BagToSet(bag) }

InKernel(P(_)) == Cardinality({ copy \in Copies(ops) : P(copy[1].sqe) })

Answered(tag) ==
  Cardinality({ i \in 1 .. Len(cq) : cq[i].tag = tag /\ ~ cq[i].more })

(* The requests of this kind with this tag.                                *)
UnderWay(kind, tag) ==
  LET P(sqe) == sqe.kind = kind /\ sqe.tag = tag
  IN  Queued(P) + InKernel(P) + Answered(tag)

(* The receive buffers the kernel has, is about to get back, or has filled *)
(* for a completion that is not handled yet.                               *)
BuffersInUse ==
  LET Returning(sqe) == sqe.kind = "provide"
      filled == { i \in 1 .. Len(cq) : cq[i].buffer }
  IN  pool + Queued(Returning) + Cardinality(filled)

(* The types of requests and completions with the given tags and buffers.  *)
SqesOf(Tags, Bufs) ==
       [ kind : {"accept"}, tag : Tags, multi : BOOLEAN ]
  \cup [ kind : {"recv"}, tag : Tags, fd : Fds, multi : BOOLEAN ]
  \cup [ kind : {"send"}, tag : Tags, fd : Fds, bufs : Seq(Bufs) ]
  \cup [ kind : {"poll"}, tag : Tags, fd : Fds ]
  \cup [ kind : {"close"}, tag : Tags, fd : Fds, conn : 0 .. FOREIGN ]
  \cup [ kind : {"provide"}, tag : Tags ]

CqesOf(Tags) ==
  [ tag : Tags, res : Int, conn : 0 .. FOREIGN, at : Nat,
    more : BOOLEAN, buffer : BOOLEAN ]
=============================================================================
