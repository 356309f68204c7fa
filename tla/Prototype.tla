------------------------------ MODULE Prototype ------------------------------
(***************************************************************************)
(* The worker of the prototype test2.cpp, from which the library grew: it  *)
(* parses while it handles a receive, answers at once, marks the end of    *)
(* every response, and closes the connections that are not to be kept.     *)
(*                                                                         *)
(* Its seven ops fit the three bits of a tag.  The only task it ever posts *)
(* is SendKick, when the submission queue has no entry left: TxPipeline    *)
(* models that.  Parse, Generate and Close tasks are never posted.         *)
(*                                                                         *)
(* A definition X_... that stands before a definition X is a faulty        *)
(* version of it, which no specification uses (see PROJECT.json).          *)
(***************************************************************************)
EXTENDS Uring, PrototypeParsing

CONSTANTS
  LISTEN_FD,
  POOLS,             (* was the buffer pool allocated (TRUE), or not?       *)
  POLITE,            (* do peers wait for each response before they go on,  *)
                     (*   and leave the closing to the server, or not?      *)
  STREAMS            (* the requests that such peers, and the others, send  *)

ASSUME PrototypeAssumption ==
  /\ LISTEN_FD \in Nat \ (Fds \cup {0})
  /\ STREAMS \in [ BOOLEAN -> SUBSET [ 1 .. MAX_CONNS -> Seq(Requests) ] ]
  /\ { POOLS, POLITE } \subseteq SUBSET BOOLEAN

VARIABLES
  table,           (* ConnTable: descriptor -> PerClientStorage             *)
  use_ms_accept, ms_accept_armed, use_ms_recv, have_buf_pool,
  polite,          (* the peers of this run, of POLITE                      *)
  stream,          (* what each peer sends                                  *)
  answers          (* history: the buffers queued for each connection       *)

flags == << use_ms_accept, ms_accept_armed, use_ms_recv, have_buf_pool >>
peerVars == << polite, stream >>
loopVars == << table, flags, answers >>
vars == << loopVars, peerVars, uringVars >>

-----------------------------------------------------------------------------
Ops == { "Accept", "Recv", "Send", "Task", "Close", "PollOut", "Buf" }

Tag(fd, op) == [ fd |-> fd, op |-> op ]

AcceptOf(multi) == AcceptSqe(Tag(LISTEN_FD, "Accept"), multi)
RecvOf(fd, multi) == RecvSqe(Tag(fd, "Recv"), fd, multi)
SendOf(fd, bufs) == SendSqe(Tag(fd, "Send"), fd, bufs)
PollOf(fd) == PollSqe(Tag(fd, "PollOut"), fd)
CloseOf(fd, conn) == CloseSqe(Tag(fd, "Close"), fd, conn)
Buf == ProvideSqe(Tag(0, "Buf"))

(* The storage of a connection when table_.add has made it.                *)
FreshStorage(conn) ==
  [ conn |-> conn, served |-> 0, closing |-> FALSE, keep_alive |-> TRUE,
    acc |-> <<>>, ms_recv_armed |-> FALSE, rx_hold |-> FALSE,
    pollout_armed |-> FALSE, tx |-> InitTx ]

(* The helpers that change a storage and queue requests return both.       *)
Just(c) == [ c |-> c, sqes |-> <<>> ]

post_accept(ms, armed) ==
  IF ~ ms THEN << AcceptOf(FALSE) >>
  ELSE IF armed THEN <<>>
  ELSE << AcceptOf(TRUE) >>

InPool == use_ms_recv /\ have_buf_pool

start_recv(fd, c, in_pool) ==
  IF ~ in_pool
  THEN [ c |-> [ c EXCEPT !.rx_hold = TRUE ], sqes |-> << RecvOf(fd, FALSE) >> ]
  ELSE IF c.ms_recv_armed THEN Just(c)
  ELSE [ c    |-> [ c EXCEPT !.ms_recv_armed = TRUE ],
         sqes |-> << RecvOf(fd, TRUE) >> ]

Disarmed_not_at_all(c) == c

(* A multishot receive has ended.                                          *)
Disarmed(c) == [ c EXCEPT !.ms_recv_armed = FALSE ]

StartUnlessClosing(fd, c, in_pool) ==
  IF c.closing THEN Just(c) ELSE start_recv(fd, c, in_pool)

sendkick_inline(fd, c) ==
  IF NothingToKick(c.tx) THEN Just(c)
  ELSE LET q == c.tx.txq
           batch == TakeBatch(c.tx, CHOOSE n \in 1 .. Len(q) : IsBatch(q, n))
       IN  [ c    |-> [ c EXCEPT !.tx = batch ],
             sqes |-> << SendOf(fd, batch.tx_inflight) >> ]

arm_pollout(fd, c) ==
  IF c.pollout_armed THEN Just(c)
  ELSE [ c |-> [ c EXCEPT !.pollout_armed = TRUE ], sqes |-> << PollOf(fd) >> ]

Closed(fd, c, conn) ==
  [ c    |-> [ c EXCEPT !.closing = TRUE ],
    sqes |-> << CloseOf(fd, conn) >> ]

(* The storage after on_send_complete.                                     *)
OnSendComplete(c) ==
  [ c EXCEPT !.tx = Completed(@),
             !.served = IF c.tx.inflight_eor THEN @ + 1 ELSE @ ]

ToBeClosed_limit_only(c) == c.tx.inflight_eor /\ c.served + 1 >= KEEPALIVE_LIMIT

(* What on_send_complete returns.                                          *)
ToBeClosed(c) ==
  /\ c.tx.inflight_eor
  /\ c.served + 1 >= KEEPALIVE_LIMIT \/ ~ c.keep_alive \/ c.closing

-----------------------------------------------------------------------------
(* The handlers: one completion is taken from the head of cq.              *)

Cqe1 == Head(cq)

fd1 == Cqe1.tag.fd

c1 == table[fd1]

Dispatch(op) ==
  /\ cq # <<>>
  /\ Cqe1.tag.op = op
  /\ cq' = Tail(cq)
  /\ UNCHANGED << ops, kernelVars, historyVars, bounds, peerVars >>

DispatchTo(op) == Dispatch(op) /\ fd1 \in DOMAIN table

Queue(new) == sq' = sq \o new

Update(r) ==
  /\ table' = [ table EXCEPT ![fd1] = r.c ]
  /\ Queue(r.sqes)

(* No connection was accepted; -EINVAL switches multishot accepts off.     *)
HandleAcceptFailed ==
  /\ Dispatch("Accept")
  /\ Cqe1.res < 0
  /\ LET ms == use_ms_accept /\ Cqe1.res # EINVAL
         armed == ms_accept_armed /\ Cqe1.res # EINVAL
     IN  /\ use_ms_accept' = ms
         /\ ms_accept_armed' = (armed \/ ms)
         /\ Queue(post_accept(ms, armed))
  /\ UNCHANGED << table, use_ms_recv, have_buf_pool, answers >>

(* The rest of the Accept handler.  emplace keeps a storage that is still  *)
(* there and frees the new one, which start_recv reads all the same.       *)
AcceptConnection ==
  /\ LET fd == Cqe1.res
         r == start_recv(fd, FreshStorage(Cqe1.conn), InPool)
         again == IF ~ use_ms_accept \/ ~ Cqe1.more
                  THEN post_accept(use_ms_accept, FALSE) ELSE <<>>
     IN  /\ table' = [ f \in DOMAIN table \cup { fd } |->
                         IF f \in DOMAIN table THEN table[f] ELSE r.c ]
         /\ \E sqes \in IF fd \in DOMAIN table THEN { <<>>, r.sqes } ELSE { r.sqes } :
              Queue(sqes \o again)
  /\ ms_accept_armed' = (ms_accept_armed \/ (use_ms_accept /\ ~ Cqe1.more))
  /\ UNCHANGED << use_ms_accept, use_ms_recv, have_buf_pool, answers >>

HandleAccepted_unchecked == Dispatch("Accept") /\ AcceptConnection

HandleAccepted == Dispatch("Accept") /\ Cqe1.res >= 0 /\ AcceptConnection

(* End of stream or error; -EINVAL switches multishot receives off.        *)
HandleRecvFailed ==
  /\ DispatchTo("Recv")
  /\ Cqe1.res <= 0
  /\ LET c == Disarmed(c1)
     IN  \/ /\ Cqe1.res = EINVAL
            /\ use_ms_recv' = FALSE
            /\ Update(StartUnlessClosing(fd1, c, FALSE))
         \/ /\ Cqe1.res # EINVAL
            /\ Update(Closed(fd1, c, Cqe1.conn))
            /\ UNCHANGED use_ms_recv
  /\ UNCHANGED << use_ms_accept, ms_accept_armed, have_buf_pool, answers >>

(* The bytes of the completion.                                            *)
Received ==
  SubSeq(Bytes(stream[Cqe1.conn]), Cqe1.at + 1, Cqe1.at + Cqe1.res)

InPoolBuffer == InPool /\ Cqe1.buffer

Returned_while_armed == IF InPoolBuffer /\ Cqe1.more THEN << Buf >> ELSE <<>>

(* A pool buffer is given back once its bytes are copied.                  *)
Returned == IF InPoolBuffer THEN << Buf >> ELSE <<>>

(* Parse, kick, and receive again if needed.                               *)
HandleRecvData ==
  /\ DispatchTo("Recv")
  /\ Cqe1.res > 0
  /\ InPoolBuffer \/ c1.rx_hold
  /\ \E parsed \in { parse_step(IF InPoolBuffer THEN c1
                                ELSE [ c1 EXCEPT !.rx_hold = FALSE ], Received) } :
       LET kick == sendkick_inline(fd1, parsed)
           again == CASE ~ InPoolBuffer -> StartUnlessClosing(fd1, kick.c, InPool)
                      [] InPoolBuffer /\ Cqe1.more -> Just(kick.c)
                      [] OTHER -> StartUnlessClosing(fd1, Disarmed(kick.c), TRUE)
       IN  /\ Update([ c    |-> again.c,
                       sqes |-> Returned \o kick.sqes \o again.sqes ])
           /\ answers' = [ answers EXCEPT ![c1.conn] = @ \o
                             SubSeq(parsed.tx.txq, Len(c1.tx.txq) + 1,
                                    Len(parsed.tx.txq)) ]
  /\ UNCHANGED flags

(* A sendmsg succeeded: close the connection, or send the next response.   *)
HandleSendCompleted ==
  /\ DispatchTo("Send")
  /\ Cqe1.res >= 0
  /\ Update(IF ToBeClosed(c1) THEN Closed(fd1, OnSendComplete(c1), Cqe1.conn)
            ELSE sendkick_inline(fd1, OnSendComplete(c1)))
  /\ UNCHANGED << flags, answers >>

HandleSendAgain ==
  /\ DispatchTo("Send")
  /\ Cqe1.res = EAGAIN
  /\ Update(arm_pollout(fd1, [ c1 EXCEPT !.tx = RollBack(@) ]))
  /\ UNCHANGED << flags, answers >>

HandleSendFailed ==
  /\ DispatchTo("Send")
  /\ Cqe1.res < 0 /\ Cqe1.res # EAGAIN
  /\ Update(Closed(fd1, c1, Cqe1.conn))
  /\ UNCHANGED << flags, answers >>

HandlePollOut_no_kick ==
  /\ DispatchTo("PollOut")
  /\ table' = [ table EXCEPT ![fd1].pollout_armed = FALSE ]
  /\ UNCHANGED << flags, answers, sq >>

HandlePollOut ==
  /\ DispatchTo("PollOut")
  /\ Update(sendkick_inline(fd1, [ c1 EXCEPT !.pollout_armed = FALSE ]))
  /\ UNCHANGED << flags, answers >>

HandleClose ==
  /\ DispatchTo("Close")
  /\ table' = [ f \in DOMAIN table \ { fd1 } |-> table[f] ]
  /\ UNCHANGED << flags, answers, sq >>

(* Completions that find no storage for their descriptor, and data that is *)
(* neither in a pool buffer nor in a hold.                                 *)
HandleNothing ==
  /\ \E op \in Ops \ { "Accept" } : Dispatch(op)
  /\ fd1 \in DOMAIN table =>
       /\ Cqe1.tag.op = "Recv" /\ Cqe1.res > 0
       /\ ~ InPoolBuffer /\ ~ c1.rx_hold
  /\ UNCHANGED << loopVars, sq >>

Handle ==
  \/ HandleAcceptFailed \/ HandleAccepted
  \/ HandleRecvFailed \/ HandleRecvData
  \/ HandleSendCompleted \/ HandleSendAgain \/ HandleSendFailed
  \/ HandlePollOut \/ HandleClose \/ HandleNothing

-----------------------------------------------------------------------------
(* The responses the peer of k has received, and what they say.            *)
Told(k) == [ i \in 1 .. Len(got[k]) \div 2 |-> got[k][2 * i - 1].seg = "keep" ]

(* What the complete requests of k ask for.                                *)
Asked(k) ==
  [ i \in 1 .. CompleteIn(stream[k], sent[k]) |-> WantsKeep(stream[k][i]) ]

(* The peer sends any part of its stream, or, if it waits for responses,   *)
(* of its next request, unless it was told that there will be no more.     *)
Part(k) ==
  LET told == Told(k)
      upto == IF polite /\ Len(told) < Len(stream[k]) THEN Len(told) + 1
              ELSE Len(stream[k])
  IN  IF k = FOREIGN \/ (polite /\ \E i \in DOMAIN told : ~ told[i]) THEN {}
      ELSE 1 .. EndOf(stream[k], upto) - sent[k]

(* A pool that has been provided, and the first accept queued.             *)
Init ==
  /\ table = <<>>
  /\ use_ms_accept = TRUE
  /\ ms_accept_armed = TRUE
  /\ use_ms_recv = TRUE
  /\ have_buf_pool \in POOLS
  /\ pool = IF have_buf_pool THEN BUF_CNT ELSE 0
  /\ polite \in POLITE
  /\ stream \in STREAMS[polite]
  /\ answers = [ k \in Conns |-> <<>> ]
  /\ UringInit(post_accept(TRUE, FALSE))

(* Polite peers leave the closing to the server, those of other workers    *)
(* too; others end or reset their connections whenever they like.          *)
Next ==
  \/ Handle
  \/ /\ UringNext(Part)
     /\ polite => ended' = ended /\ robbed' = robbed
     /\ UNCHANGED << loopVars, peerVars >>

Spec == Init /\ [][Next]_vars

(* As for Worker: the loop and the kernel go on, peers need not.           *)
Fairness ==
  /\ WF_vars(Handle)
  /\ WF_vars(Issue /\ UNCHANGED << loopVars, peerVars >>)
  /\ WF_vars(KernelSend /\ UNCHANGED << loopVars, peerVars >>)
  /\ WF_vars(KernelPoll /\ UNCHANGED << loopVars, peerVars >>)

FairSpec == Spec /\ Fairness

-----------------------------------------------------------------------------
Tags == [ fd : Fds \cup { 0, LISTEN_FD }, op : Ops ]

Storage ==
  [ conn : Conns, served : Nat, closing : BOOLEAN, keep_alive : BOOLEAN,
    acc : Seq(Byte), ms_recv_armed : BOOLEAN, rx_hold : BOOLEAN,
    pollout_armed : BOOLEAN, tx : TxState(Literals) ]

TypeOK ==
  /\ DOMAIN table \subseteq Fds
  /\ \A f \in DOMAIN table : table[f] \in Storage
  /\ flags \in BOOLEAN \X BOOLEAN \X BOOLEAN \X BOOLEAN
  /\ sq \in Seq(SqesOf(Tags, OwnedBuf(Literals)))
  /\ cq \in Seq(CqesOf(Tags))
  /\ \A o \in BagToSet(ops) : o.sqe \in SqesOf(Tags, OwnedBuf(Literals))
  /\ fdtab \in [ Fds -> 0 .. FOREIGN ]
  /\ pool \in Nat

Live == { f \in DOMAIN table : ~ table[f].closing }

(* The handlers take a completion to be about the connection that has the  *)
(* descriptor of its tag now.  That is so while peers are polite, or when  *)
(* an impolite one is alone in the process: otherwise a receive that an    *)
(* old connection left behind, or a second close of its descriptor, may    *)
(* hit the next owner of the descriptor.                                   *)
Orderly == polite \/ conns + foreign <= 1

(* The receives that serve the connection of f: an old connection of the   *)
(* same descriptor may have left one behind.                               *)
RecvsFor(f) ==
  LET k == table[f].conn
      Serves(op) == op.sqe.kind = "recv" /\ op.sqe.fd = f /\ op.conn = k
      Ends(cqe) == cqe.tag = Tag(f, "Recv") /\ cqe.conn = k /\ ~ cqe.more
  IN  Cardinality({ i \in 1 .. Len(sq) : sq[i].tag = Tag(f, "Recv") })
      + Cardinality({ copy \in Copies(ops) : Serves(copy[1]) })
      + Cardinality({ i \in 1 .. Len(cq) : Ends(cq[i]) })

(* A live connection has exactly one receive outstanding (start_recv and   *)
(* its flags, at accept, after data, and when multishot is given up).      *)
OneRecvOutstanding == Orderly => \A f \in Live : RecvsFor(f) = 1

(* No receive buffer is given back twice, and while peers are polite none  *)
(* is lost on the way between the kernel and the loop (init_buffer_pool,   *)
(* Recv handler).                                                          *)
BuffersConserved ==
  LET all == IF have_buf_pool THEN BUF_CNT ELSE 0
  IN  BuffersInUse <= all /\ (polite => BuffersInUse = all)

(* The buffers, message header and iovecs of an outstanding sendmsg stay   *)
(* what they were while the storage lives, and while peers are polite it   *)
(* lives long enough (sendkick_inline, Send and Close handlers).           *)
SendsPinned ==
  Orderly =>
    \A o \in Outstanding("send") :
      LET f == o.sqe.fd
      IN  IF f \in DOMAIN table
          THEN table[f].conn = o.conn /\ Pinned(table[f].tx, << o.sqe.bufs >>)
          ELSE ~ polite

(* Queued data of a live connection will be kicked again (Recv, Send and   *)
(* PollOut handlers, arm_pollout).                                         *)
NoLostKick ==
  \A f \in Live :
    table[f].tx.txq # <<>> =>
      UnderWay("send", Tag(f, "Send")) + UnderWay("poll", Tag(f, "PollOut")) > 0

(* However the requests are cut into segments and run together, each       *)
(* complete one is answered exactly once, and the answer keeps the         *)
(* connection only if its own request asks for it, and does so if the      *)
(* limit allows it (parse_step, scan_headers).                             *)
AnsweredAsAsked ==
  Orderly =>
    \A f \in DOMAIN table :
      LET k == table[f].conn
          handled == \A i \in 1 .. Len(cq) :
                       cq[i].tag = Tag(f, "Recv") => cq[i].res <= 0
          reqs == Asked(k)
          says(i) == answers[k][2 * i - 1].seg = "keep"
      IN  handled =>
            /\ Len(answers[k]) = 2 * Len(reqs)
            /\ \A i \in DOMAIN reqs :
                 /\ says(i) => reqs[i]
                 /\ reqs[i] /\ i < KEEPALIVE_LIMIT => says(i)

(* The peers receive what was queued for them, in order, in batches that   *)
(* end with a response: on sockets that take whole batches, the loop       *)
(* implements a ResponseStream for each (TxPipeline says what short writes *)
(* make of it).                                                            *)
Responses(k) == INSTANCE ResponseStream
                  WITH generated <- answers[k], released <- got[k],
                       accepted <- got[k], SHORT_WRITES <- FALSE

ImplementsStreams ==
  /\ \A k \in Conns : Responses(k)!StreamInit
  /\ [][Orderly' =>
           \A k \in Conns : [Responses(k)!StreamNext]_<< answers[k], got[k] >>]_vars

(* To peers that wait for responses, the loop keeps the promises of        *)
(* KeepAlive: parser, limit, on_send_complete, close and reuse of          *)
(* descriptors together.                                                   *)
ToPolite(v, none) == IF polite THEN v ELSE none

ShutBy(k) ==
  /\ k \in 1 .. conns
  /\ \A i \in 1 .. Len(backlog) : backlog[i] # k
  /\ \A f \in Fds : fdtab[f] # k

Promise(k) == INSTANCE KeepAlive
                WITH LIMIT <- KEEPALIVE_LIMIT,
                     asked <- ToPolite(Asked(k), <<>>),
                     told  <- ToPolite(Told(k), <<>>),
                     shut  <- ToPolite(ShutBy(k), FALSE)

KeepsPromises ==
  /\ \A k \in 1 .. MAX_CONNS : Promise(k)!KeepAliveInit
  /\ [][\A k \in 1 .. MAX_CONNS :
         UNCHANGED Promise(k)!keepAliveVars \/ Promise(k)!KeepAliveNext]_vars

(* The buffer of a single-shot receive stays allocated until the receive   *)
(* has completed (start_recv, Recv and Close handlers).                    *)
HoldOutlivesRecv ==
  \A o \in Outstanding("recv") :
    ~ o.sqe.multi => /\ o.sqe.fd \in DOMAIN table
                     /\ table[o.sqe.fd].conn = o.conn
                     /\ table[o.sqe.fd].rx_hold

(* Polite peers are never left waiting: again and again every complete     *)
(* request has its response (the whole cycle of receive, parse, send,      *)
(* EAGAIN and poll, also when accepts and receives fall back to singles).  *)
RequestsAnswered ==
  []<>(polite => \A k \in 1 .. MAX_CONNS : Len(Told(k)) = Len(Asked(k)))

(* Once a response said close, the connection is closed and its storage    *)
(* freed (on_send_complete, close_async, Close handler).                   *)
CloseFollows ==
  []<>(polite =>
         \A k \in 1 .. MAX_CONNS : (\E i \in DOMAIN Told(k) : ~ Told(k)[i])
           => ShutBy(k) /\ \A f \in DOMAIN table : table[f].conn # k)
=============================================================================
