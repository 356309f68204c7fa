------------------------------- MODULE Worker -------------------------------
(***************************************************************************)
(* One Worker of the library: its event loop and its connection table,     *)
(* against the ring and the descriptors of Uring.  Every completion carries*)
(* a tag naming a descriptor and a handler.                                *)
(*                                                                         *)
(* The loop submits what it has queued whenever a batch of completions is  *)
(* done, and batches have any size, so that a queued request may be issued *)
(* between any two handlers.                                               *)
(*                                                                         *)
(* A definition X_... that stands before a definition X is a faulty        *)
(* version of it, which no specification uses: PROJECT.json names the      *)
(* property that tells it from X.                                          *)
(***************************************************************************)
EXTENDS Uring, ParseEffects

F == INSTANCE Functions

CONSTANTS
  LISTEN_FD,
  POOLS,             (* was the buffer pool allocated (TRUE), or not?       *)
  SQ_ENTRIES,        (* slots of the submission queue; 0 stands for a queue *)
                     (*   that the loop has not yet gone around            *)
  RESPONSE_LEN,      (* buffers of a response                               *)
  ROUTED,            (* the connections whose path has a route              *)
  MAX_SEGMENTS       (* bound: segments all peers together send             *)

ASSUME WorkerAssumption ==
  /\ LISTEN_FD \in Nat \ (Fds \cup {0})
  /\ POOLS \subseteq BOOLEAN
  /\ SQ_ENTRIES = 0 \/ SQ_ENTRIES > BUF_CNT
  /\ { SQ_ENTRIES, RESPONSE_LEN, MAX_SEGMENTS } \subseteq Nat
  /\ ROUTED \subseteq Conns

VARIABLES
  table,           (* ConnTable: descriptor -> PerClientStorage             *)
  use_ms_accept, ms_accept_armed, use_ms_recv, have_buf_pool,
  slots,           (* tags in the slots of the submission queue, the one    *)
                   (*   to be taken next first                              *)
  carried,         (* history: tags the own completions of tasks will carry *)
  asked,           (* history: responses asked for, by connection           *)
  running          (* FALSE once an exception has ended the process         *)

flags == << use_ms_accept, ms_accept_armed, use_ms_recv, have_buf_pool >>
loopVars == << table, flags, slots, carried, asked, running >>
vars == << loopVars, uringVars >>

-----------------------------------------------------------------------------
(* Tags.                                                                   *)

Workflow ==
  [ Accept |-> 0, Recv |-> 1, Parse |-> 2, FindHandler |-> 3,
    GenerateResponse |-> 4, RequestFlush |-> 5, PollOut |-> 6, Send |-> 7,
    RequestClose |-> 8, Closed |-> 9, FreeBuffer |-> 10 ]

(* What unpack_ud, which keeps three bits, makes of the op that pack_ud put*)
(* into a tag: RequestClose comes back as Accept, Closed as Recv and       *)
(* FreeBuffer as Parse, and their own cases of the switch are never        *)
(* reached.                                                                *)
Unpacked(op) ==
  CHOOSE o \in DOMAIN Workflow : Workflow[o] = Workflow[op] % 8

Tag(fd, op) == [ fd |-> fd, op |-> Unpacked(op) ]

(* The slot of a message to the own ring gets no tag: its completion shows *)
(* whatever the slot held before, zero at first.                           *)
ZeroTag == [ fd |-> 0, op |-> "Accept" ]

AcceptOf(multi) == AcceptSqe(Tag(LISTEN_FD, "Accept"), multi)
RecvOf(fd, multi) == RecvSqe(Tag(fd, "Recv"), fd, multi)
SendOf(fd, bufs) == SendSqe(Tag(fd, "Send"), fd, bufs)
PollOf(fd) == PollSqe(Tag(fd, "PollOut"), fd)
CloseOf(fd, conn) == CloseSqe(Tag(fd, "Closed"), fd, conn)
FreeBuffer == ProvideSqe(Tag(0, "FreeBuffer"))

(* A message to the own ring that comes back as a task.                    *)
TaskSqe(fd, task, conn) ==
  [ kind |-> "task", tag |-> Tag(fd, task), task |-> task, fd |-> fd,
    conn |-> conn, stale |-> ZeroTag ]

IsTask(sqe) == sqe.kind = "task"

(* The tag found in the slot that the i-th new request will take.          *)
SlotTag(i) == IF SQ_ENTRIES = 0 THEN ZeroTag ELSE slots[i]

(* The requests new with what they find in their slots.                    *)
InSlots(new) ==
  [ i \in 1 .. Len(new) |->
      IF IsTask(new[i]) THEN [ new[i] EXCEPT !.stale = SlotTag(i) ] ELSE new[i] ]

(* The requests new take the next slots of the submission queue, which has *)
(* room for them or is submitted first.                                    *)
Queue(new) ==
  /\ SQ_ENTRIES # 0 => Len(sq) + Len(new) <= SQ_ENTRIES
  /\ sq' = sq \o InSlots(new)
  /\ slots' = IF SQ_ENTRIES = 0 THEN slots
              ELSE SubSeq(slots, Len(new) + 1, SQ_ENTRIES) \o
                   [ i \in 1 .. Len(new) |->
                       IF IsTask(new[i]) THEN slots[i] ELSE new[i].tag ]
  /\ carried' = carried \cup
                  { SlotTag(i) : i \in { j \in 1 .. Len(new) : IsTask(new[j]) } }

-----------------------------------------------------------------------------
(* The helpers of the handlers.  Those that change a PerClientStorage and  *)
(* queue requests return both, as [c, sqes].                               *)

FreshStorage(conn) ==
  [ conn |-> conn, closing |-> FALSE, ms_recv_armed |-> FALSE, rx_hold |-> FALSE,
    pollout_armed |-> FALSE, phase |-> "start", request_handler |-> FALSE,
    tx |-> InitTx ]

(* post_accept, for the given values of use_ms_accept_ and ms_accept_armed_*)
PostAccept(ms, armed) ==
  IF ~ ms THEN << AcceptOf(FALSE) >>
  ELSE IF armed THEN <<>>
  ELSE << AcceptOf(TRUE) >>

(* Are segments received into buffers of the pool?                         *)
InPool == use_ms_recv /\ have_buf_pool

(* start_recv, into a buffer of the pool or not.                           *)
StartRecv(fd, c, ms) ==
  IF ~ ms
  THEN [ c |-> [ c EXCEPT !.rx_hold = TRUE ], sqes |-> << RecvOf(fd, FALSE) >> ]
  ELSE IF c.ms_recv_armed
  THEN [ c |-> c, sqes |-> <<>> ]
  ELSE [ c    |-> [ c EXCEPT !.ms_recv_armed = TRUE ],
         sqes |-> << RecvOf(fd, TRUE) >> ]

StartRecvUnlessClosing(fd, c, ms) ==
  IF c.closing THEN [ c |-> c, sqes |-> <<>> ] ELSE StartRecv(fd, c, ms)

(* sendkick_inline.                                                        *)
Kick(fd, c) ==
  IF NothingToKick(c.tx)
  THEN [ c |-> c, sqes |-> <<>> ]
  ELSE LET q == c.tx.txq
           batch == TakeBatch(c.tx, CHOOSE n \in 1 .. Len(q) : IsBatch(q, n))
       IN  [ c    |-> [ c EXCEPT !.tx = batch ],
             sqes |-> << SendOf(fd, batch.tx_inflight) >> ]

(* update_pollout.                                                         *)
UpdatePollout(fd, c) ==
  IF c.pollout_armed
  THEN [ c |-> c, sqes |-> <<>> ]
  ELSE [ c |-> [ c EXCEPT !.pollout_armed = TRUE ], sqes |-> << PollOf(fd) >> ]

-----------------------------------------------------------------------------
(* The handlers: one completion is taken from the head of cq.              *)

Cqe1 == Head(cq)

fd1 == Cqe1.tag.fd

c1 == table[fd1]

(* The parse_step of a segment with effect e.                              *)
Parsed(c, e) == [ c EXCEPT !.phase = e.to, !.closing = @ \/ e.to = "error" ]

Tasks_reversed(e) ==
  [ i \in 1 .. Len(e.posts) |->
      TaskSqe(fd1, e.posts[Len(e.posts) + 1 - i], Cqe1.conn) ]

Tasks(e) == [ i \in 1 .. Len(e.posts) |-> TaskSqe(fd1, e.posts[i], Cqe1.conn) ]

(* The buffers of a response to a request of connection conn.              *)
Response(conn) == [ i \in 1 .. RESPONSE_LEN |-> [ seg |-> conn, eor |-> FALSE ] ]

Dispatch(op) ==
  /\ running
  /\ cq # <<>>
  /\ Cqe1.tag.op = op
  /\ cq' = Tail(cq)
  /\ UNCHANGED << running, ops, kernelVars, historyVars, bounds >>

DispatchTo(op) == Dispatch(op) /\ fd1 \in DOMAIN table

(* The storage of fd1 becomes r.c and the requests r.sqes are queued.      *)
Update(r) ==
  /\ table' = [ table EXCEPT ![fd1] = r.c ]
  /\ Queue(r.sqes)

(* No connection was accepted; -EINVAL switches multishot accepts off.     *)
HandleAcceptFailed ==
  /\ Dispatch("Accept")
  /\ Cqe1.res <= 0
  /\ LET ms == use_ms_accept /\ Cqe1.res # EINVAL
         armed == ms_accept_armed /\ Cqe1.res # EINVAL
     IN  /\ use_ms_accept' = ms
         /\ ms_accept_armed' = (armed \/ ms)
         /\ Queue(PostAccept(ms, armed))
  /\ UNCHANGED << table, use_ms_recv, have_buf_pool, asked >>

AcceptAgain_still_armed ==
  IF ~ use_ms_accept THEN PostAccept(FALSE, ms_accept_armed)
  ELSE IF Cqe1.more THEN <<>>
  ELSE PostAccept(TRUE, ms_accept_armed)

(* What the Accept handler does after it has dealt with the new connection.*)
AcceptAgain ==
  IF ~ use_ms_accept THEN PostAccept(FALSE, ms_accept_armed)
  ELSE IF Cqe1.more THEN <<>>
  ELSE PostAccept(TRUE, FALSE)

HandleAccepted_zero ==
  /\ Dispatch("Accept")
  /\ Cqe1.res >= 0
  /\ LET r == StartRecv(Cqe1.res, FreshStorage(Cqe1.conn), InPool)
     IN  /\ table' = [ f \in DOMAIN table \cup { Cqe1.res } |->
                         IF f \in DOMAIN table THEN table[f] ELSE r.c ]
         /\ Queue(r.sqes \o AcceptAgain)
  /\ UNCHANGED << flags, asked >>

(* A connection was accepted.                                              *)
HandleAccepted ==
  /\ Dispatch("Accept")
  /\ Cqe1.res > 0
  /\ LET cfd == Cqe1.res
         r == StartRecv(cfd, FreshStorage(Cqe1.conn), InPool)
     IN  \/ /\ cfd \notin DOMAIN table
            /\ table' = [ f \in DOMAIN table \cup { cfd } |->
                            IF f = cfd THEN r.c ELSE table[f] ]
            /\ Queue(r.sqes \o AcceptAgain)
         \/ (* emplace keeps the old storage and frees the new one, which   *)
            (* the handler goes on to use: start_recv reads freed memory.   *)
            /\ cfd \in DOMAIN table
            /\ \E sqes \in { <<>>, r.sqes } : Queue(sqes \o AcceptAgain)
            /\ UNCHANGED table
  /\ ms_accept_armed' = (ms_accept_armed \/ (use_ms_accept /\ ~ Cqe1.more))
  /\ UNCHANGED << use_ms_accept, use_ms_recv, have_buf_pool, asked >>

HandleRecvFailed_still_live ==
  /\ DispatchTo("Recv")
  /\ Cqe1.res <= 0
  /\ Update([ c    |-> [ c1 EXCEPT !.ms_recv_armed = FALSE ],
              sqes |-> << CloseOf(fd1, Cqe1.conn) >> ])
  /\ UNCHANGED << flags, asked >>

(* End of stream or error; -EINVAL switches multishot receives off.        *)
HandleRecvFailed ==
  /\ DispatchTo("Recv")
  /\ Cqe1.res <= 0
  /\ LET c == [ c1 EXCEPT !.ms_recv_armed = FALSE ]
     IN  \/ /\ Cqe1.res = EINVAL
            /\ use_ms_recv' = FALSE
            /\ Update(StartRecvUnlessClosing(fd1, c, FALSE))
         \/ /\ Cqe1.res # EINVAL
            /\ Update([ c    |-> [ c EXCEPT !.closing = TRUE ],
                        sqes |-> << CloseOf(fd1, Cqe1.conn) >> ])
            /\ UNCHANGED use_ms_recv
  /\ UNCHANGED << use_ms_accept, ms_accept_armed, have_buf_pool, asked >>

InPoolBuffer == InPool /\ Cqe1.buffer

ReturnBuffer_only_while_armed == IF Cqe1.more THEN << FreeBuffer >> ELSE <<>>

(* The pool buffer is given back once its bytes are copied.                *)
ReturnBuffer == << FreeBuffer >>

RecvAgain_still_armed(c) ==
  IF Cqe1.more THEN [ c |-> c, sqes |-> <<>> ]
  ELSE StartRecvUnlessClosing(fd1, c, TRUE)

(* A multishot receive that has ended is started again.                    *)
RecvAgain(c) ==
  IF Cqe1.more THEN [ c |-> c, sqes |-> <<>> ]
  ELSE StartRecvUnlessClosing(fd1, [ c EXCEPT !.ms_recv_armed = FALSE ], TRUE)

(* A segment was received: parse it, kick, and receive again if needed.    *)
HandleRecvData ==
  /\ DispatchTo("Recv")
  /\ Cqe1.res > 0
  /\ \E e \in Effects :
       /\ e.from = c1.phase
       /\ \/ /\ InPoolBuffer
             /\ LET kick == Kick(fd1, Parsed(c1, e))
                    again == RecvAgain(kick.c)
                IN  Update([ c    |-> again.c,
                             sqes |-> ReturnBuffer \o Tasks(e)
                                        \o kick.sqes \o again.sqes ])
          \/ /\ ~ InPoolBuffer /\ c1.rx_hold
             /\ LET kick == Kick(fd1, Parsed([ c1 EXCEPT !.rx_hold = FALSE ], e))
                    again == StartRecvUnlessClosing(fd1, kick.c, InPool)
                IN  Update([ c    |-> again.c,
                             sqes |-> Tasks(e) \o kick.sqes \o again.sqes ])
       /\ asked' = [ asked EXCEPT ![Cqe1.conn] =
                       @ + Cardinality({ i \in DOMAIN e.posts :
                                           e.posts[i] = "GenerateResponse" }) ]
  /\ UNCHANGED flags

(* std::stoull throws in parse_step.  Nothing catches it, so the process   *)
(* ends, with all its workers, and nothing happens any more to what it     *)
(* leaves behind.                                                          *)
HandleThrow ==
  /\ running
  /\ cq # <<>>
  /\ Cqe1.tag.op = "Recv" /\ fd1 \in DOMAIN table
  /\ Cqe1.res > 0
  /\ InPoolBuffer \/ c1.rx_hold
  /\ \E e \in LastEffects : e.from = c1.phase
  /\ running' = FALSE
  /\ UNCHANGED << table, flags, slots, carried, asked, uringVars >>

(* on_send_completed never asks for a close: no buffer of the library is   *)
(* marked end-of-response (see TxPipeline).                                *)
HandleSendCompleted ==
  /\ DispatchTo("Send")
  /\ Cqe1.res >= 0
  /\ Update(Kick(fd1, [ c1 EXCEPT !.tx = Completed(@) ]))
  /\ UNCHANGED << flags, asked >>

HandleSendAgain_no_poll ==
  /\ DispatchTo("Send")
  /\ Cqe1.res = EAGAIN
  /\ Update([ c |-> [ c1 EXCEPT !.tx = RollBack(@) ], sqes |-> <<>> ])
  /\ UNCHANGED << flags, asked >>

HandleSendAgain ==
  /\ DispatchTo("Send")
  /\ Cqe1.res = EAGAIN
  /\ Update(UpdatePollout(fd1, [ c1 EXCEPT !.tx = RollBack(@) ]))
  /\ UNCHANGED << flags, asked >>

HandleSendFailed ==
  /\ DispatchTo("Send")
  /\ Cqe1.res < 0 /\ Cqe1.res # EAGAIN
  /\ Update([ c    |-> [ c1 EXCEPT !.closing = TRUE ],
              sqes |-> << CloseOf(fd1, Cqe1.conn) >> ])
  /\ UNCHANGED << flags, asked >>

HandlePollOut ==
  /\ DispatchTo("PollOut")
  /\ Update(Kick(fd1, [ c1 EXCEPT !.pollout_armed = FALSE ]))
  /\ UNCHANGED << flags, asked >>

HandleFindHandler ==
  /\ DispatchTo("FindHandler")
  /\ Update([ c |-> [ c1 EXCEPT !.request_handler = @ \/ c1.conn \in ROUTED ],
              sqes |-> <<>> ])
  /\ UNCHANGED << flags, asked >>

HandleRequestFlush ==
  /\ DispatchTo("RequestFlush")
  /\ Update(Kick(fd1, c1))
  /\ UNCHANGED << flags, asked >>

(* A request whose path has no route is not answered.                      *)
HandleGenerateResponse ==
  /\ DispatchTo("GenerateResponse")
  /\ \/ /\ c1.request_handler
        /\ Update([ c    |-> [ c1 EXCEPT !.tx.txq = @ \o Response(Cqe1.conn) ],
                    sqes |-> << TaskSqe(fd1, "RequestFlush", Cqe1.conn) >> ])
     \/ /\ ~ c1.request_handler
        /\ UNCHANGED << table, sq, slots, carried >>
  /\ UNCHANGED << flags, asked >>

(* Completions that change nothing: Parse finds rxq empty, others find no  *)
(* storage for their descriptor, and data that is neither in a pool buffer *)
(* nor in a hold is dropped.                                               *)
HasNoEffect(op) ==
  \/ op = "Parse"
  \/ fd1 \notin DOMAIN table
  \/ /\ op = "Recv" /\ fd1 \in DOMAIN table
     /\ Cqe1.res > 0 /\ ~ InPoolBuffer /\ ~ c1.rx_hold

HandleNothing ==
  /\ \E op \in DOMAIN Workflow \ { "Accept" } : Dispatch(op) /\ HasNoEffect(op)
  /\ UNCHANGED << loopVars, sq >>

Handle ==
  \/ HandleAcceptFailed \/ HandleAccepted
  \/ HandleRecvFailed \/ HandleRecvData \/ HandleThrow
  \/ HandleSendCompleted \/ HandleSendAgain \/ HandleSendFailed
  \/ HandlePollOut \/ HandleFindHandler
  \/ HandleRequestFlush \/ HandleGenerateResponse
  \/ HandleNothing

-----------------------------------------------------------------------------
(* The pool has been provided and the first accept queued.                 *)
Init ==
  /\ table = <<>>
  /\ use_ms_accept = TRUE
  /\ ms_accept_armed = TRUE
  /\ use_ms_recv = TRUE
  /\ have_buf_pool \in POOLS
  /\ pool = IF have_buf_pool THEN BUF_CNT ELSE 0
  /\ slots = IF SQ_ENTRIES = 0 THEN <<>>
             ELSE [ i \in 1 .. SQ_ENTRIES |->
                      IF i = SQ_ENTRIES THEN Tag(LISTEN_FD, "Accept")
                      ELSE IF i + BUF_CNT >= SQ_ENTRIES THEN FreeBuffer.tag
                      ELSE ZeroTag ]
  /\ carried = {}
  /\ asked = [ k \in Conns |-> 0 ]
  /\ running = TRUE
  /\ UringInit(PostAccept(TRUE, FALSE))

(* A segment is one byte: what is in it, the handler that parses it chooses.*)
Segment(k) ==
  IF k # FOREIGN /\ F!FoldFunction(+, 0, sent) < MAX_SEGMENTS THEN {1} ELSE {}

Next ==
  \/ Handle
  \/ running /\ UringNext(Segment) /\ UNCHANGED loopVars

Spec == Init /\ [][Next]_vars

(* The loop never stops taking completions and submitting requests, and    *)
(* the kernel accepts waiting connections and completes sends and polls of *)
(* peers that keep reading, while the process runs.  Nothing makes a peer  *)
(* connect, send or close.                                                 *)
Fairness ==
  /\ WF_vars(Handle)
  /\ WF_vars(running /\ Issue /\ UNCHANGED loopVars)
  /\ WF_vars(running /\ KernelAccept /\ UNCHANGED loopVars)
  /\ WF_vars(running /\ KernelSend /\ UNCHANGED loopVars)
  /\ WF_vars(running /\ KernelPoll /\ UNCHANGED loopVars)

FairSpec == Spec /\ Fairness

-----------------------------------------------------------------------------
Recvs(fd) == UnderWay("recv", Tag(fd, "Recv"))

Sends(fd) == UnderWay("send", Tag(fd, "Send"))

Polls(fd) == UnderWay("poll", Tag(fd, "PollOut"))

Flushes(fd) == UnderWay("task", Tag(fd, "RequestFlush"))

Accepts == UnderWay("accept", Tag(LISTEN_FD, "Accept"))

Live == { f \in DOMAIN table : ~ table[f].closing }

Tags == [ fd : Fds \cup { 0, LISTEN_FD }, op : DOMAIN Workflow ]

Requests ==
  SqesOf(Tags, OwnedBuf(Conns))
    \cup [ kind : {"task"}, tag : Tags, fd : Fds, conn : 0 .. FOREIGN,
           task : ParseTasks \cup { "RequestFlush" }, stale : Tags ]

PerClientStorage ==
  [ conn : Conns, closing : BOOLEAN, ms_recv_armed : BOOLEAN, rx_hold : BOOLEAN,
    pollout_armed : BOOLEAN, phase : Phases, request_handler : BOOLEAN,
    tx : TxState(Conns) ]

TypeOK ==
  /\ DOMAIN table \subseteq Fds
  /\ table \in [ DOMAIN table -> PerClientStorage ]
  /\ { use_ms_accept, ms_accept_armed, use_ms_recv, have_buf_pool, multishot,
       misclosed, running } \subseteq BOOLEAN
  /\ sq \in Seq(Requests)
  /\ cq \in Seq(CqesOf(Tags))
  /\ Len(slots) = SQ_ENTRIES /\ slots \in Seq(Tags) /\ carried \subseteq Tags
  /\ \A o \in BagToSet(ops) : o.sqe \in Requests
  /\ fdtab \in [ Fds -> 0 .. FOREIGN ]
  /\ pool \in Nat

(* A buffer handed to the kernel is kept alive until its sendmsg completes:*)
(* there is at most one sendmsg, of exactly the buffers in tx_inflight.    *)
HoldsItsSend(f) ==
  LET t == table[f].tx
  IN  /\ Sends(f) <= 1
      /\ Sends(f) = 1 => t.send_inflight
      /\ \A o \in BagToSet(ops) :
           o.sqe.kind = "send" /\ o.sqe.fd = f => o.sqe.bufs = t.tx_inflight

(* Every storage keeps the buffers of its sendmsg (sendkick_inline and the *)
(* Send handler), as long as no task has taken a slot of the submission    *)
(* queue that held the tag of one of its own sendmsgs: on a queue that has *)
(* not gone around, always.                                                *)
SendsPinned ==
  \A f \in DOMAIN table : Tag(f, "Send") \notin carried => HoldsItsSend(f)

(* Every storage keeps the buffers of its sendmsg, whatever the slots of   *)
(* the submission queue held (post_task, which gives its request no tag).  *)
SendsAlwaysPinned == \A f \in DOMAIN table : HoldsItsSend(f)

(* Queued data of a live connection will be kicked again.                  *)
NoLostFlush ==
  \A f \in Live :
    table[f].tx.txq # <<>> => Sends(f) + Polls(f) + Flushes(f) > 0

(* A live connection has exactly one receive outstanding: none and it is   *)
(* deaf, two and its bytes may be parsed out of order (start_recv and its  *)
(* flags, at accept, after data, and when multishot is given up).  This    *)
(* cannot be said of a descriptor that another worker has closed, which    *)
(* the kernel may give out while the table still has its storage, nor once *)
(* a task has taken a slot with the tag of a receive on it.                *)
OneRecvOutstanding ==
  \A f \in Live \ robbed : Tag(f, "Recv") \notin carried => Recvs(f) = 1

(* No receive buffer is lost: each is with the kernel, on its way to it,   *)
(* or in a completion that the loop has not handled (Recv handler).        *)
BuffersConserved == BuffersInUse = IF have_buf_pool THEN BUF_CNT ELSE 0

(* The worker never stops accepting (Accept handler, post_accept).         *)
AcceptOutstanding == Accepts > 0

(* ms_accept_armed_ says that a multishot accept is outstanding.           *)
AcceptFlagTruthful == ms_accept_armed => Accepts > 0

(* Whatever this worker closes, and however often, a storage that is not   *)
(* marked closing belongs to the connection its descriptor names: only     *)
(* another worker can take that away (Accept, Recv and Send handlers,      *)
(* close_async).                                                           *)
LiveEntryOwnsFd == \A f \in Live \ robbed : fdtab[f] = table[f].conn

(* A close never hits a connection it was not meant for.                   *)
ClosesOwnFd == ~ misclosed

(* Every complete request of a routed connection gets its whole response,  *)
(* unless an exception ends the process (FindHandler, GenerateResponse,    *)
(* RequestFlush, Send and PollOut handlers).                               *)
RequestsAnswered ==
  \A k \in ROUTED : \A n \in 1 .. MAX_SEGMENTS :
    asked[k] = n ~> Len(got[k]) >= n * RESPONSE_LEN \/ ~ running
=============================================================================
