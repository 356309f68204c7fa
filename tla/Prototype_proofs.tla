--------------------------- MODULE Prototype_proofs ---------------------------
(***************************************************************************)
(* What holds of the prototype whatever its constants, with peers of       *)
(* either kind: the types; queued responses of a live connection will be   *)
(* kicked; no receive buffer is given back twice.  And the two places that *)
(* compare served with the keep-alive limit agree, for every limit but 0.  *)
(***************************************************************************)
EXTENDS Prototype, PrototypeParsing_proofs, Uring_proofs

-----------------------------------------------------------------------------
(* When the end of a response has left and nothing else closes the         *)
(* connection, on_send_complete closes it exactly if the response, which   *)
(* parse_step made for the same served and the same keep_alive, said so.   *)
(* That both are still the same is what a peer that waits ensures.         *)
THEOREM AnnouncedIsEnforced ==
  ASSUME KEEPALIVE_LIMIT # 0,
         NEW c \in Storage, c.tx.inflight_eor, ~ c.closing
  PROVE  ToBeClosed(c) <=> ~ KeepConn(c.served, c.keep_alive)
<1>1. c.served \in Nat /\ c.keep_alive \in BOOLEAN
  BY DEF Storage
<1>2. c.served + 1 >= KEEPALIVE_LIMIT <=> ~ c.served < KEEPALIVE_LIMIT - 1
  BY <1>1, LimitAssumption
<1> QED  BY <1>1, <1>2 DEF ToBeClosed, KeepConn

(* For a limit of 0 they do not: the response says that the connection is  *)
(* kept, since 0 - 1 is the largest unsigned value, and then it is closed. *)
THEOREM ZeroLimitNotAnnounced ==
  ASSUME KEEPALIVE_LIMIT = 0,
         NEW c \in Storage, c.tx.inflight_eor, c.keep_alive
  PROVE  ToBeClosed(c) /\ KeepConn(c.served, c.keep_alive)
<1>1. c.served \in Nat
  BY DEF Storage
<1>2. c.served + 1 >= KEEPALIVE_LIMIT
  BY <1>1
<1> QED  BY <1>2 DEF ToBeClosed, KeepConn

-----------------------------------------------------------------------------
(* What the helpers of the handlers choose exists.                         *)

(* A queue that is not empty has a batch to send.                          *)
LEMMA BatchExists ==
  ASSUME NEW E, NEW q \in Seq(E), q # <<>>
  PROVE  \E n \in 1 .. Len(q) : IsBatch(q, n)
<1> DEFINE T == { n \in 1 .. Len(q) : n = MAX_IOV \/ n = Len(q) \/ q[n].eor }
<1>1. T \subseteq Nat /\ Len(q) \in T
  OBVIOUS
<1>2. PICK n \in T : \A m \in T : n <= m
  BY <1>1, LeastNat
<1>3. \A i \in 1 .. (n - 1) : i # MAX_IOV /\ ~ q[i].eor
  BY <1>2
<1> QED  BY <1>2, <1>3 DEF IsBatch

(* The descriptor the kernel gives is a free one.                          *)
LEMMA LowestIsFree ==
  ASSUME Free # {}
  PROVE  LowestFree \in Free
<1>1. Free \subseteq Nat
  BY UringAssumption DEF Free
<1>2. \E f \in Free : \A g \in Free : f <= g
  BY <1>1, LeastNat
<1> QED  BY <1>2 DEF LowestFree

-----------------------------------------------------------------------------
(* Types.  Sqes and Answers say of each request and completion what its    *)
(* tag is and which fields it makes use of.                                *)

Bufs == OwnedBuf(Literals)

Sqes ==
  { r \in SqesOf(Tags, Bufs) :
      /\ r.kind = "accept"  => r.tag = Tag(LISTEN_FD, "Accept")
      /\ r.kind = "recv"    => r.tag = Tag(r.fd, "Recv")
      /\ r.kind = "send"    => r.tag = Tag(r.fd, "Send")
      /\ r.kind = "poll"    => r.tag = Tag(r.fd, "PollOut")
      /\ r.kind = "close"   => r.tag = Tag(r.fd, "Close")
      /\ r.kind = "provide" => r.tag = Buf.tag }

Answers ==
  { c \in CqesOf(Tags) :
      /\ c.tag.op = "Accept" /\ c.res >= 0 => c.res \in Fds
      /\ c.tag.op \in { "Accept", "Recv" } /\ c.res > 0 => c.conn \in 1 .. MAX_CONNS
      /\ c.buffer => c.tag.op = "Recv" /\ c.res > 0 }

Operations ==
  { o \in [ sqe : Sqes, conn : 0 .. FOREIGN ] :
      /\ o.sqe.kind \in { "accept", "recv", "send", "poll" }
      /\ o.sqe.kind # "accept" => o.conn \in Conns }

(* Received bytes are bytes that the peer sends.                           *)
Sent(c) ==
  c.tag.op = "Recv" /\ c.res > 0 => c.at + c.res <= Len(Bytes(stream[c.conn]))

LoopTypes ==
  /\ DOMAIN table \subseteq Fds
  /\ table \in [ DOMAIN table -> Storage ]
  /\ use_ms_accept \in BOOLEAN /\ ms_accept_armed \in BOOLEAN
  /\ use_ms_recv \in BOOLEAN /\ have_buf_pool \in BOOLEAN
  /\ stream \in [ 1 .. MAX_CONNS -> Seq(Requests) ]

RingTypes ==
  /\ multishot \in BOOLEAN
  /\ Sequences(Sqes, Answers)
  /\ DOMAIN ops \subseteq Operations
  /\ \A c \in Members(cq) : Sent(c)
  /\ fdtab \in [ Fds -> 0 .. FOREIGN ]
  /\ pool \in Nat
  /\ sent \in [ Conns -> Nat ]
  /\ got \in [ Conns -> Seq(Bufs) ]
  /\ backlog \in Seq(1 .. MAX_CONNS)
  /\ conns \in 0 .. MAX_CONNS

Types == LoopTypes /\ RingTypes

(* What the assumptions say of the constants.                              *)
LEMMA Constants ==
  /\ MAX_CONNS \in Nat /\ BUF_CNT \in Nat /\ Fds \subseteq Nat \ {0}
  /\ LISTEN_FD \notin Fds /\ LISTEN_FD # 0
  /\ FOREIGN \in Conns /\ 1 .. MAX_CONNS \subseteq Conns
  /\ Conns \subseteq 0 .. FOREIGN /\ 0 \in 0 .. FOREIGN /\ 0 \notin Conns
  /\ \A k \in Conns : k # FOREIGN => k \in 1 .. MAX_CONNS
  /\ \A k \in 0 .. FOREIGN : k # 0 => k \in Conns
<1>1. MAX_CONNS \in Nat /\ BUF_CNT \in Nat /\ Fds \subseteq Nat \ {0}
  BY UringAssumption
<1>2. LISTEN_FD \notin Fds /\ LISTEN_FD # 0
  BY PrototypeAssumption
<1>3. /\ FOREIGN \in Conns /\ 1 .. MAX_CONNS \subseteq Conns
      /\ Conns \subseteq 0 .. FOREIGN /\ 0 \in 0 .. FOREIGN /\ 0 \notin Conns
      /\ \A k \in Conns : k # FOREIGN => k \in 1 .. MAX_CONNS
      /\ \A k \in 0 .. FOREIGN : k # 0 => k \in Conns
  BY <1>1 DEF FOREIGN, Conns
<1> QED  BY <1>1, <1>2, <1>3

(* Tags of descriptors and ops are tags.                                   *)
LEMMA TagType ==
  /\ \A fd \in Fds \cup { 0, LISTEN_FD }, op \in Ops : Tag(fd, op) \in Tags
  /\ \A fd, op : Tag(fd, op).fd = fd /\ Tag(fd, op).op = op
BY DEF Tag, Tags

(* The requests a handler makes.                                           *)
LEMMA Made ==
  /\ \A m : AcceptOf(m).kind = "accept" /\ AcceptOf(m).multi = m
  /\ \A f, m : /\ RecvOf(f, m).kind = "recv" /\ RecvOf(f, m).fd = f
               /\ RecvOf(f, m).multi = m /\ RecvOf(f, m).tag = Tag(f, "Recv")
  /\ \A f, b : /\ SendOf(f, b).kind = "send" /\ SendOf(f, b).fd = f
               /\ SendOf(f, b).bufs = b /\ SendOf(f, b).tag = Tag(f, "Send")
  /\ \A f : PollOf(f).kind = "poll" /\ PollOf(f).fd = f /\ PollOf(f).tag = Tag(f, "PollOut")
  /\ \A f, k : CloseOf(f, k).kind = "close" /\ CloseOf(f, k).fd = f
  /\ Buf.kind = "provide" /\ Buf.tag = Tag(0, "Buf")
BY DEF AcceptOf, AcceptSqe, RecvOf, RecvSqe, SendOf, SendSqe, PollOf, PollSqe, CloseOf,
       CloseSqe, Buf, ProvideSqe

(* Requests of the handlers are typed.                                     *)
LEMMA RequestsTyped ==
  /\ \A m \in BOOLEAN : AcceptOf(m) \in Sqes
  /\ \A f \in Fds, m \in BOOLEAN : RecvOf(f, m) \in Sqes
  /\ \A f \in Fds, b \in Seq(Bufs) : SendOf(f, b) \in Sqes
  /\ \A f \in Fds : PollOf(f) \in Sqes
  /\ \A f \in Fds, k \in 0 .. FOREIGN : CloseOf(f, k) \in Sqes
  /\ Buf \in Sqes
<1>1. \A m \in BOOLEAN : AcceptOf(m) \in Sqes
  <2>1. Tag(LISTEN_FD, "Accept") \in Tags
    BY TagType DEF Ops
  <2> QED  BY <2>1 DEF AcceptOf, AcceptSqe, Sqes, SqesOf
<1>2. \A f \in Fds, m \in BOOLEAN : RecvOf(f, m) \in Sqes
  <2>1. \A f \in Fds : Tag(f, "Recv") \in Tags
    BY TagType DEF Ops
  <2> QED  BY <2>1 DEF RecvOf, RecvSqe, Sqes, SqesOf
<1>3. \A f \in Fds, b \in Seq(Bufs) : SendOf(f, b) \in Sqes
  <2>1. \A f \in Fds : Tag(f, "Send") \in Tags
    BY TagType DEF Ops
  <2> QED  BY <2>1 DEF SendOf, SendSqe, Sqes, SqesOf
<1>4. \A f \in Fds : PollOf(f) \in Sqes
  <2>1. \A f \in Fds : Tag(f, "PollOut") \in Tags
    BY TagType DEF Ops
  <2> QED  BY <2>1 DEF PollOf, PollSqe, Sqes, SqesOf
<1>5. \A f \in Fds, k \in 0 .. FOREIGN : CloseOf(f, k) \in Sqes
  <2>1. \A f \in Fds : Tag(f, "Close") \in Tags
    BY TagType DEF Ops
  <2> QED  BY <2>1 DEF CloseOf, CloseSqe, Sqes, SqesOf
<1>6. Buf \in Sqes
  <2>1. Tag(0, "Buf") \in Tags
    BY TagType DEF Ops
  <2> QED  BY <2>1 DEF Buf, ProvideSqe, Sqes, SqesOf
<1> QED  BY <1>1, <1>2, <1>3, <1>4, <1>5, <1>6, Zenon

(* The kinds of request, and what is known of each.                        *)
LEMMA SqeFacts ==
  ASSUME NEW r \in Sqes
  PROVE  /\ r.kind \in { "accept", "recv", "send", "poll", "close", "provide" }
         /\ r.tag \in Tags
         /\ r.kind = "accept"  => r.tag = Tag(LISTEN_FD, "Accept") /\ r.multi \in BOOLEAN
         /\ r.kind = "recv"    => r.tag = Tag(r.fd, "Recv") /\ r.fd \in Fds /\ r.multi \in BOOLEAN
         /\ r.kind = "send"    => r.tag = Tag(r.fd, "Send") /\ r.fd \in Fds /\ r.bufs \in Seq(Bufs)
         /\ r.kind = "poll"    => r.tag = Tag(r.fd, "PollOut") /\ r.fd \in Fds
         /\ r.kind = "close"   => r.tag = Tag(r.fd, "Close") /\ r.fd \in Fds /\ r.conn \in 0 .. FOREIGN
         /\ r.kind = "provide" => r.tag = Tag(0, "Buf")
<1>1. r \in SqesOf(Tags, Bufs)
  BY DEF Sqes
<1>2. /\ r.kind \in { "accept", "recv", "send", "poll", "close", "provide" }
      /\ r.tag \in Tags
  BY <1>1 DEF SqesOf
<1>3. /\ r.kind = "accept"  => r.multi \in BOOLEAN
      /\ r.kind = "recv"    => r.fd \in Fds /\ r.multi \in BOOLEAN
      /\ r.kind = "poll"    => r.fd \in Fds
      /\ r.kind = "close"   => r.fd \in Fds /\ r.conn \in 0 .. FOREIGN
  BY <1>1 DEF SqesOf
<1>4. r.kind = "send" => r.fd \in Fds /\ r.bufs \in Seq(Bufs)
  BY <1>1 DEF SqesOf
<1> QED  BY <1>2, <1>3, <1>4, Made DEF Sqes

(* What a completion is known to carry.                                    *)
LEMMA AnswerFacts ==
  ASSUME NEW c \in Answers
  PROVE  /\ c.tag \in Tags /\ c.tag.op \in Ops /\ c.res \in Int /\ c.conn \in 0 .. FOREIGN
         /\ c.at \in Nat /\ c.more \in BOOLEAN /\ c.buffer \in BOOLEAN
         /\ c.tag = Tag(c.tag.fd, c.tag.op)
         /\ c.tag.op = "Accept" /\ c.res >= 0 => c.res \in Fds
         /\ c.tag.op \in { "Accept", "Recv" } /\ c.res > 0 => c.conn \in 1 .. MAX_CONNS
         /\ c.buffer => c.tag.op = "Recv" /\ c.res > 0
BY DEF Answers, CqesOf, Tags, Tag

-----------------------------------------------------------------------------
(* The helpers of the handlers.                                            *)

(* A single request is the only member of its sequence.                    *)
LEMMA MembersMade ==
  /\ \A f, m : Members(<< RecvOf(f, m) >>) = { RecvOf(f, m) }
  /\ \A f, b : Members(<< SendOf(f, b) >>) = { SendOf(f, b) }
  /\ \A f : Members(<< PollOf(f) >>) = { PollOf(f) }
  /\ \A f, k : Members(<< CloseOf(f, k) >>) = { CloseOf(f, k) }
BY MembersOne, Zenon

(* Storages that agree but for the fields that receives change,            *)
SameButRecv(c, d) ==
  /\ d.conn = c.conn /\ d.served = c.served /\ d.closing = c.closing
  /\ d.keep_alive = c.keep_alive /\ d.acc = c.acc
  /\ d.pollout_armed = c.pollout_armed /\ d.tx = c.tx

(* and but for those that sends change.                                    *)
SameButSend(c, d) ==
  /\ d.conn = c.conn /\ d.served = c.served /\ d.closing = c.closing
  /\ d.keep_alive = c.keep_alive /\ d.acc = c.acc
  /\ d.ms_recv_armed = c.ms_recv_armed /\ d.rx_hold = c.rx_hold

(* The fields of a storage.                                                *)
LEMMA StorageFacts ==
  ASSUME NEW c \in Storage
  PROVE  /\ c.conn \in Conns /\ c.served \in Nat /\ c.closing \in BOOLEAN
         /\ c.keep_alive \in BOOLEAN /\ c.acc \in Seq(Byte)
         /\ c.ms_recv_armed \in BOOLEAN /\ c.rx_hold \in BOOLEAN
         /\ c.pollout_armed \in BOOLEAN /\ c.tx \in TxState(Literals)
         /\ c.tx.txq \in Seq(Bufs) /\ c.tx.tx_inflight \in Seq(Bufs)
         /\ c.tx.send_inflight \in BOOLEAN /\ c.tx.inflight_eor \in BOOLEAN
<1>1. /\ c.conn \in Conns /\ c.served \in Nat /\ c.closing \in BOOLEAN
      /\ c.keep_alive \in BOOLEAN /\ c.acc \in Seq(Byte)
      /\ c.ms_recv_armed \in BOOLEAN /\ c.rx_hold \in BOOLEAN
      /\ c.pollout_armed \in BOOLEAN /\ c.tx \in TxState(Literals)
  BY DEF Storage
<1> QED  BY <1>1 DEF TxState, Bufs

(* A storage in which the hold has changed,                                *)
LEMMA HoldTyped ==
  ASSUME NEW c \in Storage, NEW v \in BOOLEAN, NEW d, d = [ c EXCEPT !.rx_hold = v ]
  PROVE  /\ d \in Storage /\ SameButRecv(c, d)
         /\ d.rx_hold = v /\ d.ms_recv_armed = c.ms_recv_armed
BY DEF Storage, SameButRecv

(* or the flag of the multishot receive.                                   *)
LEMMA ArmedTyped ==
  ASSUME NEW c \in Storage, NEW v \in BOOLEAN, NEW d, d = [ c EXCEPT !.ms_recv_armed = v ]
  PROVE  /\ d \in Storage /\ SameButRecv(c, d)
         /\ d.ms_recv_armed = v /\ d.rx_hold = c.rx_hold
BY DEF Storage, SameButRecv

(* A multishot receive has ended.                                          *)
LEMMA DisarmedTyped ==
  ASSUME NEW c \in Storage, NEW d, d = Disarmed(c)
  PROVE  /\ d \in Storage /\ SameButRecv(c, d)
         /\ ~ d.ms_recv_armed /\ d.rx_hold = c.rx_hold
<1> DEFINE no == FALSE
<1>1. no \in BOOLEAN /\ ~ no
  OBVIOUS
<1>2. d = [ c EXCEPT !.ms_recv_armed = no ]
  BY DEF Disarmed
<1> HIDE DEF no
<1> QED  BY <1>1, <1>2, ArmedTyped

(* start_recv: the hold or the flag it sets, and the receive it queues.    *)
LEMMA StartRecvTyped ==
  ASSUME NEW fd \in Fds, NEW c \in Storage, NEW m \in BOOLEAN,
         NEW r, r = start_recv(fd, c, m)
  PROVE  /\ r.c \in Storage /\ SameButRecv(c, r.c) /\ r.sqes \in Seq(Sqes)
         /\ r.sqes = <<>> \/ r.sqes = << RecvOf(fd, m) >>
         /\ ~ m \/ ~ c.ms_recv_armed => r.sqes = << RecvOf(fd, m) >>
         /\ ~ m => r.c.rx_hold /\ r.c.ms_recv_armed = c.ms_recv_armed
         /\ m => r.c.ms_recv_armed /\ r.c.rx_hold = c.rx_hold
<1> DEFINE yes == TRUE
           held == [ c EXCEPT !.rx_hold = yes ]
           armed == [ c EXCEPT !.ms_recv_armed = yes ]
<1>1. yes \in BOOLEAN /\ yes
  OBVIOUS
<1>2. << RecvOf(fd, m) >> \in Seq(Sqes) /\ <<>> \in Seq(Sqes)
  BY RequestsTyped, OneInSeq
<1>3. /\ ~ m => r.c = held /\ r.sqes = << RecvOf(fd, m) >>
      /\ m /\ c.ms_recv_armed => r.c = c /\ r.sqes = <<>>
      /\ m /\ ~ c.ms_recv_armed => r.c = armed /\ r.sqes = << RecvOf(fd, m) >>
  <2>1. m = TRUE \/ m = FALSE
    OBVIOUS
  <2> QED  BY <2>1 DEF start_recv, Just
<1> DEFINE h == held
           a == armed
<1>9. h = [ c EXCEPT !.rx_hold = yes ] /\ a = [ c EXCEPT !.ms_recv_armed = yes ]
  OBVIOUS
<1> HIDE DEF yes, h, a
<1>4. /\ h \in Storage /\ SameButRecv(c, h) /\ h.rx_hold = yes
      /\ h.ms_recv_armed = c.ms_recv_armed
  BY <1>1, <1>9, HoldTyped
<1>10. /\ a \in Storage /\ SameButRecv(c, a) /\ a.ms_recv_armed = yes
       /\ a.rx_hold = c.rx_hold
  BY <1>1, <1>9, ArmedTyped
<1>5. SameButRecv(c, c)
  BY DEF SameButRecv
<1>11. h = held /\ a = armed
  BY DEF h, a
<1> HIDE DEF held, armed
<1>6. CASE ~ m
  BY <1>1, <1>2, <1>3, <1>4, <1>6, <1>11
<1>7. CASE m /\ c.ms_recv_armed
  BY <1>2, <1>3, <1>5, <1>7
<1>8. CASE m /\ ~ c.ms_recv_armed
  BY <1>1, <1>2, <1>3, <1>8, <1>10, <1>11
<1> QED  BY <1>6, <1>7, <1>8

(* The same for a storage that may be marked closing.                      *)
LEMMA StartUnlessClosingTyped ==
  ASSUME NEW fd \in Fds, NEW c \in Storage, NEW m \in BOOLEAN,
         NEW r, r = StartUnlessClosing(fd, c, m)
  PROVE  /\ r.c \in Storage /\ SameButRecv(c, r.c) /\ r.sqes \in Seq(Sqes)
         /\ r.sqes = <<>> \/ r.sqes = << RecvOf(fd, m) >>
         /\ c.closing => r.c = c /\ r.sqes = <<>>
         /\ ~ c.closing => r = start_recv(fd, c, m)
<1>1. CASE c.closing
  <2>1. r.c = c /\ r.sqes = <<>>
    BY <1>1 DEF StartUnlessClosing, Just
  <2>2. <<>> \in Seq(Sqes) /\ SameButRecv(c, c)
    BY OneInSeq DEF SameButRecv
  <2> QED  BY <1>1, <2>1, <2>2
<1>2. CASE ~ c.closing
  <2>1. r = start_recv(fd, c, m)
    BY <1>2 DEF StartUnlessClosing
  <2> QED  BY <1>2, <2>1, StartRecvTyped
<1> QED  BY <1>1, <1>2

(* A storage in which the send side has changed,                           *)
LEMMA SendSideTyped ==
  ASSUME NEW c \in Storage, NEW t \in TxState(Literals), NEW d, d = [ c EXCEPT !.tx = t ]
  PROVE  d \in Storage /\ SameButSend(c, d) /\ d.tx = t /\ d.pollout_armed = c.pollout_armed
BY DEF Storage, SameButSend

(* or the flag of the poll.                                                *)
LEMMA PollFlagTyped ==
  ASSUME NEW c \in Storage, NEW v \in BOOLEAN, NEW d, d = [ c EXCEPT !.pollout_armed = v ]
  PROVE  d \in Storage /\ SameButSend(c, d) /\ d.tx = c.tx /\ d.pollout_armed = v
BY DEF Storage, SameButSend

(* sendkick_inline does nothing, or it sends a batch of the queue.         *)
LEMMA KickTyped ==
  ASSUME NEW fd \in Fds, NEW c \in Storage, NEW r, r = sendkick_inline(fd, c)
  PROVE  /\ r.c \in Storage /\ SameButSend(c, r.c) /\ r.sqes \in Seq(Sqes)
         /\ r.c.pollout_armed = c.pollout_armed
         /\ NothingToKick(c.tx) => r.c = c /\ r.sqes = <<>>
         /\ ~ NothingToKick(c.tx) =>
              /\ r.c.tx.send_inflight
              /\ r.sqes = << SendOf(fd, r.c.tx.tx_inflight) >>
              /\ \E n \in 1 .. Len(c.tx.txq) :
                   IsBatch(c.tx.txq, n) /\ r.c.tx = TakeBatch(c.tx, n)
<1>1. CASE NothingToKick(c.tx)
  <2>1. r.c = c /\ r.sqes = <<>>
    BY <1>1 DEF sendkick_inline, Just
  <2>2. <<>> \in Seq(Sqes) /\ SameButSend(c, c)
    BY OneInSeq DEF SameButSend
  <2> QED  BY <1>1, <2>1, <2>2
<1>2. CASE ~ NothingToKick(c.tx)
  <2> DEFINE q == c.tx.txq
             n == CHOOSE i \in 1 .. Len(q) : IsBatch(q, i)
             batch == TakeBatch(c.tx, n)
             kicked == [ c EXCEPT !.tx = batch ]
  <2>1. ~ c.tx.send_inflight /\ q # <<>> /\ q \in Seq(Bufs)
    BY <1>2, StorageFacts DEF NothingToKick
  <2>2. \E i \in 1 .. Len(q) : IsBatch(q, i)
    BY <2>1, BatchExists
  <2>3. n \in 1 .. Len(q) /\ IsBatch(q, n)
    BY <2>2
  <2>4. r.c = kicked /\ r.sqes = << SendOf(fd, batch.tx_inflight) >>
    BY <1>2 DEF sendkick_inline
  <2> HIDE DEF n
  <2>5. batch \in TxState(Literals) /\ batch.send_inflight
    <3>1. q[n].eor \in BOOLEAN
      <4>1. q[n] \in Bufs
        BY <2>1, <2>3
      <4> QED  BY <4>1 DEF Bufs, OwnedBuf
    <3>2. SubSeq(q, n + 1, Len(q)) \in Seq(Bufs) /\ SubSeq(q, 1, n) \in Seq(Bufs)
      BY <2>1, <2>3
    <3> QED  BY <3>1, <3>2 DEF TakeBatch, TxState, Bufs
  <2>6. batch.tx_inflight \in Seq(Bufs)
    BY <2>5 DEF TxState, Bufs
  <2>7. /\ kicked \in Storage /\ kicked.tx = batch /\ SameButSend(c, kicked)
        /\ kicked.pollout_armed = c.pollout_armed
    <3>1. kicked = [ c EXCEPT !.tx = batch ]
      OBVIOUS
    <3> HIDE DEF batch, kicked
    <3> QED  BY <2>5, <3>1, SendSideTyped
  <2>8. r.sqes \in Seq(Sqes)
    BY <2>4, <2>6, RequestsTyped, OneInSeq
  <2>9. \E i \in 1 .. Len(q) : IsBatch(q, i) /\ batch = TakeBatch(c.tx, i)
    BY <2>3
  <2> HIDE DEF kicked, batch
  <2> QED  BY <1>2, <2>4, <2>5, <2>7, <2>8, <2>9
<1> QED  BY <1>1, <1>2

(* arm_pollout arms the poll, and queues one unless it was armed.          *)
LEMMA ArmPolloutTyped ==
  ASSUME NEW fd \in Fds, NEW c \in Storage, NEW r, r = arm_pollout(fd, c)
  PROVE  /\ r.c \in Storage /\ SameButSend(c, r.c) /\ r.sqes \in Seq(Sqes)
         /\ r.c.tx = c.tx /\ r.c.pollout_armed
         /\ \/ c.pollout_armed /\ r.sqes = <<>>
            \/ ~ c.pollout_armed /\ r.sqes = << PollOf(fd) >>
<1> DEFINE yes == TRUE
           armed == [ c EXCEPT !.pollout_armed = yes ]
<1>1. yes \in BOOLEAN /\ yes /\ c.tx \in TxState(Literals)
  BY StorageFacts
<1>2. << PollOf(fd) >> \in Seq(Sqes) /\ <<>> \in Seq(Sqes) /\ SameButSend(c, c)
  BY RequestsTyped, OneInSeq DEF SameButSend
<1>3. /\ c.pollout_armed => r.c = c /\ r.sqes = <<>>
      /\ ~ c.pollout_armed => r.c = armed /\ r.sqes = << PollOf(fd) >>
  BY DEF arm_pollout, Just
<1>5. armed = [ c EXCEPT !.pollout_armed = yes ]
  OBVIOUS
<1> HIDE DEF yes, armed
<1>4. /\ armed \in Storage /\ SameButSend(c, armed) /\ armed.tx = c.tx
      /\ armed.pollout_armed = yes
  BY <1>1, <1>5, PollFlagTyped
<1> QED  BY <1>1, <1>2, <1>3, <1>4 DEF armed

(* A storage that is to be closed.                                         *)
LEMMA ClosedTyped ==
  ASSUME NEW fd \in Fds, NEW c \in Storage, NEW conn \in 0 .. FOREIGN,
         NEW r, r = Closed(fd, c, conn)
  PROVE  /\ r.c \in Storage /\ r.c.closing
         /\ r.c.conn = c.conn /\ r.c.served = c.served /\ r.c.keep_alive = c.keep_alive
         /\ r.c.acc = c.acc /\ r.c.tx = c.tx /\ r.c.pollout_armed = c.pollout_armed
         /\ r.c.ms_recv_armed = c.ms_recv_armed /\ r.c.rx_hold = c.rx_hold
         /\ r.sqes = << CloseOf(fd, conn) >> /\ r.sqes \in Seq(Sqes)
<1> DEFINE d == [ c EXCEPT !.closing = TRUE ]
<1>1. r.c = d /\ r.sqes = << CloseOf(fd, conn) >>
  BY DEF Closed
<1>2. /\ d \in Storage /\ d.closing
      /\ d.conn = c.conn /\ d.served = c.served /\ d.keep_alive = c.keep_alive
      /\ d.acc = c.acc /\ d.tx = c.tx /\ d.pollout_armed = c.pollout_armed
      /\ d.ms_recv_armed = c.ms_recv_armed /\ d.rx_hold = c.rx_hold
  BY DEF Storage
<1>3. << CloseOf(fd, conn) >> \in Seq(Sqes)
  BY RequestsTyped, OneInSeq
<1> HIDE DEF d
<1> QED  BY <1>1, <1>2, <1>3

(* The operators on the send side keep its type, and end what is in flight.*)
LEMMA TxTyped ==
  ASSUME NEW t \in TxState(Literals)
  PROVE  /\ Completed(t) \in TxState(Literals) /\ RollBack(t) \in TxState(Literals)
         /\ ~ Completed(t).send_inflight /\ ~ RollBack(t).send_inflight
         /\ Completed(t).txq = t.txq
<1>1. /\ t.txq \in Seq(OwnedBuf(Literals)) /\ t.tx_inflight \in Seq(OwnedBuf(Literals))
      /\ <<>> \in Seq(OwnedBuf(Literals))
  BY DEF TxState
<1>2. t.tx_inflight \o t.txq \in Seq(OwnedBuf(Literals))
  BY <1>1
<1> QED  BY <1>1, <1>2 DEF Completed, RollBack, TxState

(* on_send_complete ends the sendmsg, and counts a response that has left. *)
LEMMA OnSendCompleteTyped ==
  ASSUME NEW c \in Storage, NEW d, d = OnSendComplete(c)
  PROVE  /\ d \in Storage
         /\ d.conn = c.conn /\ d.closing = c.closing /\ d.keep_alive = c.keep_alive
         /\ d.acc = c.acc /\ d.pollout_armed = c.pollout_armed
         /\ d.ms_recv_armed = c.ms_recv_armed /\ d.rx_hold = c.rx_hold
         /\ d.tx = Completed(c.tx)
         /\ d.served = IF c.tx.inflight_eor THEN c.served + 1 ELSE c.served
<1> DEFINE n == IF c.tx.inflight_eor THEN c.served + 1 ELSE c.served
           t == Completed(c.tx)
<1>1. n \in Nat /\ t \in TxState(Literals)
  BY StorageFacts, TxTyped
<1>2. d = [ c EXCEPT !.tx = t, !.served = n ]
  BY DEF OnSendComplete
<1> HIDE DEF n, t
<1>3. [ c EXCEPT !.tx = t, !.served = n ] \in Storage
  BY <1>1 DEF Storage
<1>4. /\ d.conn = c.conn /\ d.closing = c.closing /\ d.keep_alive = c.keep_alive
      /\ d.acc = c.acc /\ d.pollout_armed = c.pollout_armed
      /\ d.ms_recv_armed = c.ms_recv_armed /\ d.rx_hold = c.rx_hold
      /\ d.tx = t /\ d.served = n
  BY <1>2 DEF Storage
<1> QED  BY <1>2, <1>3, <1>4 DEF n, t

(* parse_step changes acc, keep_alive and the queue, and nothing else.     *)
LEMMA ParsedTyped ==
  ASSUME NEW c \in Storage, NEW bytes \in Seq(Byte), NEW d, d = parse_step(c, bytes)
  PROVE  /\ d \in Storage /\ ParserOf(c, bytes) \in Parser
         /\ d.conn = c.conn /\ d.served = c.served /\ d.closing = c.closing
         /\ d.ms_recv_armed = c.ms_recv_armed /\ d.rx_hold = c.rx_hold
         /\ d.pollout_armed = c.pollout_armed
         /\ d.tx.send_inflight = c.tx.send_inflight
         /\ d.tx.tx_inflight = c.tx.tx_inflight
         /\ d.tx.inflight_eor = c.tx.inflight_eor
         /\ \E q \in Parser : /\ d = With(c, q) /\ d.acc = q.acc
                              /\ d.keep_alive = q.keep_alive /\ d.tx.txq = q.txq
<1>1. ParserOf(c, bytes) \in Parser
  <2> DEFINE a == c.acc
             b == a \o bytes
  <2>1. a \in Seq(Byte) /\ c.keep_alive \in BOOLEAN /\ c.tx.txq \in Seq(OwnedBuf(Literals))
    BY StorageFacts DEF Bufs
  <2>2. b \in Seq(Byte)
    <3> HIDE DEF a
    <3> QED  BY <2>1, Concat
  <2>3. ParserOf(c, bytes) = [ acc |-> b, keep_alive |-> c.keep_alive, txq |-> c.tx.txq ]
    BY DEF ParserOf
  <2> HIDE DEF b
  <2> QED  BY <2>1, <2>2, <2>3 DEF Parser
<1>2. PICK q \in Parser : d = With(c, q)
  BY <1>1, ParseTyped
<1> DEFINE t == [ c.tx EXCEPT !.txq = q.txq ]
<1>3. /\ q.acc \in Seq(Byte) /\ q.keep_alive \in BOOLEAN
      /\ q.txq \in Seq(OwnedBuf(Literals)) /\ c.tx \in TxState(Literals)
  BY StorageFacts DEF Parser
<1>4. /\ t \in TxState(Literals) /\ t.txq = q.txq
      /\ t.send_inflight = c.tx.send_inflight /\ t.tx_inflight = c.tx.tx_inflight
      /\ t.inflight_eor = c.tx.inflight_eor
  BY <1>3 DEF TxState
<1>5. d = [ c EXCEPT !.acc = q.acc, !.keep_alive = q.keep_alive, !.tx = t ]
  BY <1>2 DEF With
<1> HIDE DEF t
<1>6. d \in Storage
  BY <1>3, <1>4, <1>5 DEF Storage
<1>7. /\ d.conn = c.conn /\ d.served = c.served /\ d.closing = c.closing
      /\ d.ms_recv_armed = c.ms_recv_armed /\ d.rx_hold = c.rx_hold
      /\ d.pollout_armed = c.pollout_armed /\ d.tx = t
      /\ d.acc = q.acc /\ d.keep_alive = q.keep_alive
  BY <1>5 DEF Storage
<1> QED  BY <1>1, <1>2, <1>4, <1>6, <1>7

(* post_accept queues an accept, or nothing.                               *)
LEMMA PostAcceptTyped ==
  ASSUME NEW ms, NEW armed
  PROVE  /\ post_accept(ms, armed) \in Seq(Sqes)
         /\ \/ post_accept(ms, armed) = <<>>
            \/ \E m \in BOOLEAN : post_accept(ms, armed) = << AcceptOf(m) >>
<1>1. AcceptOf(TRUE) \in Sqes /\ AcceptOf(FALSE) \in Sqes
  BY RequestsTyped
<1>2. /\ << AcceptOf(TRUE) >> \in Seq(Sqes)
      /\ << AcceptOf(FALSE) >> \in Seq(Sqes)
      /\ <<>> \in Seq(Sqes)
  BY <1>1, OneInSeq, Zenon
<1> QED  BY <1>2 DEF post_accept

(* A new storage: nothing queued, armed, in flight or closing.             *)
LEMMA FreshStorageTyped ==
  ASSUME NEW conn \in Conns
  PROVE  /\ FreshStorage(conn) \in Storage
         /\ FreshStorage(conn).conn = conn /\ FreshStorage(conn).tx = InitTx
         /\ ~ FreshStorage(conn).closing /\ ~ FreshStorage(conn).ms_recv_armed
         /\ ~ FreshStorage(conn).pollout_armed /\ ~ FreshStorage(conn).rx_hold
         /\ ~ InitTx.send_inflight /\ InitTx.txq = <<>>
<1>1. InitTx \in TxState(Literals) /\ ~ InitTx.send_inflight /\ InitTx.txq = <<>>
  BY DEF InitTx, TxState
<1>2. <<>> \in Seq(Byte)
  OBVIOUS
<1> QED  BY <1>1, <1>2 DEF FreshStorage, Storage

-----------------------------------------------------------------------------
(* The handlers.                                                           *)

(* The handler takes the completion at the head of cq.                     *)
Taking ==
  /\ cq # <<>> /\ Cqe1 \in Answers /\ Cqe1 \in Members(cq) /\ Sent(Cqe1)
  /\ cq' = Tail(cq)
  /\ UNCHANGED << ops, kernelVars, historyVars, bounds, peerVars >>

(* It queues the requests new.                                             *)
Queues(new) == new \in Seq(Sqes) /\ sq' = sq \o new

(* It makes d of the storage the completion names.                         *)
Updated(d) ==
  /\ fd1 \in DOMAIN table /\ fd1 \in Fds
  /\ c1 \in Storage /\ d \in Storage
  /\ table' = [ table EXCEPT ![fd1] = d ]

Updates(d, new) == Taking /\ Queues(new) /\ Updated(d)

(* What is known of a completion that is taken,                            *)
LEMMA TakingFacts ==
  ASSUME Types, NEW op, Dispatch(op)
  PROVE  Taking /\ Cqe1.tag.op = op /\ Cqe1.conn \in 0 .. FOREIGN
<1>1. cq \in Seq(Answers) /\ cq # <<>> /\ \A c \in Members(cq) : Sent(c)
  BY DEF Types, RingTypes, Sequences, Dispatch
<1>2. Cqe1 \in Answers /\ Cqe1 \in Members(cq)
  BY <1>1, MembersTail DEF Cqe1
<1>3. Cqe1.conn \in 0 .. FOREIGN
  BY <1>2, AnswerFacts
<1> QED  BY <1>1, <1>2, <1>3 DEF Taking, Dispatch

(* and of the storage that it names.                                       *)
LEMMA TakingToFacts ==
  ASSUME Types, NEW op, DispatchTo(op)
  PROVE  /\ Taking /\ Cqe1.tag.op = op /\ Cqe1.conn \in 0 .. FOREIGN
         /\ fd1 \in DOMAIN table /\ fd1 \in Fds /\ c1 \in Storage
<1>1. Dispatch(op) /\ fd1 \in DOMAIN table
  BY DEF DispatchTo
<1>2. fd1 \in Fds /\ c1 \in Storage
  BY <1>1 DEF Types, LoopTypes, c1
<1> QED  BY <1>1, <1>2, TakingFacts

(* What Update does.                                                       *)
LEMMA UpdateFacts ==
  ASSUME Types, NEW op, DispatchTo(op), NEW r, Update(r),
         r.c \in Storage, r.sqes \in Seq(Sqes)
  PROVE  Updates(r.c, r.sqes)
<1>1. Taking /\ fd1 \in DOMAIN table /\ fd1 \in Fds /\ c1 \in Storage
  BY TakingToFacts
<1> QED  BY <1>1 DEF Update, Queue, Queues, Updated, Updates

(* The handler of a receive that failed: receive singly after EINVAL, else *)
(* close.                                                                  *)
LEMMA RecvFailedFacts ==
  ASSUME Types, HandleRecvFailed
  PROVE  /\ Cqe1.tag.op = "Recv" /\ Cqe1.res <= 0
         /\ UNCHANGED << use_ms_accept, ms_accept_armed, have_buf_pool, answers >>
         /\ \E d, new :
              /\ Updates(d, new)
              /\ d.conn = c1.conn /\ d.served = c1.served /\ d.keep_alive = c1.keep_alive
              /\ d.acc = c1.acc /\ d.tx = c1.tx /\ d.pollout_armed = c1.pollout_armed
              /\ ~ d.ms_recv_armed
              /\ \/ /\ Cqe1.res = EINVAL /\ use_ms_recv' = FALSE
                    /\ d.closing = c1.closing
                    /\ ~ c1.closing => d.rx_hold /\ new = << RecvOf(fd1, FALSE) >>
                    /\ c1.closing => new = <<>>
                 \/ /\ Cqe1.res # EINVAL /\ UNCHANGED use_ms_recv
                    /\ d.closing /\ new = << CloseOf(fd1, Cqe1.conn) >>
<1> DEFINE c == Disarmed(c1)
<1>1. DispatchTo("Recv") /\ Cqe1.res <= 0
  BY DEF HandleRecvFailed
<1>2. fd1 \in Fds /\ c1 \in Storage /\ Cqe1.tag.op = "Recv" /\ Cqe1.conn \in 0 .. FOREIGN
  BY <1>1, TakingToFacts
<1>3. c \in Storage /\ SameButRecv(c1, c) /\ ~ c.ms_recv_armed
  BY <1>2, DisarmedTyped
<1>4. UNCHANGED << use_ms_accept, ms_accept_armed, have_buf_pool, answers >>
  BY DEF HandleRecvFailed
<1>5. CASE Cqe1.res = EINVAL
  <2> DEFINE r == StartUnlessClosing(fd1, c, FALSE)
             s == start_recv(fd1, c, FALSE)
  <2>1. use_ms_recv' = FALSE /\ Update(r)
    BY <1>5 DEF HandleRecvFailed
  <2> DEFINE no == FALSE
  <2>2. no \in BOOLEAN /\ ~ no /\ r = StartUnlessClosing(fd1, c, no)
        /\ s = start_recv(fd1, c, no)
    OBVIOUS
  <2> HIDE DEF c, r, s, no
  <2>3. /\ r.c \in Storage /\ SameButRecv(c, r.c) /\ r.sqes \in Seq(Sqes)
        /\ c.closing => r.c = c /\ r.sqes = <<>>
        /\ ~ c.closing => r = s
    BY <1>2, <1>3, <2>2, StartUnlessClosingTyped
  <2>4. s.sqes = << RecvOf(fd1, no) >> /\ s.c.rx_hold /\ s.c.ms_recv_armed = c.ms_recv_armed
    BY <1>2, <1>3, <2>2, StartRecvTyped
  <2>5. Updates(r.c, r.sqes)
    BY <1>1, <2>1, <2>3, UpdateFacts
  <2>6. /\ r.c.conn = c1.conn /\ r.c.served = c1.served /\ r.c.keep_alive = c1.keep_alive
        /\ r.c.acc = c1.acc /\ r.c.tx = c1.tx /\ r.c.pollout_armed = c1.pollout_armed
        /\ r.c.closing = c1.closing /\ c.closing = c1.closing
    BY <1>3, <2>3 DEF SameButRecv
  <2>7. ~ r.c.ms_recv_armed
    BY <1>3, <2>3, <2>4
  <2>8. /\ ~ c1.closing => r.c.rx_hold /\ r.sqes = << RecvOf(fd1, FALSE) >>
        /\ c1.closing => r.sqes = <<>>
    BY <2>3, <2>4, <2>6 DEF no
  <2> QED  BY <1>1, <1>2, <1>4, <1>5, <2>1, <2>5, <2>6, <2>7, <2>8
<1>6. CASE Cqe1.res # EINVAL
  <2> DEFINE r == Closed(fd1, c, Cqe1.conn)
  <2>1. UNCHANGED use_ms_recv /\ Update(r)
    BY <1>6 DEF HandleRecvFailed
  <2>2. r = Closed(fd1, c, Cqe1.conn)
    OBVIOUS
  <2> HIDE DEF c, r
  <2>3. /\ r.c \in Storage /\ r.c.closing /\ r.sqes \in Seq(Sqes)
        /\ r.c.conn = c.conn /\ r.c.served = c.served /\ r.c.keep_alive = c.keep_alive
        /\ r.c.acc = c.acc /\ r.c.tx = c.tx /\ r.c.pollout_armed = c.pollout_armed
        /\ r.c.ms_recv_armed = c.ms_recv_armed
        /\ r.sqes = << CloseOf(fd1, Cqe1.conn) >>
    BY <1>2, <1>3, <2>2, ClosedTyped
  <2>4. Updates(r.c, r.sqes)
    BY <1>1, <2>1, <2>3, UpdateFacts
  <2>5. /\ r.c.conn = c1.conn /\ r.c.served = c1.served /\ r.c.keep_alive = c1.keep_alive
        /\ r.c.acc = c1.acc /\ r.c.tx = c1.tx /\ r.c.pollout_armed = c1.pollout_armed
        /\ ~ r.c.ms_recv_armed
    BY <1>3, <2>3 DEF SameButRecv
  <2> QED  BY <1>1, <1>2, <1>4, <1>6, <2>1, <2>3, <2>4, <2>5
<1> QED  BY <1>5, <1>6

(* The handler of a sendmsg that completed: close, or send what is queued. *)
LEMMA SendCompletedFacts ==
  ASSUME Types, HandleSendCompleted
  PROVE  /\ Cqe1.tag.op = "Send" /\ Cqe1.res >= 0 /\ UNCHANGED << flags, answers >>
         /\ \E e, d, new :
              /\ Updates(d, new)
              /\ e = OnSendComplete(c1) /\ e \in Storage
              /\ \/ /\ ToBeClosed(c1) /\ d.closing /\ new = << CloseOf(fd1, Cqe1.conn) >>
                    /\ d.conn = e.conn /\ d.served = e.served /\ d.keep_alive = e.keep_alive
                    /\ d.acc = e.acc /\ d.tx = e.tx /\ d.pollout_armed = e.pollout_armed
                    /\ d.ms_recv_armed = e.ms_recv_armed /\ d.rx_hold = e.rx_hold
                 \/ /\ ~ ToBeClosed(c1)
                    /\ d = sendkick_inline(fd1, e).c /\ new = sendkick_inline(fd1, e).sqes
<1> DEFINE e == OnSendComplete(c1)
           r == Closed(fd1, e, Cqe1.conn)
           s == sendkick_inline(fd1, e)
<1>1. DispatchTo("Send") /\ Cqe1.res >= 0 /\ UNCHANGED << flags, answers >>
  BY DEF HandleSendCompleted
<1>2. fd1 \in Fds /\ c1 \in Storage /\ Cqe1.tag.op = "Send" /\ Cqe1.conn \in 0 .. FOREIGN
  BY <1>1, TakingToFacts
<1>3. e \in Storage
  BY <1>2, OnSendCompleteTyped
<1>4. /\ ToBeClosed(c1) => Update(r)
      /\ ~ ToBeClosed(c1) => Update(s)
  BY DEF HandleSendCompleted
<1>5. r = Closed(fd1, e, Cqe1.conn) /\ s = sendkick_inline(fd1, e)
  OBVIOUS
<1>6. e = OnSendComplete(c1)
  OBVIOUS
<1> HIDE DEF e, r, s
<1>7. CASE ToBeClosed(c1)
  <2>1. /\ r.c \in Storage /\ r.c.closing /\ r.sqes \in Seq(Sqes)
        /\ r.c.conn = e.conn /\ r.c.served = e.served /\ r.c.keep_alive = e.keep_alive
        /\ r.c.acc = e.acc /\ r.c.tx = e.tx /\ r.c.pollout_armed = e.pollout_armed
        /\ r.c.ms_recv_armed = e.ms_recv_armed /\ r.c.rx_hold = e.rx_hold
        /\ r.sqes = << CloseOf(fd1, Cqe1.conn) >>
    BY <1>2, <1>3, <1>5, ClosedTyped
  <2>2. Updates(r.c, r.sqes)
    BY <1>1, <1>4, <1>7, <2>1, UpdateFacts
  <2> QED  BY <1>1, <1>2, <1>3, <1>6, <1>7, <2>1, <2>2
<1>8. CASE ~ ToBeClosed(c1)
  <2>1. s.c \in Storage /\ s.sqes \in Seq(Sqes)
    BY <1>2, <1>3, <1>5, KickTyped
  <2>2. Updates(s.c, s.sqes)
    BY <1>1, <1>4, <1>8, <2>1, UpdateFacts
  <2> QED  BY <1>1, <1>2, <1>3, <1>5, <1>6, <1>8, <2>2
<1> QED  BY <1>7, <1>8

(* The handler of EAGAIN: the buffers go back, and a poll is armed.        *)
LEMMA SendAgainFacts ==
  ASSUME Types, HandleSendAgain
  PROVE  /\ Cqe1.tag.op = "Send" /\ UNCHANGED << flags, answers >>
         /\ \E d, new :
              /\ Updates(d, new) /\ SameButSend(c1, d)
              /\ d.tx = RollBack(c1.tx) /\ d.pollout_armed
              /\ \/ c1.pollout_armed /\ new = <<>>
                 \/ ~ c1.pollout_armed /\ new = << PollOf(fd1) >>
<1> DEFINE t == RollBack(c1.tx)
           c == [ c1 EXCEPT !.tx = t ]
           r == arm_pollout(fd1, c)
<1>1. DispatchTo("Send") /\ UNCHANGED << flags, answers >> /\ Update(r)
  BY DEF HandleSendAgain
<1>2. fd1 \in Fds /\ c1 \in Storage /\ Cqe1.tag.op = "Send"
  BY <1>1, TakingToFacts
<1>3. t \in TxState(Literals)
  BY <1>2, StorageFacts, TxTyped
<1>4. c = [ c1 EXCEPT !.tx = t ]
  OBVIOUS
<1>10. r = arm_pollout(fd1, c)
  OBVIOUS
<1>5. t = RollBack(c1.tx)
  OBVIOUS
<1> HIDE DEF t, c, r
<1>6. c \in Storage /\ SameButSend(c1, c) /\ c.tx = t /\ c.pollout_armed = c1.pollout_armed
  BY <1>2, <1>3, <1>4, SendSideTyped
<1>7. /\ r.c \in Storage /\ SameButSend(c, r.c) /\ r.sqes \in Seq(Sqes)
      /\ r.c.tx = c.tx /\ r.c.pollout_armed
      /\ \/ c.pollout_armed /\ r.sqes = <<>>
         \/ ~ c.pollout_armed /\ r.sqes = << PollOf(fd1) >>
  <2>1. fd1 \in Fds /\ c \in Storage
    BY <1>2, <1>6
  <2> QED  BY <1>10, <2>1, ArmPolloutTyped
<1>8. Updates(r.c, r.sqes)
  BY <1>1, <1>7, UpdateFacts
<1>9. SameButSend(c1, r.c)
  BY <1>6, <1>7 DEF SameButSend
<1> QED  BY <1>1, <1>2, <1>5, <1>6, <1>7, <1>8, <1>9

(* The handler of a sendmsg that failed closes.                            *)
LEMMA SendFailedFacts ==
  ASSUME Types, HandleSendFailed
  PROVE  /\ Cqe1.tag.op = "Send" /\ UNCHANGED << flags, answers >>
         /\ \E d, new :
              /\ Updates(d, new) /\ d.closing /\ new = << CloseOf(fd1, Cqe1.conn) >>
              /\ d.conn = c1.conn /\ d.served = c1.served /\ d.keep_alive = c1.keep_alive
              /\ d.acc = c1.acc /\ d.tx = c1.tx /\ d.pollout_armed = c1.pollout_armed
              /\ d.ms_recv_armed = c1.ms_recv_armed /\ d.rx_hold = c1.rx_hold
<1> DEFINE r == Closed(fd1, c1, Cqe1.conn)
<1>1. DispatchTo("Send") /\ UNCHANGED << flags, answers >> /\ Update(r)
  BY DEF HandleSendFailed
<1>2. fd1 \in Fds /\ c1 \in Storage /\ Cqe1.tag.op = "Send" /\ Cqe1.conn \in 0 .. FOREIGN
  BY <1>1, TakingToFacts
<1>3. r = Closed(fd1, c1, Cqe1.conn)
  OBVIOUS
<1> HIDE DEF r
<1>4. /\ r.c \in Storage /\ r.c.closing /\ r.sqes \in Seq(Sqes)
      /\ r.c.conn = c1.conn /\ r.c.served = c1.served /\ r.c.keep_alive = c1.keep_alive
      /\ r.c.acc = c1.acc /\ r.c.tx = c1.tx /\ r.c.pollout_armed = c1.pollout_armed
      /\ r.c.ms_recv_armed = c1.ms_recv_armed /\ r.c.rx_hold = c1.rx_hold
      /\ r.sqes = << CloseOf(fd1, Cqe1.conn) >>
  BY <1>2, <1>3, ClosedTyped
<1>5. Updates(r.c, r.sqes)
  BY <1>1, <1>4, UpdateFacts
<1> QED  BY <1>1, <1>2, <1>4, <1>5

(* The handler of a poll: the flag is cleared, and what is queued is       *)
(* kicked.                                                                 *)
LEMMA PollOutFacts ==
  ASSUME Types, HandlePollOut
  PROVE  /\ Cqe1.tag.op = "PollOut" /\ UNCHANGED << flags, answers >>
         /\ \E c, d, new :
              /\ Updates(d, new) /\ c \in Storage /\ SameButSend(c1, c)
              /\ c.tx = c1.tx /\ ~ c.pollout_armed
              /\ d = sendkick_inline(fd1, c).c /\ new = sendkick_inline(fd1, c).sqes
<1> DEFINE no == FALSE
           c == [ c1 EXCEPT !.pollout_armed = no ]
           r == sendkick_inline(fd1, c)
<1>1. DispatchTo("PollOut") /\ UNCHANGED << flags, answers >> /\ Update(r)
  BY DEF HandlePollOut
<1>2. fd1 \in Fds /\ c1 \in Storage /\ Cqe1.tag.op = "PollOut"
  BY <1>1, TakingToFacts
<1>3. no \in BOOLEAN /\ ~ no
  OBVIOUS
<1>4. c = [ c1 EXCEPT !.pollout_armed = no ] /\ r = sendkick_inline(fd1, c)
  OBVIOUS
<1> HIDE DEF no, c, r
<1>5. c \in Storage /\ SameButSend(c1, c) /\ c.tx = c1.tx /\ c.pollout_armed = no
  BY <1>2, <1>3, <1>4, PollFlagTyped
<1>6. r.c \in Storage /\ r.sqes \in Seq(Sqes)
  BY <1>2, <1>4, <1>5, KickTyped
<1>7. Updates(r.c, r.sqes)
  BY <1>1, <1>6, UpdateFacts
<1> QED  BY <1>1, <1>2, <1>3, <1>4, <1>5, <1>7

(* The handler of an accept that failed: accept again.                     *)
LEMMA AcceptFailedFacts ==
  ASSUME Types, HandleAcceptFailed
  PROVE  /\ Taking /\ Cqe1.tag.op = "Accept" /\ Cqe1.res < 0
         /\ UNCHANGED << table, use_ms_recv, have_buf_pool, answers >>
         /\ use_ms_accept' \in BOOLEAN /\ ms_accept_armed' \in BOOLEAN
         /\ \E new : /\ Queues(new)
                     /\ new = <<>> \/ \E m \in BOOLEAN : new = << AcceptOf(m) >>
<1> DEFINE ms == use_ms_accept /\ Cqe1.res # EINVAL
           armed == ms_accept_armed /\ Cqe1.res # EINVAL
           new == post_accept(ms, armed)
<1>1. /\ Dispatch("Accept") /\ Cqe1.res < 0
      /\ UNCHANGED << table, use_ms_recv, have_buf_pool, answers >>
      /\ use_ms_accept' = ms /\ ms_accept_armed' = (armed \/ ms) /\ Queue(new)
  BY DEF HandleAcceptFailed
<1>2. Taking /\ Cqe1.tag.op = "Accept"
  BY <1>1, TakingFacts
<1>3. use_ms_accept' \in BOOLEAN /\ ms_accept_armed' \in BOOLEAN
  BY <1>1, Zenon
<1>4. /\ new \in Seq(Sqes)
      /\ new = <<>> \/ \E m \in BOOLEAN : new = << AcceptOf(m) >>
  BY PostAcceptTyped
<1> HIDE DEF new
<1>5. Queues(new)
  BY <1>1, <1>4 DEF Queues, Queue
<1> QED  BY <1>1, <1>2, <1>3, <1>4, <1>5

(* The handler of an accept: a storage for the connection, unless there is *)
(* one of its descriptor, and a receive.                                   *)
LEMMA AcceptedFacts ==
  ASSUME Types, HandleAccepted
  PROVE  /\ Taking /\ Cqe1.tag.op = "Accept" /\ Cqe1.res >= 0
         /\ Cqe1.res \in Fds /\ Cqe1.conn \in 0 .. FOREIGN
         /\ UNCHANGED << use_ms_accept, use_ms_recv, have_buf_pool, answers >>
         /\ ms_accept_armed' \in BOOLEAN
         /\ Cqe1.conn \in 1 .. MAX_CONNS
         /\ \E d, recv, accept :
              /\ d \in Storage /\ SameButRecv(FreshStorage(Cqe1.conn), d)
              /\ table' = [ f \in DOMAIN table \cup { Cqe1.res } |->
                              IF f \in DOMAIN table THEN table[f] ELSE d ]
              /\ recv \in Seq(Sqes) /\ accept \in Seq(Sqes) /\ Queues(recv \o accept)
              /\ \/ recv = << RecvOf(Cqe1.res, InPool) >>
                 \/ Cqe1.res \in DOMAIN table /\ recv = <<>>
              /\ accept = <<>> \/ \E m \in BOOLEAN : accept = << AcceptOf(m) >>
<1> DEFINE fd == Cqe1.res
           fresh == FreshStorage(Cqe1.conn)
           r == start_recv(fd, fresh, InPool)
           again == IF ~ use_ms_accept \/ ~ Cqe1.more
                    THEN post_accept(use_ms_accept, FALSE) ELSE <<>>
<1>1. Dispatch("Accept") /\ fd >= 0 /\ AcceptConnection
  BY DEF HandleAccepted
<1>2. Taking /\ Cqe1.tag.op = "Accept"
  BY <1>1, TakingFacts
<1>3. /\ UNCHANGED << use_ms_accept, use_ms_recv, have_buf_pool, answers >>
      /\ ms_accept_armed' = (ms_accept_armed \/ (use_ms_accept /\ ~ Cqe1.more))
      /\ table' = [ f \in DOMAIN table \cup { fd } |->
                      IF f \in DOMAIN table THEN table[f] ELSE r.c ]
  BY <1>1 DEF AcceptConnection
<1>4. PICK recv \in IF fd \in DOMAIN table THEN { <<>>, r.sqes } ELSE { r.sqes } :
        Queue(recv \o again)
  BY <1>1 DEF AcceptConnection
<1>5. ms_accept_armed' \in BOOLEAN
  <2>1. ms_accept_armed \in BOOLEAN /\ use_ms_accept \in BOOLEAN
    BY DEF Types, LoopTypes
  <2> QED  BY <1>3, <2>1, Zenon
<1>6. Cqe1 \in Answers
  BY <1>2 DEF Taking
<1>7. fd \in Fds /\ Cqe1.conn \in 0 .. FOREIGN
  BY <1>1, <1>2, <1>6, AnswerFacts
<1>8. Cqe1.conn \in 1 .. MAX_CONNS /\ Cqe1.conn \in Conns
  <2>1. fd > 0
    <3>1. fd \in Nat \ {0}
      BY <1>7, Constants
    <3> HIDE DEF fd
    <3> QED  BY <3>1
  <2> QED  BY <1>2, <1>6, <2>1, AnswerFacts, Constants
<1>9. fresh \in Storage /\ ~ fresh.ms_recv_armed
  BY <1>8, FreshStorageTyped
<1>10. InPool \in BOOLEAN
  <2>1. use_ms_recv \in BOOLEAN /\ have_buf_pool \in BOOLEAN
    BY DEF Types, LoopTypes
  <2> QED  BY <2>1 DEF InPool
<1>11. /\ again \in Seq(Sqes)
       /\ again = <<>> \/ \E m \in BOOLEAN : again = << AcceptOf(m) >>
  <2>1. <<>> \in Seq(Sqes)
    BY OneInSeq
  <2> DEFINE p == post_accept(use_ms_accept, FALSE)
  <2>2. p \in Seq(Sqes) /\ (p = <<>> \/ \E m \in BOOLEAN : p = << AcceptOf(m) >>)
    BY PostAcceptTyped
  <2> HIDE DEF p
  <2>3. again = p \/ again = <<>>
    BY DEF p
  <2> HIDE DEF again
  <2> QED  BY <2>1, <2>2, <2>3
<1> DEFINE m == InPool
<1>12. r = start_recv(fd, fresh, m) /\ m \in BOOLEAN
  BY <1>10
<1> HIDE DEF r, again, m, fresh
<1>13. /\ r.c \in Storage /\ SameButRecv(fresh, r.c) /\ r.sqes \in Seq(Sqes)
       /\ r.sqes = << RecvOf(fd, m) >>
  BY <1>7, <1>9, <1>12, StartRecvTyped
<1>14. recv \in Seq(Sqes) /\ (recv = r.sqes \/ (fd \in DOMAIN table /\ recv = <<>>))
  BY <1>13, OneInSeq
<1>15. recv \o again \in Seq(Sqes)
  BY <1>11, <1>14, MembersConcat
<1>16. Queues(recv \o again)
  BY <1>4, <1>15 DEF Queue, Queues
<1>17. /\ recv = << RecvOf(Cqe1.res, InPool) >> \/ (Cqe1.res \in DOMAIN table /\ recv = <<>>)
       /\ SameButRecv(FreshStorage(Cqe1.conn), r.c)
  BY <1>13, <1>14 DEF m, fresh
<1> QED  BY <1>1, <1>2, <1>3, <1>5, <1>7, <1>8, <1>11, <1>13, <1>14, <1>16, <1>17

(* The steps of the handler of received data: c is parsed, d is kicked and *)
(* e receives again; sends and recvs are what the last two queue.          *)
RecvSteps(c, p, d, e, sends, recvs) ==
  /\ c \in Storage /\ SameButRecv(c1, c) /\ c.ms_recv_armed = c1.ms_recv_armed
  /\ IF InPoolBuffer THEN c.rx_hold = c1.rx_hold ELSE ~ c.rx_hold
  /\ p = parse_step(c, Received) /\ p \in Storage
  /\ d = sendkick_inline(fd1, p).c /\ sends = sendkick_inline(fd1, p).sqes
  /\ d \in Storage /\ sends \in Seq(Sqes)
  /\ e \in Storage /\ SameButRecv(d, e) /\ recvs \in Seq(Sqes)
  /\ d.closing => recvs = <<>>
  /\ recvs = <<>> \/ \E m \in BOOLEAN : recvs = << RecvOf(fd1, m) >>
  /\ ~ InPoolBuffer /\ ~ d.closing =>
       e = start_recv(fd1, d, InPool).c /\ recvs = start_recv(fd1, d, InPool).sqes
  /\ InPoolBuffer /\ Cqe1.more => e = d /\ recvs = <<>>
  /\ InPoolBuffer /\ ~ Cqe1.more =>
       /\ e.rx_hold = d.rx_hold
       /\ ~ d.closing => e.ms_recv_armed /\ recvs = << RecvOf(fd1, InPool) >>
       /\ d.closing => ~ e.ms_recv_armed

(* Received data is typed.                                                 *)
LEMMA ReceivedTyped ==
  ASSUME Types, Taking, Cqe1.tag.op = "Recv", Cqe1.res > 0
  PROVE  Received \in Seq(Byte) /\ Cqe1.conn \in 1 .. MAX_CONNS /\ Cqe1.at \in Nat
         /\ Cqe1.res \in Int /\ Len(Received) = Cqe1.res
         /\ \A i \in 1 .. Cqe1.res : Received[i] = Bytes(stream[Cqe1.conn])[Cqe1.at + i]
<1>1. /\ Cqe1.conn \in 1 .. MAX_CONNS /\ Cqe1.at \in Nat /\ Cqe1.res \in Int
      /\ Cqe1.at + Cqe1.res <= Len(Bytes(stream[Cqe1.conn]))
  BY AnswerFacts DEF Taking, Sent
<1> DEFINE R == stream[Cqe1.conn]
           b == Bytes(R)
           at == Cqe1.at
           n == Cqe1.res
<1>2. R \in Seq(Requests)
  BY <1>1 DEF Types, LoopTypes
<1>3. b \in Seq(Byte)
  <2>1. 0 \in 0 .. Len(R)
    BY <1>2
  <2> HIDE DEF R
  <2> QED  BY <1>2, <2>1, WiresPrefix
<1>4. Received = SubSeq(b, at + 1, at + n) /\ at + n <= Len(b) /\ at \in Nat /\ n \in Int /\ n > 0
  BY <1>1 DEF Received
<1> HIDE DEF b, at, n
<1>5. /\ SubSeq(b, at + 1, at + n) \in Seq(Byte) /\ Len(SubSeq(b, at + 1, at + n)) = n
      /\ \A i \in 1 .. n : SubSeq(b, at + 1, at + n)[i] = b[at + i]
  BY <1>3, <1>4
<1> QED  BY <1>1, <1>4, <1>5 DEF b, at, n

(* The handler of received data: parse, kick, and receive again.           *)
LEMMA RecvDataFacts ==
  ASSUME Types, HandleRecvData
  PROVE  /\ Cqe1.tag.op = "Recv" /\ Cqe1.res > 0 /\ UNCHANGED flags
         /\ InPoolBuffer \/ c1.rx_hold
         /\ \E c, p, d, e, sends, recvs :
              /\ RecvSteps(c, p, d, e, sends, recvs)
              /\ Returned \in Seq(Sqes) /\ Updates(e, Returned \o sends \o recvs)
              /\ answers' = [ answers EXCEPT ![c1.conn] = @ \o
                                SubSeq(p.tx.txq, Len(c1.tx.txq) + 1, Len(p.tx.txq)) ]
<1> DEFINE c == IF InPoolBuffer THEN c1 ELSE [ c1 EXCEPT !.rx_hold = FALSE ]
           p == parse_step(c, Received)
           kick == sendkick_inline(fd1, p)
           d == kick.c
           again == CASE ~ InPoolBuffer -> StartUnlessClosing(fd1, d, InPool)
                      [] InPoolBuffer /\ Cqe1.more -> Just(d)
                      [] OTHER -> StartUnlessClosing(fd1, Disarmed(d), TRUE)
           r == [ c |-> again.c, sqes |-> Returned \o kick.sqes \o again.sqes ]
<1>1. /\ DispatchTo("Recv") /\ Cqe1.res > 0 /\ UNCHANGED flags
      /\ InPoolBuffer \/ c1.rx_hold
      /\ Update(r)
      /\ answers' = [ answers EXCEPT ![c1.conn] = @ \o
                        SubSeq(p.tx.txq, Len(c1.tx.txq) + 1, Len(p.tx.txq)) ]
  BY DEF HandleRecvData
<1>2. Taking /\ fd1 \in Fds /\ c1 \in Storage /\ Cqe1.tag.op = "Recv"
  BY <1>1, TakingToFacts
<1>3. Received \in Seq(Byte)
  BY <1>1, <1>2, ReceivedTyped
<1>4. InPool \in BOOLEAN /\ (InPoolBuffer => InPool)
  <2>1. use_ms_recv \in BOOLEAN /\ have_buf_pool \in BOOLEAN
    BY DEF Types, LoopTypes
  <2> QED  BY <2>1 DEF InPool, InPoolBuffer
<1>5. /\ c \in Storage /\ SameButRecv(c1, c) /\ c.ms_recv_armed = c1.ms_recv_armed
      /\ IF InPoolBuffer THEN c.rx_hold = c1.rx_hold ELSE ~ c.rx_hold
  <2> DEFINE no == FALSE
             h == [ c1 EXCEPT !.rx_hold = no ]
  <2>1. no \in BOOLEAN /\ ~ no
    OBVIOUS
  <2>2. h = [ c1 EXCEPT !.rx_hold = no ] /\ c = IF InPoolBuffer THEN c1 ELSE h
    OBVIOUS
  <2> HIDE DEF no, h, c
  <2>3. /\ h \in Storage /\ SameButRecv(c1, h)
        /\ h.rx_hold = no /\ h.ms_recv_armed = c1.ms_recv_armed
    BY <1>2, <2>1, <2>2, HoldTyped
  <2>4. SameButRecv(c1, c1)
    BY DEF SameButRecv
  <2> QED  BY <1>2, <2>1, <2>2, <2>3, <2>4
<1>6. p = parse_step(c, Received) /\ kick = sendkick_inline(fd1, p) /\ d = kick.c
  OBVIOUS
<1>7. /\ ~ InPoolBuffer => again = StartUnlessClosing(fd1, d, InPool)
      /\ InPoolBuffer /\ Cqe1.more => again = Just(d)
      /\ InPoolBuffer /\ ~ Cqe1.more => again = StartUnlessClosing(fd1, Disarmed(d), TRUE)
  <2> HIDE DEF d
  <2> QED  OBVIOUS
<1>8. r.c = again.c /\ r.sqes = Returned \o kick.sqes \o again.sqes
  <2> HIDE DEF again, kick
  <2> QED  OBVIOUS
<1> HIDE DEF c, p, kick, d, again, r
<1>9. p \in Storage
  BY <1>3, <1>5, <1>6, ParsedTyped
<1>10. d \in Storage /\ kick.sqes \in Seq(Sqes)
  BY <1>2, <1>6, <1>9, KickTyped
<1> DEFINE e == again.c
           recvs == again.sqes
           sends == kick.sqes
           yes == TRUE
           b == Disarmed(d)
<1>11. yes \in BOOLEAN
  OBVIOUS
<1>23. b = Disarmed(d)
  OBVIOUS
<1>12. ASSUME ~ InPoolBuffer
       PROVE  RecvSteps(c, p, d, e, sends, recvs)
  <2> DEFINE m == InPool
             t == start_recv(fd1, d, m)
  <2>1. again = StartUnlessClosing(fd1, d, m) /\ m \in BOOLEAN /\ t = start_recv(fd1, d, m)
    BY <1>4, <1>7, <1>12
  <2> HIDE DEF m, t
  <2>2. /\ e \in Storage /\ SameButRecv(d, e) /\ recvs \in Seq(Sqes)
        /\ recvs = <<>> \/ recvs = << RecvOf(fd1, m) >>
        /\ d.closing => recvs = <<>>
        /\ ~ d.closing => again = t
    BY <1>2, <1>10, <2>1, StartUnlessClosingTyped
  <2>3. ~ d.closing => e = start_recv(fd1, d, InPool).c /\ recvs = start_recv(fd1, d, InPool).sqes
    BY <2>2 DEF t, m
  <2> HIDE DEF e, recvs, sends
  <2>5. recvs = <<>> \/ \E i \in BOOLEAN : recvs = << RecvOf(fd1, i) >>
    BY <2>1, <2>2
  <2>4. RecvSteps(c, p, d, e, sends, recvs)
    BY <1>5, <1>6, <1>9, <1>10, <1>12, <2>2, <2>3, <2>5 DEF RecvSteps, sends
  <2> QED  BY <2>4
<1>13. ASSUME InPoolBuffer /\ Cqe1.more
       PROVE  RecvSteps(c, p, d, e, sends, recvs)
  <2>1. e = d /\ recvs = <<>>
    BY <1>7, <1>13 DEF Just
  <2>2. recvs \in Seq(Sqes) /\ SameButRecv(d, d)
    BY <2>1, OneInSeq DEF SameButRecv
  <2> HIDE DEF e, recvs, sends
  <2>3. RecvSteps(c, p, d, e, sends, recvs)
    BY <1>5, <1>6, <1>9, <1>10, <1>13, <2>1, <2>2 DEF RecvSteps, sends
  <2> QED  BY <2>3
<1>14. ASSUME InPoolBuffer /\ ~ Cqe1.more
       PROVE  RecvSteps(c, p, d, e, sends, recvs)
  <2> DEFINE t == start_recv(fd1, b, yes)
  <2>1. again = StartUnlessClosing(fd1, b, yes)
    BY <1>7, <1>14
  <2>10. t = start_recv(fd1, b, yes)
    OBVIOUS
  <2>11. yes = TRUE
    OBVIOUS
  <2> HIDE DEF b, yes, t
  <2>2. b \in Storage /\ SameButRecv(d, b) /\ ~ b.ms_recv_armed /\ b.rx_hold = d.rx_hold
    BY <1>10, <1>23, DisarmedTyped
  <2>3. /\ e \in Storage /\ SameButRecv(b, e) /\ recvs \in Seq(Sqes)
        /\ b.closing => e = b /\ recvs = <<>>
        /\ ~ b.closing => again = t
    BY <1>2, <1>11, <2>1, <2>2, <2>10, StartUnlessClosingTyped
  <2>12. /\ ~ yes \/ ~ b.ms_recv_armed => t.sqes = << RecvOf(fd1, yes) >>
         /\ yes => t.c.ms_recv_armed /\ t.c.rx_hold = b.rx_hold
    BY <1>2, <1>11, <2>2, <2>10, StartRecvTyped
  <2>4. t.sqes = << RecvOf(fd1, yes) >> /\ t.c.ms_recv_armed /\ t.c.rx_hold = b.rx_hold
    BY <2>2, <2>11, <2>12
  <2>5. b.closing = d.closing /\ SameButRecv(d, e)
    BY <2>2, <2>3 DEF SameButRecv
  <2>6. InPool = TRUE /\ yes = InPool
    BY <1>4, <1>14 DEF yes
  <2>7. /\ ~ d.closing => e.ms_recv_armed /\ e.rx_hold = d.rx_hold
                          /\ recvs = << RecvOf(fd1, InPool) >>
        /\ d.closing => e.rx_hold = d.rx_hold /\ ~ e.ms_recv_armed /\ recvs = <<>>
    BY <2>2, <2>3, <2>4, <2>5, <2>6
  <2> HIDE DEF e, recvs, sends
  <2>9. recvs = <<>> \/ \E m \in BOOLEAN : recvs = << RecvOf(fd1, m) >>
    BY <1>4, <2>7
  <2>8. RecvSteps(c, p, d, e, sends, recvs)
    BY <1>5, <1>6, <1>9, <1>10, <1>14, <2>3, <2>5, <2>7, <2>9 DEF RecvSteps, sends
  <2> QED  BY <2>8
<1>15. RecvSteps(c, p, d, e, sends, recvs)
  <2> HIDE DEF e, recvs, sends
  <2> QED  BY <1>12, <1>13, <1>14
<1>16. Returned \in Seq(Sqes)
  BY RequestsTyped, OneInSeq DEF Returned
<1>17. e \in Storage /\ recvs \in Seq(Sqes) /\ sends \in Seq(Sqes)
  <2> HIDE DEF e, recvs, sends
  <2> QED  BY <1>15 DEF RecvSteps
<1> HIDE DEF e, recvs, sends
<1> DEFINE two == Returned \o sends
           all == two \o recvs
<1>18. two \in Seq(Sqes)
  BY <1>16, <1>17, MembersConcat
<1>19. r.c = e /\ r.sqes = all
  BY <1>8 DEF e, recvs, sends
<1> HIDE DEF two
<1>20. all \in Seq(Sqes)
  BY <1>17, <1>18, MembersConcat
<1> HIDE DEF all
<1>21. Updates(r.c, r.sqes)
  BY <1>1, <1>17, <1>19, <1>20, UpdateFacts
<1>22. Updates(e, Returned \o sends \o recvs)
  BY <1>19, <1>21 DEF all, two
<1> QED  BY <1>1, <1>2, <1>15, <1>16, <1>22

(* The handler of a close frees the storage.                               *)
LEMMA CloseFacts ==
  ASSUME Types, HandleClose
  PROVE  /\ Taking /\ Cqe1.tag.op = "Close" /\ UNCHANGED << flags, answers >>
         /\ Queues(<<>>) /\ fd1 \in DOMAIN table /\ fd1 \in Fds /\ c1 \in Storage
         /\ table' = [ f \in DOMAIN table \ { fd1 } |-> table[f] ]
<1>1. /\ DispatchTo("Close") /\ UNCHANGED << flags, answers, sq >>
      /\ table' = [ f \in DOMAIN table \ { fd1 } |-> table[f] ]
  BY DEF HandleClose
<1>2. Taking /\ Cqe1.tag.op = "Close" /\ fd1 \in DOMAIN table /\ fd1 \in Fds /\ c1 \in Storage
  BY <1>1, TakingToFacts
<1>3. sq \in Seq(Sqes) /\ <<>> \in Seq(Sqes)
  BY OneInSeq DEF Types, RingTypes, Sequences
<1>4. sq = sq \o <<>>
  BY <1>3
<1> QED  BY <1>1, <1>2, <1>3, <1>4 DEF Queues

(* Completions without effect.                                             *)
LEMMA NothingFacts ==
  ASSUME Types, HandleNothing
  PROVE  /\ Taking /\ Cqe1.tag.op # "Accept" /\ Queues(<<>>) /\ UNCHANGED loopVars
         /\ fd1 \in DOMAIN table => /\ Cqe1.tag.op = "Recv" /\ Cqe1.res > 0
                                    /\ ~ InPoolBuffer /\ ~ c1.rx_hold
<1>1. PICK op \in Ops \ { "Accept" } : Dispatch(op)
  BY DEF HandleNothing
<1>2. Taking /\ Cqe1.tag.op # "Accept"
  BY <1>1, TakingFacts
<1>3. sq \in Seq(Sqes) /\ <<>> \in Seq(Sqes)
  BY OneInSeq DEF Types, RingTypes, Sequences
<1>4. sq = sq \o <<>>
  BY <1>3
<1>5. /\ UNCHANGED << loopVars, sq >>
      /\ fd1 \in DOMAIN table => /\ Cqe1.tag.op = "Recv" /\ Cqe1.res > 0
                                 /\ ~ InPoolBuffer /\ ~ c1.rx_hold
  BY DEF HandleNothing
<1> QED  BY <1>2, <1>3, <1>4, <1>5 DEF Queues

-----------------------------------------------------------------------------
(* The ring.                                                               *)

(* The kernel begins with the request at the head of sq.                   *)
Begins(op) ==
  op \in Operations /\ op.sqe = Head(sq) /\ Begin(op) /\ UNCHANGED cq

(* It answers that request at once, and brings nothing.                    *)
Replies(new) ==
  /\ new \in Seq(Answers) /\ cq' = cq \o new /\ UNCHANGED ops
  /\ \A c \in Members(new) : c.res <= 0 /\ ~ c.buffer

(* An operation completes.                                                 *)
Completes(op, cqe) ==
  /\ op \in DOMAIN ops /\ op \in Operations /\ cqe \in Answers
  /\ cqe.tag = op.sqe.tag /\ Complete(op, cqe)
  /\ UNCHANGED << sq, multishot >>

(* The fields of a completion that brings nothing.                         *)
LEMMA CqeFacts ==
  ASSUME NEW tag, NEW res, NEW conn
  PROVE  /\ Cqe(tag, res, conn).tag = tag /\ Cqe(tag, res, conn).res = res
         /\ Cqe(tag, res, conn).conn = conn /\ ~ Cqe(tag, res, conn).more
         /\ ~ Cqe(tag, res, conn).buffer
BY DEF Cqe

(* It is typed; only an accept and a receive could bring something.        *)
LEMMA CqeTyped ==
  ASSUME NEW tag \in Tags, NEW res \in Int, NEW conn \in 0 .. FOREIGN,
         tag.op = "Accept" => res < 0, tag.op = "Recv" => res <= 0
  PROVE  Cqe(tag, res, conn) \in Answers
BY DEF Cqe, Answers, CqesOf

Errors == { EINVAL, EAGAIN, EBADF, EMFILE, ENOBUFS, EPIPE }

(* Errors are negative.                                                    *)
LEMMA ErrorFacts ==
  \A res \in Errors : res \in Int /\ res < 0
BY DEF Errors, EINVAL, EAGAIN, EBADF, EMFILE, ENOBUFS, EPIPE

(* Descriptor and op of the tag of a request.                              *)
LEMMA SqeTags ==
  ASSUME NEW r \in Sqes
  PROVE  /\ r.tag \in Tags
         /\ r.kind = "accept" <=> r.tag.op = "Accept"
         /\ r.kind = "recv" <=> r.tag.op = "Recv"
         /\ r.kind = "send" <=> r.tag.op = "Send"
         /\ r.kind = "poll" <=> r.tag.op = "PollOut"
         /\ r.kind = "close" <=> r.tag.op = "Close"
         /\ r.kind = "provide" <=> r.tag.op = "Buf"
         /\ r.kind \in { "recv", "send", "poll", "close" } => r.tag.fd = r.fd
<1>1. /\ r.kind \in { "accept", "recv", "send", "poll", "close", "provide" }
      /\ r.tag \in Tags
      /\ r.kind = "accept"  => r.tag = Tag(LISTEN_FD, "Accept")
      /\ r.kind = "recv"    => r.tag = Tag(r.fd, "Recv")
      /\ r.kind = "send"    => r.tag = Tag(r.fd, "Send")
      /\ r.kind = "poll"    => r.tag = Tag(r.fd, "PollOut")
      /\ r.kind = "close"   => r.tag = Tag(r.fd, "Close")
      /\ r.kind = "provide" => r.tag = Tag(0, "Buf")
  BY SqeFacts
<1> QED  BY <1>1, TagType

(* Issue, by the kind of the request.                                      *)
LEMMA IssueFacts ==
  ASSUME Types, Issue, NEW r, r = Head(sq)
  PROVE  /\ sq # <<>> /\ r \in Sqes /\ r \in Members(sq) /\ sq' = Tail(sq)
         /\ UNCHANGED << multishot, backlog, sent, got, conns >>
         /\ \/ /\ r.kind = "accept"
               /\ UNCHANGED << fdtab, pool >>
               /\ \/ r.multi /\ ~ multishot /\ Replies(<< Cqe(r.tag, EINVAL, 0) >>)
                  \/ (r.multi => multishot) /\ Begins(Op(r, 0))
            \/ /\ r.kind \in { "recv", "send", "poll" }
               /\ UNCHANGED << fdtab, pool >>
               /\ \/ /\ r.kind = "recv" /\ r.multi /\ ~ multishot
                     /\ Replies(<< Cqe(r.tag, EINVAL, fdtab[r.fd]) >>)
                  \/ Replies(<< Cqe(r.tag, EBADF, fdtab[r.fd]) >>) /\ fdtab[r.fd] = 0
                  \/ Begins(Op(r, fdtab[r.fd]))
            \/ /\ r.kind = "close"
               /\ UNCHANGED pool
               /\ fdtab' = Taken(r.fd, 0)
               /\ \E res \in { 0, EBADF } : Replies(<< Cqe(r.tag, res, r.conn) >>)
            \/ /\ r.kind = "provide"
               /\ pool' = pool + 1
               /\ UNCHANGED fdtab
               /\ Replies(<< Cqe(r.tag, 0, 0) >>)
<1>1. /\ sq # <<>> /\ sq' = Tail(sq)
      /\ UNCHANGED << multishot, backlog, sent, got, conns >>
      /\ \/ IssueAccept(r) \/ IssueOnSocket(r) \/ IssueClose(r)
         \/ IssueTask(r) \/ IssueProvide(r)
  BY DEF Issue, bounds
<1>2. r \in Sqes /\ r \in Members(sq)
  BY <1>1, MembersTail DEF Types, RingTypes, Sequences
<1>3. /\ r.tag \in Tags
      /\ r.kind # "accept" => r.tag.op # "Accept"
  BY <1>2, SqeTags
<1>4. /\ r.kind \in { "recv", "send", "poll" } => r.fd \in Fds
      /\ r.kind = "close" => r.fd \in Fds /\ r.conn \in 0 .. FOREIGN
      /\ r.kind # "task"
  BY <1>2, SqeFacts
<1>5. ASSUME NEW res \in Errors \cup {0}, NEW k \in 0 .. FOREIGN,
             r.kind = "accept" => res # 0,
             cq' = Append(cq, Cqe(r.tag, res, k)), UNCHANGED ops
      PROVE  Replies(<< Cqe(r.tag, res, k) >>)
  <2> DEFINE c == Cqe(r.tag, res, k)
  <2>1. res \in Int /\ res <= 0 /\ (res # 0 => res < 0)
    BY ErrorFacts
  <2>2. c \in Answers
    BY <1>3, <1>5, <2>1, CqeTyped
  <2>3. c.res <= 0 /\ ~ c.buffer
    BY <2>1, CqeFacts
  <2>4. cq \in Seq(Answers) /\ cq' = Append(cq, c)
    BY <1>5 DEF Types, RingTypes, Sequences
  <2> HIDE DEF c
  <2>5. << c >> \in Seq(Answers) /\ Members(<< c >>) = { c }
    BY <2>2, OneInSeq, MembersOne
  <2>6. cq' = cq \o << c >>
    BY <2>4
  <2>7. Replies(<< c >>)
    BY <1>5, <2>3, <2>5, <2>6 DEF Replies
  <2> QED  BY <2>7 DEF c
<1>6. 0 \in 0 .. FOREIGN
  BY Constants
<1>7. CASE IssueAccept(r)
  <2>1. r.kind = "accept" /\ UNCHANGED << fdtab, pool >>
    BY <1>7 DEF IssueAccept
  <2>2. CASE r.multi /\ ~ multishot
    <3>1. cq' = Append(cq, Cqe(r.tag, EINVAL, 0)) /\ UNCHANGED ops
      BY <1>7, <2>2 DEF IssueAccept
    <3>2. EINVAL \in Errors /\ EINVAL # 0
      BY DEF Errors, EINVAL
    <3>3. Replies(<< Cqe(r.tag, EINVAL, 0) >>)
      BY <1>5, <1>6, <3>1, <3>2
    <3> QED  BY <1>1, <1>2, <2>1, <2>2, <3>3
  <2>3. CASE ~ (r.multi /\ ~ multishot)
    <3>1. Begin(Op(r, 0)) /\ UNCHANGED cq
      BY <1>7, <2>3 DEF IssueAccept
    <3>2. Op(r, 0) \in Operations /\ Op(r, 0).sqe = r
      BY <1>2, <1>6, <2>1 DEF Op, Operations
    <3> QED  BY <1>1, <1>2, <2>1, <2>3, <3>1, <3>2 DEF Begins
  <2> QED  BY <2>2, <2>3
<1>8. CASE IssueOnSocket(r)
  <2> DEFINE k == fdtab[r.fd]
  <2>1. r.kind \in { "recv", "send", "poll" } /\ UNCHANGED << fdtab, pool >>
    BY <1>8 DEF IssueOnSocket
  <2>2. k \in 0 .. FOREIGN
    BY <1>4, <2>1 DEF Types, RingTypes
  <2>3. EINVAL \in Errors /\ EBADF \in Errors /\ r.kind # "accept"
    BY <2>1 DEF Errors
  <2>5. CASE r.kind = "recv" /\ r.multi /\ ~ multishot
    <3>1. cq' = Append(cq, Cqe(r.tag, EINVAL, k)) /\ UNCHANGED ops
      BY <1>8, <2>5 DEF IssueOnSocket
    <3>2. Replies(<< Cqe(r.tag, EINVAL, k) >>)
      BY <1>5, <2>2, <2>3, <3>1
    <3> QED  BY <1>1, <1>2, <2>1, <2>5, <3>2
  <2>6. CASE ~ (r.kind = "recv" /\ r.multi /\ ~ multishot) /\ k = 0
    <3>1. cq' = Append(cq, Cqe(r.tag, EBADF, k)) /\ UNCHANGED ops
      BY <1>8, <2>6 DEF IssueOnSocket
    <3>2. Replies(<< Cqe(r.tag, EBADF, k) >>)
      BY <1>5, <2>2, <2>3, <3>1
    <3> QED  BY <1>1, <1>2, <2>1, <2>6, <3>2
  <2>7. CASE ~ (r.kind = "recv" /\ r.multi /\ ~ multishot) /\ k # 0
    <3>1. Begin(Op(r, k)) /\ UNCHANGED cq
      BY <1>8, <2>7 DEF IssueOnSocket
    <3>2. k \in Conns
      BY <2>2, <2>7, Constants
    <3>3. Op(r, k) \in Operations /\ Op(r, k).sqe = r
      BY <1>2, <2>1, <2>2, <3>2 DEF Op, Operations
    <3> QED  BY <1>1, <1>2, <2>1, <2>7, <3>1, <3>3 DEF Begins
  <2> QED  BY <2>5, <2>6, <2>7
<1>9. CASE IssueClose(r)
  <2> DEFINE res == IF fdtab[r.fd] = 0 THEN EBADF ELSE 0
  <2>1. /\ r.kind = "close" /\ UNCHANGED << ops, pool >>
        /\ fdtab' = Taken(r.fd, 0)
        /\ cq' = Append(cq, Cqe(r.tag, res, r.conn))
    BY <1>9 DEF IssueClose
  <2>2. res \in Errors \cup {0} /\ res \in { 0, EBADF }
    BY DEF Errors
  <2> HIDE DEF res
  <2>3. Replies(<< Cqe(r.tag, res, r.conn) >>)
    BY <1>4, <1>5, <2>1, <2>2
  <2> QED  BY <1>1, <1>2, <2>1, <2>2, <2>3
<1>10. ~ IssueTask(r)
  BY <1>4 DEF IssueTask
<1>11. CASE IssueProvide(r)
  <2>1. /\ r.kind = "provide" /\ pool' = pool + 1 /\ UNCHANGED << ops, fdtab >>
        /\ cq' = Append(cq, Cqe(r.tag, 0, 0))
    BY <1>11 DEF IssueProvide
  <2> DEFINE z == 0
  <2>2. z \in Errors \cup {0} /\ z \in 0 .. FOREIGN /\ r.kind # "accept"
    BY <1>6, <2>1
  <2>3. cq' = Append(cq, Cqe(r.tag, z, z)) /\ UNCHANGED ops
    BY <2>1
  <2> HIDE DEF z
  <2>4. Replies(<< Cqe(r.tag, z, z) >>)
    BY <1>5, <2>2, <2>3
  <2>5. Replies(<< Cqe(r.tag, 0, 0) >>)
    BY <2>4 DEF z
  <2> QED  BY <1>1, <1>2, <2>1, <2>5
<1> QED  BY <1>1, <1>7, <1>8, <1>9, <1>10, <1>11

(* An outstanding operation, and what its tag says.                        *)
LEMMA OutstandingFacts ==
  ASSUME Types, NEW kind, NEW op \in Outstanding(kind)
  PROVE  /\ op \in DOMAIN ops /\ op \in Operations /\ op.sqe \in Sqes /\ op.sqe.kind = kind
         /\ op.sqe.tag \in Tags /\ op.conn \in 0 .. FOREIGN
         /\ kind # "accept" => op.conn \in Conns
         /\ kind = "accept" => op.sqe.tag.op = "Accept" /\ op.sqe.multi \in BOOLEAN
         /\ kind = "recv" => op.sqe.tag.op = "Recv" /\ op.sqe.multi \in BOOLEAN
         /\ kind = "send" => op.sqe.tag.op = "Send" /\ op.sqe.bufs \in Seq(Bufs)
         /\ kind = "poll" => op.sqe.tag.op = "PollOut"
<1>1. op \in DOMAIN ops /\ op.sqe.kind = kind
  BY DEF Outstanding, BagToSet
<1>2. op \in Operations
  BY <1>1 DEF Types, RingTypes
<1>3. op.sqe \in Sqes /\ op.conn \in 0 .. FOREIGN /\ (kind # "accept" => op.conn \in Conns)
  BY <1>1, <1>2 DEF Operations
<1>4. /\ kind \in { "accept", "recv" } => op.sqe.multi \in BOOLEAN
      /\ kind = "send" => op.sqe.bufs \in Seq(Bufs)
  BY <1>1, <1>3, SqeFacts
<1> QED  BY <1>1, <1>2, <1>3, <1>4, SqeTags

(* The bytes a peer sends next are the next of its stream.                 *)
LEMMA PartFacts ==
  ASSUME Types, NEW k \in Conns, NEW n \in Part(k)
  PROVE  k \in 1 .. MAX_CONNS /\ n \in Nat \ {0} /\ sent[k] + n <= Len(Bytes(stream[k]))
<1> DEFINE tells == Told(k)
           upto == IF polite /\ Len(tells) < Len(stream[k])
                   THEN Len(tells) + 1
                   ELSE Len(stream[k])
           R == stream[k]
           from == sent[k]
<1>1. /\ k # FOREIGN
      /\ n \in 1 .. EndOf(R, upto) - from
  BY DEF Part
<1>2. k \in 1 .. MAX_CONNS
  BY <1>1, Constants
<1>3. R \in Seq(Requests) /\ from \in Nat /\ got[k] \in Seq(Bufs)
  BY <1>2 DEF Types, LoopTypes, RingTypes
<1>4. Len(tells) \in Nat
  <2> DEFINE g == Len(got[k])
             h == g \div 2
  <2>1. g \in Nat
    BY <1>3
  <2>2. tells = [ i \in 1 .. h |-> got[k][2 * i - 1].seg = "keep" ]
    BY DEF Told
  <2> HIDE DEF g, tells
  <2>3. h \in Nat
    BY <2>1
  <2> HIDE DEF h
  <2>4. Len(tells) = h
    BY <2>2, <2>3
  <2> QED  BY <2>3, <2>4
<1>5. upto \in 0 .. Len(R)
  <2>1. Len(R) \in Nat
    BY <1>3
  <2> HIDE DEF tells
  <2> QED  BY <1>4, <2>1
<1> HIDE DEF upto, R
<1>6. /\ EndOf(R, upto) \in Nat /\ EndOf(R, upto) <= Len(Bytes(R))
      /\ Len(Bytes(R)) \in Nat
  BY <1>3, <1>5, WiresPrefix, WiresFacts, EndOfFacts
<1> HIDE DEF from
<1>7. n \in Nat \ {0} /\ from + n <= Len(Bytes(R))
  BY <1>1, <1>3, <1>6
<1> QED  BY <1>2, <1>7 DEF R, from

(* What an accept brings that the kernel completes,                        *)
LEMMA AcceptDone ==
  ASSUME Types, KernelAccept
  PROVE  /\ UNCHANGED << pool, sent, got, conns >>
         /\ \E op, cqe :
              /\ Completes(op, cqe) /\ op.sqe.kind = "accept" /\ ~ cqe.buffer
              /\ \/ /\ Free # {} /\ cqe.res = LowestFree /\ LowestFree \in Free
                    /\ backlog # <<>> /\ cqe.conn = Head(backlog)
                    /\ Head(backlog) \in 1 .. MAX_CONNS
                    /\ cqe.more => op.sqe.multi
                    /\ fdtab' = Taken(LowestFree, Head(backlog))
                    /\ backlog' = Tail(backlog)
                 \/ /\ cqe.res = EMFILE /\ ~ cqe.more
                    /\ UNCHANGED << fdtab, backlog >>
<1>1. PICK op \in Outstanding("accept") :
        \/ /\ Free # {}
           /\ \E more \in { op.sqe.multi, FALSE } :
                Complete(op, [ Cqe(op.sqe.tag, LowestFree, Head(backlog))
                                 EXCEPT !.more = more ])
           /\ fdtab' = Taken(LowestFree, Head(backlog))
           /\ backlog' = Tail(backlog)
        \/ /\ Free = {}
           /\ Complete(op, Cqe(op.sqe.tag, EMFILE, 0))
           /\ UNCHANGED << fdtab, backlog >>
  BY DEF KernelAccept
<1>2. /\ backlog # <<>>
      /\ UNCHANGED << sq, multishot, pool, sent, got, conns >>
  BY DEF KernelAccept, historyVars, bounds
<1>3. /\ op \in DOMAIN ops /\ op \in Operations /\ op.sqe.kind = "accept"
      /\ op.sqe.tag \in Tags /\ op.sqe.tag.op = "Accept" /\ op.sqe.multi \in BOOLEAN
  BY OutstandingFacts
<1>4. Head(backlog) \in 1 .. MAX_CONNS /\ Head(backlog) \in Conns
  <2>1. backlog \in Seq(1 .. MAX_CONNS)
    BY DEF Types, RingTypes
  <2>2. Head(backlog) \in 1 .. MAX_CONNS
    BY <1>2, <2>1, MembersTail
  <2> QED  BY <2>2, Constants
<1>5. CASE Free # {}
  <2> DEFINE conn == Head(backlog)
             fd == LowestFree
  <2>1. PICK more \in { op.sqe.multi, FALSE } :
          Complete(op, [ Cqe(op.sqe.tag, fd, conn) EXCEPT !.more = more ])
    BY <1>1, <1>5
  <2> DEFINE cqe == [ Cqe(op.sqe.tag, fd, conn) EXCEPT !.more = more ]
  <2>2. fd \in Free /\ fd \in Fds /\ fd \in Nat \ {0}
    BY <1>5, LowestIsFree, Constants DEF Free
  <2>3. more \in BOOLEAN /\ (more => op.sqe.multi)
    BY <1>3
  <2> HIDE DEF fd, conn
  <2>4. conn \in 0 .. FOREIGN /\ conn \in Conns /\ conn \in 1 .. MAX_CONNS
    BY <1>4, Constants DEF conn
  <2>5. /\ cqe.tag = op.sqe.tag /\ cqe.res = fd /\ cqe.conn = conn /\ cqe.more = more
        /\ cqe.buffer = FALSE /\ cqe \in CqesOf(Tags)
    <3>1. fd \in Int
      BY <2>2
    <3>2. cqe \in CqesOf(Tags)
      BY <1>3, <2>3, <2>4, <3>1 DEF Cqe, CqesOf
    <3>3. /\ cqe.tag = op.sqe.tag /\ cqe.res = fd /\ cqe.conn = conn /\ cqe.more = more
          /\ cqe.buffer = FALSE
      BY DEF Cqe
    <3> QED  BY <3>2, <3>3
  <2> HIDE DEF cqe
  <2>6. Complete(op, cqe)
    BY <2>1 DEF cqe
  <2>7. cqe \in Answers
    BY <1>3, <2>2, <2>4, <2>5 DEF Answers
  <2>8. Completes(op, cqe)
    BY <1>2, <1>3, <2>5, <2>6, <2>7 DEF Completes
  <2> QED  BY <1>1, <1>2, <1>3, <1>4, <1>5, <2>2, <2>3, <2>5, <2>8 DEF fd, conn
<1>6. CASE Free = {}
  <2> DEFINE cqe == Cqe(op.sqe.tag, EMFILE, 0)
  <2>1. cqe \in Answers
    <3>1. EMFILE \in Int /\ EMFILE < 0
      BY ErrorFacts DEF Errors
    <3> QED  BY <1>3, <3>1, Constants, CqeTyped
  <2>2. cqe.tag = op.sqe.tag /\ cqe.res = EMFILE /\ ~ cqe.more /\ ~ cqe.buffer
    BY CqeFacts
  <2>3. Complete(op, cqe)
    BY <1>1, <1>6
  <2> HIDE DEF cqe
  <2>4. UNCHANGED << sq, multishot >> /\ cqe.tag = op.sqe.tag
    BY <1>2, <2>2
  <2>5. op \in DOMAIN ops /\ op \in Operations
    BY <1>3
  <2>6. Completes(op, cqe)
    BY <2>1, <2>3, <2>4, <2>5, Zenon DEF Completes
  <2> QED  BY <1>1, <1>2, <1>3, <1>6, <2>2, <2>6
<1> QED  BY <1>5, <1>6

(* a receive: the end of the stream, no buffer left, or bytes,             *)
LEMMA RecvDone ==
  ASSUME Types, KernelRecv(Part)
  PROVE  /\ UNCHANGED << fdtab, backlog, got, conns >>
         /\ \E op, cqe :
              /\ Completes(op, cqe) /\ op.sqe.kind = "recv" /\ op.conn \in Conns
              /\ cqe.tag.op = "Recv" /\ cqe.conn = op.conn
              /\ \/ /\ cqe.res = 0 /\ ~ cqe.more /\ ~ cqe.buffer /\ UNCHANGED << pool, sent >>
                 \/ /\ cqe.res = ENOBUFS /\ op.sqe.multi /\ ~ cqe.more /\ ~ cqe.buffer
                    /\ UNCHANGED << pool, sent >>
                 \/ /\ cqe.res \in Part(op.conn) /\ cqe.at = sent[op.conn]
                    /\ sent' = [ sent EXCEPT ![op.conn] = @ + cqe.res ]
                    /\ (cqe.buffer <=> op.sqe.multi)
                    /\ cqe.more => op.sqe.multi
                    /\ op.sqe.multi => pool > 0 /\ pool' = pool - 1
                    /\ ~ op.sqe.multi => pool' = pool
<1>1. PICK op \in Outstanding("recv") :
        LET k == op.conn
            cqe == Cqe(op.sqe.tag, 0, k)
        IN  \/ /\ k \in ended
               /\ Complete(op, cqe)
               /\ UNCHANGED << pool, sent >>
            \/ /\ k \notin ended
               /\ op.sqe.multi /\ pool = 0
               /\ Complete(op, [ cqe EXCEPT !.res = ENOBUFS ])
               /\ UNCHANGED << pool, sent >>
            \/ /\ k \notin ended
               /\ op.sqe.multi => pool > 0
               /\ \E n \in Part(k), more \in { op.sqe.multi, FALSE } :
                    /\ Complete(op, [ cqe EXCEPT !.res = n, !.at = sent[k],
                                                 !.more = more,
                                                 !.buffer = op.sqe.multi ])
                    /\ sent' = [ sent EXCEPT ![k] = @ + n ]
               /\ pool' = IF op.sqe.multi THEN pool - 1 ELSE pool
  BY Zenon DEF KernelRecv
<1>u. UNCHANGED << sq, multishot, fdtab, backlog, ended, historyVars, bounds >>
  BY Zenon DEF KernelRecv
<1>2. UNCHANGED << sq, multishot, fdtab, backlog, got, conns >>
  BY <1>u DEF historyVars, bounds
<1>3. /\ op \in DOMAIN ops /\ op \in Operations /\ op.sqe.kind = "recv"
      /\ op.sqe.tag \in Tags /\ op.sqe.tag.op = "Recv" /\ op.sqe.multi \in BOOLEAN
      /\ op.conn \in Conns /\ op.conn \in 0 .. FOREIGN
  BY OutstandingFacts
<1> DEFINE tag == op.sqe.tag
           k == op.conn
           multi == op.sqe.multi
           gone  == Complete(op, Cqe(tag, 0, k)) /\ UNCHANGED << pool, sent >>
           dry   == /\ multi
                    /\ Complete(op, [ Cqe(tag, 0, k) EXCEPT !.res = ENOBUFS ])
                    /\ UNCHANGED << pool, sent >>
           reads == /\ multi => pool > 0
                    /\ \E n \in Part(k), more \in { multi, FALSE } :
                         /\ Complete(op, [ Cqe(tag, 0, k)
                                             EXCEPT !.res = n, !.at = sent[k],
                                                    !.more = more, !.buffer = multi ])
                         /\ sent' = [ sent EXCEPT ![k] = @ + n ]
                    /\ pool' = IF multi THEN pool - 1 ELSE pool
<1>4. /\ tag \in Tags /\ tag.op = "Recv" /\ k \in Conns /\ k \in 0 .. FOREIGN
      /\ multi \in BOOLEAN
  BY <1>3
<1>r. gone \/ dry \/ reads
  BY <1>1, Zenon
<1>5. CASE gone
  <2> DEFINE cqe == Cqe(tag, 0, k)
             z == 0
  <2>z. z \in Int /\ z <= 0
    OBVIOUS
  <2> HIDE DEF z
  <2>a. Cqe(tag, z, k) \in Answers
    <3> HIDE DEF tag, k
    <3> QED  BY <1>4, <2>z, CqeTyped
  <2>1. cqe \in Answers
    BY <2>a DEF z
  <2>2. cqe.tag = tag /\ cqe.res = 0 /\ cqe.conn = k /\ ~ cqe.more /\ ~ cqe.buffer
    BY CqeFacts
  <2>3. Complete(op, cqe)
    BY <1>5
  <2> HIDE DEF cqe
  <2>4. Completes(op, cqe)
    BY <1>2, <1>3, <2>1, <2>2, <2>3 DEF Completes
  <2> QED  BY <1>2, <1>3, <1>5, <2>2, <2>4
<1>6. CASE dry
  <2> DEFINE cqe == [ Cqe(tag, 0, k) EXCEPT !.res = ENOBUFS ]
  <2>2. Complete(op, cqe)
    BY <1>6
  <2>r. ENOBUFS \in Int /\ ENOBUFS < 0
    BY ErrorFacts DEF Errors
  <2>4. /\ cqe.tag = tag /\ cqe.res = ENOBUFS /\ cqe.conn = k /\ ~ cqe.more /\ ~ cqe.buffer
        /\ cqe \in CqesOf(Tags)
    <3>1. cqe \in CqesOf(Tags)
      BY <1>4, <2>r DEF Cqe, CqesOf
    <3>2. /\ cqe.tag = tag /\ cqe.res = ENOBUFS /\ cqe.conn = k
          /\ cqe.more = FALSE /\ cqe.buffer = FALSE
      BY DEF Cqe
    <3> HIDE DEF cqe
    <3> QED  BY <3>1, <3>2
  <2> HIDE DEF cqe
  <2>3. cqe \in Answers
    BY <1>4, <2>4, <2>r DEF Answers
  <2>5. Completes(op, cqe)
    BY <1>2, <1>3, <2>2, <2>3, <2>4 DEF Completes
  <2> QED  BY <1>2, <1>3, <1>6, <2>4, <2>5
<1>7. CASE reads
  <2>1. PICK n \in Part(k), more \in { multi, FALSE } :
          /\ Complete(op, [ Cqe(tag, 0, k) EXCEPT !.res = n, !.at = sent[k],
                                                  !.more = more, !.buffer = multi ])
          /\ sent' = [ sent EXCEPT ![k] = @ + n ]
    BY <1>7, Zenon
  <2>2. n \in Nat \ {0} /\ k \in 1 .. MAX_CONNS
    <3> HIDE DEF k
    <3> QED  BY <1>4, PartFacts
  <2>3. more \in BOOLEAN /\ (more => multi) /\ sent[k] \in Nat
    BY <1>4 DEF Types, RingTypes
  <2> DEFINE cqe == [ Cqe(tag, 0, k) EXCEPT !.res = n, !.at = sent[k],
                                            !.more = more, !.buffer = multi ]
  <2>4. Complete(op, cqe)
    BY <2>1
  <2> DEFINE at == sent[k]
  <2>5. /\ cqe.tag = tag /\ cqe.res = n /\ cqe.conn = k /\ cqe.more = more /\ cqe.at = at
        /\ cqe.buffer = multi /\ cqe \in CqesOf(Tags)
    <3> HIDE DEF tag, k, multi, at
    <3>1. n \in Int /\ at \in Nat
      BY <2>2, <2>3 DEF at
    <3>2. cqe \in CqesOf(Tags)
      BY <1>4, <2>3, <3>1 DEF Cqe, CqesOf
    <3>3. /\ cqe.tag = tag /\ cqe.res = n /\ cqe.conn = k /\ cqe.more = more
          /\ cqe.buffer = multi
      BY DEF Cqe
    <3>4. cqe.at = sent[k]
      BY DEF Cqe
    <3> HIDE DEF cqe
    <3> QED  BY <3>2, <3>3, <3>4 DEF at
  <2> HIDE DEF cqe
  <2>6. cqe \in Answers
    BY <1>4, <2>2, <2>5 DEF Answers
  <2>7. Completes(op, cqe)
    BY <1>2, <1>3, <2>4, <2>5, <2>6 DEF Completes
  <2>9. /\ multi => pool > 0 /\ pool' = pool - 1
        /\ ~ multi => pool' = pool
    BY <1>4, <1>7
  <2>10. cqe.res \in Part(op.conn) /\ sent' = [ sent EXCEPT ![op.conn] = @ + cqe.res ]
    <3>1. cqe.res = n
      BY <2>5
    <3> QED  BY <2>1, <3>1, Zenon
  <2> HIDE DEF gone, dry, reads
  <2> QED  BY <1>2, <1>3, <2>3, <2>5, <2>7, <2>9, <2>10
<1> HIDE DEF gone, dry, reads
<1> QED  BY <1>r, <1>5, <1>6, <1>7, Zenon

(* a sendmsg: its buffers, or the first of them, or an error,              *)
LEMMA SendDone ==
  ASSUME Types, KernelSend
  PROVE  /\ UNCHANGED << fdtab, pool, backlog, sent, conns >>
         /\ got' \in [ Conns -> Seq(Bufs) ]
         /\ \E op, cqe : /\ Completes(op, cqe) /\ op.sqe.kind = "send"
                         /\ ~ cqe.more /\ ~ cqe.buffer
<1>1. PICK op \in Outstanding("send") :
        LET cqe == Cqe(op.sqe.tag, 1, op.conn)
        IN  \/ /\ Complete(op, cqe)
               /\ \E n \in 0 .. Len(op.sqe.bufs) :
                    got' = [ got EXCEPT ![op.conn] = @ \o SubSeq(op.sqe.bufs, 1, n) ]
            \/ Complete(op, [ cqe EXCEPT !.res = EAGAIN ]) /\ UNCHANGED got
            \/ Complete(op, [ cqe EXCEPT !.res = EPIPE ]) /\ UNCHANGED got
  BY DEF KernelSend
<1>2. UNCHANGED << sq, multishot, fdtab, pool, backlog, sent, conns >>
  BY DEF KernelSend, kernelVars
<1>3. /\ op \in DOMAIN ops /\ op \in Operations /\ op.sqe.kind = "send"
      /\ op.sqe.tag \in Tags /\ op.sqe.tag.op = "Send" /\ op.conn \in 0 .. FOREIGN
      /\ op.conn \in Conns /\ op.sqe.bufs \in Seq(Bufs)
  BY OutstandingFacts
<1>g. got' \in [ Conns -> Seq(Bufs) ]
  <2>1. got \in [ Conns -> Seq(Bufs) ]
    BY DEF Types, RingTypes
  <2>2. CASE \E n \in 0 .. Len(op.sqe.bufs) :
               got' = [ got EXCEPT ![op.conn] = @ \o SubSeq(op.sqe.bufs, 1, n) ]
    <3>1. PICK n \in 0 .. Len(op.sqe.bufs) :
            got' = [ got EXCEPT ![op.conn] = @ \o SubSeq(op.sqe.bufs, 1, n) ]
      BY <2>2
    <3> DEFINE taken == SubSeq(op.sqe.bufs, 1, n)
    <3>2. taken \in Seq(Bufs)
      BY <1>3
    <3>3. got' = [ got EXCEPT ![op.conn] = @ \o taken ]
      BY <3>1
    <3> HIDE DEF taken
    <3>4. got[op.conn] \o taken \in Seq(Bufs)
      BY <1>3, <2>1, <3>2
    <3> QED  BY <1>3, <2>1, <3>3, <3>4
  <2>3. CASE UNCHANGED got
    BY <2>1, <2>3
  <2> QED  BY <1>1, <2>2, <2>3
<1> DEFINE tag == op.sqe.tag
           k == op.conn
<1>4. PICK cqe : /\ Complete(op, cqe)
                 /\ \/ cqe = Cqe(tag, 1, k)
                    \/ \E res \in Errors : cqe = [ Cqe(tag, 1, k) EXCEPT !.res = res ]
  <2>1. EAGAIN \in Errors /\ EPIPE \in Errors
    BY DEF Errors
  <2> QED  BY <1>1, <2>1
<1> HIDE DEF tag, k
<1>t. tag \in Tags /\ tag.op = "Send" /\ k \in 0 .. FOREIGN /\ tag = op.sqe.tag
  BY <1>3 DEF tag, k
<1>5. CASE cqe = Cqe(tag, 1, k)
  <2> DEFINE one == 1
  <2>o. one \in Int
    OBVIOUS
  <2>p. cqe = Cqe(tag, one, k)
    BY <1>5
  <2> HIDE DEF one
  <2>1. cqe \in Answers
    BY <1>t, <2>o, <2>p, CqeTyped
  <2>2. cqe.tag = tag /\ ~ cqe.more /\ ~ cqe.buffer
    BY <2>p, CqeFacts
  <2>3. Completes(op, cqe)
    BY <1>2, <1>3, <1>4, <1>t, <2>1, <2>2 DEF Completes
  <2> QED  BY <1>2, <1>3, <1>g, <2>2, <2>3
<1>6. CASE \E res \in Errors : cqe = [ Cqe(tag, 1, k) EXCEPT !.res = res ]
  <2>1. PICK res \in Errors : cqe = [ Cqe(tag, 1, k) EXCEPT !.res = res ]
    BY <1>6
  <2>2. res \in Int /\ res < 0
    BY ErrorFacts
  <2>3. /\ cqe \in CqesOf(Tags) /\ cqe.tag = tag /\ cqe.res = res
        /\ ~ cqe.more /\ ~ cqe.buffer
    <3>1. cqe \in CqesOf(Tags)
      BY <1>t, <2>1, <2>2 DEF Cqe, CqesOf
    <3>2. cqe.tag = tag /\ cqe.res = res /\ cqe.more = FALSE /\ cqe.buffer = FALSE
      BY <2>1 DEF Cqe
    <3> QED  BY <3>1, <3>2
  <2>4. cqe \in Answers
    BY <1>t, <2>2, <2>3 DEF Answers
  <2>5. Completes(op, cqe)
    BY <1>2, <1>3, <1>4, <1>t, <2>3, <2>4 DEF Completes
  <2> QED  BY <1>2, <1>3, <1>g, <2>3, <2>5
<1> QED  BY <1>4, <1>5, <1>6

(* and a poll.                                                             *)
LEMMA PollDone ==
  ASSUME Types, KernelPoll
  PROVE  /\ UNCHANGED << fdtab, pool, backlog, sent, got, conns >>
         /\ \E op, cqe : /\ Completes(op, cqe) /\ op.sqe.kind = "poll"
                         /\ ~ cqe.more /\ ~ cqe.buffer
<1>1. PICK op \in Outstanding("poll") : Complete(op, Cqe(op.sqe.tag, 1, op.conn))
  BY DEF KernelPoll
<1>2. UNCHANGED << sq, multishot, fdtab, pool, backlog, sent, got, conns >>
  BY DEF KernelPoll, kernelVars, historyVars, bounds
<1>3. /\ op \in DOMAIN ops /\ op \in Operations /\ op.sqe.kind = "poll"
      /\ op.sqe.tag \in Tags /\ op.sqe.tag.op = "PollOut" /\ op.conn \in 0 .. FOREIGN
  BY OutstandingFacts
<1> DEFINE cqe == Cqe(op.sqe.tag, 1, op.conn)
<1>4. cqe \in Answers
  <2> DEFINE tag == op.sqe.tag
             res == 1
  <2>1. tag \in Tags /\ tag.op = "PollOut" /\ res \in Int
    BY <1>3
  <2> HIDE DEF tag, res
  <2>2. Cqe(tag, res, op.conn) \in Answers
    BY <1>3, <2>1, CqeTyped
  <2> QED  BY <2>2 DEF tag, res
<1>5. cqe.tag = op.sqe.tag /\ ~ cqe.more /\ ~ cqe.buffer
  BY CqeFacts
<1>6. Complete(op, cqe)
  BY <1>1
<1> HIDE DEF cqe
<1>7. Completes(op, cqe)
  BY <1>2, <1>3, <1>4, <1>5, <1>6 DEF Completes
<1> QED  BY <1>2, <1>3, <1>5, <1>7

-----------------------------------------------------------------------------
(* The types are kept.                                                     *)

(* The queues and operations of the ring,                                  *)
QueueTypes ==
  /\ Sequences(Sqes, Answers) /\ DOMAIN ops \subseteq Operations
  /\ \A c \in Members(cq) : Sent(c)

(* and what else the kernel keeps.                                         *)
KernelTypes ==
  /\ multishot \in BOOLEAN
  /\ fdtab \in [ Fds -> 0 .. FOREIGN ]
  /\ pool \in Nat
  /\ sent \in [ Conns -> Nat ]
  /\ got \in [ Conns -> Seq(Bufs) ]
  /\ backlog \in Seq(1 .. MAX_CONNS)
  /\ conns \in 0 .. MAX_CONNS

(* Types, in parts.                                                        *)
LEMMA TypesParts ==
  Types <=> LoopTypes /\ QueueTypes /\ KernelTypes
BY DEF Types, RingTypes, QueueTypes, KernelTypes

(* The queues stay typed while the kernel begins with a request,           *)
LEMMA BeginsTyped ==
  ASSUME Types, sq # <<>>, sq' = Tail(sq), NEW op, Begins(op), UNCHANGED stream
  PROVE  QueueTypes'
<1>1. Sequences(Sqes, Answers) /\ DOMAIN ops \subseteq Operations
      /\ \A c \in Members(cq) : Sent(c)
  BY DEF Types, RingTypes
<1>2. /\ op \in Operations /\ op.sqe = Head(sq) /\ Begin(op) /\ UNCHANGED cq
  BY DEF Begins
<1>3. Sequences(Sqes, Answers)' /\ DOMAIN ops' = DOMAIN ops \cup { op }
  BY <1>1, <1>2, BeginPending
<1>4. \A c \in Members(cq') : Sent(c)'
  BY <1>1, <1>2 DEF Sent
<1> QED  BY <1>1, <1>2, <1>3, <1>4 DEF QueueTypes

(* answers one,                                                            *)
LEMMA RepliesTyped ==
  ASSUME Types, sq # <<>>, sq' = Tail(sq), NEW new, Replies(new), UNCHANGED stream
  PROVE  QueueTypes'
<1>1. Sequences(Sqes, Answers) /\ DOMAIN ops \subseteq Operations
      /\ \A c \in Members(cq) : Sent(c)
  BY DEF Types, RingTypes
<1>2. /\ new \in Seq(Answers) /\ cq' = cq \o new /\ UNCHANGED ops
      /\ \A c \in Members(new) : c.res <= 0
  BY DEF Replies
<1>3. Sequences(Sqes, Answers)'
  BY <1>1, <1>2, AnswerPending
<1>4. \A c \in Members(cq') : Sent(c)'
  <2>1. Members(cq') = Members(cq) \cup Members(new)
    BY <1>1, <1>2, MembersConcat DEF Sequences
  <2>2. \A c \in Members(new) : c \in Answers
    BY <1>2, MembersType
  <2>3. \A c \in Members(new) : ~ c.res > 0
    <3> SUFFICES ASSUME NEW c \in Members(new) PROVE ~ c.res > 0
      OBVIOUS
    <3>1. c.res \in Int /\ c.res <= 0
      BY <1>2, <2>2, AnswerFacts
    <3> QED  BY <3>1
  <2> QED  BY <1>1, <2>1, <2>3 DEF Sent
<1> QED  BY <1>1, <1>2, <1>3, <1>4 DEF QueueTypes

(* or completes an operation,                                              *)
LEMMA CompletesTyped ==
  ASSUME Types, NEW op, NEW cqe, Completes(op, cqe), Sent(cqe), UNCHANGED stream
  PROVE  QueueTypes' /\ UNCHANGED multishot
<1>1. Sequences(Sqes, Answers) /\ DOMAIN ops \subseteq Operations
      /\ \A c \in Members(cq) : Sent(c)
  BY DEF Types, RingTypes
<1>2. /\ op \in DOMAIN ops /\ cqe \in Answers /\ Complete(op, cqe)
      /\ UNCHANGED << sq, multishot >>
  BY DEF Completes
<1>3. Sequences(Sqes, Answers)' /\ DOMAIN ops' \subseteq DOMAIN ops
  BY <1>1, <1>2, CompletePending
<1>4. \A c \in Members(cq') : Sent(c)'
  <2>1. cq \in Seq(Answers) /\ cq' = Append(cq, cqe)
    BY <1>1, <1>2 DEF Complete, Sequences
  <2>2. Members(cq') = Members(cq) \cup { cqe }
    BY <1>2, <2>1, MembersAppend
  <2> QED  BY <1>1, <2>2 DEF Sent
<1> QED  BY <1>1, <1>2, <1>3, <1>4 DEF QueueTypes

(* and while a handler takes a completion.                                 *)
LEMMA TakingTyped ==
  ASSUME Types, Taking, NEW new, Queues(new)
  PROVE  QueueTypes' /\ KernelTypes' /\ UNCHANGED stream
<1>1. Sequences(Sqes, Answers) /\ DOMAIN ops \subseteq Operations
      /\ \A c \in Members(cq) : Sent(c)
  BY DEF Types, RingTypes
<1>2. /\ cq # <<>> /\ cq' = Tail(cq) /\ UNCHANGED ops
      /\ new \in Seq(Sqes) /\ sq' = sq \o new
      /\ UNCHANGED << multishot, fdtab, pool, sent, got, backlog, conns, stream >>
  BY DEF Taking, Queues, kernelVars, historyVars, bounds, peerVars
<1>3. Sequences(Sqes, Answers)'
  BY <1>1, <1>2, HandlePending
<1>4. \A c \in Members(cq') : Sent(c)'
  <2>1. Members(cq') \subseteq Members(cq)
    BY <1>1, <1>2, MembersTail DEF Sequences
  <2> QED  BY <1>1, <1>2, <2>1 DEF Sent
<1>5. KernelTypes'
  BY <1>2 DEF KernelTypes, Types, RingTypes
<1> QED  BY <1>1, <1>2, <1>3, <1>4, <1>5 DEF QueueTypes

(* A descriptor taken or freed leaves the table of descriptors typed.      *)
LEMMA TakenTyped ==
  ASSUME Types, NEW f \in Fds, NEW k \in 0 .. FOREIGN
  PROVE  Taken(f, k) \in [ Fds -> 0 .. FOREIGN ]
BY DEF Types, RingTypes, Taken

(* Issuing a request keeps the types of ring and kernel,                   *)
LEMMA IssueTypes ==
  ASSUME Types, Issue, UNCHANGED stream
  PROVE  QueueTypes' /\ KernelTypes'
<1> DEFINE r == Head(sq)
<1>0. r = Head(sq)
  OBVIOUS
<1> HIDE DEF r
<1> USE <1>0
<1>1. /\ sq # <<>> /\ r \in Sqes /\ sq' = Tail(sq)
      /\ UNCHANGED << multishot, backlog, sent, got, conns >>
  BY IssueFacts
<1>2. KernelTypes
  BY TypesParts
<1>3. CASE /\ UNCHANGED << fdtab, pool >>
           /\ (\E new : Replies(new)) \/ (\E op : Begins(op))
  <2>1. KernelTypes'
    BY <1>1, <1>2, <1>3 DEF KernelTypes
  <2>2. QueueTypes'
    BY <1>1, <1>3, BeginsTyped, RepliesTyped
  <2> QED  BY <2>1, <2>2
<1>4. CASE /\ UNCHANGED pool
           /\ r.fd \in Fds /\ fdtab' = Taken(r.fd, 0)
           /\ \E new : Replies(new)
  <2>1. fdtab' \in [ Fds -> 0 .. FOREIGN ]
    BY <1>4, TakenTyped, Constants
  <2>2. KernelTypes'
    BY <1>1, <1>2, <1>4, <2>1 DEF KernelTypes
  <2>3. QueueTypes'
    BY <1>1, <1>4, RepliesTyped
  <2> QED  BY <2>2, <2>3
<1>5. CASE pool' = pool + 1 /\ UNCHANGED fdtab /\ \E new : Replies(new)
  <2>1. KernelTypes'
    BY <1>1, <1>2, <1>5 DEF KernelTypes
  <2>2. QueueTypes'
    BY <1>1, <1>5, RepliesTyped
  <2> QED  BY <2>1, <2>2
<1>6. r.kind = "close" => r.fd \in Fds
  BY <1>1, SqeFacts
<1> QED  BY <1>3, <1>4, <1>5, <1>6, IssueFacts

(* completing an operation does,                                           *)
LEMMA KernelKeepsTypes ==
  ASSUME Types, KernelAccept \/ KernelRecv(Part) \/ KernelSend \/ KernelPoll,
         UNCHANGED stream
  PROVE  QueueTypes' /\ KernelTypes'
<1>1. KernelTypes
  BY TypesParts
<1>2. ASSUME NEW op, NEW cqe, Completes(op, cqe),
             op.sqe.kind \in { "accept", "send", "poll" }
      PROVE  QueueTypes' /\ UNCHANGED multishot
  <2>1. op.sqe \in Sqes /\ cqe.tag = op.sqe.tag
    BY <1>2 DEF Completes, Operations
  <2>2. cqe.tag.op # "Recv"
    BY <1>2, <2>1, SqeTags
  <2>3. Sent(cqe)
    BY <2>2 DEF Sent
  <2> QED  BY <1>2, <2>3, CompletesTyped
<1>3. CASE KernelAccept
  <2>1. /\ UNCHANGED << multishot, pool, sent, got, conns >> /\ QueueTypes'
    BY <1>2, <1>3, AcceptDone
  <2>2. \/ /\ Free # {} /\ LowestFree \in Free
           /\ backlog # <<>> /\ Head(backlog) \in 1 .. MAX_CONNS
           /\ fdtab' = Taken(LowestFree, Head(backlog))
           /\ backlog' = Tail(backlog)
        \/ UNCHANGED << fdtab, backlog >>
    BY <1>3, AcceptDone
  <2>3. fdtab' \in [ Fds -> 0 .. FOREIGN ]
    <3>1. CASE UNCHANGED fdtab
      BY <1>1, <3>1 DEF KernelTypes
    <3>2. CASE LowestFree \in Free /\ Head(backlog) \in 1 .. MAX_CONNS
               /\ fdtab' = Taken(LowestFree, Head(backlog))
      <4>1. LowestFree \in Fds /\ Head(backlog) \in 0 .. FOREIGN
        BY <3>2, Constants DEF Free
      <4> QED  BY <3>2, <4>1, TakenTyped
    <3> QED  BY <2>2, <3>1, <3>2
  <2>4. backlog' \in Seq(1 .. MAX_CONNS)
    <3>1. backlog \in Seq(1 .. MAX_CONNS)
      BY <1>1 DEF KernelTypes
    <3> QED  BY <2>2, <3>1, MembersTail
  <2> QED  BY <1>1, <2>1, <2>3, <2>4 DEF KernelTypes
<1>4. CASE KernelRecv(Part)
  <2>1. /\ UNCHANGED << fdtab, backlog, got, conns >>
    BY <1>4, RecvDone
  <2>2. PICK op, cqe :
              /\ Completes(op, cqe) /\ op.sqe.kind = "recv" /\ op.conn \in Conns
              /\ cqe.tag.op = "Recv" /\ cqe.conn = op.conn
              /\ \/ cqe.res <= 0 /\ UNCHANGED << pool, sent >>
                 \/ /\ cqe.res \in Part(op.conn) /\ cqe.at = sent[op.conn]
                    /\ sent' = [ sent EXCEPT ![op.conn] = @ + cqe.res ]
                    /\ op.sqe.multi => pool > 0 /\ pool' = pool - 1
                    /\ ~ op.sqe.multi => pool' = pool
    <3>1. ENOBUFS <= 0
      BY DEF ENOBUFS
    <3> QED  BY <1>4, <3>1, RecvDone
  <2>3. cqe \in Answers /\ cqe.res \in Int
    BY <2>2, AnswerFacts DEF Completes
  <2>4. CASE cqe.res <= 0 /\ UNCHANGED << pool, sent >>
    <3>1. Sent(cqe)
      BY <2>3, <2>4 DEF Sent
    <3>2. QueueTypes' /\ UNCHANGED multishot
      BY <2>2, <3>1, CompletesTyped
    <3> QED  BY <1>1, <2>1, <2>4, <3>2 DEF KernelTypes
  <2>5. CASE /\ cqe.res \in Part(op.conn) /\ cqe.at = sent[op.conn]
             /\ sent' = [ sent EXCEPT ![op.conn] = @ + cqe.res ]
             /\ op.sqe.multi => pool > 0 /\ pool' = pool - 1
             /\ ~ op.sqe.multi => pool' = pool
    <3>1. cqe.res \in Nat /\ sent[op.conn] + cqe.res <= Len(Bytes(stream[op.conn]))
      BY <2>2, <2>5, PartFacts
    <3>2. Sent(cqe)
      BY <2>2, <2>5, <3>1 DEF Sent
    <3>3. QueueTypes' /\ UNCHANGED multishot
      BY <2>2, <3>2, CompletesTyped
    <3>4. sent' \in [ Conns -> Nat ]
      BY <1>1, <2>2, <2>5, <3>1 DEF KernelTypes
    <3>5. pool' \in Nat
      BY <1>1, <2>5 DEF KernelTypes
    <3> QED  BY <1>1, <2>1, <3>3, <3>4, <3>5 DEF KernelTypes
  <2> QED  BY <2>2, <2>4, <2>5
<1>5. CASE KernelSend
  <2>1. /\ UNCHANGED << multishot, fdtab, pool, backlog, sent, conns >>
        /\ QueueTypes' /\ got' \in [ Conns -> Seq(Bufs) ]
    BY <1>2, <1>5, SendDone
  <2> QED  BY <1>1, <2>1 DEF KernelTypes
<1>6. CASE KernelPoll
  <2>1. UNCHANGED << multishot, fdtab, pool, backlog, sent, got, conns >>
        /\ QueueTypes'
    BY <1>2, <1>6, PollDone
  <2> QED  BY <1>1, <2>1 DEF KernelTypes
<1> QED  BY <1>3, <1>4, <1>5, <1>6

(* and what peers and other workers do.                                    *)
LEMMA OthersKeepTypes ==
  ASSUME Types, Connect \/ PeerEnds \/ OtherAccept \/ OtherClose, UNCHANGED stream
  PROVE  QueueTypes' /\ KernelTypes' /\ UNCHANGED << sq, cq, ops, pool >>
<1>1. KernelTypes /\ QueueTypes
  BY TypesParts
<1>2. UNCHANGED << sq, cq, ops, pool, sent, got, multishot >>
  BY DEF Connect, PeerEnds, OtherAccept, OtherClose, historyVars
<1>3. QueueTypes'
  BY <1>1, <1>2 DEF QueueTypes, Sequences, Sent
<1>4. CASE Connect
  <2>1. /\ conns < MAX_CONNS /\ conns' = conns + 1 /\ backlog' = Append(backlog, conns + 1)
        /\ UNCHANGED fdtab
    BY <1>4 DEF Connect
  <2>2. conns + 1 \in 1 .. MAX_CONNS /\ conns' \in 0 .. MAX_CONNS
    BY <1>1, <2>1, Constants DEF KernelTypes
  <2>3. backlog' \in Seq(1 .. MAX_CONNS)
    BY <1>1, <2>1, <2>2, MembersAppend DEF KernelTypes
  <2> QED  BY <1>1, <1>2, <1>3, <2>1, <2>2, <2>3 DEF KernelTypes
<1>5. CASE PeerEnds
  <2>1. UNCHANGED << backlog, conns, fdtab >>
    BY <1>5 DEF PeerEnds, bounds
  <2> QED  BY <1>1, <1>2, <1>3, <2>1 DEF KernelTypes
<1>6. CASE OtherAccept
  <2>1. /\ UNCHANGED << backlog, conns >>
        /\ Free # {} /\ fdtab' = Taken(LowestFree, FOREIGN)
    BY <1>6 DEF OtherAccept
  <2>2. fdtab' \in [ Fds -> 0 .. FOREIGN ]
    BY <2>1, LowestIsFree, TakenTyped, Constants DEF Free
  <2> QED  BY <1>1, <1>2, <1>3, <2>1, <2>2 DEF KernelTypes
<1>7. CASE OtherClose
  <2>1. UNCHANGED << backlog, conns >>
    BY <1>7 DEF OtherClose
  <2>2. PICK f \in theirs : fdtab[f] # 0 /\ fdtab' = Taken(f, 0)
    BY <1>7 DEF OtherClose
  <2>3. fdtab' \in [ Fds -> 0 .. FOREIGN ]
    BY <1>1, <2>2, Constants DEF KernelTypes, Taken
  <2> QED  BY <1>1, <1>2, <1>3, <2>1, <2>3 DEF KernelTypes
<1> QED  BY <1>4, <1>5, <1>6, <1>7

FlagTypes ==
  /\ use_ms_accept \in BOOLEAN /\ ms_accept_armed \in BOOLEAN
  /\ use_ms_recv \in BOOLEAN /\ have_buf_pool \in BOOLEAN

TableTypes == DOMAIN table \subseteq Fds /\ table \in [ DOMAIN table -> Storage ]

(* What a handler has to keep of the types by itself.                      *)
LEMMA HandlerTyped ==
  ASSUME Types, Taking, NEW new, Queues(new), TableTypes', FlagTypes'
  PROVE  Types'
<1>1. QueueTypes' /\ KernelTypes' /\ UNCHANGED stream
  BY TakingTyped
<1>2. stream' \in [ 1 .. MAX_CONNS -> Seq(Requests) ]
  BY <1>1 DEF Types, LoopTypes
<1> QED  BY <1>1, <1>2 DEF Types, LoopTypes, RingTypes, QueueTypes, KernelTypes,
                           TableTypes, FlagTypes

(* A storage that is replaced is typed.                                    *)
LEMMA UpdatesTyped ==
  ASSUME Types, NEW d, NEW new, Updates(d, new), FlagTypes'
  PROVE  Types'
<1>1. Taking /\ Queues(new) /\ fd1 \in DOMAIN table /\ d \in Storage
      /\ table' = [ table EXCEPT ![fd1] = d ]
  BY DEF Updates, Updated
<1>2. TableTypes
  BY DEF Types, LoopTypes, TableTypes
<1>3. TableTypes'
  BY <1>1, <1>2 DEF TableTypes
<1> QED  BY <1>1, <1>3, HandlerTyped

(* Every handler keeps the types.                                          *)
LEMMA HandleTyped ==
  ASSUME Types, Handle
  PROVE  Types'
<1>0. FlagTypes /\ TableTypes
  BY DEF Types, LoopTypes, FlagTypes, TableTypes
<1>f. ASSUME UNCHANGED flags
      PROVE  FlagTypes'
  BY <1>0, <1>f DEF FlagTypes, flags
<1>t. ASSUME UNCHANGED table
      PROVE  TableTypes'
  BY <1>0, <1>t DEF TableTypes
<1>1. CASE HandleAcceptFailed
  <2>1. FlagTypes'
    BY <1>0, <1>1, AcceptFailedFacts DEF FlagTypes
  <2>2. Taking /\ UNCHANGED table /\ \E new : Queues(new)
    BY <1>1, AcceptFailedFacts
  <2> QED  BY <1>t, <2>1, <2>2, HandlerTyped
<1>2. CASE HandleAccepted
  <2>1. FlagTypes'
    BY <1>0, <1>2, AcceptedFacts DEF FlagTypes
  <2>2. Taking /\ Cqe1.res \in Fds
    BY <1>2, AcceptedFacts
  <2>3. PICK d, new : /\ Queues(new) /\ d \in Storage
                      /\ table' = [ f \in DOMAIN table \cup { Cqe1.res } |->
                                      IF f \in DOMAIN table THEN table[f] ELSE d ]
    BY <1>2, AcceptedFacts
  <2>4. TableTypes'
    BY <1>0, <2>2, <2>3 DEF TableTypes
  <2> QED  BY <2>1, <2>2, <2>3, <2>4, HandlerTyped
<1>3. CASE HandleRecvFailed
  <2>1. FlagTypes'
    BY <1>0, <1>3, RecvFailedFacts DEF FlagTypes
  <2>2. \E d, new : Updates(d, new)
    BY <1>3, RecvFailedFacts
  <2> QED  BY <2>1, <2>2, UpdatesTyped
<1>4. CASE HandleRecvData
  <2>1. UNCHANGED flags /\ \E d, new : Updates(d, new)
    BY <1>4, RecvDataFacts
  <2> QED  BY <1>f, <2>1, UpdatesTyped
<1>5. CASE HandleSendCompleted
  <2>1. UNCHANGED flags /\ \E d, new : Updates(d, new)
    BY <1>5, SendCompletedFacts
  <2> QED  BY <1>f, <2>1, UpdatesTyped
<1>6. CASE HandleSendAgain
  <2>1. UNCHANGED flags /\ \E d, new : Updates(d, new)
    BY <1>6, SendAgainFacts
  <2> QED  BY <1>f, <2>1, UpdatesTyped
<1>7. CASE HandleSendFailed
  <2>1. UNCHANGED flags /\ \E d, new : Updates(d, new)
    BY <1>7, SendFailedFacts
  <2> QED  BY <1>f, <2>1, UpdatesTyped
<1>8. CASE HandlePollOut
  <2>1. UNCHANGED flags /\ \E d, new : Updates(d, new)
    BY <1>8, PollOutFacts
  <2> QED  BY <1>f, <2>1, UpdatesTyped
<1>9. CASE HandleClose
  <2>1. /\ UNCHANGED flags /\ Taking /\ Queues(<<>>)
        /\ table' = [ f \in DOMAIN table \ { fd1 } |-> table[f] ]
    BY <1>9, CloseFacts
  <2>2. TableTypes'
    BY <1>0, <2>1 DEF TableTypes
  <2> QED  BY <1>f, <2>1, <2>2, HandlerTyped
<1>10. CASE HandleNothing
  <2>1. UNCHANGED << flags, table >> /\ Taking /\ Queues(<<>>)
    BY <1>10, NothingFacts DEF loopVars
  <2> QED  BY <1>f, <1>t, <2>1, HandlerTyped
<1> QED  BY <1>1, <1>2, <1>3, <1>4, <1>5, <1>6, <1>7, <1>8, <1>9, <1>10 DEF Handle

(* The steps of the specification.                                         *)
LEMMA Steps ==
  ASSUME [Next]_vars
  PROVE  \/ Handle
         \/ /\ \/ Issue
               \/ KernelAccept \/ KernelRecv(Part) \/ KernelSend \/ KernelPoll
               \/ Connect \/ PeerEnds \/ OtherAccept \/ OtherClose
            /\ UNCHANGED << loopVars, peerVars >>
         \/ UNCHANGED vars
BY Zenon DEF Next, UringNext

(* So does every step of the ring,                                         *)
LEMMA RingTyped ==
  ASSUME Types, UNCHANGED << loopVars, peerVars >>,
         \/ Issue
         \/ KernelAccept \/ KernelRecv(Part) \/ KernelSend \/ KernelPoll
         \/ Connect \/ PeerEnds \/ OtherAccept \/ OtherClose
  PROVE  Types'
<1>1. UNCHANGED << table, use_ms_accept, ms_accept_armed, use_ms_recv, have_buf_pool, stream >>
  BY DEF loopVars, peerVars, flags
<1>2. QueueTypes' /\ KernelTypes'
  <2>1. CASE Issue
    BY <1>1, <2>1, IssueTypes
  <2>2. CASE KernelAccept \/ KernelRecv(Part) \/ KernelSend \/ KernelPoll
    BY <1>1, <2>2, KernelKeepsTypes
  <2>3. CASE Connect \/ PeerEnds \/ OtherAccept \/ OtherClose
    BY <1>1, <2>3, OthersKeepTypes
  <2> QED  BY <2>1, <2>2, <2>3, Zenon
<1>3. LoopTypes'
  BY <1>1 DEF Types, LoopTypes
<1> QED  BY <1>2, <1>3 DEF Types, RingTypes, QueueTypes, KernelTypes

(* and so every step.                                                      *)
LEMMA StepTyped ==
  ASSUME Types, [Next]_vars
  PROVE  Types'
<1>1. CASE Handle
  BY <1>1, HandleTyped
<1>2. CASE /\ \/ Issue
              \/ KernelAccept \/ KernelRecv(Part) \/ KernelSend \/ KernelPoll
              \/ Connect \/ PeerEnds \/ OtherAccept \/ OtherClose
           /\ UNCHANGED << loopVars, peerVars >>
  BY <1>2, RingTyped, Zenon
<1>3. CASE UNCHANGED vars
  <2>1. UNCHANGED << table, use_ms_accept, ms_accept_armed, use_ms_recv, have_buf_pool,
                     stream, multishot, sq, cq, ops, fdtab, pool, sent, got,
                     backlog, conns >>
    BY <1>3 DEF vars, loopVars, peerVars, flags, uringVars, kernelVars, historyVars, bounds
  <2> QED  BY <2>1 DEF Types, LoopTypes, RingTypes, Sequences, Sent
<1> QED  BY <1>1, <1>2, <1>3, Steps, Zenon

(* The initial states are typed.                                           *)
LEMMA InitTyped ==
  ASSUME Init
  PROVE  Types
<1>1. /\ table = <<>> /\ use_ms_accept = TRUE /\ ms_accept_armed = TRUE
      /\ use_ms_recv = TRUE /\ have_buf_pool \in POOLS
      /\ pool = IF have_buf_pool THEN BUF_CNT ELSE 0
      /\ polite \in POLITE /\ stream \in STREAMS[polite]
  BY DEF Init
<1>2. /\ multishot \in KERNELS /\ sq = post_accept(TRUE, FALSE) /\ cq = <<>> /\ ops = EmptyBag
      /\ fdtab = [ f \in Fds |-> 0 ] /\ backlog = <<>> /\ sent = [ k \in Conns |-> 0 ]
      /\ got = [ k \in Conns |-> <<>> ] /\ conns = 0
  BY DEF Init, UringInit
<1>3. /\ have_buf_pool \in BOOLEAN /\ multishot \in BOOLEAN
      /\ stream \in [ 1 .. MAX_CONNS -> Seq(Requests) ]
  <2>1. polite \in BOOLEAN
    BY <1>1, PrototypeAssumption
  <2>2. STREAMS[polite] \subseteq [ 1 .. MAX_CONNS -> Seq(Requests) ]
    BY <2>1, PrototypeAssumption
  <2> QED  BY <1>1, <1>2, <2>2, UringAssumption, PrototypeAssumption
<1>4. sq \in Seq(Sqes)
  BY <1>2, PostAcceptTyped
<1>5. FiniteBag(ops) /\ DOMAIN ops = {}
  BY <1>2, MultEmpty DEF EmptyBag, SetToBag
<1>6. LoopTypes
  BY <1>1, <1>3 DEF LoopTypes
<1>7. QueueTypes
  <2>1. cq \in Seq(Answers)
    BY <1>2, OneInSeq, Zenon
  <2>2. Members(cq) = {}
    BY <1>2, MembersOne
  <2> QED  BY <1>4, <1>5, <2>1, <2>2 DEF QueueTypes, Sequences
<1>8. KernelTypes
  <2>1. pool \in Nat /\ conns \in 0 .. MAX_CONNS
    BY <1>1, <1>2, Constants
  <2>2. fdtab \in [ Fds -> 0 .. FOREIGN ] /\ sent \in [ Conns -> Nat ]
    BY <1>2, Constants
  <2>3. backlog \in Seq(1 .. MAX_CONNS)
    BY <1>2, OneInSeq, Zenon
  <2>4. <<>> \in Seq(Bufs)
    BY OneInSeq, Zenon
  <2>5. got \in [ Conns -> Seq(Bufs) ]
    BY <1>2, <2>4
  <2> QED  BY <1>2, <1>3, <2>1, <2>2, <2>3, <2>5 DEF KernelTypes
<1> QED  BY <1>6, <1>7, <1>8, TypesParts

(* The inductive types imply the type invariant.                           *)
LEMMA TypesGiveTypeOK ==
  ASSUME Types
  PROVE  TypeOK
<1>1. sq \in Seq(SqesOf(Tags, OwnedBuf(Literals)))
  BY DEF Types, RingTypes, Sequences, Sqes, Bufs
<1>2. cq \in Seq(CqesOf(Tags))
  BY DEF Types, RingTypes, Sequences, Answers
<1>3. \A o \in BagToSet(ops) : o.sqe \in SqesOf(Tags, OwnedBuf(Literals))
  BY DEF Types, RingTypes, Operations, Sqes, Bufs, BagToSet
<1>4. flags \in BOOLEAN \X BOOLEAN \X BOOLEAN \X BOOLEAN
  BY DEF Types, LoopTypes, flags
<1>5. /\ DOMAIN table \subseteq Fds
      /\ \A f \in DOMAIN table : table[f] \in Storage
  BY DEF Types, LoopTypes
<1>6. fdtab \in [ Fds -> 0 .. FOREIGN ] /\ pool \in Nat
  BY DEF Types, RingTypes
<1> QED  BY <1>1, <1>2, <1>3, <1>4, <1>5, <1>6 DEF TypeOK

(* The inductive types hold of every state: what a handler takes from a    *)
(* completion is what it takes it for, and received bytes are bytes of the *)
(* peer's stream.                                                          *)
THEOREM PrototypeTypes == Spec => []Types
<1>1. Init => Types
  BY InitTyped
<1>2. Types /\ [Next]_vars => Types'
  BY StepTyped
<1> QED  BY <1>1, <1>2, PTL DEF Spec

(* Every variable of the prototype has its type, for every kernel, pool,   *)
(* set of request streams and bound, whether peers wait or not.            *)
THEOREM PrototypeTypesHold == Spec => []TypeOK
<1>1. Types => TypeOK
  BY TypesGiveTypeOK
<1> QED  BY <1>1, PrototypeTypes, PTL

-----------------------------------------------------------------------------
(* What each kind of step does to the requests under way.                  *)

(* A count of requests under way is a number, and it is positive exactly   *)
(* if one of them can be pointed at.                                       *)
LEMMA PendingHas ==
  ASSUME Types, NEW S, NEW A
  PROVE  /\ Pending(S, A) \in Nat
         /\ Pending(S, A) > 0 <=> \/ Members(sq) \cap S # {}
                                  \/ \E o \in DOMAIN ops : o.sqe \in S
                                  \/ Members(cq) \cap A # {}
<1>1. Sequences(Sqes, Answers)
  BY DEF Types, RingTypes
<1>2. Pending(S, A) > 0 <=> \/ \E i \in 1 .. Len(sq) : sq[i] \in S
                            \/ \E o \in DOMAIN ops : o.sqe \in S
                            \/ \E i \in 1 .. Len(cq) : cq[i] \in A
  BY <1>1, PendingPositive
<1>3. /\ (\E i \in 1 .. Len(sq) : sq[i] \in S) <=> Members(sq) \cap S # {}
      /\ (\E i \in 1 .. Len(cq) : cq[i] \in A) <=> Members(cq) \cap A # {}
  BY DEF Members
<1> QED  BY <1>1, <1>2, <1>3, PendingType

(* It is a number after a step, too.                                       *)
LEMMA PendingNext ==
  ASSUME QueueTypes', NEW S, NEW A
  PROVE  Pending(S, A)' \in Nat
<1>1. sq' \in Seq(Sqes) /\ cq' \in Seq(Answers) /\ FiniteBag(ops')
  BY DEF QueueTypes, Sequences
<1>2. Count(sq', S) \in Nat /\ Count(cq', A) \in Nat
  BY <1>1, HitsFinite
<1>3. Mult(ops', S) \in Nat
  BY <1>1, MultType
<1>4. Pending(S, A)' = Count(sq', S) + Mult(ops', S) + Count(cq', A)
  BY DEF Pending
<1> QED  BY <1>2, <1>3, <1>4

(* A handler takes a completion and adds its requests.                     *)
LEMMA TakingPending ==
  ASSUME Types, Taking, NEW new, Queues(new), NEW S, NEW A
  PROVE  /\ Count(new, S) \in Nat /\ Pending(S, A)' \in Nat
         /\ Pending(S, A)' + Once(Cqe1, A) = Pending(S, A) + Count(new, S)
<1>1. /\ Sequences(Sqes, Answers) /\ cq # <<>> /\ cq' = Tail(cq) /\ UNCHANGED ops
      /\ new \in Seq(Sqes) /\ sq' = sq \o new
  BY DEF Types, RingTypes, Taking, Queues
<1>2. Head(cq) = Cqe1
  BY DEF Cqe1
<1>3. Count(new, S) \in Nat
  BY <1>1, HitsFinite
<1>4. Pending(S, A)' + Once(Head(cq), A) = Pending(S, A) + Count(new, S)
  BY <1>1, HandlePending
<1>5. QueueTypes'
  BY TakingTyped
<1> QED  BY <1>2, <1>3, <1>4, <1>5, PendingNext

(* A reply takes the request and adds its completions.                     *)
LEMMA RepliesPending ==
  ASSUME Types, sq # <<>>, sq' = Tail(sq), NEW new, Replies(new), UNCHANGED stream,
         NEW S, NEW A
  PROVE  /\ Count(new, A) \in Nat /\ Pending(S, A)' \in Nat
         /\ Pending(S, A)' + Once(Head(sq), S) = Pending(S, A) + Count(new, A)
<1>1. Sequences(Sqes, Answers) /\ UNCHANGED ops /\ new \in Seq(Answers) /\ cq' = cq \o new
  BY DEF Types, RingTypes, Replies
<1>2. Count(new, A) \in Nat
  BY <1>1, HitsFinite
<1>3. Pending(S, A)' + Once(Head(sq), S) = Pending(S, A) + Count(new, A)
  BY <1>1, AnswerPending
<1>4. QueueTypes'
  BY RepliesTyped
<1> QED  BY <1>2, <1>3, <1>4, PendingNext

(* An operation that begins leaves under way what is under way.            *)
LEMMA BeginsPending ==
  ASSUME Types, sq # <<>>, sq' = Tail(sq), NEW op, Begins(op), NEW S, NEW A
  PROVE  Pending(S, A)' = Pending(S, A)
<1>1. Sequences(Sqes, Answers) /\ UNCHANGED cq /\ op.sqe = Head(sq) /\ Begin(op)
  BY DEF Types, RingTypes, Begins
<1> QED  BY <1>1, BeginPending

(* A completion takes the place of the operation that it ends.             *)
LEMMA CompletesPending ==
  ASSUME Types, NEW op, NEW cqe, Completes(op, cqe), NEW S, NEW A
  PROVE  /\ Pending(S, A)' \in Nat
         /\ Pending(S, A)' + (IF cqe.more THEN 0 ELSE Once(op.sqe, S))
              = Pending(S, A) + Once(cqe, A)
<1>1. /\ Sequences(Sqes, Answers) /\ UNCHANGED sq /\ op \in DOMAIN ops
      /\ cqe \in Answers /\ Complete(op, cqe)
  BY DEF Types, RingTypes, Completes
<1>2. Pending(S, A)' + (IF cqe.more THEN 0 ELSE Once(op.sqe, S))
        = Pending(S, A) + Once(cqe, A)
  BY <1>1, CompletePending
<1>3. Sequences(Sqes, Answers)'
  BY <1>1, CompletePending
<1>4. sq' \in Seq(Sqes) /\ cq' \in Seq(Answers) /\ FiniteBag(ops')
  BY <1>3 DEF Sequences
<1>5. Count(sq', S) \in Nat /\ Count(cq', A) \in Nat /\ Mult(ops', S) \in Nat
  BY <1>4, HitsFinite, MultType
<1>6. Pending(S, A)' = Count(sq', S) + Mult(ops', S) + Count(cq', A)
  BY DEF Pending
<1> QED  BY <1>2, <1>5, <1>6

(* What the issue of the request r puts into cq, unless it only begins.    *)
RepliesTo(r, new) ==
  /\ Replies(new)
  /\ \E c : new = << c >> /\ c.tag = r.tag /\ ~ c.more

(* A request that is issued begins an operation or is replied to.          *)
LEMMA IssueReplies ==
  ASSUME Types, Issue, NEW r, r = Head(sq)
  PROVE  \/ \E op : Begins(op) /\ op.sqe = r /\ r.kind # "provide" /\ UNCHANGED pool
         \/ \E new : /\ RepliesTo(r, new)
                     /\ IF r.kind = "provide" THEN pool' = pool + 1 ELSE UNCHANGED pool
<1>1. \/ \E k : Begins(Op(r, k)) /\ r.kind # "provide" /\ UNCHANGED pool
      \/ \E k, res : /\ Replies(<< Cqe(r.tag, res, k) >>)
                     /\ IF r.kind = "provide" THEN pool' = pool + 1 ELSE UNCHANGED pool
  BY IssueFacts
<1>2. CASE \E k : Begins(Op(r, k)) /\ r.kind # "provide" /\ UNCHANGED pool
  <2>1. PICK k : Begins(Op(r, k)) /\ r.kind # "provide" /\ UNCHANGED pool
    BY <1>2
  <2>2. Op(r, k).sqe = r
    BY DEF Op
  <2> QED  BY <2>1, <2>2
<1>3. CASE \E k, res :
              /\ Replies(<< Cqe(r.tag, res, k) >>)
              /\ IF r.kind = "provide" THEN pool' = pool + 1 ELSE UNCHANGED pool
  <2>1. PICK k, res :
              /\ Replies(<< Cqe(r.tag, res, k) >>)
              /\ IF r.kind = "provide" THEN pool' = pool + 1 ELSE UNCHANGED pool
    BY <1>3
  <2> DEFINE c == Cqe(r.tag, res, k)
  <2>2. c.tag = r.tag /\ ~ c.more
    BY CqeFacts
  <2>3. Replies(<< c >>)
    BY <2>1
  <2> HIDE DEF c
  <2> DEFINE new == << c >>
  <2>4. Replies(new) /\ new = << c >>
    BY <2>3
  <2> HIDE DEF new
  <2>5. RepliesTo(r, new)
    BY <2>1, <2>2, <2>4 DEF RepliesTo
  <2> QED  BY <2>1, <2>5
<1> QED  BY <1>1, <1>2, <1>3

(* The requests and completions that UnderWay counts.                      *)
Reqs(kind, tag) == { r \in Sqes : r.kind = kind /\ r.tag = tag }

Cqes(tag) == { c \in Answers : c.tag = tag /\ ~ c.more }

(* UnderWay counts what is pending.                                        *)
LEMMA UnderWayPending ==
  ASSUME Types, NEW kind, NEW tag
  PROVE  UnderWay(kind, tag) = Pending(Reqs(kind, tag), Cqes(tag))
<1> DEFINE P(sqe) == sqe.kind = kind /\ sqe.tag = tag
           S == Reqs(kind, tag)
           A == Cqes(tag)
<1>1. sq \in Seq(Sqes) /\ cq \in Seq(Answers) /\ DOMAIN ops \subseteq Operations
  BY DEF Types, RingTypes, Sequences
<1>2. Queued(P) = Count(sq, S)
  <2>1. \A i \in 1 .. Len(sq) : P(sq[i]) <=> sq[i] \in S
    BY <1>1 DEF Reqs
  <2>2. { i \in 1 .. Len(sq) : P(sq[i]) } = Hits(sq, S)
    BY <2>1 DEF Hits
  <2> QED  BY <2>2 DEF Queued, Count
<1>3. InKernel(P) = Mult(ops, S)
  <2>1. \A copy \in Copies(ops) : copy[1].sqe \in Sqes
    BY <1>1, InCopies DEF Operations
  <2>2. { copy \in Copies(ops) : P(copy[1].sqe) } = Held(ops, S)
    BY <2>1 DEF Held, Reqs
  <2> QED  BY <2>2 DEF InKernel, Mult
<1>4. Answered(tag) = Count(cq, A)
  <2>1. \A i \in 1 .. Len(cq) : (cq[i].tag = tag /\ ~ cq[i].more) <=> cq[i] \in A
    BY <1>1 DEF Cqes
  <2>2. { i \in 1 .. Len(cq) : cq[i].tag = tag /\ ~ cq[i].more } = Hits(cq, A)
    BY <2>1 DEF Hits
  <2> QED  BY <2>2 DEF Answered, Count
<1> QED  BY <1>2, <1>3, <1>4 DEF UnderWay, Pending

(* A handler leaves something under way that it does not take, or that it  *)
(* asks for.                                                               *)
LEMMA KeptTaking ==
  ASSUME Types, Taking, NEW new, Queues(new), NEW S, NEW A,
         \/ Pending(S, A) > 0 /\ Cqe1 \notin A
         \/ Members(new) \cap S # {}
  PROVE  Pending(S, A)' > 0
<1>1. /\ Count(new, S) \in Nat /\ Pending(S, A)' \in Nat /\ Pending(S, A) \in Nat
      /\ Pending(S, A)' + Once(Cqe1, A) = Pending(S, A) + Count(new, S)
  BY TakingPending, PendingHas
<1>2. CASE Pending(S, A) > 0 /\ Cqe1 \notin A
  <2>1. Once(Cqe1, A) = 0
    BY <1>2 DEF Once
  <2> QED  BY <1>1, <1>2, <2>1
<1>3. CASE Members(new) \cap S # {}
  <2>1. Count(new, S) > 0
    BY <1>3, MembersCount DEF Queues
  <2>2. Once(Cqe1, A) = 0 \/ (Once(Cqe1, A) = 1 /\ Pending(S, A) > 0)
    BY PendingHas DEF Once, Taking
  <2> QED  BY <1>1, <2>1, <2>2
<1> QED  BY <1>2, <1>3

(* The ring loses nothing that is under way.                               *)
LEMMA KeptIssue ==
  ASSUME Types, Issue, UNCHANGED stream, NEW kind, kind # "provide", NEW tag,
         Pending(Reqs(kind, tag), Cqes(tag)) > 0
  PROVE  Pending(Reqs(kind, tag), Cqes(tag))' > 0
<1> DEFINE r == Head(sq)
           S == Reqs(kind, tag)
           A == Cqes(tag)
<1>0. r = Head(sq) /\ Pending(S, A) > 0
  OBVIOUS
<1>d. \A s \in S : s.kind = kind /\ s.tag = tag
  BY DEF Reqs
<1>e. \A c \in Answers : c.tag = tag /\ ~ c.more => c \in A
  BY DEF Cqes
<1> HIDE DEF r, S, A
<1>1. sq # <<>> /\ sq' = Tail(sq)
  BY <1>0, IssueFacts
<1>2. ASSUME NEW op, Begins(op)
      PROVE  Pending(S, A)' > 0
  BY <1>0, <1>1, <1>2, BeginsPending
<1>3. ASSUME NEW new, RepliesTo(r, new)
      PROVE  Pending(S, A)' > 0
  <2>1. new \in Seq(Answers) /\ Replies(new)
    BY <1>3 DEF RepliesTo, Replies
  <2>2. /\ Count(new, A) \in Nat /\ Pending(S, A)' \in Nat /\ Pending(S, A) \in Nat
        /\ Pending(S, A)' + Once(r, S) = Pending(S, A) + Count(new, A)
    BY <1>0, <1>1, <2>1, RepliesPending, PendingHas
  <2>3. CASE r \in S
    <3>1. PICK c : new = << c >> /\ c.tag = r.tag /\ ~ c.more
      BY <1>3, <1>d, <2>3 DEF RepliesTo
    <3>2. c \in Members(new)
      BY <3>1, MembersOne
    <3>3. c \in A
      BY <1>d, <1>e, <2>1, <2>3, <3>1, <3>2, MembersType
    <3>4. Count(new, A) > 0 /\ Once(r, S) = 1
      BY <2>1, <2>3, <3>2, <3>3, MembersCount DEF Once
    <3> QED  BY <1>0, <2>2, <3>4
  <2>4. CASE r \notin S
    <3>1. Once(r, S) = 0
      BY <2>4 DEF Once
    <3> QED  BY <1>0, <2>2, <3>1
  <2> QED  BY <2>3, <2>4
<1>4. Pending(S, A)' > 0
  BY <1>0, <1>2, <1>3, IssueReplies
<1> QED  BY <1>4 DEF S, A

(* An operation that completes stays under way until it is handled.        *)
LEMMA KeptCompletes ==
  ASSUME Types, NEW op, NEW cqe, Completes(op, cqe), NEW kind, NEW tag,
         Pending(Reqs(kind, tag), Cqes(tag)) > 0
  PROVE  Pending(Reqs(kind, tag), Cqes(tag))' > 0
<1> DEFINE S == Reqs(kind, tag)
           A == Cqes(tag)
<1>0. Pending(S, A) > 0
  OBVIOUS
<1>1. op.sqe \in S /\ ~ cqe.more => cqe \in A
  BY DEF Reqs, Cqes, Completes
<1> HIDE DEF S, A
<1>2. /\ Pending(S, A)' \in Nat /\ Pending(S, A) \in Nat
      /\ Pending(S, A)' + (IF cqe.more THEN 0 ELSE Once(op.sqe, S))
           = Pending(S, A) + Once(cqe, A)
  BY CompletesPending, PendingHas
<1>3. \/ (IF cqe.more THEN 0 ELSE Once(op.sqe, S)) = 0
      \/ (IF cqe.more THEN 0 ELSE Once(op.sqe, S)) = 1 /\ Once(cqe, A) = 1
  BY <1>1 DEF Once
<1>4. Once(cqe, A) \in Nat
  BY OnceType
<1>5. Pending(S, A)' > 0
  BY <1>0, <1>2, <1>3, <1>4
<1> QED  BY <1>5 DEF S, A

(* Where the queues and operations do not change, neither does what is     *)
(* under way.                                                              *)
LEMMA QuietPending ==
  ASSUME UNCHANGED << sq, cq, ops >>, NEW S, NEW A
  PROVE  Pending(S, A)' = Pending(S, A)
BY DEF Pending

(* No step of the ring loses anything that is under way.                   *)
LEMMA KeptRing ==
  ASSUME Types, UNCHANGED stream,
         \/ Issue
         \/ KernelAccept \/ KernelRecv(Part) \/ KernelSend \/ KernelPoll
         \/ Connect \/ PeerEnds \/ OtherAccept \/ OtherClose,
         NEW kind, kind # "provide", NEW tag, Pending(Reqs(kind, tag), Cqes(tag)) > 0
  PROVE  Pending(Reqs(kind, tag), Cqes(tag))' > 0
<1>1. CASE Issue
  BY <1>1, KeptIssue
<1>2. CASE KernelAccept \/ KernelRecv(Part) \/ KernelSend \/ KernelPoll
  <2>1. \E op, cqe : Completes(op, cqe)
    <3>1. CASE KernelAccept
      BY <3>1, AcceptDone
    <3>2. CASE KernelRecv(Part)
      BY <3>2, RecvDone
    <3>3. CASE KernelSend
      BY <3>3, SendDone
    <3>4. CASE KernelPoll
      BY <3>4, PollDone
    <3> QED  BY <1>2, <3>1, <3>2, <3>3, <3>4, Zenon
  <2> QED  BY <2>1, KeptCompletes
<1>3. CASE Connect \/ PeerEnds \/ OtherAccept \/ OtherClose
  BY <1>3, OthersKeepTypes, QuietPending
<1> QED  BY <1>1, <1>2, <1>3, Zenon

-----------------------------------------------------------------------------
(* Queued data of a live connection will be kicked again.                  *)

SendReqs(f) == Reqs("send", Tag(f, "Send"))
SendCqes(f) == Cqes(Tag(f, "Send"))

PollReqs(f) == Reqs("poll", Tag(f, "PollOut"))
PollCqes(f) == Cqes(Tag(f, "PollOut"))

(* The completions that end sends and polls, told by descriptor and op.    *)
LEMMA CqesAre ==
  ASSUME NEW f, NEW c \in Answers
  PROVE  /\ c \in SendCqes(f) <=> c.tag.fd = f /\ c.tag.op = "Send" /\ ~ c.more
         /\ c \in PollCqes(f) <=> c.tag.fd = f /\ c.tag.op = "PollOut" /\ ~ c.more
<1>1. \A op : c.tag = Tag(f, op) <=> c.tag.fd = f /\ c.tag.op = op
  BY AnswerFacts, TagType
<1> QED  BY <1>1 DEF SendCqes, PollCqes, Cqes

(* The requests of the handlers that begin them.                           *)
LEMMA SendReqsAre ==
  /\ \A f \in Fds, b \in Seq(Bufs) : SendOf(f, b) \in SendReqs(f)
  /\ \A f \in Fds : PollOf(f) \in PollReqs(f)
BY RequestsTyped, Made DEF SendReqs, PollReqs, Reqs

(* The flags of the storage are true, and whatever is queued waits for     *)
(* what one of them says.                                                  *)
Flows(f) ==
  LET c == table[f]
  IN  /\ c.tx.send_inflight => Pending(SendReqs(f), SendCqes(f)) > 0
      /\ c.pollout_armed => Pending(PollReqs(f), PollCqes(f)) > 0
      /\ c.tx.txq # <<>> => c.tx.send_inflight \/ c.pollout_armed

Flow == \A f \in Live : Flows(f)

(* A handler that leaves the storage of f alone, and takes no completion   *)
(* that f waits for.                                                       *)
LEMMA FlowsKept ==
  ASSUME Types, Taking, NEW new, Queues(new), NEW f \in Fds, Flows(f),
         table'[f] = table[f],
         fd1 = f => Cqe1.tag.op \notin { "Send", "PollOut" }
  PROVE  Flows(f)'
<1>1. /\ Cqe1 \notin SendCqes(f) /\ Cqe1 \notin PollCqes(f)
  BY CqesAre DEF Taking, fd1
<1>2. /\ Pending(SendReqs(f), SendCqes(f)) > 0 => Pending(SendReqs(f), SendCqes(f))' > 0
      /\ Pending(PollReqs(f), PollCqes(f)) > 0 => Pending(PollReqs(f), PollCqes(f))' > 0
  BY <1>1, KeptTaking
<1> QED  BY <1>2 DEF Flows

(* The table stays as it is, or loses a storage.                           *)
LEMMA FlowIdle ==
  ASSUME Types, Flow, Taking, NEW new, Queues(new),
         \A f \in Live' : f \in Live /\ table'[f] = table[f],
         fd1 \in DOMAIN table => Cqe1.tag.op \notin { "Send", "PollOut" }
  PROVE  Flow'
<1> SUFFICES ASSUME NEW f \in Live'
             PROVE  Flows(f)'
  BY DEF Flow
<1>1. f \in Live /\ f \in DOMAIN table /\ f \in Fds /\ Flows(f)
  BY DEF Flow, Live, Types, LoopTypes
<1> QED  BY <1>1, FlowsKept

(* One storage changes: what its flags say is under way still, or asked    *)
(* for now.                                                                *)
LEMMA FlowUpdates ==
  ASSUME Types, Flow, NEW c, NEW new, Updates(c, new),
         ~ c.closing =>
           /\ ~ c1.closing
           /\ c.tx.send_inflight => \/ Members(new) \cap SendReqs(fd1) # {}
                                    \/ c1.tx.send_inflight /\ Cqe1.tag.op # "Send"
           /\ c.pollout_armed => \/ Members(new) \cap PollReqs(fd1) # {}
                                 \/ c1.pollout_armed /\ Cqe1.tag.op # "PollOut"
           /\ c.tx.txq # <<>> => c.tx.send_inflight \/ c.pollout_armed
  PROVE  Flow'
<1>1. /\ Taking /\ Queues(new) /\ fd1 \in DOMAIN table /\ fd1 \in Fds
      /\ table' = [ table EXCEPT ![fd1] = c ]
  BY DEF Updates, Updated
<1>2. /\ DOMAIN table' = DOMAIN table /\ table'[fd1] = c
      /\ \A f \in DOMAIN table : f # fd1 => table'[f] = table[f]
  BY <1>1 DEF Types, LoopTypes
<1> SUFFICES ASSUME NEW f \in Live'
             PROVE  Flows(f)'
  BY DEF Flow
<1>3. f \in Live /\ f \in DOMAIN table /\ f \in Fds
  BY <1>1, <1>2 DEF Live, c1, Types, LoopTypes
<1>4. Flows(f)
  BY <1>3 DEF Flow
<1>5. CASE f # fd1
  BY <1>1, <1>2, <1>3, <1>4, <1>5, FlowsKept
<1>6. CASE f = fd1
  <2>1. ~ c.closing
    BY <1>2, <1>6 DEF Live
  <2>2. /\ Cqe1.tag.op # "Send" => Cqe1 \notin SendCqes(f)
        /\ Cqe1.tag.op # "PollOut" => Cqe1 \notin PollCqes(f)
    BY <1>1, CqesAre DEF Taking
  <2>3. /\ c1.tx.send_inflight => Pending(SendReqs(f), SendCqes(f)) > 0
        /\ c1.pollout_armed => Pending(PollReqs(f), PollCqes(f)) > 0
    BY <1>4, <1>6 DEF Flows, c1
  <2>4. c.tx.send_inflight => Pending(SendReqs(f), SendCqes(f))' > 0
    BY <1>1, <1>6, <2>1, <2>2, <2>3, KeptTaking
  <2>5. c.pollout_armed => Pending(PollReqs(f), PollCqes(f))' > 0
    BY <1>1, <1>6, <2>1, <2>2, <2>3, KeptTaking
  <2>6. c.tx.txq # <<>> => c.tx.send_inflight \/ c.pollout_armed
    BY <2>1
  <2> QED  BY <1>2, <1>6, <2>4, <2>5, <2>6 DEF Flows
<1> QED  BY <1>5, <1>6

(* What a kick leaves: nothing to kick, or a sendmsg asked for.            *)
LEMMA KickFlows ==
  ASSUME NEW f \in Fds, NEW c \in Storage, NEW r, r = sendkick_inline(f, c)
  PROVE  /\ r.c.pollout_armed = c.pollout_armed /\ r.c.closing = c.closing
         /\ \/ Members(r.sqes) \cap SendReqs(f) # {} /\ r.c.tx.send_inflight
            \/ r.c.tx = c.tx /\ (c.tx.txq # <<>> => c.tx.send_inflight)
<1>1. /\ r.c \in Storage /\ SameButSend(c, r.c)
      /\ r.c.pollout_armed = c.pollout_armed
      /\ NothingToKick(c.tx) => r.c = c
      /\ ~ NothingToKick(c.tx) => /\ r.c.tx.send_inflight
                                  /\ r.sqes = << SendOf(f, r.c.tx.tx_inflight) >>
  BY KickTyped
<1>2. r.c.closing = c.closing
  BY <1>1 DEF SameButSend
<1>3. CASE NothingToKick(c.tx)
  <2>1. r.c.tx = c.tx /\ (c.tx.txq # <<>> => c.tx.send_inflight)
    BY <1>1, <1>3 DEF NothingToKick
  <2> QED  BY <1>1, <1>2, <2>1
<1>4. CASE ~ NothingToKick(c.tx)
  <2> DEFINE b == r.c.tx.tx_inflight
             s == SendOf(f, b)
  <2>1. b \in Seq(Bufs)
    BY <1>1, StorageFacts
  <2>2. s \in SendReqs(f)
    BY <2>1, SendReqsAre
  <2>3. r.sqes = << s >>
    BY <1>1, <1>4
  <2> HIDE DEF s
  <2>4. Members(r.sqes) \cap SendReqs(f) # {}
    BY <2>2, <2>3, MembersOne
  <2> QED  BY <1>1, <1>2, <1>4, <2>4
<1> QED  BY <1>3, <1>4

(* A handler that ends by a kick of the storage c.                         *)
LEMMA FlowKicked ==
  ASSUME Types, Flow, NEW c \in Storage, NEW d, NEW new, Updates(d, new),
         d = sendkick_inline(fd1, c).c, new = sendkick_inline(fd1, c).sqes,
         c1.closing => c.closing,
         c.tx.send_inflight => c1.tx.send_inflight /\ Cqe1.tag.op # "Send",
         c.pollout_armed => c1.pollout_armed /\ Cqe1.tag.op # "PollOut"
  PROVE  Flow'
<1>1. fd1 \in Fds
  BY DEF Updates, Updated
<1> DEFINE r == sendkick_inline(fd1, c)
<1>2. r = sendkick_inline(fd1, c) /\ d = r.c /\ new = r.sqes
  OBVIOUS
<1> HIDE DEF r
<1>3. /\ d.pollout_armed = c.pollout_armed /\ d.closing = c.closing
      /\ \/ Members(new) \cap SendReqs(fd1) # {} /\ d.tx.send_inflight
         \/ d.tx = c.tx /\ (c.tx.txq # <<>> => c.tx.send_inflight)
  BY <1>1, <1>2, KickFlows
<1> QED  BY <1>3, FlowUpdates

(* A segment: what is queued is kicked.                                    *)
LEMMA FlowData ==
  ASSUME Types, Flow, HandleRecvData
  PROVE  Flow'
<1>1. PICK c, p, d, e, sends, recvs :
        RecvSteps(c, p, d, e, sends, recvs) /\ Updates(e, Returned \o sends \o recvs)
  BY RecvDataFacts
<1>2. Returned \in Seq(Sqes) /\ Cqe1.tag.op = "Recv"
  BY RecvDataFacts
<1>3. /\ c \in Storage /\ SameButRecv(c1, c) /\ p = parse_step(c, Received) /\ p \in Storage
      /\ d = sendkick_inline(fd1, p).c /\ sends = sendkick_inline(fd1, p).sqes
      /\ sends \in Seq(Sqes) /\ recvs \in Seq(Sqes) /\ SameButRecv(d, e)
  BY <1>1 DEF RecvSteps
<1>4. Taking /\ fd1 \in Fds /\ Cqe1.res > 0
  BY <1>1, RecvDataFacts DEF Updates, Updated
<1>5. Received \in Seq(Byte)
  BY <1>2, <1>4, ReceivedTyped
<1>6. /\ p.closing = c.closing /\ p.pollout_armed = c.pollout_armed
      /\ p.tx.send_inflight = c.tx.send_inflight
  BY <1>3, <1>5, ParsedTyped
<1>7. /\ p.closing = c1.closing /\ p.pollout_armed = c1.pollout_armed
      /\ p.tx.send_inflight = c1.tx.send_inflight
  BY <1>3, <1>6 DEF SameButRecv
<1> DEFINE r == sendkick_inline(fd1, p)
<1>8. r = sendkick_inline(fd1, p) /\ d = r.c /\ sends = r.sqes
  BY <1>3
<1> HIDE DEF r
<1>9. /\ d.pollout_armed = p.pollout_armed /\ d.closing = p.closing
      /\ \/ Members(sends) \cap SendReqs(fd1) # {} /\ d.tx.send_inflight
         \/ d.tx = p.tx /\ (p.tx.txq # <<>> => p.tx.send_inflight)
  BY <1>3, <1>4, <1>8, KickFlows
<1>10. e.pollout_armed = d.pollout_armed /\ e.closing = d.closing /\ e.tx = d.tx
  BY <1>3 DEF SameButRecv
<1> DEFINE two == Returned \o sends
           new == two \o recvs
<1>11. two \in Seq(Sqes) /\ Members(two) = Members(Returned) \cup Members(sends)
  BY <1>2, <1>3, MembersConcat
<1>12. Updates(e, new)
  BY <1>1
<1> HIDE DEF two
<1>13. Members(new) = Members(two) \cup Members(recvs)
  BY <1>3, <1>11, MembersConcat
<1> HIDE DEF new
<1>14. Members(sends) \cap SendReqs(fd1) # {} => Members(new) \cap SendReqs(fd1) # {}
  BY <1>11, <1>13
<1>15. ~ e.closing =>
         /\ ~ c1.closing
         /\ e.tx.send_inflight => \/ Members(new) \cap SendReqs(fd1) # {}
                                  \/ c1.tx.send_inflight /\ Cqe1.tag.op # "Send"
         /\ e.pollout_armed => c1.pollout_armed /\ Cqe1.tag.op # "PollOut"
         /\ e.tx.txq # <<>> => e.tx.send_inflight \/ e.pollout_armed
  BY <1>2, <1>7, <1>9, <1>10, <1>14
<1> QED  BY <1>12, <1>15, FlowUpdates

(* A new storage has nothing queued, and takes the place of none.          *)
LEMMA FlowAccepted ==
  ASSUME Types, Flow, HandleAccepted
  PROVE  Flow'
<1>1. /\ Taking /\ Cqe1.tag.op = "Accept" /\ Cqe1.conn \in 1 .. MAX_CONNS
  BY AcceptedFacts
<1>2. PICK d, new : /\ Queues(new)
                    /\ SameButRecv(FreshStorage(Cqe1.conn), d)
                    /\ table' = [ f \in DOMAIN table \cup { Cqe1.res } |->
                                    IF f \in DOMAIN table THEN table[f] ELSE d ]
  BY AcceptedFacts
<1>3. ~ d.tx.send_inflight /\ d.tx.txq = <<>> /\ ~ d.pollout_armed
  BY <1>2 DEF SameButRecv, FreshStorage, InitTx
<1> SUFFICES ASSUME NEW f \in Live'
             PROVE  Flows(f)'
  BY DEF Flow
<1>4. CASE f \in DOMAIN table
  <2>1. table'[f] = table[f]
    BY <1>2, <1>4
  <2>2. f \in Live /\ f \in Fds
    BY <1>4, <2>1 DEF Live, Types, LoopTypes
  <2>3. Flows(f)
    BY <2>2 DEF Flow
  <2> QED  BY <1>1, <1>2, <2>1, <2>2, <2>3, FlowsKept
<1>5. CASE f \notin DOMAIN table
  <2>1. table'[f] = d
    BY <1>2, <1>5 DEF Live
  <2> QED  BY <1>3, <2>1 DEF Flows
<1> QED  BY <1>4, <1>5

(* Every handler keeps it.                                                 *)
LEMMA FlowHandle ==
  ASSUME Types, Flow, Handle
  PROVE  Flow'
<1>1. CASE HandleAcceptFailed
  <2>1. Taking /\ Cqe1.tag.op = "Accept" /\ UNCHANGED table /\ \E new : Queues(new)
    BY <1>1, AcceptFailedFacts
  <2> QED  BY <2>1, FlowIdle DEF Live
<1>2. CASE HandleAccepted
  BY <1>2, FlowAccepted
<1>3. CASE HandleRecvFailed
  <2>1. PICK d, new : /\ Updates(d, new)
                      /\ d.tx = c1.tx /\ d.pollout_armed = c1.pollout_armed
                      /\ c1.closing => d.closing
    BY <1>3, RecvFailedFacts
  <2>2. Cqe1.tag.op = "Recv"
    BY <1>3, RecvFailedFacts
  <2>3. ASSUME ~ d.closing
        PROVE  d.tx.txq # <<>> => d.tx.send_inflight \/ d.pollout_armed
    <3>1. fd1 \in Live
      BY <2>1, <2>3 DEF Updates, Updated, Live, c1
    <3> QED  BY <2>1, <3>1 DEF Flow, Flows, c1
  <2> QED  BY <2>1, <2>2, <2>3, FlowUpdates
<1>4. CASE HandleRecvData
  BY <1>4, FlowData
<1>5. CASE HandleSendCompleted
  <2>1. PICK e, d, new :
          /\ Updates(d, new) /\ e = OnSendComplete(c1) /\ e \in Storage
          /\ \/ d.closing
             \/ d = sendkick_inline(fd1, e).c /\ new = sendkick_inline(fd1, e).sqes
    BY <1>5, SendCompletedFacts
  <2>2. e.closing = c1.closing /\ e.pollout_armed = c1.pollout_armed
    <3>1. c1 \in Storage
      BY <2>1 DEF Updates, Updated
    <3> QED  BY <2>1, <3>1 DEF OnSendComplete, Storage
  <2>3. ~ e.tx.send_inflight
    <3>1. c1 \in Storage
      BY <2>1 DEF Updates, Updated
    <3>2. e.tx = Completed(c1.tx)
      BY <2>1, <3>1 DEF OnSendComplete, Storage
    <3> QED  BY <3>2 DEF Completed
  <2>4. Cqe1.tag.op = "Send"
    BY <1>5, SendCompletedFacts
  <2>5. CASE d.closing
    BY <2>1, <2>5, FlowUpdates
  <2>6. CASE d = sendkick_inline(fd1, e).c /\ new = sendkick_inline(fd1, e).sqes
    BY <2>1, <2>2, <2>3, <2>4, <2>6, FlowKicked
  <2> QED  BY <2>1, <2>5, <2>6
<1>6. CASE HandleSendAgain
  <2>1. PICK d, new :
          /\ Updates(d, new) /\ SameButSend(c1, d)
          /\ d.tx = RollBack(c1.tx) /\ d.pollout_armed
          /\ c1.pollout_armed \/ new = << PollOf(fd1) >>
    BY <1>6, SendAgainFacts
  <2>2. ~ d.tx.send_inflight /\ d.closing = c1.closing
    BY <2>1 DEF RollBack, SameButSend
  <2>3. fd1 \in Fds
    BY <2>1 DEF Updates, Updated
  <2>4. c1.pollout_armed \/ Members(new) \cap PollReqs(fd1) # {}
    <3> DEFINE s == PollOf(fd1)
    <3>1. s \in PollReqs(fd1)
      BY <2>3, SendReqsAre
    <3>2. c1.pollout_armed \/ new = << s >>
      BY <2>1
    <3> HIDE DEF s
    <3> QED  BY <3>1, <3>2, MembersOne
  <2>5. Cqe1.tag.op = "Send"
    BY <1>6, SendAgainFacts
  <2> QED  BY <2>1, <2>2, <2>4, <2>5, FlowUpdates
<1>7. CASE HandleSendFailed
  <2>1. \E d, new : Updates(d, new) /\ d.closing
    BY <1>7, SendFailedFacts
  <2> QED  BY <2>1, FlowUpdates
<1>8. CASE HandlePollOut
  <2>1. PICK c, d, new :
          /\ Updates(d, new) /\ c \in Storage /\ SameButSend(c1, c)
          /\ c.tx = c1.tx /\ ~ c.pollout_armed
          /\ d = sendkick_inline(fd1, c).c /\ new = sendkick_inline(fd1, c).sqes
    BY <1>8, PollOutFacts
  <2>2. c.closing = c1.closing /\ Cqe1.tag.op = "PollOut"
    BY <1>8, <2>1, PollOutFacts DEF SameButSend
  <2>3. c1.closing => c.closing
    BY <2>2
  <2>4. c.tx.send_inflight => c1.tx.send_inflight /\ Cqe1.tag.op # "Send"
    BY <2>1, <2>2
  <2> QED  BY <2>1, <2>3, <2>4, FlowKicked
<1>9. CASE HandleClose
  <2>1. /\ Taking /\ Queues(<<>>) /\ Cqe1.tag.op = "Close"
        /\ table' = [ f \in DOMAIN table \ { fd1 } |-> table[f] ]
    BY <1>9, CloseFacts
  <2>2. \A f \in Live' : f \in Live /\ table'[f] = table[f]
    BY <2>1 DEF Live
  <2> QED  BY <2>1, <2>2, FlowIdle
<1>10. CASE HandleNothing
  <2>1. /\ Taking /\ Queues(<<>>) /\ UNCHANGED table
        /\ fd1 \in DOMAIN table => Cqe1.tag.op = "Recv"
    BY <1>10, NothingFacts DEF loopVars
  <2> QED  BY <2>1, FlowIdle DEF Live
<1> QED  BY <1>1, <1>2, <1>3, <1>4, <1>5, <1>6, <1>7, <1>8, <1>9, <1>10, Zenon DEF Handle

(* Every step of the ring keeps it.                                        *)
LEMMA FlowRing ==
  ASSUME Types, Flow, UNCHANGED << loopVars, peerVars >>,
         \/ Issue
         \/ KernelAccept \/ KernelRecv(Part) \/ KernelSend \/ KernelPoll
         \/ Connect \/ PeerEnds \/ OtherAccept \/ OtherClose
  PROVE  Flow'
<1>1. UNCHANGED stream /\ UNCHANGED table
  BY DEF loopVars, peerVars
<1>2. ASSUME NEW kind, kind # "provide", NEW tag,
             Pending(Reqs(kind, tag), Cqes(tag)) > 0
      PROVE  Pending(Reqs(kind, tag), Cqes(tag))' > 0
  BY <1>1, <1>2, KeptRing, Zenon
<1> SUFFICES ASSUME NEW f \in Live'
             PROVE  Flows(f)'
  BY Zenon DEF Flow
<1>3. f \in Live /\ Flows(f) /\ table'[f] = table[f]
  <2>1. f \in Live
    BY <1>1, Zenon DEF Live
  <2> QED  BY <1>1, <2>1, Zenon DEF Flow
<1>4. Pending(SendReqs(f), SendCqes(f)) > 0 => Pending(SendReqs(f), SendCqes(f))' > 0
  <2>1. "send" # "provide"
    OBVIOUS
  <2> QED  BY <1>2, <2>1, Zenon DEF SendReqs, SendCqes
<1>5. Pending(PollReqs(f), PollCqes(f)) > 0 => Pending(PollReqs(f), PollCqes(f))' > 0
  <2>1. "poll" # "provide"
    OBVIOUS
  <2> QED  BY <1>2, <2>1, Zenon DEF PollReqs, PollCqes
<1> QED  BY <1>3, <1>4, <1>5, Zenon DEF Flows

(* It implies NoLostKick.                                                  *)
LEMMA FlowGivesNoLostKick ==
  ASSUME Types, Flow
  PROVE  NoLostKick
<1> SUFFICES ASSUME NEW f \in Live, table[f].tx.txq # <<>>
             PROVE  UnderWay("send", Tag(f, "Send")) + UnderWay("poll", Tag(f, "PollOut")) > 0
  BY DEF NoLostKick
<1>1. /\ UnderWay("send", Tag(f, "Send")) = Pending(SendReqs(f), SendCqes(f))
      /\ UnderWay("poll", Tag(f, "PollOut")) = Pending(PollReqs(f), PollCqes(f))
  BY UnderWayPending DEF SendReqs, SendCqes, PollReqs, PollCqes
<1>2. /\ Pending(SendReqs(f), SendCqes(f)) \in Nat
      /\ Pending(PollReqs(f), PollCqes(f)) \in Nat
  BY PendingHas
<1>3. \/ Pending(SendReqs(f), SendCqes(f)) > 0
      \/ Pending(PollReqs(f), PollCqes(f)) > 0
  BY DEF Flow, Flows
<1> QED  BY <1>1, <1>2, <1>3

(* Whatever the peers send and whenever they end, whatever the kernel takes*)
(* of a sendmsg or answers EAGAIN to, and whether descriptors are closed,  *)
(* by this worker or another, and given out again: a live connection with  *)
(* queued data has a sendmsg or a poll under way, which kicks it again     *)
(* (sendkick_inline, arm_pollout, PollOut handler).                        *)
THEOREM QueuedIsKicked == Spec => []NoLostKick
<1>1. Init => Flow
  <2>1. Init => table = <<>>
    BY DEF Init
  <2> QED  BY <2>1 DEF Flow, Live
<1>2. Types /\ Flow /\ [Next]_vars => Flow'
  <2> SUFFICES ASSUME Types, Flow, [Next]_vars
               PROVE  Flow'
    OBVIOUS
  <2>1. CASE Handle
    BY <2>1, FlowHandle
  <2>2. CASE /\ \/ Issue
                \/ KernelAccept \/ KernelRecv(Part) \/ KernelSend \/ KernelPoll
                \/ Connect \/ PeerEnds \/ OtherAccept \/ OtherClose
             /\ UNCHANGED << loopVars, peerVars >>
    BY <2>2, FlowRing, Zenon
  <2>3. CASE UNCHANGED vars
    <3>1. UNCHANGED << sq, cq, ops, table >>
      BY <2>3 DEF vars, uringVars, loopVars
    <3> QED  BY <3>1, QuietPending DEF Flow, Flows, Live
  <2> QED  BY <2>1, <2>2, <2>3, Steps, Zenon
<1>3. Types /\ Flow => NoLostKick
  BY FlowGivesNoLostKick
<1> QED  BY <1>1, <1>2, <1>3, PrototypeTypes, PTL DEF Spec

-----------------------------------------------------------------------------
(* Buffers of the pool.                                                    *)

Provides == { r \in Sqes : r.kind = "provide" }

Filled == { c \in Answers : c.buffer }

AllBuffers == IF have_buf_pool THEN BUF_CNT ELSE 0

(* Buffers with the kernel, on their way to it, or filled, are not more    *)
(* than there are.                                                         *)
Buffers == pool + Pending(Provides, Filled) <= AllBuffers

(* The numbers that it compares.                                           *)
LEMMA BufferNumbers ==
  ASSUME Types
  PROVE  pool \in Nat /\ Pending(Provides, Filled) \in Nat /\ AllBuffers \in Nat
<1>1. pool \in Nat /\ BUF_CNT \in Nat
  BY Constants DEF Types, RingTypes
<1> QED  BY <1>1, PendingHas DEF AllBuffers

(* A handler gives back at most the buffer that its completion brings.     *)
LEMMA BuffersTaking ==
  ASSUME Types, Buffers, Taking, NEW new, Queues(new), UNCHANGED have_buf_pool,
         Count(new, Provides) <= Once(Cqe1, Filled)
  PROVE  Buffers'
<1>1. /\ Count(new, Provides) \in Nat
      /\ Pending(Provides, Filled) \in Nat /\ Pending(Provides, Filled)' \in Nat
      /\ Pending(Provides, Filled)' + Once(Cqe1, Filled)
           = Pending(Provides, Filled) + Count(new, Provides)
  BY TakingPending, PendingHas
<1>2. Once(Cqe1, Filled) \in Nat
  BY OnceType
<1>3. UNCHANGED << pool, AllBuffers >>
  BY DEF Taking, kernelVars, AllBuffers
<1>4. Pending(Provides, Filled)' <= Pending(Provides, Filled)
  BY <1>1, <1>2
<1> QED  BY <1>1, <1>3, <1>4, BufferNumbers DEF Buffers

(* A handler that returns none.                                            *)
LEMMA BuffersQuiet ==
  ASSUME Types, Buffers, Taking, NEW new, Queues(new), UNCHANGED have_buf_pool,
         \A r \in Members(new) : r.kind # "provide"
  PROVE  Buffers'
<1>1. Members(new) \cap Provides = {}
  BY DEF Provides
<1>2. Count(new, Provides) = 0 /\ Once(Cqe1, Filled) \in Nat
  BY <1>1, CountNone, OnceType DEF Queues
<1> QED  BY <1>2, BuffersTaking

(* What a kick asks for is no buffer.                                      *)
LEMMA KickProvidesNone ==
  ASSUME NEW c \in Storage, NEW r, r = sendkick_inline(fd1, c), fd1 \in Fds
  PROVE  \A q \in Members(r.sqes) : q.kind # "provide"
<1>1. \/ r.sqes = <<>>
      \/ r.sqes = << SendOf(fd1, r.c.tx.tx_inflight) >>
  BY KickTyped
<1> DEFINE s == SendOf(fd1, r.c.tx.tx_inflight)
<1>2. s.kind = "send"
  BY Made
<1>3. r.sqes = <<>> \/ r.sqes = << s >>
  BY <1>1
<1> DEFINE t == r.sqes
<1>4. t = <<>> \/ t = << s >>
  BY <1>3
<1> HIDE DEF s, t
<1>5. \A q \in Members(t) : q.kind # "provide"
  BY <1>2, <1>4, MembersOne
<1> QED  BY <1>5 DEF t

(* Received data: the buffer it came in is returned, and only once.        *)
LEMMA BuffersData ==
  ASSUME Types, Buffers, HandleRecvData
  PROVE  Buffers'
<1>1. PICK c, p, d, e, sends, recvs :
        RecvSteps(c, p, d, e, sends, recvs) /\ Updates(e, Returned \o sends \o recvs)
  BY RecvDataFacts
<1>2. Returned \in Seq(Sqes) /\ UNCHANGED have_buf_pool
  BY RecvDataFacts DEF flags
<1>3. Taking /\ fd1 \in Fds
  BY <1>1 DEF Updates, Updated
<1>4. /\ p \in Storage /\ sends = sendkick_inline(fd1, p).sqes
      /\ sends \in Seq(Sqes) /\ recvs \in Seq(Sqes)
      /\ recvs = <<>> \/ \E m \in BOOLEAN : recvs = << RecvOf(fd1, m) >>
  BY <1>1 DEF RecvSteps
<1> DEFINE back == Returned
           two == back \o sends
           new == two \o recvs
<1>5. Queues(new) /\ back \in Seq(Sqes)
  BY <1>1, <1>2 DEF Updates
<1>6. Count(back, Provides) <= Once(Cqe1, Filled)
  <2>1. Count(<< Buf >>, Provides) = 1 /\ Count(<<>>, Provides) = 0
    <3>1. Buf \in Provides
      BY RequestsTyped, Made DEF Provides
    <3> QED  BY <3>1, CountOne, CountEmpty DEF Once
  <2>2. Cqe1.buffer => Once(Cqe1, Filled) = 1
    BY <1>3 DEF Taking, Filled, Once
  <2>3. \/ back = << Buf >> /\ Cqe1.buffer
        \/ back = <<>>
    BY DEF Returned, InPoolBuffer
  <2>4. Once(Cqe1, Filled) \in Nat
    BY OnceType
  <2> HIDE DEF back
  <2> QED  BY <2>1, <2>2, <2>3, <2>4
<1> HIDE DEF back
<1>7. Count(sends, Provides) = 0
  <2> DEFINE r == sendkick_inline(fd1, p)
  <2>1. r = sendkick_inline(fd1, p) /\ sends = r.sqes
    BY <1>4
  <2> HIDE DEF r
  <2>2. Members(sends) \cap Provides = {}
    BY <1>3, <1>4, <2>1, KickProvidesNone DEF Provides
  <2> QED  BY <1>4, <2>2, CountNone
<1>8. Count(recvs, Provides) = 0
  <2>1. \A r \in Members(recvs) : r.kind = "recv"
    BY <1>4, MembersMade, MembersOne, Made
  <2>2. Members(recvs) \cap Provides = {}
    BY <2>1 DEF Provides
  <2> QED  BY <1>4, <2>2, CountNone
<1>9. two \in Seq(Sqes) /\ Count(two, Provides) = Count(back, Provides) + Count(sends, Provides)
  BY <1>4, <1>5, MembersConcat, CountConcat
<1>10. Count(back, Provides) \in Nat
  BY <1>5, HitsFinite
<1> HIDE DEF two
<1>11. Count(new, Provides) = Count(two, Provides) + Count(recvs, Provides)
  BY <1>4, <1>9, CountConcat
<1> HIDE DEF new
<1>12. Count(new, Provides) <= Once(Cqe1, Filled)
  BY <1>6, <1>7, <1>8, <1>9, <1>10, <1>11
<1> QED  BY <1>2, <1>3, <1>5, <1>12, BuffersTaking

(* Every handler returns at most the buffer it takes.                      *)
LEMMA BuffersHandle ==
  ASSUME Types, Buffers, Handle
  PROVE  Buffers'
<1>m. /\ \A m : \A r \in Members(<< AcceptOf(m) >>) : r.kind # "provide"
      /\ \A f, m : \A r \in Members(<< RecvOf(f, m) >>) : r.kind # "provide"
      /\ \A f : \A r \in Members(<< PollOf(f) >>) : r.kind # "provide"
      /\ \A f, k : \A r \in Members(<< CloseOf(f, k) >>) : r.kind # "provide"
      /\ \A r \in Members(<<>>) : r.kind # "provide"
  <2>1. \A m : \A r \in Members(<< AcceptOf(m) >>) : r.kind # "provide"
    <3> SUFFICES ASSUME NEW m
                 PROVE  \A r \in Members(<< AcceptOf(m) >>) : r.kind # "provide"
      OBVIOUS
    <3> DEFINE s == AcceptOf(m)
    <3>1. s.kind = "accept"
      BY Made
    <3> HIDE DEF s
    <3>2. \A r \in Members(<< s >>) : r.kind # "provide"
      BY <3>1, MembersOne
    <3> QED  BY <3>2 DEF s
  <2>2. \A r \in Members(<<>>) : r.kind # "provide"
    BY MembersOne
  <2> QED  BY <2>1, <2>2, MembersMade, Made
<1>n. ASSUME NEW d, NEW new, Updates(d, new)
      PROVE  Taking /\ Queues(new) /\ fd1 \in Fds
  BY <1>n DEF Updates, Updated
<1>k. ASSUME NEW c \in Storage, NEW d, NEW new, Updates(d, new),
             new = sendkick_inline(fd1, c).sqes
      PROVE  \A r \in Members(new) : r.kind # "provide"
  <2> DEFINE s == sendkick_inline(fd1, c)
  <2>1. s = sendkick_inline(fd1, c) /\ new = s.sqes /\ fd1 \in Fds
    BY <1>k, <1>n
  <2> HIDE DEF s
  <2> QED  BY <2>1, KickProvidesNone
<1>1. CASE HandleAcceptFailed
  <2>1. PICK new : /\ Queues(new)
                   /\ new = <<>> \/ \E m \in BOOLEAN : new = << AcceptOf(m) >>
    BY <1>1, AcceptFailedFacts
  <2>2. Taking /\ UNCHANGED have_buf_pool
    BY <1>1, AcceptFailedFacts
  <2>3. \A r \in Members(new) : r.kind # "provide"
    BY <1>m, <2>1
  <2> QED  BY <2>1, <2>2, <2>3, BuffersQuiet
<1>2. CASE HandleAccepted
  <2>1. PICK recv, accept :
          /\ recv \in Seq(Sqes) /\ accept \in Seq(Sqes) /\ Queues(recv \o accept)
          /\ recv = << RecvOf(Cqe1.res, InPool) >> \/ recv = <<>>
          /\ accept = <<>> \/ \E m \in BOOLEAN : accept = << AcceptOf(m) >>
    BY <1>2, AcceptedFacts
  <2>2. Taking /\ UNCHANGED have_buf_pool
    BY <1>2, AcceptedFacts
  <2> DEFINE new == recv \o accept
  <2>3. Members(new) = Members(recv) \cup Members(accept) /\ Queues(new)
    BY <2>1, MembersConcat
  <2> HIDE DEF new
  <2>4. \A r \in Members(recv) : r.kind # "provide"
    BY <1>m, <2>1
  <2>5. \A r \in Members(accept) : r.kind # "provide"
    BY <1>m, <2>1
  <2> QED  BY <2>2, <2>3, <2>4, <2>5, BuffersQuiet
<1>3. CASE HandleRecvFailed
  <2>1. PICK d, new : /\ Updates(d, new)
                      /\ \/ new = << RecvOf(fd1, FALSE) >>
                         \/ new = <<>>
                         \/ new = << CloseOf(fd1, Cqe1.conn) >>
    <3>1. \E d, new : /\ Updates(d, new)
                      /\ \/ /\ ~ c1.closing => new = << RecvOf(fd1, FALSE) >>
                            /\ c1.closing => new = <<>>
                         \/ new = << CloseOf(fd1, Cqe1.conn) >>
      BY <1>3, RecvFailedFacts
    <3> QED  BY <3>1
  <2>2. UNCHANGED have_buf_pool
    BY <1>3, RecvFailedFacts
  <2>3. \A r \in Members(new) : r.kind # "provide"
    BY <1>m, <2>1
  <2> QED  BY <1>n, <2>1, <2>2, <2>3, BuffersQuiet
<1>4. CASE HandleRecvData
  BY <1>4, BuffersData
<1>5. CASE HandleSendCompleted
  <2>1. PICK e, d, new :
          /\ Updates(d, new) /\ e \in Storage
          /\ \/ new = << CloseOf(fd1, Cqe1.conn) >>
             \/ new = sendkick_inline(fd1, e).sqes
    BY <1>5, SendCompletedFacts
  <2>2. UNCHANGED have_buf_pool
    BY <1>5, SendCompletedFacts DEF flags
  <2>3. \A r \in Members(new) : r.kind # "provide"
    BY <1>k, <1>m, <2>1
  <2> QED  BY <1>n, <2>1, <2>2, <2>3, BuffersQuiet
<1>6. CASE HandleSendAgain
  <2>1. PICK d, new : Updates(d, new) /\ (new = <<>> \/ new = << PollOf(fd1) >>)
    BY <1>6, SendAgainFacts
  <2>2. UNCHANGED have_buf_pool
    BY <1>6, SendAgainFacts DEF flags
  <2>3. \A r \in Members(new) : r.kind # "provide"
    BY <1>m, <2>1
  <2> QED  BY <1>n, <2>1, <2>2, <2>3, BuffersQuiet
<1>7. CASE HandleSendFailed
  <2>1. PICK d, new : Updates(d, new) /\ new = << CloseOf(fd1, Cqe1.conn) >>
    BY <1>7, SendFailedFacts
  <2>2. UNCHANGED have_buf_pool
    BY <1>7, SendFailedFacts DEF flags
  <2>3. \A r \in Members(new) : r.kind # "provide"
    BY <1>m, <2>1
  <2> QED  BY <1>n, <2>1, <2>2, <2>3, BuffersQuiet
<1>8. CASE HandlePollOut
  <2>1. PICK c, d, new :
          Updates(d, new) /\ c \in Storage /\ new = sendkick_inline(fd1, c).sqes
    BY <1>8, PollOutFacts
  <2>2. UNCHANGED have_buf_pool
    BY <1>8, PollOutFacts DEF flags
  <2>3. \A r \in Members(new) : r.kind # "provide"
    BY <1>k, <2>1
  <2> QED  BY <1>n, <2>1, <2>2, <2>3, BuffersQuiet
<1>9. CASE HandleClose \/ HandleNothing
  <2>1. Taking /\ Queues(<<>>) /\ UNCHANGED have_buf_pool
    BY <1>9, CloseFacts, NothingFacts DEF loopVars, flags
  <2> QED  BY <1>m, <2>1, BuffersQuiet
<1> QED  BY <1>1, <1>2, <1>3, <1>4, <1>5, <1>6, <1>7, <1>8, <1>9, Zenon DEF Handle

(* A returned buffer is in the pool once it is issued.                     *)
LEMMA BuffersIssue ==
  ASSUME Types, Buffers, Issue, UNCHANGED << stream, have_buf_pool >>
  PROVE  Buffers'
<1> DEFINE r == Head(sq)
<1>0. r = Head(sq)
  OBVIOUS
<1> HIDE DEF r
<1>1. sq # <<>> /\ r \in Sqes /\ sq' = Tail(sq)
  BY <1>0, IssueFacts
<1>2. UNCHANGED AllBuffers
  BY DEF AllBuffers
<1>3. pool \in Nat /\ Pending(Provides, Filled) \in Nat /\ AllBuffers \in Nat
  BY BufferNumbers
<1>4. CASE UNCHANGED pool /\ \E op : Begins(op)
  <2>1. Pending(Provides, Filled)' = Pending(Provides, Filled)
    BY <1>1, <1>4, BeginsPending
  <2> QED  BY <1>2, <1>4, <2>1 DEF Buffers
<1>5. ASSUME NEW new, RepliesTo(r, new)
      PROVE  /\ Pending(Provides, Filled)' \in Nat
             /\ Pending(Provides, Filled)' + Once(r, Provides) = Pending(Provides, Filled)
  <2>1. Replies(new) /\ new \in Seq(Answers) /\ Members(new) \cap Filled = {}
    BY <1>5 DEF RepliesTo, Replies, Filled
  <2>2. Count(new, Filled) = 0
    BY <2>1, CountNone
  <2>3. /\ Pending(Provides, Filled)' \in Nat
        /\ Pending(Provides, Filled)' + Once(r, Provides)
             = Pending(Provides, Filled) + Count(new, Filled)
    BY <1>0, <1>1, <2>1, RepliesPending
  <2> QED  BY <1>3, <2>2, <2>3
<1>6. CASE \E new : /\ RepliesTo(r, new)
                    /\ IF r.kind = "provide" THEN pool' = pool + 1 ELSE UNCHANGED pool
  <2>1. /\ Pending(Provides, Filled)' \in Nat
        /\ Pending(Provides, Filled)' + Once(r, Provides) = Pending(Provides, Filled)
    BY <1>5, <1>6
  <2>2. pool' = pool + Once(r, Provides) /\ Once(r, Provides) \in Nat
    BY <1>1, <1>3, <1>6 DEF Once, Provides
  <2> QED  BY <1>2, <1>3, <2>1, <2>2 DEF Buffers
<1> QED  BY <1>0, <1>4, <1>6, IssueReplies

(* An operation that completes leaves as many as it brings.                *)
LEMMA BuffersCompletes ==
  ASSUME Types, Buffers, UNCHANGED have_buf_pool, NEW op, NEW cqe, Completes(op, cqe),
         \/ ~ cqe.buffer /\ UNCHANGED pool
         \/ pool > 0 /\ pool' = pool - 1
  PROVE  Buffers'
<1>1. UNCHANGED AllBuffers
  BY DEF AllBuffers
<1>2. pool \in Nat /\ Pending(Provides, Filled) \in Nat /\ AllBuffers \in Nat
  BY BufferNumbers
<1>3. /\ Pending(Provides, Filled)' \in Nat
      /\ Pending(Provides, Filled)' + (IF cqe.more THEN 0 ELSE Once(op.sqe, Provides))
           = Pending(Provides, Filled) + Once(cqe, Filled)
  BY CompletesPending
<1>4. Once(op.sqe, Provides) \in Nat /\ Once(cqe, Filled) \in 0 .. 1
  BY OnceType DEF Once
<1>5. ~ cqe.buffer => Once(cqe, Filled) = 0
  BY DEF Once, Filled
<1>6. Pending(Provides, Filled)' <= Pending(Provides, Filled) + Once(cqe, Filled)
  BY <1>2, <1>3, <1>4
<1>7. CASE ~ cqe.buffer /\ UNCHANGED pool
  BY <1>1, <1>2, <1>3, <1>5, <1>6, <1>7 DEF Buffers
<1>8. CASE pool > 0 /\ pool' = pool - 1
  BY <1>1, <1>2, <1>3, <1>4, <1>6, <1>8 DEF Buffers
<1> QED  BY <1>7, <1>8

(* So every step of the ring keeps it.                                     *)
LEMMA BuffersRing ==
  ASSUME Types, Buffers, UNCHANGED << stream, have_buf_pool >>,
         \/ Issue
         \/ KernelAccept \/ KernelRecv(Part) \/ KernelSend \/ KernelPoll
         \/ Connect \/ PeerEnds \/ OtherAccept \/ OtherClose
  PROVE  Buffers'
<1>1. CASE Issue
  BY <1>1, BuffersIssue
<1>2. CASE KernelRecv(Part)
  <2>1. PICK op, cqe : /\ Completes(op, cqe)
                       /\ \/ ~ cqe.buffer /\ UNCHANGED pool
                          \/ /\ cqe.buffer <=> op.sqe.multi
                             /\ op.sqe.multi => pool > 0 /\ pool' = pool - 1
                             /\ ~ op.sqe.multi => pool' = pool
    BY <1>2, RecvDone
  <2>2. \/ ~ cqe.buffer /\ UNCHANGED pool
        \/ pool > 0 /\ pool' = pool - 1
    BY <2>1
  <2> QED  BY <2>1, <2>2, BuffersCompletes
<1>3. CASE KernelAccept \/ KernelSend \/ KernelPoll
  <2>1. \E op, cqe : Completes(op, cqe) /\ ~ cqe.buffer /\ UNCHANGED pool
    BY <1>3, AcceptDone, SendDone, PollDone
  <2> QED  BY <2>1, BuffersCompletes
<1>4. CASE Connect \/ PeerEnds \/ OtherAccept \/ OtherClose
  <2>1. UNCHANGED << sq, cq, ops, pool >>
    BY <1>4, OthersKeepTypes
  <2>2. Pending(Provides, Filled)' = Pending(Provides, Filled)
    BY <2>1, QuietPending
  <2> QED  BY <2>1, <2>2 DEF Buffers, AllBuffers
<1> QED  BY <1>1, <1>2, <1>3, <1>4, Zenon

(* At first every buffer is in the pool.                                   *)
LEMMA BuffersInit ==
  ASSUME Init
  PROVE  Buffers
<1>1. pool = AllBuffers /\ cq = <<>> /\ sq = post_accept(TRUE, FALSE) /\ ops = EmptyBag
  BY DEF Init, UringInit, AllBuffers
<1> DEFINE s == AcceptOf(TRUE)
<1>2. sq = << s >> /\ s \notin Provides
  BY <1>1, Made DEF post_accept, Provides
<1> HIDE DEF s
<1>3. Count(sq, Provides) = 0 /\ Count(cq, Filled) = 0 /\ Mult(ops, Provides) = 0
  BY <1>1, <1>2, CountOne, CountEmpty, MultEmpty DEF Once
<1>4. Pending(Provides, Filled) = 0
  BY <1>3 DEF Pending
<1>5. Types
  BY InitTyped
<1> QED  BY <1>1, <1>4, <1>5, BufferNumbers DEF Buffers

(* It says the same of the buffers in use.                                 *)
LEMMA BuffersInUseAre ==
  ASSUME Types
  PROVE  BuffersInUse = pool + Pending(Provides, Filled)
<1> DEFINE P(sqe) == sqe.kind = "provide"
<1>1. sq \in Seq(Sqes) /\ cq \in Seq(Answers) /\ DOMAIN ops \subseteq Operations
      /\ FiniteBag(ops)
  BY DEF Types, RingTypes, Sequences
<1>2. Queued(P) = Count(sq, Provides)
  <2>1. \A i \in 1 .. Len(sq) : P(sq[i]) <=> sq[i] \in Provides
    BY <1>1 DEF Provides
  <2>2. { i \in 1 .. Len(sq) : P(sq[i]) } = Hits(sq, Provides)
    BY <2>1 DEF Hits
  <2> QED  BY <2>2 DEF Queued, Count
<1>3. Cardinality({ i \in 1 .. Len(cq) : cq[i].buffer }) = Count(cq, Filled)
  <2>1. \A i \in 1 .. Len(cq) : cq[i].buffer <=> cq[i] \in Filled
    BY <1>1 DEF Filled
  <2>2. { i \in 1 .. Len(cq) : cq[i].buffer } = Hits(cq, Filled)
    BY <2>1 DEF Hits
  <2> QED  BY <2>2 DEF Count
<1>4. Mult(ops, Provides) = 0
  <2>1. \A o \in DOMAIN ops : o.sqe \notin Provides
    BY <1>1 DEF Operations, Provides
  <2> QED  BY <1>1, <2>1, MultPositive, MultType
<1>5. Count(sq, Provides) \in Nat /\ Count(cq, Filled) \in Nat /\ pool \in Nat
  BY <1>1, HitsFinite DEF Types, RingTypes
<1> QED  BY <1>2, <1>3, <1>4, <1>5 DEF BuffersInUse, Pending

(* For every kernel and pool, and also when receives are given up or left  *)
(* behind by connections that peers end, that are closed twice or closed   *)
(* by another worker: no more receive buffers are with the kernel, on their*)
(* way to it or filled than the pool was given, so none is given back twice*)
(* (Recv handler).                                                         *)
THEOREM NoBufferTwice ==
  Spec => [](BuffersInUse <= IF have_buf_pool THEN BUF_CNT ELSE 0)
<1>1. Init => Buffers
  BY BuffersInit
<1>2. Types /\ Buffers /\ [Next]_vars => Buffers'
  <2> SUFFICES ASSUME Types, Buffers, [Next]_vars
               PROVE  Buffers'
    OBVIOUS
  <2>1. CASE Handle
    BY <2>1, BuffersHandle
  <2>2. CASE /\ \/ Issue
                \/ KernelAccept \/ KernelRecv(Part) \/ KernelSend \/ KernelPoll
                \/ Connect \/ PeerEnds \/ OtherAccept \/ OtherClose
             /\ UNCHANGED << loopVars, peerVars >>
    <3>1. UNCHANGED << stream, have_buf_pool >>
      BY <2>2 DEF loopVars, peerVars, flags
    <3> QED  BY <2>2, <3>1, BuffersRing, Zenon
  <2>3. CASE UNCHANGED vars
    <3>1. UNCHANGED << sq, cq, ops, pool, have_buf_pool >>
      BY <2>3 DEF vars, uringVars, kernelVars, loopVars, flags
    <3>2. Pending(Provides, Filled)' = Pending(Provides, Filled)
      BY <3>1, QuietPending
    <3> QED  BY <3>1, <3>2 DEF Buffers, AllBuffers
  <2> QED  BY <2>1, <2>2, <2>3, Steps, Zenon
<1>3. Types /\ Buffers => BuffersInUse <= IF have_buf_pool THEN BUF_CNT ELSE 0
  BY BuffersInUseAre DEF Buffers, AllBuffers
<1> QED  BY <1>1, <1>2, <1>3, PrototypeTypes, PTL DEF Spec
=============================================================================
