------------------------- MODULE WorkerBuffers_proofs -------------------------
(***************************************************************************)
(* What a Worker does with buffers.  Of receives: buffers of the pool      *)
(* return to it, and a live connection has one receive.  Of sends: data    *)
(* that is queued will be kicked, and buffers handed to the kernel are kept*)
(* until their sendmsg completes.                                          *)
(***************************************************************************)
EXTENDS WorkerTable_proofs

-----------------------------------------------------------------------------
(* Receives and the way they were asked for.                               *)

(* The receive r names a storage, and is into the pool unless the worker   *)
(* has given that up.                                                      *)
ReqFits(r) ==
  /\ r.fd \in DOMAIN table
  /\ r.multi => have_buf_pool
  /\ ~ r.multi => ~ InPool

(* The completion c comes from such a receive, or from a close.            *)
CqeFits(c) ==
  /\ c.res = EINVAL => ~ multishot
  /\ c.more => c.buffer
  /\ c.buffer => multishot /\ have_buf_pool /\ c.tag.fd \in DOMAIN table
  /\ ~ c.buffer /\ c.res > 0 => ~ InPool

Fits ==
  /\ use_ms_recv \/ ~ multishot
  /\ \A r \in Members(sq) : r.kind = "recv" => ReqFits(r)
  /\ \A o \in DOMAIN ops :
       o.sqe.kind = "recv" => ReqFits(o.sqe) /\ (o.sqe.multi => multishot)
  /\ \A c \in Members(cq) : c.tag.op = "Recv" => CqeFits(c)

(* What no step takes back.                                                *)
Grows ==
  /\ DOMAIN table \subseteq DOMAIN table'
  /\ use_ms_recv' => use_ms_recv
  /\ UNCHANGED << have_buf_pool, multishot >>

(* Receives that fit keep fitting.                                         *)
LEMMA FitsLater ==
  ASSUME Grows
  PROVE  /\ \A r : ReqFits(r) => ReqFits(r)'
         /\ \A c : CqeFits(c) => CqeFits(c)'
<1>1. InPool' => InPool
  BY DEF Grows, InPool
<1>2. \A r : ReqFits(r) => ReqFits(r)'
  BY <1>1 DEF Grows, ReqFits
<1>3. \A c : CqeFits(c) => CqeFits(c)'
  BY <1>1 DEF Grows, CqeFits
<1> QED  BY <1>2, <1>3

(* A filled buffer is one of the pool that the worker uses.                *)
LEMMA FilledInPool ==
  ASSUME Fits, Taking, Cqe1.buffer
  PROVE  InPoolBuffer /\ fd1 \in DOMAIN table
<1>1. Cqe1.tag.op = "Recv" /\ Cqe1 \in Members(cq)
  BY AnswerFacts DEF Taking
<1> QED  BY <1>1 DEF Fits, CqeFits, InPoolBuffer, InPool, fd1

(* A handler whose new receives fit.                                       *)
LEMMA FitsTaking ==
  ASSUME Types, Fits, Taking, NEW new, Queues(new), Grows,
         use_ms_recv' \/ ~ multishot,
         \A r \in Members(new) : r.kind = "recv" => ReqFits(r)'
  PROVE  Fits'
<1>1. \A r \in Members(sq') : r.kind = "recv" => r \in Members(sq) \cup Members(new)
  BY TakingMembers
<1>2. Members(cq') \subseteq Members(cq) /\ UNCHANGED << ops, multishot >>
  BY TakingMembers DEF Grows
<1>3. \A r \in Members(sq') : r.kind = "recv" => ReqFits(r)'
  BY <1>1, FitsLater DEF Fits
<1>4. \A o \in DOMAIN ops' : o.sqe.kind = "recv" => ReqFits(o.sqe)' /\ (o.sqe.multi => multishot')
  BY <1>2, FitsLater DEF Fits
<1>5. \A c \in Members(cq') : c.tag.op = "Recv" => CqeFits(c)'
  BY <1>2, FitsLater DEF Fits
<1> QED  BY <1>2, <1>3, <1>4, <1>5 DEF Fits

(* A handler whose receives are into the pool while the worker uses it.    *)
LEMMA FitsUpdates ==
  ASSUME Types, Fits, NEW c, NEW new, Updates(c, new),
         UNCHANGED have_buf_pool,
         use_ms_recv' = use_ms_recv \/ (~ use_ms_recv' /\ ~ multishot),
         \A r \in Members(new) : r.kind = "recv" => (r.multi <=> InPool')
  PROVE  Fits'
<1>1. /\ Taking /\ Queues(new) /\ fd1 \in DOMAIN table
      /\ table' = [ table EXCEPT ![fd1] = c ]
      /\ \A r \in Members(new) : r.kind \notin { "accept", "provide" } => r.fd = fd1
  BY DEF Updates
<1>2. DOMAIN table' = DOMAIN table
  BY <1>1 DEF Types
<1>3. Grows /\ (use_ms_recv' \/ ~ multishot)
  BY <1>1, <1>2 DEF Grows, Taking, kernelVars, Fits
<1>4. ASSUME NEW r \in Members(new), r.kind = "recv"
      PROVE  ReqFits(r)'
  BY <1>1, <1>2, <1>4 DEF ReqFits, InPool
<1> QED  BY <1>1, <1>3, <1>4, FitsTaking

(* A handler that receives nothing.                                        *)
LEMMA FitsUpdatesQuiet ==
  ASSUME Types, Fits, NEW c, NEW new, Updates(c, new), UNCHANGED flags,
         \A r \in Members(new) : r.kind # "recv"
  PROVE  Fits'
BY FitsUpdates DEF flags

(* A step that changes neither ring nor table nor flags.                   *)
LEMMA FitsQuiet ==
  ASSUME Fits, UNCHANGED << sq, cq, ops, multishot, table, use_ms_recv, have_buf_pool >>
  PROVE  Fits'
BY DEF Fits, ReqFits, CqeFits, InPool

(* A handler that leaves the table alone and receives nothing.             *)
LEMMA FitsIdle ==
  ASSUME Types, Fits, Taking, NEW new, Queues(new), UNCHANGED table,
         UNCHANGED << use_ms_recv, have_buf_pool >>,
         \A r \in Members(new) : r.kind # "recv"
  PROVE  Fits'
<1>1. Grows /\ (use_ms_recv' \/ ~ multishot)
  BY DEF Grows, Taking, kernelVars, Fits
<1> QED  BY <1>1, FitsTaking

(* Every handler keeps it.                                                 *)
LEMMA FitsHandle ==
  ASSUME Types, Fits, Handle
  PROVE  Fits'
<1>m. /\ \A m : AcceptOf(m).kind # "recv"
      /\ \A f, k : CloseOf(f, k).kind # "recv"
      /\ \A f, t, k : TaskSqe(f, t, k).kind # "recv"
      /\ \A f : PollOf(f).kind # "recv"
      /\ FreeBuffer.kind # "recv"
      /\ \A f, m : RecvOf(f, m).multi = m /\ RecvOf(f, m).fd = f
  BY Made
<1>1. CASE HandleAcceptFailed
  <2>1. /\ Taking /\ UNCHANGED << table, use_ms_recv, have_buf_pool >>
        /\ \E new : /\ Queues(new)
                    /\ new = <<>> \/ \E multi \in BOOLEAN : new = << AcceptOf(multi) >>
    BY <1>1, AcceptFailedFacts
  <2>2. PICK new : /\ Queues(new)
                   /\ new = <<>> \/ \E multi \in BOOLEAN : new = << AcceptOf(multi) >>
    BY <2>1
  <2>3. \A r \in Members(new) : r.kind # "recv"
    BY <1>m, <2>2, MembersOne
  <2> QED  BY <2>1, <2>2, <2>3, FitsIdle
<1>2. CASE HandleAccepted
  <2>1. PICK recv, acc, multi :
          /\ Taking /\ Queues(recv \o acc) /\ recv \in Seq(Sqes) /\ acc \in Seq(Sqes)
          /\ UNCHANGED << use_ms_recv, have_buf_pool >>
          /\ acc = <<>> \/ acc = << AcceptOf(multi) >>
          /\ recv = <<>> \/ recv = << RecvOf(Cqe1.res, InPool) >>
          /\ DOMAIN table' = DOMAIN table \cup { Cqe1.res }
    BY <1>2, AcceptedFacts
  <2> DEFINE new == recv \o acc
  <2>2. Members(new) = Members(recv) \cup Members(acc)
    BY <2>1, MembersConcat
  <2>3. Queues(new)
    BY <2>1
  <2> HIDE DEF new
  <2>4. Grows /\ (use_ms_recv' \/ ~ multishot) /\ InPool' = InPool
    BY <2>1 DEF Grows, Taking, kernelVars, Fits, InPool
  <2>5. \A r \in Members(recv) : r.fd = Cqe1.res /\ r.multi = InPool
    BY <1>m, <2>1, MembersOne
  <2>6. \A r \in Members(acc) : r.kind # "recv"
    BY <1>m, <2>1, MembersOne
  <2>7. \A r \in Members(recv) : ReqFits(r)'
    BY <2>1, <2>4, <2>5 DEF ReqFits, InPool
  <2> QED  BY <2>1, <2>2, <2>3, <2>4, <2>6, <2>7, FitsTaking
<1>3. CASE HandleRecvFailed
  <2>1. CASE /\ Cqe1.res = EINVAL /\ use_ms_recv' = FALSE /\ UNCHANGED have_buf_pool
             /\ Cqe1.tag.op = "Recv"
             /\ \E c, new : Updates(c, new) /\ (new = <<>> \/ new = << RecvOf(fd1, FALSE) >>)
    <3>1. PICK c, new : Updates(c, new) /\ (new = <<>> \/ new = << RecvOf(fd1, FALSE) >>)
      BY <2>1
    <3>2. ~ multishot
      BY <2>1, <3>1 DEF Updates, Taking, Fits, CqeFits
    <3>3. ~ InPool'
      BY <2>1 DEF InPool
    <3> DEFINE q == RecvOf(fd1, FALSE)
    <3>4. ~ q.multi /\ (new = <<>> \/ new = << q >>)
      BY <1>m, <3>1
    <3> HIDE DEF q
    <3>5. \A r \in Members(new) : ~ r.multi
      BY <3>4, MembersOne
    <3> QED  BY <2>1, <3>1, <3>2, <3>3, <3>5, FitsUpdates
  <2>2. CASE UNCHANGED flags /\ \E c : Updates(c, << CloseOf(fd1, Cqe1.conn) >>)
    BY <1>m, <2>2, MembersOne, FitsUpdatesQuiet
  <2> QED  BY <1>3, <2>1, <2>2, RecvFailedFacts DEF flags
<1>4. CASE HandleRecvData
  <2>1. PICK c, back, posted, kick, again : RecvDataUpdates(c, back, posted, kick, again)
    BY <1>4, RecvDataFacts
  <2>2. /\ Updates(c, back \o posted \o kick \o again)
        /\ back \in Seq(Sqes) /\ posted \in Seq(Sqes) /\ kick \in Seq(Sqes) /\ again \in Seq(Sqes)
        /\ \A q \in Members(posted) : q.kind = "task"
        /\ \A q \in Members(kick) : q.kind = "send"
        /\ again = <<>> \/ again = << RecvOf(fd1, InPool) >>
        /\ back = << FreeBuffer >> \/ back = <<>>
    BY <2>1 DEF RecvDataUpdates
  <2> DEFINE new == back \o posted \o kick \o again
  <2>3. Members(new) = Members(back) \cup Members(posted) \cup Members(kick) \cup Members(again)
    BY <2>2, FourParts
  <2>4. UNCHANGED flags /\ InPool' = InPool
    BY <1>4, RecvDataFacts DEF flags, InPool
  <2>5. \A r \in Members(again) : r.multi = InPool
    BY <1>m, <2>2, MembersOne
  <2>6. \A r \in Members(back) : r.kind # "recv"
    BY <1>m, <2>2, MembersOne
  <2>7. Updates(c, new)
    BY <2>2
  <2> HIDE DEF new
  <2>8. \A r \in Members(new) : r.kind = "recv" => (r.multi <=> InPool')
    BY <2>2, <2>3, <2>4, <2>5, <2>6
  <2> QED  BY <2>4, <2>7, <2>8, FitsUpdates DEF flags
<1>5. CASE HandleSendCompleted \/ HandlePollOut \/ HandleRequestFlush
  <2>1. UNCHANGED flags /\ \E c, new : Updates(c, new) /\ \A q \in Members(new) : q.kind = "send"
    BY <1>5, SendCompletedFacts, PollOutFacts, RequestFlushFacts
  <2> QED  BY <2>1, FitsUpdatesQuiet
<1>6. CASE HandleSendAgain
  <2>1. UNCHANGED flags /\ \E c, new : Updates(c, new) /\ (new = <<>> \/ new = << PollOf(fd1) >>)
    BY <1>6, SendAgainFacts
  <2> QED  BY <1>m, <2>1, MembersOne, FitsUpdatesQuiet
<1>7. CASE HandleSendFailed
  <2>1. UNCHANGED flags /\ \E c : Updates(c, << CloseOf(fd1, Cqe1.conn) >>)
    BY <1>7, SendFailedFacts
  <2> QED  BY <1>m, <2>1, MembersOne, FitsUpdatesQuiet
<1>8. CASE HandleFindHandler
  BY <1>8, FindHandlerFacts, MembersOne, FitsUpdatesQuiet
<1>9. CASE HandleGenerateResponse
  <2>1. /\ UNCHANGED flags
        /\ \/ UNCHANGED table /\ Taking /\ Queues(<<>>)
           \/ \E c : Updates(c, << TaskSqe(fd1, "RequestFlush", Cqe1.conn) >>)
    BY <1>9, GenerateResponseFacts
  <2> QED  BY <1>m, <2>1, MembersOne, FitsUpdatesQuiet, FitsIdle DEF flags
<1>10. CASE HandleThrow
  <2>1. UNCHANGED << sq, cq, ops, multishot, table, use_ms_recv, have_buf_pool >>
    BY <1>10 DEF HandleThrow, flags, uringVars, kernelVars
  <2> QED  BY <2>1, FitsQuiet
<1>11. CASE HandleNothing
  BY <1>11, NothingFacts, MembersOne, FitsIdle DEF flags
<1> QED  BY <1>1, <1>2, <1>3, <1>4, <1>5, <1>6, <1>7, <1>8, <1>9, <1>10, <1>11 DEF Handle

(* Issuing a request keeps it: only a kernel without multishot refuses.    *)
LEMMA FitsIssue ==
  ASSUME Types, Fits, Issue, UNCHANGED loopVars
  PROVE  Fits'
<1> DEFINE r == Head(sq)
<1>0. r = Head(sq)
  OBVIOUS
<1> HIDE DEF r
<1>1. /\ sq # <<>> /\ r \in Sqes /\ r \in Members(sq) /\ sq' = Tail(sq) /\ UNCHANGED multishot
  BY <1>0, IssueFacts
<1>2. Grows /\ use_ms_recv' = use_ms_recv
  BY <1>1 DEF Grows, loopVars, flags
<1>3. CASE \E op : Begins(op) /\ op.sqe = r /\ (r.kind = "recv" /\ r.multi => multishot)
  <2>1. PICK op : Begins(op) /\ op.sqe = r /\ (r.kind = "recv" /\ r.multi => multishot)
    BY <1>3
  <2>2. /\ Members(sq') \subseteq Members(sq) /\ UNCHANGED cq
        /\ DOMAIN ops' = DOMAIN ops \cup { op }
    BY <1>1, <2>1, BeginsMembers
  <2>3. \A s \in Members(sq') : s.kind = "recv" => ReqFits(s)'
    BY <1>2, <2>2, FitsLater DEF Fits
  <2>4. \A o \in DOMAIN ops' : o.sqe.kind = "recv" => ReqFits(o.sqe) /\ (o.sqe.multi => multishot)
    BY <1>1, <2>1, <2>2 DEF Fits
  <2>5. \A o \in DOMAIN ops' : o.sqe.kind = "recv" => ReqFits(o.sqe)' /\ (o.sqe.multi => multishot')
    BY <1>1, <1>2, <2>4, FitsLater
  <2>6. \A c \in Members(cq') : c.tag.op = "Recv" => CqeFits(c)'
    BY <1>2, <2>2, FitsLater DEF Fits
  <2> QED  BY <1>1, <1>2, <2>3, <2>5, <2>6 DEF Fits
<1>4. CASE \E new : RepliesTo(r, new)
  <2>1. PICK new : RepliesTo(r, new)
    BY <1>4
  <2>2. /\ Replies(new)
        /\ \A c \in Members(new) : /\ c.res \in { 0, EINVAL, EBADF } /\ ~ c.more /\ ~ c.buffer
                                   /\ c.res = EINVAL => ~ multishot
    BY <2>1 DEF RepliesTo
  <2>3. \A e \in { 0, EINVAL, EBADF } : ~ (e > 0)
    BY DEF EINVAL, EBADF
  <2>4. \A c \in Members(new) : CqeFits(c)
    BY <2>2, <2>3 DEF CqeFits
  <2>5. /\ Members(sq') \subseteq Members(sq) /\ UNCHANGED ops
        /\ Members(cq') = Members(cq) \cup Members(new)
    BY <1>1, <2>2, RepliesMembers
  <2>6. \A s \in Members(sq') : s.kind = "recv" => ReqFits(s)'
    BY <1>2, <2>5, FitsLater DEF Fits
  <2>7. \A o \in DOMAIN ops' : o.sqe.kind = "recv" => ReqFits(o.sqe)' /\ (o.sqe.multi => multishot')
    BY <1>1, <1>2, <2>5, FitsLater DEF Fits
  <2>8. \A c \in Members(cq') : c.tag.op = "Recv" => CqeFits(c)'
    BY <1>2, <2>4, <2>5, FitsLater DEF Fits
  <2> QED  BY <1>1, <1>2, <2>6, <2>7, <2>8 DEF Fits
<1> QED  BY <1>0, <1>3, <1>4, IssueReplies

(* An operation completes; what a receive says of itself is true.          *)
LEMMA FitsCompletes ==
  ASSUME Types, Fits, NEW op, NEW cqe, Completes(op, cqe), UNCHANGED loopVars,
         cqe.tag.op = "Recv" => CqeFits(cqe)
  PROVE  Fits'
<1>1. /\ Grows /\ use_ms_recv' = use_ms_recv /\ UNCHANGED multishot
  BY DEF Grows, loopVars, flags, Completes
<1>2. /\ UNCHANGED sq /\ DOMAIN ops' \subseteq DOMAIN ops
      /\ Members(cq') = Members(cq) \cup { cqe }
  BY CompletesMembers
<1>3. \A s \in Members(sq') : s.kind = "recv" => ReqFits(s)'
  BY <1>1, <1>2, FitsLater DEF Fits
<1>4. \A o \in DOMAIN ops' : o.sqe.kind = "recv" => ReqFits(o.sqe)' /\ (o.sqe.multi => multishot')
  BY <1>1, <1>2, FitsLater DEF Fits
<1>5. \A c \in Members(cq') : c.tag.op = "Recv" => CqeFits(c)'
  BY <1>1, <1>2, FitsLater DEF Fits
<1> QED  BY <1>1, <1>3, <1>4, <1>5 DEF Fits

(* The completion of a receive, and what it does to the pool.              *)
RecvCompletes(op, cqe) ==
  /\ Completes(op, cqe) /\ op.sqe.kind = "recv" /\ op.sqe \in Sqes
  /\ cqe.tag.fd = op.sqe.fd /\ cqe.tag.op = "Recv"
  /\ CqeFits(cqe) /\ ReqFits(op.sqe)
  /\ cqe.buffer => op.sqe.multi /\ pool > 0 /\ pool' = pool - 1
  /\ ~ cqe.buffer => pool' = pool /\ (cqe.res > 0 => ~ op.sqe.multi)

(* KernelRecv completes a receive.                                         *)
LEMMA RecvCompletesFacts ==
  ASSUME Types, Fits, KernelRecv(Segment)
  PROVE  \E op, cqe : RecvCompletes(op, cqe)
<1>1. PICK op, cqe :
        /\ Completes(op, cqe) /\ op.sqe.kind = "recv"
        /\ \/ /\ cqe.res = 0 /\ ~ cqe.more /\ ~ cqe.buffer /\ UNCHANGED pool
           \/ /\ cqe.res = ENOBUFS /\ op.sqe.multi /\ ~ cqe.more /\ ~ cqe.buffer
              /\ UNCHANGED pool
           \/ /\ cqe.res > 0 /\ (cqe.buffer <=> op.sqe.multi)
              /\ cqe.more => op.sqe.multi
              /\ op.sqe.multi => pool > 0 /\ pool' = pool - 1
              /\ ~ op.sqe.multi => pool' = pool
  BY RecvDone
<1>2. /\ op \in DOMAIN ops /\ op.sqe \in Sqes /\ cqe.tag = op.sqe.tag
      /\ op.sqe.multi \in BOOLEAN
  BY <1>1, SqeFacts DEF Completes, Operations
<1>3. cqe.tag.fd = op.sqe.fd /\ cqe.tag.op = "Recv"
  BY <1>1, <1>2, SqeTags
<1>4. ReqFits(op.sqe) /\ (op.sqe.multi => multishot)
  BY <1>1, <1>2 DEF Fits
<1>5. /\ 0 # EINVAL /\ ENOBUFS # EINVAL /\ ~ (ENOBUFS > 0)
      /\ \A n : n > 0 => n # EINVAL
  BY DEF EINVAL, ENOBUFS
<1>6. CqeFits(cqe)
  BY <1>1, <1>3, <1>4, <1>5 DEF CqeFits, ReqFits
<1>7. /\ cqe.buffer => op.sqe.multi /\ pool > 0 /\ pool' = pool - 1
      /\ ~ cqe.buffer => pool' = pool /\ (cqe.res > 0 => ~ op.sqe.multi)
  BY <1>1, <1>2, <1>5
<1> QED  BY <1>1, <1>2, <1>3, <1>4, <1>6, <1>7 DEF RecvCompletes

(* The completion of another operation.                                    *)
ElseCompletes(op, cqe) ==
  /\ Completes(op, cqe) /\ op.sqe \in Sqes /\ op.sqe.kind \in { "accept", "send", "poll" }
  /\ cqe.tag.op # "Recv" /\ ~ cqe.buffer

(* The other completions of the kernel bring no buffer.                    *)
LEMMA ElseCompletesFacts ==
  ASSUME Types, KernelAccept \/ KernelSend \/ KernelPoll
  PROVE  UNCHANGED pool /\ \E op, cqe : ElseCompletes(op, cqe)
<1>1. UNCHANGED pool
  BY AcceptDone, SendDone, PollDone
<1>2. PICK op, cqe : /\ Completes(op, cqe) /\ op.sqe.kind \in { "accept", "send", "poll" }
                     /\ ~ cqe.buffer
  BY AcceptDone, SendDone, PollDone
<1>3. op.sqe \in Sqes /\ cqe.tag = op.sqe.tag
  BY <1>2 DEF Completes, Operations
<1>4. cqe.tag.op # "Recv"
  BY <1>2, <1>3, SqeTags
<1> QED  BY <1>1, <1>2, <1>3, <1>4 DEF ElseCompletes

(* Every step of the ring keeps it.                                        *)
LEMMA FitsRing ==
  ASSUME Types, Fits, UringNext(Segment), UNCHANGED loopVars
  PROVE  Fits'
<1>1. CASE KernelRecv(Segment)
  BY <1>1, RecvCompletesFacts, FitsCompletes DEF RecvCompletes
<1>2. CASE KernelAccept \/ KernelSend \/ KernelPoll
  BY <1>2, ElseCompletesFacts, FitsCompletes DEF ElseCompletes
<1>3. CASE Connect \/ PeerEnds \/ OtherAccept \/ OtherClose
  <2>1. UNCHANGED << sq, cq, ops, multishot >>
    BY <1>3, OthersKeepTypes
  <2>2. UNCHANGED << table, use_ms_recv, have_buf_pool >>
    BY DEF loopVars, flags
  <2> QED  BY <2>1, <2>2, FitsQuiet
<1> QED  BY <1>1, <1>2, <1>3, FitsIssue DEF UringNext

(* Every step keeps it.                                                    *)
LEMMA FitsStep ==
  ASSUME Types, Fits, [Next]_vars
  PROVE  Fits'
<1>1. CASE UNCHANGED vars
  <2>1. UNCHANGED << sq, cq, ops, multishot, table, use_ms_recv, have_buf_pool >>
    BY <1>1 DEF vars, uringVars, kernelVars, loopVars, flags
  <2> QED  BY <2>1, FitsQuiet
<1> QED  BY <1>1, FitsHandle, FitsRing DEF Next

(* At first there is no receive.                                           *)
LEMMA FitsInit ==
  ASSUME Init
  PROVE  Fits
<1>1. use_ms_recv = TRUE /\ cq = <<>> /\ sq = PostAccept(TRUE, FALSE) /\ ops = EmptyBag
  BY DEF Init, UringInit
<1>2. sq = << AcceptOf(TRUE) >>
  BY <1>1 DEF PostAccept
<1>3. Members(sq) = { AcceptOf(TRUE) } /\ AcceptOf(TRUE).kind = "accept" /\ Members(cq) = {}
  BY <1>1, <1>2, MembersOne, Made
<1>4. DOMAIN ops = {}
  BY <1>1 DEF EmptyBag, SetToBag
<1> QED  BY <1>1, <1>3, <1>4 DEF Fits

-----------------------------------------------------------------------------
(* Buffers of the pool.                                                    *)

Provides == { r \in Sqes : r.kind = "provide" }

Filled == { c \in Answers : c.buffer }

(* Buffers with the kernel, on their way to it, or filled.                 *)
Buffers ==
  pool + Pending(Provides, Filled) = IF have_buf_pool THEN BUF_CNT ELSE 0

(* A slot changes nothing of a returned buffer.                            *)
LEMMA ProvidesBlind ==
   Blind(Provides)
BY NoTasksBlind DEF Provides

(* A handler gives back as many buffers as its completion brings.          *)
LEMMA BuffersTaking ==
  ASSUME Types, Buffers, Taking, NEW new, Queues(new), UNCHANGED have_buf_pool,
         Count(new, Provides) = IF Cqe1.buffer THEN 1 ELSE 0
  PROVE  Buffers'
<1>1. /\ Count(new, Provides) \in Nat
      /\ Pending(Provides, Filled) \in Nat /\ Pending(Provides, Filled)' \in Nat
      /\ Pending(Provides, Filled)' + Once(Cqe1, Filled)
           = Pending(Provides, Filled) + Count(new, Provides)
  BY ProvidesBlind, TakingPending, PendingHas
<1>2. Once(Cqe1, Filled) = Count(new, Provides)
  BY DEF Taking, Once, Filled
<1>3. UNCHANGED pool
  BY DEF Taking, kernelVars
<1>4. Pending(Provides, Filled)' = Pending(Provides, Filled)
  BY <1>1, <1>2
<1> QED  BY <1>3, <1>4 DEF Buffers

(* A handler that takes no buffer and returns none.                        *)
LEMMA BuffersQuiet ==
  ASSUME Types, Buffers, Taking, NEW new, Queues(new), UNCHANGED have_buf_pool,
         \A r \in Members(new) : r.kind # "provide",
         ~ Cqe1.buffer
  PROVE  Buffers'
<1>1. Members(new) \cap Provides = {}
  BY DEF Provides
<1>2. Count(new, Provides) = 0
  BY <1>1, CountNone DEF Queues
<1> QED  BY <1>2, BuffersTaking

(* An exception takes no completion and returns no buffer.                 *)
LEMMA BuffersThrow ==
  ASSUME Buffers, HandleThrow
  PROVE  Buffers'
<1>1. UNCHANGED << sq, cq, ops, pool, have_buf_pool >>
  BY DEF HandleThrow, flags, uringVars, kernelVars
<1> QED  BY <1>1, QuietPending DEF Buffers

(* Every handler that returns gives back the buffer it takes, and no other.*)
LEMMA BuffersHandle ==
  ASSUME Types, Fits, Buffers, Handle, ~ HandleThrow
  PROVE  Buffers'
<1>m. /\ \A m : AcceptOf(m).kind # "provide"
      /\ \A f, k : CloseOf(f, k).kind # "provide"
      /\ \A f, t, k : TaskSqe(f, t, k).kind # "provide"
      /\ \A f : PollOf(f).kind # "provide"
      /\ \A f, m : RecvOf(f, m).kind # "provide"
  BY Made
<1>n. ASSUME NEW c, NEW new, Updates(c, new)
      PROVE  Taking /\ Queues(new)
  BY <1>n DEF Updates
<1>b. Taking /\ (Cqe1.tag.op # "Recv" \/ ~ (Cqe1.res > 0) => ~ Cqe1.buffer)
  BY HandlerQueues, AnswerFacts DEF Taking
<1>1. CASE HandleAcceptFailed
  <2>1. /\ UNCHANGED have_buf_pool /\ Cqe1.tag.op = "Accept"
        /\ \E new : /\ Queues(new)
                    /\ new = <<>> \/ \E multi \in BOOLEAN : new = << AcceptOf(multi) >>
    BY <1>1, AcceptFailedFacts
  <2>2. PICK new : /\ Queues(new)
                   /\ new = <<>> \/ \E multi \in BOOLEAN : new = << AcceptOf(multi) >>
    BY <2>1
  <2>3. \A r \in Members(new) : r.kind # "provide"
    BY <1>m, <2>2, MembersOne
  <2> QED  BY <1>b, <2>1, <2>2, <2>3, BuffersQuiet
<1>2. CASE HandleAccepted
  <2>1. PICK recv, acc, multi :
          /\ Queues(recv \o acc) /\ recv \in Seq(Sqes) /\ acc \in Seq(Sqes)
          /\ UNCHANGED have_buf_pool /\ Cqe1.tag.op = "Accept"
          /\ acc = <<>> \/ acc = << AcceptOf(multi) >>
          /\ recv = <<>> \/ recv = << RecvOf(Cqe1.res, InPool) >>
    BY <1>2, AcceptedFacts
  <2> DEFINE new == recv \o acc
  <2>2. Members(new) = Members(recv) \cup Members(acc)
    BY <2>1, MembersConcat
  <2>3. Queues(new)
    BY <2>1
  <2> HIDE DEF new
  <2>4. \A r \in Members(recv) : r.kind # "provide"
    BY <1>m, <2>1, MembersOne
  <2>5. \A r \in Members(acc) : r.kind # "provide"
    BY <1>m, <2>1, MembersOne
  <2> QED  BY <1>b, <2>1, <2>2, <2>3, <2>4, <2>5, BuffersQuiet
<1>3. CASE HandleRecvFailed
  <2>1. UNCHANGED have_buf_pool /\ ~ (Cqe1.res > 0)
    <3>1. UNCHANGED have_buf_pool /\ Cqe1.res <= 0
      BY <1>3, RecvFailedFacts
    <3>2. Cqe1.res \in Int
      BY <1>b, AnswerFacts DEF Taking
    <3> QED  BY <3>1, <3>2
  <2>2. \/ \E c, new : Updates(c, new) /\ (new = <<>> \/ new = << RecvOf(fd1, FALSE) >>)
        \/ \E c : Updates(c, << CloseOf(fd1, Cqe1.conn) >>)
    BY <1>3, RecvFailedFacts
  <2> DEFINE q == RecvOf(fd1, FALSE)
  <2>3. /\ q.kind # "provide"
        /\ \/ \E c, new : Updates(c, new) /\ (new = <<>> \/ new = << q >>)
           \/ \E c : Updates(c, << CloseOf(fd1, Cqe1.conn) >>)
    BY <1>m, <2>2
  <2> HIDE DEF q
  <2>4. PICK new : Queues(new) /\ \A r \in Members(new) : r.kind # "provide"
    BY <1>m, <1>n, <2>3, MembersOne
  <2> QED  BY <1>b, <2>1, <2>4, BuffersQuiet
<1>4. CASE HandleRecvData
  <2>1. PICK c, back, posted, kick, again : RecvDataUpdates(c, back, posted, kick, again)
    BY <1>4, RecvDataFacts
  <2>2. /\ Updates(c, back \o posted \o kick \o again)
        /\ back \in Seq(Sqes) /\ posted \in Seq(Sqes) /\ kick \in Seq(Sqes) /\ again \in Seq(Sqes)
        /\ \A q \in Members(posted) : q.kind = "task"
        /\ \A q \in Members(kick) : q.kind = "send"
        /\ again = <<>> \/ again = << RecvOf(fd1, InPool) >>
        /\ \/ InPoolBuffer /\ back = << FreeBuffer >>
           \/ ~ InPoolBuffer /\ back = <<>>
    BY <2>1 DEF RecvDataUpdates
  <2> DEFINE new == back \o posted \o kick \o again
  <2>3. Count(new, Provides) = Count(back, Provides) + Count(posted, Provides)
                                 + Count(kick, Provides) + Count(again, Provides)
    BY <2>2, FourParts
  <2>4. Members(posted) \cap Provides = {} /\ Members(kick) \cap Provides = {}
    BY <2>2 DEF Provides
  <2>5. Members(again) \cap Provides = {}
    BY <1>m, <2>2, MembersOne DEF Provides
  <2>6. Count(posted, Provides) = 0 /\ Count(kick, Provides) = 0 /\ Count(again, Provides) = 0
    BY <2>2, <2>4, <2>5, CountNone
  <2>7. Count(<< FreeBuffer >>, Provides) = 1 /\ Count(<<>>, Provides) = 0
    BY FreeBufferTyped, Made, CountOne, CountEmpty DEF Provides, Once
  <2>8. Cqe1.buffer <=> InPoolBuffer
    BY <1>b, FilledInPool DEF InPoolBuffer
  <2>9. Updates(c, new) /\ UNCHANGED have_buf_pool
    BY <1>4, <2>2, RecvDataFacts DEF flags
  <2> HIDE DEF new
  <2>10. Count(new, Provides) = IF Cqe1.buffer THEN 1 ELSE 0
    BY <2>2, <2>3, <2>6, <2>7, <2>8
  <2> QED  BY <1>n, <2>9, <2>10, BuffersTaking
<1>5. CASE HandleSendCompleted \/ HandlePollOut \/ HandleRequestFlush
  <2>1. /\ UNCHANGED flags /\ Cqe1.tag.op # "Recv"
        /\ \E c, new : Updates(c, new) /\ \A q \in Members(new) : q.kind = "send"
    BY <1>5, SendCompletedFacts, PollOutFacts, RequestFlushFacts
  <2> QED  BY <1>b, <1>n, <2>1, BuffersQuiet DEF flags
<1>6. CASE HandleSendAgain
  <2>1. /\ UNCHANGED flags /\ Cqe1.tag.op # "Recv"
        /\ \E c, new : Updates(c, new) /\ (new = <<>> \/ new = << PollOf(fd1) >>)
    BY <1>6, SendAgainFacts
  <2> QED  BY <1>b, <1>m, <1>n, <2>1, MembersOne, BuffersQuiet DEF flags
<1>7. CASE HandleSendFailed
  <2>1. /\ UNCHANGED flags /\ Cqe1.tag.op # "Recv"
        /\ \E c : Updates(c, << CloseOf(fd1, Cqe1.conn) >>)
    BY <1>7, SendFailedFacts
  <2> QED  BY <1>b, <1>m, <1>n, <2>1, MembersOne, BuffersQuiet DEF flags
<1>8. CASE HandleFindHandler
  <2>1. /\ UNCHANGED flags /\ Cqe1.tag.op # "Recv" /\ \E c : Updates(c, <<>>)
    BY <1>8, FindHandlerFacts
  <2> QED  BY <1>b, <1>n, <2>1, MembersOne, BuffersQuiet DEF flags
<1>9. CASE HandleGenerateResponse
  <2>1. /\ UNCHANGED flags /\ Cqe1.tag.op # "Recv"
        /\ \/ Queues(<<>>)
           \/ \E c : Updates(c, << TaskSqe(fd1, "RequestFlush", Cqe1.conn) >>)
    BY <1>9, GenerateResponseFacts
  <2> QED  BY <1>b, <1>m, <1>n, <2>1, MembersOne, BuffersQuiet DEF flags
<1>10. CASE HandleNothing
  <2>1. /\ Queues(<<>>) /\ UNCHANGED flags
        /\ HasNoEffect(Cqe1.tag.op)
    BY <1>10, NothingFacts
  <2>2. ~ Cqe1.buffer
    BY <1>b, <2>1, FilledInPool DEF HasNoEffect
  <2> QED  BY <1>b, <2>1, <2>2, MembersOne, BuffersQuiet DEF flags
<1> QED  BY <1>1, <1>2, <1>3, <1>4, <1>5, <1>6, <1>7, <1>8, <1>9, <1>10 DEF Handle

(* A returned buffer is in the pool once it is issued.                     *)
LEMMA BuffersIssue ==
  ASSUME Types, Buffers, Issue, UNCHANGED loopVars
  PROVE  Buffers'
<1> DEFINE r == Head(sq)
<1>0. r = Head(sq)
  OBVIOUS
<1> HIDE DEF r
<1>1. /\ sq # <<>> /\ r \in Sqes /\ sq' = Tail(sq)
      /\ r.kind = "provide" => pool' = pool + 1
      /\ r.kind # "provide" => UNCHANGED pool
  BY <1>0, IssueFacts
<1>2. UNCHANGED have_buf_pool
  BY DEF loopVars, flags
<1>3. Pending(Provides, Filled) \in Nat
  BY PendingHas
<1>4. CASE r.kind # "provide" /\ \E op : Begins(op)
  <2>1. Pending(Provides, Filled)' = Pending(Provides, Filled)
    BY <1>1, <1>4, BeginsPending
  <2> QED  BY <1>1, <1>2, <1>4, <2>1 DEF Buffers
<1>5. CASE \E new : RepliesTo(r, new)
  <2>1. PICK new : RepliesTo(r, new)
    BY <1>5
  <2>2. Replies(new) /\ new \in Seq(Answers) /\ Members(new) \cap Filled = {}
    BY <2>1 DEF RepliesTo, Replies, Filled
  <2>3. /\ Count(new, Filled) = 0
        /\ Pending(Provides, Filled)' \in Nat
        /\ Pending(Provides, Filled)' + Once(r, Provides)
             = Pending(Provides, Filled) + Count(new, Filled)
    BY <1>0, <1>1, <2>2, CountNone, RepliesPending
  <2>4. pool \in Nat
    BY DEF Types
  <2> QED  BY <1>1, <1>2, <1>3, <2>3, <2>4 DEF Buffers, Once, Provides
<1> QED  BY <1>0, <1>4, <1>5, IssueReplies

(* The kernel fills buffers of the pool.                                   *)
LEMMA BuffersRing ==
  ASSUME Types, Fits, Buffers, UringNext(Segment), UNCHANGED loopVars
  PROVE  Buffers'
<1>1. UNCHANGED have_buf_pool /\ Pending(Provides, Filled) \in Nat /\ pool \in Nat
  BY PendingHas DEF loopVars, flags, Types
<1>2. ASSUME NEW op, NEW cqe, Completes(op, cqe), op.sqe.kind # "provide"
      PROVE  /\ Pending(Provides, Filled)' \in Nat
             /\ Pending(Provides, Filled)'
                  = Pending(Provides, Filled) + IF cqe.buffer THEN 1 ELSE 0
  <2>1. /\ Pending(Provides, Filled)' \in Nat
        /\ Pending(Provides, Filled)' + (IF cqe.more THEN 0 ELSE Once(op.sqe, Provides))
             = Pending(Provides, Filled) + Once(cqe, Filled)
    BY <1>2, CompletesPending
  <2>2. Once(op.sqe, Provides) = 0 /\ Once(cqe, Filled) = IF cqe.buffer THEN 1 ELSE 0
    BY <1>2 DEF Once, Provides, Filled, Completes
  <2> QED  BY <1>1, <2>1, <2>2
<1>3. CASE KernelRecv(Segment)
  <2>1. PICK op, cqe : /\ Completes(op, cqe) /\ op.sqe.kind = "recv"
                       /\ cqe.buffer => pool > 0 /\ pool' = pool - 1
                       /\ ~ cqe.buffer => pool' = pool
    BY <1>3, RecvCompletesFacts DEF RecvCompletes
  <2> QED  BY <1>1, <1>2, <2>1 DEF Buffers
<1>4. CASE KernelAccept \/ KernelSend \/ KernelPoll
  <2>1. PICK op, cqe : /\ Completes(op, cqe) /\ op.sqe.kind # "provide"
                       /\ ~ cqe.buffer /\ UNCHANGED pool
    BY <1>4, ElseCompletesFacts DEF ElseCompletes
  <2> QED  BY <1>1, <1>2, <2>1 DEF Buffers
<1>5. CASE Connect \/ PeerEnds \/ OtherAccept \/ OtherClose
  BY <1>1, <1>5, OthersKeepTypes, QuietPending DEF Buffers
<1> QED  BY <1>3, <1>4, <1>5, BuffersIssue DEF UringNext

(* At first every buffer is in the pool.                                   *)
LEMMA BuffersInit ==
  ASSUME Init
  PROVE  Buffers
<1>1. /\ pool = (IF have_buf_pool THEN BUF_CNT ELSE 0) /\ BUF_CNT \in Nat
      /\ cq = <<>> /\ sq = PostAccept(TRUE, FALSE) /\ ops = EmptyBag
  BY Constants DEF Init, UringInit
<1>2. sq = << AcceptOf(TRUE) >> /\ AcceptOf(TRUE) \notin Provides
  BY <1>1, Made DEF PostAccept, Provides
<1>3. Count(sq, Provides) = 0 /\ Count(cq, Filled) = 0 /\ Mult(ops, Provides) = 0
  BY <1>1, <1>2, CountOne, CountEmpty, MultEmpty DEF Once
<1>4. Pending(Provides, Filled) = 0
  BY <1>3 DEF Pending
<1>5. pool \in Nat
  BY <1>1
<1> QED  BY <1>1, <1>4, <1>5 DEF Buffers

(* It is what BuffersConserved says.                                       *)
LEMMA BuffersGiveConserved ==
  ASSUME Types, Buffers
  PROVE  BuffersConserved
<1> DEFINE P(sqe) == sqe.kind = "provide"
<1>1. sq \in Seq(Sqes) /\ cq \in Seq(Answers) /\ DOMAIN ops \subseteq Operations
      /\ FiniteBag(ops)
  BY DEF Types, Sequences
<1>2. Queued(P) = Count(sq, Provides)
  <2>1. \A i \in 1 .. Len(sq) : P(sq[i]) <=> sq[i] \in Provides
    BY <1>1 DEF Provides
  <2>2. { i \in 1 .. Len(sq) : P(sq[i]) } = Hits(sq, Provides)
    BY <2>1 DEF Hits
  <2> QED  BY <2>2 DEF Queued, Count
<1>3. Cardinality({ i \in 1 .. Len(cq) : cq[i].buffer }) = Count(cq, Filled)
  <2>1. \A i \in 1 .. Len(cq) : cq[i].buffer <=> cq[i] \in Filled
    BY <1>1 DEF Filled
  <2>2. { i \in 1 .. Len(cq) : cq[i].buffer } = Hits(cq, Filled)
    BY <2>1 DEF Hits
  <2> QED  BY <2>2 DEF Count
<1>4. Mult(ops, Provides) = 0
  <2>1. \A o \in DOMAIN ops : o.sqe \notin Provides
    BY <1>1 DEF Operations, Provides
  <2> QED  BY <1>1, <2>1, MultPositive, MultType
<1>5. Count(sq, Provides) \in Nat /\ Count(cq, Filled) \in Nat /\ pool \in Nat
  BY <1>1, HitsFinite DEF Types
<1>6. BuffersInUse = pool + Pending(Provides, Filled)
  BY <1>2, <1>3, <1>4, <1>5 DEF BuffersInUse, Pending
<1> QED  BY <1>6 DEF Buffers, BuffersConserved

(* With or without multishot requests and a pool, and whatever stale tags  *)
(* come back: every buffer of the pool is with the kernel, on its way      *)
(* there, or in a completion that the worker will take.                    *)
THEOREM BuffersReturn ==
  Spec => []BuffersConserved
<1>2. Init => Types /\ Fits /\ Buffers
  BY InitTypes, FitsInit, BuffersInit
<1>3. Types /\ Fits /\ Buffers /\ [Next]_vars => (Types /\ Fits /\ Buffers)'
  <2> SUFFICES ASSUME Types, Fits, Buffers, [Next]_vars
               PROVE  Types' /\ Fits' /\ Buffers'
    OBVIOUS
  <2>1. Types' /\ Fits'
    BY TypesStep, FitsStep
  <2>2. CASE UNCHANGED vars
    <3>1. UNCHANGED << sq, cq, ops, pool, have_buf_pool >>
      BY <2>2 DEF vars, uringVars, kernelVars, loopVars, flags
    <3> QED  BY <2>1, <3>1, QuietPending DEF Buffers
  <2>3. CASE Next
    BY <2>1, <2>3, BuffersThrow, BuffersHandle, BuffersRing DEF Next
  <2> QED  BY <2>2, <2>3
<1>4. Types /\ Fits /\ Buffers => BuffersConserved
  BY BuffersGiveConserved
<1> QED  BY <1>2, <1>3, <1>4, PTL DEF Spec

-----------------------------------------------------------------------------
(* One receive for a storage whose connection no other worker has closed   *)
(* and whose receives no task has been taken for.                          *)

RecvReqs(f) == Reqs("recv", Tag(f, "Recv"))

RecvCqes(f) == Cqes(Tag(f, "Recv"))

(* The buffer of a receive that is not into the pool is held by the storage*)
Holds(f) ==
  f \in Live \ robbed =>
    \/ table[f].rx_hold
    \/ /\ \A r \in Members(sq) : r.kind = "recv" /\ r.fd = f => r.multi
       /\ \A o \in DOMAIN ops : o.sqe.kind = "recv" /\ o.sqe.fd = f => o.sqe.multi
       /\ \A c \in Members(cq) :
            c.tag.op = "Recv" /\ c.tag.fd = f /\ c.res > 0 => c.buffer

(* No task has found the tag of a receive of f in its slot, so that what   *)
(* comes back with it tells of a receive.                                  *)
Told(f) == Tag(f, "Recv") \notin carried

Single(f) ==
  Told(f) =>
    /\ f \in Live \ robbed => Pending(RecvReqs(f), RecvCqes(f)) = 1
    /\ f \notin DOMAIN table => Pending(RecvReqs(f), RecvCqes(f)) = 0

Receives == \A f \in Fds : Holds(f) /\ Single(f)

(* The receives of a descriptor, told by kind and descriptor.              *)
LEMMA RecvReqsAre ==
  ASSUME NEW f \in Fds, NEW r \in Sqes
  PROVE  r \in RecvReqs(f) <=> r.kind = "recv" /\ r.fd = f
<1>1. r.kind = "recv" => r.tag = Tag(r.fd, "Recv")
  BY SqeFacts
<1>2. \A g : Tag(g, "Recv").fd = g
  BY DEF Tag
<1> QED  BY <1>1, <1>2 DEF RecvReqs, Reqs

(* The completions that end them, told by descriptor and op.               *)
LEMMA RecvCqesAre ==
  ASSUME NEW f \in Fds, NEW c \in Answers
  PROVE  c \in RecvCqes(f) <=> c.tag.fd = f /\ c.tag.op = "Recv" /\ ~ c.more
<1>1. Unpacked("Recv") = "Recv"
  BY TagsOf DEF Ops
<1>2. c.tag = Tag(f, "Recv") <=> c.tag.fd = f /\ c.tag.op = "Recv"
  BY <1>1, AnswerFacts DEF Tag, Tags
<1> QED  BY <1>2 DEF RecvCqes, Cqes

(* A slot changes nothing of a receive.                                    *)
LEMMA RecvsBlind ==
  ASSUME NEW f
  PROVE  Blind(RecvReqs(f))
BY NoTasksBlind DEF RecvReqs, Reqs

(* The receives that new requests add for the descriptor f.                *)
LEMMA RecvsNone ==
  ASSUME NEW f \in Fds, NEW new \in Seq(Sqes),
         \A r \in Members(new) : ~ (r.kind = "recv" /\ r.fd = f)
  PROVE  Count(new, RecvReqs(f)) = 0
<1>1. Members(new) \cap RecvReqs(f) = {}
  BY MembersType, RecvReqsAre
<1> QED  BY <1>1, CountNone

(* One receive is one receive.                                             *)
LEMMA RecvsOne ==
  ASSUME NEW f \in Fds, NEW m \in BOOLEAN
  PROVE  Count(<< RecvOf(f, m) >>, RecvReqs(f)) = 1
<1>1. RecvOf(f, m) \in RecvReqs(f)
  BY RecvTyped, RecvReqsAre, Made
<1> QED  BY <1>1, CountOne DEF Once

(* A receive of a descriptor is under way only if it is in the table.      *)
LEMMA NotUnderWay ==
  ASSUME Types, NEW f \in Fds, Pending(RecvReqs(f), RecvCqes(f)) = 0,
         Taking
  PROVE  ~ (fd1 = f /\ Cqe1.tag.op = "Recv" /\ ~ Cqe1.more)
<1>1. Members(cq) \cap RecvCqes(f) = {}
  BY PendingHas
<1> QED  BY <1>1, RecvCqesAre DEF Taking, fd1

(* A handler that replaces each receive of f that ends.                    *)
LEMMA SingleTaking ==
  ASSUME Types, Taking, NEW new, Queues(new), NEW f \in Fds, Single(f),
         f \in Live' => f \in Live,
         f \notin DOMAIN table' => f \notin DOMAIN table,
         Told(f) /\ (f \in Live' \ robbed \/ f \notin DOMAIN table') =>
           Count(new, RecvReqs(f))
             = IF fd1 = f /\ Cqe1.tag.op = "Recv" /\ ~ Cqe1.more THEN 1 ELSE 0
  PROVE  Single(f)'
<1>0. UNCHANGED robbed /\ (Told(f)' => Told(f))
  BY DEF Taking, bounds, others, Queues, Told
<1>1. /\ Count(new, RecvReqs(f)) \in Nat
      /\ Pending(RecvReqs(f), RecvCqes(f)) \in Nat /\ Pending(RecvReqs(f), RecvCqes(f))' \in Nat
      /\ Pending(RecvReqs(f), RecvCqes(f))' + Once(Cqe1, RecvCqes(f))
           = Pending(RecvReqs(f), RecvCqes(f)) + Count(new, RecvReqs(f))
  BY RecvsBlind, TakingPending, PendingHas
<1>2. Once(Cqe1, RecvCqes(f))
        = IF fd1 = f /\ Cqe1.tag.op = "Recv" /\ ~ Cqe1.more THEN 1 ELSE 0
  BY RecvCqesAre DEF Taking, Once, fd1
<1>3. Told(f) /\ (f \in Live' \ robbed \/ f \notin DOMAIN table') =>
        Pending(RecvReqs(f), RecvCqes(f))' = Pending(RecvReqs(f), RecvCqes(f))
  BY <1>1, <1>2
<1> QED  BY <1>0, <1>3 DEF Single

(* A handler that adds no receive for f but one that its storage holds, or *)
(* one into the pool.                                                      *)
LEMMA HoldsTaking ==
  ASSUME Types, Taking, NEW new, Queues(new), NEW f \in Fds, Holds(f), Fits',
         f \in Live' \ robbed => f \in DOMAIN table' /\
           \/ table'[f].rx_hold
           \/ InPool'
           \/ /\ f \in Live /\ table'[f].rx_hold = table[f].rx_hold
              /\ \A r \in Members(new) : ~ (r.kind = "recv" /\ r.fd = f)
  PROVE  Holds(f)'
<1>0. UNCHANGED robbed
  BY DEF Taking, bounds, others
<1> SUFFICES ASSUME f \in Live' \ robbed, ~ table'[f].rx_hold
             PROVE  /\ \A r \in Members(sq') : r.kind = "recv" /\ r.fd = f => r.multi
                    /\ \A o \in DOMAIN ops' : o.sqe.kind = "recv" /\ o.sqe.fd = f => o.sqe.multi
                    /\ \A c \in Members(cq') :
                         c.tag.op = "Recv" /\ c.tag.fd = f /\ c.res > 0 => c.buffer
  BY <1>0 DEF Holds
<1>1. CASE InPool'
  BY <1>1 DEF Fits, ReqFits, CqeFits
<1>2. CASE /\ f \in Live /\ table'[f].rx_hold = table[f].rx_hold
           /\ \A r \in Members(new) : ~ (r.kind = "recv" /\ r.fd = f)
  <2>1. /\ \A r \in Members(sq') : r.kind # "task" => r \in Members(sq) \cup Members(new)
        /\ Members(cq') \subseteq Members(cq) /\ UNCHANGED ops
    BY TakingMembers
  <2> QED  BY <1>2, <2>1 DEF Holds
<1> QED  BY <1>1, <1>2

(* One storage changes.                                                    *)
LEMMA ReceivesUpdates ==
  ASSUME Types, Receives, Fits', NEW c, NEW new, Updates(c, new),
         ~ c.closing =>
           /\ Count(new, RecvReqs(fd1))
                = IF Cqe1.tag.op = "Recv" /\ ~ Cqe1.more THEN 1 ELSE 0
           /\ \/ c.rx_hold
              \/ InPool'
              \/ c.rx_hold = c1.rx_hold /\ \A r \in Members(new) : r.kind # "recv"
  PROVE  Receives'
<1>1. /\ Taking /\ Queues(new) /\ new \in Seq(Sqes) /\ fd1 \in DOMAIN table /\ fd1 \in Fds
      /\ table' = [ table EXCEPT ![fd1] = c ]
      /\ c1.closing => c.closing
      /\ \A r \in Members(new) : r.kind \notin { "accept", "provide" } => r.fd = fd1
  BY DEF Updates, Queues
<1>2. /\ DOMAIN table' = DOMAIN table /\ table'[fd1] = c
      /\ \A f \in DOMAIN table : f # fd1 => table'[f] = table[f]
  BY <1>1 DEF Types
<1>3. /\ \A f : f \in Live' => f \in Live
      /\ fd1 \in Live' => ~ c.closing
  BY <1>1, <1>2 DEF Live, c1
<1> SUFFICES ASSUME NEW f \in Fds
             PROVE  Holds(f)' /\ Single(f)'
  BY DEF Receives
<1>4. Holds(f) /\ Single(f)
  BY DEF Receives
<1>5. CASE f # fd1
  <2>1. \A r \in Members(new) : ~ (r.kind = "recv" /\ r.fd = f)
    BY <1>1, <1>5
  <2>2. Count(new, RecvReqs(f)) = 0
    BY <1>1, <2>1, RecvsNone
  <2>3. f \in Live' => f \in DOMAIN table' /\ table'[f].rx_hold = table[f].rx_hold
    BY <1>2, <1>5 DEF Live
  <2>4. Holds(f)'
    BY <1>1, <1>3, <1>4, <2>1, <2>3, HoldsTaking
  <2>5. Single(f)'
    BY <1>1, <1>2, <1>3, <1>4, <1>5, <2>2, SingleTaking
  <2> QED  BY <2>4, <2>5
<1>6. CASE f = fd1
  <2>1. Holds(f)'
    <3>1. f \in Live' => f \in DOMAIN table' /\
            \/ table'[f].rx_hold
            \/ InPool'
            \/ /\ f \in Live /\ table'[f].rx_hold = table[f].rx_hold
               /\ \A r \in Members(new) : ~ (r.kind = "recv" /\ r.fd = f)
      BY <1>1, <1>2, <1>3, <1>6 DEF c1
    <3> QED  BY <1>1, <1>4, <3>1, HoldsTaking
  <2>2. Single(f)'
    BY <1>1, <1>2, <1>3, <1>4, <1>6, SingleTaking
  <2> QED  BY <2>1, <2>2
<1> QED  BY <1>5, <1>6

(* A handler that neither ends nor adds a receive.                         *)
LEMMA ReceivesUpdatesQuiet ==
  ASSUME Types, Receives, Fits', NEW c, NEW new, Updates(c, new),
         Cqe1.tag.op # "Recv", c.rx_hold = c1.rx_hold,
         \A r \in Members(new) : r.kind # "recv"
  PROVE  Receives'
<1>1. fd1 \in Fds /\ new \in Seq(Sqes)
  BY DEF Updates, Queues
<1>2. Count(new, RecvReqs(fd1)) = 0
  BY <1>1, RecvsNone
<1> QED  BY <1>2, ReceivesUpdates

(* A handler that leaves the table alone.                                  *)
LEMMA ReceivesIdle ==
  ASSUME Types, Receives, Fits', Taking, NEW new, Queues(new), UNCHANGED table,
         \A f \in Fds : f \in Live \ robbed \/ f \notin DOMAIN table =>
           /\ \A r \in Members(new) : ~ (r.kind = "recv" /\ r.fd = f)
           /\ Told(f) => ~ (fd1 = f /\ Cqe1.tag.op = "Recv" /\ ~ Cqe1.more)
  PROVE  Receives'
<1> SUFFICES ASSUME NEW f \in Fds
             PROVE  Holds(f)' /\ Single(f)'
  BY DEF Receives
<1>1. Holds(f) /\ Single(f) /\ Live' = Live /\ new \in Seq(Sqes)
  BY DEF Receives, Live, Queues
<1>2. f \in Live \ robbed \/ f \notin DOMAIN table => Count(new, RecvReqs(f)) = 0
  BY <1>1, RecvsNone
<1>3. Single(f)'
  BY <1>1, <1>2, SingleTaking
<1>4. f \in Live => f \in DOMAIN table
  BY DEF Live
<1>5. Holds(f)'
  BY <1>1, <1>4, HoldsTaking
<1> QED  BY <1>3, <1>5

(* A new storage, with its first receive.                                  *)
LEMMA ReceivesStored ==
  ASSUME Types, Receives, Fits', Taking, NEW new, Queues(new),
         Cqe1.tag.op = "Accept", InPool' = InPool,
         NEW cfd \in Fds, cfd \notin DOMAIN table, NEW c, ~ InPool => c.rx_hold,
         table' = [ f \in DOMAIN table \cup { cfd } |-> IF f = cfd THEN c ELSE table[f] ],
         Count(new, RecvReqs(cfd)) = 1,
         \A r \in Members(new) : r.kind = "recv" => r.fd = cfd
  PROVE  Receives'
<1>1. /\ DOMAIN table' = DOMAIN table \cup { cfd } /\ table'[cfd] = c
      /\ \A f \in DOMAIN table : f # cfd => table'[f] = table[f]
      /\ new \in Seq(Sqes)
  BY DEF Queues
<1> SUFFICES ASSUME NEW f \in Fds
             PROVE  Holds(f)' /\ Single(f)'
  BY DEF Receives
<1>2. Holds(f) /\ Single(f)
  BY DEF Receives
<1>3. CASE f # cfd
  <2>1. \A r \in Members(new) : ~ (r.kind = "recv" /\ r.fd = f)
    BY <1>3
  <2>2. Count(new, RecvReqs(f)) = 0
    BY <1>1, <2>1, RecvsNone
  <2>3. f \in Live' => f \in Live /\ f \in DOMAIN table' /\ table'[f].rx_hold = table[f].rx_hold
    BY <1>1, <1>3 DEF Live
  <2>4. Holds(f)'
    BY <1>2, <2>1, <2>3, HoldsTaking
  <2>5. Single(f)'
    BY <1>1, <1>2, <1>3, <2>2, <2>3, SingleTaking
  <2> QED  BY <2>4, <2>5
<1>4. CASE f = cfd
  <2>0. Told(f)' => Told(f)
    BY DEF Queues, Told
  <2>1. Told(f) => Pending(RecvReqs(f), RecvCqes(f)) = 0
    BY <1>2, <1>4 DEF Single
  <2>2. Once(Cqe1, RecvCqes(f)) = 0
    BY RecvCqesAre DEF Taking, Once
  <2>3. /\ Count(new, RecvReqs(f)) = 1
        /\ Pending(RecvReqs(f), RecvCqes(f))' \in Nat
        /\ Pending(RecvReqs(f), RecvCqes(f))' + Once(Cqe1, RecvCqes(f))
             = Pending(RecvReqs(f), RecvCqes(f)) + Count(new, RecvReqs(f))
    BY <1>4, RecvsBlind, TakingPending
  <2>4. Told(f) => Pending(RecvReqs(f), RecvCqes(f))' = 1
    BY <2>1, <2>2, <2>3
  <2>5. Single(f)'
    BY <1>1, <1>4, <2>0, <2>4 DEF Single
  <2>6. f \in DOMAIN table' /\ (table'[f].rx_hold \/ InPool')
    BY <1>1, <1>4
  <2>7. Holds(f)'
    BY <1>2, <2>6, HoldsTaking
  <2> QED  BY <2>5, <2>7
<1> QED  BY <1>3, <1>4

(* An accepted connection gets its first receive.                          *)
LEMMA ReceivesAccepted ==
  ASSUME Types, Owns, Receives, Fits', HandleAccepted
  PROVE  Receives'
<1>1. PICK recv, acc, multi :
        /\ Queues(recv \o acc) /\ recv \in Seq(Sqes) /\ acc \in Seq(Sqes)
        /\ acc = <<>> \/ acc = << AcceptOf(multi) >>
        /\ \/ /\ Cqe1.res \notin DOMAIN table
              /\ recv = << RecvOf(Cqe1.res, InPool) >>
              /\ \E c \in PerClientStorage :
                   /\ table' = [ f \in DOMAIN table \cup { Cqe1.res } |->
                                   IF f = Cqe1.res THEN c ELSE table[f] ]
                   /\ ~ InPool => c.rx_hold
           \/ /\ Cqe1.res \in DOMAIN table /\ UNCHANGED table
              /\ recv = <<>> \/ recv = << RecvOf(Cqe1.res, InPool) >>
  BY AcceptedFacts
<1>2. /\ Cqe1.tag.op = "Accept" /\ Cqe1.res \in Fds /\ Taking /\ InPool' = InPool
      /\ InPool \in BOOLEAN
  BY AcceptedFacts DEF InPool, Types
<1>m. /\ \A m : AcceptOf(m).kind # "recv"
      /\ \A f, m : RecvOf(f, m).fd = f
  BY Made
<1> DEFINE new == recv \o acc
           cfd == Cqe1.res
<1>3. /\ Members(new) = Members(recv) \cup Members(acc) /\ Queues(new)
      /\ \A S : Count(new, S) = Count(recv, S) + Count(acc, S)
  BY <1>1, MembersConcat, CountConcat
<1>4. cfd = Cqe1.res /\ cfd \in Fds
  BY <1>2
<1> HIDE DEF new, cfd
<1>5. \A r \in Members(acc) : r.kind # "recv"
  BY <1>1, <1>m, MembersOne
<1>6. \A r \in Members(recv) : r.fd = cfd
  BY <1>1, <1>m, <1>4, MembersOne
<1>7. \A r \in Members(new) : r.kind = "recv" => r.fd = cfd
  BY <1>3, <1>5, <1>6
<1>8. CASE cfd \notin DOMAIN table
  <2>1. PICK c \in PerClientStorage :
          /\ table' = [ f \in DOMAIN table \cup { cfd } |-> IF f = cfd THEN c ELSE table[f] ]
          /\ ~ InPool => c.rx_hold
    BY <1>1, <1>4, <1>8
  <2>2. recv = << RecvOf(cfd, InPool) >>
    BY <1>1, <1>4, <1>8
  <2>3. Count(recv, RecvReqs(cfd)) = 1
    BY <1>2, <1>4, <2>2, RecvsOne
  <2>4. Count(acc, RecvReqs(cfd)) = 0
    BY <1>1, <1>4, <1>5, RecvsNone
  <2>5. Count(new, RecvReqs(cfd)) = 1
    BY <1>3, <2>3, <2>4
  <2> QED  BY <1>2, <1>3, <1>4, <1>7, <1>8, <2>1, <2>5, ReceivesStored
<1>9. CASE cfd \in DOMAIN table
  <2>1. UNCHANGED table
    BY <1>1, <1>4, <1>9
  <2>2. Cqe1 \in Members(cq) \cap Accepted(cfd)
    BY <1>2, <1>4 DEF Taking, Accepted
  <2>3. cfd \notin Live \ robbed
    BY <1>4, <2>2 DEF Owns, OwnsFd
  <2> QED  BY <1>2, <1>3, <1>7, <1>9, <2>1, <2>3, ReceivesIdle
<1> QED  BY <1>8, <1>9

(* A segment: the receive that brought it goes on, or is replaced.         *)
LEMMA ReceivesData ==
  ASSUME Types, Fits, Receives, Fits', HandleRecvData
  PROVE  Receives'
<1>1. PICK c, back, posted, kick, again : RecvDataUpdates(c, back, posted, kick, again)
  BY RecvDataFacts
<1>2. /\ Cqe1.tag.op = "Recv" /\ Cqe1.res > 0 /\ InPool' = InPool /\ InPool \in BOOLEAN
  BY RecvDataFacts DEF flags, InPool, Types
<1>3. /\ Updates(c, back \o posted \o kick \o again)
      /\ back \in Seq(Sqes) /\ posted \in Seq(Sqes) /\ kick \in Seq(Sqes) /\ again \in Seq(Sqes)
      /\ \A q \in Members(posted) : q.kind = "task"
      /\ \A q \in Members(kick) : q.kind = "send"
      /\ again = <<>> \/ again = << RecvOf(fd1, InPool) >>
      /\ back = << FreeBuffer >> \/ back = <<>>
  BY <1>1 DEF RecvDataUpdates
<1>4. /\ ~ c.closing /\ ~ InPool => again = << RecvOf(fd1, InPool) >> /\ c.rx_hold
      /\ \/ /\ InPoolBuffer
            /\ Cqe1.more => again = <<>>
            /\ ~ Cqe1.more /\ ~ c.closing => again = << RecvOf(fd1, InPool) >>
         \/ ~ InPoolBuffer
  BY <1>1 DEF RecvDataUpdates
<1>5. Taking /\ fd1 \in Fds /\ Cqe1 \in Members(cq) /\ Cqe1.more \in BOOLEAN
  BY <1>3, AnswerFacts DEF Updates, Taking
<1>6. ~ InPoolBuffer => ~ Cqe1.more /\ ~ InPool
  <2>1. CqeFits(Cqe1)
    BY <1>2, <1>5 DEF Fits
  <2> QED  BY <1>2, <1>5, <2>1, FilledInPool DEF CqeFits
<1>7. ~ c.closing => again = IF Cqe1.more THEN <<>> ELSE << RecvOf(fd1, InPool) >>
  BY <1>4, <1>5, <1>6
<1>8. ~ c.closing => c.rx_hold \/ InPool'
  BY <1>2, <1>4
<1> DEFINE new == back \o posted \o kick \o again
<1>9. Count(new, RecvReqs(fd1)) = Count(back, RecvReqs(fd1)) + Count(posted, RecvReqs(fd1))
                                    + Count(kick, RecvReqs(fd1)) + Count(again, RecvReqs(fd1))
  BY <1>3, FourParts
<1>10. Updates(c, new)
  BY <1>3
<1> HIDE DEF new
<1>11. \A q \in Members(back) : q.kind # "recv"
  BY <1>3, Made, MembersOne
<1>12. /\ Count(back, RecvReqs(fd1)) = 0 /\ Count(posted, RecvReqs(fd1)) = 0
       /\ Count(kick, RecvReqs(fd1)) = 0
  BY <1>3, <1>5, <1>11, RecvsNone
<1>13. /\ Count(<<>>, RecvReqs(fd1)) = 0
       /\ Count(<< RecvOf(fd1, InPool) >>, RecvReqs(fd1)) = 1
  BY <1>2, <1>5, RecvsOne, CountEmpty
<1>14. ~ c.closing => Count(new, RecvReqs(fd1)) = IF ~ Cqe1.more THEN 1 ELSE 0
  BY <1>5, <1>7, <1>9, <1>12, <1>13
<1> QED  BY <1>2, <1>8, <1>10, <1>14, ReceivesUpdates

(* A receive that failed is replaced after EINVAL; else the storage is     *)
(* closing.                                                                *)
LEMMA ReceivesFailed ==
  ASSUME Types, Receives, Fits', HandleRecvFailed
  PROVE  Receives'
<1> DEFINE q == RecvOf(fd1, FALSE)
<1>1. fd1 \in Fds => Count(<< q >>, RecvReqs(fd1)) = 1
  BY RecvsOne
<1>2. \/ \E c, new : /\ Updates(c, new) /\ c.closing = c1.closing
                     /\ ~ c1.closing => new = << q >> /\ c.rx_hold
      \/ \E c : Updates(c, << CloseOf(fd1, Cqe1.conn) >>) /\ c.closing
  BY RecvFailedFacts
<1>3. Cqe1.tag.op = "Recv" /\ Cqe1.res <= 0
  BY RecvFailedFacts
<1> HIDE DEF q
<1>4. ASSUME NEW c, NEW new, Updates(c, new), c.closing = c1.closing,
             ~ c1.closing => new = << q >> /\ c.rx_hold
      PROVE  Receives'
  <2>1. fd1 \in Fds /\ Cqe1 \in Answers
    BY <1>4 DEF Updates, Taking
  <2>2. ~ Cqe1.more
    BY <1>3, <2>1, AnswerFacts
  <2> QED  BY <1>1, <1>3, <1>4, <2>1, <2>2, ReceivesUpdates
<1>5. ASSUME NEW c, Updates(c, << CloseOf(fd1, Cqe1.conn) >>), c.closing
      PROVE  Receives'
  BY <1>5, ReceivesUpdates
<1> QED  BY <1>2, <1>4, <1>5

(* A completion without effect replaces no receive, and ends none that     *)
(* matters.                                                                *)
LEMMA ReceivesNothing ==
  ASSUME Types, Fits, Receives, Fits', HandleNothing
  PROVE  Receives'
<1>1. /\ Taking /\ Queues(<<>>) /\ UNCHANGED table /\ HasNoEffect(Cqe1.tag.op)
  BY NothingFacts
<1>2. ASSUME NEW f \in Fds, f \in Live \ robbed \/ f \notin DOMAIN table, Told(f),
             fd1 = f, Cqe1.tag.op = "Recv", ~ Cqe1.more
      PROVE  FALSE
  <2>1. Holds(f) /\ Single(f) /\ Cqe1 \in Members(cq) /\ Cqe1.buffer \in BOOLEAN
    BY <1>1, AnswerFacts DEF Receives, Taking
  <2>2. f \in DOMAIN table
    BY <1>1, <1>2, <2>1, NotUnderWay DEF Single
  <2>3. f \in Live \ robbed /\ Cqe1.res > 0 /\ ~ InPoolBuffer /\ ~ table[f].rx_hold
    BY <1>1, <1>2, <2>2 DEF HasNoEffect, c1
  <2>4. ~ Cqe1.buffer
    BY <1>1, <2>3, FilledInPool
  <2> QED  BY <1>2, <2>1, <2>3, <2>4 DEF Holds, fd1
<1>3. \A f : \A r \in Members(<<>>) : ~ (r.kind = "recv" /\ r.fd = f)
  BY MembersOne
<1> QED  BY <1>1, <1>2, <1>3, ReceivesIdle

(* Where neither ring nor table change.                                    *)
LEMMA ReceivesQuiet ==
  ASSUME Receives, UNCHANGED << sq, cq, ops, table, carried >>, robbed \subseteq robbed'
  PROVE  Receives'
<1>1. \A f : Pending(RecvReqs(f), RecvCqes(f))' = Pending(RecvReqs(f), RecvCqes(f))
  BY QuietPending
<1>2. Live' \ robbed' \subseteq Live \ robbed
  BY DEF Live
<1>3. \A f : Told(f)' = Told(f)
  BY DEF Told
<1>4. ASSUME NEW f \in Fds
      PROVE  Holds(f)' /\ Single(f)'
  <2>1. Holds(f) /\ Single(f)
    BY DEF Receives
  <2> QED  BY <1>1, <1>2, <1>3, <2>1 DEF Holds, Single
<1> QED  BY <1>4 DEF Receives

(* Every handler keeps one receive per live storage.                       *)
LEMMA ReceivesHandle ==
  ASSUME Types, Owns, Fits, Receives, Fits', Handle
  PROVE  Receives'
<1>m. /\ \A m : AcceptOf(m).kind # "recv"
      /\ \A f, t, k : TaskSqe(f, t, k).kind # "recv"
      /\ \A f : PollOf(f).kind # "recv"
  BY Made
<1>1. CASE HandleAcceptFailed
  <2>1. /\ Taking /\ UNCHANGED table /\ Cqe1.tag.op = "Accept"
        /\ \E new : /\ Queues(new)
                    /\ new = <<>> \/ \E multi \in BOOLEAN : new = << AcceptOf(multi) >>
    BY <1>1, AcceptFailedFacts
  <2>2. PICK new : /\ Queues(new)
                   /\ new = <<>> \/ \E multi \in BOOLEAN : new = << AcceptOf(multi) >>
    BY <2>1
  <2>3. \A r \in Members(new) : r.kind # "recv"
    BY <1>m, <2>2, MembersOne
  <2> QED  BY <2>1, <2>2, <2>3, ReceivesIdle
<1>2. CASE HandleSendCompleted \/ HandleRequestFlush
  <2>1. /\ Cqe1.tag.op # "Recv"
        /\ \E c, new : /\ Updates(c, new) /\ c.rx_hold = c1.rx_hold
                       /\ \A q \in Members(new) : q.kind = "send"
    BY <1>2, SendCompletedFacts, RequestFlushFacts
  <2> QED  BY <2>1, ReceivesUpdatesQuiet
<1>3. CASE HandlePollOut
  <2>1. /\ Cqe1.tag.op # "Recv"
        /\ \E c, new : /\ Updates(c, new) /\ c.rx_hold = c1.rx_hold
                       /\ \A q \in Members(new) : q.kind = "send"
    BY <1>3, PollOutFacts
  <2> QED  BY <2>1, ReceivesUpdatesQuiet
<1>4. CASE HandleSendAgain
  <2>1. /\ Cqe1.tag.op # "Recv"
        /\ \E c, new : /\ Updates(c, new) /\ c.rx_hold = c1.rx_hold
                       /\ new = <<>> \/ new = << PollOf(fd1) >>
    BY <1>4, SendAgainFacts
  <2> QED  BY <1>m, <2>1, MembersOne, ReceivesUpdatesQuiet
<1>5. CASE HandleSendFailed
  <2>1. \E c : Updates(c, << CloseOf(fd1, Cqe1.conn) >>) /\ c.closing
    BY <1>5, SendFailedFacts
  <2> QED  BY <2>1, ReceivesUpdates
<1>6. CASE HandleFindHandler
  <2>1. Cqe1.tag.op # "Recv" /\ \E c : Updates(c, <<>>) /\ c.rx_hold = c1.rx_hold
    BY <1>6, FindHandlerFacts
  <2> QED  BY <2>1, MembersOne, ReceivesUpdatesQuiet
<1>7. CASE HandleGenerateResponse
  <2>1. /\ Cqe1.tag.op # "Recv"
        /\ \/ UNCHANGED table /\ Taking /\ Queues(<<>>)
           \/ \E c : /\ Updates(c, << TaskSqe(fd1, "RequestFlush", Cqe1.conn) >>)
                     /\ c.rx_hold = c1.rx_hold
    BY <1>7, GenerateResponseFacts
  <2> QED  BY <1>m, <2>1, MembersOne, ReceivesUpdatesQuiet, ReceivesIdle
<1>8. CASE HandleThrow
  <2>1. UNCHANGED << sq, cq, ops, table, carried, robbed >>
    BY <1>8 DEF HandleThrow, uringVars, bounds, others
  <2> QED  BY <2>1, ReceivesQuiet
<1> QED  BY <1>1, <1>2, <1>3, <1>4, <1>5, <1>6, <1>7, <1>8, ReceivesAccepted, ReceivesData,
            ReceivesFailed, ReceivesNothing DEF Handle

(* The replies to a request: a receive that is refused ends, and no other  *)
(* reply looks like its end, but that of a close and that of a task that   *)
(* has found its tag.                                                      *)
LEMMA RecvReplies ==
  ASSUME NEW f \in Fds, NEW r \in Sqes, NEW new, RepliesTo(r, new), Told(f),
         r.kind = "task" => r.stale \in carried,
         r.kind = "close" => r.fd # f
  PROVE  Count(new, RecvCqes(f)) = Once(r, RecvReqs(f))
<1>0. new \in Seq(Answers)
  BY DEF RepliesTo, Replies
<1>1. CASE r.kind = "recv" /\ r.fd = f
  <2>1. PICK c : new = << c >>
    BY <1>1 DEF RepliesTo
  <2>2. c \in Members(new) /\ c \in Answers
    BY <1>0, <2>1, MembersOne, MembersType
  <2>3. c.tag.fd = f /\ c.tag.op = "Recv" /\ ~ c.more
    BY <1>1, <2>2, SqeTags DEF RepliesTo
  <2>4. c \in RecvCqes(f) /\ r \in RecvReqs(f)
    BY <1>1, <2>2, <2>3, RecvCqesAre, RecvReqsAre
  <2> QED  BY <2>1, <2>4, CountOne DEF Once
<1>2. CASE ~ (r.kind = "recv" /\ r.fd = f)
  <2>1. ASSUME NEW c \in Members(new), c.tag.fd = f, c.tag.op = "Recv"
        PROVE  FALSE
    <3>1. ZeroTag.fd = 0 /\ 0 \notin Fds
      BY Constants DEF ZeroTag
    <3>0. c \in Answers /\ Unpacked("Recv") = "Recv"
      BY <1>0, <2>1, MembersType, TagsOf DEF Ops
    <3>a. c.tag = Tag(f, "Recv")
      BY <2>1, <3>0, AnswerFacts DEF Tag, Tags
    <3>2. c.tag = r.tag
      BY <2>1, <3>a DEF RepliesTo, Told
    <3>3. r.kind = "task" => Unpacked(r.task) # "Recv"
      BY SqeFacts, TagsOf DEF ParseTasks, Ops
    <3>4. r.kind \in { "recv", "close" }
      BY <2>1, <3>1, <3>2, <3>3, SqeFacts, SqeTags
    <3> QED  BY <1>2, <2>1, <3>2, <3>4, SqeTags
  <2>2. Members(new) \cap RecvCqes(f) = {}
    BY <1>0, <2>1, MembersType, RecvCqesAre
  <2>3. r \notin RecvReqs(f)
    BY <1>2, RecvReqsAre
  <2> QED  BY <1>0, <2>2, <2>3, CountNone DEF Once
<1> QED  BY <1>1, <1>2

(* A receive that is issued stays under way, or is refused.                *)
LEMMA ReceivesIssue ==
  ASSUME Types, Owns, Receives, Issue, UNCHANGED loopVars
  PROVE  Receives'
<1> DEFINE r == Head(sq)
<1>0. r = Head(sq)
  OBVIOUS
<1> HIDE DEF r
<1>1. /\ sq # <<>> /\ r \in Sqes /\ r \in Members(sq) /\ sq' = Tail(sq)
      /\ UNCHANGED << table, carried, robbed >> /\ Live' = Live
      /\ r.kind = "task" => r.stale \in carried
  BY <1>0, IssueFacts DEF loopVars, Live, others, Types, Carries
<1>t. \A f : Told(f)' = Told(f)
  BY <1>1 DEF Told
<1> SUFFICES ASSUME NEW f \in Fds
             PROVE  Holds(f)' /\ Single(f)'
  BY DEF Receives
<1>2. Holds(f) /\ Single(f)
  BY DEF Receives
<1>3. ASSUME NEW op, Begins(op), op.sqe = r
      PROVE  Holds(f)' /\ Single(f)'
  <2>1. Pending(RecvReqs(f), RecvCqes(f))' = Pending(RecvReqs(f), RecvCqes(f))
    BY <1>1, <1>3, BeginsPending
  <2>2. /\ Members(sq') \subseteq Members(sq) /\ UNCHANGED cq
        /\ DOMAIN ops' = DOMAIN ops \cup { op }
    BY <1>1, <1>3, BeginsMembers
  <2>3. Single(f)'
    BY <1>1, <1>t, <1>2, <2>1 DEF Single
  <2>4. Holds(f)'
    BY <1>1, <1>2, <1>3, <2>2 DEF Holds
  <2> QED  BY <2>3, <2>4
<1>4. ASSUME NEW new, RepliesTo(r, new)
      PROVE  Holds(f)' /\ Single(f)'
  <2>1. Replies(new) /\ \A c \in Members(new) : c.res \in { 0, EINVAL, EBADF }
    BY <1>4 DEF RepliesTo
  <2>2. \A e \in { 0, EINVAL, EBADF } : ~ (e > 0)
    BY DEF EINVAL, EBADF
  <2>3. /\ Members(sq') \subseteq Members(sq) /\ UNCHANGED ops
        /\ Members(cq') = Members(cq) \cup Members(new)
    BY <1>1, <2>1, RepliesMembers
  <2>4. Holds(f)'
    BY <1>1, <1>2, <2>1, <2>2, <2>3 DEF Holds
  <2>5. f \in Live \ robbed \/ f \notin DOMAIN table => Open(f)
    BY DEF Open, Live
  <2>6. Open(f) => ~ (r.kind = "close" /\ r.fd = f)
    BY <1>1 DEF Owns, OwnsFd
  <2>7. Open(f) /\ Told(f) => Count(new, RecvCqes(f)) = Once(r, RecvReqs(f))
    BY <1>1, <1>4, <2>6, RecvReplies
  <2>8. /\ Pending(RecvReqs(f), RecvCqes(f)) \in Nat /\ Pending(RecvReqs(f), RecvCqes(f))' \in Nat
        /\ Count(new, RecvCqes(f)) \in Nat
        /\ Pending(RecvReqs(f), RecvCqes(f))' + Once(r, RecvReqs(f))
             = Pending(RecvReqs(f), RecvCqes(f)) + Count(new, RecvCqes(f))
    BY <1>0, <1>1, <2>1, RepliesPending, PendingHas
  <2>9. Open(f) /\ Told(f) => Pending(RecvReqs(f), RecvCqes(f))' = Pending(RecvReqs(f), RecvCqes(f))
    BY <2>7, <2>8
  <2>10. Single(f)'
    BY <1>1, <1>t, <1>2, <2>5, <2>9 DEF Single
  <2> QED  BY <2>4, <2>10
<1> QED  BY <1>0, <1>3, <1>4, IssueReplies

(* The completion of an operation ends the receive it belongs to, if any.  *)
LEMMA ReceivesCompletes ==
  ASSUME Types, Receives, UNCHANGED << table, carried, robbed >>, NEW op, NEW cqe,
         RecvCompletes(op, cqe) \/ ElseCompletes(op, cqe)
  PROVE  Receives'
<1>1. /\ Completes(op, cqe) /\ op \in DOMAIN ops /\ op.sqe \in Sqes /\ cqe \in Answers
      /\ cqe.more \in BOOLEAN /\ Live' = Live
  BY AnswerFacts DEF RecvCompletes, ElseCompletes, Completes, Live
<1>2. /\ UNCHANGED sq /\ DOMAIN ops' \subseteq DOMAIN ops
      /\ Members(cq') = Members(cq) \cup { cqe }
  BY <1>1, CompletesMembers
<1> SUFFICES ASSUME NEW f \in Fds
             PROVE  Holds(f)' /\ Single(f)'
  BY DEF Receives
<1>3. Holds(f) /\ Single(f)
  BY DEF Receives
<1>4. op.sqe \in RecvReqs(f) <=> op.sqe.kind = "recv" /\ op.sqe.fd = f
  BY <1>1, RecvReqsAre
<1>5. cqe \in RecvCqes(f) <=> cqe.tag.fd = f /\ cqe.tag.op = "Recv" /\ ~ cqe.more
  BY <1>1, RecvCqesAre
<1>6. (IF cqe.more THEN 0 ELSE Once(op.sqe, RecvReqs(f))) = Once(cqe, RecvCqes(f))
  BY <1>4, <1>5 DEF Once, RecvCompletes, ElseCompletes
<1>7. /\ Pending(RecvReqs(f), RecvCqes(f)) \in Nat /\ Pending(RecvReqs(f), RecvCqes(f))' \in Nat
      /\ Once(cqe, RecvCqes(f)) \in Nat
      /\ Pending(RecvReqs(f), RecvCqes(f))' + (IF cqe.more THEN 0 ELSE Once(op.sqe, RecvReqs(f)))
           = Pending(RecvReqs(f), RecvCqes(f)) + Once(cqe, RecvCqes(f))
  BY <1>1, CompletesPending, PendingHas, OnceType
<1>8. Pending(RecvReqs(f), RecvCqes(f))' = Pending(RecvReqs(f), RecvCqes(f))
  BY <1>6, <1>7
<1>9. Single(f)'
  BY <1>1, <1>3, <1>8 DEF Single, Told
<1>10. f \in Live \ robbed /\ ~ table[f].rx_hold =>
         (cqe.tag.op = "Recv" /\ cqe.tag.fd = f /\ cqe.res > 0 => cqe.buffer)
  BY <1>1, <1>3 DEF Holds, RecvCompletes, ElseCompletes
<1>11. Holds(f)'
  BY <1>1, <1>2, <1>3, <1>10 DEF Holds
<1> QED  BY <1>9, <1>11

(* Every step of the ring keeps it.                                        *)
LEMMA ReceivesRing ==
  ASSUME Types, Owns, Fits, Receives,
         UringNext(Segment), UNCHANGED loopVars
  PROVE  Receives'
<1>0. UNCHANGED << table, carried >>
  BY DEF loopVars
<1>1. CASE KernelRecv(Segment)
  <2>1. UNCHANGED robbed
    BY <1>1, RecvDone DEF others
  <2> QED  BY <1>0, <1>1, <2>1, RecvCompletesFacts, ReceivesCompletes
<1>2. CASE KernelAccept \/ KernelSend \/ KernelPoll
  <2>1. UNCHANGED robbed
    BY <1>2, AcceptDone, SendDone, PollDone DEF others
  <2> QED  BY <1>0, <1>2, <2>1, ElseCompletesFacts, ReceivesCompletes
<1>3. CASE Connect \/ PeerEnds \/ OtherAccept \/ OtherClose
  <2>1. robbed \subseteq robbed'
    BY <1>3 DEF Connect, PeerEnds, OtherAccept, OtherClose, bounds, others
  <2> QED  BY <1>0, <1>3, <2>1, OthersKeepTypes, ReceivesQuiet
<1> QED  BY <1>1, <1>2, <1>3, ReceivesIssue DEF UringNext

(* At first there is no storage and no receive.                            *)
LEMMA ReceivesInit ==
  ASSUME Init
  PROVE  Receives
<1>1. /\ cq = <<>> /\ sq = PostAccept(TRUE, FALSE) /\ ops = EmptyBag /\ table = <<>>
  BY DEF Init, UringInit
<1> DEFINE q == AcceptOf(TRUE)
<1>2. sq = << q >> /\ q.kind = "accept"
  BY <1>1, Made DEF PostAccept
<1> HIDE DEF q
<1>3. DOMAIN table = {} /\ Live = {}
  BY <1>1 DEF Live
<1>4. \A f : q \notin RecvReqs(f)
  BY <1>2 DEF RecvReqs, Reqs
<1>5. ASSUME NEW f
      PROVE  Pending(RecvReqs(f), RecvCqes(f)) = 0
  <2>1. /\ Count(sq, RecvReqs(f)) = 0 /\ Count(cq, RecvCqes(f)) = 0
        /\ Mult(ops, RecvReqs(f)) = 0
    BY <1>1, <1>2, <1>4, CountOne, CountEmpty, MultEmpty DEF Once
  <2> QED  BY <2>1 DEF Pending
<1> QED  BY <1>3, <1>5 DEF Receives, Holds, Single

(* It implies OneRecvOutstanding.                                          *)
LEMMA ReceivesGiveOneRecv ==
  ASSUME Types, Receives
  PROVE  OneRecvOutstanding
<1> SUFFICES ASSUME NEW f \in Live \ robbed, Told(f)
             PROVE  Recvs(f) = 1
  BY DEF OneRecvOutstanding, Told
<1>1. f \in Fds
  BY DEF Types, Live
<1>2. Pending(RecvReqs(f), RecvCqes(f)) = 1
  BY <1>1 DEF Receives, Single
<1> QED  BY <1>2, UnderWayPending DEF Recvs, RecvReqs, RecvCqes

(* With or without multishot requests and a pool: every live connection    *)
(* that no other worker has closed has exactly one receive under way,      *)
(* through accepts, data, the end of a multishot receive and its switch to *)
(* single ones, unless a task has found the tag of one of its receives in  *)
(* its slot of the submission queue.  That closes complete with the tag of *)
(* a receive does no harm, for a storage marked closing asks for no other. *)
THEOREM OneReceivePerConnection ==
  Spec => []OneRecvOutstanding
<1> DEFINE I == Types /\ Owns /\ Fits /\ Receives
<1>2. Init => I
  BY InitTypes, OwnsInit, FitsInit, ReceivesInit
<1>3. I /\ [Next]_vars => I'
  <2> SUFFICES ASSUME Types, Owns, Fits, Receives, [Next]_vars
               PROVE  Types' /\ Owns' /\ Fits' /\ Receives'
    OBVIOUS
  <2>1. Types' /\ Owns' /\ Fits'
    BY TypesStep, OwnsStep, FitsStep
  <2>2. CASE UNCHANGED vars
    <3>1. UNCHANGED << sq, cq, ops, table, carried, robbed >>
      BY <2>2 DEF vars, uringVars, loopVars, bounds, others
    <3> QED  BY <2>1, <3>1, ReceivesQuiet
  <2>3. CASE Next
    BY <2>1, <2>3, ReceivesHandle, ReceivesRing DEF Next
  <2> QED  BY <2>1, <2>2, <2>3
<1>4. I => OneRecvOutstanding
  BY ReceivesGiveOneRecv
<1> QED  BY <1>2, <1>3, <1>4, PTL DEF Spec

-----------------------------------------------------------------------------
(* Sends, polls and flushes of a descriptor, and what ends them.           *)

SendReqs(f) == Reqs("send", Tag(f, "Send"))
SendCqes(f) == Cqes(Tag(f, "Send"))

PollReqs(f) == Reqs("poll", Tag(f, "PollOut"))
PollCqes(f) == Cqes(Tag(f, "PollOut"))

FlushReqs(f) == Reqs("task", Tag(f, "RequestFlush"))
FlushCqes(f) == Cqes(Tag(f, "RequestFlush"))

(* The completions that end them, told by descriptor and op.               *)
LEMMA CqesAre ==
  ASSUME NEW f \in Fds, NEW c \in Answers
  PROVE  /\ c \in SendCqes(f) <=> c.tag.fd = f /\ c.tag.op = "Send" /\ ~ c.more
         /\ c \in PollCqes(f) <=> c.tag.fd = f /\ c.tag.op = "PollOut" /\ ~ c.more
         /\ c \in FlushCqes(f) <=> c.tag.fd = f /\ c.tag.op = "RequestFlush" /\ ~ c.more
<1>1. \A op \in { "Send", "PollOut", "RequestFlush" } : Unpacked(op) = op
  BY TagsOf DEF Ops
<1>2. \A op \in { "Send", "PollOut", "RequestFlush" } :
        c.tag = Tag(f, op) <=> c.tag.fd = f /\ c.tag.op = op
  BY <1>1, AnswerFacts DEF Tag, Tags
<1> QED  BY <1>2 DEF SendCqes, PollCqes, FlushCqes, Cqes

(* Sends and polls of a descriptor, told by kind and descriptor.           *)
LEMMA SendReqsAre ==
  ASSUME NEW f \in Fds, NEW r \in Sqes
  PROVE  /\ r \in SendReqs(f) <=> r.kind = "send" /\ r.fd = f
         /\ r \in PollReqs(f) <=> r.kind = "poll" /\ r.fd = f
<1>1. /\ r.kind = "send" => r.tag = Tag(r.fd, "Send")
      /\ r.kind = "poll" => r.tag = Tag(r.fd, "PollOut")
  BY SqeFacts
<1>2. \A g, op : Tag(g, op).fd = g
  BY DEF Tag
<1> QED  BY <1>1, <1>2 DEF SendReqs, PollReqs, Reqs

(* What a slot leaves in a task is no part of what these are told by.      *)
LEMMA ReqsBlind ==
  ASSUME NEW kind, NEW tag
  PROVE  Blind(Reqs(kind, tag))
<1> SUFFICES ASSUME NEW r \in Sqes, NEW t \in StaleTags, r.kind = "task"
             PROVE  r \in Reqs(kind, tag) <=> [ r EXCEPT !.stale = t ] \in Reqs(kind, tag)
  BY DEF Blind
<1> DEFINE s == [ r EXCEPT !.stale = t ]
<1>1. s = [ r EXCEPT !.stale = t ]
  OBVIOUS
<1> HIDE DEF s
<1>2. s \in Sqes /\ s.kind = r.kind /\ s.tag = r.tag
  BY <1>1, StaleSame
<1> QED  BY <1>1, <1>2 DEF Reqs

(* So for sends, polls and flushes.                                        *)
LEMMA SendsBlind ==
  ASSUME NEW f
  PROVE  Blind(SendReqs(f)) /\ Blind(PollReqs(f)) /\ Blind(FlushReqs(f))
BY ReqsBlind DEF SendReqs, PollReqs, FlushReqs

(* A handler leaves something under way that it does not take, or that it  *)
(* asks for.                                                               *)
LEMMA KeptTaking ==
  ASSUME Types, Taking, NEW new, Queues(new), NEW S, Blind(S), NEW A,
         \/ Pending(S, A) > 0 /\ Cqe1 \notin A
         \/ Members(new) \cap S # {}
  PROVE  Pending(S, A)' > 0
<1>1. /\ Count(new, S) \in Nat /\ Pending(S, A)' \in Nat /\ Pending(S, A) \in Nat
      /\ Pending(S, A)' + Once(Cqe1, A) = Pending(S, A) + Count(new, S)
  BY TakingPending, PendingHas
<1>2. CASE Pending(S, A) > 0 /\ Cqe1 \notin A
  <2>1. Once(Cqe1, A) = 0
    BY <1>2 DEF Once
  <2> QED  BY <1>1, <1>2, <2>1
<1>3. CASE Members(new) \cap S # {}
  <2>1. Count(new, S) > 0
    BY <1>3, MembersCount DEF Queues
  <2>2. Once(Cqe1, A) = 0 \/ (Once(Cqe1, A) = 1 /\ Pending(S, A) > 0)
    BY PendingHas DEF Once, Taking
  <2> QED  BY <1>1, <2>1, <2>2
<1> QED  BY <1>2, <1>3

(* The ring loses nothing that is under way.                               *)
LEMMA KeptIssue ==
  ASSUME Types, Issue, NEW kind, kind # "provide", NEW tag,
         Pending(Reqs(kind, tag), Cqes(tag)) > 0
  PROVE  Pending(Reqs(kind, tag), Cqes(tag))' > 0
<1> DEFINE r == Head(sq)
           S == Reqs(kind, tag)
           A == Cqes(tag)
<1>0. r = Head(sq) /\ Pending(S, A) > 0
  OBVIOUS
<1>d. \A s \in S : s.kind = kind /\ s.tag = tag
  BY DEF Reqs
<1>e. \A c \in Answers : c.tag = tag /\ ~ c.more => c \in A
  BY DEF Cqes
<1> HIDE DEF r, S, A
<1>1. sq # <<>> /\ sq' = Tail(sq)
  BY <1>0, IssueFacts
<1>2. ASSUME NEW op, Begins(op)
      PROVE  Pending(S, A)' > 0
  BY <1>0, <1>1, <1>2, BeginsPending
<1>3. ASSUME NEW new, RepliesTo(r, new)
      PROVE  Pending(S, A)' > 0
  <2>1. new \in Seq(Answers) /\ Replies(new)
    BY <1>3 DEF RepliesTo, Replies
  <2>2. /\ Count(new, A) \in Nat /\ Pending(S, A)' \in Nat /\ Pending(S, A) \in Nat
        /\ Pending(S, A)' + Once(r, S) = Pending(S, A) + Count(new, A)
    BY <1>0, <1>1, <2>1, RepliesPending, PendingHas
  <2>3. CASE r \in S
    <3>1. PICK c \in Members(new) : c.tag = r.tag /\ ~ c.more
      BY <1>3, <1>d, <2>3 DEF RepliesTo
    <3>2. c \in A
      BY <1>d, <1>e, <2>1, <2>3, <3>1, MembersType
    <3>3. Count(new, A) > 0 /\ Once(r, S) = 1
      BY <2>1, <2>3, <3>1, <3>2, MembersCount DEF Once
    <3> QED  BY <1>0, <2>2, <3>3
  <2>4. CASE r \notin S
    <3>1. Once(r, S) = 0
      BY <2>4 DEF Once
    <3> QED  BY <1>0, <2>2, <3>1
  <2> QED  BY <2>3, <2>4
<1>4. Pending(S, A)' > 0
  BY <1>0, <1>2, <1>3, IssueReplies
<1> QED  BY <1>4 DEF S, A

(* An operation that completes stays under way until it is handled.        *)
LEMMA KeptCompletes ==
  ASSUME Types, NEW op, NEW cqe, Completes(op, cqe), NEW kind, NEW tag,
         Pending(Reqs(kind, tag), Cqes(tag)) > 0
  PROVE  Pending(Reqs(kind, tag), Cqes(tag))' > 0
<1> DEFINE S == Reqs(kind, tag)
           A == Cqes(tag)
<1>0. Pending(S, A) > 0
  OBVIOUS
<1>1. op.sqe \in S /\ ~ cqe.more => cqe \in A
  BY DEF Reqs, Cqes, Completes
<1> HIDE DEF S, A
<1>2. /\ Pending(S, A)' \in Nat /\ Pending(S, A) \in Nat
      /\ Pending(S, A)' + (IF cqe.more THEN 0 ELSE Once(op.sqe, S))
           = Pending(S, A) + Once(cqe, A)
  BY CompletesPending, PendingHas
<1>3. \/ (IF cqe.more THEN 0 ELSE Once(op.sqe, S)) = 0
      \/ (IF cqe.more THEN 0 ELSE Once(op.sqe, S)) = 1 /\ Once(cqe, A) = 1
  BY <1>1 DEF Once
<1>4. Once(cqe, A) \in Nat
  BY OnceType
<1>5. Pending(S, A)' > 0
  BY <1>0, <1>2, <1>3, <1>4
<1> QED  BY <1>5 DEF S, A

(* No step of the ring loses anything that is under way.                   *)
LEMMA KeptRing ==
  ASSUME Types, UringNext(Segment), NEW kind, kind # "provide", NEW tag,
         Pending(Reqs(kind, tag), Cqes(tag)) > 0
  PROVE  Pending(Reqs(kind, tag), Cqes(tag))' > 0
<1>1. CASE Issue
  BY <1>1, KeptIssue
<1>2. CASE KernelAccept \/ KernelRecv(Segment) \/ KernelSend \/ KernelPoll
  <2>1. \E op, cqe : Completes(op, cqe)
    BY <1>2, AcceptDone, RecvDone, SendDone, PollDone
  <2> QED  BY <2>1, KeptCompletes
<1>3. CASE Connect \/ PeerEnds \/ OtherAccept \/ OtherClose
  BY <1>3, OthersKeepTypes, QuietPending
<1> QED  BY <1>1, <1>2, <1>3 DEF UringNext

-----------------------------------------------------------------------------
(* Queued data of a live connection will be kicked again.                  *)

(* The flags of the storage are true, and whatever is queued waits for     *)
(* them or for a flush that was asked for.                                 *)
Flows(f) ==
  LET c == table[f]
  IN  /\ c.tx.send_inflight => Pending(SendReqs(f), SendCqes(f)) > 0
      /\ c.pollout_armed => Pending(PollReqs(f), PollCqes(f)) > 0
      /\ c.tx.txq # <<>> => \/ c.tx.send_inflight \/ c.pollout_armed
                            \/ Pending(FlushReqs(f), FlushCqes(f)) > 0

Flow == \A f \in Live : Flows(f)

(* A handler that leaves the storage of f alone, and takes no completion   *)
(* that f waits for.                                                       *)
LEMMA FlowsKept ==
  ASSUME Types, Taking, NEW new, Queues(new), NEW f \in Fds, Flows(f),
         table'[f] = table[f],
         fd1 = f => Cqe1.tag.op \notin { "Send", "PollOut", "RequestFlush" }
  PROVE  Flows(f)'
<1>1. /\ Cqe1 \notin SendCqes(f) /\ Cqe1 \notin PollCqes(f) /\ Cqe1 \notin FlushCqes(f)
  BY CqesAre DEF Taking, fd1
<1>2. /\ Pending(SendReqs(f), SendCqes(f)) > 0 => Pending(SendReqs(f), SendCqes(f))' > 0
      /\ Pending(PollReqs(f), PollCqes(f)) > 0 => Pending(PollReqs(f), PollCqes(f))' > 0
      /\ Pending(FlushReqs(f), FlushCqes(f)) > 0 => Pending(FlushReqs(f), FlushCqes(f))' > 0
  BY <1>1, SendsBlind, KeptTaking
<1> QED  BY <1>2 DEF Flows

(* Where neither ring nor table change.                                    *)
LEMMA FlowQuiet ==
  ASSUME Flow, UNCHANGED << sq, cq, ops, table >>
  PROVE  Flow'
BY QuietPending DEF Flow, Flows, Live

(* The table stays as it is, or wins a storage.                            *)
LEMMA FlowIdle ==
  ASSUME Types, Flow, Taking, NEW new, Queues(new),
         \A f \in Live' : f \in Live /\ table'[f] = table[f],
         fd1 \in DOMAIN table => Cqe1.tag.op \notin { "Send", "PollOut", "RequestFlush" }
  PROVE  Flow'
<1> SUFFICES ASSUME NEW f \in Live'
             PROVE  Flows(f)'
  BY DEF Flow
<1>1. f \in Live /\ f \in DOMAIN table /\ f \in Fds /\ Flows(f)
  BY DEF Flow, Live, Types
<1> QED  BY <1>1, FlowsKept

(* One storage changes: what its flags say is under way still, or asked for*)
(* now.                                                                    *)
LEMMA FlowUpdates ==
  ASSUME Types, Flow, NEW c, NEW new, Updates(c, new),
         ~ c.closing =>
           /\ c.tx.send_inflight => \/ Members(new) \cap SendReqs(fd1) # {}
                                    \/ c1.tx.send_inflight /\ Cqe1.tag.op # "Send"
           /\ c.pollout_armed => \/ Members(new) \cap PollReqs(fd1) # {}
                                 \/ c1.pollout_armed /\ Cqe1.tag.op # "PollOut"
           /\ c.tx.txq # <<>> =>
                \/ c.tx.send_inflight \/ c.pollout_armed
                \/ Members(new) \cap FlushReqs(fd1) # {}
                \/ /\ c1.tx.txq # <<>> /\ ~ c1.tx.send_inflight /\ ~ c1.pollout_armed
                   /\ Cqe1.tag.op # "RequestFlush"
  PROVE  Flow'
<1>1. /\ Taking /\ Queues(new) /\ fd1 \in DOMAIN table /\ fd1 \in Fds
      /\ table' = [ table EXCEPT ![fd1] = c ]
      /\ c1.closing => c.closing
  BY DEF Updates
<1>2. /\ DOMAIN table' = DOMAIN table /\ table'[fd1] = c
      /\ \A f \in DOMAIN table : f # fd1 => table'[f] = table[f]
  BY <1>1 DEF Types
<1> SUFFICES ASSUME NEW f \in Live'
             PROVE  Flows(f)'
  BY DEF Flow
<1>3. f \in Live /\ f \in DOMAIN table /\ f \in Fds
  BY <1>1, <1>2 DEF Live, c1, Types
<1>4. Flows(f)
  BY <1>3 DEF Flow
<1>5. CASE f # fd1
  BY <1>1, <1>2, <1>3, <1>4, <1>5, FlowsKept
<1>6. CASE f = fd1
  <2>1. ~ c.closing
    BY <1>2, <1>6 DEF Live
  <2>2. /\ Cqe1.tag.op # "Send" => Cqe1 \notin SendCqes(f)
        /\ Cqe1.tag.op # "PollOut" => Cqe1 \notin PollCqes(f)
        /\ Cqe1.tag.op # "RequestFlush" => Cqe1 \notin FlushCqes(f)
    BY <1>1, <1>3, CqesAre DEF Taking
  <2>3. /\ c1.tx.send_inflight => Pending(SendReqs(f), SendCqes(f)) > 0
        /\ c1.pollout_armed => Pending(PollReqs(f), PollCqes(f)) > 0
        /\ c1.tx.txq # <<>> => \/ c1.tx.send_inflight \/ c1.pollout_armed
                               \/ Pending(FlushReqs(f), FlushCqes(f)) > 0
    BY <1>4, <1>6 DEF Flows, c1
  <2>4. c.tx.send_inflight => Pending(SendReqs(f), SendCqes(f))' > 0
    BY <1>1, <1>6, <2>1, <2>2, <2>3, SendsBlind, KeptTaking
  <2>5. c.pollout_armed => Pending(PollReqs(f), PollCqes(f))' > 0
    BY <1>1, <1>6, <2>1, <2>2, <2>3, SendsBlind, KeptTaking
  <2>6. c.tx.txq # <<>> => \/ c.tx.send_inflight \/ c.pollout_armed
                           \/ Pending(FlushReqs(f), FlushCqes(f))' > 0
    BY <1>1, <1>6, <2>1, <2>2, <2>3, SendsBlind, KeptTaking
  <2> QED  BY <1>2, <1>6, <2>4, <2>5, <2>6 DEF Flows
<1> QED  BY <1>5, <1>6

(* What a kick leaves: nothing queued, or a sendmsg asked for.             *)
LEMMA KickFlows ==
  ASSUME NEW f \in Fds, NEW old, NEW tx, NEW new, Kicked(f, old, tx, new),
         new \in Seq(Sqes)
  PROVE  \/ Members(new) \cap SendReqs(f) # {} /\ tx.send_inflight
         \/ tx = old /\ (tx.txq # <<>> => tx.send_inflight)
<1>1. CASE new = << SendOf(f, tx.tx_inflight) >> /\ tx.send_inflight
  <2>1. SendOf(f, tx.tx_inflight) \in Members(new)
    BY <1>1, MembersOne
  <2>2. SendOf(f, tx.tx_inflight) \in Sqes
    BY <2>1, MembersType
  <2>3. SendOf(f, tx.tx_inflight) \in SendReqs(f)
    BY <2>2, Made, SendReqsAre
  <2> QED  BY <1>1, <2>1, <2>3
<1> QED  BY <1>1 DEF Kicked, NothingToKick

(* A segment: what is queued is kicked.                                    *)
LEMMA FlowData ==
  ASSUME Types, Flow, HandleRecvData
  PROVE  Flow'
<1>1. PICK c, back, posted, kick, again : RecvDataUpdates(c, back, posted, kick, again)
  BY RecvDataFacts
<1>2. /\ Updates(c, back \o posted \o kick \o again)
      /\ back \in Seq(Sqes) /\ posted \in Seq(Sqes) /\ kick \in Seq(Sqes) /\ again \in Seq(Sqes)
      /\ Kicked(fd1, c1.tx, c.tx, kick)
      /\ c.pollout_armed = c1.pollout_armed
  BY <1>1 DEF RecvDataUpdates
<1> DEFINE new == back \o posted \o kick \o again
<1>3. Members(new) = Members(back) \cup Members(posted) \cup Members(kick) \cup Members(again)
  BY <1>2, FourParts
<1>4. Updates(c, new)
  BY <1>2
<1> HIDE DEF new
<1>5. Cqe1.tag.op = "Recv" /\ fd1 \in Fds
  BY <1>4, RecvDataFacts DEF Updates
<1>6. \/ Members(kick) \cap SendReqs(fd1) # {} /\ c.tx.send_inflight
      \/ c.tx = c1.tx /\ (c.tx.txq # <<>> => c.tx.send_inflight)
  BY <1>2, <1>5, KickFlows
<1>7. \/ Members(new) \cap SendReqs(fd1) # {} /\ c.tx.send_inflight
      \/ c.tx = c1.tx /\ (c.tx.txq # <<>> => c.tx.send_inflight)
  BY <1>3, <1>6
<1> QED  BY <1>2, <1>4, <1>5, <1>7, FlowUpdates

(* A new storage has nothing queued.                                       *)
LEMMA FlowAccepted ==
  ASSUME Types, Flow, HandleAccepted
  PROVE  Flow'
<1>1. /\ Taking /\ Cqe1.tag.op = "Accept" /\ Cqe1.res \in Fds
      /\ \E new : Queues(new)
      /\ \/ /\ Cqe1.res \notin DOMAIN table
            /\ \E c \in PerClientStorage :
                 /\ table' = [ f \in DOMAIN table \cup { Cqe1.res } |->
                                 IF f = Cqe1.res THEN c ELSE table[f] ]
                 /\ c.tx = InitTx /\ ~ c.pollout_armed
         \/ UNCHANGED table
  BY AcceptedFacts
<1>2. CASE UNCHANGED table
  BY <1>1, <1>2, FlowIdle DEF Live
<1>3. CASE /\ Cqe1.res \notin DOMAIN table
           /\ \E c \in PerClientStorage :
                /\ table' = [ f \in DOMAIN table \cup { Cqe1.res } |->
                                IF f = Cqe1.res THEN c ELSE table[f] ]
                /\ c.tx = InitTx /\ ~ c.pollout_armed
  <2>1. PICK c \in PerClientStorage :
          /\ table' = [ f \in DOMAIN table \cup { Cqe1.res } |->
                          IF f = Cqe1.res THEN c ELSE table[f] ]
          /\ c.tx = InitTx /\ ~ c.pollout_armed
    BY <1>3
  <2> SUFFICES ASSUME NEW f \in Live'
               PROVE  Flows(f)'
    BY DEF Flow
  <2>2. CASE f = Cqe1.res
    <3>1. table'[f] = c
      BY <2>1, <2>2
    <3>2. ~ c.tx.send_inflight /\ c.tx.txq = <<>> /\ ~ c.pollout_armed
      BY <2>1 DEF InitTx
    <3> QED  BY <3>1, <3>2 DEF Flows
  <2>3. CASE f # Cqe1.res
    <3>1. f \in DOMAIN table /\ table'[f] = table[f]
      BY <2>1, <2>3 DEF Live
    <3>2. f \in Live /\ f \in Fds
      BY <3>1 DEF Live, Types
    <3>3. Flows(f)
      BY <3>2 DEF Flow
    <3> QED  BY <1>1, <3>1, <3>2, <3>3, FlowsKept
  <2> QED  BY <2>2, <2>3
<1> QED  BY <1>1, <1>2, <1>3

(* Every handler keeps it.                                                 *)
LEMMA FlowHandle ==
  ASSUME Types, Flow, Handle
  PROVE  Flow'
<1>0. ASSUME NEW c, NEW new, Updates(c, new)
      PROVE  fd1 \in Fds /\ new \in Seq(Sqes)
  BY <1>0 DEF Updates, Queues
<1>1. CASE HandleAcceptFailed
  BY <1>1, AcceptFailedFacts, FlowIdle DEF Live
<1>2. CASE HandleRecvFailed
  <2>1. /\ Cqe1.tag.op = "Recv"
        /\ \E c, new : /\ Updates(c, new)
                       /\ c.tx = c1.tx /\ c.pollout_armed = c1.pollout_armed
    BY <1>2, RecvFailedFacts
  <2> QED  BY <2>1, FlowUpdates
<1>3. CASE HandleSendCompleted
  <2>1. PICK c, new : /\ Updates(c, new) /\ Kicked(fd1, Completed(c1.tx), c.tx, new)
                      /\ c.pollout_armed = c1.pollout_armed /\ Cqe1.tag.op = "Send"
    BY <1>3, SendCompletedFacts
  <2>2. \/ Members(new) \cap SendReqs(fd1) # {} /\ c.tx.send_inflight
        \/ c.tx = Completed(c1.tx) /\ (c.tx.txq # <<>> => c.tx.send_inflight)
    BY <1>0, <2>1, KickFlows
  <2>3. ~ Completed(c1.tx).send_inflight
    BY DEF Completed
  <2> QED  BY <2>1, <2>2, <2>3, FlowUpdates
<1>4. CASE HandlePollOut
  <2>1. PICK c, new : /\ Updates(c, new) /\ Kicked(fd1, c1.tx, c.tx, new)
                      /\ ~ c.pollout_armed /\ Cqe1.tag.op = "PollOut"
    BY <1>4, PollOutFacts
  <2>2. \/ Members(new) \cap SendReqs(fd1) # {} /\ c.tx.send_inflight
        \/ c.tx = c1.tx /\ (c.tx.txq # <<>> => c.tx.send_inflight)
    BY <1>0, <2>1, KickFlows
  <2> QED  BY <2>1, <2>2, FlowUpdates
<1>5. CASE HandleRequestFlush
  <2>1. PICK c, new : /\ Updates(c, new) /\ Kicked(fd1, c1.tx, c.tx, new)
                      /\ c.pollout_armed = c1.pollout_armed /\ Cqe1.tag.op = "RequestFlush"
    BY <1>5, RequestFlushFacts
  <2>2. \/ Members(new) \cap SendReqs(fd1) # {} /\ c.tx.send_inflight
        \/ c.tx = c1.tx /\ (c.tx.txq # <<>> => c.tx.send_inflight)
    BY <1>0, <2>1, KickFlows
  <2> QED  BY <2>1, <2>2, FlowUpdates
<1>6. CASE HandleSendAgain
  <2>1. PICK c, new : /\ Updates(c, new) /\ c.tx = RollBack(c1.tx) /\ c.pollout_armed
                      /\ Cqe1.tag.op = "Send"
                      /\ c1.pollout_armed \/ new = << PollOf(fd1) >>
    BY <1>6, SendAgainFacts
  <2>2. ~ c.tx.send_inflight
    BY <2>1 DEF RollBack
  <2>3. PollOf(fd1) \in PollReqs(fd1)
    BY <1>0, <2>1, PollTyped, Made, SendReqsAre
  <2>4. c1.pollout_armed \/ Members(new) \cap PollReqs(fd1) # {}
    BY <2>1, <2>3, MembersOne
  <2> QED  BY <2>1, <2>2, <2>4, FlowUpdates
<1>7. CASE HandleSendFailed
  <2>1. \E c : Updates(c, << CloseOf(fd1, Cqe1.conn) >>) /\ c.closing
    BY <1>7, SendFailedFacts
  <2> QED  BY <2>1, FlowUpdates
<1>8. CASE HandleThrow
  <2>1. UNCHANGED << sq, cq, ops, table >>
    BY <1>8 DEF HandleThrow, uringVars
  <2> QED  BY <2>1, FlowQuiet
<1>9. CASE HandleFindHandler
  <2>1. /\ Cqe1.tag.op = "FindHandler"
        /\ \E c : /\ Updates(c, <<>>) /\ c.tx = c1.tx /\ c.pollout_armed = c1.pollout_armed
    BY <1>9, FindHandlerFacts
  <2> QED  BY <2>1, FlowUpdates
<1>10. CASE HandleGenerateResponse
  <2> DEFINE q == TaskSqe(fd1, "RequestFlush", Cqe1.conn)
  <2>1. Cqe1.tag.op = "GenerateResponse"
    BY <1>10, GenerateResponseFacts
  <2>2. \/ UNCHANGED table /\ Taking /\ Queues(<<>>)
        \/ \E c : /\ Updates(c, << q >>) /\ q \in Sqes
                  /\ c.pollout_armed = c1.pollout_armed
                  /\ c.tx.send_inflight = c1.tx.send_inflight
    BY <1>10, GenerateResponseFacts
  <2>3. q.kind = "task" /\ q.tag = Tag(fd1, "RequestFlush")
    BY DEF TaskSqe
  <2> HIDE DEF q
  <2>4. CASE UNCHANGED table /\ Taking /\ Queues(<<>>)
    BY <2>1, <2>4, FlowIdle DEF Live
  <2>5. ASSUME NEW c, Updates(c, << q >>), q \in Sqes,
               c.pollout_armed = c1.pollout_armed, c.tx.send_inflight = c1.tx.send_inflight
        PROVE  Flow'
    <3>1. q \in FlushReqs(fd1)
      BY <2>3, <2>5 DEF FlushReqs, Reqs
    <3>2. Members(<< q >>) \cap FlushReqs(fd1) # {}
      BY <3>1, MembersOne
    <3> QED  BY <2>1, <2>5, <3>2, FlowUpdates
  <2> QED  BY <2>2, <2>4, <2>5
<1>11. CASE HandleNothing
  <2>1. Taking /\ Queues(<<>>) /\ UNCHANGED table /\ HasNoEffect(Cqe1.tag.op)
    BY <1>11, NothingFacts
  <2>2. fd1 \in DOMAIN table => Cqe1.tag.op \notin { "Send", "PollOut", "RequestFlush" }
    BY <2>1 DEF HasNoEffect
  <2> QED  BY <2>1, <2>2, FlowIdle DEF Live
<1> QED  BY <1>1, <1>2, <1>3, <1>4, <1>5, <1>6, <1>7, <1>8, <1>9, <1>10, <1>11,
            FlowAccepted, FlowData DEF Handle

(* Every step of the ring keeps it.                                        *)
LEMMA FlowRing ==
  ASSUME Types, Flow, UringNext(Segment), UNCHANGED table
  PROVE  Flow'
<1> SUFFICES ASSUME NEW f \in Live'
             PROVE  Flows(f)'
  BY DEF Flow
<1>1. Flows(f)
  BY DEF Flow, Live
<1>2. /\ Pending(SendReqs(f), SendCqes(f)) > 0 => Pending(SendReqs(f), SendCqes(f))' > 0
      /\ Pending(PollReqs(f), PollCqes(f)) > 0 => Pending(PollReqs(f), PollCqes(f))' > 0
      /\ Pending(FlushReqs(f), FlushCqes(f)) > 0 => Pending(FlushReqs(f), FlushCqes(f))' > 0
  BY KeptRing DEF SendReqs, SendCqes, PollReqs, PollCqes, FlushReqs, FlushCqes
<1> QED  BY <1>1, <1>2 DEF Flows

(* It implies NoLostFlush.                                                 *)
LEMMA FlowGivesNoLostFlush ==
  ASSUME Types, Flow
  PROVE  NoLostFlush
<1> SUFFICES ASSUME NEW f \in Live, table[f].tx.txq # <<>>
             PROVE  Sends(f) + Polls(f) + Flushes(f) > 0
  BY DEF NoLostFlush
<1>1. /\ Sends(f) = Pending(SendReqs(f), SendCqes(f))
      /\ Polls(f) = Pending(PollReqs(f), PollCqes(f))
      /\ Flushes(f) = Pending(FlushReqs(f), FlushCqes(f))
  BY UnderWayPending
     DEF Sends, Polls, Flushes, SendReqs, SendCqes, PollReqs, PollCqes, FlushReqs, FlushCqes
<1>2. Sends(f) \in Nat /\ Polls(f) \in Nat /\ Flushes(f) \in Nat
  BY <1>1, PendingHas
<1>3. Sends(f) > 0 \/ Polls(f) > 0 \/ Flushes(f) > 0
  BY <1>1 DEF Flow, Flows
<1> QED  BY <1>2, <1>3

(* Whatever the tags, and whether connections are closed and their         *)
(* descriptors and storages taken over or not: a live connection with      *)
(* queued data has a sendmsg, a poll or a flush under way.                 *)
THEOREM NothingStaysQueued ==
  Spec => []NoLostFlush
<1>2. Init => Types /\ Flow
  <2>1. Init => table = <<>>
    BY DEF Init
  <2>2. Init => Flow
    BY <2>1 DEF Flow, Live
  <2> QED  BY <2>2, InitTypes
<1>3. Types /\ Flow /\ [Next]_vars => (Types /\ Flow)'
  <2> SUFFICES ASSUME Types, Flow, [Next]_vars
               PROVE  Types' /\ Flow'
    OBVIOUS
  <2>1. Types'
    BY TypesStep
  <2>2. CASE UNCHANGED vars
    <3>1. UNCHANGED << sq, cq, ops, table >>
      BY <2>2 DEF vars, uringVars, loopVars
    <3> QED  BY <2>1, <3>1, FlowQuiet
  <2>3. CASE Next
    BY <2>1, <2>3, FlowHandle, FlowRing DEF Next, loopVars
  <2> QED  BY <2>2, <2>3
<1>4. Types /\ Flow => NoLostFlush
  BY FlowGivesNoLostFlush
<1> QED  BY <1>2, <1>3, <1>4, PTL DEF Spec

-----------------------------------------------------------------------------
(* Buffers handed to the kernel are kept.                                  *)

(* The kernel, or the queue, has at most the one sendmsg that the storage  *)
(* keeps the buffers of.                                                   *)
Pins(f) ==
  IF f \in DOMAIN table
  THEN LET t == table[f].tx
       IN  /\ Pending(SendReqs(f), SendCqes(f)) <= IF t.send_inflight THEN 1 ELSE 0
           /\ \A r \in Members(sq) :
                r.kind = "send" /\ r.fd = f => r.bufs = t.tx_inflight
           /\ \A o \in DOMAIN ops :
                o.sqe.kind = "send" /\ o.sqe.fd = f => o.sqe.bufs = t.tx_inflight
  ELSE Pending(SendReqs(f), SendCqes(f)) = 0

(* No task has found the tag of a sendmsg on f in its slot.                *)
Sure(f) == Tag(f, "Send") \notin carried

Keeps(f) == Sure(f) => Pins(f)

Keep ==
  /\ \A f \in Fds : Keeps(f)
  /\ \A c \in Members(cq) : c.tag.op = "Send" => ~ c.more

(* No sendmsg is left when the only one has completed.                     *)
LEMMA NotSending ==
  ASSUME Types, NEW f \in Fds,
         \/ Pending(SendReqs(f), SendCqes(f)) = 0
         \/ /\ Pending(SendReqs(f), SendCqes(f)) <= 1
            /\ Members(cq) \cap SendCqes(f) # {}
  PROVE  /\ \A r \in Members(sq) : ~ (r.kind = "send" /\ r.fd = f)
         /\ \A o \in DOMAIN ops : ~ (o.sqe.kind = "send" /\ o.sqe.fd = f)
<1>1. sq \in Seq(Sqes) /\ cq \in Seq(Answers) /\ FiniteBag(ops)
      /\ Members(sq) \subseteq Sqes /\ \A o \in DOMAIN ops : o.sqe \in Sqes
  BY MembersType DEF Types, Sequences, Operations
<1>2. /\ Count(sq, SendReqs(f)) \in Nat /\ Mult(ops, SendReqs(f)) \in Nat
      /\ Count(cq, SendCqes(f)) \in Nat
      /\ Members(cq) \cap SendCqes(f) # {} => Count(cq, SendCqes(f)) > 0
  BY <1>1, HitsFinite, MultType, MembersCount
<1>3. Count(sq, SendReqs(f)) = 0 /\ Mult(ops, SendReqs(f)) = 0
  BY <1>2 DEF Pending
<1>4. Members(sq) \cap SendReqs(f) = {} /\ \A o \in DOMAIN ops : o.sqe \notin SendReqs(f)
  BY <1>1, <1>3, MembersCount, MultPositive
<1> QED  BY <1>1, <1>4, SendReqsAre

(* A handler changes what is sent by what it takes and what it queues.     *)
LEMMA KeepsTaking ==
  ASSUME Types, Keep, Taking, NEW new, Queues(new), NEW f \in Fds
  PROVE  /\ \A c \in Members(cq') : c.tag.op = "Send" => ~ c.more
         /\ UNCHANGED ops
         /\ \A r \in Members(sq') : r.kind = "send" => r \in Members(sq) \cup Members(new)
         /\ Pending(SendReqs(f), SendCqes(f)) \in Nat
         /\ Pending(SendReqs(f), SendCqes(f))' \in Nat
         /\ Count(new, SendReqs(f)) \in Nat
         /\ Pending(SendReqs(f), SendCqes(f))'
              + (IF fd1 = f /\ Cqe1.tag.op = "Send" THEN 1 ELSE 0)
              = Pending(SendReqs(f), SendCqes(f)) + Count(new, SendReqs(f))
<1>1. /\ Members(cq') \subseteq Members(cq) /\ UNCHANGED ops
      /\ \A r \in Members(sq') : r.kind = "send" => r \in Members(sq) \cup Members(new)
  BY TakingMembers
<1>2. \A c \in Members(cq') : c.tag.op = "Send" => ~ c.more
  BY <1>1 DEF Keep
<1>3. Once(Cqe1, SendCqes(f)) = IF fd1 = f /\ Cqe1.tag.op = "Send" THEN 1 ELSE 0
  BY CqesAre DEF Once, Taking, fd1, Keep
<1>4. /\ Pending(SendReqs(f), SendCqes(f)) \in Nat
      /\ Pending(SendReqs(f), SendCqes(f))' \in Nat
      /\ Count(new, SendReqs(f)) \in Nat
      /\ Pending(SendReqs(f), SendCqes(f))' + Once(Cqe1, SendCqes(f))
           = Pending(SendReqs(f), SendCqes(f)) + Count(new, SendReqs(f))
  BY SendsBlind, TakingPending, PendingHas
<1> QED  BY <1>1, <1>2, <1>3, <1>4

(* New requests without a sendmsg on f add none.                           *)
LEMMA SendsNone ==
  ASSUME NEW f \in Fds, NEW new \in Seq(Sqes),
         \A r \in Members(new) : ~ (r.kind = "send" /\ r.fd = f)
  PROVE  Count(new, SendReqs(f)) = 0
<1>1. Members(new) \cap SendReqs(f) = {}
  BY MembersType, SendReqsAre
<1> QED  BY <1>1, CountNone

(* A storage whose descriptor a handler sends nothing on.                  *)
LEMMA KeepsStill ==
  ASSUME Types, Keep, Taking, NEW new, Queues(new), NEW f \in Fds,
         \A r \in Members(new) : ~ (r.kind = "send" /\ r.fd = f),
         \/ /\ f \in DOMAIN table /\ f \in DOMAIN table'
            /\ \/ /\ table'[f].tx.send_inflight = table[f].tx.send_inflight
                  /\ table'[f].tx.tx_inflight = table[f].tx.tx_inflight
               \/ fd1 = f /\ Cqe1.tag.op = "Send"
         \/ f \notin DOMAIN table
  PROVE  Keeps(f)'
<1>s. Sure(f)' => Sure(f)
  BY DEF Queues, Sure
<1> SUFFICES ASSUME Sure(f)'
             PROVE  Pins(f)'
  BY DEF Keeps
<1>p. Pins(f)
  BY <1>s DEF Keep, Keeps
<1> DEFINE P == Pending(SendReqs(f), SendCqes(f))
           Q == Pending(SendReqs(f), SendCqes(f))'
<1>0. P = Pending(SendReqs(f), SendCqes(f)) /\ Q = Pending(SendReqs(f), SendCqes(f))'
  OBVIOUS
<1> HIDE DEF P, Q
<1>1. /\ UNCHANGED ops
      /\ \A r \in Members(sq') : r.kind = "send" => r \in Members(sq) \cup Members(new)
      /\ P \in Nat /\ Q \in Nat /\ Count(new, SendReqs(f)) \in Nat
      /\ Q + (IF fd1 = f /\ Cqe1.tag.op = "Send" THEN 1 ELSE 0) = P + Count(new, SendReqs(f))
  BY <1>0, KeepsTaking
<1>2. Count(new, SendReqs(f)) = 0 /\ Pins(f)
  BY <1>p, SendsNone DEF Queues
<1>3. Q <= P /\ (fd1 = f /\ Cqe1.tag.op = "Send" => Q + 1 = P)
  BY <1>1, <1>2
<1>4. CASE f \in DOMAIN table /\ f \in DOMAIN table' /\ ~ (fd1 = f /\ Cqe1.tag.op = "Send")
  <2>1. /\ table'[f].tx.send_inflight = table[f].tx.send_inflight
        /\ table'[f].tx.tx_inflight = table[f].tx.tx_inflight
    BY <1>4
  <2>2. P <= IF table[f].tx.send_inflight THEN 1 ELSE 0
    BY <1>0, <1>2, <1>4 DEF Pins
  <2>3. Q <= IF table'[f].tx.send_inflight THEN 1 ELSE 0
    BY <1>1, <1>3, <2>1, <2>2
  <2>4. \A r \in Members(sq') : r.kind = "send" /\ r.fd = f => r.bufs = table'[f].tx.tx_inflight
    BY <1>1, <1>2, <1>4, <2>1 DEF Pins
  <2>5. \A o \in DOMAIN ops' :
          o.sqe.kind = "send" /\ o.sqe.fd = f => o.sqe.bufs = table'[f].tx.tx_inflight
    BY <1>1, <1>2, <1>4, <2>1 DEF Pins
  <2> QED  BY <1>0, <1>4, <2>3, <2>4, <2>5 DEF Pins
<1>5. CASE f \notin DOMAIN table \/ (f \in DOMAIN table' /\ fd1 = f /\ Cqe1.tag.op = "Send")
  <2>1. P <= 1 /\ (f \notin DOMAIN table => P = 0)
    BY <1>0, <1>1, <1>2 DEF Pins
  <2>2. Q = 0
    BY <1>1, <1>3, <1>5, <2>1
  <2>3. f \notin DOMAIN table \/ Cqe1 \in Members(cq) \cap SendCqes(f)
    BY <1>5, CqesAre DEF Taking, fd1, Keep
  <2>4. /\ \A r \in Members(sq) : ~ (r.kind = "send" /\ r.fd = f)
        /\ \A o \in DOMAIN ops : ~ (o.sqe.kind = "send" /\ o.sqe.fd = f)
    BY <1>0, <2>1, <2>3, NotSending
  <2>5. \A r \in Members(sq') : ~ (r.kind = "send" /\ r.fd = f)
    BY <1>1, <2>4
  <2>6. f \in DOMAIN table' => Q <= IF table'[f].tx.send_inflight THEN 1 ELSE 0
    BY <2>2
  <2> QED  BY <1>0, <1>1, <2>2, <2>4, <2>5, <2>6 DEF Pins
<1> QED  BY <1>4, <1>5

(* A sendmsg is queued when none is outstanding.                           *)
LEMMA KeepsKicked ==
  ASSUME Types, Keep, Taking, NEW new, Queues(new), NEW f \in Fds,
         f \in DOMAIN table, f \in DOMAIN table', table'[f].tx.send_inflight,
         Count(new, SendReqs(f)) = 1,
         \A r \in Members(new) :
           r.kind = "send" /\ r.fd = f => r.bufs = table'[f].tx.tx_inflight,
         ~ table[f].tx.send_inflight \/ (fd1 = f /\ Cqe1.tag.op = "Send")
  PROVE  Keeps(f)'
<1>s. Sure(f)' => Sure(f)
  BY DEF Queues, Sure
<1> SUFFICES ASSUME Sure(f)'
             PROVE  Pins(f)'
  BY DEF Keeps
<1>p. Pins(f)
  BY <1>s DEF Keep, Keeps
<1> DEFINE P == Pending(SendReqs(f), SendCqes(f))
           Q == Pending(SendReqs(f), SendCqes(f))'
<1>0. P = Pending(SendReqs(f), SendCqes(f)) /\ Q = Pending(SendReqs(f), SendCqes(f))'
  OBVIOUS
<1> HIDE DEF P, Q
<1>1. /\ UNCHANGED ops
      /\ \A r \in Members(sq') : r.kind = "send" => r \in Members(sq) \cup Members(new)
      /\ P \in Nat /\ Q \in Nat
      /\ Q + (IF fd1 = f /\ Cqe1.tag.op = "Send" THEN 1 ELSE 0) = P + 1
  BY <1>0, KeepsTaking
<1>2. P <= IF table[f].tx.send_inflight THEN 1 ELSE 0
  BY <1>0, <1>p DEF Pins
<1>3. Q <= 1
  BY <1>1, <1>2
<1>4. P = 0 \/ (P <= 1 /\ fd1 = f /\ Cqe1.tag.op = "Send")
  BY <1>1, <1>2
<1>5. fd1 = f /\ Cqe1.tag.op = "Send" => Cqe1 \in Members(cq) \cap SendCqes(f)
  BY CqesAre DEF Taking, fd1, Keep
<1>6. /\ \A r \in Members(sq) : ~ (r.kind = "send" /\ r.fd = f)
      /\ \A o \in DOMAIN ops : ~ (o.sqe.kind = "send" /\ o.sqe.fd = f)
  BY <1>0, <1>4, <1>5, NotSending
<1>7. \A r \in Members(sq') : r.kind = "send" /\ r.fd = f => r.bufs = table'[f].tx.tx_inflight
  BY <1>1, <1>6
<1> QED  BY <1>0, <1>1, <1>3, <1>6, <1>7 DEF Pins

(* A handler adds no completion.                                           *)
LEMMA KeepNoMore ==
  ASSUME Types, Keep, Taking, NEW new, Queues(new), \A f \in Fds : Keeps(f)'
  PROVE  Keep'
<1>1. Members(cq') \subseteq Members(cq)
  BY TakingMembers
<1> QED  BY <1>1 DEF Keep

(* A handler that leaves the table alone, or adds a storage, and sends     *)
(* nothing.                                                                *)
LEMMA KeepIdle ==
  ASSUME Types, Keep, Taking, NEW new, Queues(new),
         \A r \in Members(new) : r.kind # "send",
         \A f \in DOMAIN table : f \in DOMAIN table' /\ table'[f] = table[f]
  PROVE  Keep'
<1>1. \A f \in Fds : Keeps(f)'
  BY KeepsStill
<1> QED  BY <1>1, KeepNoMore

(* A handler that changes one storage.  kick is what it sends.             *)
LEMMA KeepUpdates ==
  ASSUME Types, Keep, NEW c, NEW new, Updates(c, new), NEW d, NEW kick \in Seq(Sqes),
         Count(new, SendReqs(fd1)) = Count(kick, SendReqs(fd1)),
         \A r \in Members(new) : r.kind = "send" => r \in Members(kick),
         \/ d.send_inflight = c1.tx.send_inflight /\ d.tx_inflight = c1.tx.tx_inflight
         \/ Cqe1.tag.op = "Send" /\ ~ d.send_inflight,
         \/ /\ c.tx.send_inflight = d.send_inflight /\ c.tx.tx_inflight = d.tx_inflight
            /\ kick = <<>>
         \/ /\ ~ d.send_inflight /\ c.tx.send_inflight
            /\ kick = << SendOf(fd1, c.tx.tx_inflight) >>
  PROVE  Keep'
<1>1. /\ Taking /\ Queues(new) /\ fd1 \in DOMAIN table /\ fd1 \in Fds
      /\ table' = [ table EXCEPT ![fd1] = c ]
      /\ \A r \in Members(new) : r.kind \notin { "accept", "provide" } => r.fd = fd1
  BY DEF Updates
<1>2. /\ DOMAIN table' = DOMAIN table /\ table'[fd1] = c
      /\ \A f \in DOMAIN table : f # fd1 => table'[f] = table[f]
  BY <1>1 DEF Types
<1>3. ASSUME NEW f \in Fds, f # fd1
      PROVE  Keeps(f)'
  <2>1. \A r \in Members(new) : ~ (r.kind = "send" /\ r.fd = f)
    BY <1>1, <1>3
  <2> QED  BY <1>1, <1>2, <1>3, <2>1, KeepsStill
<1>4. ASSUME NEW f \in Fds, f = fd1
      PROVE  Keeps(f)'
  <2>1. CASE /\ c.tx.send_inflight = d.send_inflight /\ c.tx.tx_inflight = d.tx_inflight
             /\ kick = <<>>
    <3>1. \A r \in Members(new) : ~ (r.kind = "send" /\ r.fd = f)
      BY <2>1, MembersOne
    <3>2. \/ /\ table'[f].tx.send_inflight = table[f].tx.send_inflight
             /\ table'[f].tx.tx_inflight = table[f].tx.tx_inflight
          \/ Cqe1.tag.op = "Send"
      BY <1>2, <1>4, <2>1 DEF c1
    <3> QED  BY <1>1, <1>2, <1>4, <3>1, <3>2, KeepsStill
  <2>2. CASE /\ ~ d.send_inflight /\ c.tx.send_inflight
             /\ kick = << SendOf(fd1, c.tx.tx_inflight) >>
    <3> DEFINE q == SendOf(fd1, c.tx.tx_inflight)
    <3>1. q.kind = "send" /\ q.fd = f /\ q.bufs = c.tx.tx_inflight /\ kick = << q >>
      BY <1>4, <2>2, Made
    <3> HIDE DEF q
    <3>2. q \in Sqes /\ Members(kick) = { q }
      BY <3>1, MembersOne, MembersType
    <3>3. Once(q, SendReqs(f)) = 1
      BY <3>1, <3>2, SendReqsAre DEF Once
    <3>4. Count(new, SendReqs(f)) = 1
      BY <1>4, <3>1, <3>3, CountOne
    <3>5. \A r \in Members(new) : r.kind = "send" => r.bufs = table'[f].tx.tx_inflight
      BY <1>2, <1>4, <3>1, <3>2
    <3>6. ~ table[f].tx.send_inflight \/ Cqe1.tag.op = "Send"
      BY <1>4, <2>2 DEF c1
    <3> QED  BY <1>1, <1>2, <1>4, <2>2, <3>4, <3>5, <3>6, KeepsKicked
  <2> QED  BY <2>1, <2>2
<1> QED  BY <1>1, <1>3, <1>4, KeepNoMore

(* A handler that sends nothing.                                           *)
LEMMA KeepUpdatesQuiet ==
  ASSUME Types, Keep, NEW c, NEW new, Updates(c, new),
         \A r \in Members(new) : r.kind # "send",
         \/ /\ c.tx.send_inflight = c1.tx.send_inflight
            /\ c.tx.tx_inflight = c1.tx.tx_inflight
         \/ Cqe1.tag.op = "Send" /\ ~ c.tx.send_inflight
  PROVE  Keep'
<1>1. fd1 \in Fds /\ new \in Seq(Sqes)
  BY DEF Updates, Queues
<1>2. Count(new, SendReqs(fd1)) = 0
  BY <1>1, SendsNone
<1> DEFINE none == <<>>
           d == c.tx
<1>3. none \in Seq(Sqes) /\ none = <<>> /\ Count(none, SendReqs(fd1)) = 0 /\ d = c.tx
  BY OneInSeq, CountEmpty
<1> HIDE DEF none, d
<1> QED  BY <1>2, <1>3, KeepUpdates

(* A handler that sends what it kicks.                                     *)
LEMMA KeepKicked ==
  ASSUME Types, Keep, NEW c, NEW new, Updates(c, new), NEW d, NEW kick \in Seq(Sqes),
         Kicked(fd1, d, c.tx, kick),
         Count(new, SendReqs(fd1)) = Count(kick, SendReqs(fd1)),
         \A r \in Members(new) : r.kind = "send" => r \in Members(kick),
         d = c1.tx \/ (Cqe1.tag.op = "Send" /\ ~ d.send_inflight)
  PROVE  Keep'
BY KeepUpdates DEF Kicked

(* A segment kicks a sendmsg, or none.                                     *)
LEMMA KeepData ==
  ASSUME Types, Keep, HandleRecvData
  PROVE  Keep'
<1>1. PICK c, back, posted, kick, again : RecvDataUpdates(c, back, posted, kick, again)
  BY RecvDataFacts
<1>2. /\ Updates(c, back \o posted \o kick \o again)
      /\ back \in Seq(Sqes) /\ posted \in Seq(Sqes) /\ kick \in Seq(Sqes) /\ again \in Seq(Sqes)
      /\ Kicked(fd1, c1.tx, c.tx, kick)
      /\ \A q \in Members(posted) : q.kind = "task"
      /\ again = <<>> \/ again = << RecvOf(fd1, InPool) >>
      /\ back = << FreeBuffer >> \/ back = <<>>
  BY <1>1 DEF RecvDataUpdates
<1> DEFINE new == back \o posted \o kick \o again
<1>3. Members(new) = Members(back) \cup Members(posted) \cup Members(kick) \cup Members(again)
  BY <1>2, FourParts
<1>4. Count(new, SendReqs(fd1)) = Count(back, SendReqs(fd1)) + Count(posted, SendReqs(fd1))
                                    + Count(kick, SendReqs(fd1)) + Count(again, SendReqs(fd1))
  BY <1>2, FourParts
<1>5. Updates(c, new)
  BY <1>2
<1> HIDE DEF new
<1>6. /\ \A q \in Members(back) : q.kind # "send"
      /\ \A q \in Members(again) : q.kind # "send"
  BY <1>2, Made, MembersOne
<1>7. fd1 \in Fds
  BY <1>5 DEF Updates
<1>8. /\ Count(back, SendReqs(fd1)) = 0 /\ Count(posted, SendReqs(fd1)) = 0
      /\ Count(again, SendReqs(fd1)) = 0
  BY <1>2, <1>6, <1>7, SendsNone
<1>9. Count(kick, SendReqs(fd1)) \in Nat
  BY <1>2, HitsFinite
<1>10. Count(new, SendReqs(fd1)) = Count(kick, SendReqs(fd1))
  BY <1>4, <1>8, <1>9
<1>11. \A r \in Members(new) : r.kind = "send" => r \in Members(kick)
  BY <1>2, <1>3, <1>6
<1> QED  BY <1>2, <1>5, <1>10, <1>11, KeepKicked

(* A new storage sends nothing.                                            *)
LEMMA KeepAccepted ==
  ASSUME Types, Keep, HandleAccepted
  PROVE  Keep'
<1>1. PICK recv, acc, multi :
        /\ Taking /\ Queues(recv \o acc) /\ recv \in Seq(Sqes) /\ acc \in Seq(Sqes)
        /\ acc = <<>> \/ acc = << AcceptOf(multi) >>
        /\ recv = <<>> \/ recv = << RecvOf(Cqe1.res, InPool) >>
        /\ \/ /\ Cqe1.res \notin DOMAIN table
              /\ \E c : table' = [ f \in DOMAIN table \cup { Cqe1.res } |->
                                     IF f = Cqe1.res THEN c ELSE table[f] ]
           \/ UNCHANGED table
  BY AcceptedFacts
<1> DEFINE new == recv \o acc
<1>2. Members(new) = Members(recv) \cup Members(acc) /\ Queues(new)
  BY <1>1, MembersConcat
<1> HIDE DEF new
<1>3. \A r \in Members(recv) : r.kind # "send"
  BY <1>1, Made, MembersOne
<1>4. \A r \in Members(acc) : r.kind # "send"
  BY <1>1, Made, MembersOne
<1>5. \A f \in DOMAIN table : f \in DOMAIN table' /\ table'[f] = table[f]
  BY <1>1
<1> QED  BY <1>1, <1>2, <1>3, <1>4, <1>5, KeepIdle

(* Where neither ring nor table change.                                    *)
LEMMA KeepQuiet ==
  ASSUME Keep, UNCHANGED << sq, cq, ops, table, carried >>
  PROVE  Keep'
<1>1. \A f : Pending(SendReqs(f), SendCqes(f))' = Pending(SendReqs(f), SendCqes(f))
  BY QuietPending
<1> QED  BY <1>1 DEF Keep, Keeps, Pins, Sure

(* Every handler keeps it, as none ever forgets a storage.                 *)
LEMMA KeepHandle ==
  ASSUME Types, Keep, Handle
  PROVE  Keep'
<1>m. /\ \A m : AcceptOf(m).kind # "send"
      /\ \A f, k : CloseOf(f, k).kind # "send"
      /\ \A f, t, k : TaskSqe(f, t, k).kind # "send"
      /\ \A f : PollOf(f).kind # "send"
      /\ \A f, m : RecvOf(f, m).kind # "send"
  BY Made
<1>n. ASSUME NEW c, NEW new, Updates(c, new)
      PROVE  new \in Seq(Sqes)
  BY <1>n DEF Updates, Queues
<1>1. CASE HandleAcceptFailed
  <2>1. /\ Taking /\ UNCHANGED table
        /\ \E new : /\ Queues(new)
                    /\ new = <<>> \/ \E multi \in BOOLEAN : new = << AcceptOf(multi) >>
    BY <1>1, AcceptFailedFacts
  <2>2. PICK new : Queues(new) /\ \A r \in Members(new) : r.kind # "send"
    BY <1>m, <2>1, MembersOne
  <2> QED  BY <2>1, <2>2, KeepIdle
<1>2. CASE HandleRecvFailed
  <2> DEFINE q == RecvOf(fd1, FALSE)
  <2>1. /\ q.kind # "send"
        /\ \/ \E c, new : Updates(c, new) /\ (new = <<>> \/ new = << q >>) /\ c.tx = c1.tx
           \/ \E c : Updates(c, << CloseOf(fd1, Cqe1.conn) >>) /\ c.tx = c1.tx
    BY <1>m, <1>2, RecvFailedFacts
  <2> HIDE DEF q
  <2> QED  BY <1>m, <2>1, MembersOne, KeepUpdatesQuiet
<1>3. CASE HandleSendCompleted
  <2>1. PICK c, new : /\ Updates(c, new) /\ Kicked(fd1, Completed(c1.tx), c.tx, new)
                      /\ Cqe1.tag.op = "Send"
    BY <1>3, SendCompletedFacts
  <2> DEFINE d == Completed(c1.tx)
  <2>2. ~ d.send_inflight /\ Kicked(fd1, d, c.tx, new) /\ new \in Seq(Sqes)
    BY <1>n, <2>1 DEF Completed
  <2> HIDE DEF d
  <2> QED  BY <2>1, <2>2, KeepKicked
<1>4. CASE HandlePollOut
  <2>1. \E c, new : Updates(c, new) /\ Kicked(fd1, c1.tx, c.tx, new)
    BY <1>4, PollOutFacts
  <2> QED  BY <1>n, <2>1, KeepKicked
<1>5. CASE HandleRequestFlush
  <2>1. \E c, new : Updates(c, new) /\ Kicked(fd1, c1.tx, c.tx, new)
    BY <1>5, RequestFlushFacts
  <2> QED  BY <1>n, <2>1, KeepKicked
<1>6. CASE HandleSendAgain
  <2>1. PICK c, new : /\ Updates(c, new) /\ c.tx = RollBack(c1.tx) /\ Cqe1.tag.op = "Send"
                      /\ new = <<>> \/ new = << PollOf(fd1) >>
    BY <1>6, SendAgainFacts
  <2>2. ~ c.tx.send_inflight
    BY <2>1 DEF RollBack
  <2> QED  BY <1>m, <2>1, <2>2, MembersOne, KeepUpdatesQuiet
<1>7. CASE HandleSendFailed
  <2>1. \E c : Updates(c, << CloseOf(fd1, Cqe1.conn) >>) /\ c.tx = c1.tx
    BY <1>7, SendFailedFacts
  <2> QED  BY <1>m, <2>1, MembersOne, KeepUpdatesQuiet
<1>8. CASE HandleFindHandler
  <2>1. \E c : Updates(c, <<>>) /\ c.tx = c1.tx
    BY <1>8, FindHandlerFacts
  <2> QED  BY <2>1, MembersOne, KeepUpdatesQuiet
<1>9. CASE HandleGenerateResponse
  <2>1. \/ UNCHANGED table /\ Taking /\ Queues(<<>>)
        \/ \E c : /\ Updates(c, << TaskSqe(fd1, "RequestFlush", Cqe1.conn) >>)
                  /\ c.tx.send_inflight = c1.tx.send_inflight
                  /\ c.tx.tx_inflight = c1.tx.tx_inflight
    BY <1>9, GenerateResponseFacts
  <2> QED  BY <1>m, <2>1, MembersOne, KeepUpdatesQuiet, KeepIdle
<1>10. CASE HandleThrow
  <2>1. UNCHANGED << sq, cq, ops, table, carried >>
    BY <1>10 DEF HandleThrow, uringVars
  <2> QED  BY <2>1, KeepQuiet
<1>11. CASE HandleNothing
  <2>1. Taking /\ Queues(<<>>) /\ UNCHANGED table
    BY <1>11, NothingFacts
  <2> QED  BY <2>1, MembersOne, KeepIdle
<1> QED  BY <1>1, <1>2, <1>3, <1>4, <1>5, <1>6, <1>7, <1>8, <1>9, <1>10, <1>11,
            KeepAccepted, KeepData DEF Handle

(* A sendmsg that is refused ends, and no other reply looks like its end,  *)
(* but that of a task that has found its tag.                              *)
LEMMA SendReplies ==
  ASSUME NEW f \in Fds, NEW r \in Sqes, NEW new, RepliesTo(r, new), Sure(f),
         r.kind = "task" => r.stale \in carried
  PROVE  Count(new, SendCqes(f)) = Once(r, SendReqs(f))
<1>0. new \in Seq(Answers)
  BY DEF RepliesTo, Replies
<1>1. CASE r.kind = "send" /\ r.fd = f
  <2>1. PICK c : new = << c >>
    BY <1>1 DEF RepliesTo
  <2>2. c \in Members(new) /\ c \in Answers
    BY <1>0, <2>1, MembersOne, MembersType
  <2>3. c.tag.fd = f /\ c.tag.op = "Send" /\ ~ c.more
    BY <1>1, <2>2, SqeTags DEF RepliesTo
  <2>4. c \in SendCqes(f) /\ r \in SendReqs(f)
    BY <1>1, <2>2, <2>3, CqesAre, SendReqsAre
  <2> QED  BY <2>1, <2>4, CountOne DEF Once
<1>2. CASE ~ (r.kind = "send" /\ r.fd = f)
  <2>1. ASSUME NEW c \in Members(new), c.tag.fd = f, c.tag.op = "Send"
        PROVE  FALSE
    <3>1. ZeroTag.fd = 0 /\ 0 \notin Fds
      BY Constants DEF ZeroTag
    <3>0. c \in Answers /\ Unpacked("Send") = "Send"
      BY <1>0, <2>1, MembersType, TagsOf DEF Ops
    <3>a. c.tag = Tag(f, "Send")
      BY <2>1, <3>0, AnswerFacts DEF Tag, Tags
    <3>2. c.tag = r.tag
      BY <2>1, <3>a DEF RepliesTo, Sure
    <3>3. r.kind = "task" => Unpacked(r.task) # "Send"
      BY SqeFacts, TagsOf DEF ParseTasks, Ops
    <3>4. Unpacked("Closed") # "Send" /\ Unpacked("FreeBuffer") # "Send"
      BY TagsOf
    <3>5. r.kind = "send"
      BY <2>1, <3>1, <3>2, <3>3, <3>4, SqeFacts, SqeTags
    <3> QED  BY <1>2, <2>1, <3>2, <3>5, SqeTags
  <2>2. Members(new) \cap SendCqes(f) = {}
    BY <1>0, <2>1, MembersType, CqesAre
  <2>3. r \notin SendReqs(f)
    BY <1>2, SendReqsAre
  <2> QED  BY <1>0, <2>2, <2>3, CountNone DEF Once
<1> QED  BY <1>1, <1>2

(* The ring keeps what the storages say of it.                             *)
LEMMA KeepsRing ==
  ASSUME Keep, UNCHANGED << table, carried >>, NEW f \in Fds,
         Sure(f) => Pending(SendReqs(f), SendCqes(f))' = Pending(SendReqs(f), SendCqes(f)),
         \A r \in Members(sq') : r.kind = "send" => r \in Members(sq),
         \A o \in DOMAIN ops' :
           o.sqe.kind = "send" => o \in DOMAIN ops \/ o.sqe \in Members(sq)
  PROVE  Keeps(f)'
<1>1. Keeps(f)
  BY DEF Keep
<1> QED  BY <1>1 DEF Keeps, Pins, Sure

(* A sendmsg that is issued stays the only one.                            *)
LEMMA KeepIssue ==
  ASSUME Types, Keep, Issue, UNCHANGED << table, carried >>
  PROVE  Keep'
<1> DEFINE r == Head(sq)
<1>0. r = Head(sq)
  OBVIOUS
<1> HIDE DEF r
<1>1. /\ sq # <<>> /\ r \in Sqes /\ r \in Members(sq) /\ sq' = Tail(sq)
      /\ r.kind = "task" => r.stale \in carried
  BY <1>0, IssueFacts DEF Types, Carries
<1>2. ASSUME NEW op, Begins(op), op.sqe = r
      PROVE  Keep'
  <2>1. /\ Members(sq') \subseteq Members(sq) /\ UNCHANGED cq
        /\ DOMAIN ops' = DOMAIN ops \cup { op }
    BY <1>1, <1>2, BeginsMembers
  <2>2. \A f : Pending(SendReqs(f), SendCqes(f))' = Pending(SendReqs(f), SendCqes(f))
    BY <1>1, <1>2, BeginsPending
  <2>3. \A f \in Fds : Keeps(f)'
    BY <1>1, <1>2, <2>1, <2>2, KeepsRing
  <2> QED  BY <2>1, <2>3 DEF Keep
<1>3. ASSUME NEW new, RepliesTo(r, new)
      PROVE  Keep'
  <2>1. Replies(new) /\ \A c \in Members(new) : ~ c.more
    BY <1>3 DEF RepliesTo
  <2>2. /\ Members(sq') \subseteq Members(sq) /\ UNCHANGED ops
        /\ Members(cq') = Members(cq) \cup Members(new)
    BY <1>1, <2>1, RepliesMembers
  <2>3. ASSUME NEW f \in Fds
        PROVE  Keeps(f)'
    <3>1. Sure(f) => Count(new, SendCqes(f)) = Once(r, SendReqs(f))
      BY <1>1, <1>3, SendReplies
    <3>2. /\ Pending(SendReqs(f), SendCqes(f)) \in Nat
          /\ Pending(SendReqs(f), SendCqes(f))' \in Nat
          /\ Count(new, SendCqes(f)) \in Nat
          /\ Pending(SendReqs(f), SendCqes(f))' + Once(r, SendReqs(f))
               = Pending(SendReqs(f), SendCqes(f)) + Count(new, SendCqes(f))
      BY <1>0, <1>1, <2>1, RepliesPending, PendingHas
    <3>3. Sure(f) => Pending(SendReqs(f), SendCqes(f))' = Pending(SendReqs(f), SendCqes(f))
      BY <3>1, <3>2
    <3> QED  BY <2>2, <3>3, KeepsRing
  <2> QED  BY <2>1, <2>2, <2>3 DEF Keep
<1> QED  BY <1>0, <1>2, <1>3, IssueReplies

(* A sendmsg that completes is under way until it is handled.              *)
LEMMA KeepCompletes ==
  ASSUME Types, Keep, UNCHANGED << table, carried >>, NEW op, NEW cqe, Completes(op, cqe),
         op.sqe.kind = "send" => ~ cqe.more
  PROVE  Keep'
<1>1. /\ op \in DOMAIN ops /\ op.sqe \in Sqes /\ cqe \in Answers /\ cqe.tag = op.sqe.tag
      /\ op.sqe.kind \in { "accept", "recv", "send", "poll" }
  BY DEF Completes, Operations
<1>2. /\ UNCHANGED sq /\ DOMAIN ops' \subseteq DOMAIN ops
      /\ Members(cq') = Members(cq) \cup { cqe }
  BY CompletesMembers
<1>3. cqe.tag.op = "Send" <=> op.sqe.kind = "send"
  BY <1>1, SqeTags
<1>4. op.sqe.kind = "send" => cqe.tag.fd = op.sqe.fd
  BY <1>1, SqeTags
<1>5. ASSUME NEW f \in Fds
      PROVE  Keeps(f)'
  <2>1. (IF cqe.more THEN 0 ELSE Once(op.sqe, SendReqs(f))) = Once(cqe, SendCqes(f))
    BY <1>1, <1>3, <1>4, CqesAre, SendReqsAre DEF Once
  <2>2. /\ Pending(SendReqs(f), SendCqes(f)) \in Nat
        /\ Pending(SendReqs(f), SendCqes(f))' \in Nat
        /\ Once(cqe, SendCqes(f)) \in Nat
        /\ Pending(SendReqs(f), SendCqes(f))'
             + (IF cqe.more THEN 0 ELSE Once(op.sqe, SendReqs(f)))
             = Pending(SendReqs(f), SendCqes(f)) + Once(cqe, SendCqes(f))
    BY CompletesPending, PendingHas, OnceType
  <2>3. Pending(SendReqs(f), SendCqes(f))' = Pending(SendReqs(f), SendCqes(f))
    BY <2>1, <2>2
  <2> QED  BY <1>2, <2>3, KeepsRing
<1>6. \A c \in Members(cq') : c.tag.op = "Send" => ~ c.more
  BY <1>2, <1>3 DEF Keep
<1> QED  BY <1>5, <1>6 DEF Keep

(* Every step of the ring keeps it.                                        *)
LEMMA KeepRing ==
  ASSUME Types, Keep, UringNext(Segment), UNCHANGED << table, carried >>
  PROVE  Keep'
<1>1. CASE KernelAccept \/ KernelRecv(Segment) \/ KernelPoll
  <2>1. \E op, cqe : Completes(op, cqe) /\ op.sqe.kind # "send"
    BY <1>1, AcceptDone, RecvDone, PollDone
  <2> QED  BY <2>1, KeepCompletes
<1>2. CASE KernelSend
  BY <1>2, SendDone, KeepCompletes
<1>3. CASE Connect \/ PeerEnds \/ OtherAccept \/ OtherClose
  BY <1>3, OthersKeepTypes, KeepQuiet
<1> QED  BY <1>1, <1>2, <1>3, KeepIssue DEF UringNext

(* At first nothing is sent.                                               *)
LEMMA KeepInit ==
  ASSUME Init
  PROVE  Keep
<1>1. /\ cq = <<>> /\ sq = PostAccept(TRUE, FALSE) /\ ops = EmptyBag /\ table = <<>>
  BY DEF Init, UringInit
<1> DEFINE q == AcceptOf(TRUE)
<1>2. sq = << q >> /\ q.kind = "accept"
  BY <1>1, Made DEF PostAccept
<1> HIDE DEF q
<1>3. DOMAIN table = {} /\ Members(cq) = {}
  BY <1>1, MembersOne
<1>4. \A f : q \notin SendReqs(f)
  BY <1>2 DEF SendReqs, Reqs
<1>5. ASSUME NEW f
      PROVE  Pending(SendReqs(f), SendCqes(f)) = 0
  <2>1. /\ Count(sq, SendReqs(f)) = 0 /\ Count(cq, SendCqes(f)) = 0
        /\ Mult(ops, SendReqs(f)) = 0
    BY <1>1, <1>2, <1>4, CountOne, CountEmpty, MultEmpty DEF Once
  <2> QED  BY <2>1 DEF Pending
<1> QED  BY <1>3, <1>5 DEF Keep, Keeps, Pins

(* It implies SendsPinned.                                                 *)
LEMMA KeepGivesPinned ==
  ASSUME Types, Keep
  PROVE  SendsPinned
<1> SUFFICES ASSUME NEW f \in DOMAIN table, Sure(f)
             PROVE  /\ Sends(f) <= 1
                    /\ Sends(f) = 1 => table[f].tx.send_inflight
                    /\ \A o \in BagToSet(ops) : o.sqe.kind = "send" /\ o.sqe.fd = f =>
                                                  o.sqe.bufs = table[f].tx.tx_inflight
  BY DEF SendsPinned, HoldsItsSend, Sure
<1>1. Pins(f) /\ f \in Fds
  BY DEF Keep, Keeps, Types
<1>2. Sends(f) = Pending(SendReqs(f), SendCqes(f)) /\ Sends(f) \in Nat
  BY UnderWayPending, PendingHas DEF Sends, SendReqs, SendCqes
<1>3. Sends(f) <= IF table[f].tx.send_inflight THEN 1 ELSE 0
  BY <1>1, <1>2 DEF Pins
<1>4. BagToSet(ops) = DOMAIN ops
  BY DEF BagToSet
<1> QED  BY <1>1, <1>2, <1>3, <1>4 DEF Pins

(* Whatever peers and other workers do, and however often the submission   *)
(* queue goes around: the kernel has at most one sendmsg of a storage, of  *)
(* exactly the buffers in tx_inflight, through kicks, EAGAIN, polls, errors*)
(* and closes, unless a task has found the tag of one of its sendmsgs in   *)
(* its slot.                                                               *)
THEOREM BuffersOutliveSends ==
  Spec => []SendsPinned
<1>2. Init => Types /\ Keep
  BY InitTypes, KeepInit
<1>3. Types /\ Keep /\ [Next]_vars => (Types /\ Keep)'
  <2> SUFFICES ASSUME Types, Keep, [Next]_vars
               PROVE  Types' /\ Keep'
    OBVIOUS
  <2>1. Types'
    BY TypesStep
  <2>2. CASE UNCHANGED vars
    <3>1. UNCHANGED << sq, cq, ops, table, carried >>
      BY <2>2 DEF vars, uringVars, loopVars
    <3> QED  BY <2>1, <3>1, KeepQuiet
  <2>3. CASE Next
    BY <2>1, <2>3, KeepHandle, KeepRing DEF Next, loopVars
  <2> QED  BY <2>2, <2>3
<1>4. Types /\ Keep => SendsPinned
  BY KeepGivesPinned
<1> QED  BY <1>2, <1>3, <1>4, PTL DEF Spec
==============================================================================
