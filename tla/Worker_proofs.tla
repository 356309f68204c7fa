---------------------------- MODULE Worker_proofs ----------------------------
(***************************************************************************)
(* What holds of a Worker whatever its constants.                          *)
(***************************************************************************)
EXTENDS Worker, Uring_proofs, WellFoundedInduction

-----------------------------------------------------------------------------
(* Tags.                                                                   *)

Ops == { "Accept", "Recv", "Parse", "FindHandler", "GenerateResponse",
         "RequestFlush", "PollOut", "Send", "RequestClose", "Closed", "FreeBuffer" }

(* The eleven workflows and their codes.                                   *)
LEMMA Codes ==
  /\ DOMAIN Workflow = Ops
  /\ Workflow["Accept"] = 0 /\ Workflow["Recv"] = 1 /\ Workflow["Parse"] = 2
  /\ Workflow["FindHandler"] = 3 /\ Workflow["GenerateResponse"] = 4
  /\ Workflow["RequestFlush"] = 5 /\ Workflow["PollOut"] = 6
  /\ Workflow["Send"] = 7 /\ Workflow["RequestClose"] = 8
  /\ Workflow["Closed"] = 9 /\ Workflow["FreeBuffer"] = 10
BY DEF Workflow, Ops

(* No two workflows have the same code.                                    *)
LEMMA CodesDiffer ==
  ASSUME NEW o \in Ops, NEW p \in Ops, Workflow[o] = Workflow[p]
  PROVE  o = p
BY Codes DEF Ops

(* A tag shows the workflow whose code its op field holds.                 *)
LEMMA UnpackedCode ==
  ASSUME NEW op, NEW o \in Ops, Workflow[op] % 8 = Workflow[o]
  PROVE  Unpacked(op) = o
BY Codes, CodesDiffer DEF Unpacked

(* The op field of three bits holds eight codes: the last three are taken  *)
(* for the first.                                                          *)
LEMMA TagsOf ==
  /\ \A o \in Ops \ { "RequestClose", "Closed", "FreeBuffer" } : Unpacked(o) = o
  /\ Unpacked("RequestClose") = "Accept"
  /\ Unpacked("Closed") = "Recv"
  /\ Unpacked("FreeBuffer") = "Parse"
  /\ \A o \in Ops : Unpacked(o) \in Ops \ { "RequestClose", "Closed", "FreeBuffer" }
<1>1. ASSUME NEW o \in Ops \ { "RequestClose", "Closed", "FreeBuffer" }
      PROVE  Unpacked(o) = o
  <2>1. Workflow[o] \in 0 .. 7
    BY Codes DEF Ops
  <2>2. Workflow[o] % 8 = Workflow[o]
    BY <2>1
  <2> QED  BY <2>2, UnpackedCode
<1>2. /\ Workflow["RequestClose"] % 8 = Workflow["Accept"]
      /\ Workflow["Closed"] % 8 = Workflow["Recv"]
      /\ Workflow["FreeBuffer"] % 8 = Workflow["Parse"]
  BY Codes
<1>3. { "Accept", "Recv", "Parse" } \subseteq Ops
  BY DEF Ops
<1>4. /\ Unpacked("RequestClose") = "Accept"
      /\ Unpacked("Closed") = "Recv"
      /\ Unpacked("FreeBuffer") = "Parse"
  BY <1>2, <1>3, UnpackedCode
<1> QED  BY <1>1, <1>4 DEF Ops

-----------------------------------------------------------------------------
(* What the helpers of the handlers choose exists.                         *)

(* A set of natural numbers that is not empty has a least member.          *)
LEMMA LeastNat ==
  ASSUME NEW T \in SUBSET Nat, T # {}
  PROVE  \E n \in T : \A m \in T : n <= m
<1> DEFINE R == OpToRel(<, Nat)
<1>1. IsWellFoundedOn(R, Nat)
  BY NatLessThanWellFounded, Zenon
<1> HIDE DEF R
<1>2. PICK n \in T : \A m \in T : << m, n >> \notin R
  BY <1>1, WFMin, Zenon
<1>3. \A m \in T : ~ (m < n)
  BY <1>2 DEF R, OpToRel
<1> QED  BY <1>3

(* A queue that is not empty has a batch to send.                          *)
LEMMA BatchExists ==
  ASSUME NEW E, NEW q \in Seq(E), q # <<>>
  PROVE  \E n \in 1 .. Len(q) : IsBatch(q, n)
<1> DEFINE T == { n \in 1 .. Len(q) : n = MAX_IOV \/ n = Len(q) \/ q[n].eor }
<1>1. T \subseteq Nat /\ Len(q) \in T
  OBVIOUS
<1>2. PICK n \in T : \A m \in T : n <= m
  BY <1>1, LeastNat
<1>3. \A i \in 1 .. (n - 1) : i # MAX_IOV /\ ~ q[i].eor
  BY <1>2
<1> QED  BY <1>2, <1>3 DEF IsBatch

(* The descriptor the kernel gives is a free one.                          *)
LEMMA LowestIsFree ==
  ASSUME Free # {}
  PROVE  LowestFree \in Free
<1>1. Free \subseteq Nat
  BY UringAssumption DEF Free
<1>2. \E f \in Free : \A g \in Free : f <= g
  BY <1>1, LeastNat
<1> QED  BY <1>2 DEF LowestFree

-----------------------------------------------------------------------------
(* Types.  Sqes and Answers say of each request and completion what its    *)
(* tag is and which fields it makes use of.                                *)

Bufs == OwnedBuf(Conns)

(* The ops that a tag may show.                                            *)
Shown == { Unpacked(o) : o \in Ops }

(* What the completion of a task itself may show as its tag.               *)
StaleTags ==
  IF SQ_ENTRIES = 0 THEN { ZeroTag }
  ELSE { t \in Tags : t.op \in Shown \ { "GenerateResponse" } }

Sqes ==
  { r \in Requests :
      /\ r.kind = "accept"  => r.tag = Tag(LISTEN_FD, "Accept")
      /\ r.kind = "recv"    => r.tag = Tag(r.fd, "Recv")
      /\ r.kind = "send"    => r.tag = Tag(r.fd, "Send")
      /\ r.kind = "poll"    => r.tag = Tag(r.fd, "PollOut")
      /\ r.kind = "close"   => r.tag = Tag(r.fd, "Closed")
      /\ r.kind = "provide" => r.tag = Tag(0, "FreeBuffer")
      /\ r.kind = "task"    => /\ r.tag = Tag(r.fd, r.task)
                               /\ r.conn \in Conns
                               /\ r.stale \in StaleTags }

Answers ==
  { c \in CqesOf(Tags) :
      /\ c.tag.op \in Shown
      /\ c.tag.op \in { "Accept", "Recv" } /\ c.res > 0 => c.conn \in Conns
      /\ c.tag.op = "Accept" /\ c.res > 0 => c.res \in Fds
      /\ c.tag.op = "GenerateResponse" => c.conn \in Conns
      /\ c.more => c.res > 0
      /\ c.buffer => c.res > 0 /\ c.tag.op = "Recv" }

Operations ==
  { o \in [ sqe : Sqes, conn : 0 .. FOREIGN ] :
      /\ o.sqe.kind \in { "accept", "recv", "send", "poll" }
      /\ o.sqe.kind # "accept" => o.conn \in Conns }

(* The tags that the tasks queued have found in their slots are recorded.  *)
Carries == \A r \in Members(sq) : r.kind = "task" => r.stale \in carried

Types ==
  /\ DOMAIN table \subseteq Fds
  /\ table \in [ DOMAIN table -> PerClientStorage ]
  /\ use_ms_accept \in BOOLEAN /\ ms_accept_armed \in BOOLEAN
  /\ use_ms_recv \in BOOLEAN /\ have_buf_pool \in BOOLEAN
  /\ multishot \in BOOLEAN /\ misclosed \in BOOLEAN
  /\ Sequences(Sqes, Answers)
  /\ DOMAIN ops \subseteq Operations
  /\ slots \in Seq(StaleTags) /\ Len(slots) = SQ_ENTRIES
  /\ carried \subseteq StaleTags /\ running \in BOOLEAN /\ Carries
  /\ fdtab \in [ Fds -> 0 .. FOREIGN ]
  /\ pool \in Nat
  /\ sent \in [ Conns -> Nat ]
  /\ backlog \in Seq(1 .. MAX_CONNS)
  /\ conns \in 0 .. MAX_CONNS

(* What the assumptions say of the constants.                              *)
LEMMA Constants ==
  /\ MAX_CONNS \in Nat /\ BUF_CNT \in Nat /\ SQ_ENTRIES \in Nat
  /\ RESPONSE_LEN \in Nat /\ MAX_IOV \in Nat \ {0}
  /\ FOREIGN \in Conns /\ 1 .. MAX_CONNS \subseteq Conns
  /\ Conns \subseteq 0 .. FOREIGN /\ 0 \in 0 .. FOREIGN /\ 0 \notin Conns
  /\ Fds \subseteq Nat \ {0}
  /\ LISTEN_FD \notin Fds /\ LISTEN_FD # 0
<1>1. MAX_CONNS \in Nat /\ BUF_CNT \in Nat /\ Fds \subseteq Nat \ {0}
  BY UringAssumption
<1>2. SQ_ENTRIES \in Nat /\ RESPONSE_LEN \in Nat
  BY WorkerAssumption
<1>3. LISTEN_FD \notin Fds /\ LISTEN_FD # 0
  BY WorkerAssumption
<1>4. MAX_IOV \in Nat \ {0}
  BY MaxIovAssumption
<1>5. /\ FOREIGN \in Conns /\ 1 .. MAX_CONNS \subseteq Conns
      /\ Conns \subseteq 0 .. FOREIGN /\ 0 \in 0 .. FOREIGN /\ 0 \notin Conns
  BY <1>1 DEF FOREIGN, Conns
<1> QED  BY <1>1, <1>2, <1>3, <1>4, <1>5

(* Tags of descriptors and workflows are tags.                             *)
LEMMA TagType ==
  ASSUME NEW fd \in Fds \cup { 0, LISTEN_FD }, NEW op \in Ops
  PROVE  Tag(fd, op) \in Tags /\ Tag(fd, op).fd = fd /\ Tag(fd, op).op = Unpacked(op)
<1>1. Unpacked(op) \in DOMAIN Workflow
  BY TagsOf, Codes
<1> QED  BY <1>1 DEF Tag, Tags

(* The zero tag is a tag that a slot may hold.                             *)
LEMMA ZeroTagStale ==
  /\ ZeroTag \in Tags /\ ZeroTag \in StaleTags /\ StaleTags \subseteq Tags
  /\ \A t \in StaleTags : t.op \in Shown /\ t.op # "GenerateResponse"
<1>1. ZeroTag \in Tags /\ ZeroTag.op = "Accept" /\ "Accept" \in Ops
  BY Codes DEF ZeroTag, Tags, Ops
<1>2. Unpacked("Accept") = "Accept"
  BY <1>1, TagsOf DEF Ops
<1>3. "Accept" \in Shown
  BY <1>1, <1>2 DEF Shown
<1> QED  BY <1>1, <1>3 DEF StaleTags

(* Requests of the handlers.                                               *)
LEMMA AcceptTyped ==
  ASSUME NEW multi \in BOOLEAN
  PROVE  AcceptOf(multi) \in Sqes
<1>1. Tag(LISTEN_FD, "Accept") \in Tags
  BY TagType DEF Ops
<1> QED  BY <1>1 DEF AcceptOf, AcceptSqe, Sqes, Requests, SqesOf

(* A receive that the loop queues is a typed request.                      *)
LEMMA RecvTyped ==
  ASSUME NEW fd \in Fds, NEW multi \in BOOLEAN
  PROVE  RecvOf(fd, multi) \in Sqes
<1>1. Tag(fd, "Recv") \in Tags
  BY TagType DEF Ops
<1> QED  BY <1>1 DEF RecvOf, RecvSqe, Sqes, Requests, SqesOf

(* So is a sendmsg,                                                        *)
LEMMA SendTyped ==
  ASSUME NEW fd \in Fds, NEW bufs \in Seq(Bufs)
  PROVE  SendOf(fd, bufs) \in Sqes
<1>1. Tag(fd, "Send") \in Tags
  BY TagType DEF Ops
<1> QED  BY <1>1 DEF SendOf, SendSqe, Sqes, Requests, SqesOf, Bufs

(* a poll,                                                                 *)
LEMMA PollTyped ==
  ASSUME NEW fd \in Fds
  PROVE  PollOf(fd) \in Sqes
<1>1. Tag(fd, "PollOut") \in Tags
  BY TagType DEF Ops
<1> QED  BY <1>1 DEF PollOf, PollSqe, Sqes, Requests, SqesOf

(* a close,                                                                *)
LEMMA CloseTyped ==
  ASSUME NEW fd \in Fds, NEW conn \in 0 .. FOREIGN
  PROVE  CloseOf(fd, conn) \in Sqes
<1>1. Tag(fd, "Closed") \in Tags
  BY TagType DEF Ops
<1> QED  BY <1>1 DEF CloseOf, CloseSqe, Sqes, Requests, SqesOf

(* a returned buffer,                                                      *)
LEMMA FreeBufferTyped ==
   FreeBuffer \in Sqes
<1>1. Tag(0, "FreeBuffer") \in Tags
  BY TagType DEF Ops
<1> QED  BY <1>1 DEF FreeBuffer, ProvideSqe, Sqes, Requests, SqesOf

(* and a task.                                                             *)
LEMMA TaskTyped ==
  ASSUME NEW fd \in Fds, NEW task \in ParseTasks \cup { "RequestFlush" },
         NEW conn \in Conns
  PROVE  TaskSqe(fd, task, conn) \in Sqes
<1>1. Tag(fd, task) \in Tags
  BY TagType DEF Ops, ParseTasks
<1>2. conn \in 0 .. FOREIGN
  BY Constants
<1> QED  BY <1>1, <1>2, ZeroTagStale DEF TaskSqe, Sqes, Requests

-----------------------------------------------------------------------------
(* Queueing.                                                               *)

(* The kinds of request, and what is known of each.                        *)
LEMMA SqeFacts ==
  ASSUME NEW r \in Sqes
  PROVE  /\ r.kind \in { "accept", "recv", "send", "poll", "close", "provide", "task" }
         /\ r.tag \in Tags
         /\ r.kind = "accept"  => r.tag = Tag(LISTEN_FD, "Accept") /\ r.multi \in BOOLEAN
         /\ r.kind = "recv"    => r.tag = Tag(r.fd, "Recv") /\ r.fd \in Fds /\ r.multi \in BOOLEAN
         /\ r.kind = "send"    => r.tag = Tag(r.fd, "Send") /\ r.fd \in Fds /\ r.bufs \in Seq(Bufs)
         /\ r.kind = "poll"    => r.tag = Tag(r.fd, "PollOut") /\ r.fd \in Fds
         /\ r.kind = "close"   => r.tag = Tag(r.fd, "Closed") /\ r.fd \in Fds /\ r.conn \in 0 .. FOREIGN
         /\ r.kind = "provide" => r.tag = Tag(0, "FreeBuffer")
         /\ r.kind = "task"    => /\ r.tag = Tag(r.fd, r.task) /\ r.fd \in Fds
                                  /\ r.task \in ParseTasks \cup { "RequestFlush" }
                                  /\ r.conn \in Conns /\ r.stale \in StaleTags
<1>1. r \in Requests
  BY DEF Sqes
<1>2. /\ r.kind \in { "accept", "recv", "send", "poll", "close", "provide", "task" }
      /\ r.tag \in Tags
  BY <1>1 DEF Requests, SqesOf
<1>3. /\ r.kind = "accept"  => r.multi \in BOOLEAN
      /\ r.kind = "recv"    => r.fd \in Fds /\ r.multi \in BOOLEAN
      /\ r.kind = "poll"    => r.fd \in Fds
      /\ r.kind = "close"   => r.fd \in Fds /\ r.conn \in 0 .. FOREIGN
      /\ r.kind = "task"    => r.fd \in Fds /\ r.task \in ParseTasks \cup { "RequestFlush" }
  BY <1>1 DEF Requests, SqesOf
<1>4. r.kind = "send" => r.fd \in Fds /\ r.bufs \in Seq(Bufs)
  BY <1>1 DEF Requests, SqesOf, Bufs
<1> QED  BY <1>2, <1>3, <1>4 DEF Sqes

(* Another tag found in its slot makes a request of the same type.         *)
LEMMA StaleTyped ==
  ASSUME NEW r \in Sqes, r.kind = "task", NEW t \in StaleTags
  PROVE  [ r EXCEPT !.stale = t ] \in Sqes
<1>1. r \in [ kind : {"task"}, tag : Tags, fd : Fds, conn : 0 .. FOREIGN,
              task : ParseTasks \cup { "RequestFlush" }, stale : Tags ]
  BY DEF Sqes, Requests, SqesOf
<1>2. [ r EXCEPT !.stale = t ] \in Requests
  BY <1>1, ZeroTagStale DEF Requests
<1> QED  BY <1>1, <1>2 DEF Sqes

(* A slot changes nothing of a task but its stale tag.                     *)
LEMMA StaleSame ==
  ASSUME NEW r \in Sqes, r.kind = "task", NEW t \in StaleTags,
         NEW s, s = [ r EXCEPT !.stale = t ]
  PROVE  /\ s \in Sqes /\ s.kind = "task" /\ s.tag = r.tag /\ s.fd = r.fd
         /\ s.conn = r.conn /\ s.task = r.task
<1>1. r \in [ kind : {"task"}, tag : Tags, fd : Fds, conn : 0 .. FOREIGN,
              task : ParseTasks \cup { "RequestFlush" }, stale : Tags ]
  BY DEF Sqes, Requests, SqesOf
<1>2. /\ s.kind = r.kind /\ s.tag = r.tag /\ s.fd = r.fd
      /\ s.conn = r.conn /\ s.task = r.task
  BY <1>1
<1> QED  BY <1>2, StaleTyped

(* Does membership in S not depend on the tag found in the slot?           *)
Blind(S) ==
  \A r \in Sqes : \A t \in StaleTags :
    r.kind = "task" => (r \in S <=> [ r EXCEPT !.stale = t ] \in S)

(* A slot that is taken holds a tag that may come back.                    *)
LEMMA SlotTyped ==
  ASSUME Types, NEW n \in Nat, SQ_ENTRIES # 0 => n <= SQ_ENTRIES, NEW i \in 1 .. n
  PROVE  SlotTag(i) \in StaleTags
<1>1. CASE SQ_ENTRIES = 0
  BY <1>1, ZeroTagStale DEF SlotTag
<1>2. CASE SQ_ENTRIES # 0
  <2>1. i \in 1 .. Len(slots) /\ slots \in Seq(StaleTags)
    BY <1>2, Constants DEF Types
  <2> QED  BY <1>2, <2>1 DEF SlotTag
<1> QED  BY <1>1, <1>2

(* Requests in their slots are typed, and those that are no tasks are as   *)
(* they were.                                                              *)
LEMMA InSlotsTyped ==
  ASSUME Types, NEW new \in Seq(Sqes), SQ_ENTRIES # 0 => Len(new) <= SQ_ENTRIES
  PROVE  /\ InSlots(new) \in Seq(Sqes) /\ Len(InSlots(new)) = Len(new)
         /\ \A r \in Members(InSlots(new)) : r.kind # "task" => r \in Members(new)
         /\ \A S : Blind(S) => Count(InSlots(new), S) = Count(new, S)
<1>1. ASSUME NEW i \in 1 .. Len(new)
      PROVE  SlotTag(i) \in StaleTags
  BY SlotTyped
<1> DEFINE in(i) == IF IsTask(new[i]) THEN [ new[i] EXCEPT !.stale = SlotTag(i) ]
                    ELSE new[i]
<1>2. \A i \in 1 .. Len(new) : in(i) \in Sqes
  BY <1>1, StaleTyped DEF IsTask
<1>3. InSlots(new) = [ i \in 1 .. Len(new) |-> in(i) ]
  BY DEF InSlots
<1> HIDE DEF in
<1>4. /\ InSlots(new) \in Seq(Sqes) /\ Len(InSlots(new)) = Len(new)
      /\ \A i \in 1 .. Len(new) : InSlots(new)[i] = in(i)
  BY <1>2, <1>3
<1>5. \A i \in 1 .. Len(new) : in(i).kind = new[i].kind
  <2> SUFFICES ASSUME NEW i \in 1 .. Len(new)
               PROVE  in(i).kind = new[i].kind
    OBVIOUS
  <2>1. CASE IsTask(new[i])
    <3>1. new[i] \in Requests
      BY DEF Sqes
    <3>2. new[i] \in [ kind : {"task"}, tag : Tags, fd : Fds, conn : 0 .. FOREIGN,
                       task : ParseTasks \cup { "RequestFlush" }, stale : Tags ]
      BY <2>1, <3>1 DEF IsTask, Requests, SqesOf
    <3> QED  BY <2>1, <3>2 DEF in
  <2>2. CASE ~ IsTask(new[i])
    BY <2>2 DEF in
  <2> QED  BY <2>1, <2>2
<1>6. ASSUME NEW r \in Members(InSlots(new)), r.kind # "task"
      PROVE  r \in Members(new)
  <2>1. PICK i \in 1 .. Len(new) : r = in(i)
    BY <1>4 DEF Members
  <2>2. r = new[i]
    BY <1>5, <1>6, <2>1 DEF in, IsTask
  <2> QED  BY <2>2 DEF Members
<1>7. ASSUME NEW S, Blind(S)
      PROVE  Count(InSlots(new), S) = Count(new, S)
  <2>1. \A i \in 1 .. Len(new) : in(i) \in S <=> new[i] \in S
    BY <1>1, <1>7 DEF Blind, in, IsTask
  <2>2. \A i \in 1 .. Len(InSlots(new)) : InSlots(new)[i] \in S <=> new[i] \in S
    BY <1>4, <2>1
  <2> QED  BY <1>4, <2>2, CountSame
<1> QED  BY <1>4, <1>6, <1>7

(* The tag of a request, with the op that the handlers will find in it.    *)
LEMMA SqeTags ==
  ASSUME NEW r \in Sqes
  PROVE  /\ r.tag \in Tags
         /\ r.kind = "accept"  => r.tag.fd = LISTEN_FD /\ r.tag.op = "Accept"
         /\ r.kind = "recv"    => r.tag.fd = r.fd /\ r.tag.op = "Recv"
         /\ r.kind = "send"    => r.tag.fd = r.fd /\ r.tag.op = "Send"
         /\ r.kind = "poll"    => r.tag.fd = r.fd /\ r.tag.op = "PollOut"
         /\ r.kind = "close"   => r.tag.fd = r.fd /\ r.tag.op = Unpacked("Closed")
         /\ r.kind = "provide" => r.tag.fd = 0 /\ r.tag.op = Unpacked("FreeBuffer")
         /\ r.kind = "task"    => r.tag.fd = r.fd /\ r.tag.op = Unpacked(r.task)
         /\ r.kind # "task"    => r.tag.op # "GenerateResponse"
         /\ r.tag.op \in Shown
<1>1. /\ Unpacked("Accept") = "Accept" /\ Unpacked("Recv") = "Recv"
      /\ Unpacked("Send") = "Send" /\ Unpacked("PollOut") = "PollOut"
      /\ Unpacked("Closed") # "GenerateResponse"
      /\ Unpacked("FreeBuffer") # "GenerateResponse"
  BY TagsOf DEF Ops
<1>2. \A fd, o : Tag(fd, o).fd = fd /\ Tag(fd, o).op = Unpacked(o)
  BY DEF Tag
<1>3. r.tag \in Tags
  BY SqeFacts
<1>4. /\ r.kind = "accept"  => r.tag.fd = LISTEN_FD /\ r.tag.op = "Accept"
      /\ r.kind = "recv"    => r.tag.fd = r.fd /\ r.tag.op = "Recv"
      /\ r.kind = "send"    => r.tag.fd = r.fd /\ r.tag.op = "Send"
      /\ r.kind = "poll"    => r.tag.fd = r.fd /\ r.tag.op = "PollOut"
  BY <1>1, <1>2, SqeFacts
<1>5. /\ r.kind = "close"   => r.tag.fd = r.fd /\ r.tag.op = Unpacked("Closed")
      /\ r.kind = "provide" => r.tag.fd = 0 /\ r.tag.op = Unpacked("FreeBuffer")
      /\ r.kind = "task"    => r.tag.fd = r.fd /\ r.tag.op = Unpacked(r.task)
  BY <1>2, SqeFacts
<1>6. r.kind # "task" => r.tag.op # "GenerateResponse"
  <2>1. r.kind \in { "accept", "recv", "send", "poll", "close", "provide", "task" }
    BY SqeFacts
  <2> QED  BY <1>1, <1>4, <1>5, <2>1
<1>7. r.tag.op \in Shown
  <2>1. \A o \in Ops : Unpacked(o) \in Shown
    BY DEF Shown
  <2>2. r.kind = "task" => r.task \in Ops
    BY SqeFacts DEF Ops, ParseTasks
  <2>3. { "Closed", "FreeBuffer", "Accept", "Recv", "Send", "PollOut" } \subseteq Ops
    BY DEF Ops
  <2>4. r.kind \in { "accept", "recv", "send", "poll", "close", "provide", "task" }
    BY SqeFacts
  <2> QED  BY <1>1, <1>4, <1>5, <2>1, <2>2, <2>3, <2>4
<1> QED  BY <1>3, <1>4, <1>5, <1>6, <1>7

(* A request other than a task leaves a tag that may be found later.       *)
LEMMA TagLeft ==
  ASSUME NEW r \in Sqes, r.kind # "task", SQ_ENTRIES # 0
  PROVE  r.tag \in StaleTags
<1>1. r.tag \in Tags
  BY SqeFacts
<1>2. r.tag.op # "GenerateResponse" /\ r.tag.op \in Shown
  BY SqeTags
<1> QED  BY <1>1, <1>2 DEF StaleTags

(* Queue keeps the requests and the slots typed.                           *)
LEMMA QueueTyped ==
  ASSUME Types, NEW new \in Seq(Sqes), Queue(new)
  PROVE  /\ InSlots(new) \in Seq(Sqes) /\ sq' = sq \o InSlots(new)
         /\ SQ_ENTRIES # 0 => Len(new) <= SQ_ENTRIES
         /\ slots' \in Seq(StaleTags) /\ Len(slots') = SQ_ENTRIES
<1>1. SQ_ENTRIES # 0 => Len(sq) + Len(new) <= SQ_ENTRIES
  BY DEF Queue
<1>2. Len(sq) \in Nat /\ Len(new) \in Nat /\ SQ_ENTRIES \in Nat
  <2>1. sq \in Seq(Sqes)
    BY DEF Types, Sequences
  <2>2. Len(sq) \in Nat /\ Len(new) \in Nat
    BY <2>1
  <2> QED  BY <2>2, Constants
<1>3. SQ_ENTRIES # 0 => Len(new) <= SQ_ENTRIES
  BY <1>1, <1>2
<1>4. InSlots(new) \in Seq(Sqes) /\ sq' = sq \o InSlots(new)
  BY <1>3, InSlotsTyped DEF Queue
<1>5. CASE SQ_ENTRIES = 0
  BY <1>3, <1>4, <1>5 DEF Queue, Types
<1>6. CASE SQ_ENTRIES # 0
  <2> DEFINE n == Len(new)
             left == [ i \in 1 .. n |-> IF IsTask(new[i]) THEN slots[i] ELSE new[i].tag ]
             rest == SubSeq(slots, n + 1, SQ_ENTRIES)
  <2>1. slots' = rest \o left
    BY <1>6 DEF Queue
  <2>2. n \in 0 .. SQ_ENTRIES /\ slots \in Seq(StaleTags) /\ Len(slots) = SQ_ENTRIES
    BY <1>2, <1>3, <1>6 DEF Types
  <2>3. left \in Seq(StaleTags) /\ Len(left) = n
    <3>1. \A i \in 1 .. n : slots[i] \in StaleTags
      BY <2>2
    <3>2. \A i \in 1 .. n : ~ IsTask(new[i]) => new[i].tag \in StaleTags
      BY <1>6, TagLeft DEF IsTask
    <3> QED  BY <3>1, <3>2
  <2> HIDE DEF n, left
  <2>4. rest \in Seq(StaleTags) /\ Len(rest) = SQ_ENTRIES - n
    BY <1>2, <2>2
  <2> HIDE DEF rest
  <2> DEFINE both == rest \o left
  <2>5. both \in Seq(StaleTags)
    BY <2>3, <2>4
  <2>6. Len(both) = Len(rest) + Len(left)
    BY <2>3, <2>4, LenConcat
  <2> HIDE DEF both
  <2>7. Len(both) = SQ_ENTRIES
    BY <1>2, <2>2, <2>3, <2>4, <2>6
  <2> QED  BY <1>3, <1>4, <2>1, <2>5, <2>7 DEF both
<1> QED  BY <1>5, <1>6

(* Queue records the tags that the tasks find in their slots.              *)
LEMMA QueueCarries ==
  ASSUME Types, NEW new \in Seq(Sqes), Queue(new)
  PROVE  /\ carried \subseteq carried' /\ carried' \subseteq StaleTags
         /\ \A r \in Members(InSlots(new)) : r.kind = "task" => r.stale \in carried'
<1> DEFINE found == { SlotTag(i) : i \in { j \in 1 .. Len(new) : IsTask(new[j]) } }
<1>1. carried' = carried \cup found
  BY DEF Queue
<1>2. SQ_ENTRIES # 0 => Len(new) <= SQ_ENTRIES
  BY QueueTyped
<1>3. \A i \in 1 .. Len(new) : SlotTag(i) \in StaleTags
  BY <1>2, SlotTyped
<1>4. ASSUME NEW r \in Members(InSlots(new)), r.kind = "task"
      PROVE  r.stale \in found
  <2>1. PICK i \in 1 .. Len(new) :
          r = IF IsTask(new[i]) THEN [ new[i] EXCEPT !.stale = SlotTag(i) ] ELSE new[i]
    BY <1>2, InSlotsTyped DEF Members, InSlots
  <2>2. new[i] \in Sqes
    OBVIOUS
  <2>3. IsTask(new[i])
    BY <1>4, <2>1 DEF IsTask
  <2>4. r.stale = SlotTag(i)
    <3>1. new[i] \in [ kind : {"task"}, tag : Tags, fd : Fds, conn : 0 .. FOREIGN,
                        task : ParseTasks \cup { "RequestFlush" }, stale : Tags ]
      BY <2>2, <2>3 DEF IsTask, Sqes, Requests, SqesOf
    <3> QED  BY <2>1, <2>3, <3>1
  <2> QED  BY <2>3, <2>4
<1> HIDE DEF found
<1>5. found \subseteq StaleTags
  BY <1>3 DEF found
<1> QED  BY <1>1, <1>4, <1>5 DEF Types

-----------------------------------------------------------------------------
(* The helpers of the handlers.                                            *)

(* The requests a handler makes.                                           *)
LEMMA Made ==
  /\ \A m : AcceptOf(m).kind = "accept" /\ AcceptOf(m).multi = m
  /\ \A f, m : RecvOf(f, m).kind = "recv" /\ RecvOf(f, m).fd = f /\ RecvOf(f, m).multi = m
  /\ \A f, b : SendOf(f, b).kind = "send" /\ SendOf(f, b).fd = f /\ SendOf(f, b).bufs = b
  /\ \A f : PollOf(f).kind = "poll" /\ PollOf(f).fd = f
  /\ \A f, k : CloseOf(f, k).kind = "close" /\ CloseOf(f, k).fd = f
  /\ FreeBuffer.kind = "provide"
  /\ \A f, t, k : /\ TaskSqe(f, t, k).kind = "task" /\ TaskSqe(f, t, k).fd = f
                  /\ TaskSqe(f, t, k).task = t
BY DEF AcceptOf, AcceptSqe, RecvOf, RecvSqe, SendOf, SendSqe, PollOf, PollSqe, CloseOf,
       CloseSqe, FreeBuffer, ProvideSqe, TaskSqe

(* A single request is the only member of its sequence.                    *)
LEMMA MembersMade ==
  /\ \A f, m : Members(<< RecvOf(f, m) >>) = { RecvOf(f, m) }
  /\ \A f, b : Members(<< SendOf(f, b) >>) = { SendOf(f, b) }
  /\ \A f : Members(<< PollOf(f) >>) = { PollOf(f) }
  /\ \A f, k : Members(<< CloseOf(f, k) >>) = { CloseOf(f, k) }
BY MembersOne, Zenon

(* start_recv: the hold or the flag it sets, and the receive it queues.    *)
LEMMA StartRecvTyped ==
  ASSUME NEW fd \in Fds, NEW c \in PerClientStorage, NEW ms \in BOOLEAN,
         NEW r, r = StartRecv(fd, c, ms)
  PROVE  /\ r.c \in PerClientStorage /\ r.sqes \in Seq(Sqes)
         /\ r.sqes = <<>> \/ r.sqes = << RecvOf(fd, ms) >>
         /\ r.c.closing = c.closing /\ r.c.tx = c.tx /\ r.c.conn = c.conn
         /\ r.c.pollout_armed = c.pollout_armed
         /\ ~ ms \/ ~ c.ms_recv_armed => r.sqes = << RecvOf(fd, ms) >>
         /\ r.c.rx_hold <=> (c.rx_hold \/ ~ ms)
<1>1. RecvOf(fd, ms) \in Sqes
  BY RecvTyped
<1>2. << RecvOf(fd, ms) >> \in Seq(Sqes) /\ <<>> \in Seq(Sqes)
  BY <1>1
<1> DEFINE held == [ c EXCEPT !.rx_hold = TRUE ]
           armed == [ c EXCEPT !.ms_recv_armed = TRUE ]
<1>3. /\ held \in PerClientStorage /\ held.rx_hold = TRUE
      /\ held.closing = c.closing /\ held.tx = c.tx /\ held.conn = c.conn
      /\ held.pollout_armed = c.pollout_armed
  BY DEF PerClientStorage
<1>4. /\ armed \in PerClientStorage /\ armed.rx_hold = c.rx_hold
      /\ armed.closing = c.closing /\ armed.tx = c.tx /\ armed.conn = c.conn
      /\ armed.pollout_armed = c.pollout_armed
  BY DEF PerClientStorage
<1>5. c.rx_hold \in BOOLEAN
  BY DEF PerClientStorage
<1>6. /\ ~ ms => r.c = held /\ r.sqes = << RecvOf(fd, ms) >>
      /\ ms /\ c.ms_recv_armed => r.c = c /\ r.sqes = <<>>
      /\ ms /\ ~ c.ms_recv_armed => r.c = armed /\ r.sqes = << RecvOf(fd, ms) >>
  <2> HIDE DEF held, armed
  <2>1. ms = TRUE \/ ms = FALSE
    OBVIOUS
  <2> QED  BY <2>1 DEF StartRecv, held, armed
<1> HIDE DEF held, armed
<1>7. CASE ~ ms
  BY <1>2, <1>3, <1>5, <1>6, <1>7
<1>8. CASE ms /\ c.ms_recv_armed
  BY <1>2, <1>5, <1>6, <1>8
<1>9. CASE ms /\ ~ c.ms_recv_armed
  BY <1>2, <1>4, <1>5, <1>6, <1>9
<1> QED  BY <1>7, <1>8, <1>9

(* The same for a storage that may be marked closing.                      *)
LEMMA StartRecvUnlessClosingTyped ==
  ASSUME NEW fd \in Fds, NEW c \in PerClientStorage, NEW ms \in BOOLEAN,
         NEW r, r = StartRecvUnlessClosing(fd, c, ms)
  PROVE  /\ r.c \in PerClientStorage /\ r.sqes \in Seq(Sqes)
         /\ r.sqes = <<>> \/ r.sqes = << RecvOf(fd, ms) >>
         /\ r.c.closing = c.closing /\ r.c.tx = c.tx /\ r.c.conn = c.conn
         /\ r.c.pollout_armed = c.pollout_armed
         /\ ~ c.closing /\ (~ ms \/ ~ c.ms_recv_armed) => r.sqes = << RecvOf(fd, ms) >>
         /\ ~ c.closing => (r.c.rx_hold <=> (c.rx_hold \/ ~ ms))
         /\ \A q \in Members(r.sqes) : q.kind = "recv" /\ q.fd = fd
<1>0. ASSUME r.sqes = <<>> \/ r.sqes = << RecvOf(fd, ms) >>
      PROVE  \A q \in Members(r.sqes) : q.kind = "recv" /\ q.fd = fd
  <2>1. Members(r.sqes) \subseteq { RecvOf(fd, ms) }
    BY <1>0, MembersOne, MembersMade
  <2> QED  BY <2>1, Made
<1>1. CASE c.closing
  <2>1. r.c = c /\ r.sqes = <<>>
    BY <1>1 DEF StartRecvUnlessClosing
  <2>2. <<>> \in Seq(Sqes)
    OBVIOUS
  <2> QED  BY <1>0, <1>1, <2>1, <2>2
<1>2. CASE ~ c.closing
  <2>1. r = StartRecv(fd, c, ms)
    BY <1>2 DEF StartRecvUnlessClosing
  <2> QED  BY <1>0, <1>2, <2>1, StartRecvTyped
<1> QED  BY <1>1, <1>2

(* sendkick_inline does nothing, or it sends a batch of the queue.         *)
Kicked(fd, old, tx, new) ==
  \/ tx = old /\ new = <<>> /\ NothingToKick(old)
  \/ /\ ~ old.send_inflight /\ tx.send_inflight
     /\ new = << SendOf(fd, tx.tx_inflight) >>

(* sendkick_inline changes the send side only, and queues a sendmsg or     *)
(* nothing.                                                                *)
LEMMA KickTyped ==
  ASSUME NEW fd \in Fds, NEW c \in PerClientStorage, NEW r, r = Kick(fd, c)
  PROVE  /\ r.c \in PerClientStorage /\ r.sqes \in Seq(Sqes)
         /\ r.c.closing = c.closing /\ r.c.conn = c.conn
         /\ r.c.rx_hold = c.rx_hold /\ r.c.ms_recv_armed = c.ms_recv_armed
         /\ r.c.pollout_armed = c.pollout_armed
         /\ Kicked(fd, c.tx, r.c.tx, r.sqes)
         /\ \A q \in Members(r.sqes) : q.kind = "send" /\ q.fd = fd
<1>1. CASE NothingToKick(c.tx)
  <2>1. r.c = c /\ r.sqes = <<>>
    BY <1>1 DEF Kick
  <2>2. <<>> \in Seq(Sqes)
    OBVIOUS
  <2>3. Members(r.sqes) = {}
    BY <2>1, MembersOne
  <2> QED  BY <1>1, <2>1, <2>2, <2>3 DEF Kicked
<1>2. CASE ~ NothingToKick(c.tx)
  <2> DEFINE q == c.tx.txq
             n == CHOOSE m \in 1 .. Len(q) : IsBatch(q, m)
             batch == TakeBatch(c.tx, n)
             kicked == [ c EXCEPT !.tx = batch ]
  <2>1. ~ c.tx.send_inflight /\ q # <<>>
    BY <1>2 DEF NothingToKick
  <2>2. c.tx \in TxState(Conns) /\ q \in Seq(Bufs)
    BY DEF PerClientStorage, TxState, Bufs
  <2>3. \E m \in 1 .. Len(q) : IsBatch(q, m)
    BY <2>1, <2>2, BatchExists
  <2>4. n \in 1 .. Len(q)
    BY <2>3
  <2>5. r.c = kicked /\ r.sqes = << SendOf(fd, batch.tx_inflight) >>
    BY <1>2 DEF Kick
  <2> HIDE DEF n
  <2>6. batch \in TxState(Conns) /\ batch.send_inflight
    <3>1. q[n].eor \in BOOLEAN
      <4>1. q[n] \in Bufs
        BY <2>2, <2>4
      <4> QED  BY <4>1 DEF Bufs, OwnedBuf
    <3>2. SubSeq(q, n + 1, Len(q)) \in Seq(Bufs) /\ SubSeq(q, 1, n) \in Seq(Bufs)
      BY <2>2, <2>4
    <3> QED  BY <3>1, <3>2 DEF TakeBatch, TxState, Bufs
  <2> HIDE DEF batch
  <2>7. /\ kicked \in PerClientStorage /\ kicked.tx = batch
        /\ kicked.closing = c.closing /\ kicked.conn = c.conn
        /\ kicked.rx_hold = c.rx_hold /\ kicked.ms_recv_armed = c.ms_recv_armed
        /\ kicked.pollout_armed = c.pollout_armed
    BY <2>6 DEF PerClientStorage
  <2>8. batch.tx_inflight \in Seq(Bufs)
    BY <2>6 DEF TxState, Bufs
  <2>9. SendOf(fd, batch.tx_inflight) \in Sqes
    BY <2>8, SendTyped
  <2>10. r.sqes \in Seq(Sqes)
    BY <2>5, <2>9
  <2>11. Members(r.sqes) = { SendOf(fd, batch.tx_inflight) }
    BY <2>5, MembersMade
  <2> HIDE DEF kicked
  <2> QED  BY <2>1, <2>5, <2>6, <2>7, <2>10, <2>11, Made DEF Kicked
<1> QED  BY <1>1, <1>2

(* update_pollout arms the poll, and queues one unless it was armed.       *)
LEMMA UpdatePolloutTyped ==
  ASSUME NEW fd \in Fds, NEW c \in PerClientStorage, NEW r, r = UpdatePollout(fd, c)
  PROVE  /\ r.c \in PerClientStorage /\ r.sqes \in Seq(Sqes)
         /\ r.c.closing = c.closing /\ r.c.conn = c.conn /\ r.c.tx = c.tx
         /\ r.c.rx_hold = c.rx_hold /\ r.c.ms_recv_armed = c.ms_recv_armed
         /\ r.c.pollout_armed
         /\ \/ c.pollout_armed /\ r.sqes = <<>>
            \/ ~ c.pollout_armed /\ r.sqes = << PollOf(fd) >>
         /\ \A q \in Members(r.sqes) : q.kind = "poll" /\ q.fd = fd
<1>1. CASE c.pollout_armed
  <2>1. r.c = c /\ r.sqes = <<>>
    BY <1>1 DEF UpdatePollout
  <2>2. <<>> \in Seq(Sqes)
    OBVIOUS
  <2>3. Members(r.sqes) = {}
    BY <2>1, MembersOne
  <2> QED  BY <1>1, <2>1, <2>2, <2>3
<1>2. CASE ~ c.pollout_armed
  <2> DEFINE armed == [ c EXCEPT !.pollout_armed = TRUE ]
  <2>1. r.c = armed /\ r.sqes = << PollOf(fd) >>
    BY <1>2 DEF UpdatePollout
  <2>2. /\ armed \in PerClientStorage /\ armed.pollout_armed = TRUE
        /\ armed.closing = c.closing /\ armed.conn = c.conn /\ armed.tx = c.tx
        /\ armed.rx_hold = c.rx_hold /\ armed.ms_recv_armed = c.ms_recv_armed
    BY DEF PerClientStorage
  <2>3. PollOf(fd) \in Sqes
    BY PollTyped
  <2>4. r.sqes \in Seq(Sqes)
    BY <2>1, <2>3
  <2>5. Members(r.sqes) = { PollOf(fd) }
    BY <2>1, MembersMade
  <2> HIDE DEF armed
  <2> QED  BY <1>2, <2>1, <2>2, <2>4, <2>5, Made
<1> QED  BY <1>1, <1>2

(* post_accept queues an accept unless a multishot one is armed.           *)
LEMMA PostAcceptTyped ==
  ASSUME NEW ms, NEW armed
  PROVE  /\ PostAccept(ms, armed) \in Seq(Sqes)
         /\ \/ PostAccept(ms, armed) = <<>> /\ ms /\ armed
            \/ \E multi \in BOOLEAN : PostAccept(ms, armed) = << AcceptOf(multi) >>
<1>1. AcceptOf(TRUE) \in Sqes /\ AcceptOf(FALSE) \in Sqes
  BY AcceptTyped
<1>2. /\ << AcceptOf(TRUE) >> \in Seq(Sqes)
      /\ << AcceptOf(FALSE) >> \in Seq(Sqes)
      /\ <<>> \in Seq(Sqes)
  BY <1>1, OneInSeq, Zenon
<1> QED  BY <1>2 DEF PostAccept

(* A new storage: nothing queued, armed, in flight or closing.             *)
LEMMA FreshStorageTyped ==
  ASSUME NEW conn \in Conns
  PROVE  /\ FreshStorage(conn) \in PerClientStorage
         /\ FreshStorage(conn).conn = conn
         /\ FreshStorage(conn).tx = InitTx
         /\ ~ FreshStorage(conn).closing /\ ~ FreshStorage(conn).ms_recv_armed
         /\ ~ FreshStorage(conn).pollout_armed
<1>1. InitTx \in TxState(Conns)
  BY DEF InitTx, TxState
<1>2. "start" \in Phases
  BY DEF Phases
<1> QED  BY <1>1, <1>2 DEF FreshStorage, PerClientStorage

(* The operators on the send side keep its type, and end what is in flight.*)
LEMMA TxTyped ==
  ASSUME NEW t \in TxState(Conns)
  PROVE  /\ Completed(t) \in TxState(Conns) /\ RollBack(t) \in TxState(Conns)
         /\ ~ Completed(t).send_inflight /\ ~ RollBack(t).send_inflight
         /\ ~ InitTx.send_inflight /\ InitTx.txq = <<>>
<1>1. /\ t.txq \in Seq(OwnedBuf(Conns)) /\ t.tx_inflight \in Seq(OwnedBuf(Conns))
      /\ <<>> \in Seq(OwnedBuf(Conns))
  BY DEF TxState
<1>2. t.tx_inflight \o t.txq \in Seq(OwnedBuf(Conns))
  BY <1>1
<1> QED  BY <1>1, <1>2 DEF Completed, RollBack, TxState, InitTx

-----------------------------------------------------------------------------
(* The handlers.                                                           *)

(* The handler takes the completion at the head of cq.                     *)
Taking ==
  /\ cq # <<>> /\ Cqe1 \in Answers /\ Cqe1 \in Members(cq)
  /\ cq' = Tail(cq)
  /\ UNCHANGED << running, ops, kernelVars, historyVars, bounds >>

(* It queues the requests new, and the tags that tasks find are recorded.  *)
Queues(new) ==
  /\ new \in Seq(Sqes) /\ InSlots(new) \in Seq(Sqes)
  /\ sq' = sq \o InSlots(new)
  /\ slots' \in Seq(StaleTags) /\ Len(slots') = SQ_ENTRIES
  /\ \A r \in Members(InSlots(new)) : r.kind # "task" => r \in Members(new)
  /\ \A S : Blind(S) => Count(InSlots(new), S) = Count(new, S)
  /\ carried \subseteq carried' /\ carried' \subseteq StaleTags
  /\ \A r \in Members(InSlots(new)) : r.kind = "task" => r.stale \in carried'

(* It makes c of the storage the completion names, and all it queues is    *)
(* for the descriptor of that storage.                                     *)
Updates(c, new) ==
  /\ Taking /\ Queues(new)
  /\ fd1 \in DOMAIN table /\ fd1 \in Fds /\ c1 \in PerClientStorage
  /\ table' = [ table EXCEPT ![fd1] = c ]
  /\ c \in PerClientStorage /\ c.conn = c1.conn
  /\ c1.closing => c.closing
  /\ \A r \in Members(new) : r.kind \notin { "accept", "provide" } => r.fd = fd1

(* A handler takes a completion of its own op.                             *)
LEMMA TakingFacts ==
  ASSUME Types, NEW op, Dispatch(op)
  PROVE  Taking /\ Cqe1.tag.op = op /\ Cqe1.tag \in Tags /\ Cqe1.conn \in 0 .. FOREIGN
<1>1. cq \in Seq(Answers) /\ cq # <<>>
  BY DEF Types, Sequences, Dispatch
<1>2. Cqe1 \in Answers /\ Cqe1 \in Members(cq)
  BY <1>1, MembersTail DEF Cqe1
<1>3. Cqe1 \in CqesOf(Tags)
  BY <1>2 DEF Answers
<1>4. Cqe1.tag \in Tags /\ Cqe1.conn \in 0 .. FOREIGN
  BY <1>3 DEF CqesOf
<1> QED  BY <1>1, <1>2, <1>4 DEF Taking, Dispatch

(* What Queue does to the requests,                                        *)
LEMMA QueuesNew ==
  ASSUME Types, NEW new \in Seq(Sqes), Queue(new)
  PROVE  Queues(new)
<1>1. /\ InSlots(new) \in Seq(Sqes) /\ sq' = sq \o InSlots(new)
      /\ SQ_ENTRIES # 0 => Len(new) <= SQ_ENTRIES
      /\ slots' \in Seq(StaleTags) /\ Len(slots') = SQ_ENTRIES
  BY QueueTyped
<1>2. /\ \A r \in Members(InSlots(new)) : r.kind # "task" => r \in Members(new)
      /\ \A S : Blind(S) => Count(InSlots(new), S) = Count(new, S)
  BY <1>1, InSlotsTyped
<1>3. /\ carried \subseteq carried' /\ carried' \subseteq StaleTags
      /\ \A r \in Members(InSlots(new)) : r.kind = "task" => r.stale \in carried'
  BY QueueCarries
<1> QED  BY <1>1, <1>2, <1>3 DEF Queues

(* also when a handler queues none.                                        *)
LEMMA QueuesNothing ==
  ASSUME Types, UNCHANGED << sq, slots, carried >>
  PROVE  Queues(<<>>)
<1>1. InSlots(<<>>) = <<>>
  BY DEF InSlots
<1>2. sq \in Seq(Sqes) /\ slots \in Seq(StaleTags) /\ Len(slots) = SQ_ENTRIES
      /\ carried \subseteq StaleTags
  BY DEF Types, Sequences
<1>3. sq = sq \o <<>> /\ <<>> \in Seq(Sqes)
  BY <1>2
<1>4. Members(<<>>) = {}
  BY MembersOne
<1> QED  BY <1>1, <1>2, <1>3, <1>4 DEF Queues

(* What the completion at the head is known to carry.                      *)
LEMMA AnswerFacts ==
  ASSUME NEW c \in Answers
  PROVE  /\ c.tag \in Tags /\ c.res \in Int /\ c.conn \in 0 .. FOREIGN
         /\ c.at \in Nat /\ c.more \in BOOLEAN /\ c.buffer \in BOOLEAN
         /\ c.tag.op \in { "Accept", "Recv" } /\ c.res > 0 => c.conn \in Conns
         /\ c.tag.op = "Accept" /\ c.res > 0 => c.res \in Fds
         /\ c.tag.op = "GenerateResponse" => c.conn \in Conns
         /\ c.more => c.res > 0
         /\ c.buffer => c.res > 0 /\ c.tag.op = "Recv"
         /\ c.tag.op \in Shown
BY DEF Answers, CqesOf

(* What Update does to the storage of the completion.                      *)
LEMMA UpdatesNew ==
  ASSUME Types, NEW op, DispatchTo(op), NEW r, Update(r),
         r.c \in PerClientStorage, r.sqes \in Seq(Sqes),
         r.c.conn = c1.conn, c1.closing => r.c.closing,
         \A q \in Members(r.sqes) : q.kind \notin { "accept", "provide" } => q.fd = fd1
  PROVE  Updates(r.c, r.sqes) /\ Cqe1.tag.op = op
<1>1. Dispatch(op) /\ fd1 \in DOMAIN table
  BY DEF DispatchTo
<1>2. Taking /\ Cqe1.tag.op = op
  BY <1>1, TakingFacts
<1>3. Queues(r.sqes) /\ table' = [ table EXCEPT ![fd1] = r.c ]
  BY QueuesNew DEF Update
<1>4. fd1 \in Fds /\ c1 \in PerClientStorage
  BY <1>1 DEF Types, c1
<1> QED  BY <1>1, <1>2, <1>3, <1>4 DEF Updates

(* The handler of a receive that failed: receive singly after EINVAL, else *)
(* close.                                                                  *)
LEMMA RecvFailedFacts ==
  ASSUME Types, HandleRecvFailed
  PROVE  /\ Cqe1.tag.op = "Recv" /\ Cqe1.res <= 0
         /\ UNCHANGED << use_ms_accept, ms_accept_armed, have_buf_pool >>
         /\ \/ /\ Cqe1.res = EINVAL /\ use_ms_recv' = FALSE
               /\ \E c, new :
                    /\ Updates(c, new)
                    /\ new = <<>> \/ new = << RecvOf(fd1, FALSE) >>
                    /\ ~ c1.closing => new = << RecvOf(fd1, FALSE) >> /\ c.rx_hold
                    /\ c.closing = c1.closing /\ c.tx = c1.tx
                    /\ c.pollout_armed = c1.pollout_armed
            \/ /\ Cqe1.res # EINVAL /\ UNCHANGED use_ms_recv
               /\ \E c :
                    /\ Updates(c, << CloseOf(fd1, Cqe1.conn) >>)
                    /\ c.closing /\ c.tx = c1.tx /\ c.pollout_armed = c1.pollout_armed
<1> DEFINE d == [ c1 EXCEPT !.ms_recv_armed = FALSE ]
<1>1. DispatchTo("Recv") /\ Cqe1.res <= 0
  BY DEF HandleRecvFailed
<1>2. fd1 \in Fds /\ c1 \in PerClientStorage /\ Cqe1.tag.op = "Recv" /\ Cqe1.conn \in 0 .. FOREIGN
  BY <1>1, TakingFacts DEF DispatchTo, Types, c1
<1>3. /\ d \in PerClientStorage /\ d.conn = c1.conn /\ d.closing = c1.closing
      /\ d.tx = c1.tx /\ d.pollout_armed = c1.pollout_armed
  BY <1>2 DEF PerClientStorage
<1>4. UNCHANGED << use_ms_accept, ms_accept_armed, have_buf_pool >>
  BY DEF HandleRecvFailed
<1>5. CASE Cqe1.res = EINVAL
  <2> DEFINE r == StartRecvUnlessClosing(fd1, d, FALSE)
  <2>1. use_ms_recv' = FALSE /\ Update(r)
    BY <1>5 DEF HandleRecvFailed
  <2> DEFINE no == FALSE
  <2>s. r = StartRecvUnlessClosing(fd1, d, no) /\ no \in BOOLEAN /\ ~ no
    OBVIOUS
  <2> HIDE DEF d, r, no
  <2>2. /\ r.c \in PerClientStorage /\ r.sqes \in Seq(Sqes)
        /\ r.sqes = <<>> \/ r.sqes = << RecvOf(fd1, no) >>
        /\ r.c.closing = d.closing /\ r.c.tx = d.tx /\ r.c.conn = d.conn
        /\ r.c.pollout_armed = d.pollout_armed
        /\ ~ d.closing => r.sqes = << RecvOf(fd1, no) >> /\ r.c.rx_hold
        /\ \A q \in Members(r.sqes) : q.kind = "recv" /\ q.fd = fd1
    BY <1>2, <1>3, <2>s, StartRecvUnlessClosingTyped
  <2>4. Updates(r.c, r.sqes)
    BY <1>1, <1>3, <2>1, <2>2, UpdatesNew
  <2> QED  BY <1>1, <1>2, <1>3, <1>4, <1>5, <2>1, <2>2, <2>4 DEF no
<1>6. CASE Cqe1.res # EINVAL
  <2> DEFINE e == [ d EXCEPT !.closing = TRUE ]
             r == [ c |-> e, sqes |-> << CloseOf(fd1, Cqe1.conn) >> ]
  <2>1. UNCHANGED use_ms_recv /\ Update(r)
    BY <1>6 DEF HandleRecvFailed
  <2>2. /\ e \in PerClientStorage /\ e.conn = c1.conn /\ e.closing = TRUE
        /\ e.tx = c1.tx /\ e.pollout_armed = c1.pollout_armed
    BY <1>2 DEF PerClientStorage
  <2> HIDE DEF e
  <2>3. CloseOf(fd1, Cqe1.conn) \in Sqes
    BY <1>2, CloseTyped
  <2>4. r.c = e /\ r.sqes = << CloseOf(fd1, Cqe1.conn) >> /\ r.sqes \in Seq(Sqes)
    BY <2>3, OneInSeq
  <2>5. \A q \in Members(r.sqes) : q.kind \notin { "accept", "provide" } => q.fd = fd1
    BY <2>4, MembersOne, Made
  <2> HIDE DEF r
  <2>6. Updates(r.c, r.sqes)
    BY <1>1, <2>1, <2>2, <2>4, <2>5, UpdatesNew
  <2> QED  BY <1>1, <1>2, <1>4, <1>6, <2>1, <2>2, <2>4, <2>6
<1> QED  BY <1>5, <1>6

(* The storage of fd1, changed and kicked.                                 *)
LEMMA KickUpdates ==
  ASSUME Types, NEW op, DispatchTo(op), NEW d \in PerClientStorage,
         d.conn = c1.conn, d.closing = c1.closing, Update(Kick(fd1, d))
  PROVE  /\ Cqe1.tag.op = op
         /\ \E c, new : /\ Updates(c, new) /\ Kicked(fd1, d.tx, c.tx, new)
                        /\ c.closing = c1.closing /\ c.rx_hold = d.rx_hold
                        /\ c.pollout_armed = d.pollout_armed
                        /\ \A q \in Members(new) : q.kind = "send"
<1> DEFINE r == Kick(fd1, d)
<1>1. fd1 \in Fds
  BY DEF DispatchTo, Types
<1>2. r = Kick(fd1, d) /\ Update(r)
  OBVIOUS
<1> HIDE DEF r
<1>3. /\ r.c \in PerClientStorage /\ r.sqes \in Seq(Sqes)
      /\ r.c.closing = d.closing /\ r.c.conn = d.conn /\ r.c.rx_hold = d.rx_hold
      /\ r.c.pollout_armed = d.pollout_armed
      /\ Kicked(fd1, d.tx, r.c.tx, r.sqes)
      /\ \A q \in Members(r.sqes) : q.kind = "send" /\ q.fd = fd1
  BY <1>1, <1>2, KickTyped
<1>4. Updates(r.c, r.sqes) /\ Cqe1.tag.op = op
  BY <1>2, <1>3, UpdatesNew
<1> QED  BY <1>3, <1>4

(* A handler that finds a storage finds a typed one.                       *)
LEMMA C1Typed ==
  ASSUME Types, NEW op, DispatchTo(op)
  PROVE  /\ fd1 \in Fds /\ fd1 \in DOMAIN table /\ c1 \in PerClientStorage
         /\ c1.tx \in TxState(Conns) /\ Cqe1.tag.op = op /\ Cqe1.conn \in 0 .. FOREIGN
         /\ Taking
<1>1. Dispatch(op) /\ fd1 \in DOMAIN table
  BY DEF DispatchTo
<1>2. fd1 \in Fds /\ c1 \in PerClientStorage
  BY <1>1 DEF Types, c1
<1> QED  BY <1>1, <1>2, TakingFacts DEF PerClientStorage

(* The handler of a sendmsg that completed: kick what is queued.           *)
LEMMA SendCompletedFacts ==
  ASSUME Types, HandleSendCompleted
  PROVE  /\ Cqe1.tag.op = "Send" /\ UNCHANGED flags
         /\ \E c, new : /\ Updates(c, new) /\ Kicked(fd1, Completed(c1.tx), c.tx, new)
                        /\ c.closing = c1.closing /\ c.rx_hold = c1.rx_hold
                        /\ c.pollout_armed = c1.pollout_armed
                        /\ \A q \in Members(new) : q.kind = "send"
<1> DEFINE d == [ c1 EXCEPT !.tx = Completed(@) ]
<1>1. DispatchTo("Send") /\ Update(Kick(fd1, d)) /\ UNCHANGED flags
  BY DEF HandleSendCompleted
<1>2. c1 \in PerClientStorage /\ c1.tx \in TxState(Conns)
  BY <1>1, C1Typed
<1>3. Completed(c1.tx) \in TxState(Conns)
  BY <1>2, TxTyped
<1>4. /\ d \in PerClientStorage /\ d.conn = c1.conn /\ d.closing = c1.closing
      /\ d.tx = Completed(c1.tx) /\ d.rx_hold = c1.rx_hold
      /\ d.pollout_armed = c1.pollout_armed
  BY <1>2, <1>3 DEF PerClientStorage
<1> HIDE DEF d
<1> QED  BY <1>1, <1>4, KickUpdates

(* The handler of a poll: the flag is cleared, and what is queued is       *)
(* kicked.                                                                 *)
LEMMA PollOutFacts ==
  ASSUME Types, HandlePollOut
  PROVE  /\ Cqe1.tag.op = "PollOut" /\ UNCHANGED flags
         /\ \E c, new : /\ Updates(c, new) /\ Kicked(fd1, c1.tx, c.tx, new)
                        /\ c.closing = c1.closing /\ c.rx_hold = c1.rx_hold
                        /\ ~ c.pollout_armed
                        /\ \A q \in Members(new) : q.kind = "send"
<1> DEFINE d == [ c1 EXCEPT !.pollout_armed = FALSE ]
<1>1. DispatchTo("PollOut") /\ Update(Kick(fd1, d)) /\ UNCHANGED flags
  BY DEF HandlePollOut
<1>2. c1 \in PerClientStorage
  BY <1>1, C1Typed
<1>3. /\ d \in PerClientStorage /\ d.conn = c1.conn /\ d.closing = c1.closing
      /\ d.tx = c1.tx /\ d.rx_hold = c1.rx_hold /\ d.pollout_armed = FALSE
  BY <1>2 DEF PerClientStorage
<1> HIDE DEF d
<1> QED  BY <1>1, <1>3, KickUpdates

(* The handler of a flush kicks what is queued.                            *)
LEMMA RequestFlushFacts ==
  ASSUME Types, HandleRequestFlush
  PROVE  /\ Cqe1.tag.op = "RequestFlush" /\ UNCHANGED flags
         /\ \E c, new : /\ Updates(c, new) /\ Kicked(fd1, c1.tx, c.tx, new)
                        /\ c.closing = c1.closing /\ c.rx_hold = c1.rx_hold
                        /\ c.pollout_armed = c1.pollout_armed
                        /\ \A q \in Members(new) : q.kind = "send"
<1>1. DispatchTo("RequestFlush") /\ Update(Kick(fd1, c1)) /\ UNCHANGED flags
  BY DEF HandleRequestFlush
<1>2. c1 \in PerClientStorage
  BY <1>1, C1Typed
<1> QED  BY <1>1, <1>2, KickUpdates

(* The handler of EAGAIN: the buffers go back, and a poll is armed.        *)
LEMMA SendAgainFacts ==
  ASSUME Types, HandleSendAgain
  PROVE  /\ Cqe1.tag.op = "Send" /\ UNCHANGED flags
         /\ \E c, new : /\ Updates(c, new) /\ c.tx = RollBack(c1.tx)
                        /\ c.closing = c1.closing /\ c.rx_hold = c1.rx_hold
                        /\ c.pollout_armed
                        /\ \/ c1.pollout_armed /\ new = <<>>
                           \/ ~ c1.pollout_armed /\ new = << PollOf(fd1) >>
<1> DEFINE d == [ c1 EXCEPT !.tx = RollBack(@) ]
           r == UpdatePollout(fd1, d)
<1>1. DispatchTo("Send") /\ Update(r) /\ UNCHANGED flags
  BY DEF HandleSendAgain
<1>2. fd1 \in Fds /\ c1 \in PerClientStorage /\ c1.tx \in TxState(Conns)
  BY <1>1, C1Typed
<1>3. RollBack(c1.tx) \in TxState(Conns)
  BY <1>2, TxTyped
<1>4. /\ d \in PerClientStorage /\ d.conn = c1.conn /\ d.closing = c1.closing
      /\ d.tx = RollBack(c1.tx) /\ d.rx_hold = c1.rx_hold
      /\ d.pollout_armed = c1.pollout_armed
  BY <1>2, <1>3 DEF PerClientStorage
<1>5. r = UpdatePollout(fd1, d)
  OBVIOUS
<1> HIDE DEF d, r
<1>6. /\ r.c \in PerClientStorage /\ r.sqes \in Seq(Sqes)
      /\ r.c.closing = d.closing /\ r.c.conn = d.conn /\ r.c.tx = d.tx
      /\ r.c.rx_hold = d.rx_hold /\ r.c.pollout_armed
      /\ \/ d.pollout_armed /\ r.sqes = <<>>
         \/ ~ d.pollout_armed /\ r.sqes = << PollOf(fd1) >>
      /\ \A q \in Members(r.sqes) : q.kind = "poll" /\ q.fd = fd1
  BY <1>2, <1>4, <1>5, UpdatePolloutTyped
<1>7. Updates(r.c, r.sqes) /\ Cqe1.tag.op = "Send"
  BY <1>1, <1>4, <1>6, UpdatesNew
<1> QED  BY <1>1, <1>4, <1>6, <1>7

(* The storage of fd1 is marked closing, and its descriptor closed.        *)
LEMMA CloseUpdates ==
  ASSUME Types, NEW op, DispatchTo(op),
         Update([ c    |-> [ c1 EXCEPT !.closing = TRUE ],
                  sqes |-> << CloseOf(fd1, Cqe1.conn) >> ])
  PROVE  /\ Cqe1.tag.op = op
         /\ \E c : /\ Updates(c, << CloseOf(fd1, Cqe1.conn) >>)
                   /\ c.closing /\ c.tx = c1.tx /\ c.rx_hold = c1.rx_hold
                   /\ c.pollout_armed = c1.pollout_armed
<1> DEFINE d == [ c1 EXCEPT !.closing = TRUE ]
           r == [ c |-> d, sqes |-> << CloseOf(fd1, Cqe1.conn) >> ]
<1>1. fd1 \in Fds /\ c1 \in PerClientStorage /\ Cqe1.conn \in 0 .. FOREIGN
  BY C1Typed
<1>2. /\ d \in PerClientStorage /\ d.conn = c1.conn /\ d.closing = TRUE
      /\ d.tx = c1.tx /\ d.rx_hold = c1.rx_hold /\ d.pollout_armed = c1.pollout_armed
  BY <1>1 DEF PerClientStorage
<1>3. Update(r) /\ r.c = d /\ r.sqes = << CloseOf(fd1, Cqe1.conn) >>
  OBVIOUS
<1>4. CloseOf(fd1, Cqe1.conn) \in Sqes
  BY <1>1, CloseTyped
<1> HIDE DEF d, r
<1>5. r.sqes \in Seq(Sqes)
  BY <1>3, <1>4, OneInSeq
<1>6. \A q \in Members(r.sqes) : q.kind \notin { "accept", "provide" } => q.fd = fd1
  BY <1>3, MembersMade, Made
<1>7. Updates(r.c, r.sqes) /\ Cqe1.tag.op = op
  BY <1>2, <1>3, <1>5, <1>6, UpdatesNew
<1> QED  BY <1>2, <1>3, <1>7

(* The handler of a sendmsg that failed closes.                            *)
LEMMA SendFailedFacts ==
  ASSUME Types, HandleSendFailed
  PROVE  /\ Cqe1.tag.op = "Send" /\ UNCHANGED flags
         /\ \E c : /\ Updates(c, << CloseOf(fd1, Cqe1.conn) >>)
                   /\ c.closing /\ c.tx = c1.tx /\ c.rx_hold = c1.rx_hold
                   /\ c.pollout_armed = c1.pollout_armed
BY CloseUpdates DEF HandleSendFailed

(* FindHandler changes nothing that is sent or received.                   *)
LEMMA FindHandlerFacts ==
  ASSUME Types, HandleFindHandler
  PROVE  /\ Cqe1.tag.op = "FindHandler" /\ UNCHANGED flags
         /\ \E c : /\ Updates(c, <<>>)
                   /\ c.closing = c1.closing /\ c.tx = c1.tx /\ c.rx_hold = c1.rx_hold
                   /\ c.pollout_armed = c1.pollout_armed
<1> DEFINE d == [ c1 EXCEPT !.request_handler = @ \/ c1.conn \in ROUTED ]
           r == [ c |-> d, sqes |-> <<>> ]
<1>1. DispatchTo("FindHandler") /\ Update(r) /\ UNCHANGED flags
  BY DEF HandleFindHandler
<1>2. c1 \in PerClientStorage
  BY <1>1, C1Typed
<1>3. /\ d \in PerClientStorage /\ d.conn = c1.conn /\ d.closing = c1.closing
      /\ d.tx = c1.tx /\ d.rx_hold = c1.rx_hold /\ d.pollout_armed = c1.pollout_armed
  BY <1>2 DEF PerClientStorage
<1>4. r.c = d /\ r.sqes = <<>>
  OBVIOUS
<1> HIDE DEF d, r
<1>5. r.sqes \in Seq(Sqes) /\ Members(r.sqes) = {}
  BY <1>4, OneInSeq, MembersOne
<1>6. Updates(r.c, r.sqes) /\ Cqe1.tag.op = "FindHandler"
  BY <1>1, <1>3, <1>4, <1>5, UpdatesNew
<1> QED  BY <1>1, <1>3, <1>4, <1>6

(* GenerateResponse queues a flush behind its buffers, or does nothing.    *)
LEMMA GenerateResponseFacts ==
  ASSUME Types, HandleGenerateResponse
  PROVE  /\ Cqe1.tag.op = "GenerateResponse" /\ UNCHANGED flags
         /\ \/ UNCHANGED table /\ Taking /\ Queues(<<>>)
            \/ \E c : /\ Updates(c, << TaskSqe(fd1, "RequestFlush", Cqe1.conn) >>)
                      /\ TaskSqe(fd1, "RequestFlush", Cqe1.conn) \in Sqes
                      /\ c.closing = c1.closing /\ c.rx_hold = c1.rx_hold
                      /\ c.pollout_armed = c1.pollout_armed
                      /\ c.tx.send_inflight = c1.tx.send_inflight
                      /\ c.tx.tx_inflight = c1.tx.tx_inflight
<1>1. DispatchTo("GenerateResponse") /\ UNCHANGED flags
  BY DEF HandleGenerateResponse
<1>2. /\ fd1 \in Fds /\ c1 \in PerClientStorage /\ c1.tx \in TxState(Conns)
      /\ Cqe1.tag.op = "GenerateResponse" /\ Taking
  BY <1>1, C1Typed
<1>3. Cqe1.conn \in Conns
  BY <1>2, AnswerFacts DEF Taking
<1>4. CASE UNCHANGED << table, sq, slots, carried >>
  BY <1>1, <1>2, <1>4, QueuesNothing
<1> DEFINE d == [ c1 EXCEPT !.tx.txq = @ \o Response(Cqe1.conn) ]
           task == TaskSqe(fd1, "RequestFlush", Cqe1.conn)
           r == [ c |-> d, sqes |-> << task >> ]
<1>5. CASE Update(r)
  <2>1. Response(Cqe1.conn) \in Seq(Bufs)
    <3>1. [ seg |-> Cqe1.conn, eor |-> FALSE ] \in Bufs
      BY <1>3 DEF Bufs, OwnedBuf
    <3>2. RESPONSE_LEN \in Nat
      BY Constants
    <3> QED  BY <3>1, <3>2 DEF Response
  <2> DEFINE q == c1.tx.txq \o Response(Cqe1.conn)
             t == [ c1.tx EXCEPT !.txq = q ]
  <2>2. q \in Seq(Bufs)
    BY <1>2, <2>1 DEF TxState, Bufs
  <2> HIDE DEF q
  <2>3. /\ t \in TxState(Conns) /\ t.send_inflight = c1.tx.send_inflight
        /\ t.tx_inflight = c1.tx.tx_inflight
    BY <1>2, <2>2 DEF TxState, Bufs
  <2>4. d = [ c1 EXCEPT !.tx = t ]
    BY <1>2 DEF q, PerClientStorage
  <2> HIDE DEF t, d
  <2>5. /\ d \in PerClientStorage /\ d.conn = c1.conn /\ d.closing = c1.closing
        /\ d.tx = t /\ d.rx_hold = c1.rx_hold /\ d.pollout_armed = c1.pollout_armed
    BY <1>2, <2>3, <2>4 DEF PerClientStorage
  <2>6. r.c = d /\ r.sqes = << task >>
    OBVIOUS
  <2>7. task \in Sqes
    BY <1>2, <1>3, TaskTyped
  <2>8. task.fd = fd1
    BY Made
  <2> HIDE DEF r, task
  <2>9. r.sqes \in Seq(Sqes) /\ Members(r.sqes) = { task }
    BY <2>6, <2>7, OneInSeq, MembersOne
  <2>10. Updates(r.c, r.sqes)
    BY <1>1, <1>5, <2>5, <2>6, <2>8, <2>9, UpdatesNew
  <2>11. Updates(d, << task >>) /\ d.tx.send_inflight = c1.tx.send_inflight
         /\ d.tx.tx_inflight = c1.tx.tx_inflight
    BY <2>3, <2>5, <2>6, <2>10
  <2> QED  BY <1>1, <1>2, <2>5, <2>7, <2>11 DEF task
<1> QED  BY <1>4, <1>5 DEF HandleGenerateResponse

(* A completion without effect is taken all the same.                      *)
LEMMA NothingFacts ==
  ASSUME Types, HandleNothing
  PROVE  /\ Taking /\ Queues(<<>>) /\ UNCHANGED << table, flags >>
         /\ Cqe1.tag.op # "Accept" /\ HasNoEffect(Cqe1.tag.op)
<1>1. PICK op \in DOMAIN Workflow \ { "Accept" } : Dispatch(op) /\ HasNoEffect(op)
  BY DEF HandleNothing
<1>2. UNCHANGED << table, flags, slots, carried, sq >>
  BY DEF HandleNothing, loopVars
<1> QED  BY <1>1, <1>2, TakingFacts, QueuesNothing

(* The handler of an accept that failed posts another, unless one is armed.*)
LEMMA AcceptFailedFacts ==
  ASSUME Types, HandleAcceptFailed
  PROVE  /\ Cqe1.tag.op = "Accept" /\ Cqe1.res <= 0 /\ Taking
         /\ UNCHANGED << table, use_ms_recv, have_buf_pool >>
         /\ use_ms_accept' \in BOOLEAN /\ ms_accept_armed' \in BOOLEAN
         /\ \E new : /\ Queues(new)
                     /\ \/ new = <<>> /\ Cqe1.res # EINVAL
                        \/ \E multi \in BOOLEAN : new = << AcceptOf(multi) >>
<1> DEFINE ms == use_ms_accept /\ Cqe1.res # EINVAL
           armed == ms_accept_armed /\ Cqe1.res # EINVAL
           new == PostAccept(ms, armed)
<1>1. Dispatch("Accept") /\ Cqe1.res <= 0 /\ Queue(new)
      /\ UNCHANGED << table, use_ms_recv, have_buf_pool >>
  BY DEF HandleAcceptFailed
<1>2. use_ms_accept' \in BOOLEAN /\ ms_accept_armed' \in BOOLEAN
  BY DEF HandleAcceptFailed, Types
<1>3. ms => Cqe1.res # EINVAL
  OBVIOUS
<1>4. new = PostAccept(ms, armed)
  OBVIOUS
<1> HIDE DEF ms, armed, new
<1>5. /\ new \in Seq(Sqes)
      /\ \/ new = <<>> /\ ms
         \/ \E multi \in BOOLEAN : new = << AcceptOf(multi) >>
  BY <1>4, PostAcceptTyped
<1>6. Queues(new)
  BY <1>1, <1>5, QueuesNew
<1> QED  BY <1>1, <1>2, <1>3, <1>5, <1>6, TakingFacts

(* A connection was accepted: a storage for its descriptor, and a receive  *)
(* on it, unless the table has one of that descriptor.                     *)
LEMMA AcceptedFacts ==
  ASSUME Types, HandleAccepted
  PROVE  /\ Cqe1.tag.op = "Accept" /\ Cqe1.res > 0 /\ Cqe1.res \in Fds /\ Taking
         /\ Cqe1.conn \in Conns
         /\ UNCHANGED << use_ms_accept, use_ms_recv, have_buf_pool >>
         /\ ms_accept_armed' \in BOOLEAN
         /\ \E recv, acc, multi :
              /\ Queues(recv \o acc) /\ recv \in Seq(Sqes) /\ acc \in Seq(Sqes)
              /\ multi \in BOOLEAN
              /\ (acc = <<>> /\ Cqe1.more) \/ acc = << AcceptOf(multi) >>
              /\ \/ /\ Cqe1.res \notin DOMAIN table
                    /\ recv = << RecvOf(Cqe1.res, InPool) >>
                    /\ \E c \in PerClientStorage :
                         /\ table' = [ f \in DOMAIN table \cup { Cqe1.res } |->
                                         IF f = Cqe1.res THEN c ELSE table[f] ]
                         /\ c.conn = Cqe1.conn /\ ~ c.closing /\ c.tx = InitTx
                         /\ ~ c.pollout_armed /\ (~ InPool => c.rx_hold)
                 \/ /\ Cqe1.res \in DOMAIN table /\ UNCHANGED table
                    /\ recv = <<>> \/ recv = << RecvOf(Cqe1.res, InPool) >>
<1> DEFINE cfd == Cqe1.res
           fresh == FreshStorage(Cqe1.conn)
           pooled == InPool
           r == StartRecv(cfd, fresh, pooled)
<1>1. /\ Dispatch("Accept") /\ cfd > 0
      /\ UNCHANGED << use_ms_accept, use_ms_recv, have_buf_pool >>
      /\ \/ /\ cfd \notin DOMAIN table
            /\ table' = [ f \in DOMAIN table \cup { cfd } |->
                            IF f = cfd THEN r.c ELSE table[f] ]
            /\ Queue(r.sqes \o AcceptAgain)
         \/ /\ cfd \in DOMAIN table
            /\ \E sqes \in { <<>>, r.sqes } : Queue(sqes \o AcceptAgain)
            /\ UNCHANGED table
  BY DEF HandleAccepted
<1>2. ms_accept_armed' \in BOOLEAN
  BY DEF HandleAccepted, Types
<1>3. Cqe1.tag.op = "Accept" /\ Taking /\ cfd \in Fds /\ Cqe1.conn \in Conns
      /\ Cqe1.more \in BOOLEAN
  <2>1. Cqe1.tag.op = "Accept" /\ Taking
    BY <1>1, TakingFacts
  <2> QED  BY <1>1, <2>1, AnswerFacts DEF Taking
<1>4. /\ fresh \in PerClientStorage /\ fresh.conn = Cqe1.conn /\ fresh.tx = InitTx
      /\ ~ fresh.closing /\ ~ fresh.ms_recv_armed /\ ~ fresh.pollout_armed
  BY <1>3, FreshStorageTyped
<1>5. pooled \in BOOLEAN /\ (pooled <=> InPool)
  BY DEF InPool, Types
<1>6. r = StartRecv(cfd, fresh, pooled)
  OBVIOUS
<1>7. pooled = InPool
  OBVIOUS
<1>8. \E multi \in BOOLEAN : /\ AcceptAgain \in Seq(Sqes)
                             /\ \/ AcceptAgain = <<>> /\ Cqe1.more
                                \/ AcceptAgain = << AcceptOf(multi) >>
  <2>1. AcceptOf(TRUE) \in Sqes /\ AcceptOf(FALSE) \in Sqes
    BY AcceptTyped
  <2>2. << AcceptOf(TRUE) >> \in Seq(Sqes) /\ << AcceptOf(FALSE) >> \in Seq(Sqes)
    BY <2>1, OneInSeq, Zenon
  <2>3. \/ AcceptAgain = <<>> /\ Cqe1.more
        \/ AcceptAgain = << AcceptOf(TRUE) >>
        \/ AcceptAgain = << AcceptOf(FALSE) >>
    BY DEF AcceptAgain, PostAccept
  <2> QED  BY <2>2, <2>3, OneInSeq
<1> DEFINE acc == AcceptAgain
<1> HIDE DEF r, fresh, pooled, cfd
<1>9. /\ r.c \in PerClientStorage /\ r.sqes \in Seq(Sqes)
      /\ r.sqes = << RecvOf(cfd, pooled) >>
      /\ r.c.closing = fresh.closing /\ r.c.tx = fresh.tx /\ r.c.conn = fresh.conn
      /\ r.c.pollout_armed = fresh.pollout_armed
      /\ ~ pooled => r.c.rx_hold
  BY <1>3, <1>4, <1>5, <1>6, StartRecvTyped
<1>10. PICK multi \in BOOLEAN : /\ acc \in Seq(Sqes)
                                /\ (acc = <<>> /\ Cqe1.more) \/ acc = << AcceptOf(multi) >>
  BY <1>8
<1> HIDE DEF acc
<1>11. r.sqes \o acc \in Seq(Sqes) /\ <<>> \o acc \in Seq(Sqes) /\ <<>> \in Seq(Sqes)
  BY <1>9, <1>10, OneInSeq, MembersConcat
<1>12. CASE cfd \notin DOMAIN table
  <2>1. /\ table' = [ f \in DOMAIN table \cup { cfd } |->
                        IF f = cfd THEN r.c ELSE table[f] ]
        /\ Queues(r.sqes \o acc)
    BY <1>1, <1>11, <1>12, QueuesNew DEF acc
  <2> QED  BY <1>1, <1>2, <1>3, <1>4, <1>5, <1>7, <1>9, <1>10, <1>12, <2>1 DEF cfd
<1>13. CASE cfd \in DOMAIN table
  <2>1. PICK sqes \in { <<>>, r.sqes } : Queue(sqes \o acc)
    BY <1>1, <1>13 DEF acc
  <2>2. Queues(sqes \o acc) /\ sqes \in Seq(Sqes)
    BY <1>9, <1>11, <2>1, QueuesNew
  <2> QED  BY <1>1, <1>2, <1>3, <1>7, <1>9, <1>10, <1>13, <2>1, <2>2 DEF cfd
<1> QED  BY <1>12, <1>13

(* The tasks of a segment are typed, and an error posts RequestClose.      *)
LEMMA TasksTyped ==
  ASSUME fd1 \in Fds, Cqe1.conn \in Conns, NEW e \in Effects
  PROVE  /\ Tasks(e) \in Seq(Sqes)
         /\ \A q \in Members(Tasks(e)) : q.kind = "task" /\ q.fd = fd1 /\ q.task \in ParseTasks
         /\ e.to = "error" => TaskSqe(fd1, "RequestClose", Cqe1.conn) \in Members(Tasks(e))
<1>1. /\ e.posts \in { <<>>, << "RequestClose" >>, << "FindHandler" >>,
                       << "FindHandler", "GenerateResponse" >> }
      /\ e.posts \in Posts(e.from, e.to)
  BY DEF Effects
<1>2. Len(e.posts) \in Nat /\ \A i \in 1 .. Len(e.posts) : e.posts[i] \in ParseTasks
  BY <1>1 DEF ParseTasks
<1>3. e.to = "error" => e.posts = << "RequestClose" >>
  BY <1>1 DEF Posts
<1> DEFINE task(i) == TaskSqe(fd1, e.posts[i], Cqe1.conn)
<1>4. \A i \in 1 .. Len(e.posts) : task(i) \in Sqes
  BY <1>2, TaskTyped
<1>5. \A i \in 1 .. Len(e.posts) :
        task(i).kind = "task" /\ task(i).fd = fd1 /\ task(i).task \in ParseTasks
  BY <1>2, Made
<1>6. Tasks(e) = [ i \in 1 .. Len(e.posts) |-> task(i) ]
  BY DEF Tasks
<1>7. e.to = "error" => Len(e.posts) = 1 /\ task(1) = TaskSqe(fd1, "RequestClose", Cqe1.conn)
  BY <1>3
<1> HIDE DEF task
<1>8. Tasks(e) \in Seq(Sqes) /\ Len(Tasks(e)) = Len(e.posts)
  BY <1>2, <1>4, <1>6
<1>9. \A i \in 1 .. Len(Tasks(e)) : Tasks(e)[i] = task(i)
  BY <1>6, <1>8
<1>10. \A q \in Members(Tasks(e)) : \E i \in 1 .. Len(e.posts) : q = task(i)
  BY <1>8, <1>9 DEF Members
<1>11. ASSUME e.to = "error"
       PROVE  task(1) \in Members(Tasks(e))
  <2>1. 1 \in 1 .. Len(Tasks(e))
    <3>1. Len(Tasks(e)) = 1
      BY <1>7, <1>8, <1>11, Zenon
    <3> QED  BY <3>1
  <2>2. Tasks(e)[1] = task(1)
    BY <1>9, <2>1
  <2> QED  BY <2>1, <2>2 DEF Members
<1> QED  BY <1>5, <1>7, <1>8, <1>10, <1>11

(* The storage p, parsed into, is kicked and receives again.               *)
RecvDataStep(p, kick, again, back, posted, r) ==
  /\ p \in PerClientStorage /\ p.conn = c1.conn /\ p.tx = c1.tx
  /\ p.pollout_armed = c1.pollout_armed /\ (c1.closing => p.closing)
  /\ kick = Kick(fd1, p)
  /\ again.c \in PerClientStorage /\ again.sqes \in Seq(Sqes)
  /\ again.c.closing = kick.c.closing /\ again.c.tx = kick.c.tx
  /\ again.c.conn = kick.c.conn /\ again.c.pollout_armed = kick.c.pollout_armed
  /\ \A q \in Members(again.sqes) : q.fd = fd1
  /\ back \in Seq(Sqes) /\ \A q \in Members(back) : q.kind = "provide"
  /\ posted \in Seq(Sqes) /\ \A q \in Members(posted) : q.fd = fd1
  /\ r.c = again.c /\ r.sqes = back \o posted \o kick.sqes \o again.sqes
  /\ Update(r)

(* What the parts of the handler of a segment come to.                     *)
LEMMA RecvDataParts ==
  ASSUME Types, DispatchTo("Recv"), NEW p, NEW kick, NEW again, NEW back,
         NEW posted, NEW r, RecvDataStep(p, kick, again, back, posted, r)
  PROVE  /\ Updates(again.c, back \o posted \o kick.sqes \o again.sqes)
         /\ kick.sqes \in Seq(Sqes)
         /\ \A q \in Members(kick.sqes) : q.kind = "send" /\ q.fd = fd1
         /\ Kicked(fd1, c1.tx, again.c.tx, kick.sqes)
         /\ again.c.pollout_armed = c1.pollout_armed
         /\ again.c.closing = p.closing
<1> USE DEF RecvDataStep
<1>1. fd1 \in Fds
  BY C1Typed
<1>2. /\ kick.c \in PerClientStorage /\ kick.sqes \in Seq(Sqes)
      /\ kick.c.closing = p.closing /\ kick.c.conn = p.conn
      /\ kick.c.pollout_armed = p.pollout_armed
      /\ Kicked(fd1, p.tx, kick.c.tx, kick.sqes)
      /\ \A q \in Members(kick.sqes) : q.kind = "send" /\ q.fd = fd1
  BY <1>1, KickTyped
<1>3. /\ r.sqes \in Seq(Sqes)
      /\ Members(r.sqes) = Members(back) \cup Members(posted) \cup Members(kick.sqes)
                              \cup Members(again.sqes)
  BY <1>2, FourParts
<1>4. \A q \in Members(r.sqes) : q.kind \notin { "accept", "provide" } => q.fd = fd1
  BY <1>2, <1>3
<1>5. r.c \in PerClientStorage /\ r.c.conn = c1.conn /\ (c1.closing => r.c.closing)
  BY <1>2
<1> DEFINE new == back \o posted \o kick.sqes \o again.sqes
<1>6. r.sqes = new
  OBVIOUS
<1> HIDE DEF new
<1>7. Updates(r.c, r.sqes)
  BY <1>3, <1>4, <1>5, UpdatesNew
<1>8. Updates(again.c, new)
  BY <1>6, <1>7
<1> QED  BY <1>2, <1>8 DEF new

(* A segment was parsed: back returns its buffer, posted are the tasks of  *)
(* the parser, kick may send and again receives the next segment.          *)
RecvDataUpdates(c, back, posted, kick, again) ==
  /\ Updates(c, back \o posted \o kick \o again)
  /\ back \in Seq(Sqes) /\ posted \in Seq(Sqes) /\ kick \in Seq(Sqes) /\ again \in Seq(Sqes)
  /\ \A q \in Members(posted) : q.kind = "task" /\ q.fd = fd1 /\ q.task \in ParseTasks
  /\ \A q \in Members(kick) : q.kind = "send" /\ q.fd = fd1
  /\ Kicked(fd1, c1.tx, c.tx, kick)
  /\ again = <<>> \/ again = << RecvOf(fd1, InPool) >>
  /\ c.pollout_armed = c1.pollout_armed
  /\ c.closing => c1.closing \/ TaskSqe(fd1, "RequestClose", Cqe1.conn) \in Members(posted)
  /\ ~ c.closing /\ ~ InPool => again = << RecvOf(fd1, InPool) >> /\ c.rx_hold
  /\ \/ /\ InPoolBuffer /\ back = << FreeBuffer >>
        /\ Cqe1.more => again = <<>>
        /\ ~ Cqe1.more /\ ~ c.closing => again = << RecvOf(fd1, InPool) >>
     \/ ~ InPoolBuffer /\ c1.rx_hold /\ back = <<>>

(* The handler of a segment, whichever buffer it came in.                  *)
LEMMA RecvDataFacts ==
  ASSUME Types, HandleRecvData
  PROVE  /\ Cqe1.tag.op = "Recv" /\ Cqe1.res > 0 /\ UNCHANGED flags
         /\ \E c, back, posted, kick, again : RecvDataUpdates(c, back, posted, kick, again)
<1> DEFINE pooled == InPool
<1>1. DispatchTo("Recv") /\ Cqe1.res > 0 /\ UNCHANGED flags
  BY DEF HandleRecvData
<1>2. /\ fd1 \in Fds /\ fd1 \in DOMAIN table /\ c1 \in PerClientStorage
      /\ Cqe1.tag.op = "Recv" /\ Taking
  BY <1>1, C1Typed
<1>3. Cqe1.conn \in Conns /\ Cqe1.more \in BOOLEAN
  BY <1>1, <1>2, AnswerFacts DEF Taking
<1>4. PICK e \in Effects :
        \/ /\ InPoolBuffer
           /\ LET kick == Kick(fd1, Parsed(c1, e))
                  again == RecvAgain(kick.c)
              IN  Update([ c    |-> again.c,
                           sqes |-> ReturnBuffer \o Tasks(e) \o kick.sqes \o again.sqes ])
        \/ /\ ~ InPoolBuffer /\ c1.rx_hold
           /\ LET kick == Kick(fd1, Parsed([ c1 EXCEPT !.rx_hold = FALSE ], e))
                  again == StartRecvUnlessClosing(fd1, kick.c, pooled)
              IN  Update([ c    |-> again.c,
                           sqes |-> Tasks(e) \o kick.sqes \o again.sqes ])
  BY DEF HandleRecvData
<1> DEFINE posted == Tasks(e)
<1>5. /\ posted \in Seq(Sqes)
      /\ \A q \in Members(posted) : q.kind = "task" /\ q.fd = fd1 /\ q.task \in ParseTasks
      /\ e.to = "error" => TaskSqe(fd1, "RequestClose", Cqe1.conn) \in Members(posted)
  BY <1>2, <1>3, TasksTyped
<1>6. ASSUME NEW b \in PerClientStorage
      PROVE  /\ Parsed(b, e) \in PerClientStorage /\ Parsed(b, e).conn = b.conn
             /\ Parsed(b, e).tx = b.tx /\ Parsed(b, e).pollout_armed = b.pollout_armed
             /\ Parsed(b, e).closing <=> (b.closing \/ e.to = "error")
  <2>1. e.to \in Phases
    BY DEF Effects
  <2> QED  BY <2>1 DEF Parsed, PerClientStorage
<1>7. pooled \in BOOLEAN
  BY DEF InPool, Types
<1>8. CASE /\ InPoolBuffer
           /\ LET kick == Kick(fd1, Parsed(c1, e))
                  again == RecvAgain(kick.c)
              IN  Update([ c    |-> again.c,
                           sqes |-> ReturnBuffer \o Tasks(e) \o kick.sqes \o again.sqes ])
  <2> DEFINE p == Parsed(c1, e)
             kick == Kick(fd1, p)
             again == RecvAgain(kick.c)
             back == << FreeBuffer >>
             r == [ c |-> again.c, sqes |-> back \o posted \o kick.sqes \o again.sqes ]
             d == [ kick.c EXCEPT !.ms_recv_armed = FALSE ]
  <2>1. Update(r) /\ r.c = again.c /\ r.sqes = back \o posted \o kick.sqes \o again.sqes
    BY <1>8 DEF ReturnBuffer
  <2>2. /\ p \in PerClientStorage /\ p.conn = c1.conn /\ p.tx = c1.tx
        /\ p.pollout_armed = c1.pollout_armed
        /\ p.closing <=> (c1.closing \/ e.to = "error")
    BY <1>2, <1>6
  <2>3. kick = Kick(fd1, p) /\ pooled = TRUE
    BY <1>8 DEF InPoolBuffer
  <2>4. /\ Cqe1.more => again = [ c |-> kick.c, sqes |-> <<>> ]
        /\ ~ Cqe1.more => again = StartRecvUnlessClosing(fd1, d, TRUE)
    BY <1>3 DEF RecvAgain
  <2>5. back \in Seq(Sqes) /\ Members(back) = { FreeBuffer } /\ back = << FreeBuffer >>
    BY FreeBufferTyped, OneInSeq, MembersOne
  <2>6. kick.c \in PerClientStorage /\ kick.c.closing = p.closing
    BY <1>2, <2>2, <2>3, KickTyped
  <2> HIDE DEF kick
  <2>7. /\ d \in PerClientStorage /\ d.conn = kick.c.conn /\ d.closing = kick.c.closing
        /\ d.tx = kick.c.tx /\ d.pollout_armed = kick.c.pollout_armed
        /\ d.ms_recv_armed = FALSE
    BY <2>6 DEF PerClientStorage
  <2> HIDE DEF pooled, posted, p, again, r, d, back
  <2>8. ~ Cqe1.more => again = StartRecvUnlessClosing(fd1, d, pooled)
    BY <2>3, <2>4
  <2>9. /\ again.c \in PerClientStorage /\ again.sqes \in Seq(Sqes)
        /\ again.c.closing = kick.c.closing /\ again.c.tx = kick.c.tx
        /\ again.c.conn = kick.c.conn /\ again.c.pollout_armed = kick.c.pollout_armed
        /\ \A q \in Members(again.sqes) : q.fd = fd1
        /\ again.sqes = <<>> \/ again.sqes = << RecvOf(fd1, pooled) >>
        /\ Cqe1.more => again.sqes = <<>>
        /\ ~ Cqe1.more /\ ~ again.c.closing => again.sqes = << RecvOf(fd1, pooled) >>
    <3>1. CASE Cqe1.more
      <4>1. again.c = kick.c /\ again.sqes = <<>>
        BY <2>4, <3>1
      <4> QED  BY <2>6, <3>1, <4>1, OneInSeq, MembersOne
    <3>2. CASE ~ Cqe1.more
      BY <1>2, <1>7, <2>7, <2>8, <3>2, StartRecvUnlessClosingTyped
    <3> QED  BY <3>1, <3>2
  <2>10. \A q \in Members(back) : q.kind = "provide"
    BY <2>5, Made
  <2>11. /\ Updates(again.c, back \o posted \o kick.sqes \o again.sqes)
         /\ kick.sqes \in Seq(Sqes)
         /\ \A q \in Members(kick.sqes) : q.kind = "send" /\ q.fd = fd1
         /\ Kicked(fd1, c1.tx, again.c.tx, kick.sqes)
         /\ again.c.pollout_armed = c1.pollout_armed
         /\ again.c.closing = p.closing
    <3>1. RecvDataStep(p, kick, again, back, posted, r)
      BY <1>5, <2>1, <2>2, <2>3, <2>5, <2>9, <2>10 DEF RecvDataStep
    <3> QED  BY <1>1, <3>1, RecvDataParts
  <2>12. RecvDataUpdates(again.c, back, posted, kick.sqes, again.sqes)
    BY <1>5, <1>8, <2>2, <2>3, <2>5, <2>9, <2>11 DEF RecvDataUpdates, pooled
  <2> QED  BY <1>1, <1>2, <2>12
<1>9. CASE /\ ~ InPoolBuffer /\ c1.rx_hold
           /\ LET kick == Kick(fd1, Parsed([ c1 EXCEPT !.rx_hold = FALSE ], e))
                  again == StartRecvUnlessClosing(fd1, kick.c, pooled)
              IN  Update([ c    |-> again.c,
                           sqes |-> Tasks(e) \o kick.sqes \o again.sqes ])
  <2> DEFINE b == [ c1 EXCEPT !.rx_hold = FALSE ]
             p == Parsed(b, e)
             kick == Kick(fd1, p)
             again == StartRecvUnlessClosing(fd1, kick.c, pooled)
             r == [ c |-> again.c, sqes |-> posted \o kick.sqes \o again.sqes ]
  <2> DEFINE back == <<>>
  <2>1. Update(r) /\ r.c = again.c /\ r.sqes = posted \o kick.sqes \o again.sqes
    BY <1>9
  <2>2. /\ b \in PerClientStorage /\ b.conn = c1.conn /\ b.tx = c1.tx
        /\ b.pollout_armed = c1.pollout_armed /\ b.closing = c1.closing
    BY <1>2 DEF PerClientStorage
  <2> HIDE DEF b
  <2>3. /\ p \in PerClientStorage /\ p.conn = c1.conn /\ p.tx = c1.tx
        /\ p.pollout_armed = c1.pollout_armed
        /\ p.closing <=> (c1.closing \/ e.to = "error")
    BY <1>6, <2>2
  <2>4. kick = Kick(fd1, p) /\ again = StartRecvUnlessClosing(fd1, kick.c, pooled)
    OBVIOUS
  <2>5. back \in Seq(Sqes) /\ Members(back) = {}
    BY OneInSeq, MembersOne
  <2>6. /\ kick.c \in PerClientStorage /\ kick.sqes \in Seq(Sqes)
    BY <1>2, <2>3, <2>4, KickTyped
  <2> HIDE DEF kick, pooled, posted, p, again, r
  <2>7. /\ again.c \in PerClientStorage /\ again.sqes \in Seq(Sqes)
        /\ again.sqes = <<>> \/ again.sqes = << RecvOf(fd1, pooled) >>
        /\ again.c.closing = kick.c.closing /\ again.c.tx = kick.c.tx
        /\ again.c.conn = kick.c.conn /\ again.c.pollout_armed = kick.c.pollout_armed
        /\ ~ kick.c.closing /\ ~ pooled => again.sqes = << RecvOf(fd1, pooled) >>
        /\ ~ kick.c.closing /\ ~ pooled => again.c.rx_hold
        /\ \A q \in Members(again.sqes) : q.kind = "recv" /\ q.fd = fd1
    BY <1>2, <1>7, <2>4, <2>6, StartRecvUnlessClosingTyped
  <2>8. r.sqes = back \o posted \o kick.sqes \o again.sqes
    <3>1. back \o posted = posted
      BY <1>5
    <3> QED  BY <2>1, <3>1
  <2> HIDE DEF back
  <2>9. /\ Updates(again.c, back \o posted \o kick.sqes \o again.sqes)
        /\ kick.sqes \in Seq(Sqes)
        /\ \A q \in Members(kick.sqes) : q.kind = "send" /\ q.fd = fd1
        /\ Kicked(fd1, c1.tx, again.c.tx, kick.sqes)
        /\ again.c.pollout_armed = c1.pollout_armed
        /\ again.c.closing = p.closing
    <3>1. RecvDataStep(p, kick, again, back, posted, r)
      BY <1>5, <2>1, <2>3, <2>4, <2>5, <2>7, <2>8 DEF RecvDataStep
    <3> QED  BY <1>1, <3>1, RecvDataParts
  <2>10. /\ back = <<>> /\ (~ InPool <=> ~ pooled) /\ RecvOf(fd1, pooled) = RecvOf(fd1, InPool)
    BY DEF back, pooled
  <2>11. RecvDataUpdates(again.c, back, posted, kick.sqes, again.sqes)
    BY <1>5, <1>9, <2>3, <2>5, <2>7, <2>9, <2>10 DEF RecvDataUpdates
  <2> QED  BY <1>1, <1>2, <2>11
<1> QED  BY <1>4, <1>8, <1>9

-----------------------------------------------------------------------------
(* The ring.                                                               *)

(* The kernel begins with the request at the head of sq.                   *)
Begins(op) ==
  op \in Operations /\ op.sqe = Head(sq) /\ Begin(op) /\ UNCHANGED cq

(* It answers that request at once.                                        *)
Replies(new) ==
  new \in Seq(Answers) /\ cq' = cq \o new /\ UNCHANGED ops

(* An operation completes.                                                 *)
Completes(op, cqe) ==
  /\ op \in DOMAIN ops /\ op \in Operations /\ cqe \in Answers
  /\ cqe.tag = op.sqe.tag /\ Complete(op, cqe)
  /\ UNCHANGED << sq, multishot >>

(* The fields of a completion,                                             *)
LEMMA CqeFacts ==
  ASSUME NEW tag, NEW res, NEW conn
  PROVE  /\ Cqe(tag, res, conn).tag = tag /\ Cqe(tag, res, conn).res = res
         /\ Cqe(tag, res, conn).conn = conn /\ ~ Cqe(tag, res, conn).more
         /\ ~ Cqe(tag, res, conn).buffer
BY DEF Cqe

(* A completion that brings nothing.                                       *)
LEMMA CqeTyped ==
  ASSUME NEW tag \in Tags, NEW res \in Int, NEW conn \in 0 .. FOREIGN, tag.op \in Shown,
         tag.op \in { "Accept", "Recv" } => res <= 0,
         tag.op = "GenerateResponse" => conn \in Conns
  PROVE  Cqe(tag, res, conn) \in Answers
BY DEF Cqe, Answers, CqesOf

Errors == { EINVAL, EAGAIN, EBADF, EMFILE, ENOBUFS, EPIPE }

(* Errors are negative.                                                    *)
LEMMA ErrorFacts ==
  \A res \in Errors : res \in Int /\ res < 0
BY DEF Errors, EINVAL, EAGAIN, EBADF, EMFILE, ENOBUFS, EPIPE

(* Issue, by the kind of the request.                                      *)
LEMMA IssueFacts ==
  ASSUME Types, Issue, NEW r, r = Head(sq)
  PROVE  /\ sq # <<>> /\ r \in Sqes /\ r \in Members(sq) /\ sq' = Tail(sq)
         /\ UNCHANGED << multishot, backlog, sent, conns, others >>
         /\ \/ /\ r.kind = "accept"
               /\ UNCHANGED << fdtab, pool, misclosed >>
               /\ \/ r.multi /\ ~ multishot /\ Replies(<< Cqe(r.tag, EINVAL, 0) >>)
                  \/ (r.multi => multishot) /\ Begins(Op(r, 0))
            \/ /\ r.kind \in { "recv", "send", "poll" }
               /\ UNCHANGED << fdtab, pool, misclosed >>
               /\ \/ /\ r.kind = "recv" /\ r.multi /\ ~ multishot
                     /\ Replies(<< Cqe(r.tag, EINVAL, fdtab[r.fd]) >>)
                  \/ Replies(<< Cqe(r.tag, EBADF, fdtab[r.fd]) >>) /\ fdtab[r.fd] = 0
                  \/ /\ r.kind = "recv" => ~ r.multi \/ multishot
                     /\ Begins(Op(r, fdtab[r.fd]))
            \/ /\ r.kind = "close"
               /\ UNCHANGED pool /\ misclosed' \in BOOLEAN
               /\ fdtab' = Taken(r.fd, 0)
               /\ \E res \in { 0, EBADF } : Replies(<< Cqe(r.tag, res, r.conn) >>)
            \/ /\ r.kind = "task"
               /\ UNCHANGED << fdtab, pool, misclosed >>
               /\ Replies(<< Cqe(r.tag, 0, r.conn), Cqe(r.stale, 0, 0) >>)
            \/ /\ r.kind = "provide"
               /\ pool' = pool + 1
               /\ UNCHANGED << fdtab, misclosed >>
               /\ Replies(<< Cqe(r.tag, 0, 0) >>)
<1>1. /\ sq # <<>> /\ sq' = Tail(sq)
      /\ UNCHANGED << multishot, backlog, sent, conns, others >>
      /\ \/ IssueAccept(r) \/ IssueOnSocket(r) \/ IssueClose(r)
         \/ IssueTask(r) \/ IssueProvide(r)
  BY DEF Issue, bounds, others
<1>2. r \in Sqes /\ r \in Members(sq)
  BY <1>1, MembersTail DEF Types, Sequences
<1>3. r.tag \in Tags /\ r.tag.op \in Shown
      /\ (r.kind # "task" => r.tag.op # "GenerateResponse")
  BY <1>2, SqeTags
<1>4. /\ r.kind \in { "recv", "send", "poll" } => r.fd \in Fds
      /\ r.kind = "close" => r.fd \in Fds /\ r.conn \in 0 .. FOREIGN
      /\ r.kind = "task" => r.conn \in Conns /\ r.stale \in StaleTags
  BY <1>2, SqeFacts
<1>5. \A res \in Errors \cup {0}, k \in 0 .. FOREIGN :
        r.tag.op # "GenerateResponse" \/ k \in Conns => << Cqe(r.tag, res, k) >> \in Seq(Answers)
  <2> SUFFICES ASSUME NEW res \in Errors \cup {0}, NEW k \in 0 .. FOREIGN,
                      r.tag.op # "GenerateResponse" \/ k \in Conns
               PROVE  Cqe(r.tag, res, k) \in Answers
    BY OneInSeq
  <2>1. res \in Int /\ res <= 0
    BY ErrorFacts
  <2> QED  BY <1>3, <2>1, CqeTyped
<1>a. \A c : Append(cq, c) = cq \o << c >>
  <2>1. cq \in Seq(Answers)
    BY DEF Types, Sequences
  <2> QED  BY <2>1
<1>6. 0 \in 0 .. FOREIGN /\ Conns \subseteq 0 .. FOREIGN
  BY Constants
<1>7. CASE IssueAccept(r)
  <2>1. r.kind = "accept" /\ UNCHANGED << fdtab, pool, misclosed >>
    BY <1>7 DEF IssueAccept
  <2>2. CASE r.multi /\ ~ multishot
    <3>1. cq' = Append(cq, Cqe(r.tag, EINVAL, 0)) /\ UNCHANGED ops
      BY <1>7, <2>2 DEF IssueAccept
    <3>2. << Cqe(r.tag, EINVAL, 0) >> \in Seq(Answers)
      BY <1>3, <1>5, <1>6, <2>1 DEF Errors
    <3>3. cq' = cq \o << Cqe(r.tag, EINVAL, 0) >>
      BY <1>a, <3>1, Zenon
    <3> QED  BY <1>1, <1>2, <2>1, <2>2, <3>1, <3>2, <3>3 DEF Replies
  <2>3. CASE ~ (r.multi /\ ~ multishot)
    <3>1. Begin(Op(r, 0)) /\ UNCHANGED cq
      BY <1>7, <2>3 DEF IssueAccept
    <3>2. Op(r, 0) \in Operations /\ Op(r, 0).sqe = r
      BY <1>2, <1>6, <2>1 DEF Op, Operations
    <3> QED  BY <1>1, <1>2, <2>1, <2>3, <3>1, <3>2 DEF Begins
  <2> QED  BY <2>2, <2>3
<1>8. CASE IssueOnSocket(r)
  <2> DEFINE k == fdtab[r.fd]
  <2>1. r.kind \in { "recv", "send", "poll" } /\ UNCHANGED << fdtab, pool, misclosed >>
    BY <1>8 DEF IssueOnSocket
  <2>2. k \in 0 .. FOREIGN
    BY <1>4, <2>1 DEF Types
  <2>3. \A res \in Errors : << Cqe(r.tag, res, k) >> \in Seq(Answers)
    BY <1>3, <1>5, <2>1, <2>2
  <2>4. \A res : Append(cq, Cqe(r.tag, res, k)) = cq \o << Cqe(r.tag, res, k) >>
    BY <1>a, Zenon
  <2>5. CASE r.kind = "recv" /\ r.multi /\ ~ multishot
    <3>1. cq' = Append(cq, Cqe(r.tag, EINVAL, k)) /\ UNCHANGED ops
      BY <1>8, <2>5 DEF IssueOnSocket
    <3>2. Replies(<< Cqe(r.tag, EINVAL, k) >>)
      BY <2>3, <2>4, <3>1 DEF Replies, Errors
    <3> QED  BY <1>1, <1>2, <2>1, <2>5, <3>2
  <2>6. CASE ~ (r.kind = "recv" /\ r.multi /\ ~ multishot) /\ k = 0
    <3>1. cq' = Append(cq, Cqe(r.tag, EBADF, k)) /\ UNCHANGED ops
      BY <1>8, <2>6 DEF IssueOnSocket
    <3>2. Replies(<< Cqe(r.tag, EBADF, k) >>)
      BY <2>3, <2>4, <3>1 DEF Replies, Errors
    <3> QED  BY <1>1, <1>2, <2>1, <2>6, <3>2
  <2>7. CASE ~ (r.kind = "recv" /\ r.multi /\ ~ multishot) /\ k # 0
    <3>1. Begin(Op(r, k)) /\ UNCHANGED cq
      BY <1>8, <2>7 DEF IssueOnSocket
    <3>2. k \in Conns
      BY <2>2, <2>7, Constants DEF Conns
    <3>3. Op(r, k) \in Operations /\ Op(r, k).sqe = r
      BY <1>2, <2>1, <2>2, <3>2 DEF Op, Operations
    <3> QED  BY <1>1, <1>2, <2>1, <2>7, <3>1, <3>3 DEF Begins
  <2> QED  BY <2>5, <2>6, <2>7
<1>9. CASE IssueClose(r)
  <2> DEFINE res == IF fdtab[r.fd] = 0 THEN EBADF ELSE 0
  <2>1. /\ r.kind = "close" /\ UNCHANGED << ops, pool >>
        /\ misclosed' \in BOOLEAN /\ fdtab' = Taken(r.fd, 0)
        /\ cq' = Append(cq, Cqe(r.tag, res, r.conn))
    BY <1>9 DEF IssueClose, Types
  <2>2. res \in Errors \cup {0} /\ res \in { 0, EBADF }
    BY DEF Errors
  <2> HIDE DEF res
  <2>3. << Cqe(r.tag, res, r.conn) >> \in Seq(Answers)
    BY <1>3, <1>4, <1>5, <2>1, <2>2
  <2>4. cq' = cq \o << Cqe(r.tag, res, r.conn) >>
    BY <1>a, <2>1, Zenon
  <2> QED  BY <1>1, <1>2, <2>1, <2>2, <2>3, <2>4 DEF Replies
<1>10. CASE IssueTask(r)
  <2> DEFINE a == Cqe(r.tag, 0, r.conn)
             b == Cqe(r.stale, 0, 0)
  <2>1. /\ r.kind = "task" /\ UNCHANGED << ops, fdtab, pool, misclosed >>
        /\ cq' = cq \o << a, b >>
    BY <1>10 DEF IssueTask
  <2>2. a \in Answers
    <3>1. r.conn \in Conns /\ r.conn \in 0 .. FOREIGN
      BY <1>4, <1>6, <2>1
    <3> DEFINE z == 0
    <3>2. z \in Int /\ z <= 0
      OBVIOUS
    <3> HIDE DEF z
    <3>3. Cqe(r.tag, z, r.conn) \in Answers
      BY <1>3, <3>1, <3>2, CqeTyped
    <3> QED  BY <3>3 DEF z
  <2>3. r.stale \in Tags /\ r.stale.op # "GenerateResponse" /\ r.stale.op \in Shown
    BY <1>4, <2>1, ZeroTagStale
  <2>4. b \in Answers
    BY <1>6, <2>3, CqeTyped
  <2> HIDE DEF a, b
  <2>5. << a, b >> \in Seq(Answers)
    BY <2>2, <2>4
  <2>6. Replies(<< a, b >>)
    BY <2>1, <2>5 DEF Replies
  <2> QED  BY <1>1, <1>2, <2>1, <2>6 DEF a, b
<1>11. CASE IssueProvide(r)
  <2>1. /\ r.kind = "provide" /\ pool' = pool + 1 /\ UNCHANGED << ops, fdtab, misclosed >>
        /\ cq' = Append(cq, Cqe(r.tag, 0, 0))
    BY <1>11 DEF IssueProvide
  <2>2. << Cqe(r.tag, 0, 0) >> \in Seq(Answers)
    BY <1>3, <1>5, <1>6, <2>1
  <2>3. cq' = cq \o << Cqe(r.tag, 0, 0) >>
    BY <1>a, <2>1, Zenon
  <2> QED  BY <1>1, <1>2, <2>1, <2>2, <2>3 DEF Replies
<1> QED  BY <1>1, <1>7, <1>8, <1>9, <1>10, <1>11

(* An outstanding operation, and what its tag says.                        *)
LEMMA OutstandingFacts ==
  ASSUME Types, NEW kind, NEW op \in Outstanding(kind)
  PROVE  /\ op \in DOMAIN ops /\ op \in Operations /\ op.sqe \in Sqes /\ op.sqe.kind = kind
         /\ op.sqe.tag \in Tags /\ op.conn \in 0 .. FOREIGN /\ op.sqe.tag.op \in Shown
         /\ kind # "accept" => op.conn \in Conns
         /\ kind = "accept" => op.sqe.tag.op = "Accept" /\ op.sqe.multi \in BOOLEAN
         /\ kind = "recv" => op.sqe.tag.op = "Recv" /\ op.sqe.multi \in BOOLEAN
         /\ kind = "send" => op.sqe.tag.op = "Send"
         /\ kind = "poll" => op.sqe.tag.op = "PollOut"
<1>1. op \in DOMAIN ops /\ op.sqe.kind = kind
  BY DEF Outstanding, BagToSet
<1>2. op \in Operations
  BY <1>1 DEF Types
<1>3. op.sqe \in Sqes /\ op.conn \in 0 .. FOREIGN /\ (kind # "accept" => op.conn \in Conns)
  BY <1>1, <1>2 DEF Operations
<1> QED  BY <1>1, <1>2, <1>3, SqeFacts, SqeTags

(* What an accept brings that the kernel completes,                        *)
LEMMA AcceptDone ==
  ASSUME Types, KernelAccept
  PROVE  /\ UNCHANGED << pool, sent, conns, others, misclosed >>
         /\ \E op, cqe :
              /\ Completes(op, cqe) /\ op.sqe.kind = "accept" /\ ~ cqe.buffer
              /\ \/ /\ Free # {} /\ cqe.res = LowestFree /\ LowestFree \in Free
                    /\ backlog # <<>> /\ cqe.conn = Head(backlog)
                    /\ Head(backlog) \in 1 .. MAX_CONNS
                    /\ cqe.more => op.sqe.multi
                    /\ fdtab' = Taken(LowestFree, Head(backlog))
                    /\ backlog' = Tail(backlog)
                 \/ /\ Free = {} /\ backlog # <<>>
                    /\ cqe.res = EMFILE /\ ~ cqe.more
                    /\ UNCHANGED << fdtab, backlog >>
<1>1. PICK op \in Outstanding("accept") :
        \/ /\ Free # {}
           /\ \E more \in { op.sqe.multi, FALSE } :
                Complete(op, [ Cqe(op.sqe.tag, LowestFree, Head(backlog))
                                 EXCEPT !.more = more ])
           /\ fdtab' = Taken(LowestFree, Head(backlog))
           /\ backlog' = Tail(backlog)
        \/ /\ Free = {}
           /\ Complete(op, Cqe(op.sqe.tag, EMFILE, 0))
           /\ UNCHANGED << fdtab, backlog >>
  BY DEF KernelAccept
<1>2. /\ backlog # <<>>
      /\ UNCHANGED << sq, multishot, pool, sent, conns, others, misclosed >>
  BY DEF KernelAccept, historyVars, bounds
<1>3. /\ op \in DOMAIN ops /\ op \in Operations /\ op.sqe.kind = "accept"
      /\ op.sqe.tag \in Tags /\ op.sqe.tag.op \in Shown /\ op.sqe.tag.op = "Accept" /\ op.sqe.multi \in BOOLEAN
  BY OutstandingFacts
<1>4. Head(backlog) \in 1 .. MAX_CONNS /\ Head(backlog) \in Conns
  <2>1. backlog \in Seq(1 .. MAX_CONNS)
    BY DEF Types
  <2>2. Head(backlog) \in 1 .. MAX_CONNS
    BY <1>2, <2>1, MembersTail
  <2> QED  BY <2>2, Constants
<1>5. CASE Free # {}
  <2> DEFINE conn == Head(backlog)
             fd == LowestFree
  <2>1. PICK more \in { op.sqe.multi, FALSE } :
          Complete(op, [ Cqe(op.sqe.tag, fd, conn) EXCEPT !.more = more ])
    BY <1>1, <1>5
  <2> DEFINE cqe == [ Cqe(op.sqe.tag, fd, conn) EXCEPT !.more = more ]
  <2>2. fd \in Free /\ fd \in Fds /\ fd \in Nat \ {0}
    BY <1>5, LowestIsFree, Constants DEF Free
  <2>3. more \in BOOLEAN /\ (more => op.sqe.multi)
    BY <1>3
  <2> HIDE DEF fd, conn
  <2>4. conn \in 0 .. FOREIGN /\ conn \in Conns
    BY <1>4, Constants DEF conn
  <2>5. /\ cqe.tag = op.sqe.tag /\ cqe.res = fd /\ cqe.conn = conn /\ cqe.more = more
        /\ cqe.buffer = FALSE /\ cqe \in CqesOf(Tags)
    <3>1. fd \in Int
      BY <2>2
    <3>2. cqe \in CqesOf(Tags)
      BY <1>3, <2>3, <2>4, <3>1 DEF Cqe, CqesOf
    <3>3. /\ cqe.tag = op.sqe.tag /\ cqe.res = fd /\ cqe.conn = conn /\ cqe.more = more
          /\ cqe.buffer = FALSE
      BY DEF Cqe
    <3> QED  BY <3>2, <3>3
  <2> HIDE DEF cqe
  <2>6. Complete(op, cqe)
    BY <2>1 DEF cqe
  <2>7. cqe \in Answers
    BY <1>3, <2>2, <2>4, <2>5 DEF Answers
  <2>8. Completes(op, cqe)
    BY <1>2, <1>3, <2>5, <2>6, <2>7 DEF Completes
  <2> QED  BY <1>1, <1>2, <1>3, <1>4, <1>5, <2>2, <2>3, <2>5, <2>8 DEF fd, conn
<1>6. CASE Free = {}
  <2> DEFINE cqe == Cqe(op.sqe.tag, EMFILE, 0)
  <2>1. cqe \in Answers
    <3>1. EMFILE \in Errors
      BY DEF Errors
    <3> QED  BY <1>3, <3>1, ErrorFacts, Constants, CqeTyped
  <2>2. cqe.tag = op.sqe.tag /\ cqe.res = EMFILE /\ ~ cqe.more /\ ~ cqe.buffer
    BY CqeFacts
  <2>3. Complete(op, cqe)
    BY <1>1, <1>6
  <2> HIDE DEF cqe
  <2>4. UNCHANGED << sq, multishot >> /\ cqe.tag = op.sqe.tag
    BY <1>2, <2>2
  <2>5. op \in DOMAIN ops /\ op \in Operations
    BY <1>3
  <2>6. Completes(op, cqe)
    BY <2>1, <2>3, <2>4, <2>5, Zenon DEF Completes
  <2> QED  BY <1>1, <1>2, <1>3, <1>6, <2>2, <2>6
<1> QED  BY <1>5, <1>6

(* a receive,                                                              *)
LEMMA RecvDone ==
  ASSUME Types, KernelRecv(Segment)
  PROVE  /\ UNCHANGED << fdtab, backlog, conns, others, misclosed >>
         /\ sent' \in [ Conns -> Nat ]
         /\ \E op, cqe :
              /\ Completes(op, cqe) /\ op.sqe.kind = "recv"
              /\ \/ /\ cqe.res = 0 /\ ~ cqe.more /\ ~ cqe.buffer /\ UNCHANGED pool
                 \/ /\ cqe.res = ENOBUFS /\ op.sqe.multi /\ ~ cqe.more /\ ~ cqe.buffer
                    /\ UNCHANGED pool
                 \/ /\ cqe.res > 0 /\ (cqe.buffer <=> op.sqe.multi)
                    /\ cqe.more => op.sqe.multi
                    /\ op.sqe.multi => pool > 0 /\ pool' = pool - 1
                    /\ ~ op.sqe.multi => pool' = pool
<1>1. PICK op \in Outstanding("recv") :
        LET k == op.conn
            cqe == Cqe(op.sqe.tag, 0, k)
        IN  \/ /\ k \in ended
               /\ Complete(op, cqe)
               /\ UNCHANGED << pool, sent >>
            \/ /\ k \notin ended
               /\ op.sqe.multi /\ pool = 0
               /\ Complete(op, [ cqe EXCEPT !.res = ENOBUFS ])
               /\ UNCHANGED << pool, sent >>
            \/ /\ k \notin ended
               /\ op.sqe.multi => pool > 0
               /\ \E n \in Segment(k), more \in { op.sqe.multi, FALSE } :
                    /\ Complete(op, [ cqe EXCEPT !.res = n, !.at = sent[k],
                                                 !.more = more,
                                                 !.buffer = op.sqe.multi ])
                    /\ sent' = [ sent EXCEPT ![k] = @ + n ]
               /\ pool' = IF op.sqe.multi THEN pool - 1 ELSE pool
  BY Zenon DEF KernelRecv
<1>u. UNCHANGED << sq, multishot, fdtab, backlog, ended, historyVars, bounds >>
  BY Zenon DEF KernelRecv
<1>2. UNCHANGED << sq, multishot, fdtab, backlog, conns, others, misclosed >>
  BY <1>u DEF historyVars, bounds
<1>3. /\ op \in DOMAIN ops /\ op \in Operations /\ op.sqe.kind = "recv"
      /\ op.sqe.tag \in Tags /\ op.sqe.tag.op \in Shown /\ op.sqe.tag.op = "Recv" /\ op.sqe.multi \in BOOLEAN
      /\ op.conn \in Conns /\ op.conn \in 0 .. FOREIGN
  BY OutstandingFacts
<1> DEFINE tag == op.sqe.tag
           k == op.conn
           multi == op.sqe.multi
           gone  == Complete(op, Cqe(tag, 0, k)) /\ UNCHANGED << pool, sent >>
           dry   == /\ multi
                    /\ Complete(op, [ Cqe(tag, 0, k) EXCEPT !.res = ENOBUFS ])
                    /\ UNCHANGED << pool, sent >>
           reads == /\ multi => pool > 0
                    /\ \E n \in Segment(k), more \in { multi, FALSE } :
                         /\ Complete(op, [ Cqe(tag, 0, k)
                                             EXCEPT !.res = n, !.at = sent[k],
                                                    !.more = more, !.buffer = multi ])
                         /\ sent' = [ sent EXCEPT ![k] = @ + n ]
                    /\ pool' = IF multi THEN pool - 1 ELSE pool
<1>4. tag \in Tags /\ tag.op \in Shown /\ tag.op = "Recv" /\ k \in Conns /\ k \in 0 .. FOREIGN /\ multi \in BOOLEAN
  BY <1>3
<1>r. gone \/ dry \/ reads
  BY <1>1, Zenon
<1>5. CASE gone
  <2> DEFINE cqe == Cqe(tag, 0, k)
  <2> DEFINE z == 0
  <2>z. z \in Int /\ z <= 0
    OBVIOUS
  <2> HIDE DEF z
  <2>a. Cqe(tag, z, k) \in Answers
    <3> HIDE DEF tag, k
    <3> QED  BY <1>4, <2>z, CqeTyped
  <2>1. cqe \in Answers
    BY <2>a DEF z
  <2>2. cqe.tag = tag /\ cqe.res = 0 /\ ~ cqe.more /\ ~ cqe.buffer
    BY CqeFacts
  <2>3. Complete(op, cqe)
    BY <1>5
  <2> HIDE DEF cqe
  <2>4. Completes(op, cqe)
    BY <1>2, <1>3, <2>1, <2>2, <2>3 DEF Completes
  <2> QED  BY <1>2, <1>3, <1>5, <2>2, <2>4 DEF Types
<1>6. CASE dry
  <2> DEFINE cqe == [ Cqe(tag, 0, k) EXCEPT !.res = ENOBUFS ]
  <2>2. Complete(op, cqe)
    BY <1>6
  <2>r. ENOBUFS \in Int /\ ENOBUFS < 0
    BY ErrorFacts DEF Errors
  <2>4. /\ cqe.tag = tag /\ cqe.res = ENOBUFS /\ ~ cqe.more /\ ~ cqe.buffer
        /\ cqe \in CqesOf(Tags)
    <3>1. cqe \in CqesOf(Tags)
      BY <1>4, <2>r DEF Cqe, CqesOf
    <3>2. cqe.tag = tag /\ cqe.res = ENOBUFS /\ cqe.more = FALSE /\ cqe.buffer = FALSE
      BY DEF Cqe
    <3> HIDE DEF cqe
    <3> QED  BY <3>1, <3>2
  <2> HIDE DEF cqe
  <2>3. cqe \in Answers
    BY <1>4, <2>4, <2>r DEF Answers
  <2>5. Completes(op, cqe)
    BY <1>2, <1>3, <2>2, <2>3, <2>4 DEF Completes
  <2> QED  BY <1>2, <1>3, <1>6, <2>4, <2>5 DEF Types
<1>7. CASE reads
  <2>1. PICK n \in Segment(k), more \in { multi, FALSE } :
          /\ Complete(op, [ Cqe(tag, 0, k) EXCEPT !.res = n, !.at = sent[k],
                                                  !.more = more, !.buffer = multi ])
          /\ sent' = [ sent EXCEPT ![k] = @ + n ]
    BY <1>7, Zenon
  <2>2. n = 1
    BY Zenon DEF Segment
  <2>3. more \in BOOLEAN /\ (more => multi) /\ sent[k] \in Nat
    BY <1>4 DEF Types
  <2> DEFINE cqe == [ Cqe(tag, 0, k) EXCEPT !.res = n, !.at = sent[k],
                                            !.more = more, !.buffer = multi ]
  <2>4. Complete(op, cqe)
    BY <2>1
  <2> DEFINE at == sent[k]
  <2>5. /\ cqe.tag = tag /\ cqe.res = 1 /\ cqe.conn = k /\ cqe.more = more
        /\ cqe.buffer = multi /\ cqe \in CqesOf(Tags)
    <3> HIDE DEF tag, k, multi, at
    <3>1. n \in Int /\ at \in Nat
      BY <2>2, <2>3 DEF at
    <3>2. cqe \in CqesOf(Tags)
      BY <1>4, <2>3, <3>1 DEF Cqe, CqesOf
    <3>3. /\ cqe.tag = tag /\ cqe.res = n /\ cqe.conn = k /\ cqe.more = more
          /\ cqe.buffer = multi
      BY DEF Cqe
    <3> HIDE DEF cqe
    <3> QED  BY <2>2, <3>2, <3>3
  <2> HIDE DEF cqe
  <2>6. cqe \in Answers
    BY <1>4, <2>5 DEF Answers
  <2>7. Completes(op, cqe)
    BY <1>2, <1>3, <2>4, <2>5, <2>6 DEF Completes
  <2>8. sent' \in [ Conns -> Nat ]
    BY <1>4, <2>1, <2>2 DEF Types
  <2>9. /\ multi => pool > 0 /\ pool' = pool - 1
        /\ ~ multi => pool' = pool
    BY <1>4, <1>7
  <2> QED  BY <1>2, <1>3, <2>3, <2>5, <2>7, <2>8, <2>9
<1> HIDE DEF gone, dry, reads
<1> QED  BY <1>r, <1>5, <1>6, <1>7, Zenon

(* a sendmsg,                                                              *)
LEMMA SendDone ==
  ASSUME Types, KernelSend
  PROVE  /\ UNCHANGED << fdtab, pool, backlog, sent, conns, others, misclosed >>
         /\ \E op, cqe : /\ Completes(op, cqe) /\ op.sqe.kind = "send"
                         /\ ~ cqe.more /\ ~ cqe.buffer
<1>1. PICK op \in Outstanding("send") :
        LET cqe == Cqe(op.sqe.tag, 1, op.conn)
        IN  \/ Complete(op, cqe)
            \/ Complete(op, [ cqe EXCEPT !.res = EAGAIN ])
            \/ Complete(op, [ cqe EXCEPT !.res = EPIPE ])
  BY DEF KernelSend
<1>2. UNCHANGED << sq, multishot, fdtab, pool, backlog, sent, conns, others, misclosed >>
  BY DEF KernelSend, kernelVars
<1>3. /\ op \in DOMAIN ops /\ op \in Operations /\ op.sqe.kind = "send"
      /\ op.sqe.tag \in Tags /\ op.sqe.tag.op \in Shown /\ op.sqe.tag.op = "Send" /\ op.conn \in 0 .. FOREIGN
  BY OutstandingFacts
<1> DEFINE tag == op.sqe.tag
           k == op.conn
<1>4. PICK cqe : /\ Complete(op, cqe)
                 /\ \/ cqe = Cqe(tag, 1, k)
                    \/ \E res \in Errors : cqe = [ Cqe(tag, 1, k) EXCEPT !.res = res ]
  <2>1. EAGAIN \in Errors /\ EPIPE \in Errors
    BY DEF Errors
  <2> QED  BY <1>1, <2>1
<1> HIDE DEF tag, k
<1>t. tag \in Tags /\ tag.op \in Shown /\ tag.op = "Send" /\ k \in 0 .. FOREIGN /\ tag = op.sqe.tag
  BY <1>3 DEF tag, k
<1>5. CASE cqe = Cqe(tag, 1, k)
  <2>1. cqe \in Answers /\ cqe.tag = tag /\ ~ cqe.more /\ ~ cqe.buffer
    BY <1>t, <1>5, CqeTyped, CqeFacts
  <2>2. Completes(op, cqe)
    BY <1>2, <1>3, <1>4, <1>t, <2>1 DEF Completes
  <2> QED  BY <1>2, <1>3, <2>1, <2>2
<1>6. CASE \E res \in Errors : cqe = [ Cqe(tag, 1, k) EXCEPT !.res = res ]
  <2>1. PICK res \in Errors : cqe = [ Cqe(tag, 1, k) EXCEPT !.res = res ]
    BY <1>6
  <2>2. res \in Int /\ res < 0
    BY ErrorFacts
  <2>3. /\ cqe \in CqesOf(Tags) /\ cqe.tag = tag /\ cqe.res = res
        /\ ~ cqe.more /\ ~ cqe.buffer
    <3>1. cqe \in CqesOf(Tags)
      BY <1>t, <2>1, <2>2 DEF Cqe, CqesOf
    <3>2. cqe.tag = tag /\ cqe.res = res /\ cqe.more = FALSE /\ cqe.buffer = FALSE
      BY <2>1 DEF Cqe
    <3> QED  BY <3>1, <3>2
  <2>4. cqe \in Answers
    BY <1>t, <2>2, <2>3 DEF Answers
  <2>5. Completes(op, cqe)
    BY <1>2, <1>3, <1>4, <1>t, <2>3, <2>4 DEF Completes
  <2> QED  BY <1>2, <1>3, <2>3, <2>5
<1> QED  BY <1>4, <1>5, <1>6

(* and a poll.                                                             *)
LEMMA PollDone ==
  ASSUME Types, KernelPoll
  PROVE  /\ UNCHANGED << fdtab, pool, backlog, sent, conns, others, misclosed >>
         /\ \E op, cqe : /\ Completes(op, cqe) /\ op.sqe.kind = "poll"
                         /\ ~ cqe.more /\ ~ cqe.buffer
<1>1. PICK op \in Outstanding("poll") : Complete(op, Cqe(op.sqe.tag, 1, op.conn))
  BY DEF KernelPoll
<1>2. UNCHANGED << sq, multishot, fdtab, pool, backlog, sent, conns, others, misclosed >>
  BY DEF KernelPoll, kernelVars, historyVars, bounds
<1>3. /\ op \in DOMAIN ops /\ op \in Operations /\ op.sqe.kind = "poll"
      /\ op.sqe.tag \in Tags /\ op.sqe.tag.op \in Shown /\ op.sqe.tag.op = "PollOut" /\ op.conn \in 0 .. FOREIGN
  BY OutstandingFacts
<1> DEFINE cqe == Cqe(op.sqe.tag, 1, op.conn)
<1>4. cqe \in Answers
  <2> DEFINE tag == op.sqe.tag
             res == 1
  <2>1. tag \in Tags /\ tag.op \in Shown /\ tag.op = "PollOut" /\ res \in Int
    BY <1>3
  <2> HIDE DEF tag, res
  <2>2. Cqe(tag, res, op.conn) \in Answers
    BY <1>3, <2>1, CqeTyped
  <2> QED  BY <2>2 DEF tag, res
<1>5. cqe.tag = op.sqe.tag /\ ~ cqe.more /\ ~ cqe.buffer
  BY CqeFacts
<1>6. Complete(op, cqe)
  BY <1>1
<1> HIDE DEF cqe
<1>7. Completes(op, cqe)
  BY <1>2, <1>3, <1>4, <1>5, <1>6 DEF Completes
<1> QED  BY <1>2, <1>3, <1>5, <1>7

-----------------------------------------------------------------------------
(* The types are kept.                                                     *)

(* The sequences and operations, after each kind of step.                  *)
LEMMA BeginsTyped ==
  ASSUME Types, sq # <<>>, sq' = Tail(sq), NEW op, Begins(op)
  PROVE  Sequences(Sqes, Answers)' /\ DOMAIN ops' \subseteq Operations
<1>1. Sequences(Sqes, Answers) /\ DOMAIN ops \subseteq Operations
  BY DEF Types
<1>2. Sequences(Sqes, Answers)' /\ DOMAIN ops' = DOMAIN ops \cup { op }
  BY <1>1, BeginPending DEF Begins
<1> QED  BY <1>1, <1>2 DEF Begins

(* Replies keep the queues of the ring typed,                              *)
LEMMA RepliesTyped ==
  ASSUME Types, sq # <<>>, sq' = Tail(sq), NEW new, Replies(new)
  PROVE  Sequences(Sqes, Answers)' /\ DOMAIN ops' \subseteq Operations
<1>1. Sequences(Sqes, Answers) /\ DOMAIN ops \subseteq Operations
  BY DEF Types
<1> QED  BY <1>1, AnswerPending DEF Replies

(* completions do,                                                         *)
LEMMA CompletesTyped ==
  ASSUME Types, NEW op, NEW cqe, Completes(op, cqe)
  PROVE  Sequences(Sqes, Answers)' /\ DOMAIN ops' \subseteq Operations
<1>1. Sequences(Sqes, Answers) /\ DOMAIN ops \subseteq Operations
  BY DEF Types
<1>2. Sequences(Sqes, Answers)' /\ DOMAIN ops' \subseteq DOMAIN ops
  BY <1>1, CompletePending DEF Completes
<1> QED  BY <1>1, <1>2

(* and handlers.                                                           *)
LEMMA TakingTyped ==
  ASSUME Types, Taking, NEW new, Queues(new)
  PROVE  Sequences(Sqes, Answers)' /\ DOMAIN ops' \subseteq Operations
<1>1. Sequences(Sqes, Answers) /\ DOMAIN ops \subseteq Operations
  BY DEF Types
<1>2. /\ cq # <<>> /\ cq' = Tail(cq) /\ UNCHANGED ops
      /\ InSlots(new) \in Seq(Sqes) /\ sq' = sq \o InSlots(new)
  BY DEF Taking, Queues
<1> QED  BY <1>1, <1>2, HandlePending

(* What the ring does not change, and what it does.                        *)
SlotTypes ==
  /\ slots \in Seq(StaleTags) /\ Len(slots) = SQ_ENTRIES
  /\ carried \subseteq StaleTags /\ running \in BOOLEAN

TableTypes ==
  /\ DOMAIN table \subseteq Fds
  /\ table \in [ DOMAIN table -> PerClientStorage ]
  /\ use_ms_accept \in BOOLEAN /\ ms_accept_armed \in BOOLEAN
  /\ use_ms_recv \in BOOLEAN /\ have_buf_pool \in BOOLEAN
  /\ SlotTypes

RingTypes ==
  /\ Sequences(Sqes, Answers) /\ DOMAIN ops \subseteq Operations

KernelTypes ==
  /\ multishot \in BOOLEAN /\ misclosed \in BOOLEAN
  /\ fdtab \in [ Fds -> 0 .. FOREIGN ]
  /\ pool \in Nat
  /\ sent \in [ Conns -> Nat ]
  /\ backlog \in Seq(1 .. MAX_CONNS)
  /\ conns \in 0 .. MAX_CONNS

(* Types, in parts.                                                        *)
LEMMA TypesParts ==
  Types <=> TableTypes /\ RingTypes /\ KernelTypes /\ Carries
BY DEF Types, TableTypes, SlotTypes, RingTypes, KernelTypes

(* A descriptor taken or freed leaves the table of descriptors typed.      *)
LEMMA TakenTyped ==
  ASSUME Types, NEW f \in Fds, NEW k \in 0 .. FOREIGN
  PROVE  Taken(f, k) \in [ Fds -> 0 .. FOREIGN ]
BY DEF Types, Taken

(* Issuing a request keeps the types of ring and kernel,                   *)
LEMMA IssueTypes ==
  ASSUME Types, Issue
  PROVE  RingTypes' /\ KernelTypes'
<1> DEFINE r == Head(sq)
<1>0. r = Head(sq)
  OBVIOUS
<1> HIDE DEF r
<1> USE <1>0
<1>1. /\ sq # <<>> /\ r \in Sqes /\ sq' = Tail(sq)
      /\ UNCHANGED << multishot, backlog, sent, conns, others >>
  BY IssueFacts
<1>2. KernelTypes
  BY TypesParts
<1>3. CASE /\ UNCHANGED << fdtab, pool, misclosed >>
           /\ (\E new : Replies(new)) \/ (\E op : Begins(op))
  <2>1. KernelTypes'
    BY <1>1, <1>2, <1>3 DEF KernelTypes
  <2>2. RingTypes'
    BY <1>1, <1>3, BeginsTyped, RepliesTyped DEF RingTypes
  <2> QED  BY <2>1, <2>2
<1>4. CASE /\ UNCHANGED pool /\ misclosed' \in BOOLEAN
           /\ r.fd \in Fds /\ fdtab' = Taken(r.fd, 0)
           /\ \E new : Replies(new)
  <2>1. fdtab' \in [ Fds -> 0 .. FOREIGN ]
    BY <1>4, TakenTyped, Constants
  <2>2. KernelTypes'
    BY <1>1, <1>2, <1>4, <2>1 DEF KernelTypes
  <2>3. RingTypes'
    BY <1>1, <1>4, RepliesTyped DEF RingTypes
  <2> QED  BY <2>2, <2>3
<1>5. CASE pool' = pool + 1 /\ UNCHANGED << fdtab, misclosed >> /\ \E new : Replies(new)
  <2>1. KernelTypes'
    BY <1>1, <1>2, <1>5 DEF KernelTypes
  <2>2. RingTypes'
    BY <1>1, <1>5, RepliesTyped DEF RingTypes
  <2> QED  BY <2>1, <2>2
<1>6. r.kind = "close" => r.fd \in Fds
  BY <1>1, SqeFacts
<1> QED  BY <1>3, <1>4, <1>5, <1>6, IssueFacts

(* completing an operation does,                                           *)
LEMMA KernelKeepsTypes ==
  ASSUME Types,
         KernelAccept \/ KernelRecv(Segment) \/ KernelSend \/ KernelPoll
  PROVE  RingTypes' /\ KernelTypes'
<1>1. KernelTypes
  BY TypesParts
<1>2. ASSUME NEW op, NEW cqe, Completes(op, cqe)
      PROVE  RingTypes' /\ UNCHANGED multishot
  BY <1>2, CompletesTyped DEF RingTypes, Completes
<1>3. CASE KernelAccept
  <2>1. /\ UNCHANGED << multishot, pool, sent, conns, others, misclosed >> /\ RingTypes'
    BY <1>2, <1>3, AcceptDone
  <2>2. \/ /\ Free # {} /\ LowestFree \in Free
           /\ backlog # <<>> /\ Head(backlog) \in 1 .. MAX_CONNS
           /\ fdtab' = Taken(LowestFree, Head(backlog))
           /\ backlog' = Tail(backlog)
        \/ UNCHANGED << fdtab, backlog >>
    BY <1>3, AcceptDone
  <2>3. fdtab' \in [ Fds -> 0 .. FOREIGN ]
    <3>1. CASE UNCHANGED fdtab
      BY <1>1, <3>1 DEF KernelTypes
    <3>2. CASE LowestFree \in Free /\ Head(backlog) \in 1 .. MAX_CONNS
               /\ fdtab' = Taken(LowestFree, Head(backlog))
      <4>1. LowestFree \in Fds /\ Head(backlog) \in 0 .. FOREIGN
        BY <3>2, Constants DEF Free
      <4> QED  BY <3>2, <4>1, TakenTyped
    <3> QED  BY <2>2, <3>1, <3>2
  <2>4. backlog' \in Seq(1 .. MAX_CONNS)
    <3>1. backlog \in Seq(1 .. MAX_CONNS)
      BY <1>1 DEF KernelTypes
    <3> QED  BY <2>2, <3>1, MembersTail
  <2> QED  BY <1>1, <2>1, <2>3, <2>4 DEF KernelTypes
<1>4. CASE KernelRecv(Segment)
  <2>1. /\ UNCHANGED << multishot, fdtab, backlog, conns, others, misclosed >> /\ RingTypes'
        /\ sent' \in [ Conns -> Nat ]
    BY <1>2, <1>4, RecvDone
  <2>2. \/ UNCHANGED pool
        \/ pool > 0 /\ pool' = pool - 1
    <3>1. PICK op, cqe :
                 \/ UNCHANGED pool
                 \/ /\ op.sqe.multi => pool > 0 /\ pool' = pool - 1
                    /\ ~ op.sqe.multi => pool' = pool
      BY <1>4, RecvDone
    <3> QED  BY <3>1
  <2>3. pool' \in Nat
    BY <1>1, <2>2 DEF KernelTypes
  <2> QED  BY <1>1, <2>1, <2>3 DEF KernelTypes
<1>5. CASE KernelSend \/ KernelPoll
  <2>1. UNCHANGED << multishot, fdtab, pool, backlog, sent, conns, others, misclosed >>
        /\ RingTypes'
    BY <1>2, <1>5, SendDone, PollDone
  <2> QED  BY <1>1, <2>1 DEF KernelTypes
<1> QED  BY <1>3, <1>4, <1>5

(* and what peers and other workers do.                                    *)
LEMMA OthersKeepTypes ==
  ASSUME Types, Connect \/ PeerEnds \/ OtherAccept \/ OtherClose
  PROVE  RingTypes' /\ KernelTypes' /\ UNCHANGED << sq, cq, ops, pool, multishot >>
<1>1. KernelTypes /\ RingTypes
  BY TypesParts
<1>2. UNCHANGED << sq, cq, ops, pool, sent, multishot >>
  BY DEF Connect, PeerEnds, OtherAccept, OtherClose
<1>3. RingTypes'
  BY <1>1, <1>2 DEF RingTypes, Sequences
<1>4. CASE Connect
  <2>1. /\ conns < MAX_CONNS /\ conns' = conns + 1 /\ backlog' = Append(backlog, conns + 1)
        /\ UNCHANGED << fdtab, misclosed >>
    BY <1>4 DEF Connect, historyVars
  <2>2. conns + 1 \in 1 .. MAX_CONNS /\ conns' \in 0 .. MAX_CONNS
    BY <1>1, <2>1, Constants DEF KernelTypes
  <2>3. backlog' \in Seq(1 .. MAX_CONNS)
    BY <1>1, <2>1, <2>2, MembersAppend DEF KernelTypes
  <2> QED  BY <1>1, <1>2, <1>3, <2>1, <2>2, <2>3 DEF KernelTypes
<1>5. CASE PeerEnds
  <2>1. UNCHANGED << backlog, conns, fdtab, misclosed >>
    BY <1>5 DEF PeerEnds, historyVars, bounds
  <2> QED  BY <1>1, <1>2, <1>3, <2>1 DEF KernelTypes
<1>6. CASE OtherAccept
  <2>1. /\ UNCHANGED << backlog, conns, misclosed >>
        /\ Free # {} /\ fdtab' = Taken(LowestFree, FOREIGN)
    BY <1>6 DEF OtherAccept, historyVars
  <2>2. fdtab' \in [ Fds -> 0 .. FOREIGN ]
    BY <2>1, LowestIsFree, TakenTyped, Constants DEF Free
  <2> QED  BY <1>1, <1>2, <1>3, <2>1, <2>2 DEF KernelTypes
<1>7. CASE OtherClose
  <2>1. UNCHANGED << backlog, conns, misclosed >>
    BY <1>7 DEF OtherClose, historyVars
  <2>2. PICK f \in theirs : fdtab[f] # 0 /\ fdtab' = Taken(f, 0)
    BY <1>7 DEF OtherClose
  <2>3. fdtab' \in [ Fds -> 0 .. FOREIGN ]
    BY <2>2, Constants DEF Types, Taken
  <2> QED  BY <1>1, <1>2, <1>3, <2>1, <2>3 DEF KernelTypes
<1> QED  BY <1>4, <1>5, <1>6, <1>7

(* A storage is replaced, added or taken away.                             *)
LEMMA TableTyped ==
  ASSUME Types, NEW f \in Fds, NEW c \in PerClientStorage,
         \/ table' = table
         \/ f \in DOMAIN table /\ table' = [ table EXCEPT ![f] = c ]
         \/ table' = [ g \in DOMAIN table \cup { f } |-> IF g = f THEN c ELSE table[g] ]
         \/ table' = [ g \in DOMAIN table \ { f } |-> table[g] ]
  PROVE  DOMAIN table' \subseteq Fds /\ table' \in [ DOMAIN table' -> PerClientStorage ]
<1>1. DOMAIN table \subseteq Fds /\ table \in [ DOMAIN table -> PerClientStorage ]
  BY DEF Types
<1>2. CASE table' = table
  BY <1>1, <1>2
<1>3. CASE f \in DOMAIN table /\ table' = [ table EXCEPT ![f] = c ]
  BY <1>1, <1>3
<1>4. CASE table' = [ g \in DOMAIN table \cup { f } |-> IF g = f THEN c ELSE table[g] ]
  BY <1>1, <1>4
<1>5. CASE table' = [ g \in DOMAIN table \ { f } |-> table[g] ]
  BY <1>1, <1>5
<1> QED  BY <1>2, <1>3, <1>4, <1>5

FlagTypes ==
  /\ use_ms_accept \in BOOLEAN /\ ms_accept_armed \in BOOLEAN
  /\ use_ms_recv \in BOOLEAN /\ have_buf_pool \in BOOLEAN

(* A handler keeps the types of ring, kernel and slots,                    *)
LEMMA TakingKeepsTypes ==
  ASSUME Types, Taking, NEW new, Queues(new)
  PROVE  RingTypes' /\ KernelTypes' /\ SlotTypes' /\ Carries'
<1>1. RingTypes'
  BY TakingTyped DEF RingTypes
<1>2. UNCHANGED << multishot, misclosed, fdtab, pool, sent, backlog, conns >>
  BY DEF Taking, kernelVars, historyVars, bounds
<1>3. KernelTypes'
  BY <1>2, TypesParts DEF KernelTypes
<1>4. SlotTypes'
  BY DEF SlotTypes, Queues, Taking, Types
<1>5. Carries'
  <2>1. Members(sq') = Members(sq) \cup Members(InSlots(new))
    BY MembersConcat DEF Types, Sequences, Queues
  <2> QED  BY <2>1 DEF Types, Carries, Queues
<1> QED  BY <1>1, <1>3, <1>4, <1>5

(* with the storage it changes,                                            *)
LEMMA UpdatesKeepTypes ==
  ASSUME Types, NEW c, NEW new, Updates(c, new), FlagTypes'
  PROVE  Types'
<1>1. Taking /\ Queues(new) /\ fd1 \in Fds /\ c \in PerClientStorage
      /\ fd1 \in DOMAIN table /\ table' = [ table EXCEPT ![fd1] = c ]
  BY DEF Updates
<1>2. DOMAIN table' \subseteq Fds /\ table' \in [ DOMAIN table' -> PerClientStorage ]
  BY <1>1, TableTyped
<1>3. RingTypes' /\ KernelTypes' /\ SlotTypes' /\ Carries'
  BY <1>1, TakingKeepsTypes
<1> QED  BY <1>2, <1>3 DEF Types, FlagTypes, SlotTypes, RingTypes, KernelTypes

(* or when it changes none.                                                *)
LEMMA NothingKeepsTypes ==
  ASSUME Types, Taking, NEW new, Queues(new), UNCHANGED table, FlagTypes'
  PROVE  Types'
<1>1. RingTypes' /\ KernelTypes' /\ SlotTypes' /\ Carries'
  BY TakingKeepsTypes
<1>2. DOMAIN table' \subseteq Fds /\ table' \in [ DOMAIN table' -> PerClientStorage ]
  BY DEF Types
<1> QED  BY <1>1, <1>2 DEF Types, FlagTypes, SlotTypes, RingTypes, KernelTypes

(* Every handler keeps the types.                                          *)
LEMMA HandleTypes ==
  ASSUME Types, Handle
  PROVE  Types'
<1>0. FlagTypes
  BY DEF Types, FlagTypes
<1>f. ASSUME UNCHANGED flags
      PROVE  FlagTypes'
  BY <1>0, <1>f DEF FlagTypes, flags
<1>1. CASE HandleAcceptFailed
  <2>1. FlagTypes'
    BY <1>0, <1>1, AcceptFailedFacts DEF FlagTypes
  <2> QED  BY <1>1, <2>1, AcceptFailedFacts, NothingKeepsTypes
<1>2. CASE HandleAccepted
  <2>1. FlagTypes'
    BY <1>0, <1>2, AcceptedFacts DEF FlagTypes
  <2>2. Taking /\ Cqe1.res \in Fds
    BY <1>2, AcceptedFacts
  <2>3. PICK new : /\ Queues(new)
                   /\ \/ UNCHANGED table
                      \/ \E c \in PerClientStorage :
                           table' = [ f \in DOMAIN table \cup { Cqe1.res } |->
                                        IF f = Cqe1.res THEN c ELSE table[f] ]
    BY <1>2, AcceptedFacts
  <2>4. CASE UNCHANGED table
    BY <2>1, <2>2, <2>3, <2>4, NothingKeepsTypes
  <2>5. CASE \E c \in PerClientStorage :
               table' = [ f \in DOMAIN table \cup { Cqe1.res } |->
                            IF f = Cqe1.res THEN c ELSE table[f] ]
    <3>1. DOMAIN table' \subseteq Fds /\ table' \in [ DOMAIN table' -> PerClientStorage ]
      BY <2>2, <2>5, TableTyped
    <3>2. RingTypes' /\ KernelTypes' /\ SlotTypes' /\ Carries'
      BY <2>2, <2>3, TakingKeepsTypes
    <3> QED  BY <2>1, <3>1, <3>2 DEF Types, FlagTypes, SlotTypes, RingTypes, KernelTypes
  <2> QED  BY <2>3, <2>4, <2>5
<1>3. CASE HandleRecvFailed
  <2>1. FlagTypes'
    BY <1>0, <1>3, RecvFailedFacts DEF FlagTypes
  <2> QED  BY <1>3, <2>1, RecvFailedFacts, UpdatesKeepTypes
<1>4. CASE HandleRecvData
  <2>1. FlagTypes' /\ \E c, new : Updates(c, new)
    BY <1>4, <1>f, RecvDataFacts DEF RecvDataUpdates
  <2> QED  BY <2>1, UpdatesKeepTypes
<1>5. CASE \/ HandleSendCompleted \/ HandleSendAgain \/ HandleSendFailed
           \/ HandlePollOut \/ HandleFindHandler \/ HandleRequestFlush
  <2>1. UNCHANGED flags /\ \E c, new : Updates(c, new)
    BY <1>5, SendCompletedFacts, SendAgainFacts, SendFailedFacts, PollOutFacts,
       FindHandlerFacts, RequestFlushFacts
  <2> QED  BY <1>f, <2>1, UpdatesKeepTypes
<1>6. CASE HandleGenerateResponse
  <2>1. UNCHANGED flags
    BY <1>6, GenerateResponseFacts
  <2> QED  BY <1>6, <1>f, <2>1, GenerateResponseFacts, UpdatesKeepTypes, NothingKeepsTypes
<1>7. CASE HandleThrow
  <2>1. /\ running' = FALSE
        /\ UNCHANGED << table, use_ms_accept, ms_accept_armed, use_ms_recv, have_buf_pool,
                        multishot, misclosed, sq, cq, ops, slots, carried, fdtab, pool,
                        sent, backlog, conns >>
    BY <1>7 DEF HandleThrow, flags, uringVars, kernelVars, historyVars, bounds
  <2> QED  BY <2>1 DEF Types, Sequences, Carries
<1>8. CASE HandleNothing
  <2>1. UNCHANGED flags /\ UNCHANGED table /\ Taking /\ Queues(<<>>)
    BY <1>8, NothingFacts
  <2> QED  BY <1>f, <2>1, NothingKeepsTypes
<1> QED  BY <1>1, <1>2, <1>3, <1>4, <1>5, <1>6, <1>7, <1>8 DEF Handle

(* So does every step of the ring,                                         *)
LEMMA RingKeepsTypes ==
  ASSUME Types, UringNext(Segment), UNCHANGED loopVars
  PROVE  Types'
<1>1. RingTypes' /\ KernelTypes'
  BY IssueTypes, KernelKeepsTypes, OthersKeepTypes DEF UringNext
<1>2. TableTypes'
  BY TypesParts DEF TableTypes, SlotTypes, loopVars, flags
<1>3. Members(sq') \subseteq Members(sq) /\ UNCHANGED carried
  <2>1. sq \in Seq(Sqes)
    BY DEF Types, Sequences
  <2>2. \/ sq # <<>> /\ sq' = Tail(sq)
        \/ UNCHANGED sq
    BY DEF UringNext, Issue, KernelAccept, KernelRecv, KernelSend, KernelPoll, Connect,
           PeerEnds, OtherAccept, OtherClose
  <2> QED  BY <2>1, <2>2, MembersTail DEF loopVars
<1>4. Carries'
  BY <1>3 DEF Types, Carries
<1> QED  BY <1>1, <1>2, <1>4 DEF Types, TableTypes, SlotTypes, RingTypes, KernelTypes

(* and so every step.                                                      *)
LEMMA TypesStep ==
  ASSUME Types, [Next]_vars
  PROVE  Types'
<1>1. CASE Next
  BY <1>1, HandleTypes, RingKeepsTypes DEF Next
<1>2. CASE UNCHANGED vars
  <2>1. UNCHANGED << table, use_ms_accept, ms_accept_armed, use_ms_recv, have_buf_pool,
                     multishot, misclosed, sq, cq, ops, slots, carried, running, fdtab,
                     pool, sent, backlog, conns >>
    BY <1>2 DEF vars, loopVars, flags, uringVars, kernelVars, historyVars, bounds
  <2> QED  BY <2>1 DEF Types, Sequences, Carries
<1> QED  BY <1>1, <1>2

(* The slots hold tags that may come back from the first.                  *)
LEMMA InitSlots ==
  ASSUME Init
  PROVE  slots \in Seq(StaleTags) /\ Len(slots) = SQ_ENTRIES
<1>1. CASE SQ_ENTRIES = 0
  <2>1. slots = <<>>
    BY <1>1 DEF Init
  <2> QED  BY <1>1, <2>1
<1>2. CASE SQ_ENTRIES # 0
  <2>1. SQ_ENTRIES \in Nat
    BY Constants
  <2>2. /\ Tag(LISTEN_FD, "Accept") \in StaleTags
        /\ FreeBuffer.tag \in StaleTags /\ ZeroTag \in StaleTags
    <3>1. AcceptOf(TRUE) \in Sqes /\ FreeBuffer \in Sqes
      BY AcceptTyped, FreeBufferTyped
    <3>2. AcceptOf(TRUE).tag \in StaleTags /\ FreeBuffer.tag \in StaleTags
      BY <1>2, <3>1, Made, TagLeft
    <3> QED  BY <3>2, ZeroTagStale DEF AcceptOf, AcceptSqe
  <2> DEFINE e(i) == IF i = SQ_ENTRIES THEN Tag(LISTEN_FD, "Accept")
                     ELSE IF i + BUF_CNT >= SQ_ENTRIES THEN FreeBuffer.tag
                     ELSE ZeroTag
  <2>3. slots = [ i \in 1 .. SQ_ENTRIES |-> e(i) ]
    BY <1>2 DEF Init
  <2>4. \A i \in 1 .. SQ_ENTRIES : e(i) \in StaleTags
    BY <2>2
  <2> HIDE DEF e
  <2> QED  BY <2>1, <2>3, <2>4
<1> QED  BY <1>1, <1>2

(* The initial states are typed.                                           *)
LEMMA InitTypes ==
  ASSUME Init
  PROVE  Types
<1>1. /\ table = <<>> /\ use_ms_accept = TRUE /\ ms_accept_armed = TRUE
      /\ use_ms_recv = TRUE /\ have_buf_pool \in POOLS
      /\ pool = IF have_buf_pool THEN BUF_CNT ELSE 0
      /\ carried = {} /\ running = TRUE
  BY DEF Init
<1>2. /\ multishot \in KERNELS /\ sq = PostAccept(TRUE, FALSE) /\ cq = <<>> /\ ops = EmptyBag
      /\ fdtab = [ f \in Fds |-> 0 ] /\ backlog = <<>> /\ sent = [ k \in Conns |-> 0 ]
      /\ misclosed = FALSE /\ conns = 0
  BY DEF Init, UringInit
<1>3. have_buf_pool \in BOOLEAN /\ multishot \in BOOLEAN
  BY <1>1, <1>2, UringAssumption, WorkerAssumption
<1>4. sq \in Seq(Sqes)
  BY <1>2, PostAcceptTyped
<1>5. FiniteBag(ops) /\ DOMAIN ops = {}
  BY <1>2, MultEmpty DEF EmptyBag, SetToBag
<1>6. TableTypes
  BY <1>1, <1>3, InitSlots DEF TableTypes, SlotTypes
<1>7. RingTypes
  <2>1. cq \in Seq(Answers)
    BY <1>2, OneInSeq, Zenon
  <2> QED  BY <1>4, <1>5, <2>1 DEF RingTypes, Sequences
<1>8. KernelTypes
  <2>1. pool \in Nat /\ conns \in 0 .. MAX_CONNS
    BY <1>1, <1>2, Constants
  <2>2. fdtab \in [ Fds -> 0 .. FOREIGN ] /\ sent \in [ Conns -> Nat ]
    BY <1>2, Constants
  <2>3. backlog \in Seq(1 .. MAX_CONNS)
    BY <1>2, OneInSeq, Zenon
  <2> QED  BY <1>2, <1>3, <2>1, <2>2, <2>3 DEF KernelTypes
<1>9. Carries
  <2>1. \E multi \in BOOLEAN : sq = << AcceptOf(multi) >>
    BY <1>2, PostAcceptTyped
  <2> QED  BY <2>1, MembersOne, Made DEF Carries
<1> QED  BY <1>6, <1>7, <1>8, <1>9, TypesParts

(* The inductive types imply the type invariant.                           *)
LEMMA TypesGiveTypeOK ==
  ASSUME Types
  PROVE  TypeOK
<1>1. sq \in Seq(Requests)
  BY DEF Types, Sequences, Sqes
<1>2. cq \in Seq(CqesOf(Tags))
  BY DEF Types, Sequences, Answers
<1>3. slots \in Seq(Tags) /\ Len(slots) = SQ_ENTRIES /\ carried \subseteq Tags
  BY ZeroTagStale DEF Types
<1>4. \A o \in BagToSet(ops) : o.sqe \in Requests
  BY DEF Types, Operations, Sqes, BagToSet
<1> QED  BY <1>1, <1>2, <1>3, <1>4 DEF Types, TypeOK

(* Every variable has its type, for every kernel, pool, queue and bound,   *)
(* whatever peers and other workers do: what a handler takes from a        *)
(* completion is what it takes it for.                                     *)
THEOREM TypesHold ==
  Spec => []TypeOK
<1>2. Init => Types
  BY InitTypes
<1>3. Types /\ [Next]_vars => Types'
  BY TypesStep
<1>4. Types => TypeOK
  BY TypesGiveTypeOK
<1> QED  BY <1>2, <1>3, <1>4, PTL DEF Spec

-----------------------------------------------------------------------------
(* What each kind of step does to the requests under way.                  *)

(* A count of requests under way is a number, and it is positive exactly   *)
(* if one of them can be pointed at.                                       *)
LEMMA PendingHas ==
  ASSUME Types, NEW S, NEW A
  PROVE  /\ Pending(S, A) \in Nat
         /\ Pending(S, A) > 0 <=> \/ Members(sq) \cap S # {}
                                  \/ \E o \in DOMAIN ops : o.sqe \in S
                                  \/ Members(cq) \cap A # {}
<1>1. Sequences(Sqes, Answers)
  BY DEF Types
<1>2. Pending(S, A) > 0 <=> \/ \E i \in 1 .. Len(sq) : sq[i] \in S
                            \/ \E o \in DOMAIN ops : o.sqe \in S
                            \/ \E i \in 1 .. Len(cq) : cq[i] \in A
  BY <1>1, PendingPositive
<1>3. /\ (\E i \in 1 .. Len(sq) : sq[i] \in S) <=> Members(sq) \cap S # {}
      /\ (\E i \in 1 .. Len(cq) : cq[i] \in A) <=> Members(cq) \cap A # {}
  BY DEF Members
<1> QED  BY <1>1, <1>2, <1>3, PendingType

(* The same of the state after a step.                                     *)
LEMMA PendingNext ==
  ASSUME Sequences(Sqes, Answers)', NEW S, NEW A
  PROVE  /\ Pending(S, A)' \in Nat
         /\ Pending(S, A)' > 0 <=> \/ Members(sq') \cap S # {}
                                   \/ \E o \in DOMAIN ops' : o.sqe \in S
                                   \/ Members(cq') \cap A # {}
<1>1. sq' \in Seq(Sqes) /\ cq' \in Seq(Answers) /\ FiniteBag(ops')
  BY DEF Sequences
<1>2. /\ Count(sq', S) \in Nat /\ Count(cq', A) \in Nat
      /\ Count(sq', S) > 0 <=> Members(sq') \cap S # {}
      /\ Count(cq', A) > 0 <=> Members(cq') \cap A # {}
  BY <1>1, HitsFinite, MembersCount
<1>3. /\ Mult(ops', S) \in Nat
      /\ Mult(ops', S) > 0 <=> \E o \in DOMAIN ops' : o.sqe \in S
  BY <1>1, MultType, MultPositive
<1>4. Pending(S, A)' = Count(sq', S) + Mult(ops', S) + Count(cq', A)
  BY DEF Pending
<1> QED  BY <1>2, <1>3, <1>4

(* An operation that begins leaves under way what is under way.            *)
LEMMA BeginsPending ==
  ASSUME Types, sq # <<>>, sq' = Tail(sq), NEW op, Begins(op), NEW S, NEW A
  PROVE  Pending(S, A)' \in Nat /\ Pending(S, A)' = Pending(S, A)
<1>1. Sequences(Sqes, Answers) /\ UNCHANGED cq /\ op.sqe = Head(sq) /\ Begin(op)
  BY DEF Types, Begins
<1>2. Pending(S, A)' = Pending(S, A)
  BY <1>1, BeginPending
<1> QED  BY <1>2, PendingHas

(* A reply takes the request and adds its completions.                     *)
LEMMA RepliesPending ==
  ASSUME Types, sq # <<>>, sq' = Tail(sq), NEW new, Replies(new), NEW S, NEW A
  PROVE  /\ Count(new, A) \in Nat /\ Pending(S, A)' \in Nat
         /\ Pending(S, A)' + Once(Head(sq), S) = Pending(S, A) + Count(new, A)
<1>1. Sequences(Sqes, Answers) /\ UNCHANGED ops /\ new \in Seq(Answers) /\ cq' = cq \o new
  BY DEF Types, Replies
<1>2. Count(new, A) \in Nat
  BY <1>1, HitsFinite
<1>3. Pending(S, A)' + Once(Head(sq), S) = Pending(S, A) + Count(new, A)
  BY <1>1, AnswerPending
<1>4. Sequences(Sqes, Answers)'
  BY RepliesTyped
<1> QED  BY <1>2, <1>3, <1>4, PendingNext

(* A completion takes the place of the operation that it ends.             *)
LEMMA CompletesPending ==
  ASSUME Types, NEW op, NEW cqe, Completes(op, cqe), NEW S, NEW A
  PROVE  /\ Pending(S, A)' \in Nat
         /\ Pending(S, A)' + (IF cqe.more THEN 0 ELSE Once(op.sqe, S))
              = Pending(S, A) + Once(cqe, A)
<1>1. /\ Sequences(Sqes, Answers) /\ UNCHANGED sq /\ op \in DOMAIN ops
      /\ cqe \in Answers /\ Complete(op, cqe)
  BY DEF Types, Completes
<1>2. Pending(S, A)' + (IF cqe.more THEN 0 ELSE Once(op.sqe, S))
        = Pending(S, A) + Once(cqe, A)
  BY <1>1, CompletePending
<1>3. Sequences(Sqes, Answers)'
  BY CompletesTyped
<1> QED  BY <1>2, <1>3, PendingNext

(* A handler takes a completion and adds its requests.                     *)
LEMMA TakingPending ==
  ASSUME Types, Taking, NEW new, Queues(new), NEW S, Blind(S), NEW A
  PROVE  /\ Count(new, S) \in Nat /\ Pending(S, A)' \in Nat
         /\ Pending(S, A)' + Once(Cqe1, A) = Pending(S, A) + Count(new, S)
<1>1. /\ Sequences(Sqes, Answers) /\ cq # <<>> /\ cq' = Tail(cq) /\ UNCHANGED ops
      /\ InSlots(new) \in Seq(Sqes) /\ sq' = sq \o InSlots(new)
      /\ Count(InSlots(new), S) = Count(new, S)
  BY DEF Types, Taking, Queues
<1>2. Head(cq) = Cqe1
  BY DEF Cqe1
<1> DEFINE slots1 == InSlots(new)
<1>3. slots1 \in Seq(Sqes) /\ sq' = sq \o slots1 /\ Count(slots1, S) = Count(new, S)
  BY <1>1
<1> HIDE DEF slots1
<1>4. Sequences(Sqes, Answers) /\ cq # <<>> /\ cq' = Tail(cq) /\ UNCHANGED ops
  BY <1>1
<1>5. Count(slots1, S) \in Nat
  BY <1>3, HitsFinite
<1>6. Pending(S, A)' + Once(Head(cq), A) = Pending(S, A) + Count(slots1, S)
  BY <1>3, <1>4, HandlePending
<1>7. Sequences(Sqes, Answers)'
  BY TakingTyped
<1> QED  BY <1>2, <1>3, <1>5, <1>6, <1>7, PendingNext

(* Where the ring does not change, neither does what is under way.         *)
LEMMA QuietPending ==
  ASSUME UNCHANGED << sq, cq, ops >>, NEW S, NEW A
  PROVE  Pending(S, A)' = Pending(S, A)
BY DEF Pending

(* The kinds of request that carry no stale tag.                           *)
LEMMA NoTasksBlind ==
  ASSUME NEW S, \A r \in S : r.kind # "task"
  PROVE  Blind(S)
<1> SUFFICES ASSUME NEW r \in Sqes, NEW t \in StaleTags, r.kind = "task"
             PROVE  r \in S <=> [ r EXCEPT !.stale = t ] \in S
  BY DEF Blind
<1> DEFINE s == [ r EXCEPT !.stale = t ]
<1>1. s = [ r EXCEPT !.stale = t ]
  OBVIOUS
<1> HIDE DEF s
<1>2. s.kind = "task"
  BY <1>1, StaleSame
<1> QED  BY <1>1, <1>2

(* Which requests and completions a step leaves behind.                    *)
LEMMA BeginsMembers ==
  ASSUME Types, sq # <<>>, sq' = Tail(sq), NEW op, Begins(op)
  PROVE  /\ Members(sq') \subseteq Members(sq) /\ UNCHANGED cq
         /\ DOMAIN ops' = DOMAIN ops \cup { op }
<1>1. Sequences(Sqes, Answers) /\ UNCHANGED cq /\ op.sqe = Head(sq) /\ Begin(op)
  BY DEF Types, Begins
<1>2. DOMAIN ops' = DOMAIN ops \cup { op }
  BY <1>1, MultBegin DEF Sequences
<1> QED  BY <1>1, <1>2, MembersTail DEF Sequences

(* What a reply does to the members of the queues,                         *)
LEMMA RepliesMembers ==
  ASSUME Types, sq # <<>>, sq' = Tail(sq), NEW new, Replies(new)
  PROVE  /\ Members(sq') \subseteq Members(sq) /\ UNCHANGED ops
         /\ Members(cq') = Members(cq) \cup Members(new)
<1>1. Sequences(Sqes, Answers) /\ UNCHANGED ops /\ new \in Seq(Answers) /\ cq' = cq \o new
  BY DEF Types, Replies
<1> QED  BY <1>1, MembersTail, MembersConcat DEF Sequences

(* what a completion does,                                                 *)
LEMMA CompletesMembers ==
  ASSUME Types, NEW op, NEW cqe, Completes(op, cqe)
  PROVE  /\ UNCHANGED sq /\ DOMAIN ops' \subseteq DOMAIN ops
         /\ Members(cq') = Members(cq) \cup { cqe }
<1>1. /\ Sequences(Sqes, Answers) /\ UNCHANGED sq /\ op \in DOMAIN ops
      /\ cqe \in Answers /\ Complete(op, cqe)
  BY DEF Types, Completes
<1>2. DOMAIN ops' \subseteq DOMAIN ops
  BY <1>1, CompletePending
<1> QED  BY <1>1, <1>2, MembersAppend DEF Sequences, Complete

(* and what a handler does.                                                *)
LEMMA TakingMembers ==
  ASSUME Types, Taking, NEW new, Queues(new)
  PROVE  /\ Members(cq) = { Cqe1 } \cup Members(cq') /\ UNCHANGED ops
         /\ \A r \in Members(sq') : r.kind # "task" => r \in Members(sq) \cup Members(new)
<1>1. /\ sq \in Seq(Sqes) /\ cq \in Seq(Answers) /\ cq # <<>> /\ cq' = Tail(cq) /\ UNCHANGED ops
      /\ InSlots(new) \in Seq(Sqes) /\ sq' = sq \o InSlots(new)
      /\ \A r \in Members(InSlots(new)) : r.kind # "task" => r \in Members(new)
  BY DEF Types, Taking, Queues, Sequences
<1>2. Members(sq') = Members(sq) \cup Members(InSlots(new))
  BY <1>1, MembersConcat
<1>3. Members(cq) = { Cqe1 } \cup Members(cq')
  BY <1>1, MembersTail DEF Cqe1
<1> QED  BY <1>1, <1>2, <1>3

-----------------------------------------------------------------------------
(* What the issue of the request r puts into cq, unless it only begins.    *)
RepliesTo(r, new) ==
  /\ Replies(new)
  /\ \A c \in Members(new) :
       /\ c.res \in { 0, EINVAL, EBADF } /\ ~ c.more /\ ~ c.buffer
       /\ c.res = EINVAL => ~ multishot
       /\ \/ c.tag = r.tag /\ (r.kind = "accept" => c.res = EINVAL)
          \/ c.tag = r.stale /\ r.kind = "task"
       /\ r.kind \in { "task", "provide" } => c.res = 0
  /\ \E c \in Members(new) : c.tag = r.tag
  /\ r.kind # "task" => \E c : new = << c >>

(* A request that is issued begins an operation or is replied to.          *)
LEMMA IssueReplies ==
  ASSUME Types, Issue, NEW r, r = Head(sq)
  PROVE  \/ /\ r.kind \in { "accept", "recv", "send", "poll" }
            /\ r.kind \in { "accept", "recv" } /\ r.multi => multishot
            /\ \E op : Begins(op) /\ op.sqe = r
         \/ \E new : RepliesTo(r, new)
<1>1. \/ \E k : Begins(Op(r, k)) /\ r.kind \in { "accept", "recv", "send", "poll" }
                /\ (r.kind \in { "accept", "recv" } /\ r.multi => multishot)
      \/ \E k : \E res \in { 0, EINVAL, EBADF } :
            /\ Replies(<< Cqe(r.tag, res, k) >>)
            /\ r.kind \in { "accept", "recv", "send", "poll", "close", "provide" }
            /\ r.kind = "accept" => res = EINVAL
            /\ r.kind = "provide" => res = 0
            /\ res = EINVAL => ~ multishot
      \/ r.kind = "task" /\ Replies(<< Cqe(r.tag, 0, r.conn), Cqe(r.stale, 0, 0) >>)
  <2>1. EINVAL # 0 /\ EBADF # EINVAL /\ 0 # EINVAL
    BY DEF EINVAL, EBADF
  <2>2. CASE r.kind = "provide"
    <3>1. Replies(<< Cqe(r.tag, 0, 0) >>)
      BY <2>2, IssueFacts
    <3> QED  BY <2>1, <2>2, <3>1
  <2>3. CASE r.kind # "provide"
    BY <2>1, <2>3, IssueFacts
  <2> QED  BY <2>2, <2>3
<1>2. CASE \E k : Begins(Op(r, k)) /\ r.kind \in { "accept", "recv", "send", "poll" }
                  /\ (r.kind \in { "accept", "recv" } /\ r.multi => multishot)
  BY <1>2 DEF Op
<1>3. CASE \E k : \E res \in { 0, EINVAL, EBADF } :
              /\ Replies(<< Cqe(r.tag, res, k) >>)
              /\ r.kind \in { "accept", "recv", "send", "poll", "close", "provide" }
              /\ r.kind = "accept" => res = EINVAL
              /\ r.kind = "provide" => res = 0
              /\ res = EINVAL => ~ multishot
  <2>1. PICK k, res :
              /\ res \in { 0, EINVAL, EBADF }
              /\ Replies(<< Cqe(r.tag, res, k) >>)
              /\ r.kind \in { "accept", "recv", "send", "poll", "close", "provide" }
              /\ r.kind = "accept" => res = EINVAL
              /\ r.kind = "provide" => res = 0
              /\ res = EINVAL => ~ multishot
    BY <1>3
  <2> DEFINE c == Cqe(r.tag, res, k)
  <2>2. c.tag = r.tag /\ c.res = res /\ ~ c.more /\ ~ c.buffer
    BY CqeFacts
  <2>3. Replies(<< c >>)
    BY <2>1
  <2> HIDE DEF c
  <2> DEFINE new == << c >>
  <2>4. Replies(new) /\ Members(new) = { c } /\ new = << c >>
    BY <2>3, MembersOne
  <2> HIDE DEF new
  <2>5. RepliesTo(r, new)
    BY <2>1, <2>2, <2>4 DEF RepliesTo
  <2> QED  BY <2>5
<1>4. CASE r.kind = "task" /\ Replies(<< Cqe(r.tag, 0, r.conn), Cqe(r.stale, 0, 0) >>)
  <2> DEFINE c == Cqe(r.tag, 0, r.conn)
             d == Cqe(r.stale, 0, 0)
             new == << c, d >>
  <2>0. 0 # EINVAL
    BY DEF EINVAL
  <2>2. /\ c.tag = r.tag /\ c.res = 0 /\ ~ c.more /\ ~ c.buffer
        /\ d.tag = r.stale /\ d.res = 0 /\ ~ d.more /\ ~ d.buffer
    BY CqeFacts
  <2>3. Replies(new)
    BY <1>4
  <2> HIDE DEF c, d
  <2>4. Members(new) = { c, d }
    BY DEF Members
  <2> HIDE DEF new
  <2>5. RepliesTo(r, new)
    BY <1>4, <2>0, <2>2, <2>3, <2>4 DEF RepliesTo
  <2> QED  BY <2>5
<1> QED  BY <1>1, <1>2, <1>3, <1>4

(* The requests and completions that UnderWay counts.                      *)
Reqs(kind, tag) == { r \in Sqes : r.kind = kind /\ r.tag = tag }

Cqes(tag) == { c \in Answers : c.tag = tag /\ ~ c.more }

(* UnderWay counts what is pending.                                        *)
LEMMA UnderWayPending ==
  ASSUME Types, NEW kind, NEW tag
  PROVE  UnderWay(kind, tag) = Pending(Reqs(kind, tag), Cqes(tag))
<1> DEFINE P(sqe) == sqe.kind = kind /\ sqe.tag = tag
           S == Reqs(kind, tag)
           A == Cqes(tag)
<1>1. sq \in Seq(Sqes) /\ cq \in Seq(Answers) /\ DOMAIN ops \subseteq Operations
  BY DEF Types, Sequences
<1>2. Queued(P) = Count(sq, S)
  <2>1. \A i \in 1 .. Len(sq) : P(sq[i]) <=> sq[i] \in S
    BY <1>1 DEF Reqs
  <2>2. { i \in 1 .. Len(sq) : P(sq[i]) } = Hits(sq, S)
    BY <2>1 DEF Hits
  <2> QED  BY <2>2 DEF Queued, Count
<1>3. InKernel(P) = Mult(ops, S)
  <2>1. \A copy \in Copies(ops) : copy[1].sqe \in Sqes
    BY <1>1, InCopies DEF Operations
  <2>2. { copy \in Copies(ops) : P(copy[1].sqe) } = Held(ops, S)
    BY <2>1 DEF Held, Reqs
  <2> QED  BY <2>2 DEF InKernel, Mult
<1>4. Answered(tag) = Count(cq, A)
  <2>1. \A i \in 1 .. Len(cq) : (cq[i].tag = tag /\ ~ cq[i].more) <=> cq[i] \in A
    BY <1>1 DEF Cqes
  <2>2. { i \in 1 .. Len(cq) : cq[i].tag = tag /\ ~ cq[i].more } = Hits(cq, A)
    BY <2>1 DEF Hits
  <2> QED  BY <2>2 DEF Answered, Count
<1> QED  BY <1>2, <1>3, <1>4 DEF UnderWay, Pending
=============================================================================
