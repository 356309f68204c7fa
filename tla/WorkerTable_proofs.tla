-------------------------- MODULE WorkerTable_proofs --------------------------
(***************************************************************************)
(* What a Worker knows of the descriptors in its connection table.         *)
(***************************************************************************)
EXTENDS Worker_proofs

-----------------------------------------------------------------------------
(* A live storage belongs to the connection of its descriptor.             *)

(* Completions that bring the descriptor f.                                *)
Accepted(f) == { c \in Answers : c.tag.op = "Accept" /\ c.res = f }

Open(f) == f \in DOMAIN table => ~ table[f].closing

(* Only the descriptor of a storage marked closing is ever closed here,    *)
(* and, unless another worker has closed it, a descriptor on its way to the*)
(* table is there once and still names the connection it was accepted with.*)
OwnsFd(f) ==
  /\ Open(f) => \A r \in Members(sq) : r.kind = "close" => r.fd # f
  /\ f \in Live \ robbed =>
       /\ fdtab[f] = table[f].conn /\ fdtab[f] # FOREIGN
       /\ Members(cq) \cap Accepted(f) = {}
  /\ f \notin DOMAIN table \cup robbed =>
       /\ \A c \in Members(cq) \cap Accepted(f) : fdtab[f] = c.conn /\ c.conn # FOREIGN
       /\ Count(cq, Accepted(f)) <= 1

Owns == \A f \in Fds : OwnsFd(f)

(* A descriptor that names no connection of this worker is neither in use  *)
(* nor coming.                                                             *)
LEMMA FreeIsUnknown ==
  ASSUME Types, Owns, NEW f \in Fds, fdtab[f] \in { 0, FOREIGN }
  PROVE  /\ f \notin Live \ robbed
         /\ f \notin DOMAIN table \cup robbed => Members(cq) \cap Accepted(f) = {}
<1>1. ASSUME f \in Live \ robbed
      PROVE  FALSE
  <2>1. table[f].conn \in Conns /\ fdtab[f] = table[f].conn /\ fdtab[f] # FOREIGN
    BY <1>1 DEF Types, PerClientStorage, Live, Owns, OwnsFd
  <2> QED  BY <2>1, Constants
<1>2. ASSUME f \notin DOMAIN table \cup robbed, NEW c \in Members(cq) \cap Accepted(f)
      PROVE  FALSE
  <2>1. fdtab[f] = c.conn /\ c.conn # FOREIGN
    BY <1>2 DEF Owns, OwnsFd
  <2>2. c \in Answers /\ c.tag.op = "Accept" /\ c.res = f /\ f > 0
    BY Constants DEF Accepted
  <2>3. c.conn \in Conns
    BY <2>2, AnswerFacts
  <2> QED  BY <2>1, <2>3, Constants
<1> QED  BY <1>1, <1>2

(* A step that touches neither table nor descriptors, and brings none.     *)
LEMMA OwnsQuiet ==
  ASSUME Owns, UNCHANGED << table, fdtab >>, robbed \subseteq robbed',
         \A r \in Members(sq') : r.kind = "close" => r \in Members(sq),
         \A f \in Fds : /\ Members(cq') \cap Accepted(f) \subseteq Members(cq)
                        /\ Count(cq', Accepted(f)) <= Count(cq, Accepted(f))
                        /\ Count(cq, Accepted(f)) \in Nat /\ Count(cq', Accepted(f)) \in Nat
  PROVE  Owns'
<1> SUFFICES ASSUME NEW f \in Fds
             PROVE  OwnsFd(f)'
  BY DEF Owns
<1>1. OwnsFd(f)
  BY DEF Owns
<1>2. Open(f)' = Open(f) /\ Live' = Live
  BY DEF Open, Live
<1>3. Open(f) => \A r \in Members(sq') : r.kind = "close" => r.fd # f
  BY <1>1 DEF OwnsFd
<1>4. f \in Live \ robbed' => /\ fdtab'[f] = table'[f].conn /\ fdtab'[f] # FOREIGN
                               /\ Members(cq') \cap Accepted(f) = {}
  BY <1>1 DEF OwnsFd
<1>5. f \notin DOMAIN table \cup robbed' =>
        /\ \A c \in Members(cq') \cap Accepted(f) : fdtab'[f] = c.conn /\ c.conn # FOREIGN
        /\ Count(cq', Accepted(f)) <= 1
  BY <1>1 DEF OwnsFd
<1> QED  BY <1>2, <1>3, <1>4, <1>5 DEF OwnsFd, Open

(* Counts of the queues are natural numbers.                               *)
LEMMA CountsTyped ==
  ASSUME Types
  PROVE  /\ sq \in Seq(Sqes) /\ cq \in Seq(Answers)
         /\ \A S : Count(cq, S) \in Nat /\ Count(sq, S) \in Nat
<1>1. sq \in Seq(Sqes) /\ cq \in Seq(Answers)
  BY DEF Types, Sequences
<1> QED  BY <1>1, HitsFinite

(* Completions that bring nothing.                                         *)
LEMMA RepliesAcceptNone ==
  ASSUME Types, NEW new, Replies(new), \A c \in Members(new) : ~ (c.res > 0)
  PROVE  \A f \in Fds : /\ Members(cq') \cap Accepted(f) \subseteq Members(cq)
                        /\ Count(cq', Accepted(f)) = Count(cq, Accepted(f))
<1> SUFFICES ASSUME NEW f \in Fds
             PROVE  /\ Members(cq') \cap Accepted(f) \subseteq Members(cq)
                    /\ Count(cq', Accepted(f)) = Count(cq, Accepted(f))
  OBVIOUS
<1>1. new \in Seq(Answers) /\ cq' = cq \o new /\ cq \in Seq(Answers)
  BY CountsTyped DEF Replies
<1>2. Members(cq') = Members(cq) \cup Members(new)
  BY <1>1, MembersConcat
<1>3. Count(cq', Accepted(f)) = Count(cq, Accepted(f)) + Count(new, Accepted(f))
  BY <1>1, CountConcat
<1>4. Members(new) \cap Accepted(f) = {}
  BY Constants DEF Accepted
<1>5. Count(new, Accepted(f)) = 0
  BY <1>1, <1>4, CountNone
<1> QED  BY <1>2, <1>3, <1>4, <1>5, CountsTyped

(* A completed operation that brings no descriptor.                        *)
LEMMA CompletesAcceptsNone ==
  ASSUME Types, NEW op, NEW cqe, Completes(op, cqe),
         cqe.tag.op # "Accept" \/ ~ (cqe.res > 0)
  PROVE  \A f \in Fds : /\ Members(cq') \cap Accepted(f) \subseteq Members(cq)
                        /\ Count(cq', Accepted(f)) = Count(cq, Accepted(f))
<1> SUFFICES ASSUME NEW f \in Fds
             PROVE  /\ Members(cq') \cap Accepted(f) \subseteq Members(cq)
                    /\ Count(cq', Accepted(f)) = Count(cq, Accepted(f))
  OBVIOUS
<1>1. cqe \in Answers /\ cq' = Append(cq, cqe) /\ cq \in Seq(Answers)
  BY CountsTyped DEF Completes, Complete
<1>2. Members(cq') = Members(cq) \cup { cqe }
  BY <1>1, MembersAppend
<1>3. Count(cq', Accepted(f)) = Count(cq, Accepted(f)) + Once(cqe, Accepted(f))
  BY <1>1, CountAppend
<1>4. cqe \notin Accepted(f)
  BY Constants DEF Accepted
<1> QED  BY <1>2, <1>3, <1>4, CountsTyped DEF Once

(* A handler brings no descriptor, it takes one at most.                   *)
LEMMA TakingAcceptsNone ==
  ASSUME Types, Taking
  PROVE  /\ Members(cq') \subseteq Members(cq)
         /\ \A S : /\ Count(cq, S) = Count(cq', S) + Once(Cqe1, S)
                   /\ Count(cq', S) \in Nat /\ Count(cq, S) \in Nat
                   /\ Count(cq', S) <= Count(cq, S)
<1>1. cq \in Seq(Answers) /\ cq # <<>> /\ cq' = Tail(cq)
  BY CountsTyped DEF Taking
<1>2. Members(cq') \subseteq Members(cq) /\ cq' \in Seq(Answers)
  BY <1>1, MembersTail
<1>3. ASSUME NEW S
      PROVE  /\ Count(cq, S) = Count(cq', S) + Once(Cqe1, S)
             /\ Count(cq', S) \in Nat /\ Count(cq, S) \in Nat
             /\ Count(cq', S) <= Count(cq, S)
  <2>1. Count(cq, S) = Count(cq', S) + Once(Cqe1, S)
    BY <1>1, CountTail DEF Cqe1
  <2>2. Count(cq', S) \in Nat /\ Count(cq, S) \in Nat
    BY <1>1, <1>2, HitsFinite
  <2> QED  BY <2>1, <2>2, OnceType
<1> QED  BY <1>2, <1>3

(* Requests that are no tasks go into their slots as they are.             *)
LEMMA QueuesMembers ==
  ASSUME Types, NEW new, Queues(new)
  PROVE  \A r \in Members(sq') : r.kind # "task" => r \in Members(sq) \cup Members(new)
<1>1. sq \in Seq(Sqes) /\ InSlots(new) \in Seq(Sqes) /\ sq' = sq \o InSlots(new)
      /\ \A r \in Members(InSlots(new)) : r.kind # "task" => r \in Members(new)
  BY CountsTyped DEF Queues
<1>2. Members(sq') = Members(sq) \cup Members(InSlots(new))
  BY <1>1, MembersConcat
<1> QED  BY <1>1, <1>2

(* A handler that leaves the table alone and closes nothing.               *)
LEMMA OwnsIdle ==
  ASSUME Types, Owns, Taking, NEW new, Queues(new), UNCHANGED table,
         \A r \in Members(new) : r.kind # "close"
  PROVE  Owns'
<1>1. UNCHANGED << fdtab, robbed >>
  BY DEF Taking, kernelVars, bounds, others
<1>2. \A r \in Members(sq') : r.kind = "close" => r \in Members(sq)
  BY QueuesMembers
<1>3. \A f \in Fds : /\ Members(cq') \cap Accepted(f) \subseteq Members(cq)
                     /\ Count(cq', Accepted(f)) <= Count(cq, Accepted(f))
                     /\ Count(cq, Accepted(f)) \in Nat /\ Count(cq', Accepted(f)) \in Nat
  BY TakingAcceptsNone
<1> QED  BY <1>1, <1>2, <1>3, OwnsQuiet

(* A handler that closes only what it marks closing.                       *)
LEMMA OwnsUpdates ==
  ASSUME Types, Owns, NEW c, NEW new, Updates(c, new),
         \A r \in Members(new) : r.kind = "close" => c.closing
  PROVE  Owns'
<1>1. /\ Taking /\ Queues(new) /\ fd1 \in DOMAIN table /\ table' = [ table EXCEPT ![fd1] = c ]
      /\ c.conn = c1.conn /\ (c1.closing => c.closing) /\ UNCHANGED << fdtab, robbed >>
      /\ \A r \in Members(new) : r.kind \notin { "accept", "provide" } => r.fd = fd1
  BY DEF Updates, Taking, kernelVars, bounds, others
<1>t. DOMAIN table' = DOMAIN table /\ table'[fd1] = c
      /\ \A f \in DOMAIN table : f # fd1 => table'[f] = table[f]
  BY <1>1 DEF Types
<1> SUFFICES ASSUME NEW f \in Fds
             PROVE  OwnsFd(f)'
  BY DEF Owns
<1>2. OwnsFd(f)
  BY DEF Owns
<1>3. /\ Open(f)' => Open(f)
      /\ f \in Live' => f \in Live /\ table'[f].conn = table[f].conn
      /\ Open(f)' /\ f = fd1 => ~ c.closing
  BY <1>1, <1>t DEF Open, Live, c1
<1>4. ASSUME Open(f)', NEW r \in Members(sq'), r.kind = "close"
      PROVE  r.fd # f
  <2>1. r \in Members(sq) \/ r \in Members(new)
    BY <1>1, <1>4, QueuesMembers
  <2>2. CASE r \in Members(sq)
    BY <1>2, <1>3, <1>4, <2>2 DEF OwnsFd
  <2>3. CASE r \in Members(new)
    BY <1>1, <1>3, <1>4, <2>3
  <2> QED  BY <2>1, <2>2, <2>3
<1>5. /\ Members(cq') \subseteq Members(cq)
      /\ Count(cq', Accepted(f)) <= Count(cq, Accepted(f))
      /\ Count(cq, Accepted(f)) \in Nat /\ Count(cq', Accepted(f)) \in Nat
  BY <1>1, TakingAcceptsNone
<1>6. f \in Live' \ robbed' => /\ fdtab'[f] = table'[f].conn /\ fdtab'[f] # FOREIGN
                                /\ Members(cq') \cap Accepted(f) = {}
  BY <1>1, <1>2, <1>3, <1>5 DEF OwnsFd
<1>7. f \notin DOMAIN table' \cup robbed' =>
        /\ \A a \in Members(cq') \cap Accepted(f) : fdtab'[f] = a.conn /\ a.conn # FOREIGN
        /\ Count(cq', Accepted(f)) <= 1
  BY <1>1, <1>t, <1>2, <1>5 DEF OwnsFd
<1> QED  BY <1>4, <1>6, <1>7 DEF OwnsFd

(* The storage of an accepted descriptor.                                  *)
LEMMA OwnsAccepted ==
  ASSUME Types, Owns, Taking, NEW new, Queues(new), Cqe1.tag.op = "Accept",
         \A r \in Members(new) : r.kind # "close",
         NEW cfd \in Fds, cfd = Cqe1.res, cfd \notin DOMAIN table,
         NEW c, c.conn = Cqe1.conn, ~ c.closing,
         table' = [ f \in DOMAIN table \cup { cfd } |-> IF f = cfd THEN c ELSE table[f] ]
  PROVE  Owns'
<1>1. UNCHANGED << fdtab, robbed >> /\ Cqe1 \in Answers /\ Cqe1 \in Members(cq)
  BY DEF Taking, kernelVars, bounds, others
<1>t. /\ DOMAIN table' = DOMAIN table \cup { cfd } /\ table'[cfd] = c
      /\ \A f \in DOMAIN table : f # cfd => table'[f] = table[f]
  OBVIOUS
<1> SUFFICES ASSUME NEW f \in Fds
             PROVE  OwnsFd(f)'
  BY DEF Owns
<1>2. OwnsFd(f)
  BY DEF Owns
<1>3. Open(f)' => Open(f)
  BY <1>t DEF Open
<1>4. ASSUME Open(f)', NEW r \in Members(sq'), r.kind = "close"
      PROVE  r.fd # f
  BY <1>2, <1>3, <1>4, QueuesMembers DEF OwnsFd
<1>5. /\ Members(cq') \subseteq Members(cq)
      /\ Count(cq, Accepted(f)) = Count(cq', Accepted(f)) + Once(Cqe1, Accepted(f))
      /\ Count(cq, Accepted(f)) \in Nat /\ Count(cq', Accepted(f)) \in Nat
  BY TakingAcceptsNone
<1>6. CASE f = cfd
  <2>1. Cqe1 \in Accepted(f)
    BY <1>1, <1>6 DEF Accepted
  <2>2. f \notin robbed => fdtab[f] = c.conn /\ c.conn # FOREIGN /\ Count(cq, Accepted(f)) <= 1
    BY <1>1, <1>2, <1>6, <2>1 DEF OwnsFd
  <2>3. f \notin robbed => Count(cq', Accepted(f)) = 0
    BY <1>5, <2>1, <2>2 DEF Once
  <2>4. cq' \in Seq(Answers)
    BY CountsTyped, MembersTail DEF Taking
  <2>5. f \notin robbed => Members(cq') \cap Accepted(f) = {}
    BY <2>3, <2>4, MembersCount
  <2> QED  BY <1>1, <1>4, <1>6, <1>t, <2>2, <2>5 DEF OwnsFd
<1>7. CASE f # cfd
  <2>1. f \in Live' => f \in Live /\ table'[f].conn = table[f].conn
    BY <1>7, <1>t DEF Live
  <2>2. f \in Live' \ robbed' => /\ fdtab'[f] = table'[f].conn /\ fdtab'[f] # FOREIGN
                                  /\ Members(cq') \cap Accepted(f) = {}
    BY <1>1, <1>2, <1>5, <2>1 DEF OwnsFd
  <2>3. Count(cq', Accepted(f)) <= Count(cq, Accepted(f))
    BY <1>5, OnceType
  <2>4. f \notin DOMAIN table' \cup robbed' =>
          /\ \A a \in Members(cq') \cap Accepted(f) : fdtab'[f] = a.conn /\ a.conn # FOREIGN
          /\ Count(cq', Accepted(f)) <= 1
    BY <1>1, <1>2, <1>5, <1>7, <1>t, <2>3 DEF OwnsFd
  <2> QED  BY <1>4, <2>2, <2>4 DEF OwnsFd
<1> QED  BY <1>6, <1>7

(* Issuing a request: a close frees a descriptor that no live storage has. *)
LEMMA OwnsIssue ==
  ASSUME Types, Owns, Issue, UNCHANGED table
  PROVE  Owns'
<1> DEFINE r == Head(sq)
<1>0. r = Head(sq)
  OBVIOUS
<1> HIDE DEF r
<1> USE <1>0
<1>1. sq # <<>> /\ r \in Sqes /\ r \in Members(sq) /\ sq' = Tail(sq) /\ sq \in Seq(Sqes)
      /\ UNCHANGED robbed
  BY IssueFacts, CountsTyped DEF others
<1>2. Members(sq') \subseteq Members(sq)
  BY <1>1, MembersTail
<1>e. \A e \in { 0, EBADF, EINVAL } : ~ (e > 0)
  BY DEF EBADF, EINVAL
<1>3. ASSUME NEW new, Replies(new), \A c \in Members(new) : ~ (c.res > 0)
      PROVE  \A f \in Fds : /\ Members(cq') \cap Accepted(f) \subseteq Members(cq)
                            /\ Count(cq', Accepted(f)) <= Count(cq, Accepted(f))
                            /\ Count(cq, Accepted(f)) \in Nat /\ Count(cq', Accepted(f)) \in Nat
  BY <1>3, RepliesAcceptNone, CountsTyped
<1>4. ASSUME NEW tag, NEW e \in { 0, EBADF, EINVAL }, NEW k
      PROVE  \A c \in Members(<< Cqe(tag, e, k) >>) : ~ (c.res > 0)
  BY <1>e, MembersOne, CqeFacts
<1>5. CASE UNCHANGED fdtab /\ \E op : Begins(op)
  <2>1. UNCHANGED cq
    BY <1>5 DEF Begins
  <2> QED  BY <1>1, <1>2, <1>5, <2>1, CountsTyped, OwnsQuiet
<1>6. CASE UNCHANGED fdtab /\ \E tag, k : \E e \in { 0, EBADF, EINVAL } :
                                Replies(<< Cqe(tag, e, k) >>)
  <2>1. PICK new : Replies(new) /\ \A c \in Members(new) : ~ (c.res > 0)
    BY <1>4, <1>6
  <2> QED  BY <1>1, <1>2, <1>3, <1>6, <2>1, OwnsQuiet
<1>7. CASE UNCHANGED fdtab /\ Replies(<< Cqe(r.tag, 0, r.conn), Cqe(r.stale, 0, 0) >>)
  <2> DEFINE new == << Cqe(r.tag, 0, r.conn), Cqe(r.stale, 0, 0) >>
  <2>1. Members(new) = { Cqe(r.tag, 0, r.conn), Cqe(r.stale, 0, 0) }
    BY DEF Members
  <2>2. \A c \in Members(new) : c.res = 0
    BY <2>1, CqeFacts
  <2> HIDE DEF new
  <2>3. Replies(new)
    BY <1>7 DEF new
  <2> QED  BY <1>1, <1>2, <1>3, <1>7, <2>2, <2>3, OwnsQuiet
<1>9. CASE /\ r.kind = "close" /\ fdtab' = Taken(r.fd, 0)
           /\ \E e \in { 0, EBADF } : Replies(<< Cqe(r.tag, e, r.conn) >>)
  <2>1. PICK new : Replies(new) /\ \A c \in Members(new) : ~ (c.res > 0)
    BY <1>4, <1>9
  <2>2. r.fd \in Fds
    BY <1>1, <1>9, SqeFacts
  <2>3. ~ Open(r.fd)
    BY <1>1, <1>9, <2>2 DEF Owns, OwnsFd
  <2>4. \A f \in Fds : f # r.fd => fdtab'[f] = fdtab[f]
    BY <1>9 DEF Types, Taken
  <2> SUFFICES ASSUME NEW f \in Fds
               PROVE  OwnsFd(f)'
    BY DEF Owns
  <2>5. OwnsFd(f) /\ Open(f)' = Open(f) /\ Live' = Live
    BY DEF Owns, Open, Live
  <2>6. Open(f)' => \A q \in Members(sq') : q.kind = "close" => q.fd # f
    BY <1>2, <2>5 DEF OwnsFd
  <2>7. CASE f = r.fd
    <3>1. f \in DOMAIN table /\ f \notin Live
      BY <2>3, <2>7 DEF Open, Live
    <3> QED  BY <2>5, <2>6, <3>1 DEF OwnsFd
  <2>8. CASE f # r.fd
    <3>1. fdtab'[f] = fdtab[f]
      BY <2>4, <2>8
    <3>2. /\ Members(cq') \cap Accepted(f) \subseteq Members(cq)
          /\ Count(cq', Accepted(f)) <= Count(cq, Accepted(f))
          /\ Count(cq, Accepted(f)) \in Nat /\ Count(cq', Accepted(f)) \in Nat
      BY <1>3, <2>1
    <3>3. f \in Live' \ robbed' => /\ fdtab'[f] = table'[f].conn /\ fdtab'[f] # FOREIGN
                                    /\ Members(cq') \cap Accepted(f) = {}
      BY <1>1, <2>5, <3>1, <3>2 DEF OwnsFd
    <3>4. f \notin DOMAIN table' \cup robbed' =>
            /\ \A a \in Members(cq') \cap Accepted(f) : fdtab'[f] = a.conn /\ a.conn # FOREIGN
            /\ Count(cq', Accepted(f)) <= 1
      BY <1>1, <2>5, <3>1, <3>2 DEF OwnsFd
    <3> QED  BY <2>6, <3>3, <3>4 DEF OwnsFd
  <2> QED  BY <2>7, <2>8
<1> QED  BY <1>5, <1>6, <1>7, <1>9, IssueFacts

(* The kernel hands out a descriptor that is free.                         *)
LEMMA OwnsKernelAccept ==
  ASSUME Types, Owns, KernelAccept, UNCHANGED table
  PROVE  Owns'
<1>1. PICK op, cqe :
        /\ Completes(op, cqe)
        /\ \/ /\ Free # {} /\ cqe.res = LowestFree /\ LowestFree \in Free
              /\ cqe.conn = Head(backlog) /\ Head(backlog) \in 1 .. MAX_CONNS
              /\ fdtab' = Taken(LowestFree, Head(backlog))
           \/ cqe.res = EMFILE /\ UNCHANGED fdtab
  BY AcceptDone
<1>2. UNCHANGED << sq, robbed >>
  BY <1>1, AcceptDone DEF Completes, others
<1>3. CASE cqe.res = EMFILE /\ UNCHANGED fdtab
  <2>1. ~ (cqe.res > 0)
    BY <1>3 DEF EMFILE
  <2>2. \A f \in Fds : /\ Members(cq') \cap Accepted(f) \subseteq Members(cq)
                       /\ Count(cq', Accepted(f)) = Count(cq, Accepted(f))
    BY <1>1, <2>1, CompletesAcceptsNone
  <2>3. \A f \in Fds : /\ Count(cq', Accepted(f)) <= Count(cq, Accepted(f))
                       /\ Count(cq, Accepted(f)) \in Nat /\ Count(cq', Accepted(f)) \in Nat
    BY <2>2, CountsTyped
  <2> QED  BY <1>2, <1>3, <2>2, <2>3, OwnsQuiet
<1>4. CASE /\ LowestFree \in Free /\ cqe.res = LowestFree
           /\ cqe.conn = Head(backlog) /\ Head(backlog) \in 1 .. MAX_CONNS
           /\ fdtab' = Taken(LowestFree, Head(backlog))
  <2> DEFINE g == LowestFree
             k == Head(backlog)
  <2>1. g \in Fds /\ fdtab[g] = 0
    BY <1>4 DEF Free
  <2>2. /\ g \notin Live \ robbed
        /\ g \notin DOMAIN table \cup robbed => Members(cq) \cap Accepted(g) = {}
    BY <2>1, FreeIsUnknown
  <2>3. fdtab'[g] = k /\ \A f \in Fds : f # g => fdtab'[f] = fdtab[f]
    BY <1>4, <2>1 DEF Types, Taken
  <2>4. cqe.res = g /\ cqe.conn = k /\ k # FOREIGN
    BY <1>4, UringAssumption DEF FOREIGN
  <2> HIDE DEF g, k
  <2>5. cqe \in Answers /\ cq' = Append(cq, cqe) /\ cq \in Seq(Answers)
    BY <1>1, CountsTyped DEF Completes, Complete
  <2>6. Members(cq') = Members(cq) \cup { cqe }
    BY <2>5, MembersAppend
  <2>7. \A S : Count(cq', S) = Count(cq, S) + Once(cqe, S)
    BY <2>5, CountAppend
  <2> SUFFICES ASSUME NEW f \in Fds
               PROVE  OwnsFd(f)'
    BY DEF Owns
  <2>8. OwnsFd(f) /\ Open(f)' = Open(f) /\ Live' = Live
    BY DEF Owns, Open, Live
  <2>9. Open(f)' => \A q \in Members(sq') : q.kind = "close" => q.fd # f
    BY <1>2, <2>8 DEF OwnsFd
  <2>10. CASE f = g
    <3>1. f \notin Live' \ robbed'
      BY <1>2, <2>2, <2>8, <2>10
    <3>2. ASSUME f \notin DOMAIN table \cup robbed
          PROVE  /\ \A a \in Members(cq') \cap Accepted(f) :
                      fdtab'[f] = a.conn /\ a.conn # FOREIGN
                 /\ Count(cq', Accepted(f)) <= 1
      <4>1. Members(cq) \cap Accepted(f) = {}
        BY <2>2, <2>10, <3>2
      <4>2. Count(cq, Accepted(f)) = 0
        BY <2>5, <4>1, CountNone
      <4>3. Count(cq', Accepted(f)) <= 1
        BY <2>7, <4>2 DEF Once
      <4>4. \A a \in Members(cq') \cap Accepted(f) : a = cqe
        BY <2>6, <4>1
      <4> QED  BY <2>3, <2>4, <2>10, <4>3, <4>4
    <3> QED  BY <1>2, <2>9, <3>1, <3>2 DEF OwnsFd
  <2>11. CASE f # g
    <3>1. fdtab'[f] = fdtab[f] /\ cqe \notin Accepted(f)
      BY <2>3, <2>4, <2>11 DEF Accepted
    <3>2. Members(cq') \cap Accepted(f) = Members(cq) \cap Accepted(f)
      BY <2>6, <3>1
    <3>3. Count(cq', Accepted(f)) = Count(cq, Accepted(f))
      BY <2>7, <3>1, CountsTyped DEF Once
    <3>4. f \in Live' \ robbed' => /\ fdtab'[f] = table'[f].conn /\ fdtab'[f] # FOREIGN
                                    /\ Members(cq') \cap Accepted(f) = {}
      BY <1>2, <2>8, <3>1, <3>2 DEF OwnsFd
    <3>5. f \notin DOMAIN table' \cup robbed' =>
            /\ \A a \in Members(cq') \cap Accepted(f) : fdtab'[f] = a.conn /\ a.conn # FOREIGN
            /\ Count(cq', Accepted(f)) <= 1
      BY <1>2, <2>8, <3>1, <3>2, <3>3 DEF OwnsFd
    <3> QED  BY <2>9, <3>4, <3>5 DEF OwnsFd
  <2> QED  BY <2>10, <2>11
<1> QED  BY <1>1, <1>3, <1>4

(* The completions of other operations bring no descriptor.                *)
LEMMA OwnsKernel ==
  ASSUME Types, Owns, KernelRecv(Segment) \/ KernelSend \/ KernelPoll,
         UNCHANGED table
  PROVE  Owns'
<1>1. /\ UNCHANGED << fdtab, robbed >>
      /\ \E op, cqe : Completes(op, cqe) /\ op.sqe.kind \in { "recv", "send", "poll" }
  BY RecvDone, SendDone, PollDone DEF others
<1>2. PICK op, cqe : Completes(op, cqe) /\ op.sqe.kind \in { "recv", "send", "poll" }
  BY <1>1
<1>3. op.sqe \in Sqes /\ cqe.tag = op.sqe.tag /\ UNCHANGED sq
  BY <1>2 DEF Completes, Operations
<1>4. cqe.tag.op # "Accept"
  BY <1>2, <1>3, SqeTags
<1>5. \A f \in Fds : /\ Members(cq') \cap Accepted(f) \subseteq Members(cq)
                     /\ Count(cq', Accepted(f)) = Count(cq, Accepted(f))
  BY <1>2, <1>4, CompletesAcceptsNone
<1>6. \A f \in Fds : /\ Count(cq', Accepted(f)) <= Count(cq, Accepted(f))
                     /\ Count(cq, Accepted(f)) \in Nat /\ Count(cq', Accepted(f)) \in Nat
  BY <1>5, CountsTyped
<1> QED  BY <1>1, <1>3, <1>5, <1>6, OwnsQuiet

(* Other workers take free descriptors only, and what they close that was  *)
(* not theirs is robbed.                                                   *)
LEMMA OwnsOthers ==
  ASSUME Types, Owns, Connect \/ PeerEnds \/ OtherAccept \/ OtherClose,
         UNCHANGED table
  PROVE  Owns'
<1>1. UNCHANGED << sq, cq >>
  BY OthersKeepTypes
<1>2. CASE Connect \/ PeerEnds
  <2>1. UNCHANGED << fdtab, robbed >>
    BY <1>2 DEF Connect, PeerEnds, bounds, others
  <2> QED  BY <1>1, <2>1, CountsTyped, OwnsQuiet
<1>3. ASSUME NEW g \in Fds, NEW k, fdtab' = Taken(g, k), robbed \subseteq robbed',
             fdtab[g] \in { 0, FOREIGN } \/ g \in robbed'
      PROVE  Owns'
  <2>1. \A f \in Fds : f # g => fdtab'[f] = fdtab[f]
    BY <1>3 DEF Types, Taken
  <2>2. /\ g \notin Live \ robbed'
        /\ g \notin DOMAIN table \cup robbed' => Members(cq) \cap Accepted(g) = {}
    BY <1>3, FreeIsUnknown
  <2>3. g \notin DOMAIN table \cup robbed' => Count(cq, Accepted(g)) <= 1
    BY <1>3 DEF Owns, OwnsFd
  <2> SUFFICES ASSUME NEW f \in Fds
               PROVE  OwnsFd(f)'
    BY DEF Owns
  <2>4. OwnsFd(f) /\ Open(f)' = Open(f) /\ Live' = Live
    BY DEF Owns, Open, Live
  <2> QED  BY <1>1, <1>3, <2>1, <2>2, <2>3, <2>4 DEF OwnsFd
<1>4. CASE OtherAccept
  <2>1. Free # {} /\ fdtab' = Taken(LowestFree, FOREIGN) /\ UNCHANGED robbed
    BY <1>4 DEF OtherAccept
  <2>2. LowestFree \in Fds /\ fdtab[LowestFree] = 0
    BY <2>1, LowestIsFree DEF Free
  <2> QED  BY <1>3, <2>1, <2>2
<1>5. CASE OtherClose
  <2>1. PICK f \in theirs :
           /\ fdtab[f] # 0 /\ fdtab' = Taken(f, 0)
           /\ robbed' = IF fdtab[f] = FOREIGN THEN robbed ELSE robbed \cup { f }
    BY <1>5 DEF OtherClose
  <2>2. CASE f \in Fds
    BY <1>3, <2>1, <2>2
  <2>3. CASE f \notin Fds
    <3>1. UNCHANGED fdtab /\ robbed \subseteq robbed'
      BY <2>1, <2>3 DEF Types, Taken
    <3> QED  BY <1>1, <3>1, CountsTyped, OwnsQuiet
  <2> QED  BY <2>2, <2>3
<1> QED  BY <1>2, <1>4, <1>5

(* Every handler keeps it: none ever takes a storage out of the table.     *)
LEMMA OwnsHandle ==
  ASSUME Types, Owns, Handle
  PROVE  Owns'
<1>m. /\ \A f, m : RecvOf(f, m).kind # "close"
      /\ \A m : AcceptOf(m).kind # "close"
      /\ \A f, t, k : TaskSqe(f, t, k).kind # "close"
      /\ \A f : PollOf(f).kind # "close"
      /\ FreeBuffer.kind # "close"
  BY Made
<1>1. CASE HandleAcceptFailed
  <2>1. Taking /\ UNCHANGED table
    BY <1>1, AcceptFailedFacts
  <2>2. PICK new : Queues(new) /\ (new = <<>> \/ \E multi \in BOOLEAN : new = << AcceptOf(multi) >>)
    BY <1>1, AcceptFailedFacts
  <2>3. \A r \in Members(new) : r.kind # "close"
    BY <1>m, <2>2, MembersOne
  <2> QED  BY <2>1, <2>2, <2>3, OwnsIdle
<1>2. CASE HandleAccepted
  <2>1. Cqe1.tag.op = "Accept" /\ Cqe1.res \in Fds /\ Taking
    BY <1>2, AcceptedFacts
  <2>2. PICK recv, acc, multi :
              /\ Queues(recv \o acc) /\ recv \in Seq(Sqes) /\ acc \in Seq(Sqes)
              /\ acc = <<>> \/ acc = << AcceptOf(multi) >>
              /\ recv = <<>> \/ recv = << RecvOf(Cqe1.res, InPool) >>
              /\ \/ /\ Cqe1.res \notin DOMAIN table
                    /\ \E c \in PerClientStorage :
                         /\ table' = [ f \in DOMAIN table \cup { Cqe1.res } |->
                                         IF f = Cqe1.res THEN c ELSE table[f] ]
                         /\ c.conn = Cqe1.conn /\ ~ c.closing
                 \/ UNCHANGED table
    BY <1>2, AcceptedFacts
  <2>3. Members(recv \o acc) = Members(recv) \cup Members(acc)
    BY <2>2, MembersConcat
  <2>4. \A r \in Members(recv) : r.kind # "close"
    BY <1>m, <2>2, MembersOne
  <2>5. \A r \in Members(acc) : r.kind # "close"
    BY <1>m, <2>2, MembersOne
  <2> DEFINE new == recv \o acc
  <2>6. Queues(new) /\ \A r \in Members(new) : r.kind # "close"
    BY <2>2, <2>3, <2>4, <2>5
  <2> HIDE DEF new
  <2> QED  BY <2>1, <2>2, <2>6, OwnsIdle, OwnsAccepted
<1>3. CASE HandleRecvFailed
  <2>1. PICK c, new : /\ Updates(c, new)
                      /\ \/ new = <<>> \/ new = << RecvOf(fd1, FALSE) >>
                         \/ c.closing
    BY <1>3, RecvFailedFacts
  <2>2. RecvOf(fd1, FALSE).kind # "close"
    BY DEF RecvOf, RecvSqe
  <2>3. \A r \in Members(new) : r.kind = "close" => c.closing
    <3> DEFINE q == RecvOf(fd1, FALSE)
    <3>1. q.kind # "close" /\ (new = <<>> \/ new = << q >> \/ c.closing)
      BY <2>1, <2>2
    <3> HIDE DEF q
    <3> QED  BY <3>1, MembersOne
  <2> QED  BY <2>1, <2>3, OwnsUpdates
<1>4. CASE HandleRecvData
  <2>1. PICK c, back, posted, kick, again : RecvDataUpdates(c, back, posted, kick, again)
    BY <1>4, RecvDataFacts
  <2>2. /\ Updates(c, back \o posted \o kick \o again)
        /\ back \in Seq(Sqes) /\ posted \in Seq(Sqes) /\ kick \in Seq(Sqes) /\ again \in Seq(Sqes)
        /\ \A q \in Members(posted) : q.kind = "task"
        /\ \A q \in Members(kick) : q.kind = "send"
        /\ again = <<>> \/ again = << RecvOf(fd1, InPool) >>
        /\ back = << FreeBuffer >> \/ back = <<>>
    BY <2>1 DEF RecvDataUpdates
  <2> DEFINE new == back \o posted \o kick \o again
  <2>3. Members(new) = Members(back) \cup Members(posted) \cup Members(kick) \cup Members(again)
    BY <2>2, FourParts
  <2>4. \A r \in Members(again) : r.kind # "close"
    BY <1>m, <2>2, MembersOne
  <2>5. \A r \in Members(back) : r.kind # "close"
    BY <1>m, <2>2, MembersOne
  <2>6. Updates(c, new)
    BY <2>2
  <2> HIDE DEF new
  <2>7. \A r \in Members(new) : r.kind # "close"
    BY <2>2, <2>3, <2>4, <2>5
  <2> QED  BY <2>6, <2>7, OwnsUpdates
<1>5. CASE HandleSendCompleted \/ HandlePollOut \/ HandleRequestFlush
  <2>1. \E c, new : Updates(c, new) /\ \A q \in Members(new) : q.kind = "send"
    BY <1>5, SendCompletedFacts, PollOutFacts, RequestFlushFacts
  <2> QED  BY <2>1, OwnsUpdates
<1>6. CASE HandleSendAgain
  <2>1. PICK c, new : Updates(c, new) /\ (new = <<>> \/ new = << PollOf(fd1) >>)
    BY <1>6, SendAgainFacts
  <2>2. \A r \in Members(new) : r.kind # "close"
    BY <1>m, <2>1, MembersOne
  <2> QED  BY <2>1, <2>2, OwnsUpdates
<1>7. CASE HandleSendFailed
  <2>1. \E c, new : Updates(c, new) /\ c.closing
    BY <1>7, SendFailedFacts
  <2> QED  BY <2>1, OwnsUpdates
<1>8. CASE HandleFindHandler
  <2>1. PICK c : Updates(c, <<>>)
    BY <1>8, FindHandlerFacts
  <2> QED  BY <2>1, MembersOne, OwnsUpdates
<1>9. CASE HandleGenerateResponse
  <2>1. CASE UNCHANGED table /\ Taking /\ Queues(<<>>)
    BY <2>1, MembersOne, OwnsIdle
  <2>2. CASE \E c : Updates(c, << TaskSqe(fd1, "RequestFlush", Cqe1.conn) >>)
    BY <1>m, <2>2, MembersOne, OwnsUpdates
  <2> QED  BY <1>9, <2>1, <2>2, GenerateResponseFacts
<1>10. CASE HandleThrow
  <2>1. UNCHANGED << table, sq, cq, fdtab, robbed >>
    BY <1>10 DEF HandleThrow, uringVars, kernelVars, bounds, others
  <2> QED  BY <2>1, CountsTyped, OwnsQuiet
<1>11. CASE HandleNothing
  BY <1>11, NothingFacts, MembersOne, OwnsIdle
<1> QED  BY <1>1, <1>2, <1>3, <1>4, <1>5, <1>6, <1>7, <1>8, <1>9, <1>10, <1>11 DEF Handle

(* Every step keeps it.                                                    *)
LEMMA OwnsStep ==
  ASSUME Types, Owns, [Next]_vars
  PROVE  Owns'
<1>1. CASE Handle
  BY <1>1, OwnsHandle
<1>2. CASE UringNext(Segment) /\ UNCHANGED loopVars
  <2>1. UNCHANGED table
    BY <1>2 DEF loopVars
  <2> QED  BY <1>2, <2>1, OwnsIssue, OwnsKernelAccept, OwnsKernel, OwnsOthers
              DEF UringNext
<1>3. CASE UNCHANGED vars
  <2>1. UNCHANGED << table, sq, cq, fdtab, robbed >>
    BY <1>3 DEF vars, loopVars, uringVars, kernelVars, bounds, others
  <2> QED  BY <2>1, CountsTyped, OwnsQuiet
<1> QED  BY <1>1, <1>2, <1>3 DEF Next

(* At first there is no storage and nothing to accept.                     *)
LEMMA OwnsInit ==
  ASSUME Init
  PROVE  Owns
<1>1. table = <<>> /\ cq = <<>> /\ sq = PostAccept(TRUE, FALSE)
  BY DEF Init, UringInit
<1>2. sq = << AcceptOf(TRUE) >>
  BY <1>1 DEF PostAccept
<1>3. Members(sq) = { AcceptOf(TRUE) }
  BY <1>2, MembersOne
<1>4. Members(cq) = {} /\ \A S : Count(cq, S) = 0
  BY <1>1, MembersOne, CountEmpty
<1>5. Live = {}
  BY <1>1 DEF Live
<1>6. \A r \in Members(sq) : r.kind = "accept"
  BY <1>3 DEF AcceptOf, AcceptSqe
<1> QED  BY <1>4, <1>5, <1>6 DEF Owns, OwnsFd

(* Whatever this worker closes, and however often: no handler acts on a    *)
(* connection that is not the one its storage was made for, unless another *)
(* worker has closed the descriptor under it (Accept, Recv and Send        *)
(* handlers, close_async).                                                 *)
THEOREM LiveEntriesOwnTheirFd ==
  Spec => []LiveEntryOwnsFd
<1>2. Init => Types /\ Owns
  BY InitTypes, OwnsInit
<1>3. Types /\ Owns /\ [Next]_vars => (Types /\ Owns)'
  BY TypesStep, OwnsStep
<1>4. Types /\ Owns => LiveEntryOwnsFd
  BY DEF Types, Owns, OwnsFd, LiveEntryOwnsFd, Live
<1> QED  BY <1>2, <1>3, <1>4, PTL DEF Spec

-----------------------------------------------------------------------------
(* The worker never stops accepting.                                       *)

AcceptReqs == { r \in Sqes : r.kind = "accept" }

(* The completions that end an accept; the task completions that share its *)
(* tag have result 0.                                                      *)
AcceptCqes ==
  { c \in Answers : c.tag = Tag(LISTEN_FD, "Accept") /\ ~ c.more /\ c.res # 0 }

Used == { f \in Fds : fdtab[f] # 0 }

(* An accept is under way, no accept was refused for want of a descriptor, *)
(* and there is a descriptor for every connection still to come.           *)
Listens ==
  /\ Pending(AcceptReqs, AcceptCqes) > 0
  /\ \A c \in Members(cq) : c.tag.op = "Accept" => c.res >= 0 \/ c.res = EINVAL
  /\ foreign \in 0 .. MAX_FOREIGN
  /\ Cardinality(Used) + Len(backlog) <= conns + foreign

(* Finitely many descriptors are in use.                                   *)
LEMMA UsedFinite ==
  ASSUME IsFiniteSet(Fds)
  PROVE  IsFiniteSet(Used) /\ Cardinality(Used) \in Nat
<1>1. Used \subseteq Fds
  BY DEF Used
<1> QED  BY <1>1, FS_Subset, FS_CardinalityType

(* A descriptor is given to a connection.                                  *)
LEMMA UsedTaken ==
  ASSUME Types, IsFiniteSet(Fds), NEW f \in Free, NEW k \in 0 .. FOREIGN, k # 0,
         fdtab' = Taken(f, k)
  PROVE  Cardinality(Used') = Cardinality(Used) + 1
<1>1. f \in Fds /\ fdtab[f] = 0 /\ fdtab \in [ Fds -> 0 .. FOREIGN ]
  BY DEF Free, Types
<1>2. Used' = Used \cup { f } /\ f \notin Used
  BY <1>1 DEF Used, Taken
<1> QED  BY <1>2, UsedFinite, FS_AddElement

(* A descriptor is closed.                                                 *)
LEMMA UsedClosed ==
  ASSUME Types, IsFiniteSet(Fds), NEW f, fdtab' = Taken(f, 0)
  PROVE  Cardinality(Used') \in Nat /\ Cardinality(Used') <= Cardinality(Used)
<1>1. fdtab \in [ Fds -> 0 .. FOREIGN ]
  BY DEF Types
<1>2. Used' \subseteq Used
  BY <1>1 DEF Used, Taken
<1>3. IsFiniteSet(Used') /\ Cardinality(Used') <= Cardinality(Used)
  BY <1>2, UsedFinite, FS_Subset
<1> QED  BY <1>3, FS_CardinalityType

(* A slot changes nothing of an accept.                                    *)
LEMMA AcceptsBlind ==
   Blind(AcceptReqs)
BY NoTasksBlind DEF AcceptReqs

(* The completions of other handlers end no accept.                        *)
LEMMA AcceptCqesTagged ==
  ASSUME NEW c \in AcceptCqes
  PROVE  c.tag.op = "Accept" /\ c.res # 0 /\ ~ c.more
BY TagsOf DEF AcceptCqes, Tag, Ops

(* One accept is one accept.                                               *)
LEMMA AcceptOfCounts ==
  ASSUME NEW multi \in BOOLEAN
  PROVE  Count(<< AcceptOf(multi) >>, AcceptReqs) = 1
<1>1. AcceptOf(multi) \in AcceptReqs
  BY AcceptTyped, Made DEF AcceptReqs
<1> QED  BY <1>1, CountOne DEF Once

(* An accept that is issued stays under way, or is refused with EINVAL.    *)
LEMMA ListensIssue ==
  ASSUME Types, Listens, Issue, IsFiniteSet(Fds)
  PROVE  Listens'
<1> DEFINE r == Head(sq)
<1>0. r = Head(sq)
  OBVIOUS
<1> HIDE DEF r
<1>1. /\ sq # <<>> /\ r \in Sqes /\ sq' = Tail(sq) /\ UNCHANGED << backlog, conns, foreign >>
  BY <1>0, IssueFacts DEF others
<1>2. /\ foreign' \in 0 .. MAX_FOREIGN
      /\ Cardinality(Used') + Len(backlog') <= conns' + foreign'
  <2>1. CASE UNCHANGED fdtab
    BY <1>1, <2>1 DEF Listens, Used
  <2>2. CASE fdtab' = Taken(r.fd, 0)
    <3>1. Len(backlog) \in Nat /\ conns \in Nat /\ foreign \in Nat /\ Cardinality(Used) \in Nat
      BY UsedFinite, Constants DEF Types, Listens
    <3>2. Cardinality(Used') \in Nat /\ Cardinality(Used') <= Cardinality(Used)
      BY <2>2, UsedClosed
    <3> QED  BY <1>1, <3>1, <3>2 DEF Listens
  <2> QED  BY <1>0, <2>1, <2>2, IssueFacts
<1>3. ASSUME NEW op, Begins(op)
      PROVE  Listens'
  <2>1. /\ Pending(AcceptReqs, AcceptCqes)' = Pending(AcceptReqs, AcceptCqes)
        /\ UNCHANGED cq
    BY <1>1, <1>3, BeginsPending, BeginsMembers
  <2> QED  BY <1>2, <2>1 DEF Listens
<1>4. ASSUME NEW new, RepliesTo(r, new)
      PROVE  Listens'
  <2>1. /\ Replies(new) /\ new \in Seq(Answers)
        /\ \A c \in Members(new) :
              /\ c.tag = r.tag \/ (c.tag = r.stale /\ r.kind = "task")
              /\ c.tag = r.tag /\ r.kind = "accept" => c.res = EINVAL
              /\ r.kind = "task" => c.res = 0
              /\ ~ c.more
        /\ r.kind = "accept" => \E c \in Members(new) : c.tag = r.tag
    <3>1. Replies(new) /\ new \in Seq(Answers)
      BY <1>4 DEF RepliesTo, Replies
    <3> QED  BY <1>4, <3>1, Zenon DEF RepliesTo
  <2>2. \A c \in Members(new) : c.tag.op = "Accept" => c.res = 0 \/ c.res = EINVAL
    BY <1>1, <2>1, SqeTags, SqeFacts, TagsOf
  <2>3. \A c \in Members(cq') : c.tag.op = "Accept" => c.res >= 0 \/ c.res = EINVAL
    BY <1>1, <2>1, <2>2, RepliesMembers DEF Listens
  <2>4. r \in AcceptReqs => Members(new) \cap AcceptCqes # {}
    <3> SUFFICES ASSUME r.kind = "accept"
                 PROVE  Members(new) \cap AcceptCqes # {}
      BY DEF AcceptReqs
    <3>1. PICK c \in Members(new) : c.tag = r.tag
      BY <2>1
    <3>2. c \in Answers /\ c.tag = Tag(LISTEN_FD, "Accept") /\ ~ c.more /\ c.res # 0
      BY <1>1, <2>1, <3>1, SqeFacts, MembersType DEF EINVAL
    <3> QED  BY <3>1, <3>2 DEF AcceptCqes
  <2>5. /\ Count(new, AcceptCqes) \in Nat /\ Pending(AcceptReqs, AcceptCqes)' \in Nat
        /\ Pending(AcceptReqs, AcceptCqes)' + Once(r, AcceptReqs)
             = Pending(AcceptReqs, AcceptCqes) + Count(new, AcceptCqes)
        /\ Pending(AcceptReqs, AcceptCqes) \in Nat
    BY <1>0, <1>1, <2>1, RepliesPending, PendingHas
  <2>6. r \in AcceptReqs => Count(new, AcceptCqes) > 0
    BY <2>1, <2>4, MembersCount
  <2>7. Pending(AcceptReqs, AcceptCqes)' > 0
    BY <2>5, <2>6 DEF Listens, Once
  <2> QED  BY <1>2, <2>3, <2>7 DEF Listens
<1> QED  BY <1>0, <1>3, <1>4, IssueReplies

(* An operation that is not an accept completes.                           *)
LEMMA ListensCompletes ==
  ASSUME Types, Listens, NEW op, NEW cqe, Completes(op, cqe),
         op.sqe.kind # "accept",
         UNCHANGED << fdtab, backlog, conns, foreign >>
  PROVE  Listens'
<1>1. op.sqe \in Sqes /\ cqe \in Answers /\ cqe.tag = op.sqe.tag
      /\ op.sqe.kind \in { "recv", "send", "poll" }
  BY DEF Completes, Operations
<1>2. cqe.tag.op # "Accept"
  BY <1>1, SqeTags
<1>3. cqe \notin AcceptCqes /\ op.sqe \notin AcceptReqs
  BY <1>2, AcceptCqesTagged DEF AcceptReqs
<1>4. Pending(AcceptReqs, AcceptCqes)' = Pending(AcceptReqs, AcceptCqes)
  <2>1. /\ Pending(AcceptReqs, AcceptCqes) \in Nat /\ Pending(AcceptReqs, AcceptCqes)' \in Nat
        /\ Pending(AcceptReqs, AcceptCqes)' + (IF cqe.more THEN 0 ELSE Once(op.sqe, AcceptReqs))
             = Pending(AcceptReqs, AcceptCqes) + Once(cqe, AcceptCqes)
    BY CompletesPending, PendingHas
  <2> QED  BY <1>3, <2>1 DEF Once
<1>5. \A c \in Members(cq') : c.tag.op = "Accept" => c.res >= 0 \/ c.res = EINVAL
  BY <1>2, CompletesMembers DEF Listens
<1> QED  BY <1>4, <1>5 DEF Listens, Used

(* There is a descriptor for a connection that waits to be accepted.       *)
LEMMA EnoughFds ==
  ASSUME Types, Listens, IsFiniteSet(Fds), Cardinality(Fds) >= MAX_CONNS + MAX_FOREIGN,
         backlog # <<>>
  PROVE  Free # {}
<1> SUFFICES ASSUME Free = {}
             PROVE  FALSE
  OBVIOUS
<1>1. Used = Fds
  BY DEF Used, Free
<1>2. /\ Cardinality(Used) \in Nat /\ Len(backlog) \in Nat /\ Len(backlog) > 0
      /\ conns \in 0 .. MAX_CONNS /\ foreign \in 0 .. MAX_FOREIGN
      /\ Cardinality(Used) + Len(backlog) <= conns + foreign
  <2>1. Len(backlog) \in Nat /\ Len(backlog) > 0 /\ conns \in 0 .. MAX_CONNS
    BY DEF Types
  <2> QED  BY <2>1, UsedFinite DEF Listens
<1>3. MAX_CONNS \in Nat /\ MAX_FOREIGN \in Nat
  BY UringAssumption
<1> QED  BY <1>1, <1>2, <1>3

(* A completed accept ends with a descriptor, never for want of one.       *)
LEMMA ListensAccept ==
  ASSUME Types, Listens, KernelAccept,
         IsFiniteSet(Fds), Cardinality(Fds) >= MAX_CONNS + MAX_FOREIGN
  PROVE  Listens'
<1>0. backlog # <<>> /\ Free # {}
  BY EnoughFds DEF KernelAccept
<1>1. PICK op, cqe :
        /\ Completes(op, cqe) /\ op.sqe.kind = "accept"
        /\ cqe.res = LowestFree /\ LowestFree \in Free
        /\ Head(backlog) \in 1 .. MAX_CONNS
        /\ fdtab' = Taken(LowestFree, Head(backlog))
        /\ backlog' = Tail(backlog)
        /\ UNCHANGED << conns, foreign >>
  BY <1>0, AcceptDone DEF others
<1>2. op.sqe \in AcceptReqs /\ cqe \in Answers /\ cqe.tag = Tag(LISTEN_FD, "Accept")
  BY <1>1, SqeFacts DEF Completes, Operations, AcceptReqs
<1>3. cqe.res > 0 /\ cqe.res \in Nat
  <2>1. LowestFree \in Fds /\ Fds \subseteq Nat \ {0}
    BY <1>1, Constants DEF Free
  <2>2. \A n \in Nat \ {0} : n > 0
    OBVIOUS
  <2> HIDE DEF LowestFree
  <2> QED  BY <1>1, <2>1, <2>2
<1>4. cqe \in AcceptCqes <=> ~ cqe.more
  BY <1>2, <1>3 DEF AcceptCqes
<1>5. Pending(AcceptReqs, AcceptCqes)' = Pending(AcceptReqs, AcceptCqes)
  <2>1. /\ Pending(AcceptReqs, AcceptCqes) \in Nat /\ Pending(AcceptReqs, AcceptCqes)' \in Nat
        /\ Pending(AcceptReqs, AcceptCqes)' + (IF cqe.more THEN 0 ELSE Once(op.sqe, AcceptReqs))
             = Pending(AcceptReqs, AcceptCqes) + Once(cqe, AcceptCqes)
    BY <1>1, CompletesPending, PendingHas
  <2> QED  BY <1>2, <1>4, <2>1 DEF Once
<1>6. \A c \in Members(cq') : c.tag.op = "Accept" => c.res >= 0 \/ c.res = EINVAL
  BY <1>1, <1>3, CompletesMembers DEF Listens
<1>7. Cardinality(Used') = Cardinality(Used) + 1
  BY <1>1, Constants, UsedTaken
<1>8. Len(backlog') = Len(backlog) - 1
  BY <1>0, <1>1 DEF Types
<1>9. Cardinality(Used) \in Nat /\ Len(backlog) \in Nat /\ conns \in Nat /\ foreign \in Nat
  BY UsedFinite, Constants DEF Types, Listens
<1>10. Cardinality(Used') + Len(backlog') <= conns' + foreign'
  BY <1>1, <1>7, <1>8, <1>9 DEF Listens
<1> QED  BY <1>1, <1>5, <1>6, <1>10 DEF Listens

(* Peers and other workers keep within their bounds.                       *)
LEMMA ListensOthers ==
  ASSUME Types, Listens, Connect \/ PeerEnds \/ OtherAccept \/ OtherClose,
         IsFiniteSet(Fds)
  PROVE  Listens'
<1>1. UNCHANGED << sq, cq, ops >>
  BY DEF Connect, PeerEnds, OtherAccept, OtherClose
<1>2. Pending(AcceptReqs, AcceptCqes)' = Pending(AcceptReqs, AcceptCqes)
  BY <1>1, QuietPending
<1>3. /\ Cardinality(Used) \in Nat /\ Len(backlog) \in Nat /\ conns \in Nat /\ foreign \in Nat
      /\ foreign \in 0 .. MAX_FOREIGN /\ MAX_FOREIGN \in Nat
  <2>1. Len(backlog) \in Nat /\ conns \in Nat
    BY Constants DEF Types
  <2>2. foreign \in 0 .. MAX_FOREIGN /\ MAX_FOREIGN \in Nat
    BY UringAssumption DEF Listens
  <2> QED  BY <2>1, <2>2, UsedFinite
<1>4. /\ foreign' \in 0 .. MAX_FOREIGN
      /\ Cardinality(Used') + Len(backlog') <= conns' + foreign'
  <2>1. CASE Connect
    <3>1. UNCHANGED << fdtab, foreign >> /\ conns' = conns + 1
          /\ backlog' = Append(backlog, conns + 1)
      BY <2>1 DEF Connect, others
    <3>2. Len(backlog') = Len(backlog) + 1
      BY <3>1 DEF Types
    <3>3. Cardinality(Used') + Len(backlog') <= conns' + foreign'
      BY <1>3, <3>1, <3>2 DEF Listens, Used
    <3> QED  BY <1>3, <3>1, <3>3
  <2>2. CASE PeerEnds
    <3>1. UNCHANGED << fdtab, foreign, conns, backlog >>
      BY <2>2 DEF PeerEnds, bounds, others
    <3> QED  BY <3>1 DEF Listens, Used
  <2>3. CASE OtherAccept
    <3>1. UNCHANGED << conns, backlog >> /\ foreign < MAX_FOREIGN /\ foreign' = foreign + 1
          /\ Free # {} /\ fdtab' = Taken(LowestFree, FOREIGN)
      BY <2>3 DEF OtherAccept
    <3>2. Cardinality(Used') = Cardinality(Used) + 1
      BY <3>1, LowestIsFree, Constants, UsedTaken
    <3> QED  BY <1>3, <3>1, <3>2 DEF Listens
  <2>4. CASE OtherClose
    <3>1. UNCHANGED << conns, backlog, foreign >> /\ \E f : fdtab' = Taken(f, 0)
      BY <2>4 DEF OtherClose
    <3>2. Cardinality(Used') \in Nat /\ Cardinality(Used') <= Cardinality(Used)
      BY <3>1, UsedClosed
    <3> QED  BY <1>3, <3>1, <3>2 DEF Listens
  <2> QED  BY <2>1, <2>2, <2>3, <2>4
<1> QED  BY <1>1, <1>2, <1>4 DEF Listens

(* Every handler that returns takes one completion and queues some         *)
(* requests.                                                               *)
LEMMA HandlerQueues ==
  ASSUME Types, Handle, ~ HandleThrow
  PROVE  /\ Taking /\ \E new : Queues(new)
         /\ ~ HandleAcceptFailed /\ ~ HandleAccepted => Cqe1.tag.op # "Accept"
<1>1. ASSUME NEW c, NEW new, Updates(c, new)
      PROVE  Taking /\ Queues(new)
  BY <1>1 DEF Updates
<1>2. CASE HandleAcceptFailed \/ HandleAccepted
  BY <1>2, AcceptFailedFacts, AcceptedFacts
<1>3. CASE HandleRecvFailed \/ HandleRecvData
  <2>1. ASSUME NEW c, NEW back, NEW posted, NEW kick, NEW again,
               RecvDataUpdates(c, back, posted, kick, again)
        PROVE  \E new : Updates(c, new)
    BY <2>1 DEF RecvDataUpdates
  <2>2. HandleRecvData => \E c, new : Updates(c, new)
    BY <2>1, RecvDataFacts
  <2>3. HandleRecvFailed => \E c, new : Updates(c, new)
    BY RecvFailedFacts
  <2>4. Cqe1.tag.op = "Recv"
    BY <1>3, RecvFailedFacts, RecvDataFacts
  <2> QED  BY <1>1, <1>3, <2>2, <2>3, <2>4
<1>4. CASE HandleSendCompleted \/ HandleSendAgain \/ HandleSendFailed
  <2>1. Cqe1.tag.op = "Send" /\ \E c, new : Updates(c, new)
    BY <1>4, SendCompletedFacts, SendAgainFacts, SendFailedFacts
  <2> QED  BY <1>1, <2>1
<1>5. CASE HandlePollOut \/ HandleFindHandler \/ HandleRequestFlush
  <2>1. Cqe1.tag.op # "Accept" /\ \E c, new : Updates(c, new)
    BY <1>5, PollOutFacts, FindHandlerFacts, RequestFlushFacts
  <2> QED  BY <1>1, <2>1
<1>6. CASE HandleGenerateResponse
  BY <1>1, <1>6, GenerateResponseFacts
<1>7. CASE HandleNothing
  BY <1>7, NothingFacts
<1> QED  BY <1>2, <1>3, <1>4, <1>5, <1>6, <1>7 DEF Handle

(* A handler that ends an accept posts the next one.                       *)
LEMMA ListensTaking ==
  ASSUME Types, Listens, Taking, NEW new, Queues(new),
         Cqe1 \in AcceptCqes => Count(new, AcceptReqs) > 0
  PROVE  Listens'
<1>1. UNCHANGED << fdtab, backlog, conns, foreign >>
  BY DEF Taking, kernelVars, bounds, others
<1>2. \A c \in Members(cq') : c.tag.op = "Accept" => c.res >= 0 \/ c.res = EINVAL
  BY TakingMembers DEF Listens
<1>3. /\ Count(new, AcceptReqs) \in Nat
      /\ Pending(AcceptReqs, AcceptCqes) \in Nat /\ Pending(AcceptReqs, AcceptCqes)' \in Nat
      /\ Pending(AcceptReqs, AcceptCqes)' + Once(Cqe1, AcceptCqes)
           = Pending(AcceptReqs, AcceptCqes) + Count(new, AcceptReqs)
  BY AcceptsBlind, TakingPending, PendingHas
<1>4. Pending(AcceptReqs, AcceptCqes)' > 0
  BY <1>3 DEF Listens, Once
<1> QED  BY <1>1, <1>2, <1>4 DEF Listens, Used

(* Every handler that takes the end of an accept posts the next.           *)
LEMMA ListensHandle ==
  ASSUME Types, Listens, Handle
  PROVE  Listens'
<1>1. CASE HandleAcceptFailed
  <2>1. PICK new : /\ Taking /\ Queues(new) /\ Cqe1.tag.op = "Accept" /\ Cqe1.res <= 0
                   /\ \/ new = <<>> /\ Cqe1.res # EINVAL
                      \/ \E multi \in BOOLEAN : new = << AcceptOf(multi) >>
    BY <1>1, AcceptFailedFacts
  <2>2. CASE \E multi \in BOOLEAN : new = << AcceptOf(multi) >>
    BY <2>1, <2>2, AcceptOfCounts, ListensTaking
  <2>3. CASE Cqe1.res # EINVAL
    <3>1. Cqe1.res >= 0 /\ Cqe1.res \in Int
      BY <2>1, <2>3, AnswerFacts DEF Listens, Taking
    <3>2. Cqe1 \notin AcceptCqes
      BY <2>1, <3>1, AcceptCqesTagged
    <3> QED  BY <2>1, <3>2, ListensTaking
  <2> QED  BY <2>1, <2>2, <2>3
<1>2. CASE HandleAccepted
  <2>1. PICK recv, acc, multi :
          /\ Taking /\ Queues(recv \o acc) /\ recv \in Seq(Sqes) /\ acc \in Seq(Sqes)
          /\ multi \in BOOLEAN
          /\ (acc = <<>> /\ Cqe1.more) \/ acc = << AcceptOf(multi) >>
    BY <1>2, AcceptedFacts
  <2>2. Count(recv \o acc, AcceptReqs) = Count(recv, AcceptReqs) + Count(acc, AcceptReqs)
    BY <2>1, CountConcat
  <2>3. Count(recv, AcceptReqs) \in Nat
    BY <2>1, HitsFinite
  <2>4. Cqe1 \in AcceptCqes => Count(acc, AcceptReqs) = 1
    BY <2>1, AcceptCqesTagged, AcceptOfCounts
  <2>5. Cqe1 \in AcceptCqes => Count(recv \o acc, AcceptReqs) > 0
    BY <2>2, <2>3, <2>4
  <2> QED  BY <2>1, <2>5, ListensTaking
<1>3. CASE HandleThrow
  <2>1. UNCHANGED << sq, cq, ops, fdtab, backlog, conns, foreign >>
    BY <1>3 DEF HandleThrow, uringVars, kernelVars, bounds, others
  <2> QED  BY <2>1, QuietPending DEF Listens, Used
<1>4. CASE ~ HandleAcceptFailed /\ ~ HandleAccepted /\ ~ HandleThrow
  BY <1>4, HandlerQueues, AcceptCqesTagged, ListensTaking
<1> QED  BY <1>1, <1>2, <1>3, <1>4

(* The first accept is queued.                                             *)
LEMMA ListensInit ==
  ASSUME Init, IsFiniteSet(Fds)
  PROVE  Listens
<1>1. /\ cq = <<>> /\ sq = PostAccept(TRUE, FALSE) /\ backlog = <<>>
      /\ conns = 0 /\ foreign = 0 /\ fdtab = [ f \in Fds |-> 0 ]
  BY DEF Init, UringInit
<1>2. sq = << AcceptOf(TRUE) >>
  BY <1>1 DEF PostAccept
<1>3. Members(sq) = { AcceptOf(TRUE) } /\ AcceptOf(TRUE) \in AcceptReqs
  BY <1>2, MembersOne, AcceptTyped, Made DEF AcceptReqs
<1>4. Types
  BY InitTypes
<1>5. Pending(AcceptReqs, AcceptCqes) > 0
  BY <1>3, <1>4, PendingHas
<1>6. Members(cq) = {}
  BY <1>1, MembersOne
<1>7. Used = {}
  BY <1>1 DEF Used
<1>8. Cardinality(Used) + Len(backlog) <= conns + foreign
  BY <1>1, <1>7, FS_EmptySet
<1>9. foreign \in 0 .. MAX_FOREIGN
  BY <1>1, UringAssumption
<1> QED  BY <1>5, <1>6, <1>8, <1>9 DEF Listens

(* Every step keeps it.                                                    *)
LEMMA ListensStep ==
  ASSUME Types, Listens, [Next]_vars,
         IsFiniteSet(Fds), Cardinality(Fds) >= MAX_CONNS + MAX_FOREIGN
  PROVE  Listens'
<1>1. CASE Handle
  BY <1>1, ListensHandle
<1>2. CASE UringNext(Segment)
  <2>1. CASE KernelRecv(Segment) \/ KernelSend \/ KernelPoll
    <3>1. /\ UNCHANGED << fdtab, backlog, conns, foreign >>
          /\ \E op, cqe : Completes(op, cqe) /\ op.sqe.kind # "accept"
      BY <2>1, RecvDone, SendDone, PollDone DEF others
    <3> QED  BY <3>1, ListensCompletes
  <2> QED  BY <1>2, <2>1, ListensIssue, ListensAccept, ListensOthers DEF UringNext
<1>3. CASE UNCHANGED vars
  <2>1. UNCHANGED << sq, cq, ops, fdtab, backlog, conns, foreign >>
    BY <1>3 DEF vars, uringVars, kernelVars, bounds, others
  <2> QED  BY <2>1, QuietPending DEF Listens, Used
<1> QED  BY <1>1, <1>2, <1>3 DEF Next

(* It implies that an accept is outstanding.                               *)
LEMMA ListensGivesAccepts ==
  ASSUME Types, Listens
  PROVE  AcceptOutstanding
<1> DEFINE S == Reqs("accept", Tag(LISTEN_FD, "Accept"))
           A == Cqes(Tag(LISTEN_FD, "Accept"))
<1>1. AcceptReqs = S /\ AcceptCqes \subseteq A
  BY SqeFacts DEF AcceptReqs, AcceptCqes, Reqs, Cqes
<1>2. Accepts = Pending(S, A)
  BY UnderWayPending DEF Accepts
<1> HIDE DEF S, A
<1>3. \/ Members(sq) \cap S # {}
      \/ \E o \in DOMAIN ops : o.sqe \in S
      \/ Members(cq) \cap A # {}
  BY <1>1, PendingHas DEF Listens
<1>4. Pending(S, A) > 0
  BY <1>3, PendingHas
<1> QED  BY <1>2, <1>4 DEF AcceptOutstanding

(* As long as there are descriptors for the connections that come: with or *)
(* without multishot accepts, and whatever tags the tasks of the worker    *)
(* share with them, an accept is always outstanding.                       *)
THEOREM NeverStopsAccepting ==
  ASSUME IsFiniteSet(Fds),
         Cardinality(Fds) >= MAX_CONNS + MAX_FOREIGN
  PROVE  Spec => []AcceptOutstanding
<1>2. Init => Types /\ Listens
  BY InitTypes, ListensInit
<1>3. Types /\ Listens /\ [Next]_vars => (Types /\ Listens)'
  BY TypesStep, ListensStep
<1>4. Types /\ Listens => AcceptOutstanding
  BY ListensGivesAccepts
<1> QED  BY <1>2, <1>3, <1>4, PTL DEF Spec
=============================================================================
