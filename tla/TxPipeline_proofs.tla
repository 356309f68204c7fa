------------------------- MODULE TxPipeline_proofs -------------------------
(***************************************************************************)
(* Proofs about TxPipeline, for every number of buffers per response, every*)
(* size of the iovec array, every keep-alive limit and every number of     *)
(* responses and receive completions.                                      *)
(***************************************************************************)
EXTENDS TxPipeline, SequenceTheorems, FiniteSetTheorems, TLAPS

-----------------------------------------------------------------------------
(* The helpers of TxOps.                                                   *)

(* A batch taken from the queue keeps the order of all buffers, and has    *)
(* the shape HoldsBatch asks for.                                          *)
LEMMA TakeBatchKeepsOrder ==
  ASSUME NEW S, NEW t \in TxState(S), NEW n \in 1 .. Len(t.txq), IsBatch(t.txq, n)
  PROVE  /\ TakeBatch(t, n) \in TxState(S)
         /\ TakeBatch(t, n).tx_inflight \o TakeBatch(t, n).txq = t.txq
         /\ HoldsBatch(TakeBatch(t, n))
<1> DEFINE q == t.txq
           a == SubSeq(q, 1, n)
           b == SubSeq(q, n + 1, Len(q))
<1>1. q \in Seq(OwnedBuf(S)) /\ n \in 1 .. Len(q) /\ Len(q) \in Nat
  BY DEF TxState
<1>2. a \in Seq(OwnedBuf(S)) /\ b \in Seq(OwnedBuf(S))
  BY <1>1
<1>3. a \o b = q
  <2>1. a \o b = SubSeq(q, 1, Len(q))
    BY <1>1, ConcatAdjacentSubSeq
  <2>2. SubSeq(q, 1, Len(q)) = q
    BY <1>1, SubSeqFull
  <2> QED  BY <2>1, <2>2
<1>4. Len(a) = n /\ \A i \in 1 .. n : a[i] = q[i]
  BY <1>1
<1>5. q[n] \in OwnedBuf(S) /\ q[n].eor \in BOOLEAN
  <2>1. q[n] \in OwnedBuf(S)
    BY <1>1
  <2> QED  BY <2>1 DEF OwnedBuf
<1>6. TakeBatch(t, n) \in TxState(S)
  BY <1>2, <1>5 DEF TakeBatch, TxState
<1>7. n \in 1 .. MAX_IOV
  <2>1. \A i \in 1 .. n - 1 : i # MAX_IOV
    BY DEF IsBatch
  <2> QED  BY <1>1, <2>1, MaxIovAssumption
<1>8. \A i \in 1 .. n - 1 : ~ a[i].eor
  BY <1>1, <1>4 DEF IsBatch
<1>9. HoldsBatch(TakeBatch(t, n))
  BY <1>1, <1>4, <1>7, <1>8 DEF HoldsBatch, TakeBatch
<1> QED  BY <1>3, <1>6, <1>9 DEF TakeBatch

(* A rollback puts the buffers in flight back in front of the queue.       *)
LEMMA RollBackKeepsOrder ==
  ASSUME NEW S, NEW t \in TxState(S)
  PROVE  /\ RollBack(t) \in TxState(S)
         /\ RollBack(t).tx_inflight \o RollBack(t).txq = t.tx_inflight \o t.txq
         /\ HoldsBatch(RollBack(t))
<1>1. t.txq \in Seq(OwnedBuf(S)) /\ t.tx_inflight \in Seq(OwnedBuf(S))
  BY DEF TxState
<1>2. t.tx_inflight \o t.txq \in Seq(OwnedBuf(S))
  BY <1>1
<1>3. <<>> \o (t.tx_inflight \o t.txq) = t.tx_inflight \o t.txq
  BY <1>2, ConcatEmptySeq
<1> QED  BY <1>2, <1>3 DEF RollBack, TxState, HoldsBatch

(* A completion empties tx_inflight and leaves the queue alone.            *)
LEMMA CompletedKeepsQueue ==
  ASSUME NEW S, NEW t \in TxState(S)
  PROVE  /\ Completed(t) \in TxState(S)
         /\ Completed(t).tx_inflight \o Completed(t).txq = t.txq
         /\ HoldsBatch(Completed(t))
<1>1. t.txq \in Seq(OwnedBuf(S))
  BY DEF TxState
<1>2. <<>> \o t.txq = t.txq
  BY <1>1, ConcatEmptySeq
<1> QED  BY <1>1, <1>2 DEF Completed, TxState, HoldsBatch

-----------------------------------------------------------------------------
(* The inductive invariant: the checked invariants need the shape of what  *)
(* is in flight, and that on a live connection send_inflight means that    *)
(* the kernel really has a sendmsg.                                        *)
SendOutstanding == tx.send_inflight /\ ~ closing => sending # <<>>

IInv ==
  /\ TypeOK
  /\ StreamOrder
  /\ InflightPinned
  /\ InflightIsOneBatch
  /\ PolloutTruthful
  /\ SendOutstanding

(* What a step guarantees that reaches tx' and sending' from the fields t  *)
(* and the outstanding sendmsgs s, by a kick or by leaving them alone.     *)
Keeps(t, s) ==
  /\ tx' \in TxState(Segs)
  /\ flushes' \in Nat
  /\ sending' \in Seq(Seq(Buf))
  /\ HoldsBatch(tx')
  /\ Pinned(tx', sending')
  /\ tx'.tx_inflight \o tx'.txq = t.tx_inflight \o t.txq
  /\ (t.send_inflight => s # <<>>) => (tx'.send_inflight => sending' # <<>>)

(* A handler that does not kick keeps what IInv says of the send side.     *)
LEMMA NoKickKeeps ==
  ASSUME NEW t \in TxState(Segs), NEW s \in Seq(Seq(Buf)),
         HoldsBatch(t), Pinned(t, s),
         tx' = t, flushes' \in Nat, sending' = s
  PROVE  Keeps(t, s)
BY DEF Keeps

(* A kick keeps it, whether it finds a submission entry or not.            *)
LEMMA SendKickKeeps ==
  ASSUME NEW t \in TxState(Segs), NEW f \in Nat, NEW s \in Seq(Seq(Buf)),
         HoldsBatch(t), Pinned(t, s), SendKick(t, f, s)
  PROVE  Keeps(t, s)
<1>1. CASE NothingToKick(t) /\ tx' = t /\ flushes' = f /\ sending' = s
  BY <1>1, NoKickKeeps
<1>2. ASSUME ~ NothingToKick(t)
      PROVE  /\ t.txq \in Seq(OwnedBuf(Segs))
             /\ s = <<>>
             /\ t.tx_inflight \o t.txq = t.txq
  <2>1. ~ t.send_inflight /\ t.tx_inflight = <<>> /\ s = <<>>
    BY <1>2 DEF NothingToKick, HoldsBatch, Pinned
  <2>2. t.txq \in Seq(OwnedBuf(Segs))
    BY DEF TxState
  <2> QED  BY <2>1, <2>2, ConcatEmptySeq
<1>3. ASSUME ~ NothingToKick(t),
             NEW n \in 1 .. Len(t.txq), IsBatch(t.txq, n),
             tx' = TakeBatch(t, n), flushes' = f,
             sending' = Append(s, TakeBatch(t, n).tx_inflight)
      PROVE  Keeps(t, s)
  <2>1. /\ tx' \in TxState(Segs)
        /\ tx'.tx_inflight \o tx'.txq = t.txq
        /\ HoldsBatch(tx')
    BY <1>3, TakeBatchKeepsOrder
  <2>2. tx'.send_inflight
    BY <1>3 DEF TakeBatch
  <2>3. sending' = << tx'.tx_inflight >>
    BY <1>2, <1>3
  <2>4. tx'.tx_inflight \in Seq(Buf)
    BY <2>1 DEF TxState, Buf
  <2>5. flushes' \in Nat /\ sending' \in Seq(Seq(Buf)) /\ sending' # <<>>
    BY <1>3, <2>3, <2>4
  <2>6. Pinned(tx', sending')
    BY <2>2, <2>3, <2>4 DEF Pinned
  <2> QED  BY <1>2, <1>3, <2>1, <2>2, <2>5, <2>6 DEF Keeps
<1>4. ASSUME MAY_RUN_DRY, ~ NothingToKick(t),
             NEW n \in 1 .. Len(t.txq), IsBatch(t.txq, n),
             tx' = RollBack(TakeBatch(t, n)), sending' = s, flushes' = f + 1
      PROVE  Keeps(t, s)
  <2>1. /\ TakeBatch(t, n) \in TxState(Segs)
        /\ TakeBatch(t, n).tx_inflight \o TakeBatch(t, n).txq = t.txq
    BY <1>4, TakeBatchKeepsOrder
  <2>2. /\ tx' \in TxState(Segs)
        /\ tx'.tx_inflight \o tx'.txq = t.txq
        /\ HoldsBatch(tx')
    BY <1>4, <2>1, RollBackKeepsOrder
  <2>3. ~ tx'.send_inflight
    BY <1>4 DEF RollBack
  <2>4. flushes' \in Nat /\ sending' \in Seq(Seq(Buf)) /\ Pinned(tx', sending')
    BY <1>2, <1>4 DEF Pinned
  <2> QED  BY <1>2, <1>4, <2>2, <2>3, <2>4 DEF Keeps
<1> QED  BY <1>1, <1>3, <1>4 DEF SendKick

(* generate_response queues buffers.                                       *)
LEMMA ResponseType ==
  ASSUME NEW k \in Nat, NEW n \in Nat
  PROVE  Response(k, n) \in Seq(Buf) /\ Len(Response(k, n)) = n
<1> DEFINE e(j) == [ seg |-> <<k, j>>, eor |-> MARKS_EOR /\ j = n ]
<1>1. \A j \in 1 .. n : e(j) \in Buf
  BY PipelineAssumption DEF Buf, OwnedBuf, Segs
<1>2. Response(k, n) = [ j \in 1 .. n |-> e(j) ]
  BY DEF Response
<1>3. [ j \in 1 .. n |-> e(j) ] \in Seq(Buf)
  BY <1>1, SeqDef
<1> HIDE DEF e
<1> QED  BY <1>2, <1>3

(* A fresh connection satisfies the invariant.                             *)
LEMMA InitIInv == Init => IInv
<1> SUFFICES ASSUME Init PROVE IInv
  OBVIOUS
<1>1. TypeOK
  <2>1. InitTx \in TxState(Segs)
    BY DEF InitTx, TxState
  <2>2. <<>> \in Seq(Seq(Buf)) /\ <<>> \in Seq(Buf) /\ DOMAIN <<>> = {}
    OBVIOUS
  <2>3. \A i \in DOMAIN sending : Len(sending[i]) <= MAX_IOV
    BY <2>2 DEF Init
  <2> QED  BY <2>1, <2>2, <2>3 DEF Init, TypeOK
<1>2. <<>> \o <<>> \o <<>> = <<>>
  <2>1. <<>> \in Seq(Buf)
    OBVIOUS
  <2>2. <<>> \o <<>> = <<>>
    BY <2>1, ConcatEmptySeq
  <2> QED  BY <2>2
<1>3. StreamOrder
  BY <1>2 DEF Init, InitTx, StreamOrder
<1> QED  BY <1>1, <1>3 DEF Init, InitTx, IInv, InflightPinned, Pinned,
            InflightIsOneBatch, HoldsBatch, PolloutTruthful, SendOutstanding

(* Concatenation of sequences of buffers, regrouped.  Cat keeps \o opaque:  *)
(* only associativity is needed, not what a concatenation is.              *)
Cat(x, y) == x \o y

(* Concatenation of sequences of buffers is associative.                   *)
LEMMA CatAssociative ==
  \A a, b, c \in Seq(Buf) :
    Cat(a, b) \in Seq(Buf) /\ Cat(Cat(a, b), c) = Cat(a, Cat(b, c))
<1> SUFFICES ASSUME NEW a \in Seq(Buf), NEW b \in Seq(Buf), NEW c \in Seq(Buf)
             PROVE  /\ Cat(a, b) \in Seq(Buf)
                    /\ Cat(Cat(a, b), c) = Cat(a, Cat(b, c))
  OBVIOUS
<1>1. Cat(a, b) \in Seq(Buf)
  BY DEF Cat
<1>2. Cat(Cat(a, b), c) = Cat(a, Cat(b, c))
  BY DEF Cat
<1> QED  BY <1>1, <1>2

(* A batch may be split off what is queued without changing the order.     *)
LEMMA RegroupFields ==
  ASSUME NEW r \in Seq(Buf), NEW t \in TxState(Segs)
  PROVE  r \o t.tx_inflight \o t.txq = r \o (t.tx_inflight \o t.txq)
<1>1. t.tx_inflight \in Seq(Buf) /\ t.txq \in Seq(Buf)
  BY DEF TxState, Buf
<1>2. Cat(Cat(r, t.tx_inflight), t.txq) = Cat(r, Cat(t.tx_inflight, t.txq))
  BY <1>1, CatAssociative
<1> QED  BY <1>2, Zenon DEF Cat

(* An outstanding sendmsg has at most as many buffers as the iovec array,  *)
(* because it is the batch in flight.                                      *)
LEMMA SendingFits ==
  ASSUME NEW t, NEW s \in Seq(Seq(Buf)), HoldsBatch(t), Pinned(t, s)
  PROVE  \A i \in DOMAIN s : Len(s[i]) <= MAX_IOV
<1>1. CASE s = <<>>
  BY <1>1
<1>2. CASE s # <<>>
  <2>1. s = << t.tx_inflight >> /\ Len(t.tx_inflight) \in 1 .. MAX_IOV
    BY <1>2 DEF HoldsBatch, Pinned
  <2> QED  BY <2>1, MaxIovAssumption
<1> QED  BY <1>1, <1>2

(* A step keeps the invariant if it leaves the fields it starts the kick   *)
(* from, the history of releases and the poll in order.                    *)
LEMMA StepKeepsIInv ==
  ASSUME NEW t \in TxState(Segs), NEW s \in Seq(Seq(Buf)), Keeps(t, s),
         released' \in Seq(Buf), generated' \in Seq(Buf), accepted' \in Seq(Buf),
         released' \o (t.tx_inflight \o t.txq) = generated',
         t.send_inflight /\ ~ closing' => s # <<>>,
         closing' \in BOOLEAN, keep_alive' \in BOOLEAN, served' \in Nat,
         closes' \in Nat, recvs' \in Nat, responses' \in Nat, pollout_armed' \in BOOLEAN, polls' \in Nat,
         polls' = IF pollout_armed' THEN 1 ELSE 0
  PROVE  IInv'
<1>1. TypeOK'
  <2>1. \A i \in DOMAIN sending' : Len(sending'[i]) <= MAX_IOV
    BY SendingFits DEF Keeps
  <2> QED  BY <2>1 DEF Keeps, TypeOK
<1>2. StreamOrder'
  <2>1. tx' \in TxState(Segs)
    BY DEF Keeps
  <2>2. released' \o tx'.tx_inflight \o tx'.txq
          = released' \o (tx'.tx_inflight \o tx'.txq)
    BY <2>1, RegroupFields
  <2> QED  BY <2>2 DEF Keeps, StreamOrder
<1>3. (InflightPinned /\ InflightIsOneBatch)'
  BY DEF Keeps, InflightPinned, InflightIsOneBatch
<1>4. SendOutstanding'
  BY DEF Keeps, SendOutstanding
<1> QED  BY <1>1, <1>2, <1>3, <1>4 DEF IInv, PolloutTruthful

(* One step of the pipeline, action by action.                             *)
LEMMA NextIInv == IInv /\ [Next]_vars => IInv'
<1> SUFFICES ASSUME IInv, [Next]_vars PROVE IInv'
  OBVIOUS
<1>t. /\ tx \in TxState(Segs)
      /\ flushes \in Nat /\ polls \in Nat /\ served \in Nat /\ closes \in Nat
      /\ recvs \in Nat /\ responses \in Nat
      /\ sending \in Seq(Seq(Buf))
      /\ pollout_armed \in BOOLEAN /\ closing \in BOOLEAN /\ keep_alive \in BOOLEAN
      /\ generated \in Seq(Buf) /\ released \in Seq(Buf) /\ accepted \in Seq(Buf)
  BY DEF IInv, TypeOK
<1>q. tx.txq \in Seq(Buf) /\ tx.tx_inflight \in Seq(Buf) /\ tx.send_inflight \in BOOLEAN
  BY <1>t DEF TxState, Buf
<1>i. /\ Pinned(tx, sending) /\ HoldsBatch(tx)
      /\ polls = IF pollout_armed THEN 1 ELSE 0
      /\ tx.send_inflight /\ ~ closing => sending # <<>>
  BY DEF IInv, InflightPinned, InflightIsOneBatch, PolloutTruthful, SendOutstanding
<1>p. /\ polls \in Nat /\ pollout_armed \in BOOLEAN
      /\ pollout_armed => polls = 1
      /\ ~ pollout_armed => polls = 0
  BY <1>t, <1>i
<1>o. released \o (tx.tx_inflight \o tx.txq) = generated
  <2>1. released \o tx.tx_inflight \o tx.txq = generated
    BY DEF IInv, StreamOrder
  <2>2. released \o tx.tx_inflight \o tx.txq = released \o (tx.tx_inflight \o tx.txq)
    BY <1>t, RegroupFields
  <2> QED  BY <2>1, <2>2
<1>1. ASSUME NEW n \in RESPONSE_BUFS, GenerateResponse(n)
      PROVE  IInv'
  <2> DEFINE R == Response(responses + 1, n)
             queued == [ tx EXCEPT !.txq = @ \o R ]
  <2>1. R \in Seq(Buf)
    BY <1>t, PipelineAssumption, ResponseType
  <2>2. /\ generated' = generated \o R /\ responses' = responses + 1
        /\ UNCHANGED << pollout_armed, polls, closing, served, closes, recvs,
                        released, accepted >>
        /\ keep_alive' \in BOOLEAN
    BY <1>1, PipelineAssumption DEF GenerateResponse
  <2>3. \/ tx' = queued /\ flushes' = flushes + 1 /\ UNCHANGED sending
        \/ SendKick(queued, flushes, sending)
    BY <1>1 DEF GenerateResponse
  <2> HIDE DEF R
  <2>4. /\ queued \in TxState(Segs)
        /\ queued.txq = tx.txq \o R
        /\ queued.tx_inflight = tx.tx_inflight
        /\ queued.send_inflight = tx.send_inflight
        /\ queued.inflight_eor = tx.inflight_eor
    <3>1. tx.txq \o R \in Seq(OwnedBuf(Segs))
      BY <1>q, <2>1 DEF Buf
    <3> QED  BY <1>t, <3>1 DEF TxState
  <2> HIDE DEF queued
  <2>5. HoldsBatch(queued) /\ Pinned(queued, sending)
    BY <1>i, <2>4 DEF HoldsBatch, Pinned
  <2>6. Keeps(queued, sending)
    BY <1>t, <2>3, <2>4, <2>5, NoKickKeeps, SendKickKeeps
  <2>7. generated \o R \in Seq(Buf)
    BY <1>t, <2>1
  <2>8. released \o (queued.tx_inflight \o queued.txq) = generated \o R
    <3>1. /\ released \in Seq(Buf) /\ tx.tx_inflight \in Seq(Buf)
          /\ tx.txq \in Seq(Buf)
      BY <1>t, <1>q
    <3>2. released \o (tx.tx_inflight \o (tx.txq \o R))
            = released \o (tx.tx_inflight \o tx.txq) \o R
      <4> DEFINE r == released
                 i == tx.tx_inflight
                 q == tx.txq
      <4>1. r \in Seq(Buf) /\ i \in Seq(Buf) /\ q \in Seq(Buf)
        BY <3>1
      <4> HIDE DEF r, i, q
      <4>2. Cat(r, Cat(i, Cat(q, R))) = Cat(Cat(r, Cat(i, q)), R)
        BY <2>1, <4>1, CatAssociative
      <4> QED  BY <4>2, Zenon DEF Cat, r, i, q
    <3> QED  BY <1>o, <2>4, <3>2
  <2>9. queued.send_inflight /\ ~ closing' => sending # <<>>
    BY <1>i, <2>2, <2>4
  <2>10. /\ released' \in Seq(Buf) /\ generated' \in Seq(Buf) /\ accepted' \in Seq(Buf)
         /\ closing' \in BOOLEAN /\ keep_alive' \in BOOLEAN /\ served' \in Nat
         /\ closes' \in Nat
         /\ recvs' \in Nat /\ responses' \in Nat
         /\ pollout_armed' \in BOOLEAN /\ polls' \in Nat
         /\ polls' = IF pollout_armed' THEN 1 ELSE 0
    BY <1>t, <1>i, <2>2, <2>7
  <2>11. released' \o (queued.tx_inflight \o queued.txq) = generated'
    BY <2>2, <2>8
  <2> QED  BY <1>t, <2>4, <2>6, <2>9, <2>10, <2>11, StepKeepsIInv
<1>s. ASSUME sending # <<>>
      PROVE  /\ tx.send_inflight /\ sending = << tx.tx_inflight >>
             /\ Head(sending) = tx.tx_inflight /\ Tail(sending) = <<>>
  BY <1>t, <1>i, <1>s DEF Pinned
<1>e. <<>> \in Seq(Seq(Buf)) /\ \A t : Pinned(t, <<>>)
  BY DEF Pinned
(* Steps that leave the histories alone and start a kick, or none, at tx.  *)
<1>k. ASSUME Keeps(tx, sending), UNCHANGED << released, accepted, generated >>,
             served' \in Nat, closes' \in Nat, recvs' \in Nat, responses' \in Nat,
             closing' \in BOOLEAN, ~ closing' => ~ closing, keep_alive' \in BOOLEAN,
             pollout_armed' \in BOOLEAN, polls' \in Nat,
             polls' = IF pollout_armed' THEN 1 ELSE 0
      PROVE  IInv'
  <2>1. released' \o (tx.tx_inflight \o tx.txq) = generated'
    BY <1>o, <1>k
  <2>2. tx.send_inflight /\ ~ closing' => sending # <<>>
    BY <1>i, <1>k
  <2>3. released' \in Seq(Buf) /\ generated' \in Seq(Buf) /\ accepted' \in Seq(Buf)
    BY <1>t, <1>k
  <2> QED  BY <1>t, <1>k, <2>1, <2>2, <2>3, StepKeepsIInv
<1>2. CASE RequestFlush
  <2>1. Keeps(tx, sending)
    <3>1. flushes - 1 \in Nat /\ SendKick(tx, flushes - 1, sending)
      BY <1>t, <1>2 DEF RequestFlush
    <3> QED  BY <1>t, <1>i, <3>1, SendKickKeeps
  <2> QED  BY <1>t, <1>i, <1>k, <1>2, <2>1 DEF RequestFlush
<1>3. ASSUME NEW malformed \in BOOLEAN, RecvData(malformed)
      PROVE  IInv'
  <2>1. Keeps(tx, sending)
    BY <1>t, <1>i, <1>3, SendKickKeeps DEF RecvData
  <2>2. closing' \in BOOLEAN /\ (~ closing' => ~ closing)
    BY <1>t, <1>3 DEF RecvData
  <2>3. recvs' \in Nat /\ keep_alive' \in BOOLEAN
    BY <1>t, <1>3, PipelineAssumption DEF RecvData
  <2> QED  BY <1>t, <1>i, <1>k, <1>3, <2>1, <2>2, <2>3 DEF RecvData
<1>4. CASE RecvClose
  <2>1. Keeps(tx, sending)
    BY <1>t, <1>i, <1>4, NoKickKeeps DEF RecvClose
  <2>2. closing' = TRUE /\ closes' \in Nat /\ recvs' \in Nat
    BY <1>t, <1>4 DEF RecvClose, StartClose
  <2> QED  BY <1>t, <1>i, <1>k, <1>4, <2>1, <2>2 DEF RecvClose
<1>5. CASE SendCompleted
  <2> DEFINE t == Completed(tx)
  <2>1. sending # <<>> /\ tx.send_inflight /\ Head(sending) = tx.tx_inflight
          /\ Tail(sending) = <<>>
    BY <1>s, <1>5 DEF SendCompleted
  <2>2. t \in TxState(Segs) /\ t.tx_inflight \o t.txq = tx.txq /\ HoldsBatch(t)
    BY <1>t, CompletedKeepsQueue
  <2>3. ~ t.send_inflight
    BY DEF Completed
  <2>4. /\ released' = released \o tx.tx_inflight
        /\ UNCHANGED << pollout_armed, polls, keep_alive, recvs, responses, generated >>
    BY <1>5, <2>1 DEF SendCompleted
  <2>s. served' \in Nat
    <3>1. served' = served \/ served' = served + 1
      BY <1>5 DEF SendCompleted
    <3> QED  BY <1>t, <3>1
  <2>5. accepted' \in Seq(Buf)
    <3>1. PICK n \in 0 .. Len(tx.tx_inflight) :
            accepted' = accepted \o SubSeq(tx.tx_inflight, 1, n)
      BY <1>5, <2>1 DEF SendCompleted
    <3>2. SubSeq(tx.tx_inflight, 1, n) \in Seq(Buf)
      BY <1>q
    <3> QED  BY <1>t, <3>1, <3>2
  <2>6. Keeps(t, <<>>) /\ closing' \in BOOLEAN /\ closes' \in Nat
    <3>1. CASE /\ tx' = t /\ sending' = Tail(sending)
               /\ StartClose /\ UNCHANGED flushes
      <4>1. Keeps(t, <<>>)
        BY <1>t, <1>e, <2>1, <2>2, <3>1, NoKickKeeps
      <4>2. closing' \in BOOLEAN /\ closes' \in Nat
        BY <1>t, <3>1 DEF StartClose
      <4> QED  BY <4>1, <4>2
    <3>2. CASE /\ SendKick(t, flushes, Tail(sending))
               /\ UNCHANGED << closing, closes >>
      BY <1>t, <1>e, <2>1, <2>2, <3>2, SendKickKeeps
    <3> QED  BY <1>5, <3>1, <3>2 DEF SendCompleted
  <2> HIDE DEF t
  <2>7. released \o tx.tx_inflight \in Seq(Buf)
    BY <1>t, <1>q
  <2>8. released' \o (t.tx_inflight \o t.txq) = generated'
    <3>1. released \o tx.tx_inflight \o tx.txq = generated
      BY DEF IInv, StreamOrder
    <3> QED  BY <2>2, <2>4, <3>1
  <2>9. /\ released' \in Seq(Buf) /\ generated' \in Seq(Buf)
        /\ recvs' \in Nat /\ responses' \in Nat /\ keep_alive' \in BOOLEAN
        /\ pollout_armed' \in BOOLEAN /\ polls' \in Nat
        /\ polls' = IF pollout_armed' THEN 1 ELSE 0
    BY <1>t, <1>i, <2>4, <2>7
  <2> QED  BY <1>e, <2>2, <2>3, <2>s, <2>5, <2>6, <2>8, <2>9, StepKeepsIInv
<1>6. CASE SendAgain
  <2> DEFINE t == RollBack(tx)
  <2>1. sending # <<>> /\ Tail(sending) = <<>>
    BY <1>s, <1>6 DEF SendAgain
  <2>2. /\ t \in TxState(Segs) /\ HoldsBatch(t)
        /\ t.tx_inflight \o t.txq = tx.tx_inflight \o tx.txq
    BY <1>t, RollBackKeepsOrder
  <2>3. ~ t.send_inflight
    BY DEF RollBack
  <2>4. Keeps(t, <<>>)
    BY <1>t, <1>e, <1>6, <2>1, <2>2, NoKickKeeps DEF SendAgain
  <2>5. UNCHANGED << closing, keep_alive, served, closes, recvs, responses,
                     generated, released, accepted >>
    BY <1>6 DEF SendAgain
  <2>6. /\ pollout_armed' \in BOOLEAN /\ polls' \in Nat
        /\ polls' = IF pollout_armed' THEN 1 ELSE 0
    <3>1. \/ ~ pollout_armed /\ pollout_armed' = TRUE /\ polls' = polls + 1
          \/ UNCHANGED << pollout_armed, polls >>
      BY <1>6 DEF SendAgain, UpdatePollout
    <3>2. CASE ~ pollout_armed /\ pollout_armed' = TRUE /\ polls' = polls + 1
      <4>1. polls' = 1
        BY <1>p, <3>2
      <4> QED  BY <3>2, <4>1
    <3>3. CASE UNCHANGED << pollout_armed, polls >>
      BY <1>t, <1>i, <3>3
    <3> QED  BY <3>1, <3>2, <3>3
  <2> HIDE DEF t
  <2>7. released' \o (t.tx_inflight \o t.txq) = generated'
    BY <1>o, <2>2, <2>5
  <2> QED  BY <1>t, <1>e, <2>2, <2>3, <2>4, <2>5, <2>6, <2>7, StepKeepsIInv
<1>7. CASE SendError
  <2>1. sending # <<>> /\ Tail(sending) = <<>>
    BY <1>s, <1>7 DEF SendError
  <2>2. Keeps(tx, <<>>)
    BY <1>t, <1>i, <1>e, <1>7, <2>1, NoKickKeeps DEF SendError
  <2>3. closing' = TRUE /\ closes' \in Nat
    BY <1>t, <1>7 DEF SendError, StartClose
  <2>4. UNCHANGED << pollout_armed, polls, keep_alive, served, recvs, responses,
                     generated, released, accepted >>
    BY <1>7 DEF SendError
  <2>5. released' \o (tx.tx_inflight \o tx.txq) = generated'
    BY <1>o, <2>4
  <2> QED  BY <1>t, <1>i, <1>e, <2>2, <2>3, <2>4, <2>5, StepKeepsIInv
<1>8. CASE PollOut
  <2>1. Keeps(tx, sending)
    BY <1>t, <1>i, <1>8, SendKickKeeps DEF PollOut
  <2>2. /\ pollout_armed' \in BOOLEAN /\ polls' \in Nat
        /\ polls' = IF pollout_armed' THEN 1 ELSE 0
    <3>1. pollout_armed' = FALSE /\ polls > 0 /\ polls' = polls - 1
      BY <1>8 DEF PollOut
    <3>2. polls = 1 /\ polls' = 0
      BY <1>p, <3>1
    <3>3. pollout_armed' = FALSE
      BY <3>1
    <3>4. polls' = IF pollout_armed' THEN 1 ELSE 0
      BY <3>2, <3>3
    <3>5. polls' \in Nat
      BY <3>2
    <3>6. pollout_armed' \in BOOLEAN
      BY <3>3
    <3> QED  BY <3>4, <3>5, <3>6
  <2>3. UNCHANGED << closing, keep_alive, served, closes, recvs, responses,
                     generated, released, accepted >>
    BY <1>8 DEF PollOut
  <2> QED  BY <1>t, <1>k, <2>1, <2>2, <2>3
<1>9. CASE UNCHANGED vars
  <2>1. Keeps(tx, sending)
    BY <1>t, <1>i, <1>9, NoKickKeeps DEF vars
  <2> QED  BY <1>t, <1>i, <1>k, <1>9, <2>1 DEF vars
<1> QED  BY <1>1, <1>2, <1>3, <1>4, <1>5, <1>6, <1>7, <1>8, <1>9 DEF Next

-----------------------------------------------------------------------------
(* The inductive invariant holds in every reachable state.                 *)
THEOREM InvariantHolds == Spec => []IInv
<1>1. Init => IInv
  BY InitIInv
<1>2. IInv /\ [Next]_vars => IInv'
  BY NextIInv
<1> QED  BY <1>1, <1>2, PTL DEF Spec

(* Every variable keeps its type (all handlers of worker.cpp that touch    *)
(* the send side of a PerClientStorage).                                   *)
THEOREM TypeCorrect == Spec => []TypeOK
<1>1. IInv => TypeOK
  BY DEF IInv
<1> QED  BY <1>1, InvariantHolds, PTL

(* Buffers are handed over and released in the order generate_response     *)
(* queued them, through any batches, rollbacks and retries.                *)
THEOREM OrderKept == Spec => []StreamOrder
<1>1. IInv => StreamOrder
  BY DEF IInv
<1> QED  BY <1>1, InvariantHolds, PTL

(* sendkick_inline never overwrites the iovec array of a sendmsg the kernel*)
(* still works on, and on_send_completed never frees its buffers early.    *)
THEOREM OneSendPinned == Spec => []InflightPinned
<1>1. IInv => InflightPinned
  BY DEF IInv
<1> QED  BY <1>1, InvariantHolds, PTL

(* No batch is longer than the iovec array or reaches past the end of a    *)
(* response.                                                               *)
THEOREM OneBatchInFlight == Spec => []InflightIsOneBatch
<1>1. IInv => InflightIsOneBatch
  BY DEF IInv
<1> QED  BY <1>1, InvariantHolds, PTL

(* pollout_armed is never stale.                                           *)
THEOREM PollFlagTruthful == Spec => []PolloutTruthful
<1>1. IInv => PolloutTruthful
  BY DEF IInv
<1> QED  BY <1>1, InvariantHolds, PTL

-----------------------------------------------------------------------------
(* A kick that finds a submission entry leaves nothing queued unless a     *)
(* sendmsg is in flight.                                                   *)
LEMMA SendKickMoves ==
  ASSUME ~ MAY_RUN_DRY, NEW t, NEW f, NEW s, SendKick(t, f, s)
  PROVE  tx'.txq = <<>> \/ tx'.send_inflight
<1>1. CASE NothingToKick(t) /\ tx' = t
  BY <1>1 DEF NothingToKick
<1>2. ASSUME NEW n \in 1 .. Len(t.txq), tx' = TakeBatch(t, n)
      PROVE  tx'.send_inflight
  BY <1>2 DEF TakeBatch
<1> QED  BY <1>1, <1>2 DEF SendKick

(* No handler leaves queued data of a live connection without a wake-up.   *)
LEMMA NextNoLostFlush ==
  ASSUME ~ MAY_RUN_DRY, IInv, IInv', NoLostFlush, [Next]_vars
  PROVE  NoLostFlush'
<1>1. SUFFICES ASSUME tx'.txq # <<>>, ~ closing'
               PROVE  flushes' > 0 \/ sending' # <<>> \/ polls' > 0
  BY DEF NoLostFlush
(* In the new state a sendmsg in flight is one the kernel has.             *)
<1>2. ASSUME NEW t, NEW f, NEW s, SendKick(t, f, s)
      PROVE  sending' # <<>>
  <2>1. tx'.send_inflight
    BY <1>1, <1>2, SendKickMoves
  <2> QED  BY <1>1, <2>1 DEF IInv, SendOutstanding
<1>3. ASSUME NEW n \in RESPONSE_BUFS, GenerateResponse(n)
      PROVE  flushes' > 0 \/ sending' # <<>>
  <2>1. flushes' = flushes + 1
    BY <1>3 DEF GenerateResponse
  <2> QED  BY <2>1 DEF IInv, TypeOK
<1>4. CASE RequestFlush
  BY <1>2, <1>4 DEF RequestFlush
<1>5. ASSUME NEW malformed \in BOOLEAN, RecvData(malformed)
      PROVE  sending' # <<>>
  BY <1>2, <1>5 DEF RecvData
<1>6. CASE RecvClose \/ SendError
  BY <1>1, <1>6 DEF RecvClose, SendError, StartClose
<1>7. CASE SendCompleted
  <2>1. CASE StartClose
    BY <1>1, <2>1 DEF StartClose
  <2>2. CASE SendKick(Completed(tx), flushes, Tail(sending))
    BY <1>2, <2>2
  <2> QED  BY <1>7, <2>1, <2>2 DEF SendCompleted
<1>8. CASE SendAgain
  <2>1. pollout_armed'
    BY <1>8 DEF SendAgain, UpdatePollout
  <2>2. polls' = 1
    BY <2>1 DEF IInv, PolloutTruthful
  <2> QED  BY <2>2
<1>9. CASE PollOut
  BY <1>2, <1>9 DEF PollOut
<1>10. CASE UNCHANGED vars
  BY <1>1, <1>10 DEF vars, NoLostFlush
<1> QED  BY <1>3, <1>4, <1>5, <1>6, <1>7, <1>8, <1>9, <1>10 DEF Next

(* When every request for a submission entry is met, queued data of a live *)
(* connection always has a task, a sendmsg or a poll that will move it on. *)
THEOREM NoFlushLost ==
  ASSUME ~ MAY_RUN_DRY
  PROVE  Spec => []NoLostFlush
<1>1. Init => NoLostFlush
  BY DEF Init, InitTx, NoLostFlush
<1>2. IInv /\ IInv' /\ NoLostFlush /\ [Next]_vars => NoLostFlush'
  BY NextNoLostFlush
<1> QED  BY <1>1, <1>2, InvariantHolds, PTL DEF Spec

-----------------------------------------------------------------------------
(* A prefix of a concatenation is its first part.                          *)
LEMMA PrefixOfConcat ==
  ASSUME NEW a \in Seq(Buf), NEW b \in Seq(Buf)
  PROVE  /\ Len(a \o b) = Len(a) + Len(b)
         /\ SubSeq(a \o b, 1, Len(a)) = a
<1>1. SubSeq(a \o b, 1, Len(a)) \in Seq(Buf) /\ Len(SubSeq(a \o b, 1, Len(a))) = Len(a)
  OBVIOUS
<1>2. \A i \in 1 .. Len(a) : SubSeq(a \o b, 1, Len(a))[i] = a[i]
  OBVIOUS
<1> QED  BY <1>1, <1>2, SeqEqual

(* A part of the middle of three sequences is a part of the whole.         *)
LEMMA PartOfConcat ==
  ASSUME NEW a \in Seq(Buf), NEW b \in Seq(Buf), NEW c \in Seq(Buf),
         NEW n \in 0 .. Len(b)
  PROVE  SubSeq((a \o b) \o c, Len(a) + 1, Len(a) + n) = SubSeq(b, 1, n)
<1> DEFINE w == (a \o b) \o c
           x == SubSeq(w, Len(a) + 1, Len(a) + n)
<1>1. /\ w \in Seq(Buf) /\ Len(w) = Len(a) + Len(b) + Len(c)
      /\ \A i \in 1 .. Len(b) : w[Len(a) + i] = b[i]
  OBVIOUS
<1> HIDE DEF w
<1>2. x \in Seq(Buf) /\ Len(x) = n /\ \A i \in 1 .. n : x[i] = w[Len(a) + i]
  BY <1>1
<1>3. SubSeq(b, 1, n) \in Seq(Buf) /\ Len(SubSeq(b, 1, n)) = n
  OBVIOUS
<1>4. \A i \in 1 .. n : SubSeq(b, 1, n)[i] = b[i]
  OBVIOUS
<1> HIDE DEF x
<1>5. \A i \in 1 .. n : x[i] = SubSeq(b, 1, n)[i]
  BY <1>1, <1>2, <1>4
<1>6. x = SubSeq(b, 1, n)
  BY <1>2, <1>3, <1>5, SeqEqual
<1> QED  BY <1>6 DEF x, w

(* Every step of the pipeline is a step of the stream or leaves it alone.  *)
LEMMA NextImplementsStream ==
  ASSUME IInv, [Next]_vars
  PROVE  [Stream!StreamNext]_(Stream!streamVars)
<1>t. /\ tx \in TxState(Segs) /\ generated \in Seq(Buf) /\ released \in Seq(Buf)
      /\ responses \in Nat /\ sending \in Seq(Seq(Buf))
  BY DEF IInv, TypeOK
<1>1. ASSUME NEW n \in RESPONSE_BUFS, GenerateResponse(n)
      PROVE  Stream!Generate
  <2> DEFINE R == Response(responses + 1, n)
  <2>1. R \in Seq(Buf) /\ Len(R) = n /\ n > 0 /\ n \in Nat
    BY <1>t, PipelineAssumption, ResponseType
  <2>2. generated' = generated \o R /\ UNCHANGED << released, accepted >>
    BY <1>1 DEF GenerateResponse
  <2> HIDE DEF R
  <2>3. /\ Len(generated \o R) = Len(generated) + Len(R)
        /\ SubSeq(generated \o R, 1, Len(generated)) = generated
    BY <1>t, <2>1, PrefixOfConcat
  <2>4. Len(generated') > Len(generated)
    BY <1>t, <2>1, <2>2, <2>3
  <2> QED  BY <2>2, <2>3, <2>4 DEF Stream!Generate
<1>2. CASE SendCompleted
  <2> DEFINE m == tx.tx_inflight
             q == tx.txq
  <2>1. /\ m \in Seq(Buf) /\ q \in Seq(Buf)
        /\ Len(m) \in 1 .. MAX_IOV
        /\ \A i \in 1 .. Len(m) - 1 : ~ m[i].eor
        /\ Head(sending) = m
    <3>1. tx.send_inflight /\ Head(sending) = m
      BY <1>t, <1>2 DEF SendCompleted, IInv, InflightPinned, Pinned
    <3>2. m \in Seq(Buf) /\ q \in Seq(Buf)
      BY <1>t DEF TxState, Buf
    <3> QED  BY <3>1, <3>2 DEF IInv, InflightIsOneBatch, HoldsBatch
  <2>2. /\ released' = released \o m /\ UNCHANGED generated
        /\ \E n \in 0 .. Len(m) :
             /\ n = Len(m) \/ SHORT_WRITES
             /\ accepted' = accepted \o SubSeq(m, 1, n)
    BY <1>2, <2>1 DEF SendCompleted
  <2>3. generated = (released \o m) \o q
    BY DEF IInv, StreamOrder
  <2> HIDE DEF m, q
  <2>4. released \o m \in Seq(Buf) /\ Len(released \o m) = Len(released) + Len(m)
    BY <1>t, <2>1
  <2>5. /\ Len(generated) = Len(released \o m) + Len(q)
        /\ SubSeq(generated, 1, Len(released \o m)) = released \o m
    BY <2>1, <2>3, <2>4, PrefixOfConcat
  <2>6. \A i \in Len(released) + 1 .. Len(released \o m) - 1 : ~ generated[i].eor
    <3> SUFFICES ASSUME NEW i \in Len(released) + 1 .. Len(released \o m) - 1
                 PROVE  ~ generated[i].eor
      OBVIOUS
    <3>1. generated[i] = (released \o m)[i]
      BY <1>t, <2>1, <2>3, <2>4
    <3>2. (released \o m)[i] = m[i - Len(released)]
      BY <1>t, <2>1, <2>4
    <3>3. i - Len(released) \in 1 .. Len(m) - 1
      BY <1>t, <2>1, <2>4
    <3> QED  BY <2>1, <3>1, <3>2, <3>3
  <2>7. /\ Len(released') = Len(released) + Len(m)
        /\ Len(released) \in Nat /\ Len(m) \in Nat
        /\ Len(released') - Len(released) \in 1 .. MAX_IOV
        /\ Len(released') <= Len(generated)
    BY <1>t, <2>1, <2>2, <2>4, <2>5, MaxIovAssumption
  <2>8. released' = SubSeq(generated, 1, Len(released'))
    BY <2>2, <2>5
  <2>9. \E upto \in Len(released) .. Len(released') :
          /\ upto = Len(released') \/ SHORT_WRITES
          /\ accepted' = accepted \o SubSeq(generated, Len(released) + 1, upto)
    <3>1. PICK n \in 0 .. Len(m) : /\ n = Len(m) \/ SHORT_WRITES
                                   /\ accepted' = accepted \o SubSeq(m, 1, n)
      BY <2>2
    <3>2. SubSeq(generated, Len(released) + 1, Len(released) + n) = SubSeq(m, 1, n)
      <4>1. SubSeq((released \o m) \o q, Len(released) + 1, Len(released) + n)
              = SubSeq(m, 1, n)
        BY <1>t, <2>1, PartOfConcat
      <4> QED  BY <2>3, <4>1, Zenon
    <3> DEFINE P(u) == /\ u = Len(released') \/ SHORT_WRITES
                       /\ accepted' = accepted \o SubSeq(generated, Len(released) + 1, u)
    <3>3. /\ Len(released) + n \in Len(released) .. Len(released')
          /\ n = Len(m) => Len(released) + n = Len(released')
      BY <2>7
    <3>4. P(Len(released) + n)
      BY <3>1, <3>2, <3>3, Zenon
    <3> HIDE DEF P
    <3>5. \E u \in Len(released) .. Len(released') : P(u)
      BY <3>3, <3>4, Zenon
    <3> QED  BY <3>5, Zenon DEF P
  <2>10. \A i \in Len(released) + 1 .. Len(released') - 1 : ~ generated[i].eor
    BY <2>2, <2>6
  <2>11. Stream!Deliver
    BY <2>2, <2>7, <2>8, <2>9, <2>10, Zenon DEF Stream!Deliver
  <2> QED  BY <2>11 DEF Stream!StreamNext
<1>3. CASE UNCHANGED << generated, released, accepted >>
  BY <1>3 DEF Stream!streamVars
<1> QED  BY <1>1, <1>2, <1>3 DEF Stream!StreamNext, Next, vars, RequestFlush, RecvData,
            RecvClose, SendAgain, SendError, PollOut

(* What the pipeline hands to the socket is what was generated, in order   *)
(* and in groups that sendkick_inline may form, and whatever the result of *)
(* a sendmsg, only the end of its group can be missing: the pipeline       *)
(* implements ResponseStream.                                              *)
THEOREM PipelineImplementsStream == Spec => ImplementsStream
<1>1. Init => Stream!StreamInit
  BY DEF Init, Stream!StreamInit
<1>2. IInv /\ [Next]_vars => [Stream!StreamNext]_(Stream!streamVars)
  BY NextImplementsStream
<1> QED  BY <1>1, <1>2, InvariantHolds, PTL
         DEF Spec, ImplementsStream, Stream!StreamSpec

-----------------------------------------------------------------------------
(* With end-of-response marks: the mark is on the last buffer of each      *)
(* response and nowhere else, and served counts the marks released.        *)
MarksEnds ==
  \A i \in 1 .. Len(generated) :
    /\ generated[i].seg[1] <= responses
    /\ generated[i].eor <=> EndsResponse(i)

MarksReleased == { i \in 1 .. Len(released) : released[i].eor }

CountsMarks == served = Cardinality(MarksReleased)

(* generate_response marks the last buffer of a response and no other.     *)
LEMMA NextMarksEnds ==
  ASSUME MARKS_EOR, IInv, MarksEnds, [Next]_vars
  PROVE  MarksEnds'
<1>t. generated \in Seq(Buf) /\ responses \in Nat
  BY DEF IInv, TypeOK
<1>1. ASSUME NEW n \in RESPONSE_BUFS, GenerateResponse(n)
      PROVE  MarksEnds'
  <2> DEFINE R == Response(responses + 1, n)
             L == Len(generated)
  <2>1. generated' = generated \o R /\ responses' = responses + 1
    BY <1>1 DEF GenerateResponse
  <2>2. R \in Seq(Buf) /\ Len(R) = n /\ n \in Nat \ {0}
    BY <1>t, PipelineAssumption, ResponseType
  <2>3. \A j \in 1 .. n : R[j].seg[1] = responses + 1 /\ (R[j].eor <=> j = n)
    BY DEF Response
  <2> HIDE DEF R
  <2>4. /\ L \in Nat
        /\ Len(generated') = L + n
        /\ \A i \in 1 .. L : generated'[i] = generated[i]
        /\ \A i \in L + 1 .. L + n : generated'[i] = R[i - L]
    <3>1. /\ Len(generated \o R) = Len(generated) + Len(R)
          /\ \A i \in 1 .. Len(generated) + Len(R) :
               (generated \o R)[i]
                 = IF i <= Len(generated) THEN generated[i] ELSE R[i - Len(generated)]
      BY <1>t, <2>2, ConcatProperties
    <3>2. L \in Nat /\ Len(generated') = L + n
      BY <1>t, <2>1, <2>2, <3>1
    <3> HIDE DEF L
    <3>3. ASSUME NEW i \in 1 .. L + n
          PROVE  generated'[i] = IF i <= L THEN generated[i] ELSE R[i - L]
      BY <2>1, <2>2, <3>1 DEF L
    <3> QED  BY <2>2, <3>2, <3>3
  <2>5. \A i \in 1 .. L : generated[i].seg[1] \in Nat
    <3> SUFFICES ASSUME NEW i \in 1 .. L PROVE generated[i].seg[1] \in Nat
      OBVIOUS
    <3>1. generated[i] \in Buf
      BY <1>t
    <3>2. generated[i].seg \in Nat \X Nat
      BY <3>1 DEF Buf, OwnedBuf, Segs
    <3> QED  BY <3>2
  <2> HIDE DEF L
  <2>6. ASSUME NEW i \in 1 .. L + n
        PROVE  /\ generated'[i].seg[1] <= responses'
               /\ generated'[i].eor <=> EndsResponse(i)'
    <3>e. EndsResponse(i)' <=>
            i = L + n \/ generated'[i + 1].seg[1] # generated'[i].seg[1]
      BY <2>4 DEF EndsResponse
    <3>1. CASE i < L
      <4>1. i \in 1 .. L /\ i + 1 \in 1 .. L /\ i # L /\ i # L + n
        BY <2>2, <2>4, <3>1
      <4>2. generated'[i] = generated[i] /\ generated'[i + 1] = generated[i + 1]
        BY <2>4, <4>1
      <4>3. EndsResponse(i)' <=> EndsResponse(i)
        BY <3>e, <4>1, <4>2 DEF EndsResponse, L
      <4>4. generated[i].seg[1] <= responses /\ (generated[i].eor <=> EndsResponse(i))
        BY <4>1 DEF MarksEnds, L
      <4>5. generated[i].seg[1] <= responses'
        BY <1>t, <2>1, <2>5, <4>1, <4>4
      <4> QED  BY <4>2, <4>3, <4>4, <4>5
    <3>2. CASE i = L
      <4>1. i \in 1 .. L /\ i + 1 \in L + 1 .. L + n /\ i + 1 - L = 1 /\ 1 \in 1 .. n
        BY <2>2, <2>4, <3>2
      <4>2. generated'[i] = generated[i] /\ generated'[i + 1].seg[1] = responses + 1
        BY <2>3, <2>4, <4>1
      <4>3. generated[i].seg[1] <= responses /\ generated[i].eor
        BY <3>2, <4>1 DEF MarksEnds, L, EndsResponse
      <4>4. generated[i].seg[1] # responses + 1 /\ generated[i].seg[1] <= responses + 1
        BY <1>t, <2>5, <4>1, <4>3
      <4> QED  BY <2>1, <3>e, <4>2, <4>3, <4>4
    <3>3. CASE i > L
      <4> DEFINE j == i - L
      <4>1. j \in 1 .. n /\ i \in L + 1 .. L + n /\ (i = L + n <=> j = n)
        BY <2>2, <2>4, <3>3
      <4>2. generated'[i].seg[1] = responses + 1 /\ (generated'[i].eor <=> j = n)
        BY <2>3, <2>4, <4>1
      <4>3. ASSUME j # n
            PROVE  generated'[i + 1].seg[1] = responses + 1
        <5>1. i + 1 \in L + 1 .. L + n /\ i + 1 - L \in 1 .. n
          BY <2>2, <2>4, <3>3, <4>1, <4>3
        <5> QED  BY <2>3, <2>4, <5>1
      <4>4. EndsResponse(i)' <=> j = n
        BY <3>e, <4>1, <4>2, <4>3
      <4>5. generated'[i].seg[1] <= responses'
        BY <1>t, <2>1, <4>2
      <4> QED  BY <4>2, <4>4, <4>5
    <3> QED  BY <2>4, <3>1, <3>2, <3>3
  <2> QED  BY <2>4, <2>6 DEF MarksEnds
<1>2. CASE UNCHANGED << generated, responses >>
  BY <1>2 DEF MarksEnds, EndsResponse
<1> QED  BY <1>1, <1>2 DEF Next, vars, RequestFlush, RecvData, RecvClose, SendCompleted,
            SendAgain, SendError, PollOut

(* on_send_completed counts each marked buffer as it is released.          *)
LEMMA NextCountsMarks ==
  ASSUME IInv, CountsMarks, [Next]_vars
  PROVE  CountsMarks'
<1>1. CASE SendCompleted
  <2> DEFINE m == tx.tx_inflight
             L == Len(released)
  <2>1. /\ released \in Seq(Buf) /\ m \in Seq(Buf)
        /\ Head(sending) = m /\ tx.send_inflight
    <3>1. tx \in TxState(Segs) /\ released \in Seq(Buf)
      BY DEF IInv, TypeOK
    <3>2. Head(sending) = m /\ tx.send_inflight
      BY <1>1 DEF SendCompleted, IInv, TypeOK, InflightPinned, Pinned
    <3> QED  BY <3>1, <3>2 DEF TxState, Buf
  <2>2. /\ Len(m) \in Nat \ {0}
        /\ \A j \in 1 .. Len(m) - 1 : ~ m[j].eor
        /\ tx.inflight_eor = m[Len(m)].eor
    BY <2>1, MaxIovAssumption DEF IInv, InflightIsOneBatch, HoldsBatch
  <2>3. released' = released \o m
    BY <1>1, <2>1 DEF SendCompleted
  <2>s. served' = IF tx.inflight_eor THEN served + 1 ELSE served
    BY <1>1 DEF SendCompleted
  <2> HIDE DEF m
  <2>4. /\ L \in Nat /\ Len(released') = L + Len(m)
        /\ \A i \in 1 .. L : released'[i] = released[i]
        /\ \A i \in L + 1 .. L + Len(m) : released'[i] = m[i - L]
    BY <2>1, <2>3
  <2>5. IsFiniteSet(MarksReleased) /\ L + Len(m) \notin MarksReleased
    <3>1. MarksReleased \subseteq 1 .. L
      BY DEF MarksReleased
    <3>2. IsFiniteSet(1 .. L)
      BY <2>4, FS_Interval
    <3>3. IsFiniteSet(MarksReleased)
      BY <3>1, <3>2, FS_Subset
    <3>4. L + Len(m) \notin 1 .. L
      BY <2>2, <2>4
    <3> QED  BY <3>1, <3>3, <3>4
  <2>6. MarksReleased' = IF tx.inflight_eor THEN MarksReleased \cup { L + Len(m) }
                                            ELSE MarksReleased
    <3>1. MarksReleased' = { i \in 1 .. L + Len(m) : released'[i].eor }
      BY <2>4 DEF MarksReleased
    <3>2. \A i \in 1 .. L : i \in 1 .. L + Len(m) /\ (released'[i].eor <=> released[i].eor)
      BY <2>2, <2>4
    <3>3. \A i \in L + 1 .. L + Len(m) - 1 : ~ released'[i].eor
      <4> SUFFICES ASSUME NEW i \in L + 1 .. L + Len(m) - 1
                   PROVE  ~ released'[i].eor
        OBVIOUS
      <4>1. i \in L + 1 .. L + Len(m) /\ i - L \in 1 .. Len(m) - 1
        BY <2>2, <2>4
      <4> QED  BY <2>2, <2>4, <4>1
    <3>4. released'[L + Len(m)].eor <=> tx.inflight_eor
      <4>1. L + Len(m) \in L + 1 .. L + Len(m) /\ L + Len(m) - L = Len(m)
        BY <2>2, <2>4
      <4>2. released'[L + Len(m)] = m[Len(m)]
        BY <2>4, <4>1
      <4> QED  BY <2>2, <4>2
    <3>5. \A i \in 1 .. L + Len(m) :
            \/ i \in 1 .. L
            \/ i \in L + 1 .. L + Len(m) - 1
            \/ i = L + Len(m)
      BY <2>2, <2>4
    <3>6. L + Len(m) \in 1 .. L + Len(m) /\ L + Len(m) \notin 1 .. L
      BY <2>2, <2>4
    <3>7. MarksReleased = { i \in 1 .. L : released[i].eor }
      BY DEF MarksReleased
    <3> HIDE DEF L
    <3> QED  BY <3>1, <3>2, <3>3, <3>4, <3>5, <3>6, <3>7
  <2>7. CASE tx.inflight_eor
    <3>1. Cardinality(MarksReleased') = Cardinality(MarksReleased) + 1
      BY <2>5, <2>6, <2>7, FS_AddElement
    <3> QED  BY <2>s, <2>7, <3>1 DEF CountsMarks
  <2>8. CASE ~ tx.inflight_eor
    BY <2>s, <2>6, <2>8 DEF CountsMarks
  <2> QED  BY <2>7, <2>8
<1>2. CASE UNCHANGED << released, served >>
  BY <1>2 DEF CountsMarks, MarksReleased
<1> QED  BY <1>1, <1>2 DEF Next, vars, GenerateResponse, RequestFlush, RecvData,
            RecvClose, SendAgain, SendError, PollOut

(* When responses carry an end-of-response mark, as the prototype's do,    *)
(* served is the number of responses that have left completely: the count  *)
(* that on_send_completed compares with the keep-alive limit is right.     *)
THEOREM ServedCounts ==
  ASSUME MARKS_EOR
  PROVE  Spec => []ServedCountsResponses
<1>1. Init => MarksEnds /\ CountsMarks
  <2>1. SUFFICES ASSUME Init PROVE MarksEnds /\ CountsMarks
    OBVIOUS
  <2>2. MarksEnds
    BY <2>1 DEF Init, MarksEnds
  <2>3. MarksReleased = {}
    BY <2>1 DEF Init, MarksReleased
  <2>4. Cardinality({}) = 0
    BY FS_EmptySet
  <2> QED  BY <2>1, <2>2, <2>3, <2>4 DEF Init, CountsMarks
<1>2. IInv /\ MarksEnds /\ [Next]_vars => MarksEnds'
  BY NextMarksEnds
<1>3. IInv /\ CountsMarks /\ [Next]_vars => CountsMarks'
  BY NextCountsMarks
<1>4. IInv /\ MarksEnds /\ CountsMarks => ServedCountsResponses
  <2> SUFFICES ASSUME IInv, MarksEnds, CountsMarks PROVE ServedCountsResponses
    OBVIOUS
  <2>1. /\ released \in Seq(Buf) /\ tx.tx_inflight \in Seq(Buf) /\ tx.txq \in Seq(Buf)
    <3>1. tx \in TxState(Segs) /\ released \in Seq(Buf)
      BY DEF IInv, TypeOK
    <3> QED  BY <3>1 DEF TxState, Buf
  <2>2. released \o tx.tx_inflight \o tx.txq = generated
    BY DEF IInv, StreamOrder
  <2>3. \A i \in 1 .. Len(released) : i \in 1 .. Len(generated) /\ generated[i] = released[i]
    <3>1. \A a, b, c \in Seq(Buf) :
            \A i \in 1 .. Len(a) : i \in 1 .. Len(a \o b \o c) /\ (a \o b \o c)[i] = a[i]
      OBVIOUS
    <3> DEFINE all == released \o tx.tx_inflight \o tx.txq
    <3>2. \A i \in 1 .. Len(released) : i \in 1 .. Len(all) /\ all[i] = released[i]
      BY <2>1, <3>1, Zenon
    <3>3. all = generated
      BY <2>2
    <3> HIDE DEF all
    <3> QED  BY <3>2, <3>3
  <2>4. \A i \in 1 .. Len(released) : released[i].eor <=> EndsResponse(i)
    BY <2>3 DEF MarksEnds
  <2>5. MarksReleased = { i \in 1 .. Len(released) : EndsResponse(i) }
    BY <2>4 DEF MarksReleased
  <2> QED  BY <2>5 DEF CountsMarks, ServedCountsResponses
<1> QED  BY <1>1, <1>2, <1>3, <1>4, InvariantHolds, PTL DEF Spec
=============================================================================
