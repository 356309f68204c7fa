----------------------------- MODULE TxPipeline -----------------------------
(***************************************************************************)
(* The send pipeline of one connection in isolation: the responses that    *)
(* generate_response queues, the RequestFlush tasks that kick the queue,   *)
(* the one sendmsg in flight, its completion, EAGAIN and error, and the    *)
(* poll that waits for the socket to become writable.  The receive side is *)
(* reduced to what it does to this state: after parsing it kicks the queue,*)
(* and on a parse error, a receive error or end of stream it starts the    *)
(* close.                                                                  *)
(*                                                                         *)
(* Every completion here is genuine: the module Worker shows where the     *)
(* event loop fails to guarantee that.                                     *)
(*                                                                         *)
(* A definition X_... that stands before a definition X is a faulty        *)
(* version of it, which no specification uses (see PROJECT.json).          *)
(***************************************************************************)
EXTENDS TxOps, FiniteSets

CONSTANTS
  RESPONSE_BUFS,    (* numbers of buffers a response is queued as:          *)
                    (*   3 and one more per header the route handler sets,  *)
                    (*   or 2 in the prototype test2.cpp                    *)
  KEEPALIVE_LIMIT,  (* max_keepalive_requests                               *)
  MARKS_EOR,        (* is the last buffer of a response queued with eor?    *)
                    (*   FALSE: generate_response of the library            *)
                    (*   TRUE: the prototype it grew from (test2.cpp:970)   *)
  KEEP_ALIVES,      (* what requests make of keep_alive: never assigned in  *)
                    (*   the library, so {TRUE}; any value in the prototype *)
  MAY_RUN_DRY,      (* can get_sqe_or_submit return nullptr? (SQPOLL ring)  *)
  SHORT_WRITES,     (* can a sendmsg take only part of its buffers?         *)
  MAX_RESPONSES,    (* bound: responses generated on the connection         *)
  MAX_RECVS         (* bound: receive completions handled                   *)

ASSUME PipelineAssumption ==
  /\ RESPONSE_BUFS \subseteq Nat \ {0}
  /\ KEEPALIVE_LIMIT \in Nat
  /\ MARKS_EOR \in BOOLEAN
  /\ KEEP_ALIVES \subseteq BOOLEAN
  /\ MAY_RUN_DRY \in BOOLEAN
  /\ SHORT_WRITES \in BOOLEAN
  /\ MAX_RESPONSES \in Nat
  /\ MAX_RECVS \in Nat

VARIABLES
  tx,             (* txq, tx_inflight, send_inflight, inflight_eor          *)
  flushes,        (* RequestFlush tasks posted and not yet dispatched       *)
  sending,        (* the iovecs of the sendmsgs the kernel has not completed*)
  pollout_armed,
  polls,          (* poll_add requests the kernel has not completed         *)
  closing,
  keep_alive,     (* does the last request read keep the connection?        *)
  served,
  closes,         (* close_async requests issued                            *)
  recvs,          (* receive completions handled so far (bound only)        *)
  responses,      (* responses generated so far                             *)
  generated,      (* history: every buffer generate_response queued         *)
  released,       (* history: the buffers of every sendmsg that succeeded   *)
  accepted        (* history: the buffers the socket took whole of them     *)

vars == << tx, flushes, sending, pollout_armed, polls, closing, keep_alive,
           served, closes, recvs, responses, generated, released, accepted >>

Segs == Nat \X Nat

Buf == OwnedBuf(Segs)

(* The iovec array of a sendmsg has MAX_IOV entries.                       *)
TypeOK ==
  /\ tx \in TxState(Segs)
  /\ flushes \in Nat
  /\ sending \in Seq(Seq(Buf))
  /\ \A i \in DOMAIN sending : Len(sending[i]) <= MAX_IOV
  /\ pollout_armed \in BOOLEAN
  /\ polls \in Nat
  /\ closing \in BOOLEAN
  /\ keep_alive \in BOOLEAN
  /\ served \in Nat
  /\ closes \in Nat
  /\ recvs \in Nat
  /\ responses \in Nat
  /\ generated \in Seq(Buf)
  /\ released \in Seq(Buf)
  /\ accepted \in Seq(Buf)

Init ==
  /\ tx = InitTx
  /\ flushes = 0
  /\ sending = <<>>
  /\ pollout_armed = FALSE
  /\ polls = 0
  /\ closing = FALSE
  /\ keep_alive = TRUE
  /\ served = 0
  /\ closes = 0
  /\ recvs = 0
  /\ responses = 0
  /\ generated = <<>>
  /\ released = <<>>
  /\ accepted = <<>>

-----------------------------------------------------------------------------
(* sendkick_inline from the state t with f flush tasks and the sendmsgs s  *)
(* outstanding.  When no submission entry is available the batch is rolled *)
(* back and RequestFlush posted again; post_task without an entry calls    *)
(* sendkick_inline once more, so the recursion ends in one of the last two *)
(* disjuncts.                                                              *)
SendKick(t, f, s) ==
  \/ /\ NothingToKick(t)
     /\ tx' = t
     /\ flushes' = f
     /\ sending' = s
  \/ /\ ~ NothingToKick(t)
     /\ \E n \in 1 .. Len(t.txq) :
          /\ IsBatch(t.txq, n)
          /\ tx' = TakeBatch(t, n)
          /\ sending' = Append(s, TakeBatch(t, n).tx_inflight)
     /\ flushes' = f
  \/ /\ MAY_RUN_DRY
     /\ ~ NothingToKick(t)
     /\ \E n \in 1 .. Len(t.txq) :
          /\ IsBatch(t.txq, n)
          /\ tx' = RollBack(TakeBatch(t, n))
     /\ sending' = s
     /\ flushes' = f + 1

(* The k-th response, queued as n buffers: status line and length, headers,*)
(* empty line, body.                                                       *)
Response(k, n) ==
  [ j \in 1 .. n |-> [ seg |-> <<k, j>>, eor |-> MARKS_EOR /\ j = n ] ]

(* generate_response with a route handler: the buffers are queued and      *)
(* RequestFlush posted, which is an inline kick when the ring is dry.      *)
GenerateResponse(n) ==
  /\ responses < MAX_RESPONSES
  /\ responses' = responses + 1
  /\ generated' = generated \o Response(responses + 1, n)
  /\ LET queued == [ tx EXCEPT !.txq = @ \o Response(responses + 1, n) ]
     IN  \/ /\ tx' = queued
            /\ flushes' = flushes + 1
            /\ UNCHANGED sending
         \/ /\ MAY_RUN_DRY
            /\ SendKick(queued, flushes, sending)
  /\ keep_alive' \in KEEP_ALIVES
  /\ UNCHANGED << pollout_armed, polls, closing, served, closes, recvs,
                  released, accepted >>

(* Dispatch of a RequestFlush task.                                        *)
RequestFlush ==
  /\ flushes > 0
  /\ SendKick(tx, flushes - 1, sending)
  /\ UNCHANGED << pollout_armed, polls, closing, keep_alive, served, closes,
                  recvs, responses, generated, released, accepted >>

(* closing is set and close_async called, whether or not a close was issued *)
(* before; with a dry ring the close request itself is lost.               *)
StartClose ==
  /\ closing' = TRUE
  /\ \/ closes' = closes + 1
     \/ MAY_RUN_DRY /\ UNCHANGED closes

(* A segment was received: parse_step, which marks the connection closing  *)
(* when the request is malformed and reads its Connection header in the    *)
(* prototype, then the kick at the end of the handler.                     *)
RecvData(malformed) ==
  /\ recvs < MAX_RECVS
  /\ recvs' = recvs + 1
  /\ closing' = (closing \/ malformed)
  /\ keep_alive' \in KEEP_ALIVES
  /\ SendKick(tx, flushes, sending)
  /\ UNCHANGED << pollout_armed, polls, served, closes, responses,
                  generated, released, accepted >>

(* End of stream, or a receive error.                                      *)
RecvClose ==
  /\ recvs < MAX_RECVS
  /\ recvs' = recvs + 1
  /\ StartClose
  /\ UNCHANGED << tx, flushes, sending, pollout_armed, polls, keep_alive, served,
                  responses, generated, released, accepted >>

(* on_send_completed: is the connection to be closed?                      *)
CloseAfterSend ==
  /\ tx.inflight_eor
  /\ served + 1 >= KEEPALIVE_LIMIT \/ ~ keep_alive \/ closing

(* A sendmsg succeeded: close the connection, or send the next batch.  The *)
(* byte count it returned is not looked at, so buffers the socket did not  *)
(* take are released with the others.                                      *)
SendCompleted ==
  /\ sending # <<>>
  /\ released' = released \o Head(sending)
  /\ \E n \in 0 .. Len(Head(sending)) :
       /\ n = Len(Head(sending)) \/ SHORT_WRITES
       /\ accepted' = accepted \o SubSeq(Head(sending), 1, n)
  /\ served' = IF tx.inflight_eor THEN served + 1 ELSE served
  /\ \/ /\ CloseAfterSend
        /\ tx' = Completed(tx)
        /\ sending' = Tail(sending)
        /\ StartClose
        /\ UNCHANGED flushes
     \/ /\ ~ CloseAfterSend
        /\ SendKick(Completed(tx), flushes, Tail(sending))
        /\ UNCHANGED << closing, closes >>
  /\ UNCHANGED << pollout_armed, polls, keep_alive, recvs, responses, generated >>

UpdatePollout_armed_anyway ==
  /\ pollout_armed' = TRUE
  /\ \/ ~ pollout_armed /\ polls' = polls + 1
     \/ (pollout_armed \/ MAY_RUN_DRY) /\ UNCHANGED polls

(* update_pollout: at most one poll is armed, none when the ring is dry.   *)
UpdatePollout ==
  \/ /\ ~ pollout_armed
     /\ pollout_armed' = TRUE
     /\ polls' = polls + 1
  \/ /\ pollout_armed \/ MAY_RUN_DRY
     /\ UNCHANGED << pollout_armed, polls >>

(* The socket buffer is full: roll back and wait for writability.          *)
SendAgain ==
  /\ sending # <<>>
  /\ sending' = Tail(sending)
  /\ tx' = RollBack(tx)
  /\ UpdatePollout
  /\ UNCHANGED << flushes, closing, keep_alive, served, closes, recvs,
                  responses, generated, released, accepted >>

(* Any other send error closes the connection; send_inflight stays set.    *)
SendError ==
  /\ sending # <<>>
  /\ sending' = Tail(sending)
  /\ StartClose
  /\ UNCHANGED << tx, flushes, pollout_armed, polls, keep_alive, served, recvs,
                  responses, generated, released, accepted >>

PollOut_no_kick ==
  /\ polls > 0
  /\ polls' = polls - 1
  /\ pollout_armed' = FALSE
  /\ UNCHANGED << tx, flushes, sending, closing, keep_alive, served, closes,
                  recvs, responses, generated, released, accepted >>

PollOut_still_armed ==
  /\ polls > 0
  /\ polls' = polls - 1
  /\ SendKick(tx, flushes, sending)
  /\ UNCHANGED << pollout_armed, closing, keep_alive, served, closes, recvs,
                  responses, generated, released, accepted >>

(* The socket became writable.                                             *)
PollOut ==
  /\ polls > 0
  /\ polls' = polls - 1
  /\ pollout_armed' = FALSE
  /\ SendKick(tx, flushes, sending)
  /\ UNCHANGED << closing, keep_alive, served, closes, recvs, responses,
                  generated, released, accepted >>

Next ==
  \/ \E n \in RESPONSE_BUFS : GenerateResponse(n)
  \/ RequestFlush
  \/ \E malformed \in BOOLEAN : RecvData(malformed)
  \/ RecvClose
  \/ SendCompleted
  \/ SendAgain
  \/ SendError
  \/ PollOut

Spec == Init /\ [][Next]_vars

(* The event loop dispatches every completion it is given, the kernel      *)
(* completes every request, and a peer that keeps reading makes a send     *)
(* that is tried again and again succeed in the end.  Nothing makes a      *)
(* request arrive or a peer close.                                         *)
Fairness ==
  /\ WF_vars(RequestFlush)
  /\ WF_vars(PollOut)
  /\ WF_vars(SendCompleted \/ SendAgain \/ SendError)
  /\ SF_vars(SendCompleted)

FairSpec == Spec /\ Fairness

-----------------------------------------------------------------------------
(* Is the i-th generated buffer the last one of its response?              *)
EndsResponse(i) ==
  i = Len(generated) \/ generated[i + 1].seg[1] # generated[i].seg[1]

(* Buffers are handed to the kernel and released in the order they were    *)
(* queued, none skipped, repeated or overtaken, whatever the interleaving  *)
(* of batches, rollbacks and retries (sendkick_inline, the Send handler).  *)
StreamOrder == released \o tx.tx_inflight \o tx.txq = generated

(* While the kernel works on a sendmsg, tx_inflight still holds exactly    *)
(* the buffers it reads, and there is no second sendmsg that reuses the    *)
(* iovec array of batched_send_data (sendkick_inline, on_send_completed).  *)
InflightPinned == Pinned(tx, sending)

(* What is in flight fits the iovec array and never reaches past the end   *)
(* of a response, and inflight_eor says whether it ends one; nothing is    *)
(* held when nothing is in flight (sendkick_inline, the two rollbacks).    *)
InflightIsOneBatch == HoldsBatch(tx)

(* Queued data of a live connection is never forgotten: some outstanding   *)
(* task, sendmsg or poll will kick the queue again (post of RequestFlush,  *)
(* update_pollout and the kick after a completion).                        *)
NoLostFlush ==
  tx.txq # <<>> /\ ~ closing => flushes > 0 \/ sending # <<>> \/ polls > 0

(* pollout_armed says whether a poll is outstanding: were it stale, EAGAIN *)
(* would not arm the next one (update_pollout, PollOut handler).           *)
PolloutTruthful == polls = IF pollout_armed THEN 1 ELSE 0

(* served, the count the keep-alive limit is checked against, is the number*)
(* of responses that have left completely (on_send_completed).             *)
ServedCountsResponses ==
  served = Cardinality({ i \in 1 .. Len(released) : EndsResponse(i) })

(* A queued response is eventually sent, unless the connection closes      *)
(* (the whole Send / PollOut / RequestFlush cycle).                        *)
QueueDrains == tx.txq # <<>> ~> (tx.txq = <<>> \/ closing)

(* The pipeline implements the abstract stream of responses: what reaches  *)
(* the socket is what was generated, in order and in groups of one sendmsg,*)
(* and a short write loses the end of its group (sendkick_inline, the Send *)
(* handler).                                                               *)
Stream == INSTANCE ResponseStream

ImplementsStream == Stream!StreamSpec
=============================================================================
