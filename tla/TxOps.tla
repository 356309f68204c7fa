------------------------------- MODULE TxOps -------------------------------
(***************************************************************************)
(* The send side of one PerClientStorage, as operators on the four fields  *)
(* that move together: txq, tx_inflight, send_inflight and inflight_eor.   *)
(* A queued OwnedBuf is a record [seg, eor]: seg identifies the bytes, eor *)
(* is the end-of-response mark that delimits a batch.                      *)
(* A definition X_... that stands before a definition X is a faulty        *)
(* version of it, which no specification uses (see PROJECT.json).          *)
(***************************************************************************)
EXTENDS Integers, Sequences

CONSTANT MAX_IOV    (* entries of the iovec array handed to one sendmsg    *)

ASSUME MaxIovAssumption == MAX_IOV \in Nat \ {0}

OwnedBuf(Segs) == [seg : Segs, eor : BOOLEAN]

TxState(Segs) ==
  [ txq           : Seq(OwnedBuf(Segs)),
    tx_inflight   : Seq(OwnedBuf(Segs)),
    send_inflight : BOOLEAN,
    inflight_eor  : BOOLEAN ]

InitTx ==
  [ txq |-> <<>>, tx_inflight |-> <<>>,
    send_inflight |-> FALSE, inflight_eor |-> FALSE ]

NothingToKick_while_sending(t) == t.txq = <<>>

(* sendkick_inline returns at once when a sendmsg is outstanding or nothing *)
(* is queued.                                                               *)
NothingToKick(t) == t.send_inflight \/ t.txq = <<>>

IsBatch_past_eor(q, n) ==
  /\ n \in 1 .. Len(q)
  /\ n <= MAX_IOV
  /\ n = MAX_IOV \/ n = Len(q)

IsBatch_overfull(q, n) ==
  /\ n \in 1 .. Len(q)
  /\ \A i \in 1 .. (n - 1) : i # MAX_IOV + 1 /\ ~ q[i].eor
  /\ n = MAX_IOV + 1 \/ n = Len(q) \/ q[n].eor

(* The gathering loop stops at the end of the queue, when the iovec array  *)
(* is full, or right after a buffer marked end-of-response.                *)
IsBatch(q, n) ==
  /\ n \in 1 .. Len(q)
  /\ \A i \in 1 .. (n - 1) : i # MAX_IOV /\ ~ q[i].eor
  /\ n = MAX_IOV \/ n = Len(q) \/ q[n].eor

TakeBatch_no_eor(t, n) ==
  [ txq |-> SubSeq(t.txq, n + 1, Len(t.txq)), tx_inflight |-> SubSeq(t.txq, 1, n),
    send_inflight |-> TRUE, inflight_eor |-> FALSE ]

(* The first n buffers move from txq to tx_inflight.                       *)
TakeBatch(t, n) ==
  [ txq           |-> SubSeq(t.txq, n + 1, Len(t.txq)),
    tx_inflight   |-> SubSeq(t.txq, 1, n),
    send_inflight |-> TRUE,
    inflight_eor  |-> t.txq[n].eor ]

RollBack_behind(t) ==
  [ txq |-> t.txq \o t.tx_inflight, tx_inflight |-> <<>>,
    send_inflight |-> FALSE, inflight_eor |-> FALSE ]

RollBack_dropping(t) ==
  [ txq |-> t.txq, tx_inflight |-> <<>>,
    send_inflight |-> FALSE, inflight_eor |-> FALSE ]

(* tx_inflight goes back to the front of txq in its old order: no entry    *)
(* for the sendmsg, or the socket answered EAGAIN.                         *)
RollBack(t) ==
  [ txq           |-> t.tx_inflight \o t.txq,
    tx_inflight   |-> <<>>,
    send_inflight |-> FALSE,
    inflight_eor  |-> FALSE ]

Completed_still_sending(t) ==
  [ txq |-> t.txq, tx_inflight |-> <<>>,
    send_inflight |-> TRUE, inflight_eor |-> FALSE ]

(* The fields on_send_completed resets.                                    *)
Completed(t) ==
  [ txq           |-> t.txq,
    tx_inflight   |-> <<>>,
    send_inflight |-> FALSE,
    inflight_eor  |-> FALSE ]

(* The buffers in flight are one batch of IsBatch's shape, or none.        *)
HoldsBatch(t) ==
  IF t.send_inflight
  THEN /\ Len(t.tx_inflight) \in 1 .. MAX_IOV
       /\ \A i \in 1 .. Len(t.tx_inflight) - 1 : ~ t.tx_inflight[i].eor
       /\ t.inflight_eor = t.tx_inflight[Len(t.tx_inflight)].eor
  ELSE t.tx_inflight = <<>>

(* The iovecs s the kernel works on are the buffers t keeps for it.        *)
Pinned(t, s) ==
  /\ Len(s) <= 1
  /\ s # <<>> => t.send_inflight /\ s = << t.tx_inflight >>
=============================================================================
