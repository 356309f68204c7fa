--------------------------- MODULE ResponseStream ---------------------------
(***************************************************************************)
(* What the send side of a connection promises, without queues, batches in *)
(* flight, tasks or polls: the generated buffers are released in order,    *)
(* each exactly once, in groups that fit the iovec array and never reach   *)
(* past the end of a response, and the socket takes each group when it is  *)
(* released.  A write that is cut short loses the end of its group, and    *)
(* nothing else: the stream goes on with the next group.                   *)
(***************************************************************************)
EXTENDS TxOps

CONSTANT
  SHORT_WRITES (* may the socket take only the first buffers of a group?    *)

VARIABLES
  generated,   (* every buffer queued for the peer, in order                *)
  released,    (* the buffers of all groups so far, which are kept no more  *)
  accepted     (* the buffers of them that the socket took whole            *)

streamVars == << generated, released, accepted >>

StreamInit ==
  /\ generated = <<>>
  /\ released = <<>>
  /\ accepted = <<>>

(* A response is appended to the stream.                                   *)
Generate ==
  /\ Len(generated') > Len(generated)
  /\ SubSeq(generated', 1, Len(generated)) = generated
  /\ UNCHANGED << released, accepted >>

(* The next group of buffers is handed to the socket.                      *)
Deliver ==
  /\ Len(released') - Len(released) \in 1 .. MAX_IOV
  /\ Len(released') <= Len(generated)
  /\ released' = SubSeq(generated, 1, Len(released'))
  /\ \A i \in Len(released) + 1 .. Len(released') - 1 : ~ generated[i].eor
  /\ \E upto \in Len(released) .. Len(released') :
       /\ upto = Len(released') \/ SHORT_WRITES
       /\ accepted' = accepted \o SubSeq(generated, Len(released) + 1, upto)
  /\ UNCHANGED generated

StreamNext == Generate \/ Deliver

StreamSpec == StreamInit /\ [][StreamNext]_streamVars
=============================================================================
