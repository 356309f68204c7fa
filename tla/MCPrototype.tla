----------------------------- MODULE MCPrototype -----------------------------
(***************************************************************************)
(* What the peers of Prototype send.                                       *)
(***************************************************************************)
EXTENDS Prototype

Request(lines, body, keep) == [ lines |-> lines, body |-> body, keep |-> keep ]

(* A request with a body that looks like the end of headers, one without  *)
(* header lines, and one with two Connection lines of which the last, a    *)
(* closing one, counts.                                                    *)
Post == Request(<< LENGTH(1) >>, << BLANK >>, TRUE)
Get == Request(<<>>, <<>>, TRUE)
Last_ == Request(<< KEEP, CLOSE >>, <<>>, FALSE)

(* Peers that wait: the first sends either stream, the others one request. *)
(* Peers that do not: the first sends two requests, in any cuts and however*)
(* run together, and the others only come and go.                          *)
Waiting ==
  { [ k \in 1 .. MAX_CONNS |-> IF k = 1 THEN s ELSE << Last_ >> ] :
      s \in { << Last_ >>, << Post, Get >> } }

Hasty == { [ k \in 1 .. MAX_CONNS |-> IF k = 1 THEN << Post, Get >> ELSE <<>> ] }

MCStreams == [ waits \in BOOLEAN |-> IF waits THEN Waiting ELSE Hasty ]
=============================================================================
