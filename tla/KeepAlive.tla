------------------------------ MODULE KeepAlive ------------------------------
(***************************************************************************)
(* What a server promises a peer that waits for each response before it    *)
(* sends the next request: requests are answered in order and once; a      *)
(* response says that the connection is kept exactly when the request asks *)
(* for it and the limit is not reached; and the server closes the          *)
(* connection only after a response that said so, which is the last one.   *)
(***************************************************************************)
EXTENDS Integers, Sequences

CONSTANT LIMIT   (* responses per connection                                *)

VARIABLES
  asked,   (* per complete request: may the connection be kept?             *)
  told,    (* per delivered response: does it say the connection is kept?   *)
  shut     (* has the server closed the connection?                         *)

keepAliveVars == << asked, told, shut >>

KeepAliveInit ==
  /\ asked = <<>>
  /\ told = <<>>
  /\ shut = FALSE

(* The peer completes a request.                                           *)
Ask ==
  /\ asked' \in Seq(BOOLEAN)
  /\ Len(asked') = Len(asked) + 1
  /\ SubSeq(asked', 1, Len(asked)) = asked
  /\ UNCHANGED << told, shut >>

(* The peer gets the next response.                                        *)
Tell ==
  /\ ~ shut
  /\ Len(told) < Len(asked)
  /\ \A i \in 1 .. Len(told) : told[i]
  /\ LET n == Len(told) + 1
     IN  told' = Append(told, asked[n] /\ n < LIMIT)
  /\ UNCHANGED << asked, shut >>

Shut ==
  /\ told # <<>> /\ ~ told[Len(told)]
  /\ shut' = TRUE
  /\ UNCHANGED << asked, told >>

KeepAliveNext == Ask \/ Tell \/ Shut

KeepAliveSpec == KeepAliveInit /\ [][KeepAliveNext]_keepAliveVars
=============================================================================
