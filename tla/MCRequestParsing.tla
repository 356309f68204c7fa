-------------------------- MODULE MCRequestParsing --------------------------
(***************************************************************************)
(* Streams for RequestParsing: well-formed requests, requests with one     *)
(* character replaced or dropped, and two requests one after the other.    *)
(***************************************************************************)
EXTENDS RequestParsing

RequestLine == << "x", "SP", "1", "L", "SP", "x", "CR", "LF" >>

Header(name, value) == name \o << "COLON", "SP" >> \o value \o << "CR", "LF" >>

(* A request without a body, one with a header, one that repeats a header, *)
(* and requests with bodies of one and eleven characters.                  *)
MCRequests ==
  LET blank == << "CR", "LF" >>
  IN  { RequestLine \o blank,
        RequestLine \o Header(<< "x" >>, << "1", "SP", "L" >>) \o blank,
        RequestLine \o Header(<< "x" >>, <<"1">>) \o Header(<< "x" >>, <<"L">>) \o blank,
        RequestLine \o Header(<< "L" >>, <<"1">>) \o blank \o << "CR" >>,
        RequestLine \o Header(<< "x" >>, <<"1">>) \o Header(<< "L" >>, <<"1", "1">>) \o blank
          \o [ i \in 1 .. 11 |-> IF i = 5 THEN "CR" ELSE "x" ] }

Replaced(r) == { [ r EXCEPT ![i] = c ] : i \in 1 .. Len(r), c \in Char }

Dropped(r) == { RemoveAt(r, i) : i \in 1 .. Len(r) }

MCStreams ==
  MCRequests
    \cup UNION { Replaced(r) \cup Dropped(r) : r \in MCRequests }
    \cup { r \o q : r \in MCRequests, q \in MCRequests }
=============================================================================
