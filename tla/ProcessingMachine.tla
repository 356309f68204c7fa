------------------------- MODULE ProcessingMachine -------------------------
(***************************************************************************)
(* The streaming HTTP/1.1 request parser.  The characters it tells apart   *)
(* stand for themselves, all others for one another; a token is a sequence *)
(* of characters.                                                          *)
(* A definition X_... that stands before a definition X is a faulty        *)
(* version of it, which no specification uses (see PROJECT.json).          *)
(***************************************************************************)
EXTENDS Naturals, SequencesExt

Char == { "SP", "CR", "LF", "COLON", "L", "1", "x" }

(* The header name Content-Length is the one character L, its digits are 1.*)
ContentLengthName == << "L" >>

(* reset_parser; also the state a ProcessingMachine is constructed in.  Its *)
(* body_bytes_needed and keep_alive are never assigned again.              *)
FreshMachine ==
  [ state |-> "not_started", tmp |-> <<>>, val |-> <<>>,
    method |-> <<>>, path |-> <<>>, protocol |-> <<>>,
    headers |-> <<>>, body |-> <<>> ]

(* The character that ends the token of a state, the characters that make  *)
(* it malformed, and the state that follows.                               *)
Ends == [ method |-> "SP", path |-> "SP", protocol_version |-> "CR",
          header_name |-> "COLON", header_value |-> "CR" ]

Malforms == [ method |-> { "CR", "LF" }, path |-> { "CR", "LF" },
              protocol_version |-> { "LF" }, header_name |-> { "CR", "LF" },
              header_value |-> {} ]

Follows == [ method |-> "path", path |-> "protocol_version",
             protocol_version |-> "cr", header_name |-> "header_value",
             header_value |-> "cr", cr |-> "crlf", crlfcr |-> "body" ]

Reject_skipping(m) == m

Reject(m) == [ m EXCEPT !.state = "error_state" ]

Emplace_overwriting(headers, name, value) ==
  [ n \in DOMAIN headers \cup { name } |-> IF n = name THEN value ELSE headers[n] ]

(* unordered_map::emplace keeps the value already stored for a name.       *)
Emplace(headers, name, value) ==
  IF name \in DOMAIN headers THEN headers
  ELSE [ n \in DOMAIN headers \cup { name } |->
           IF n = name THEN value ELSE headers[n] ]

EndToken_keeping_tmp(m) ==
  LET n == [ m EXCEPT !.state = Follows[m.state] ]
  IN  CASE m.state = "method"           -> [ n EXCEPT !.method = m.tmp ]
        [] m.state = "path"             -> [ n EXCEPT !.path = m.tmp ]
        [] m.state = "protocol_version" -> [ n EXCEPT !.protocol = m.tmp ]
        [] m.state = "header_name"      -> n
        [] m.state = "header_value"     ->
             [ n EXCEPT !.headers = Emplace(@, m.tmp, m.val) ]

(* The token read so far is moved into the request.                        *)
EndToken(m) ==
  LET n == [ m EXCEPT !.state = Follows[m.state] ]
  IN  CASE m.state = "method"           -> [ n EXCEPT !.method = m.tmp, !.tmp = <<>> ]
        [] m.state = "path"             -> [ n EXCEPT !.path = m.tmp, !.tmp = <<>> ]
        [] m.state = "protocol_version" -> [ n EXCEPT !.protocol = m.tmp, !.tmp = <<>> ]
        [] m.state = "header_name"      -> n
        [] m.state = "header_value"     ->
             [ n EXCEPT !.headers = Emplace(@, m.tmp, m.val),
                        !.tmp = <<>>, !.val = <<>> ]

(* One iteration of the loop of on_segment.                                *)
ReadChar(m, c) ==
  CASE m.state = "error_state" -> m
    [] m.state \in DOMAIN Ends /\ c = Ends[m.state] -> EndToken(m)
    [] m.state \in DOMAIN Ends /\ c \in Malforms[m.state] -> Reject(m)
    [] m.state = "header_value" /\ c # "CR" -> [ m EXCEPT !.val = Append(@, c) ]
    [] m.state \in DOMAIN Ends \ { "header_value" }
         /\ c \notin Malforms[m.state] \cup { Ends[m.state] } ->
         [ m EXCEPT !.tmp = Append(@, c) ]
    [] m.state \in { "cr", "crlfcr" } ->
         IF c = "LF" THEN [ m EXCEPT !.state = Follows[m.state] ] ELSE Reject(m)
    [] m.state = "crlf" /\ c = "CR" -> [ m EXCEPT !.state = "crlfcr" ]
    [] m.state = "crlf" /\ c # "CR" ->
         [ m EXCEPT !.state = "header_name", !.tmp = Append(@, c) ]
    [] m.state = "body" -> [ m EXCEPT !.body = Append(@, c) ]

(* The parser after each of the characters of a segment.                   *)
on_segment(m, segment) ==
  LET first == IF m.state = "not_started" THEN [ m EXCEPT !.state = "method" ] ELSE m
      after[i \in 0 .. Len(segment)] ==
        IF i = 0 THEN first ELSE ReadChar(after[i - 1], segment[i])
  IN  after[Len(segment)]

(* std::stoull: leading blanks are skipped, then at least one digit is     *)
(* needed, or it throws.                                                   *)
SkipBlanks(v) ==
  LET first == CHOOSE i \in 1 .. Len(v) + 1 :
                 /\ \A j \in 1 .. i - 1 : v[j] = "SP"
                 /\ i <= Len(v) => v[i] # "SP"
  IN  SubSeq(v, first, Len(v))

Digits(v) ==
  LET last == CHOOSE i \in 0 .. Len(v) :
                /\ \A j \in 1 .. i : v[j] = "1"
                /\ i < Len(v) => v[i + 1] # "1"
  IN  SubSeq(v, 1, last)

HasNumber(v) == Digits(SkipBlanks(v)) # <<>>

Stoull(v) == FoldLeft(LAMBDA n, d : 10 * n + 1, 0, Digits(SkipBlanks(v)))
=============================================================================
