------------------------ MODULE RequestParsing_proofs ------------------------
(***************************************************************************)
(* The request parser of the library, for every byte stream and however it *)
(* is cut into segments: what method, path, protocol, headers and body are *)
(* of the bytes received, and what a segment may make the event loop do.   *)
(*                                                                         *)
(* One invariant, Known, relates the parser to the bytes read so far; each *)
(* character keeps it, and so does each segment.  A second argument shows  *)
(* that the cut does not matter: the parser is the one that all the bytes  *)
(* in one segment would leave.                                             *)
(***************************************************************************)
EXTENDS RequestParsing, WellFoundedInduction, NaturalsInduction,
        SequenceTheorems, TLAPS

-----------------------------------------------------------------------------
(* Numbers.                                                                *)

(* A set of natural numbers that is not empty has a least member.          *)
LEMMA LeastNat ==
  ASSUME NEW T \in SUBSET Nat, T # {}
  PROVE  \E n \in T : \A m \in T : n <= m
<1> DEFINE R == OpToRel(<, Nat)
<1>1. IsWellFoundedOn(R, Nat)
  BY NatLessThanWellFounded, Zenon
<1> HIDE DEF R
<1>2. PICK n \in T : \A m \in T : << m, n >> \notin R
  BY <1>1, WFMin, Zenon
<1>3. \A m \in T : ~ (m < n)
  BY <1>2 DEF R, OpToRel
<1> QED  BY <1>3

(* Induction, over a set.                                                  *)
LEMMA Induction ==
  ASSUME NEW S, 0 \in S, \A n \in Nat : n \in S => n + 1 \in S
  PROVE  \A n \in Nat : n \in S
<1> DEFINE T == { n \in Nat : n \notin S }
<1>1. SUFFICES ASSUME T # {}
               PROVE  FALSE
  OBVIOUS
<1>2. PICK n \in T : \A m \in T : n <= m
  BY <1>1, LeastNat
<1>3. n # 0 /\ n - 1 \in Nat /\ n - 1 \notin T
  BY <1>2
<1>4. n \in S
  BY <1>3
<1> QED  BY <1>4

-----------------------------------------------------------------------------
(* The parser.                                                             *)

States == { "not_started", "method", "path", "protocol_version", "cr", "crlf",
            "crlfcr", "header_name", "header_value", "body", "error_state" }

Text == Seq(Char)

Maps == UNION { [ D -> Text ] : D \in SUBSET Text }

Machines ==
  [ state : States, tmp : Text, val : Text, method : Text, path : Text,
    protocol : Text, headers : Maps, body : Text ]

(* The characters are told apart.                                          *)
LEMMA Chars ==
  /\ "SP" \in Char /\ "CR" \in Char /\ "LF" \in Char /\ "COLON" \in Char
  /\ "SP" # "CR" /\ "SP" # "LF" /\ "CR" # "LF" /\ "COLON" # "CR" /\ "COLON" # "LF"
BY DEF Char

(* A map of headers is a map with one more header.                         *)
LEMMA EmplaceFacts ==
  ASSUME NEW h \in Maps, NEW n \in Text, NEW v \in Text
  PROVE  /\ Emplace(h, n, v) \in Maps
         /\ DOMAIN Emplace(h, n, v) = DOMAIN h \cup { n }
         /\ \A i \in DOMAIN h : Emplace(h, n, v)[i] = h[i]
         /\ n \notin DOMAIN h => Emplace(h, n, v)[n] = v
<1>1. PICK D \in SUBSET Text : h \in [ D -> Text ]
  BY DEF Maps
<1>2. CASE n \in DOMAIN h
  <2>1. Emplace(h, n, v) = h
    BY <1>2 DEF Emplace
  <2> QED  BY <1>2, <2>1
<1>3. CASE n \notin DOMAIN h
  <2> DEFINE g == [ i \in DOMAIN h \cup { n } |-> IF i = n THEN v ELSE h[i] ]
  <2>1. Emplace(h, n, v) = g
    BY <1>3 DEF Emplace
  <2>2. g \in [ D \cup { n } -> Text ] /\ D \cup { n } \in SUBSET Text
    BY <1>1
  <2>3. DOMAIN g = DOMAIN h \cup { n } /\ g[n] = v /\ \A i \in DOMAIN h : g[i] = h[i]
    BY <1>3
  <2> HIDE DEF g
  <2>4. g \in Maps
    BY <2>2 DEF Maps
  <2> QED  BY <2>1, <2>3, <2>4
<1> QED  BY <1>2, <1>3

(* The names of such a map.                                                *)
LEMMA EmplaceDomain ==
  ASSUME NEW h \in Maps, NEW n \in Text, NEW v \in Text
  PROVE  DOMAIN Emplace(h, n, v) = DOMAIN h \cup { n }
BY EmplaceFacts

(* A parser, by its parts.                                                 *)
Machine(state, tmp, val, method, path, protocol, headers, body) ==
  [ state |-> state, tmp |-> tmp, val |-> val, method |-> method, path |-> path,
    protocol |-> protocol, headers |-> headers, body |-> body ]

(* m with another state and another token.                                 *)
Moved(m, state, tmp) ==
  Machine(state, tmp, m.val, m.method, m.path, m.protocol, m.headers, m.body)

(* A parser consists of its parts.                                         *)
LEMMA MachineIs ==
  ASSUME NEW m \in Machines
  PROVE  /\ m = Moved(m, m.state, m.tmp)
         /\ m.state \in States /\ m.tmp \in Text /\ m.val \in Text
         /\ m.method \in Text /\ m.path \in Text /\ m.protocol \in Text
         /\ m.headers \in Maps /\ m.body \in Text
BY DEF Machines, Moved, Machine

(* The parts of a parser that is given by its parts.                       *)
LEMMA MachineParts ==
  ASSUME NEW q, NEW st, NEW t, NEW v, NEW me, NEW pa, NEW pr, NEW h, NEW b,
         q = Machine(st, t, v, me, pa, pr, h, b)
  PROVE  /\ q.state = st /\ q.tmp = t /\ q.val = v /\ q.method = me /\ q.path = pa
         /\ q.protocol = pr /\ q.headers = h /\ q.body = b
         /\ st \in States /\ t \in Text /\ v \in Text /\ me \in Text /\ pa \in Text
              /\ pr \in Text /\ h \in Maps /\ b \in Text => q \in Machines
BY DEF Machines, Machine

(* Some parts are replaced.                                                *)
LEMMA WithState ==
  ASSUME NEW m \in Machines, NEW a, NEW q,
         q = [ m EXCEPT !.state = a ]
  PROVE  q = Machine(a, m.tmp, m.val, m.method, m.path, m.protocol, m.headers, m.body)
BY DEF Machines, Machine

(* The method is complete.                                                 *)
LEMMA WithStateMethodTmp ==
  ASSUME NEW m \in Machines, NEW a, NEW b, NEW d, NEW q,
         q = [ m EXCEPT !.state = a, !.method = b, !.tmp = d ]
  PROVE  q = Machine(a, d, m.val, b, m.path, m.protocol, m.headers, m.body)
BY DEF Machines, Machine

(* The path is complete.                                                   *)
LEMMA WithStatePathTmp ==
  ASSUME NEW m \in Machines, NEW a, NEW b, NEW d, NEW q,
         q = [ m EXCEPT !.state = a, !.path = b, !.tmp = d ]
  PROVE  q = Machine(a, d, m.val, m.method, b, m.protocol, m.headers, m.body)
BY DEF Machines, Machine

(* The protocol is complete.                                               *)
LEMMA WithStateProtocolTmp ==
  ASSUME NEW m \in Machines, NEW a, NEW b, NEW d, NEW q,
         q = [ m EXCEPT !.state = a, !.protocol = b, !.tmp = d ]
  PROVE  q = Machine(a, d, m.val, m.method, m.path, b, m.headers, m.body)
BY DEF Machines, Machine

(* The token is another.                                                   *)
LEMMA WithTmp ==
  ASSUME NEW m \in Machines, NEW a, NEW q,
         q = [ m EXCEPT !.tmp = a ]
  PROVE  q = Machine(m.state, a, m.val, m.method, m.path, m.protocol, m.headers, m.body)
BY DEF Machines, Machine

(* So is the state.                                                        *)
LEMMA WithStateTmp ==
  ASSUME NEW m \in Machines, NEW a, NEW b, NEW q,
         q = [ m EXCEPT !.state = a, !.tmp = b ]
  PROVE  q = Machine(a, b, m.val, m.method, m.path, m.protocol, m.headers, m.body)
BY DEF Machines, Machine

(* A header is complete.                                                   *)
LEMMA WithStateHeadersTmpVal ==
  ASSUME NEW m \in Machines, NEW a, NEW b, NEW d, NEW e, NEW q,
         q = [ m EXCEPT !.state = a, !.headers = b, !.tmp = d, !.val = e ]
  PROVE  q = Machine(a, d, e, m.method, m.path, m.protocol, b, m.body)
BY DEF Machines, Machine

(* The value is another.                                                   *)
LEMMA WithVal ==
  ASSUME NEW m \in Machines, NEW a, NEW q,
         q = [ m EXCEPT !.val = a ]
  PROVE  q = Machine(m.state, m.tmp, a, m.method, m.path, m.protocol, m.headers, m.body)
BY DEF Machines, Machine

(* The body is another.                                                    *)
LEMMA WithBody ==
  ASSUME NEW m \in Machines, NEW a, NEW q,
         q = [ m EXCEPT !.body = a ]
  PROVE  q = Machine(m.state, m.tmp, m.val, m.method, m.path, m.protocol, m.headers, a)
BY DEF Machines, Machine

(* What a character makes of a parser, by the state.                       *)
(* The method.                                                             *)
LEMMA InMethod ==
  ASSUME NEW m \in Machines, m.state = "method", NEW c \in Char
  PROVE  \/ c \in { "CR", "LF" } /\ ReadChar(m, c) = Moved(m, "error_state", m.tmp)
         \/ c = "SP" /\ ReadChar(m, c) = Machine("path", <<>>, m.val, m.tmp, m.path,
                                                 m.protocol, m.headers, m.body)
         \/ c \notin { "SP", "CR", "LF" } /\ ReadChar(m, c) = Moved(m, "method", Append(m.tmp, c))
<1> DEFINE q == ReadChar(m, c)
<1>1. \/ c \in { "CR", "LF" } /\ q = [ m EXCEPT !.state = "error_state" ]
      \/ c = "SP" /\ q = [ m EXCEPT !.state = "path", !.method = m.tmp, !.tmp = <<>> ]
      \/ c \notin { "SP", "CR", "LF" } /\ q = [ m EXCEPT !.tmp = Append(@, c) ]
  BY DEF ReadChar, Reject, Ends, Malforms, Follows, EndToken, Machines
<1> HIDE DEF q
<1>2. ASSUME q = [ m EXCEPT !.state = "error_state" ]
      PROVE  q = Moved(m, "error_state", m.tmp)
  BY <1>2, WithState DEF Moved
<1>3. ASSUME q = [ m EXCEPT !.state = "path", !.method = m.tmp, !.tmp = <<>> ]
      PROVE  q = Machine("path", <<>>, m.val, m.tmp, m.path, m.protocol, m.headers, m.body)
  BY <1>3, WithStateMethodTmp DEF Moved
<1>4. ASSUME q = [ m EXCEPT !.tmp = Append(@, c) ]
      PROVE  q = Moved(m, "method", Append(m.tmp, c))
  BY <1>4, WithTmp DEF Moved
<1> QED  BY <1>1, <1>2, <1>3, <1>4 DEF q

(* The path.                                                               *)
LEMMA InPath ==
  ASSUME NEW m \in Machines, m.state = "path", NEW c \in Char
  PROVE  \/ c \in { "CR", "LF" } /\ ReadChar(m, c) = Moved(m, "error_state", m.tmp)
         \/ c = "SP" /\ ReadChar(m, c) = Machine("protocol_version", <<>>, m.val,
                                                 m.method, m.tmp, m.protocol, m.headers, m.body)
         \/ c \notin { "SP", "CR", "LF" } /\ ReadChar(m, c) = Moved(m, "path", Append(m.tmp, c))
<1> DEFINE q == ReadChar(m, c)
<1>1. \/ c \in { "CR", "LF" } /\ q = [ m EXCEPT !.state = "error_state" ]
      \/ c = "SP" /\ q = [ m EXCEPT !.state = "protocol_version", !.path = m.tmp, !.tmp = <<>> ]
      \/ c \notin { "SP", "CR", "LF" } /\ q = [ m EXCEPT !.tmp = Append(@, c) ]
  BY DEF ReadChar, Reject, Ends, Malforms, Follows, EndToken, Machines
<1> HIDE DEF q
<1>2. ASSUME q = [ m EXCEPT !.state = "error_state" ]
      PROVE  q = Moved(m, "error_state", m.tmp)
  BY <1>2, WithState DEF Moved
<1>3. ASSUME q = [ m EXCEPT !.state = "protocol_version", !.path = m.tmp, !.tmp = <<>> ]
      PROVE  q = Machine("protocol_version", <<>>, m.val, m.method, m.tmp, m.protocol,
                         m.headers, m.body)
  BY <1>3, WithStatePathTmp DEF Moved
<1>4. ASSUME q = [ m EXCEPT !.tmp = Append(@, c) ]
      PROVE  q = Moved(m, "path", Append(m.tmp, c))
  BY <1>4, WithTmp DEF Moved
<1> QED  BY <1>1, <1>2, <1>3, <1>4 DEF q

(* The protocol.                                                           *)
LEMMA InProtocol ==
  ASSUME NEW m \in Machines, m.state = "protocol_version", NEW c \in Char
  PROVE  \/ c = "LF" /\ ReadChar(m, c) = Moved(m, "error_state", m.tmp)
         \/ c = "CR" /\ ReadChar(m, c) = Machine("cr", <<>>, m.val, m.method, m.path,
                                                 m.tmp, m.headers, m.body)
         \/ c \notin { "CR", "LF" } /\ ReadChar(m, c) = Moved(m, "protocol_version", Append(m.tmp, c))
<1> DEFINE q == ReadChar(m, c)
<1>1. \/ c = "LF" /\ q = [ m EXCEPT !.state = "error_state" ]
      \/ c = "CR" /\ q = [ m EXCEPT !.state = "cr", !.protocol = m.tmp, !.tmp = <<>> ]
      \/ c \notin { "CR", "LF" } /\ q = [ m EXCEPT !.tmp = Append(@, c) ]
  BY DEF ReadChar, Reject, Ends, Malforms, Follows, EndToken, Machines
<1> HIDE DEF q
<1>2. ASSUME q = [ m EXCEPT !.state = "error_state" ]
      PROVE  q = Moved(m, "error_state", m.tmp)
  BY <1>2, WithState DEF Moved
<1>3. ASSUME q = [ m EXCEPT !.state = "cr", !.protocol = m.tmp, !.tmp = <<>> ]
      PROVE  q = Machine("cr", <<>>, m.val, m.method, m.path, m.tmp, m.headers, m.body)
  BY <1>3, WithStateProtocolTmp DEF Moved
<1>4. ASSUME q = [ m EXCEPT !.tmp = Append(@, c) ]
      PROVE  q = Moved(m, "protocol_version", Append(m.tmp, c))
  BY <1>4, WithTmp DEF Moved
<1> QED  BY <1>1, <1>2, <1>3, <1>4 DEF q

(* The end of a line.                                                      *)
LEMMA InCr ==
  ASSUME NEW m \in Machines, m.state = "cr", NEW c \in Char
  PROVE  \/ c # "LF" /\ ReadChar(m, c) = Moved(m, "error_state", m.tmp)
         \/ c = "LF" /\ ReadChar(m, c) = Moved(m, "crlf", m.tmp)
<1> DEFINE q == ReadChar(m, c)
<1>1. \/ c # "LF" /\ q = [ m EXCEPT !.state = "error_state" ]
      \/ c = "LF" /\ q = [ m EXCEPT !.state = "crlf" ]
  BY DEF ReadChar, Reject, Ends, Follows
<1> HIDE DEF q
<1>2. ASSUME q = [ m EXCEPT !.state = "error_state" ]
      PROVE  q = Moved(m, "error_state", m.tmp)
  BY <1>2, WithState DEF Moved
<1>3. ASSUME q = [ m EXCEPT !.state = "crlf" ]
      PROVE  q = Moved(m, "crlf", m.tmp)
  BY <1>3, WithState DEF Moved
<1> QED  BY <1>1, <1>2, <1>3 DEF q

(* After the end of a line.                                                *)
LEMMA InCrLf ==
  ASSUME NEW m \in Machines, m.state = "crlf", NEW c \in Char
  PROVE  \/ c = "CR" /\ ReadChar(m, c) = Moved(m, "crlfcr", m.tmp)
         \/ c # "CR" /\ ReadChar(m, c) = Moved(m, "header_name", Append(m.tmp, c))
<1> DEFINE q == ReadChar(m, c)
<1>1. \/ c = "CR" /\ q = [ m EXCEPT !.state = "crlfcr" ]
      \/ c # "CR" /\ q = [ m EXCEPT !.state = "header_name", !.tmp = Append(@, c) ]
  BY DEF ReadChar, Ends
<1> HIDE DEF q
<1>2. ASSUME q = [ m EXCEPT !.state = "crlfcr" ]
      PROVE  q = Moved(m, "crlfcr", m.tmp)
  BY <1>2, WithState DEF Moved
<1>3. ASSUME q = [ m EXCEPT !.state = "header_name", !.tmp = Append(@, c) ]
      PROVE  q = Moved(m, "header_name", Append(m.tmp, c))
  BY <1>3, WithStateTmp DEF Moved
<1> QED  BY <1>1, <1>2, <1>3 DEF q

(* The end of the empty line.                                              *)
LEMMA InCrLfCr ==
  ASSUME NEW m \in Machines, m.state = "crlfcr", NEW c \in Char
  PROVE  \/ c # "LF" /\ ReadChar(m, c) = Moved(m, "error_state", m.tmp)
         \/ c = "LF" /\ ReadChar(m, c) = Moved(m, "body", m.tmp)
<1> DEFINE q == ReadChar(m, c)
<1>1. \/ c # "LF" /\ q = [ m EXCEPT !.state = "error_state" ]
      \/ c = "LF" /\ q = [ m EXCEPT !.state = "body" ]
  BY DEF ReadChar, Reject, Ends, Follows
<1> HIDE DEF q
<1>2. ASSUME q = [ m EXCEPT !.state = "error_state" ]
      PROVE  q = Moved(m, "error_state", m.tmp)
  BY <1>2, WithState DEF Moved
<1>3. ASSUME q = [ m EXCEPT !.state = "body" ]
      PROVE  q = Moved(m, "body", m.tmp)
  BY <1>3, WithState DEF Moved
<1> QED  BY <1>1, <1>2, <1>3 DEF q

(* The name of a header.                                                   *)
LEMMA InName ==
  ASSUME NEW m \in Machines, m.state = "header_name", NEW c \in Char
  PROVE  \/ c \in { "CR", "LF" } /\ ReadChar(m, c) = Moved(m, "error_state", m.tmp)
         \/ c = "COLON" /\ ReadChar(m, c) = Moved(m, "header_value", m.tmp)
         \/ c \notin { "COLON", "CR", "LF" } /\ ReadChar(m, c) = Moved(m, "header_name", Append(m.tmp, c))
<1> DEFINE q == ReadChar(m, c)
<1>1. \/ c \in { "CR", "LF" } /\ q = [ m EXCEPT !.state = "error_state" ]
      \/ c = "COLON" /\ q = [ m EXCEPT !.state = "header_value" ]
      \/ c \notin { "COLON", "CR", "LF" } /\ q = [ m EXCEPT !.tmp = Append(@, c) ]
  BY DEF ReadChar, Reject, Ends, Malforms, Follows, EndToken, Machines
<1> HIDE DEF q
<1>2. ASSUME q = [ m EXCEPT !.state = "error_state" ]
      PROVE  q = Moved(m, "error_state", m.tmp)
  BY <1>2, WithState DEF Moved
<1>3. ASSUME q = [ m EXCEPT !.state = "header_value" ]
      PROVE  q = Moved(m, "header_value", m.tmp)
  BY <1>3, WithState DEF Moved
<1>4. ASSUME q = [ m EXCEPT !.tmp = Append(@, c) ]
      PROVE  q = Moved(m, "header_name", Append(m.tmp, c))
  BY <1>4, WithTmp DEF Moved
<1> QED  BY <1>1, <1>2, <1>3, <1>4 DEF q

(* The value of a header.                                                  *)
LEMMA InValue ==
  ASSUME NEW m \in Machines, m.state = "header_value", NEW c \in Char
  PROVE  \/ c = "CR" /\ ReadChar(m, c) = Machine("cr", <<>>, <<>>, m.method, m.path,
                                                 m.protocol, Emplace(m.headers, m.tmp, m.val), m.body)
         \/ c # "CR" /\ ReadChar(m, c) = Machine("header_value", m.tmp, Append(m.val, c),
                                                 m.method, m.path, m.protocol, m.headers, m.body)
<1> DEFINE q == ReadChar(m, c)
<1>1. \/ c = "CR" /\ q = [ m EXCEPT !.state = "cr", !.headers = Emplace(@, m.tmp, m.val),
                         !.tmp = <<>>, !.val = <<>> ]
      \/ c # "CR" /\ q = [ m EXCEPT !.val = Append(@, c) ]
  <2>1. CASE c = "CR"
    <3>1. ReadChar(m, c) = EndToken(m)
      BY <2>1 DEF ReadChar, Ends, Malforms
    <3>2. EndToken(m) = [ m EXCEPT !.state = "cr", !.headers = Emplace(@, m.tmp, m.val),
                                   !.tmp = <<>>, !.val = <<>> ]
      BY DEF EndToken, Follows, Machines
    <3> QED  BY <2>1, <3>1, <3>2
  <2>2. CASE c # "CR"
    BY <2>2 DEF ReadChar, Ends, Malforms
  <2> QED  BY <2>1, <2>2
<1> HIDE DEF q
<1>2. ASSUME q = [ m EXCEPT !.state = "cr", !.headers = Emplace(@, m.tmp, m.val),
                         !.tmp = <<>>, !.val = <<>> ]
      PROVE  q = Machine("cr", <<>>, <<>>, m.method, m.path, m.protocol,
                         Emplace(m.headers, m.tmp, m.val), m.body)
  <2> DEFINE h == Emplace(m.headers, m.tmp, m.val)
  <2>1. q = [ m EXCEPT !.state = "cr", !.headers = h, !.tmp = <<>>, !.val = <<>> ]
    BY <1>2 DEF Machines
  <2> HIDE DEF h
  <2>2. q = Machine("cr", <<>>, <<>>, m.method, m.path, m.protocol, h, m.body)
    BY <2>1, WithStateHeadersTmpVal, Zenon
  <2> QED  BY <2>2 DEF h
<1>3. ASSUME q = [ m EXCEPT !.val = Append(@, c) ]
      PROVE  q = Machine("header_value", m.tmp, Append(m.val, c), m.method, m.path,
                         m.protocol, m.headers, m.body)
  BY <1>3, WithVal DEF Moved
<1> QED  BY <1>1, <1>2, <1>3 DEF q

(* The body.                                                               *)
LEMMA InBody ==
  ASSUME NEW m \in Machines, m.state = "body", NEW c \in Char
  PROVE  ReadChar(m, c) = Machine("body", m.tmp, m.val, m.method, m.path, m.protocol,
                                  m.headers, Append(m.body, c))
<1> DEFINE q == ReadChar(m, c)
<1>1. q = [ m EXCEPT !.body = Append(@, c) ]
  BY DEF ReadChar, Ends, Malforms
<1> HIDE DEF q
<1>2. ASSUME q = [ m EXCEPT !.body = Append(@, c) ]
      PROVE  q = Machine("body", m.tmp, m.val, m.method, m.path, m.protocol, m.headers,
                         Append(m.body, c))
  BY <1>2, WithBody DEF Moved
<1> QED  BY <1>1, <1>2 DEF q

(* A malformed request stays one.                                          *)
LEMMA InError ==
  ASSUME NEW m \in Machines, m.state = "error_state", NEW c \in Char
  PROVE  ReadChar(m, c) = Moved(m, "error_state", m.tmp)
<1>1. ReadChar(m, c) = m
  BY DEF ReadChar, Ends, Malforms
<1> QED  BY <1>1, MachineIs

(* What one character makes of the parts of the request, of the value and  *)
(* of the token that is being read, and of the state.                      *)
LEMMA ReadCharParts ==
  ASSUME NEW m \in Machines, NEW c \in Char, m.state # "not_started", NEW q,
         q = ReadChar(m, c)
  PROVE  /\ q.method = IF m.state = "method" /\ c = "SP" THEN m.tmp ELSE m.method
         /\ q.path = IF m.state = "path" /\ c = "SP" THEN m.tmp ELSE m.path
         /\ q.protocol = IF m.state = "protocol_version" /\ c = "CR" THEN m.tmp ELSE m.protocol
         /\ q.headers = IF m.state = "header_value" /\ c = "CR"
                        THEN Emplace(m.headers, m.tmp, m.val) ELSE m.headers
         /\ q.body = IF m.state = "body" THEN Append(m.body, c) ELSE m.body
         /\ q.val = IF m.state = "header_value"
                    THEN IF c = "CR" THEN <<>> ELSE Append(m.val, c) ELSE m.val
<1>1. CASE m.state = "method"
  BY <1>1, InMethod, MachineParts, Chars DEF Moved
<1>2. CASE m.state = "path"
  BY <1>2, InPath, MachineParts, Chars DEF Moved
<1>3. CASE m.state = "protocol_version"
  BY <1>3, InProtocol, MachineParts, Chars DEF Moved
<1>4. CASE m.state = "cr"
  BY <1>4, InCr, MachineParts, Chars DEF Moved
<1>5. CASE m.state = "crlf"
  BY <1>5, InCrLf, MachineParts, Chars DEF Moved
<1>6. CASE m.state = "crlfcr"
  BY <1>6, InCrLfCr, MachineParts, Chars DEF Moved
<1>7. CASE m.state = "header_name"
  BY <1>7, InName, MachineParts, Chars DEF Moved
<1>8. CASE m.state = "header_value"
  BY <1>8, InValue, MachineParts, Chars DEF Moved
<1>9. CASE m.state = "body"
  <2> DEFINE x == Append(m.body, c)
  <2>1. q = Machine("body", m.tmp, m.val, m.method, m.path, m.protocol, m.headers, x)
    BY <1>9, InBody
  <2> HIDE DEF x
  <2>2. q.method = m.method /\ q.path = m.path /\ q.protocol = m.protocol
        /\ q.headers = m.headers /\ q.body = x /\ q.val = m.val
    BY <2>1, MachineParts
  <2> QED  BY <1>9, <2>2 DEF x
<1>10. CASE m.state = "error_state"
  BY <1>10, InError, MachineParts, Chars DEF Moved
<1> QED  BY MachineIs, <1>1, <1>2, <1>3, <1>4, <1>5, <1>6, <1>7, <1>8, <1>9, <1>10 DEF States

(* The state it leads to.                                                  *)
LEMMA ReadCharState ==
  ASSUME NEW m \in Machines, NEW c \in Char, m.state # "not_started", NEW q,
         q = ReadChar(m, c)
  PROVE  /\ m.state = "method" =>
              q.state = IF c = "SP" THEN "path"
                        ELSE IF c \in { "CR", "LF" } THEN "error_state" ELSE "method"
         /\ m.state = "path" =>
              q.state = IF c = "SP" THEN "protocol_version"
                        ELSE IF c \in { "CR", "LF" } THEN "error_state" ELSE "path"
         /\ m.state = "protocol_version" =>
              q.state = IF c = "CR" THEN "cr"
                        ELSE IF c = "LF" THEN "error_state" ELSE "protocol_version"
         /\ m.state = "cr" => q.state = IF c = "LF" THEN "crlf" ELSE "error_state"
         /\ m.state = "crlf" => q.state = IF c = "CR" THEN "crlfcr" ELSE "header_name"
         /\ m.state = "crlfcr" => q.state = IF c = "LF" THEN "body" ELSE "error_state"
         /\ m.state = "header_name" =>
              q.state = IF c = "COLON" THEN "header_value"
                        ELSE IF c \in { "CR", "LF" } THEN "error_state" ELSE "header_name"
         /\ m.state = "header_value" => q.state = IF c = "CR" THEN "cr" ELSE "header_value"
         /\ m.state \in { "body", "error_state" } => q.state = m.state
<1>1. CASE m.state = "method"
  BY <1>1, InMethod, MachineParts, Chars DEF Moved
<1>2. CASE m.state = "path"
  BY <1>2, InPath, MachineParts, Chars DEF Moved
<1>3. CASE m.state = "protocol_version"
  BY <1>3, InProtocol, MachineParts, Chars DEF Moved
<1>4. CASE m.state = "cr"
  BY <1>4, InCr, MachineParts, Chars DEF Moved
<1>5. CASE m.state = "crlf"
  BY <1>5, InCrLf, MachineParts, Chars DEF Moved
<1>6. CASE m.state = "crlfcr"
  BY <1>6, InCrLfCr, MachineParts, Chars DEF Moved
<1>7. CASE m.state = "header_name"
  BY <1>7, InName, MachineParts, Chars DEF Moved
<1>8. CASE m.state = "header_value"
  BY <1>8, InValue, MachineParts, Chars DEF Moved
<1>9. CASE m.state = "body"
  BY <1>9, InBody, MachineParts, Chars DEF Moved
<1>10. CASE m.state = "error_state"
  BY <1>10, InError, MachineParts, Chars DEF Moved
<1> QED  BY MachineIs, <1>1, <1>2, <1>3, <1>4, <1>5, <1>6, <1>7, <1>8, <1>9, <1>10 DEF States

(* What it makes of the token.                                             *)
LEMMA ReadCharToken ==
  ASSUME NEW m \in Machines, NEW c \in Char, m.state # "not_started", NEW q,
         q = ReadChar(m, c)
  PROVE  /\ m.state \in { "method", "path" } /\ c \notin { "SP", "CR", "LF" } =>
              q.tmp = Append(m.tmp, c)
         /\ m.state = "protocol_version" /\ c \notin { "CR", "LF" } => q.tmp = Append(m.tmp, c)
         /\ m.state = "header_name" /\ c \notin { "COLON", "CR", "LF" } => q.tmp = Append(m.tmp, c)
         /\ m.state = "crlf" /\ c # "CR" => q.tmp = Append(m.tmp, c)
         /\ m.state \in { "method", "path" } /\ c = "SP" => q.tmp = <<>>
         /\ m.state \in { "protocol_version", "header_value" } /\ c = "CR" => q.tmp = <<>>
         /\ m.state = "header_value" /\ c # "CR" => q.tmp = m.tmp
         /\ m.state = "header_name" /\ c = "COLON" => q.tmp = m.tmp
         /\ m.state = "crlf" /\ c = "CR" => q.tmp = m.tmp
         /\ m.state \in { "cr", "crlfcr", "body", "error_state" } => q.tmp = m.tmp
<1> DEFINE x == Append(m.tmp, c)
<1>1. CASE m.state = "method"
  <2>1. \/ c \in { "CR", "LF" }
        \/ c = "SP" /\ q = Machine("path", <<>>, m.val, m.tmp, m.path, m.protocol,
                                   m.headers, m.body)
        \/ c \notin { "SP", "CR", "LF" } /\ q = Moved(m, "method", x)
    BY <1>1, InMethod
  <2> HIDE DEF x
  <2>2. c \in { "CR", "LF" } \/ (c = "SP" /\ q.tmp = <<>>) \/ (c \notin { "SP", "CR", "LF" } /\ q.tmp = x)
    BY <2>1, MachineParts DEF Moved
  <2> QED  BY <1>1, <2>2, Chars DEF x
<1>2. CASE m.state = "path"
  <2>1. \/ c \in { "CR", "LF" }
        \/ c = "SP" /\ q = Machine("protocol_version", <<>>, m.val, m.method, m.tmp,
                                   m.protocol, m.headers, m.body)
        \/ c \notin { "SP", "CR", "LF" } /\ q = Moved(m, "path", x)
    BY <1>2, InPath
  <2> HIDE DEF x
  <2>2. c \in { "CR", "LF" } \/ (c = "SP" /\ q.tmp = <<>>) \/ (c \notin { "SP", "CR", "LF" } /\ q.tmp = x)
    BY <2>1, MachineParts DEF Moved
  <2> QED  BY <1>2, <2>2, Chars DEF x
<1>3. CASE m.state = "protocol_version"
  <2>1. \/ c = "LF"
        \/ c = "CR" /\ q = Machine("cr", <<>>, m.val, m.method, m.path, m.tmp, m.headers,
                                   m.body)
        \/ c \notin { "CR", "LF" } /\ q = Moved(m, "protocol_version", x)
    BY <1>3, InProtocol
  <2> HIDE DEF x
  <2>2. c = "LF" \/ (c = "CR" /\ q.tmp = <<>>) \/ (c \notin { "CR", "LF" } /\ q.tmp = x)
    BY <2>1, MachineParts DEF Moved
  <2> QED  BY <1>3, <2>2, Chars DEF x
<1>4. CASE m.state = "cr"
  BY <1>4, InCr, MachineParts, Chars DEF Moved
<1>5. CASE m.state = "crlf"
  <2>1. \/ c = "CR" /\ q = Moved(m, "crlfcr", m.tmp)
        \/ c # "CR" /\ q = Moved(m, "header_name", x)
    BY <1>5, InCrLf
  <2> HIDE DEF x
  <2>2. (c = "CR" /\ q.tmp = m.tmp) \/ (c # "CR" /\ q.tmp = x)
    BY <2>1, MachineParts DEF Moved
  <2> QED  BY <1>5, <2>2, Chars DEF x
<1>6. CASE m.state = "crlfcr"
  BY <1>6, InCrLfCr, MachineParts, Chars DEF Moved
<1>7. CASE m.state = "header_name"
  <2>1. \/ c \in { "CR", "LF" }
        \/ c = "COLON" /\ q = Moved(m, "header_value", m.tmp)
        \/ c \notin { "COLON", "CR", "LF" } /\ q = Moved(m, "header_name", x)
    BY <1>7, InName
  <2> HIDE DEF x
  <2>2. c \in { "CR", "LF" } \/ (c = "COLON" /\ q.tmp = m.tmp) \/ (c \notin { "COLON", "CR", "LF" } /\ q.tmp = x)
    BY <2>1, MachineParts DEF Moved
  <2> QED  BY <1>7, <2>2, Chars DEF x
<1>8. CASE m.state = "header_value"
  BY <1>8, InValue, MachineParts, Chars DEF Moved
<1>9. CASE m.state = "body"
  BY <1>9, InBody, MachineParts, Chars DEF Moved
<1>10. CASE m.state = "error_state"
  BY <1>10, InError, MachineParts, Chars DEF Moved
<1> QED  BY MachineIs, <1>1, <1>2, <1>3, <1>4, <1>5, <1>6, <1>7, <1>8, <1>9, <1>10 DEF States

(* A value grows until the line ends.                                      *)
LEMMA ValueMore ==
  ASSUME NEW m \in Machines, NEW c \in Char, m.state = "header_value", c # "CR", NEW q,
         q = ReadChar(m, c)
  PROVE  q.val = Append(m.val, c)
<1> DEFINE x == Append(m.val, c)
<1>1. q = Machine("header_value", m.tmp, x, m.method, m.path, m.protocol, m.headers, m.body)
  BY InValue
<1> HIDE DEF x
<1>2. q.val = x
  BY <1>1, MachineParts
<1> QED  BY <1>2 DEF x

(* It keeps the types.                                                     *)
LEMMA ReadCharTyped ==
  ASSUME NEW m \in Machines, NEW c \in Char, m.state # "not_started"
  PROVE  ReadChar(m, c) \in Machines /\ ReadChar(m, c).state # "not_started"
<1>1. m.tmp \in Text /\ m.val \in Text /\ m.body \in Text /\ m.headers \in Maps
  BY MachineIs
<1>2. /\ <<>> \in Text /\ Append(m.tmp, c) \in Text /\ Append(m.val, c) \in Text
      /\ Append(m.body, c) \in Text /\ Emplace(m.headers, m.tmp, m.val) \in Maps
  <2>1. <<>> \in Text
    BY DEF Text
  <2>2. Append(m.tmp, c) \in Text
    BY <1>1 DEF Text
  <2>3. Append(m.val, c) \in Text
    BY <1>1 DEF Text
  <2>4. Append(m.body, c) \in Text
    BY <1>1 DEF Text
  <2>5. Emplace(m.headers, m.tmp, m.val) \in Maps
    BY <1>1, EmplaceFacts
  <2> QED  BY <2>1, <2>2, <2>3, <2>4, <2>5
<1>3. CASE m.state = "method"
  BY <1>1, <1>2, <1>3, InMethod, MachineIs, MachineParts DEF Moved, States
<1>4. CASE m.state = "path"
  BY <1>1, <1>2, <1>4, InPath, MachineIs, MachineParts DEF Moved, States
<1>5. CASE m.state = "protocol_version"
  BY <1>1, <1>2, <1>5, InProtocol, MachineIs, MachineParts DEF Moved, States
<1>6. CASE m.state = "cr"
  BY <1>1, <1>2, <1>6, InCr, MachineIs, MachineParts DEF Moved, States
<1>7. CASE m.state = "crlf"
  BY <1>1, <1>2, <1>7, InCrLf, MachineIs, MachineParts DEF Moved, States
<1>8. CASE m.state = "crlfcr"
  BY <1>1, <1>2, <1>8, InCrLfCr, MachineIs, MachineParts DEF Moved, States
<1>9. CASE m.state = "header_name"
  BY <1>1, <1>2, <1>9, InName, MachineIs, MachineParts DEF Moved, States
<1>10. CASE m.state = "header_value"
  BY <1>1, <1>2, <1>10, InValue, MachineIs, MachineParts DEF Moved, States
<1>11. CASE m.state = "body"
  BY <1>1, <1>2, <1>11, InBody, MachineIs, MachineParts DEF Moved, States
<1>12. CASE m.state = "error_state"
  BY <1>1, <1>2, <1>12, InError, MachineIs, MachineParts DEF Moved, States
<1> QED  BY MachineIs, <1>3, <1>4, <1>5, <1>6, <1>7, <1>8, <1>9, <1>10, <1>11, <1>12 DEF States

-----------------------------------------------------------------------------
(* What the parser knows of the bytes it has read: s is the stream, k how  *)
(* many of its bytes have been read, m the parser.                         *)

(* t is what s has after its first o members, up to the k-th.              *)
Reads(s, o, t, k) == k = o + Len(t) /\ \A i \in 1 .. Len(t) : s[o + i] = t[i]

(* A line break ends at a.                                                 *)
CrLf(s, a) == a >= 2 /\ s[a - 1] = "CR" /\ s[a] = "LF"

(* What a token of the first line consists of, a header value, and a name: *)
(* its first character may be any but CR.                                  *)
Plain(t) == \A i \in 1 .. Len(t) : t[i] \notin { "SP", "CR", "LF" }

NoCr(t) == \A i \in 1 .. Len(t) : t[i] # "CR"

Name(t) ==
  /\ Len(t) >= 1 /\ t[1] # "CR"
  /\ \A i \in 2 .. Len(t) : t[i] \notin { "COLON", "CR", "LF" }

(* A name stands in s between a line break, which ends at a, and e.        *)
NameAt(s, a, e) ==
  /\ CrLf(s, a) /\ a < e /\ s[a + 1] # "CR"
  /\ \A i \in a + 2 .. e : s[i] \notin { "COLON", "CR", "LF" }

(* An empty line begins at i.                                              *)
Blank(s, i) == s[i] = "CR" /\ s[i + 1] = "LF" /\ s[i + 2] = "CR" /\ s[i + 3] = "LF"

Line1(m) == m.method \o << "SP" >>
Line2(m) == Line1(m) \o m.path \o << "SP" >>
Line3(m) == Line2(m) \o m.protocol \o << "CR" >>

Later == { "cr", "crlf", "crlfcr", "header_name", "header_value", "body" }

(* The first line, as far as it is read.                                   *)
FirstLine(s, k, m) ==
  /\ m.state = "method" => Plain(m.tmp) /\ Reads(s, 0, m.tmp, k)
  /\ m.state = "path" =>
       /\ Plain(m.tmp) /\ Plain(m.method)
       /\ \E j \in 0 .. k : Reads(s, 0, Line1(m), j) /\ Reads(s, j, m.tmp, k)
  /\ m.state = "protocol_version" =>
       /\ Plain(m.method) /\ Plain(m.path)
       /\ \E j \in 0 .. k : Reads(s, 0, Line2(m), j) /\ Reads(s, j, m.tmp, k)
  /\ m.state \in Later =>
       /\ Plain(m.method) /\ Plain(m.path)
       /\ \E j \in 0 .. k : Reads(s, 0, Line3(m), j)

(* The header line that is being read.                                     *)
ThisLine(s, k, m) ==
  /\ m.state \in { "cr", "crlf", "crlfcr", "body" } => m.tmp = <<>>
  /\ m.state \notin { "header_value", "error_state" } => m.val = <<>>
  /\ m.state = "header_name" =>
       /\ Name(m.tmp)
       /\ \E a \in 0 .. k : CrLf(s, a) /\ Reads(s, a, m.tmp, k)
  /\ m.state = "header_value" =>
       /\ Name(m.tmp) /\ NoCr(m.val)
       /\ \E a \in 0 .. k, e \in 0 .. k - 1 :
            /\ CrLf(s, a) /\ Reads(s, a, m.tmp, e) /\ s[e + 1] = "COLON"
            /\ Reads(s, e + 1, m.val, k)

Reading == { "method", "path", "protocol_version", "cr", "crlf", "crlfcr",
             "header_name", "header_value" }

(* The state tells whether the last characters are part of an empty line.  *)
Ending(s, k, m) ==
  m.state \in Reading =>
    /\ k >= 1 /\ s[k] = "CR" <=> m.state \in { "cr", "crlfcr" }
    /\ CrLf(s, k) <=> m.state = "crlf"
    /\ CrLf(s, k - 1) /\ s[k] = "CR" <=> m.state = "crlfcr"

(* Only the body follows an empty line.                                    *)
Bodies(s, k, m) ==
  /\ m.state \in Reading => m.body = <<>> /\ \A i \in 1 .. k - 3 : ~ Blank(s, i)
  /\ m.state = "body" =>
       \E i \in 1 .. k - 3 : /\ Blank(s, i) /\ \A j \in 1 .. i - 1 : ~ Blank(s, j)
                             /\ Reads(s, i + 3, m.body, k)

(* A name at the end is being read, and one before a colon is stored, or   *)
(* its value is being read.                                                *)
Names(s, k, m) ==
  m.state \in Reading =>
    /\ \A a \in 1 .. k : NameAt(s, a, k) =>
         m.state = "header_name" /\ Reads(s, a, m.tmp, k)
    /\ \A a \in 1 .. k, e \in 1 .. k - 1 : NameAt(s, a, e) /\ s[e + 1] = "COLON" =>
         \/ \E n \in DOMAIN m.headers : Reads(s, a, n, e)
         \/ /\ m.state = "header_value" /\ Reads(s, a, m.tmp, e)
            /\ Reads(s, e + 1, m.val, k)

(* The name n stands before a colon, after the line break that ends at a.  *)
HeaderAt(s, a, n) == CrLf(s, a) /\ Reads(s, a, n, a + Len(n)) /\ s[a + Len(n) + 1] = "COLON"

(* A stored header is the first line of its name.                          *)
Stored(s, k, m) ==
  \A n \in DOMAIN m.headers :
    /\ NoCr(m.headers[n])
    /\ \E a \in 0 .. k :
         /\ HeaderAt(s, a, n)
         /\ \A b \in 0 .. a - 1 : ~ HeaderAt(s, b, n)
         /\ \E z \in 0 .. k - 1 : Reads(s, a + Len(n) + 1, m.headers[n], z) /\ s[z + 1] = "CR"

-----------------------------------------------------------------------------
(* Parts of a stream.                                                      *)

(* The empty token, and a token of one character.                          *)
LEMMA ReadsShort ==
  ASSUME NEW s \in Text, NEW k \in Nat
  PROVE  /\ Reads(s, k, <<>>, k)
         /\ \A c \in Char : s[k + 1] = c => Reads(s, k, << c >>, k + 1)
BY DEF Reads

(* One more character.                                                     *)
LEMMA ReadsMore ==
  ASSUME NEW s \in Text, NEW o \in Nat, NEW k \in Nat, NEW t \in Text,
         Reads(s, o, t, k), NEW c \in Char, s[k + 1] = c, NEW u, u = Append(t, c)
  PROVE  Reads(s, o, u, k + 1)
<1>1. /\ u \in Text /\ Len(u) = Len(t) + 1 /\ u[Len(t) + 1] = c
      /\ \A i \in 1 .. Len(t) : u[i] = t[i]
  BY DEF Text
<1>2. Len(t) \in Nat /\ k = o + Len(t) /\ \A i \in 1 .. Len(t) : s[o + i] = t[i]
  <2>1. Len(t) \in Nat
    BY DEF Text
  <2>2. k = o + Len(t) /\ \A i \in 1 .. Len(t) : s[o + i] = t[i]
    BY DEF Reads
  <2> QED  BY <2>1, <2>2
<1>3. k + 1 = o + Len(u)
  BY <1>1, <1>2
<1>4. ASSUME NEW i \in 1 .. Len(u)
      PROVE  s[o + i] = u[i]
  <2>1. CASE i = Len(t) + 1
    BY <1>1, <1>2, <2>1
  <2>2. CASE i \in 1 .. Len(t)
    BY <1>1, <1>2, <2>2
  <2> QED  BY <1>1, <1>2, <1>4, <2>1, <2>2
<1> QED  BY <1>3, <1>4 DEF Reads

(* One token after another.                                                *)
LEMMA ReadsOn ==
  ASSUME NEW s \in Text, NEW o \in Nat, NEW j \in Nat, NEW k \in Nat,
         NEW t \in Text, NEW u \in Text, Reads(s, o, t, j), Reads(s, j, u, k),
         NEW w, w = t \o u
  PROVE  Reads(s, o, w, k) /\ w \in Text
<1>1. /\ Len(t) \in Nat /\ Len(u) \in Nat /\ w \in Text /\ Len(w) = Len(t) + Len(u)
      /\ \A i \in 1 .. Len(t) : w[i] = t[i]
      /\ \A i \in 1 .. Len(u) : w[Len(t) + i] = u[i]
  BY DEF Text
<1>2. /\ j = o + Len(t) /\ \A i \in 1 .. Len(t) : s[o + i] = t[i]
      /\ k = j + Len(u) /\ \A i \in 1 .. Len(u) : s[j + i] = u[i]
  BY DEF Reads
<1>3. k = o + Len(w)
  BY <1>1, <1>2
<1>4. ASSUME NEW i \in 1 .. Len(w)
      PROVE  s[o + i] = w[i]
  <2>1. CASE i \in 1 .. Len(t)
    BY <1>1, <1>2, <2>1
  <2>2. CASE i > Len(t)
    <3>1. PICK d \in 1 .. Len(u) : i = Len(t) + d
      <4>1. i - Len(t) \in 1 .. Len(u) /\ i = Len(t) + (i - Len(t))
        BY <1>1, <1>4, <2>2
      <4> QED  BY <4>1
    <3>2. s[j + d] = u[d] /\ w[Len(t) + d] = u[d]
      BY <1>1, <1>2
    <3>3. j + d = o + i
      BY <1>1, <1>2, <3>1
    <3> QED  BY <3>1, <3>2, <3>3
  <2> QED  BY <1>1, <1>4, <2>1, <2>2
<1> QED  BY <1>1, <1>3, <1>4 DEF Reads

(* Two tokens that stand at the same place are equal.                      *)
LEMMA ReadsSame ==
  ASSUME NEW s \in Text, NEW o \in Nat, NEW k \in Nat, NEW t \in Text, NEW u \in Text,
         Reads(s, o, t, k), Reads(s, o, u, k)
  PROVE  t = u
<1>1. Len(t) = Len(u)
  BY DEF Reads, Text
<1>2. \A i \in 1 .. Len(t) : t[i] = u[i]
  BY <1>1 DEF Reads, Text
<1> QED  BY <1>1, <1>2 DEF Text

(* Tokens with one more character.                                         *)
LEMMA TokenMore ==
  ASSUME NEW t \in Text, NEW c \in Char, NEW u, u = Append(t, c)
  PROVE  /\ Plain(t) /\ c \notin { "SP", "CR", "LF" } => Plain(u)
         /\ NoCr(t) /\ c # "CR" => NoCr(u)
         /\ Name(t) /\ c \notin { "COLON", "CR", "LF" } => Name(u)
         /\ t = <<>> /\ c # "CR" => Name(u)
<1>1. /\ Len(t) \in Nat /\ Len(u) = Len(t) + 1 /\ u[Len(t) + 1] = c
      /\ \A i \in 1 .. Len(t) : u[i] = t[i]
  BY DEF Text
<1> QED  BY <1>1 DEF Plain, NoCr, Name

(* The empty token.                                                        *)
LEMMA TokenNone ==  <<>> \in Text /\ Plain(<<>>) /\ NoCr(<<>>)
BY DEF Plain, NoCr, Text

-----------------------------------------------------------------------------
(* One character: each part of what the parser knows is kept.              *)

(* A token of the first line, the text t before it, and the character that *)
(* ends it are the text before what follows.                               *)
LEMMA LineMore ==
  ASSUME NEW s \in Text, NEW j \in Nat, NEW k \in Nat, NEW t \in Text, NEW u \in Text,
         NEW c \in Char, Reads(s, 0, t, j), Reads(s, j, u, k), s[k + 1] = c
  PROVE  Reads(s, 0, t \o u \o << c >>, k + 1)
<1> DEFINE x == t \o u
           y == << c >>
           w == x \o y
<1>1. y \in Text /\ Reads(s, k, y, k + 1) /\ k + 1 \in Nat
  BY ReadsShort DEF Text
<1> HIDE DEF y
<1>2. Reads(s, 0, x, k) /\ x \in Text
  BY ReadsOn
<1> HIDE DEF x
<1>3. Reads(s, 0, w, k + 1)
  BY <1>1, <1>2, ReadsOn
<1> QED  BY <1>3 DEF x, y

(* The first line.                                                         *)
LEMMA FirstLineKept ==
  ASSUME NEW s \in Text, NEW k \in Nat, k < Len(s), NEW m \in Machines,
         m.state # "not_started", FirstLine(s, k, m), NEW q, q = ReadChar(m, s[k + 1])
  PROVE  FirstLine(s, k + 1, q)
<1> DEFINE c == s[k + 1]
<1>1. c \in Char /\ k + 1 \in Nat
  BY DEF Text
<1>2. /\ m.tmp \in Text /\ m.method \in Text /\ m.path \in Text /\ m.protocol \in Text
      /\ m.state \in States
  BY MachineIs
<1>3. q = ReadChar(m, c)
  OBVIOUS
<1>9. s[k + 1] = c
  OBVIOUS
<1> HIDE DEF c
<1>4. CASE m.state = "method"
  <2>1. Plain(m.tmp) /\ Reads(s, 0, m.tmp, k)
    BY <1>4 DEF FirstLine
  <2>2. CASE c = "SP"
    <3>1. q.state = "path" /\ q.tmp = <<>> /\ q.method = m.tmp
      BY <1>1, <1>3, <1>4, <2>2, ReadCharState, ReadCharToken, ReadCharParts
    <3>2. Reads(s, 0, Line1(q), k + 1)
      <4> DEFINE y == << c >>
                 w == m.tmp \o y
      <4>1. y \in Text /\ Reads(s, k, y, k + 1)
        BY <1>1, ReadsShort DEF Text, c
      <4> HIDE DEF y
      <4>2. Reads(s, 0, w, k + 1)
        BY <1>1, <1>2, <2>1, <4>1, ReadsOn
      <4> QED  BY <2>2, <3>1, <4>2 DEF Line1, y
    <3>3. Reads(s, k + 1, q.tmp, k + 1) /\ Plain(q.tmp)
      BY <1>1, <3>1, ReadsShort, TokenNone
    <3>4. k + 1 \in 0 .. k + 1
      OBVIOUS
    <3> QED  BY <2>1, <3>1, <3>2, <3>3, <3>4 DEF FirstLine, Later
  <2>3. CASE c \in { "CR", "LF" }
    <3>1. q.state = "error_state"
      BY <1>1, <1>3, <1>4, <2>3, ReadCharState, Chars
    <3> QED  BY <3>1 DEF FirstLine, Later
  <2>4. CASE c \notin { "SP", "CR", "LF" }
    <3>1. q.state = "method" /\ q.tmp = Append(m.tmp, c)
      BY <1>1, <1>3, <1>4, <2>4, ReadCharState, ReadCharToken
    <3>2. Plain(q.tmp) /\ Reads(s, 0, q.tmp, k + 1)
      BY <1>1, <1>2, <2>1, <2>4, <3>1, TokenMore, ReadsMore DEF c
    <3> QED  BY <3>1, <3>2 DEF FirstLine, Later
  <2> QED  BY <2>2, <2>3, <2>4
<1>5. CASE m.state = "path"
  <2>1. PICK j \in 0 .. k : Reads(s, 0, Line1(m), j) /\ Reads(s, j, m.tmp, k)
    BY <1>5 DEF FirstLine
  <2>2. Plain(m.tmp) /\ Plain(m.method)
    BY <1>5 DEF FirstLine
  <2>3. Line1(m) \in Text
    BY <1>2, Chars DEF Line1, Text
  <2>4. CASE c = "SP"
    <3>1. q.state = "protocol_version" /\ q.tmp = <<>> /\ q.path = m.tmp /\ q.method = m.method
      BY <1>1, <1>3, <1>5, <2>4, ReadCharState, ReadCharToken, ReadCharParts
    <3>2. Reads(s, 0, Line2(q), k + 1)
      <4> DEFINE t == Line1(m)
                 w == t \o m.tmp \o << c >>
      <4>1. Line2(q) = w
        BY <2>4, <3>1 DEF Line2, Line1
      <4>2. j \in Nat /\ t \in Text /\ Reads(s, 0, t, j)
        BY <2>1, <2>3
      <4> HIDE DEF t
      <4>3. Reads(s, 0, w, k + 1)
        BY <1>1, <1>2, <2>1, <4>2, <1>9, LineMore
      <4> QED  BY <4>1, <4>3
    <3>3. Reads(s, k + 1, q.tmp, k + 1)
      BY <1>1, <3>1, ReadsShort
    <3>4. k + 1 \in 0 .. k + 1
      OBVIOUS
    <3> QED  BY <2>2, <3>1, <3>2, <3>3, <3>4 DEF FirstLine, Later
  <2>5. CASE c \in { "CR", "LF" }
    <3>1. q.state = "error_state"
      BY <1>1, <1>3, <1>5, <2>5, ReadCharState, Chars
    <3> QED  BY <3>1 DEF FirstLine, Later
  <2>6. CASE c \notin { "SP", "CR", "LF" }
    <3>1. q.state = "path" /\ q.tmp = Append(m.tmp, c) /\ q.method = m.method
      BY <1>1, <1>3, <1>5, <2>6, ReadCharState, ReadCharToken, ReadCharParts
    <3>2. Plain(q.tmp)
      BY <1>1, <1>2, <2>2, <2>6, <3>1, TokenMore
    <3>3. j \in Nat /\ j \in 0 .. k + 1
      OBVIOUS
    <3>4. Reads(s, j, q.tmp, k + 1)
      BY <1>1, <1>2, <2>1, <3>1, <3>3, ReadsMore DEF c
    <3>5. Line1(q) = Line1(m)
      BY <3>1 DEF Line1
    <3> QED  BY <2>1, <2>2, <3>1, <3>2, <3>3, <3>4, <3>5 DEF FirstLine, Later
  <2> QED  BY <2>4, <2>5, <2>6
<1>6. CASE m.state = "protocol_version"
  <2>1. PICK j \in 0 .. k : Reads(s, 0, Line2(m), j) /\ Reads(s, j, m.tmp, k)
    BY <1>6 DEF FirstLine
  <2>2. Plain(m.path) /\ Plain(m.method)
    BY <1>6 DEF FirstLine
  <2>3. Line2(m) \in Text
    BY <1>2, Chars DEF Line1, Line2, Text
  <2>4. CASE c = "CR"
    <3>1. q.state = "cr" /\ q.path = m.path /\ q.method = m.method /\ q.protocol = m.tmp
      BY <1>1, <1>3, <1>6, <2>4, ReadCharState, ReadCharParts, Chars
    <3>2. Reads(s, 0, Line3(q), k + 1)
      <4> DEFINE t == Line2(m)
                 w == t \o m.tmp \o << c >>
      <4>1. Line3(q) = w
        BY <2>4, <3>1 DEF Line3, Line2, Line1
      <4>2. j \in Nat /\ t \in Text /\ Reads(s, 0, t, j)
        BY <2>1, <2>3
      <4> HIDE DEF t
      <4>3. Reads(s, 0, w, k + 1)
        BY <1>1, <1>2, <2>1, <4>2, <1>9, LineMore
      <4> QED  BY <4>1, <4>3
    <3>3. k + 1 \in 0 .. k + 1
      OBVIOUS
    <3> QED  BY <2>2, <3>1, <3>2, <3>3 DEF FirstLine, Later
  <2>5. CASE c = "LF"
    <3>1. q.state = "error_state"
      BY <1>1, <1>3, <1>6, <2>5, ReadCharState, Chars
    <3> QED  BY <3>1 DEF FirstLine, Later
  <2>6. CASE c \notin { "CR", "LF" }
    <3>1. /\ q.state = "protocol_version" /\ q.tmp = Append(m.tmp, c) /\ q.method = m.method
          /\ q.path = m.path
      BY <1>1, <1>3, <1>6, <2>6, ReadCharState, ReadCharToken, ReadCharParts
    <3>2. j \in Nat /\ j \in 0 .. k + 1
      OBVIOUS
    <3>3. Reads(s, j, q.tmp, k + 1)
      BY <1>1, <1>2, <2>1, <3>1, <3>2, ReadsMore DEF c
    <3>4. Line2(q) = Line2(m)
      BY <3>1 DEF Line2, Line1
    <3> QED  BY <2>1, <2>2, <3>1, <3>2, <3>3, <3>4 DEF FirstLine, Later
  <2> QED  BY <2>4, <2>5, <2>6
<1>7. CASE m.state \in Later
  <2>1. PICK j \in 0 .. k : Reads(s, 0, Line3(m), j)
    BY <1>7 DEF FirstLine
  <2>2. Plain(m.path) /\ Plain(m.method)
    BY <1>7 DEF FirstLine
  <2>3. q.state \in Later \cup { "error_state" }
    BY <1>1, <1>3, <1>7, ReadCharState DEF Later
  <2>4. q.path = m.path /\ q.method = m.method /\ q.protocol = m.protocol
    BY <1>1, <1>3, <1>7, ReadCharParts DEF Later
  <2>5. Line3(q) = Line3(m)
    BY <2>4 DEF Line3, Line2, Line1
  <2>6. j \in 0 .. k + 1
    OBVIOUS
  <2> QED  BY <2>1, <2>2, <2>3, <2>4, <2>5, <2>6 DEF FirstLine, Later
<1>8. CASE m.state = "error_state"
  <2>1. q.state = "error_state"
    BY <1>1, <1>3, <1>8, ReadCharState
  <2> QED  BY <2>1 DEF FirstLine, Later
<1> QED  BY <1>2, <1>4, <1>5, <1>6, <1>7, <1>8 DEF States, Later

(* What is read of a line, and the value and the token that are read.      *)
LEMMA ThisLineKept ==
  ASSUME NEW s \in Text, NEW k \in Nat, k < Len(s), NEW m \in Machines,
         m.state # "not_started", ThisLine(s, k, m), Ending(s, k, m),
         NEW q, q = ReadChar(m, s[k + 1])
  PROVE  ThisLine(s, k + 1, q)
<1> DEFINE c == s[k + 1]
<1>1. c \in Char /\ k + 1 \in Nat
  BY DEF Text
<1>2. m.tmp \in Text /\ m.val \in Text /\ m.state \in States
  BY MachineIs
<1>3. q = ReadChar(m, c) /\ s[k + 1] = c
  OBVIOUS
<1> HIDE DEF c
<1>4. q.state \in { "cr", "crlf", "crlfcr", "body" } => q.tmp = <<>>
  <2>1. m.state \in { "cr", "crlf", "crlfcr", "body" } => m.tmp = <<>>
    BY DEF ThisLine
  <2> QED  BY <1>1, <1>2, <1>3, <2>1, ReadCharState, ReadCharToken DEF States
<1>5. q.state \notin { "header_value", "error_state" } => q.val = <<>>
  <2>1. m.state \notin { "header_value", "error_state" } => m.val = <<>>
    BY DEF ThisLine
  <2>2. q.val = IF m.state = "header_value"
                THEN IF c = "CR" THEN <<>> ELSE Append(m.val, c) ELSE m.val
    BY <1>1, <1>3, ReadCharParts
  <2>3. m.state = "header_value" /\ c # "CR" => q.state = "header_value"
    BY <1>1, <1>3, ReadCharState
  <2>4. m.state = "error_state" => q.state = "error_state"
    BY <1>1, <1>3, ReadCharState
  <2> QED  BY <2>1, <2>2, <2>3, <2>4
<1>6. ASSUME q.state = "header_name"
      PROVE  /\ Name(q.tmp)
             /\ \E a \in 0 .. k + 1 : CrLf(s, a) /\ Reads(s, a, q.tmp, k + 1)
  <2>1. \/ m.state = "crlf" /\ c # "CR"
        \/ m.state = "header_name" /\ c \notin { "COLON", "CR", "LF" }
    BY <1>1, <1>2, <1>3, <1>6, ReadCharState DEF States
  <2>2. CASE m.state = "crlf" /\ c # "CR"
    <3>1. q.tmp = Append(m.tmp, c) /\ m.tmp = <<>>
      BY <1>1, <1>3, <2>2, ReadCharToken DEF ThisLine
    <3>2. Name(q.tmp)
      BY <1>1, <1>2, <2>2, <3>1, TokenMore
    <3>3. CrLf(s, k)
      BY <2>2 DEF Ending, Reading
    <3>4. Reads(s, k, m.tmp, k)
      BY <3>1, ReadsShort
    <3>5. Reads(s, k, q.tmp, k + 1)
      BY <1>1, <1>2, <1>3, <3>1, <3>4, ReadsMore
    <3>6. k \in 0 .. k + 1
      OBVIOUS
    <3> QED  BY <3>2, <3>3, <3>5, <3>6
  <2>3. CASE m.state = "header_name" /\ c \notin { "COLON", "CR", "LF" }
    <3>1. PICK a \in 0 .. k : CrLf(s, a) /\ Reads(s, a, m.tmp, k)
      BY <2>3 DEF ThisLine
    <3>2. q.tmp = Append(m.tmp, c) /\ Name(m.tmp)
      BY <1>1, <1>3, <2>3, ReadCharToken DEF ThisLine
    <3>3. Name(q.tmp)
      BY <1>1, <1>2, <2>3, <3>2, TokenMore
    <3>4. a \in Nat /\ a \in 0 .. k + 1
      OBVIOUS
    <3>5. Reads(s, a, q.tmp, k + 1)
      BY <1>1, <1>2, <1>3, <3>1, <3>2, <3>4, ReadsMore
    <3> QED  BY <3>1, <3>3, <3>4, <3>5
  <2> QED  BY <2>1, <2>2, <2>3
<1>7. ASSUME q.state = "header_value"
      PROVE  /\ Name(q.tmp) /\ NoCr(q.val)
             /\ \E a \in 0 .. k + 1, e \in 0 .. (k + 1) - 1 :
                  /\ CrLf(s, a) /\ Reads(s, a, q.tmp, e) /\ s[e + 1] = "COLON"
                  /\ Reads(s, e + 1, q.val, k + 1)
  <2>1. \/ m.state = "header_name" /\ c = "COLON"
        \/ m.state = "header_value" /\ c # "CR"
    BY <1>1, <1>2, <1>3, <1>7, ReadCharState, Chars DEF States
  <2>2. CASE m.state = "header_name" /\ c = "COLON"
    <3>1. PICK a \in 0 .. k : CrLf(s, a) /\ Reads(s, a, m.tmp, k)
      BY <2>2 DEF ThisLine
    <3>2. q.tmp = m.tmp /\ q.val = m.val
      BY <1>1, <1>3, <2>2, ReadCharToken, ReadCharParts
    <3>3. Name(m.tmp) /\ m.val = <<>>
      BY <2>2 DEF ThisLine
    <3>4. NoCr(q.val) /\ Reads(s, k + 1, q.val, k + 1)
      BY <1>1, <3>2, <3>3, TokenNone, ReadsShort
    <3>5. a \in 0 .. k + 1 /\ k \in 0 .. (k + 1) - 1
      OBVIOUS
    <3> QED  BY <1>3, <2>2, <3>1, <3>2, <3>3, <3>4, <3>5
  <2>3. CASE m.state = "header_value" /\ c # "CR"
    <3>1. PICK a \in 0 .. k, e \in 0 .. k - 1 :
            /\ CrLf(s, a) /\ Reads(s, a, m.tmp, e) /\ s[e + 1] = "COLON"
            /\ Reads(s, e + 1, m.val, k)
      BY <2>3 DEF ThisLine
    <3>2. q.tmp = m.tmp /\ q.val = Append(m.val, c)
      <4>1. q.tmp = m.tmp
        BY <1>1, <1>3, <2>3, ReadCharToken
      <4>2. q.val = Append(m.val, c)
        BY <1>1, <1>3, <2>3, ValueMore
      <4> QED  BY <4>1, <4>2
    <3>3. Name(m.tmp) /\ NoCr(m.val)
      BY <2>3 DEF ThisLine
    <3>4. NoCr(q.val)
      BY <1>1, <1>2, <2>3, <3>2, <3>3, TokenMore
    <3>5. a \in 0 .. k + 1 /\ e \in 0 .. (k + 1) - 1 /\ e + 1 \in Nat
      OBVIOUS
    <3>6. Reads(s, e + 1, q.val, k + 1)
      BY <1>1, <1>2, <1>3, <3>1, <3>2, <3>5, ReadsMore
    <3> QED  BY <3>1, <3>2, <3>3, <3>4, <3>5, <3>6
  <2> QED  BY <2>1, <2>2, <2>3
<1> QED  BY <1>4, <1>5, <1>6, <1>7 DEF ThisLine

(* Before a state in which the head is read, there is one, or the request  *)
(* was malformed.                                                          *)
LEMMA ReadingBefore ==
  ASSUME NEW m \in Machines, NEW c \in Char, m.state # "not_started", NEW q,
         q = ReadChar(m, c), q.state \in Reading
  PROVE  m.state \in Reading
<1>1. m.state \in States
  BY MachineIs
<1>2. m.state \in { "body", "error_state" } => q.state = m.state
  BY ReadCharState
<1> QED  BY <1>1, <1>2 DEF Reading, States

(* The end of what has been read.                                          *)
LEMMA EndingKept ==
  ASSUME NEW s \in Text, NEW k \in Nat, k < Len(s), NEW m \in Machines,
         m.state # "not_started", Ending(s, k, m), NEW q, q = ReadChar(m, s[k + 1])
  PROVE  Ending(s, k + 1, q)
<1> SUFFICES ASSUME q.state \in Reading
             PROVE  /\ k + 1 >= 1 /\ s[k + 1] = "CR" <=> q.state \in { "cr", "crlfcr" }
                    /\ CrLf(s, k + 1) <=> q.state = "crlf"
                    /\ CrLf(s, (k + 1) - 1) /\ s[k + 1] = "CR" <=> q.state = "crlfcr"
  BY DEF Ending
<1> DEFINE c == s[k + 1]
<1>1. c \in Char /\ (k + 1) - 1 = k
  BY DEF Text
<1>2. q = ReadChar(m, c) /\ s[k + 1] = c
  OBVIOUS
<1> HIDE DEF c
<1>3. m.state \in Reading
  BY <1>1, <1>2, ReadingBefore
<1>4. /\ k >= 1 /\ s[k] = "CR" <=> m.state \in { "cr", "crlfcr" }
      /\ CrLf(s, k) <=> m.state = "crlf"
  BY <1>3 DEF Ending
<1>5. /\ c = "CR" <=> q.state \in { "cr", "crlfcr" }
      /\ m.state \in { "cr", "crlfcr" } /\ c = "LF" <=> q.state = "crlf"
      /\ m.state = "crlf" /\ c = "CR" <=> q.state = "crlfcr"
  BY <1>1, <1>2, <1>3, ReadCharState, Chars DEF Reading
<1>6. CrLf(s, k + 1) <=> (k >= 1 /\ s[k] = "CR" /\ c = "LF")
  BY <1>1, <1>2 DEF CrLf
<1> QED  BY <1>1, <1>2, <1>4, <1>5, <1>6

(* Where the body begins, and what it is.                                  *)
LEMMA BodiesKept ==
  ASSUME NEW s \in Text, NEW k \in Nat, k < Len(s), NEW m \in Machines,
         m.state # "not_started", Ending(s, k, m), Bodies(s, k, m),
         NEW q, q = ReadChar(m, s[k + 1])
  PROVE  Bodies(s, k + 1, q)
<1> DEFINE c == s[k + 1]
<1>1. c \in Char /\ k + 1 \in Nat
  BY DEF Text
<1>2. m.body \in Text /\ m.state \in States
  BY MachineIs
<1>3. q = ReadChar(m, c) /\ s[k + 1] = c
  OBVIOUS
<1> HIDE DEF c
<1>4. q.body = IF m.state = "body" THEN Append(m.body, c) ELSE m.body
  BY <1>1, <1>3, ReadCharParts
<1>5. ASSUME q.state \in Reading
      PROVE  q.body = <<>> /\ \A i \in 1 .. (k + 1) - 3 : ~ Blank(s, i)
  <2>1. m.state \in Reading
    BY <1>1, <1>3, <1>5, ReadingBefore
  <2>2. m.body = <<>> /\ \A i \in 1 .. k - 3 : ~ Blank(s, i)
    BY <2>1 DEF Bodies
  <2>3. q.body = <<>>
    BY <1>4, <2>1, <2>2 DEF Reading
  <2>4. ASSUME NEW i \in 1 .. (k + 1) - 3, Blank(s, i)
        PROVE  FALSE
    <3>1. i = k - 2
      BY <2>2, <2>4
    <3>2. k - 1 >= 2 /\ i + 1 = k - 1 /\ i + 2 = k /\ i + 3 = k + 1 /\ (k - 1) - 1 = i
      BY <3>1
    <3>3. s[i] = "CR" /\ s[i + 1] = "LF" /\ s[i + 2] = "CR" /\ s[i + 3] = "LF"
      BY <2>4 DEF Blank
    <3>4. s[(k - 1) - 1] = "CR" /\ s[k - 1] = "LF" /\ s[k] = "CR" /\ s[k + 1] = "LF"
      BY <3>2, <3>3
    <3>5. CrLf(s, k - 1) /\ s[k] = "CR"
      BY <3>2, <3>4 DEF CrLf
    <3>6. m.state = "crlfcr" /\ c = "LF"
      BY <1>3, <2>1, <3>4, <3>5 DEF Ending
    <3>7. q.state = "body"
      BY <1>1, <1>3, <3>6, ReadCharState
    <3> QED  BY <1>5, <3>7 DEF Reading
  <2> QED  BY <2>3, <2>4
<1>6. ASSUME q.state = "body"
      PROVE  \E i \in 1 .. (k + 1) - 3 :
               /\ Blank(s, i) /\ \A j \in 1 .. i - 1 : ~ Blank(s, j)
               /\ Reads(s, i + 3, q.body, k + 1)
  <2>1. (m.state = "crlfcr" /\ c = "LF") \/ m.state = "body"
    BY <1>1, <1>2, <1>3, <1>6, ReadCharState, Chars DEF States
  <2>2. CASE m.state = "crlfcr" /\ c = "LF"
    <3>1. CrLf(s, k - 1) /\ s[k] = "CR"
      BY <2>2 DEF Ending, Reading
    <3>2. m.body = <<>> /\ \A i \in 1 .. k - 3 : ~ Blank(s, i)
      BY <2>2 DEF Bodies, Reading
    <3> DEFINE i == k - 2
    <3>3. /\ i \in 1 .. (k + 1) - 3 /\ i + 1 = k - 1 /\ i + 2 = k /\ i + 3 = k + 1
          /\ (k - 1) - 1 = i /\ i - 1 = k - 3
      BY <3>1 DEF CrLf
    <3>4. s[(k - 1) - 1] = "CR" /\ s[k - 1] = "LF"
      BY <3>1 DEF CrLf
    <3> HIDE DEF i
    <3>5. Blank(s, i)
      BY <1>3, <2>2, <3>1, <3>3, <3>4 DEF Blank
    <3>6. Reads(s, i + 3, q.body, k + 1)
      BY <1>1, <1>4, <2>2, <3>2, <3>3, ReadsShort
    <3> QED  BY <3>2, <3>3, <3>5, <3>6
  <2>3. CASE m.state = "body"
    <3>1. PICK i \in 1 .. k - 3 : /\ Blank(s, i) /\ \A j \in 1 .. i - 1 : ~ Blank(s, j)
                                  /\ Reads(s, i + 3, m.body, k)
      BY <2>3 DEF Bodies
    <3>2. q.body = Append(m.body, c)
      BY <1>4, <2>3
    <3>3. i \in 1 .. (k + 1) - 3 /\ i + 3 \in Nat
      OBVIOUS
    <3>4. Reads(s, i + 3, q.body, k + 1)
      BY <1>1, <1>2, <1>3, <3>1, <3>2, <3>3, ReadsMore
    <3> QED  BY <3>1, <3>3, <3>4
  <2> QED  BY <2>1, <2>2, <2>3
<1> QED  BY <1>5, <1>6 DEF Bodies

(* Which names have been read.                                             *)
LEMMA NamesKept ==
  ASSUME NEW s \in Text, NEW k \in Nat, k < Len(s), NEW m \in Machines,
         m.state # "not_started", Ending(s, k, m), ThisLine(s, k, m), Names(s, k, m),
         NEW q, q = ReadChar(m, s[k + 1])
  PROVE  Names(s, k + 1, q)
<1> DEFINE c == s[k + 1]
<1>1. c \in Char /\ k + 1 \in Nat
  BY DEF Text
<1>2. m.tmp \in Text /\ m.val \in Text /\ m.state \in States /\ m.headers \in Maps
  BY MachineIs
<1>3. q = ReadChar(m, c) /\ s[k + 1] = c
  OBVIOUS
<1> HIDE DEF c
<1> SUFFICES ASSUME q.state \in Reading
             PROVE  /\ \A a \in 1 .. k + 1 : NameAt(s, a, k + 1) =>
                         q.state = "header_name" /\ Reads(s, a, q.tmp, k + 1)
                    /\ \A a \in 1 .. k + 1, e \in 1 .. (k + 1) - 1 :
                         NameAt(s, a, e) /\ s[e + 1] = "COLON" =>
                         \/ \E n \in DOMAIN q.headers : Reads(s, a, n, e)
                         \/ /\ q.state = "header_value" /\ Reads(s, a, q.tmp, e)
                            /\ Reads(s, e + 1, q.val, k + 1)
  BY DEF Names
<1>4. m.state \in Reading
  BY <1>1, <1>3, ReadingBefore
<1>5. \A a \in 1 .. k : NameAt(s, a, k) => m.state = "header_name" /\ Reads(s, a, m.tmp, k)
  BY <1>4 DEF Names
<1>6. ASSUME NEW a \in 1 .. k + 1, NameAt(s, a, k + 1)
      PROVE  q.state = "header_name" /\ Reads(s, a, q.tmp, k + 1)
  <2>1. CrLf(s, a) /\ a < k + 1
    BY <1>6 DEF NameAt
  <2>2. CASE a = k
    <3>1. m.state = "crlf"
      BY <1>4, <2>1, <2>2 DEF Ending
    <3>2. c # "CR"
      BY <1>3, <1>6, <2>2 DEF NameAt
    <3>3. m.tmp = <<>>
      BY <3>1 DEF ThisLine
    <3>4. q.state = "header_name"
      BY <1>1, <1>3, <3>1, <3>2, ReadCharState
    <3>5. q.tmp = Append(m.tmp, c)
      BY <1>1, <1>3, <3>1, <3>2, ReadCharToken
    <3>6. Reads(s, k, m.tmp, k)
      BY <3>3, ReadsShort
    <3>7. Reads(s, k, q.tmp, k + 1)
      BY <1>1, <1>2, <1>3, <3>5, <3>6, ReadsMore
    <3> QED  BY <2>2, <3>4, <3>7
  <2>3. CASE a < k
    <3>1. a \in 1 .. k /\ a \in Nat
      BY <2>3
    <3>2. NameAt(s, a, k) /\ c \notin { "COLON", "CR", "LF" }
      BY <1>3, <1>6, <2>3 DEF NameAt
    <3>3. m.state = "header_name" /\ Reads(s, a, m.tmp, k)
      BY <1>5, <3>1, <3>2
    <3>4. q.state = "header_name"
      BY <1>1, <1>3, <3>2, <3>3, ReadCharState
    <3>5. q.tmp = Append(m.tmp, c)
      BY <1>1, <1>3, <3>2, <3>3, ReadCharToken
    <3>6. Reads(s, a, q.tmp, k + 1)
      BY <1>1, <1>2, <1>3, <3>1, <3>3, <3>5, ReadsMore
    <3> QED  BY <3>4, <3>6
  <2> QED  BY <2>1, <2>2, <2>3
<1>7. ASSUME NEW a \in 1 .. k + 1, NEW e \in 1 .. (k + 1) - 1, NameAt(s, a, e),
             s[e + 1] = "COLON"
      PROVE  \/ \E n \in DOMAIN q.headers : Reads(s, a, n, e)
             \/ /\ q.state = "header_value" /\ Reads(s, a, q.tmp, e)
                /\ Reads(s, e + 1, q.val, k + 1)
  <2>1. a < e /\ a \in 1 .. k /\ e \in 1 .. k /\ e + 1 \in Nat
    BY <1>7 DEF NameAt
  <2>2. CASE e = k
    <3>1. c = "COLON"
      BY <1>3, <1>7, <2>2
    <3>2. m.state = "header_name" /\ Reads(s, a, m.tmp, k)
      BY <1>5, <1>7, <2>1, <2>2
    <3>3. q.state = "header_value"
      BY <1>1, <1>3, <3>1, <3>2, ReadCharState, Chars
    <3>4. q.tmp = m.tmp
      BY <1>1, <1>3, <3>1, <3>2, ReadCharToken
    <3>5. q.val = m.val
      BY <1>1, <1>3, <3>2, ReadCharParts
    <3>6. m.val = <<>>
      BY <3>2 DEF ThisLine
    <3>7. Reads(s, k + 1, q.val, k + 1)
      BY <1>1, <3>5, <3>6, ReadsShort
    <3> QED  BY <2>2, <3>2, <3>3, <3>4, <3>7
  <2>3. CASE e < k
    <3>1. e \in 1 .. k - 1
      BY <2>1, <2>3
    <3>2. \/ \E n \in DOMAIN m.headers : Reads(s, a, n, e)
          \/ /\ m.state = "header_value" /\ Reads(s, a, m.tmp, e)
             /\ Reads(s, e + 1, m.val, k)
      BY <1>4, <1>7, <2>1, <3>1 DEF Names
    <3>3. q.headers = IF m.state = "header_value" /\ c = "CR"
                      THEN Emplace(m.headers, m.tmp, m.val) ELSE m.headers
      BY <1>1, <1>3, ReadCharParts
    <3>4. DOMAIN Emplace(m.headers, m.tmp, m.val) = DOMAIN m.headers \cup { m.tmp }
      BY <1>2, EmplaceDomain
    <3>5. CASE \E n \in DOMAIN m.headers : Reads(s, a, n, e)
      BY <3>3, <3>4, <3>5
    <3>6. CASE /\ m.state = "header_value" /\ Reads(s, a, m.tmp, e)
               /\ Reads(s, e + 1, m.val, k)
      <4>1. CASE c = "CR"
        BY <3>3, <3>4, <3>6, <4>1
      <4>2. CASE c # "CR"
        <5>1. q.state = "header_value"
          BY <1>1, <1>3, <3>6, <4>2, ReadCharState
        <5>2. q.tmp = m.tmp
          BY <1>1, <1>3, <3>6, <4>2, ReadCharToken
        <5>3. q.val = Append(m.val, c)
          BY <1>1, <1>3, <3>6, <4>2, ValueMore
        <5>4. Reads(s, e + 1, q.val, k + 1)
          BY <1>1, <1>2, <1>3, <2>1, <3>6, <5>3, ReadsMore
        <5> QED  BY <3>6, <5>1, <5>2, <5>4
      <4> QED  BY <4>1, <4>2
    <3> QED  BY <3>2, <3>5, <3>6
  <2> QED  BY <2>1, <2>2, <2>3
<1> QED  BY <1>6, <1>7

(* A line of the name n is a place where a name stands before a colon.     *)
LEMMA HeaderIsName ==
  ASSUME NEW s \in Text, NEW b \in Nat, NEW n \in Text, Name(n), HeaderAt(s, b, n)
  PROVE  NameAt(s, b, b + Len(n)) /\ s[(b + Len(n)) + 1] = "COLON" /\ b >= 1
<1>1. Len(n) \in Nat /\ Len(n) >= 1 /\ n[1] # "CR"
  BY DEF Name, Text
<1>2. /\ CrLf(s, b) /\ s[b + Len(n) + 1] = "COLON"
      /\ \A i \in 1 .. Len(n) : s[b + i] = n[i]
  BY DEF HeaderAt, Reads
<1>3. b >= 2
  BY <1>2 DEF CrLf
<1>4. s[b + 1] # "CR"
  BY <1>1, <1>2
<1>5. ASSUME NEW i \in b + 2 .. b + Len(n)
      PROVE  s[i] \notin { "COLON", "CR", "LF" }
  <2>1. PICK d \in 2 .. Len(n) : i = b + d
    <3>1. i - b \in 2 .. Len(n) /\ i = b + (i - b)
      BY <1>1
    <3> QED  BY <3>1
  <2>2. n[d] \notin { "COLON", "CR", "LF" }
    BY <2>1 DEF Name
  <2>3. d \in 1 .. Len(n)
    BY <2>1
  <2>4. s[b + d] = n[d]
    BY <1>2, <2>3
  <2> QED  BY <2>1, <2>2, <2>4
<1>6. b < b + Len(n)
  BY <1>1
<1> QED  BY <1>2, <1>3, <1>4, <1>5, <1>6 DEF NameAt

(* The headers are lines of the head, each the first of its name.          *)
LEMMA StoredKept ==
  ASSUME NEW s \in Text, NEW k \in Nat, k < Len(s), NEW m \in Machines,
         m.state # "not_started", ThisLine(s, k, m), Names(s, k, m), Stored(s, k, m),
         NEW q, q = ReadChar(m, s[k + 1])
  PROVE  Stored(s, k + 1, q)
<1> DEFINE c == s[k + 1]
<1>1. c \in Char /\ k + 1 \in Nat
  BY DEF Text
<1>2. /\ m.tmp \in Text /\ m.val \in Text /\ m.state \in States /\ m.headers \in Maps
      /\ DOMAIN m.headers \subseteq Text
  BY MachineIs DEF Maps
<1>3. q = ReadChar(m, c) /\ s[k + 1] = c
  OBVIOUS
<1> HIDE DEF c
<1>4. ASSUME NEW n \in DOMAIN m.headers
      PROVE  /\ NoCr(m.headers[n])
             /\ \E a \in 0 .. k + 1 :
                  /\ HeaderAt(s, a, n)
                  /\ \A b \in 0 .. a - 1 : ~ HeaderAt(s, b, n)
                  /\ \E z \in 0 .. (k + 1) - 1 :
                       Reads(s, a + Len(n) + 1, m.headers[n], z) /\ s[z + 1] = "CR"
  <2>1. PICK a \in 0 .. k : /\ HeaderAt(s, a, n)
                            /\ \A b \in 0 .. a - 1 : ~ HeaderAt(s, b, n)
                            /\ \E z \in 0 .. k - 1 :
                                 Reads(s, a + Len(n) + 1, m.headers[n], z) /\ s[z + 1] = "CR"
    BY DEF Stored
  <2>2. PICK z \in 0 .. k - 1 :
          Reads(s, a + Len(n) + 1, m.headers[n], z) /\ s[z + 1] = "CR"
    BY <2>1
  <2>3. NoCr(m.headers[n])
    BY DEF Stored
  <2>4. a \in 0 .. k + 1 /\ z \in 0 .. (k + 1) - 1
    OBVIOUS
  <2> QED  BY <2>1, <2>2, <2>3, <2>4
<1>5. ASSUME m.state = "header_value", c = "CR", m.tmp \notin DOMAIN m.headers
      PROVE  /\ NoCr(m.val)
             /\ \E a \in 0 .. k + 1 :
                  /\ HeaderAt(s, a, m.tmp)
                  /\ \A b \in 0 .. a - 1 : ~ HeaderAt(s, b, m.tmp)
                  /\ \E z \in 0 .. (k + 1) - 1 :
                       Reads(s, a + Len(m.tmp) + 1, m.val, z) /\ s[z + 1] = "CR"
  <2> DEFINE n == m.tmp
  <2>1. n \in Text /\ Len(n) \in Nat /\ Name(n) /\ NoCr(m.val)
    BY <1>2, <1>5 DEF ThisLine, Text
  <2>2. PICK a \in 0 .. k, e \in 0 .. k - 1 :
          /\ CrLf(s, a) /\ Reads(s, a, n, e) /\ s[e + 1] = "COLON"
          /\ Reads(s, e + 1, m.val, k)
    BY <1>5 DEF ThisLine
  <2>3. \A n1 \in DOMAIN m.headers : n1 # n
    BY <1>5
  <2> HIDE DEF n
  <2>4. e = a + Len(n)
    BY <2>2 DEF Reads
  <2>5. HeaderAt(s, a, n)
    BY <2>2, <2>4 DEF HeaderAt
  <2>6. ASSUME NEW b \in 0 .. a - 1, HeaderAt(s, b, n)
        PROVE  FALSE
    <3> DEFINE f == b + Len(n)
    <3>1. b \in Nat /\ NameAt(s, b, f) /\ s[f + 1] = "COLON" /\ b >= 1
      BY <2>1, <2>6, HeaderIsName
    <3>2. f \in Nat /\ f < e /\ b < f /\ Reads(s, b, n, f)
      <4>1. Reads(s, b, n, f)
        BY <2>6 DEF HeaderAt
      <4>2. b < f
        BY <3>1 DEF NameAt
      <4>3. f \in Nat /\ f < e
        BY <2>1, <2>4
      <4> QED  BY <4>1, <4>2, <4>3
    <3> HIDE DEF f
    <3>3. b \in 1 .. k /\ f \in 1 .. k - 1
      BY <3>1, <3>2
    <3>4. m.state \in Reading
      BY <1>5 DEF Reading
    <3>5. \/ \E n1 \in DOMAIN m.headers : Reads(s, b, n1, f)
          \/ Reads(s, f + 1, m.val, k)
      BY <3>1, <3>3, <3>4 DEF Names
    <3>6. ASSUME NEW n1 \in DOMAIN m.headers, Reads(s, b, n1, f)
          PROVE  FALSE
      <4>1. n1 \in Text
        BY <1>2
      <4>2. n1 = n
        BY <2>1, <3>1, <3>2, <3>6, <4>1, ReadsSame
      <4> QED  BY <2>3, <4>2
    <3>7. ASSUME Reads(s, f + 1, m.val, k)
          PROVE  FALSE
      <4>1. Len(m.val) \in Nat
        BY <1>2 DEF Text
      <4> DEFINE l == Len(m.val)
      <4>2. l \in Nat /\ k = (f + 1) + l /\ k = (e + 1) + l
        BY <2>2, <3>7, <4>1 DEF Reads
      <4> HIDE DEF l
      <4>3. e \in Nat /\ f \in Nat /\ f < e
        BY <3>2
      <4> QED  BY <4>2, <4>3
    <3> QED  BY <3>5, <3>6, <3>7
  <2>7. a \in 0 .. k + 1 /\ k \in 0 .. (k + 1) - 1
    OBVIOUS
  <2>8. Reads(s, a + Len(n) + 1, m.val, k) /\ s[k + 1] = "CR"
    BY <1>3, <1>5, <2>2, <2>4
  <2>9. \E x \in 0 .. k + 1 :
          /\ HeaderAt(s, x, n)
          /\ \A b \in 0 .. x - 1 : ~ HeaderAt(s, b, n)
          /\ \E z \in 0 .. (k + 1) - 1 :
               Reads(s, x + Len(n) + 1, m.val, z) /\ s[z + 1] = "CR"
    BY <2>5, <2>6, <2>7, <2>8
  <2> QED  BY <2>1, <2>9 DEF n
<1>6. q.headers = IF m.state = "header_value" /\ c = "CR"
                  THEN Emplace(m.headers, m.tmp, m.val) ELSE m.headers
  BY <1>1, <1>3, ReadCharParts
<1>7. CASE m.state = "header_value" /\ c = "CR" /\ m.tmp \notin DOMAIN m.headers
  <2> DEFINE h == q.headers
  <2>1. /\ DOMAIN h = DOMAIN m.headers \cup { m.tmp }
        /\ \A i \in DOMAIN m.headers : h[i] = m.headers[i]
        /\ h[m.tmp] = m.val
    <3>1. h = Emplace(m.headers, m.tmp, m.val)
      BY <1>6, <1>7
    <3>2. /\ DOMAIN Emplace(m.headers, m.tmp, m.val) = DOMAIN m.headers \cup { m.tmp }
          /\ \A i \in DOMAIN m.headers : Emplace(m.headers, m.tmp, m.val)[i] = m.headers[i]
          /\ Emplace(m.headers, m.tmp, m.val)[m.tmp] = m.val
      BY <1>2, <1>7, EmplaceFacts, Zenon
    <3> QED  BY <3>1, <3>2
  <2> HIDE DEF h
  <2>2. ASSUME NEW n \in DOMAIN h
        PROVE  /\ NoCr(h[n])
               /\ \E a \in 0 .. k + 1 :
                    /\ HeaderAt(s, a, n)
                    /\ \A b \in 0 .. a - 1 : ~ HeaderAt(s, b, n)
                    /\ \E z \in 0 .. (k + 1) - 1 :
                         Reads(s, a + Len(n) + 1, h[n], z) /\ s[z + 1] = "CR"
    <3>1. CASE n \in DOMAIN m.headers
      <4>1. h[n] = m.headers[n]
        BY <2>1, <3>1
      <4> QED  BY <1>4, <3>1, <4>1
    <3>2. CASE n = m.tmp
      <4>1. h[n] = m.val
        BY <2>1, <3>2
      <4> QED  BY <1>5, <1>7, <3>2, <4>1
    <3> QED  BY <2>1, <3>1, <3>2
  <2> QED  BY <2>2 DEF Stored, h
<1>8. CASE ~ (m.state = "header_value" /\ c = "CR" /\ m.tmp \notin DOMAIN m.headers)
  <2>1. q.headers = m.headers
    BY <1>6, <1>8 DEF Emplace
  <2> QED  BY <1>4, <2>1 DEF Stored
<1> QED  BY <1>7, <1>8

-----------------------------------------------------------------------------
(* All that the parser knows.                                              *)

Known(s, k, m) ==
  /\ m \in Machines /\ m.state # "not_started"
  /\ FirstLine(s, k, m) /\ ThisLine(s, k, m) /\ Ending(s, k, m)
  /\ Bodies(s, k, m) /\ Names(s, k, m) /\ Stored(s, k, m)

(* One more character is read (the loop of on_segment).                    *)
LEMMA KnownKept ==
  ASSUME NEW s \in Text, NEW k \in Nat, k < Len(s), NEW m, Known(s, k, m),
         NEW q, q = ReadChar(m, s[k + 1])
  PROVE  Known(s, k + 1, q)
<1>1. /\ m \in Machines /\ m.state # "not_started"
      /\ FirstLine(s, k, m) /\ ThisLine(s, k, m) /\ Ending(s, k, m)
      /\ Bodies(s, k, m) /\ Names(s, k, m) /\ Stored(s, k, m)
  BY DEF Known
<1>2. q \in Machines /\ q.state # "not_started"
  <2>1. s[k + 1] \in Char
    BY DEF Text
  <2> QED  BY <1>1, <2>1, ReadCharTyped
<1>3. FirstLine(s, k + 1, q)
  BY <1>1, FirstLineKept
<1>4. ThisLine(s, k + 1, q)
  BY <1>1, ThisLineKept
<1>5. Ending(s, k + 1, q)
  BY <1>1, EndingKept
<1>6. Bodies(s, k + 1, q)
  BY <1>1, BodiesKept
<1>7. Names(s, k + 1, q)
  BY <1>1, NamesKept
<1>8. Stored(s, k + 1, q)
  BY <1>1, StoredKept
<1> QED  BY <1>2, <1>3, <1>4, <1>5, <1>6, <1>7, <1>8 DEF Known

(* The parser that is about to read a segment.                             *)
Begun(m) == IF m.state = "not_started" THEN [ m EXCEPT !.state = "method" ] ELSE m

(* A fresh parser.                                                         *)
LEMMA FreshFacts ==
  /\ FreshMachine \in Machines
  /\ FreshMachine.state = "not_started" /\ FreshMachine.headers = <<>>
<1>1. <<>> \in Text
  BY DEF Text
<1>2. <<>> \in Maps
  <2>1. DOMAIN <<>> = {}
    OBVIOUS
  <2>2. <<>> = [ x \in {} |-> x ]
    BY <2>1
  <2>3. [ x \in {} |-> x ] \in [ {} -> Text ]
    OBVIOUS
  <2>4. {} \in SUBSET Text
    OBVIOUS
  <2> QED  BY <2>2, <2>3, <2>4 DEF Maps
<1> QED  BY <1>1, <1>2 DEF FreshMachine, Machines, States

(* It has read nothing, and so knows all of it.                            *)
LEMMA KnownFirst ==
  ASSUME NEW s \in Text, NEW m, m = Begun(FreshMachine)
  PROVE  Known(s, 0, m)
<1>1. /\ m \in Machines /\ m.state = "method" /\ m.tmp = <<>> /\ m.val = <<>>
      /\ m.body = <<>> /\ m.headers = <<>>
  <2>1. m = [ FreshMachine EXCEPT !.state = "method" ]
    BY FreshFacts DEF Begun
  <2>2. "method" \in States
    BY DEF States
  <2>3. m \in Machines
    BY <2>1, <2>2, FreshFacts DEF Machines
  <2>4. /\ m.state = "method" /\ m.tmp = <<>> /\ m.val = <<>>
        /\ m.body = <<>> /\ m.headers = <<>>
    BY <2>1 DEF FreshMachine
  <2> QED  BY <2>3, <2>4
<1>2. FirstLine(s, 0, m)
  <2>1. Plain(m.tmp) /\ Reads(s, 0, m.tmp, 0)
    BY <1>1, TokenNone, ReadsShort
  <2> QED  BY <1>1, <2>1 DEF FirstLine, Later
<1>3. ThisLine(s, 0, m)
  BY <1>1 DEF ThisLine
<1>4. Ending(s, 0, m)
  BY <1>1 DEF Ending, CrLf
<1>5. Bodies(s, 0, m)
  BY <1>1 DEF Bodies
<1>6. Names(s, 0, m)
  BY <1>1 DEF Names
<1>7. Stored(s, 0, m)
  <2>1. DOMAIN m.headers = {}
    BY <1>1
  <2> QED  BY <2>1 DEF Stored
<1> QED  BY <1>1, <1>2, <1>3, <1>4, <1>5, <1>6, <1>7 DEF Known

-----------------------------------------------------------------------------
(* A segment.                                                              *)

(* f is the parser after each of the first n characters of g, from b on.   *)
After(f, b, g, n) == f = [ i \in 0 .. n |-> IF i = 0 THEN b ELSE ReadChar(f[i - 1], g[i]) ]

(* There is such a function.                                               *)
LEMMA AfterExist ==
  ASSUME NEW b, NEW g \in Text, NEW n \in Nat
  PROVE  \E f : After(f, b, g, n)
<1> DEFINE Eq(f, m) == f = [ i \in 0 .. m |-> IF i = 0 THEN b ELSE ReadChar(f[i - 1], g[i]) ]
           S == { m \in Nat : \E f : Eq(f, m) }
<1>1. 0 \in S
  <2> DEFINE f == [ i \in 0 .. 0 |-> b ]
  <2>1. \A i \in 0 .. 0 : i = 0
    OBVIOUS
  <2>2. Eq(f, 0)
    BY <2>1
  <2> HIDE DEF Eq, f
  <2> QED  BY <2>2
<1>2. ASSUME NEW m \in Nat, m \in S
      PROVE  m + 1 \in S
  <2>1. PICK f : Eq(f, m)
    <3> HIDE DEF Eq
    <3> QED  BY <1>2
  <2>2. \A i \in 0 .. m : f[i] = IF i = 0 THEN b ELSE ReadChar(f[i - 1], g[i])
    BY <2>1
  <2> DEFINE v == ReadChar(f[m], g[m + 1])
             h == [ i \in 0 .. m + 1 |-> IF i = m + 1 THEN v ELSE f[i] ]
  <2>3. /\ h = [ i \in 0 .. m + 1 |-> h[i] ]
        /\ \A i \in 0 .. m : h[i] = f[i]
        /\ h[m + 1] = v
    <3> HIDE DEF v
    <3>1. \A i \in 0 .. m : i \in 0 .. m + 1 /\ i # m + 1
      OBVIOUS
    <3>2. m + 1 \in 0 .. m + 1
      OBVIOUS
    <3> QED  BY <3>1, <3>2
  <2> HIDE DEF h
  <2>4. ASSUME NEW i \in 0 .. m + 1
        PROVE  h[i] = IF i = 0 THEN b ELSE ReadChar(h[i - 1], g[i])
    <3>1. CASE i = m + 1
      <4>1. i # 0 /\ i - 1 = m /\ m \in 0 .. m
        BY <3>1
      <4>2. h[i - 1] = f[m] /\ h[i] = v
        BY <2>3, <3>1, <4>1
      <4> QED  BY <3>1, <4>1, <4>2
    <3>2. CASE i # m + 1
      <4>1. i \in 0 .. m /\ (i # 0 => i - 1 \in 0 .. m)
        BY <3>2
      <4>2. h[i] = f[i] /\ (i # 0 => h[i - 1] = f[i - 1])
        BY <2>3, <4>1
      <4> QED  BY <2>2, <4>1, <4>2
    <3> QED  BY <3>1, <3>2
  <2>5. Eq(h, m + 1)
    BY <2>3, <2>4
  <2> HIDE DEF Eq
  <2> QED  BY <2>5
<1> HIDE DEF S
<1>3. n \in S
  BY <1>1, <1>2, Induction
<1> QED  BY <1>3 DEF S, After

(* on_segment reads one character after the other.                         *)
LEMMA SegmentSteps ==
  ASSUME NEW m, NEW g \in Text
  PROVE  \E f : /\ f[0] = Begun(m)
                /\ \A i \in 1 .. Len(g) : f[i] = ReadChar(f[i - 1], g[i])
                /\ on_segment(m, g) = f[Len(g)]
<1> DEFINE b == Begun(m)
           N == 0 .. Len(g)
           F == CHOOSE f : f = [ i \in N |-> IF i = 0 THEN b ELSE ReadChar(f[i - 1], g[i]) ]
<1>1. Len(g) \in Nat
  BY DEF Text
<1>2. on_segment(m, g) = F[Len(g)]
  BY DEF on_segment, Begun
<1> HIDE DEF b
<1>3. \E f : f = [ i \in N |-> IF i = 0 THEN b ELSE ReadChar(f[i - 1], g[i]) ]
  <2>1. \E f : After(f, b, g, Len(g))
    BY <1>1, AfterExist
  <2> QED  BY <2>1 DEF After
<1>4. F = [ i \in N |-> IF i = 0 THEN b ELSE ReadChar(F[i - 1], g[i]) ]
  BY <1>3
<1> HIDE DEF F
<1>5. 0 \in N /\ \A i \in 1 .. Len(g) : i \in N /\ i # 0
  BY <1>1
<1>6. F[0] = b /\ \A i \in 1 .. Len(g) : F[i] = ReadChar(F[i - 1], g[i])
  BY <1>4, <1>5
<1> QED  BY <1>2, <1>6 DEF b

(* The part of a stream that is a segment.                                 *)
Segment(s, k, n) == SubSeq(s, k + 1, k + n)

(* It is a text, of the characters that follow the first k.                *)
LEMMA SegmentOf ==
  ASSUME NEW s \in Text, NEW k \in Nat, NEW n \in Nat, k + n <= Len(s),
         NEW g, g = Segment(s, k, n)
  PROVE  g \in Text /\ Len(g) = n /\ \A i \in 1 .. n : g[i] = s[k + i]
<1>1. Len(s) \in Nat
  BY DEF Text
<1>2. g = [ i \in 1 .. n |-> s[k + i] ]
  <2>1. (k + n) - (k + 1) + 1 = n
    OBVIOUS
  <2>2. \A i \in 1 .. n : i + (k + 1) - 1 = k + i
    OBVIOUS
  <2>3. \A i \in 1 .. n : k + i \in 1 .. Len(s)
    BY <1>1
  <2> QED  BY <2>1, <2>2, <2>3 DEF Text, Segment
<1>3. \A i \in 1 .. n : s[k + i] \in Char
  BY <1>1 DEF Text
<1> QED  BY <1>2, <1>3 DEF Text

(* A parser that knows what it has read, or that has read nothing.         *)
Parsed(s, k, m) ==
  IF m.state = "not_started" THEN k = 0 /\ m = FreshMachine ELSE Known(s, k, m)

(* What has been read of a request is not forgotten: b is the parser       *)
(* before, m after.                                                        *)
Onward(b, m) ==
  /\ b.state \in { "body", "error_state" } => m.state = b.state
  /\ b.state \notin { "method", "path" } => m.state \notin { "method", "path" }
  /\ b.state = "body" => m.headers = b.headers

(* A character keeps that.                                                 *)
LEMMA OnwardKept ==
  ASSUME NEW b, NEW m \in Machines, NEW c \in Char, m.state # "not_started", Onward(b, m),
         NEW q, q = ReadChar(m, c)
  PROVE  Onward(b, q)
<1>1. m.state \in { "body", "error_state" } => q.state = m.state
  BY ReadCharState
<1>2. m.state \notin { "method", "path" } => q.state \notin { "method", "path" }
  <2>1. m.state \in States
    BY MachineIs
  <2> QED  BY <2>1, ReadCharState DEF States
<1>3. m.state = "body" => q.headers = m.headers
  BY ReadCharParts
<1> QED  BY <1>1, <1>2, <1>3 DEF Onward

(* A segment is read (on_segment).                                         *)
LEMMA SegmentKnown ==
  ASSUME NEW s \in Text, NEW k \in Nat, NEW n \in Nat, k + n <= Len(s), NEW m,
         Parsed(s, k, m), NEW g, g = Segment(s, k, n), NEW q, q = on_segment(m, g)
  PROVE  Known(s, k + n, q) /\ Onward(Begun(m), q)
<1>1. g \in Text /\ Len(g) = n /\ \A i \in 1 .. n : g[i] = s[k + i]
  BY SegmentOf
<1>2. PICK f : /\ f[0] = Begun(m)
               /\ \A i \in 1 .. Len(g) : f[i] = ReadChar(f[i - 1], g[i])
               /\ on_segment(m, g) = f[Len(g)]
  BY <1>1, SegmentSteps
<1> DEFINE S == { i \in Nat : i <= n => Known(s, k + i, f[i]) /\ Onward(f[0], f[i]) }
<1>3. 0 \in S
  <2>1. Known(s, k, Begun(m))
    BY KnownFirst DEF Parsed, Begun
  <2>2. Onward(f[0], f[0])
    BY DEF Onward
  <2> QED  BY <1>2, <2>1, <2>2
<1>4. ASSUME NEW i \in Nat, i \in S
      PROVE  i + 1 \in S
  <2>1. SUFFICES ASSUME i + 1 <= n
                 PROVE  Known(s, k + (i + 1), f[i + 1]) /\ Onward(f[0], f[i + 1])
    OBVIOUS
  <2>2. Known(s, k + i, f[i]) /\ Onward(f[0], f[i])
    BY <1>4, <2>1
  <2>3. i + 1 \in 1 .. n /\ (i + 1) - 1 = i /\ k + (i + 1) = (k + i) + 1 /\ k + i \in Nat
    BY <2>1
  <2>4. k + i < Len(s)
    BY <2>1 DEF Text
  <2>5. f[i + 1] = ReadChar(f[i], s[(k + i) + 1])
    BY <1>1, <1>2, <2>3
  <2>6. Known(s, (k + i) + 1, f[i + 1])
    BY <2>2, <2>3, <2>4, <2>5, KnownKept
  <2>7. Onward(f[0], f[i + 1])
    <3>1. s[(k + i) + 1] \in Char
      BY <2>3, <2>4 DEF Text
    <3>2. f[i] \in Machines /\ f[i].state # "not_started"
      BY <2>2 DEF Known
    <3> QED  BY <2>2, <2>5, <3>1, <3>2, OnwardKept
  <2> QED  BY <2>3, <2>6, <2>7
<1> HIDE DEF S
<1>5. n \in S
  BY <1>3, <1>4, Induction
<1> QED  BY <1>1, <1>2, <1>5 DEF S

-----------------------------------------------------------------------------
(* What the properties of RequestParsing say, in these terms.              *)

(* Two texts of one length with the same characters are one.               *)
LEMMA TextEqual ==
  ASSUME NEW t \in Text, NEW u \in Text, Len(t) = Len(u), \A i \in 1 .. Len(t) : t[i] = u[i]
  PROVE  t = u
BY DEF Text

(* The beginning of a stream.                                              *)
LEMMA Beginning ==
  ASSUME NEW s \in Text, NEW k \in Nat, k <= Len(s), NEW r, r = SubSeq(s, 1, k)
  PROVE  r \in Text /\ Len(r) = k /\ \A i \in 1 .. k : r[i] = s[i]
<1>1. Len(s) \in Nat
  BY DEF Text
<1>2. \A i \in 1 .. k : s[i] \in Char
  BY <1>1 DEF Text
<1>3. r = [ i \in 1 .. k |-> s[i] ]
  BY <1>1 DEF Text
<1> QED  BY <1>2, <1>3 DEF Text

(* A token that is read is a part of the stream, and of what has been read.*)
LEMMA ReadsIs ==
  ASSUME NEW s \in Text, NEW o \in Nat, NEW k \in Nat, k <= Len(s), NEW t \in Text,
         Reads(s, o, t, k)
  PROVE  t = SubSeq(s, o + 1, k) /\ t = SubSeq(SubSeq(s, 1, k), o + 1, k)
<1> DEFINE r == SubSeq(s, 1, k)
           l == Len(t)
<1>1. /\ Len(s) \in Nat /\ l \in Nat /\ k = o + l
      /\ \A i \in 1 .. l : s[o + i] = t[i]
  <2>1. Len(s) \in Nat /\ l \in Nat
    BY DEF Text
  <2> QED  BY <2>1 DEF Reads
<1>2. /\ r \in Text /\ Len(r) = k /\ \A i \in 1 .. k : r[i] = s[i]
  BY Beginning
<1> HIDE DEF r
<1>3. ASSUME NEW x \in Text, k <= Len(x), \A i \in 1 .. k : x[i] = s[i]
      PROVE  t = SubSeq(x, o + 1, k)
  <2> DEFINE y == SubSeq(x, o + 1, k)
  <2>1. y = [ i \in 1 .. l |-> x[o + i] ]
    <3> HIDE DEF l
    <3>1. k - (o + 1) + 1 = l /\ \A i \in 1 .. l : i + (o + 1) - 1 = o + i
      BY <1>1
    <3>2. Len(x) \in Nat
      BY DEF Text
    <3>3. \A i \in 1 .. l : o + i \in 1 .. Len(x)
      BY <1>1, <1>3, <3>2
    <3> QED  BY <3>1, <3>3 DEF Text
  <2>2. \A i \in 1 .. l : x[o + i] = t[i]
    <3> HIDE DEF l
    <3>1. \A i \in 1 .. l : o + i \in 1 .. k
      BY <1>1
    <3> QED  BY <1>1, <1>3, <3>1
  <2>3. t = [ i \in 1 .. l |-> t[i] ]
    BY DEF Text
  <2> HIDE DEF y, l
  <2>4. y = t
    BY <2>1, <2>2, <2>3
  <2> QED  BY <2>4 DEF y
<1>4. t = SubSeq(s, o + 1, k)
  BY <1>3
<1>5. t = SubSeq(r, o + 1, k)
  BY <1>2, <1>3
<1> QED  BY <1>4, <1>5 DEF r

(* A text that stands in a stream is read there.                           *)
LEMMA IsReads ==
  ASSUME NEW s \in Text, NEW i \in Nat \ {0}, NEW t \in Text, NEW z \in Nat,
         z = i + Len(t) - 1, z <= Len(s), SubSeq(s, i, z) = t
  PROVE  \A d \in 1 .. Len(t) : s[(i - 1) + d] = t[d]
<1> DEFINE l == Len(t)
<1>1. Len(s) \in Nat /\ l \in Nat
  BY DEF Text
<1>2. t = [ d \in 1 .. l |-> s[(i - 1) + d] ]
  <2> HIDE DEF l
  <2>1. z - i + 1 = l /\ \A d \in 1 .. l : d + i - 1 = (i - 1) + d
    BY <1>1 DEF l
  <2>2. \A d \in 1 .. l : (i - 1) + d \in 1 .. Len(s)
    BY <1>1 DEF l
  <2> QED  BY <2>1, <2>2 DEF Text
<1> QED  BY <1>2

(* An empty line.                                                          *)
LEMMA BlankIs ==
  ASSUME NEW s \in Text, NEW i \in Nat \ {0}, i + 3 <= Len(s)
  PROVE  SubSeq(s, i, i + 3) = BlankLine <=> Blank(s, i)
<1>1. Len(s) \in Nat
  BY DEF Text
<1> DEFINE y == SubSeq(s, i, i + 3)
<1>2. /\ y \in Text /\ Len(y) = 4
      /\ y[1] = s[i] /\ y[2] = s[i + 1] /\ y[3] = s[i + 2] /\ y[4] = s[i + 3]
  <2>1. y = [ d \in 1 .. 4 |-> s[(i - 1) + d] ]
    <3>1. (i + 3) - i + 1 = 4 /\ \A d \in 1 .. 4 : d + i - 1 = (i - 1) + d
      OBVIOUS
    <3>2. \A d \in 1 .. 4 : (i - 1) + d \in 1 .. Len(s)
      BY <1>1
    <3> QED  BY <3>1, <3>2 DEF Text
  <2>2. \A d \in 1 .. 4 : s[(i - 1) + d] \in Char
    BY <1>1 DEF Text
  <2>3. (i - 1) + 1 = i /\ (i - 1) + 2 = i + 1 /\ (i - 1) + 3 = i + 2 /\ (i - 1) + 4 = i + 3
    OBVIOUS
  <2>4. 1 \in 1 .. 4 /\ 2 \in 1 .. 4 /\ 3 \in 1 .. 4 /\ 4 \in 1 .. 4
    OBVIOUS
  <2> QED  BY <2>1, <2>2, <2>3, <2>4 DEF Text
<1> HIDE DEF y
<1> DEFINE b == << "CR", "LF", "CR", "LF" >>
<1>3. b \in Text /\ Len(b) = 4 /\ b[1] = "CR" /\ b[2] = "LF" /\ b[3] = "CR" /\ b[4] = "LF"
  BY Chars DEF Text
<1> HIDE DEF b
<1>4. y = b <=> y[1] = b[1] /\ y[2] = b[2] /\ y[3] = b[3] /\ y[4] = b[4]
  <2>1. ASSUME y[1] = b[1], y[2] = b[2], y[3] = b[3], y[4] = b[4]
        PROVE  y = b
    <3>1. \A d \in 1 .. 4 : y[d] = b[d]
      <4>1. \A d \in 1 .. 4 : d = 1 \/ d = 2 \/ d = 3 \/ d = 4
        OBVIOUS
      <4> QED  BY <2>1, <4>1
    <3> QED  BY <1>2, <1>3, <3>1, TextEqual
  <2> QED  BY <2>1
<1>5. y = b <=> Blank(s, i)
  BY <1>2, <1>3, <1>4 DEF Blank
<1> QED  BY <1>5 DEF y, b, BlankLine

-----------------------------------------------------------------------------
(* The specification.                                                      *)

(* The invariant.                                                          *)
Inv ==
  /\ stream \in STREAMS
  /\ consumed \in Nat /\ consumed <= Len(stream)
  /\ Parsed(stream, consumed, parser)
  /\ closing \in BOOLEAN /\ running \in BOOLEAN
  /\ posted \in Seq(ParseTasks) /\ answers \in Nat
  /\ running /\ parser.state = "body" /\ HasLength(parser) =>
       HasNumber(parser.headers[ContentLengthName])

(* A segment leaves a parser that knows all it has read.                   *)
LEMMA StepKnown ==
  ASSUME Inv, NEW n \in 1 .. Len(stream), ParseStep(n)
  PROVE  /\ Known(stream, consumed + n, parser') /\ Onward(Begun(parser), parser')
         /\ stream' = stream /\ consumed' = consumed + n /\ consumed + n <= Len(stream)
<1> DEFINE s == stream
           k == consumed
           m == parser
           q == parser'
           g == Segment(s, k, n)
<1>1. s \in Text /\ k \in Nat /\ n \in Nat /\ k + n <= Len(s) /\ Parsed(s, k, m)
  BY StreamsAssumption DEF Inv, ParseStep, Text
<1>2. q = on_segment(m, g)
  BY DEF ParseStep, Segment
<1> HIDE DEF g, q
<1>3. Known(s, k + n, q) /\ Onward(Begun(m), q)
  <2> HIDE DEF s, k, m
  <2>1. g = Segment(s, k, n)
    BY DEF g
  <2> QED  BY <1>1, <1>2, <2>1, SegmentKnown
<1>4. stream' = stream /\ consumed' = consumed + n /\ consumed + n <= Len(stream)
  BY DEF ParseStep
<1> QED  BY <1>3, <1>4 DEF q

(* The tasks of a segment are tasks.                                       *)
LEMMA TasksTyped ==
  ASSUME NEW m
  PROVE  TasksAfter(m) \in Seq(ParseTasks) /\ << "FindHandler" >> \in Seq(ParseTasks)
<1>1. /\ << "RequestClose" >> \in Seq(ParseTasks) /\ << "FindHandler" >> \in Seq(ParseTasks)
      /\ << "FindHandler", "GenerateResponse" >> \in Seq(ParseTasks)
  BY DEF ParseTasks
<1>2. <<>> \in Seq(ParseTasks)
  OBVIOUS
<1>3. TasksAfter(m) \in { << "RequestClose" >>, <<>>, << "FindHandler", "GenerateResponse" >>,
                          << "FindHandler" >> }
  BY DEF TasksAfter
<1> QED  BY <1>1, <1>2, <1>3

(* It holds at first.                                                      *)
LEMMA InitInv ==
  ASSUME Init
  PROVE  Inv
<1>1. stream \in Seq(Char)
  BY StreamsAssumption DEF Init
<1>2. consumed \in Nat /\ consumed <= Len(stream)
  BY <1>1 DEF Init
<1>3. Parsed(stream, consumed, parser)
  BY FreshFacts DEF Init, Parsed
<1>4. posted \in Seq(ParseTasks) /\ answers \in Nat
  BY DEF Init
<1>5. parser.state # "body"
  BY FreshFacts DEF Init
<1> QED  BY <1>2, <1>3, <1>4, <1>5 DEF Init, Inv

(* Every segment keeps it.                                                 *)
LEMMA NextInv ==
  ASSUME Inv, [Next]_vars
  PROVE  Inv'
<1>1. ASSUME NEW n \in 1 .. Len(stream), ParseStep(n)
      PROVE  Inv'
  <2>1. /\ Known(stream, consumed + n, parser')
        /\ stream' = stream /\ consumed' = consumed + n /\ consumed + n <= Len(stream)
    BY <1>1, StepKnown
  <2>2. Parsed(stream, consumed, parser)'
    BY <2>1 DEF Parsed, Known
  <2>3. stream' \in STREAMS /\ (consumed \in Nat /\ consumed <= Len(stream))'
    BY <1>1, <2>1 DEF Inv
  <2>4. posted' \in Seq(ParseTasks)
    BY <1>1, TasksTyped DEF ParseStep
  <2>5. closing' \in BOOLEAN
    <3>1. closing \in BOOLEAN
      BY DEF Inv
    <3> QED  BY <1>1, <3>1 DEF ParseStep
  <2>6. running' \in BOOLEAN
    <3>1. running \in BOOLEAN
      BY DEF Inv
    <3> QED  BY <1>1, <3>1 DEF ParseStep
  <2>7. answers' \in Nat
    <3>1. answers \in Nat
      BY DEF Inv
    <3> QED  BY <1>1, <3>1 DEF ParseStep
  <2>8. running' /\ parser'.state = "body" /\ HasLength(parser') =>
          HasNumber(parser'.headers[ContentLengthName])
    BY <1>1 DEF ParseStep
  <2> QED  BY <2>2, <2>3, <2>4, <2>5, <2>6, <2>7, <2>8 DEF Inv
<1>2. CASE UNCHANGED vars
  BY <1>2 DEF Inv, vars
<1> QED  BY <1>1, <1>2 DEF Next

(* The parser knows all it has read, whatever the peer sends.              *)
THEOREM InvHolds == Spec => []Inv
<1>1. Init => Inv
  BY InitInv
<1>2. Inv /\ [Next]_vars => Inv'
  BY NextInv
<1> QED  BY <1>1, <1>2, PTL DEF Spec

-----------------------------------------------------------------------------
(* The properties.                                                         *)

(* Every variable has its type.                                            *)
LEMMA InvTypeOK ==
  ASSUME Inv
  PROVE  TypeOK
<1>1. parser \in Machines
  BY FreshFacts DEF Inv, Parsed, Known
<1>2. \A f \in { "tmp", "val", "method", "path", "protocol", "body" } :
        parser[f] \in Seq(Char)
  BY <1>1 DEF Machines, Text
<1>3. parser.state \in States
  BY <1>1 DEF Machines
<1>4. consumed \in 0 .. Len(stream)
  <2>1. Len(stream) \in Nat
    BY StreamsAssumption DEF Inv
  <2> QED  BY <2>1 DEF Inv
<1> QED  BY <1>2, <1>3, <1>4 DEF Inv, TypeOK, States

(* The body follows the first empty line.                                  *)
LEMMA InvBody ==
  ASSUME Inv
  PROVE  BodyAfterBlankLine
<1> DEFINE s == stream
           k == consumed
           m == parser
           blanks == { i \in 1 .. k : BlankLineAt(i) }
<1>1. s \in Text /\ k \in Nat /\ k <= Len(s) /\ Len(s) \in Nat
  BY StreamsAssumption DEF Inv, Text
<1>2. \A i \in Nat \ {0} : BlankLineAt(i) <=> i + 3 <= k /\ Blank(s, i)
  BY <1>1, BlankIs DEF BlankLineAt
<1>3. blanks = { i \in 1 .. k - 3 : Blank(s, i) }
  BY <1>1, <1>2
<1>4. CASE m.state = "not_started"
  <2>1. k = 0
    BY <1>4 DEF Inv, Parsed
  <2>2. blanks = {}
    BY <2>1
  <2>3. parser.body = <<>>
    BY <1>4 DEF Inv, Parsed, FreshMachine
  <2> QED  BY <1>4, <2>2, <2>3 DEF BodyAfterBlankLine
<1>5. CASE m.state # "not_started"
  <2>1. Known(s, k, m)
    BY <1>5 DEF Inv, Parsed
  <2>2. m \in Machines /\ m.state \in States /\ m.body \in Text /\ Bodies(s, k, m)
    BY <2>1, MachineIs DEF Known
  <2>3. CASE m.state = "body"
    <3>1. PICK i \in 1 .. k - 3 : /\ Blank(s, i) /\ \A j \in 1 .. i - 1 : ~ Blank(s, j)
                                  /\ Reads(s, i + 3, m.body, k)
      BY <2>2, <2>3 DEF Bodies
    <3>2. i \in blanks
      BY <1>3, <3>1
    <3>3. \A j \in blanks : i <= j
      <4>1. ASSUME NEW j \in 1 .. k - 3, Blank(s, j)
            PROVE  i <= j
        BY <3>1, <4>1
      <4> QED  BY <1>3, <4>1
    <3>4. \A j \in 1 .. k - (i + 3) :
            j <= Len(parser.body) /\ parser.body[j] = Read[i + 3 + j]
      <4>1. /\ k = (i + 3) + Len(m.body)
            /\ \A j \in 1 .. Len(m.body) : s[(i + 3) + j] = m.body[j]
        BY <3>1 DEF Reads
      <4>2. ASSUME NEW j \in 1 .. k - (i + 3)
            PROVE  j <= Len(m.body) /\ m.body[j] = Read[i + 3 + j]
        <5>1. Len(m.body) \in Nat
          BY <2>2 DEF Text
        <5>2. j \in 1 .. Len(m.body) /\ j <= Len(m.body)
          BY <1>1, <4>1, <4>2, <5>1
        <5>3. (i + 3) + j \in 1 .. k
          BY <1>1, <4>2
        <5>4. Read[(i + 3) + j] = s[(i + 3) + j]
          BY <1>1, <5>3 DEF Read, Text
        <5> QED  BY <4>1, <5>2, <5>4
      <4> QED  BY <4>2
    <3> HIDE DEF blanks
    <3>5. /\ blanks # {}
          /\ \E x \in blanks :
               /\ \A j \in blanks : x <= j
               /\ \A j \in 1 .. consumed - (x + 3) : Announces(parser, j) =>
                    j <= Len(parser.body) /\ parser.body[j] = Read[x + 3 + j]
      BY <3>2, <3>3, <3>4
    <3> QED  BY <2>3, <3>5 DEF BodyAfterBlankLine, blanks
  <2>4. CASE m.state \in Reading
    <3>1. \A i \in 1 .. k - 3 : ~ Blank(s, i)
      BY <2>2, <2>4 DEF Bodies
    <3>2. blanks = {} /\ m.body = <<>>
      BY <1>3, <2>2, <2>4, <3>1 DEF Bodies
    <3> HIDE DEF blanks
    <3> QED  BY <2>4, <3>2 DEF BodyAfterBlankLine, blanks, Reading
  <2>5. CASE m.state = "error_state"
    BY <2>5 DEF BodyAfterBlankLine
  <2> QED  BY <1>5, <2>2, <2>3, <2>4, <2>5 DEF States, Reading
<1> QED  BY <1>4, <1>5

(* What a stream begins with is a prefix of what has been read.            *)
LEMMA ReadIsPrefix ==
  ASSUME NEW s \in Text, NEW k \in Nat, k <= Len(s), NEW t \in Text, NEW j \in 0 .. k,
         Reads(s, 0, t, j)
  PROVE  IsPrefix(t, SubSeq(s, 1, k))
<1> DEFINE r == SubSeq(s, 1, k)
<1>1. r \in Text /\ Len(r) = k /\ \A i \in 1 .. k : r[i] = s[i]
  BY Beginning
<1> HIDE DEF r
<1>2. Len(t) = j /\ j \in Nat /\ \A i \in 1 .. j : s[0 + i] = t[i]
  BY DEF Reads, Text
<1>3. \A i \in 1 .. j : 0 + i = i /\ i \in 1 .. k
  OBVIOUS
<1>4. \A i \in 1 .. j : r[0 + i] = t[i]
  BY <1>1, <1>2, <1>3
<1>5. Reads(r, 0, t, j)
  BY <1>2, <1>4 DEF Reads
<1>6. 0 \in Nat /\ j <= Len(r)
  BY <1>1
<1>7. t = SubSeq(r, 0 + 1, j)
  BY <1>1, <1>2, <1>5, <1>6, ReadsIs
<1>8. SubSeq(t, 1, j) = t
  BY <1>2 DEF Text
<1>9. IsPrefix(t, r)
  BY <1>1, <1>2, <1>6, <1>7, <1>8 DEF IsPrefix
<1> QED  BY <1>9 DEF r

(* The first line is split at its separators.                              *)
LEMMA InvLine ==
  ASSUME Inv
  PROVE  RequestLineSplit
<1> SUFFICES ASSUME Phase(parser) \in { "head", "body" }, parser.state # "protocol_version"
             PROVE  /\ IsPrefix(Line3(parser), Read)
                    /\ \A c \in { "SP", "CR", "LF" } :
                         ~ Contains(parser.method, c) /\ ~ Contains(parser.path, c)
  BY DEF RequestLineSplit, Line1, Line2, Line3
<1> DEFINE s == stream
           k == consumed
           m == parser
<1>1. s \in Text /\ k \in Nat /\ k <= Len(s) /\ Len(s) \in Nat
  BY StreamsAssumption DEF Inv, Text
<1>2. m.state \notin { "not_started", "method", "path", "error_state" }
  BY DEF Phase
<1>3. Known(s, k, m)
  BY <1>2 DEF Inv, Parsed
<1>4. m \in Machines /\ m.state \in States /\ FirstLine(s, k, m)
  BY <1>3, MachineIs DEF Known
<1>5. m.state \in Later
  BY <1>2, <1>4 DEF States, Later
<1>6. Plain(m.method) /\ Plain(m.path)
  BY <1>4, <1>5 DEF FirstLine
<1>7. \A c \in { "SP", "CR", "LF" } : ~ Contains(m.method, c) /\ ~ Contains(m.path, c)
  BY <1>6 DEF Plain, Contains
<1>8. IsPrefix(Line3(m), Read)
  <2> DEFINE t == Line3(m)
  <2>1. PICK j \in 0 .. k : Reads(s, 0, t, j)
    BY <1>4, <1>5 DEF FirstLine
  <2>2. t \in Text
    <3>1. m.method \in Text /\ m.path \in Text /\ m.protocol \in Text
      BY <1>4, MachineIs
    <3> QED  BY <3>1, Chars DEF Line3, Line2, Line1, Text
  <2> HIDE DEF t
  <2>3. IsPrefix(t, SubSeq(s, 1, k))
    BY <1>1, <2>1, <2>2, ReadIsPrefix
  <2> QED  BY <2>3 DEF t, Read
<1> QED  BY <1>7, <1>8

(* A text occurs in what has been read.                                    *)
LEMMA OccursIs ==
  ASSUME Inv, NEW i \in Nat \ {0}, NEW t \in Text, OccursAt(t, i)
  PROVE  /\ \A d \in 1 .. Len(t) : stream[(i - 1) + d] = t[d]
<1>1. stream \in Text /\ consumed \in Nat /\ consumed <= Len(stream)
  BY StreamsAssumption DEF Inv, Text
<1> DEFINE z == i + Len(t) - 1
<1>2. Len(t) \in Nat /\ Len(stream) \in Nat
  BY <1>1 DEF Text
<1>3. z <= consumed /\ SubSeq(stream, i, z) = t
  BY DEF OccursAt
<1>4. CASE Len(t) = 0
  BY <1>4
<1>5. CASE Len(t) # 0
  <2>1. z \in Nat /\ z = i + Len(t) - 1 /\ z <= Len(stream)
    BY <1>1, <1>2, <1>3, <1>5
  <2> HIDE DEF z
  <2> QED  BY <1>1, <1>3, <2>1, IsReads
<1> QED  BY <1>4, <1>5

(* What has been read occurs.                                              *)
LEMMA OccursIf ==
  ASSUME Inv, NEW o \in Nat, NEW k \in Nat, NEW t \in Text, Reads(stream, o, t, k),
         k <= consumed
  PROVE  OccursAt(t, o + 1)
<1>1. stream \in Text /\ consumed \in Nat /\ consumed <= Len(stream) /\ Len(stream) \in Nat
  BY StreamsAssumption DEF Inv, Text
<1>2. k = o + Len(t)
  BY DEF Reads
<1>3. (o + 1) + Len(t) - 1 = k
  BY <1>2 DEF Text
<1>4. SubSeq(stream, o + 1, k) = t
  <2> DEFINE s == stream
  <2>1. s \in Text /\ k <= Len(s) /\ Reads(s, o, t, k)
    BY <1>1
  <2> HIDE DEF s
  <2>2. SubSeq(s, o + 1, k) = t
    BY <2>1, ReadsIs
  <2> QED  BY <2>2 DEF s
<1> QED  BY <1>3, <1>4 DEF OccursAt

(* One token after another, again.                                         *)
LEMMA ReadsCat ==
  ASSUME NEW s \in Text, NEW o \in Nat, NEW j \in Nat, NEW k \in Nat,
         NEW t \in Text, NEW u \in Text, Reads(s, o, t, j), Reads(s, j, u, k)
  PROVE  Reads(s, o, t \o u, k) /\ t \o u \in Text
<1> DEFINE w == t \o u
<1>1. w = t \o u
  OBVIOUS
<1> HIDE DEF w
<1>2. Reads(s, o, w, k) /\ w \in Text
  BY <1>1, ReadsOn, Zenon
<1> QED  BY <1>2 DEF w

(* A line of a header, from the line break before it to its end.           *)
LEMMA HeaderLineReads ==
  ASSUME NEW s \in Text, NEW a \in Nat, NEW n \in Text, NEW v \in Text, NEW z \in Nat,
         HeaderAt(s, a, n), Reads(s, a + Len(n) + 1, v, z), s[z + 1] = "CR",
         NEW o \in Nat, o = a - 2
  PROVE  HeaderLine(n, v) \in Text /\ Reads(s, o, HeaderLine(n, v), z + 1)
<1> DEFINE b1 == << "CR", "LF" >>
           b2 == << "COLON" >>
           b3 == << "CR" >>
           e == a + Len(n)
           f == e + 1
           y == z + 1
<1>1. Len(n) \in Nat /\ e \in Nat /\ f \in Nat /\ y \in Nat
  BY DEF Text
<1>2. CrLf(s, a) /\ Reads(s, a, n, e) /\ s[f] = "COLON"
  BY DEF HeaderAt
<1>3. b1 \in Text /\ Reads(s, o, b1, a)
  <2>1. b1 \in Text /\ Len(b1) = 2 /\ b1[1] = "CR" /\ b1[2] = "LF"
    BY Chars DEF Text
  <2> HIDE DEF b1
  <2>2. a = o + 2 /\ o + 1 = a - 1
    OBVIOUS
  <2>3. s[o + 1] = "CR" /\ s[o + 2] = "LF"
    BY <1>2, <2>2 DEF CrLf
  <2>4. \A i \in 1 .. 2 : i = 1 \/ i = 2
    OBVIOUS
  <2> QED  BY <2>1, <2>2, <2>3, <2>4 DEF Reads
<1>4. b2 \in Text /\ Reads(s, e, b2, f)
  BY <1>1, <1>2, ReadsShort, Chars DEF Text
<1>5. b3 \in Text /\ Reads(s, z, b3, y)
  BY <1>1, ReadsShort, Chars DEF Text
<1>6. Reads(s, f, v, z)
  OBVIOUS
<1> HIDE DEF b1, b2, b3, e, f, y
<1> DEFINE w1 == b1 \o n
           w2 == w1 \o b2
           w3 == w2 \o v
           w4 == w3 \o b3
<1>7. Reads(s, o, w1, e) /\ w1 \in Text
  BY <1>1, <1>2, <1>3, ReadsCat
<1> HIDE DEF w1
<1>8. Reads(s, o, w2, f) /\ w2 \in Text
  BY <1>1, <1>4, <1>7, ReadsCat
<1> HIDE DEF w2
<1>9. Reads(s, o, w3, z) /\ w3 \in Text
  BY <1>1, <1>6, <1>8, ReadsCat
<1> HIDE DEF w3
<1>10. Reads(s, o, w4, y) /\ w4 \in Text
  BY <1>1, <1>5, <1>9, ReadsCat
<1>11. HeaderLine(n, v) = w4
  BY DEF HeaderLine, w3, w2, w1, b1, b2, b3
<1> QED  BY <1>10, <1>11 DEF y

(* One text after another.                                                 *)
LEMMA TextCat ==
  ASSUME NEW t \in Text, NEW u \in Text
  PROVE  /\ t \o u \in Text /\ Len(t \o u) = Len(t) + Len(u)
         /\ \A i \in 1 .. Len(t) : (t \o u)[i] = t[i]
         /\ \A i \in 1 .. Len(u) : (t \o u)[Len(t) + i] = u[i]
BY DEF Text

(* The beginning of such a line is one.                                    *)
LEMMA OccursIsHeader ==
  ASSUME Inv, NEW n \in Text, NEW j \in Nat \ {0},
         OccursAt(<< "CR", "LF" >> \o n \o << "COLON" >>, j)
  PROVE  HeaderAt(stream, j + 1, n)
<1> DEFINE b1 == << "CR", "LF" >>
           b2 == << "COLON" >>
           w1 == b1 \o n
           w2 == w1 \o b2
           l == Len(n)
<1>1. /\ b1 \in Text /\ Len(b1) = 2 /\ b1[1] = "CR" /\ b1[2] = "LF"
      /\ b2 \in Text /\ Len(b2) = 1 /\ b2[1] = "COLON" /\ l \in Nat
  BY Chars DEF Text
<1>2. OccursAt(w2, j)
  OBVIOUS
<1> HIDE DEF b1, b2
<1>3. /\ w1 \in Text /\ Len(w1) = 2 + l
      /\ \A i \in 1 .. 2 : w1[i] = b1[i]
      /\ \A i \in 1 .. l : w1[2 + i] = n[i]
  <2>1. /\ w1 \in Text /\ Len(w1) = Len(b1) + Len(n)
        /\ \A i \in 1 .. Len(b1) : w1[i] = b1[i]
        /\ \A i \in 1 .. Len(n) : w1[Len(b1) + i] = n[i]
    BY <1>1, TextCat
  <2> HIDE DEF w1
  <2> QED  BY <1>1, <2>1
<1> HIDE DEF w1
<1>4. /\ w2 \in Text /\ Len(w2) = 2 + l + 1
      /\ \A i \in 1 .. 2 + l : w2[i] = w1[i]
      /\ w2[2 + l + 1] = b2[1]
  <2>1. /\ w2 \in Text /\ Len(w2) = Len(w1) + Len(b2)
        /\ \A i \in 1 .. Len(w1) : w2[i] = w1[i]
        /\ \A i \in 1 .. Len(b2) : w2[Len(w1) + i] = b2[i]
    BY <1>1, <1>3, TextCat
  <2> HIDE DEF w2, l
  <2>2. 1 \in 1 .. Len(b2)
    BY <1>1
  <2> QED  BY <1>1, <1>3, <2>1, <2>2
<1> HIDE DEF w2
<1>5. \A d \in 1 .. Len(w2) : stream[(j - 1) + d] = w2[d]
  BY <1>2, <1>4, OccursIs
<1> HIDE DEF l
<1>6. stream[j] = "CR" /\ stream[j + 1] = "LF"
  <2>1. 1 \in 1 .. 2 + l /\ 2 \in 1 .. 2 + l /\ 1 \in 1 .. 2 /\ 2 \in 1 .. 2
    BY <1>1
  <2>2. 1 \in 1 .. Len(w2) /\ 2 \in 1 .. Len(w2)
    BY <1>1, <1>4
  <2>3. (j - 1) + 1 = j /\ (j - 1) + 2 = j + 1
    OBVIOUS
  <2> QED  BY <1>1, <1>3, <1>4, <1>5, <2>1, <2>2, <2>3
<1>7. \A i \in 1 .. l : stream[(j + 1) + i] = n[i]
  <2>1. ASSUME NEW i \in 1 .. l
        PROVE  stream[(j + 1) + i] = n[i]
    <3>1. 2 + i \in 1 .. 2 + l /\ 2 + i \in 1 .. Len(w2) /\ (j - 1) + (2 + i) = (j + 1) + i
      BY <1>1, <1>4
    <3>2. w2[2 + i] = w1[2 + i] /\ w1[2 + i] = n[i]
      BY <1>3, <1>4, <3>1
    <3> QED  BY <1>5, <3>1, <3>2
  <2> QED  BY <2>1
<1>8. stream[(j + 1) + l + 1] = "COLON"
  <2>1. 2 + l + 1 \in 1 .. Len(w2) /\ (j - 1) + (2 + l + 1) = (j + 1) + l + 1
    BY <1>1, <1>4
  <2> QED  BY <1>1, <1>4, <1>5, <2>1
<1>9. CrLf(stream, j + 1)
  <2>1. (j + 1) - 1 = j /\ j + 1 >= 2
    OBVIOUS
  <2> QED  BY <1>6, <2>1 DEF CrLf
<1>10. Reads(stream, j + 1, n, (j + 1) + Len(n))
  BY <1>7 DEF Reads, l
<1> QED  BY <1>8, <1>9, <1>10 DEF HeaderAt, l

(* Every header is a line of the head, and the first of its name.          *)
LEMMA InvHeaders ==
  ASSUME Inv
  PROVE  HeadersAreLines
<1> DEFINE s == stream
           k == consumed
           m == parser
<1>1. s \in Text /\ k \in Nat /\ k <= Len(s) /\ Len(s) \in Nat
  BY StreamsAssumption DEF Inv, Text
<1>2. SUFFICES ASSUME NEW n \in DOMAIN m.headers
               PROVE  \E i \in 1 .. k :
                        /\ OccursAt(HeaderLine(n, m.headers[n]), i)
                        /\ ~ Contains(m.headers[n], "CR")
                        /\ \A j \in 1 .. i - 1 : ~ OccursAt(<< "CR", "LF" >> \o n \o << "COLON" >>, j)
  BY DEF HeadersAreLines
<1>3. Known(s, k, m)
  <2>1. m.state # "not_started"
    <3>1. FreshMachine.headers = <<>> /\ DOMAIN <<>> = {}
      BY FreshFacts
    <3> QED  BY <1>2, <3>1 DEF Inv, Parsed
  <2> QED  BY <2>1 DEF Inv, Parsed
<1> DEFINE v == m.headers[n]
<1>4. n \in Text /\ v \in Text
  <2>1. m.headers \in Maps
    BY <1>3, MachineIs DEF Known
  <2>2. PICK D \in SUBSET Text : m.headers \in [ D -> Text ]
    BY <2>1 DEF Maps
  <2> QED  BY <2>2
<1>5. NoCr(v)
  BY <1>3 DEF Known, Stored
<1>6. PICK a \in 0 .. k : /\ HeaderAt(s, a, n)
                          /\ \A b \in 0 .. a - 1 : ~ HeaderAt(s, b, n)
                          /\ \E z \in 0 .. k - 1 : Reads(s, a + Len(n) + 1, v, z) /\ s[z + 1] = "CR"
  BY <1>3 DEF Known, Stored
<1>7. PICK z \in 0 .. k - 1 : Reads(s, a + Len(n) + 1, v, z) /\ s[z + 1] = "CR"
  BY <1>6
<1> HIDE DEF v
<1>8. a >= 2
  BY <1>6 DEF HeaderAt, CrLf
<1> DEFINE o == a - 2
           t == HeaderLine(n, v)
<1>9. o \in Nat /\ a \in Nat /\ z \in Nat /\ o = a - 2 /\ z + 1 \in Nat /\ z + 1 <= k /\ o + 1 \in 1 .. k
  <2> HIDE DEF k
  <2> QED  BY <1>1, <1>8
<1> HIDE DEF o
<1>10. t \in Text /\ Reads(s, o, t, z + 1)
  <2> HIDE DEF s
  <2> QED  BY <1>1, <1>4, <1>6, <1>7, <1>9, HeaderLineReads
<1>11. OccursAt(t, o + 1)
  <2> DEFINE y == z + 1
  <2>1. y \in Nat /\ y <= consumed /\ Reads(stream, o, t, y)
    BY <1>9, <1>10
  <2> HIDE DEF y, t
  <2> QED  BY <1>9, <1>10, <2>1, OccursIf
<1>12. ~ Contains(v, "CR")
  BY <1>5 DEF NoCr, Contains
<1>13. ASSUME NEW j \in 1 .. (o + 1) - 1, OccursAt(<< "CR", "LF" >> \o n \o << "COLON" >>, j)
       PROVE  FALSE
  <2>1. j \in Nat \ {0} /\ j + 1 \in 0 .. a - 1
    BY <1>9
  <2>2. HeaderAt(s, j + 1, n)
    BY <1>4, <1>13, <2>1, OccursIsHeader
  <2> QED  BY <1>6, <2>1, <2>2
<1>14. OccursAt(HeaderLine(n, m.headers[n]), o + 1) /\ ~ Contains(m.headers[n], "CR")
  BY <1>11, <1>12 DEF v
<1> QED  BY <1>9, <1>13, <1>14

-----------------------------------------------------------------------------
(* What a segment makes the event loop do.                                 *)

(* The phase of a parser.                                                  *)
LEMMA PhaseIs ==
  ASSUME NEW m \in Machines
  PROVE  /\ m.state \in { "not_started", "method", "path" } => Phase(m) = "start"
         /\ m.state = "error_state" => Phase(m) = "error"
         /\ m.state = "body" => Phase(m) = "body"
         /\ m.state \notin { "not_started", "method", "path", "error_state", "body" } =>
              Phase(m) = "head"
BY DEF Phase

(* The tasks after a segment.                                              *)
LEMMA TasksAre ==
  ASSUME NEW m \in Machines, m.state # "not_started"
  PROVE  /\ m.state = "error_state" => TasksAfter(m) = << "RequestClose" >>
         /\ m.state \in { "method", "path" } => TasksAfter(m) = <<>>
         /\ m.state = "body" => TasksAfter(m) \in { << "FindHandler" >>,
                                                    << "FindHandler", "GenerateResponse" >> }
         /\ m.state \notin { "method", "path", "error_state", "body" } =>
              TasksAfter(m) = << "FindHandler" >>
BY DEF TasksAfter

(* A record of the table is an effect.                                     *)
LEMMA EffectIs ==
  ASSUME NEW f \in Phases, NEW t \in Phases,
         NEW p \in { <<>>, << "RequestClose" >>, << "FindHandler" >>,
                     << "FindHandler", "GenerateResponse" >> },
         p \in Posts(f, t)
  PROVE  [ from |-> f, to |-> t, posts |-> p ] \in Effects
BY DEF Effects

(* A segment that leads from b to q has an effect of the table.            *)
LEMMA EffectOf ==
  ASSUME NEW b \in Machines, NEW q \in Machines, q.state # "not_started",
         Onward(Begun(b), q)
  PROVE  [ from |-> Phase(b), to |-> Phase(q), posts |-> TasksAfter(q) ] \in Effects
<1>1. b.state \in States /\ q.state \in States
  BY MachineIs
<1>2. /\ b.state \in { "body", "error_state" } => q.state = b.state
      /\ b.state \notin { "not_started", "method", "path" } => q.state \notin { "method", "path" }
  <2>1. b.state # "not_started" => Begun(b) = b
    BY DEF Begun
  <2> QED  BY <2>1 DEF Onward
<1> DEFINE f == Phase(b)
           t == Phase(q)
           p == TasksAfter(q)
<1>3. /\ f \in Phases
      /\ f = "body" => b.state = "body"
      /\ f = "error" => b.state = "error_state"
      /\ f = "head" => b.state \notin { "not_started", "method", "path", "error_state", "body" }
  BY <1>1, PhaseIs DEF Phases, States
<1>4. CASE q.state = "error_state"
  <2>1. t = "error" /\ p = << "RequestClose" >>
    BY <1>4, PhaseIs, TasksAre
  <2>2. f # "body"
    BY <1>2, <1>3, <1>4
  <2> HIDE DEF f, t, p
  <2>3. p \in Posts(f, t) /\ t \in Phases
    BY <2>1, <2>2 DEF Posts, Phases
  <2>4. [ from |-> f, to |-> t, posts |-> p ] \in Effects
    BY <1>3, <2>1, <2>3, EffectIs
  <2> QED  BY <2>4 DEF f, t, p
<1>5. CASE q.state \in { "method", "path" }
  <2>1. t = "start" /\ p = <<>>
    BY <1>5, PhaseIs, TasksAre
  <2>2. f = "start"
    BY <1>1, <1>2, <1>5, PhaseIs
  <2> HIDE DEF f, t, p
  <2>3. p \in Posts(f, t) /\ t \in Phases
    BY <2>1, <2>2 DEF Posts, Phases
  <2>4. [ from |-> f, to |-> t, posts |-> p ] \in Effects
    BY <1>3, <2>1, <2>3, EffectIs
  <2> QED  BY <2>4 DEF f, t, p
<1>6. CASE q.state = "body"
  <2>1. t = "body" /\ p \in { << "FindHandler" >>, << "FindHandler", "GenerateResponse" >> }
    BY <1>6, PhaseIs, TasksAre
  <2>2. f # "error"
    BY <1>2, <1>3, <1>6
  <2> HIDE DEF f, t, p
  <2>3. p \in Posts(f, t) /\ t \in Phases
    BY <2>1, <2>2 DEF Posts, Phases
  <2>4. [ from |-> f, to |-> t, posts |-> p ] \in Effects
    BY <1>3, <2>1, <2>3, EffectIs
  <2> QED  BY <2>4 DEF f, t, p
<1>7. CASE q.state \notin { "error_state", "method", "path", "body" }
  <2>1. t = "head" /\ p = << "FindHandler" >>
    BY <1>7, PhaseIs, TasksAre
  <2>2. f \in { "start", "head" }
    <3>1. f \notin { "body", "error" }
      BY <1>2, <1>3, <1>7
    <3> QED  BY <1>3, <3>1 DEF Phases
  <2> HIDE DEF f, t, p
  <2>3. p \in Posts(f, t) /\ t \in Phases
    BY <2>1, <2>2 DEF Posts, Phases
  <2>4. [ from |-> f, to |-> t, posts |-> p ] \in Effects
    BY <1>3, <2>1, <2>3, EffectIs
  <2> QED  BY <2>4 DEF f, t, p
<1> QED  BY <1>4, <1>5, <1>6, <1>7

(* A segment after which the worker is still running has one.              *)
LEMMA StepEffect ==
  ASSUME Inv, NEW n \in 1 .. Len(stream), ParseStep(n), running'
  PROVE  [ from |-> Phase(parser), to |-> Phase(parser'), posts |-> posted' ] \in Effects
<1>1. posted' = TasksAfter(parser')
  BY DEF ParseStep
<1>2. Known(stream, consumed + n, parser') /\ Onward(Begun(parser), parser')
  BY StepKnown
<1>3. parser' \in Machines /\ parser'.state # "not_started"
  BY <1>2 DEF Known
<1>4. parser \in Machines
  BY FreshFacts DEF Inv, Parsed, Known
<1> QED  BY <1>1, <1>2, <1>3, <1>4, EffectOf

(* A segment that ends in an exception has one of the last effects: a      *)
(* parser that was in the body before has read the length before.          *)
LEMMA StepLastEffect ==
  ASSUME Inv, NEW n \in 1 .. Len(stream), ParseStep(n), ~ running'
  PROVE  [ from |-> Phase(parser), to |-> Phase(parser'), posts |-> posted' ]
           \in LastEffects
<1>1. /\ running /\ posted' = << "FindHandler" >> /\ parser'.state = "body"
      /\ HasLength(parser') /\ ~ HasNumber(parser'.headers[ContentLengthName])
  BY DEF ParseStep
<1>2. Known(stream, consumed + n, parser') /\ Onward(Begun(parser), parser')
  BY StepKnown
<1>3. parser' \in Machines
  BY <1>2 DEF Known
<1>4. parser \in Machines /\ parser.state \in States
  <2>1. parser \in Machines
    BY FreshFacts DEF Inv, Parsed, Known
  <2> QED  BY <2>1, MachineIs
<1>5. parser.state # "body"
  <2> SUFFICES ASSUME parser.state = "body" PROVE FALSE
    OBVIOUS
  <2>1. Begun(parser) = parser
    BY DEF Begun
  <2>2. parser'.headers = parser.headers
    BY <1>2, <2>1 DEF Onward
  <2>3. HasLength(parser) /\ ~ HasNumber(parser.headers[ContentLengthName])
    BY <1>1, <2>2 DEF HasLength
  <2> QED  BY <1>1, <2>3 DEF Inv
<1>6. parser.state # "error_state"
  <2>1. parser.state = "error_state" => Begun(parser) = parser
    BY DEF Begun
  <2> QED  BY <1>1, <1>2, <2>1 DEF Onward
<1>7. Phase(parser) \in { "start", "head" } /\ Phase(parser') = "body"
  BY <1>1, <1>3, <1>4, <1>5, <1>6, PhaseIs DEF States
<1> QED  BY <1>1, <1>7 DEF LastEffects

-----------------------------------------------------------------------------
(* Types, for every set of streams.                                        *)
THEOREM ParsingTypesHold == Spec => []TypeOK
<1>1. Inv => TypeOK
  BY InvTypeOK
<1> QED  BY <1>1, InvHolds, PTL

(* However a stream is cut into segments, the body of the request is what  *)
(* has been received after the first empty line (on_segment).              *)
THEOREM BodyFollowsBlankLine == Spec => []BodyAfterBlankLine
<1>1. Inv => BodyAfterBlankLine
  BY InvBody
<1> QED  BY <1>1, InvHolds, PTL

(* However it is cut, the first line is split at its separators            *)
(* (on_segment).                                                           *)
THEOREM FirstLineIsSplit == Spec => []RequestLineSplit
<1>1. Inv => RequestLineSplit
  BY InvLine
<1> QED  BY <1>1, InvHolds, PTL

(* However it is cut, every header is a line of the head, the first of its *)
(* name (on_segment, unordered_map::emplace).                              *)
THEOREM HeadersAreFirstLines == Spec => []HeadersAreLines
<1>1. Inv => HeadersAreLines
  BY InvHeaders
<1> QED  BY <1>1, InvHolds, PTL

(* The event loop needs to know no more of the parser than the tables of   *)
(* ParseEffects say, from which the module Worker takes its segments, the  *)
(* exception of std::stoull included (parse_step).                         *)
THEOREM EffectsAreKnown == Spec => OnlyKnownEffects
<1>1. Inv /\ [Next]_vars =>
        [ [ from |-> Phase(parser), to |-> Phase(parser'), posts |-> posted' ]
            \in IF running' THEN Effects ELSE LastEffects ]_vars
  <2> SUFFICES ASSUME Inv, [Next]_vars, vars' # vars
               PROVE  [ from |-> Phase(parser), to |-> Phase(parser'), posts |-> posted' ]
                        \in IF running' THEN Effects ELSE LastEffects
    OBVIOUS
  <2>1. PICK n \in 1 .. Len(stream) : ParseStep(n)
    BY DEF Next
  <2> QED  BY <2>1, StepEffect, StepLastEffect
<1> QED  BY <1>1, InvHolds, PTL DEF Spec, OnlyKnownEffects

-----------------------------------------------------------------------------
(* The cut.                                                                *)

(* f is the parser after each of n characters of s, from the o-th on.      *)
ReadsFrom(f, s, o, n) == \A i \in 1 .. n : f[i] = ReadChar(f[i - 1], s[o + i])

(* The same, from the beginning of s.                                      *)
ReadsAll(f, s, n) == \A i \in 1 .. n : f[i] = ReadChar(f[i - 1], s[i])

(* Two readings of the same characters that begin alike end alike: h reads *)
(* s from its beginning, e from its o-th character on.                     *)
LEMMA ReadAlike ==
  ASSUME NEW s \in Text, NEW o \in Nat, NEW n \in Nat, NEW e, NEW h, e[0] = h[o],
         ReadsFrom(e, s, o, n), ReadsAll(h, s, o + n)
  PROVE  e[n] = h[o + n]
<1> DEFINE S == { i \in Nat : i <= n => e[i] = h[o + i] }
<1>1. 0 \in S
  <2>1. o + 0 = o
    OBVIOUS
  <2> QED  BY <2>1
<1>2. ASSUME NEW i \in Nat, i \in S
      PROVE  i + 1 \in S
  <2>1. SUFFICES ASSUME i + 1 <= n
                 PROVE  e[i + 1] = h[o + (i + 1)]
    OBVIOUS
  <2>2. e[i] = h[o + i]
    BY <1>2, <2>1
  <2> DEFINE j == o + (i + 1)
  <2>3. i + 1 \in 1 .. n /\ (i + 1) - 1 = i /\ j \in 1 .. o + n /\ j - 1 = o + i
    BY <2>1
  <2>4. e[i + 1] = ReadChar(e[i], s[j])
    BY <2>3 DEF ReadsFrom
  <2>5. h[j] = ReadChar(h[o + i], s[j])
    <3> HIDE DEF j
    <3> QED  BY <2>3 DEF ReadsAll
  <2> QED  BY <2>2, <2>4, <2>5
<1> HIDE DEF S
<1>3. n \in S
  BY <1>1, <1>2, Induction
<1> QED  BY <1>3 DEF S

(* The parser a whole segment makes of a fresh one.                        *)
WholeRead(s, k) == on_segment(FreshMachine, Segment(s, 0, k))

(* One segment after another leaves the parser that both in one leave.     *)
LEMMA SegmentsJoin ==
  ASSUME NEW s \in Text, NEW k \in Nat, NEW n \in Nat, k + n <= Len(s), NEW m,
         m = IF k = 0 THEN FreshMachine ELSE WholeRead(s, k)
  PROVE  on_segment(m, Segment(s, k, n)) = WholeRead(s, k + n)
<1> DEFINE l == k + n
           g == Segment(s, k, n)
           u == Segment(s, 0, k)
           w == Segment(s, 0, l)
<1>1. Len(s) \in Nat /\ l \in Nat /\ l <= Len(s) /\ k <= Len(s) /\ 0 \in Nat
  BY DEF Text
<1>2. g \in Text /\ Len(g) = n /\ \A i \in 1 .. n : g[i] = s[k + i]
  <2>1. g = Segment(s, k, n)
    OBVIOUS
  <2> HIDE DEF g
  <2> QED  BY <2>1, SegmentOf
<1>3. ASSUME NEW j \in Nat, j <= Len(s)
      PROVE  /\ Segment(s, 0, j) \in Text /\ Len(Segment(s, 0, j)) = j
             /\ \A i \in 1 .. j : Segment(s, 0, j)[i] = s[i]
  <2> DEFINE x == Segment(s, 0, j)
             z == 0
  <2>1. x = Segment(s, z, j) /\ z \in Nat /\ z + j <= Len(s)
    BY <1>3
  <2>2. \A i \in 1 .. j : z + i = i
    OBVIOUS
  <2> HIDE DEF x, z
  <2>3. x \in Text /\ Len(x) = j /\ \A i \in 1 .. j : x[i] = s[z + i]
    BY <2>1, SegmentOf
  <2>4. \A i \in 1 .. j : x[i] = s[i]
    BY <2>2, <2>3
  <2> QED  BY <2>3, <2>4 DEF x
<1>4. u \in Text /\ Len(u) = k /\ \A i \in 1 .. k : u[i] = s[i]
  BY <1>1, <1>3
<1>5. w \in Text /\ Len(w) = l /\ \A i \in 1 .. l : w[i] = s[i]
  BY <1>1, <1>3
<1> HIDE DEF g, u, w
<1>6. PICK f : /\ f[0] = Begun(m)
               /\ \A i \in 1 .. n : f[i] = ReadChar(f[i - 1], s[k + i])
               /\ on_segment(m, g) = f[n]
  <2>1. PICK f : /\ f[0] = Begun(m)
                 /\ \A i \in 1 .. Len(g) : f[i] = ReadChar(f[i - 1], g[i])
                 /\ on_segment(m, g) = f[Len(g)]
    BY <1>2, SegmentSteps, Zenon
  <2> QED  BY <1>2, <2>1
<1>7. PICK h : /\ h[0] = Begun(FreshMachine)
               /\ \A i \in 1 .. l : h[i] = ReadChar(h[i - 1], s[i])
               /\ on_segment(FreshMachine, w) = h[l]
  <2>1. PICK h : /\ h[0] = Begun(FreshMachine)
                 /\ \A i \in 1 .. Len(w) : h[i] = ReadChar(h[i - 1], w[i])
                 /\ on_segment(FreshMachine, w) = h[Len(w)]
    BY <1>5, SegmentSteps, Zenon
  <2> QED  BY <1>5, <2>1
<1>8. Begun(m) = h[k]
  <2>1. CASE k = 0
    BY <1>7, <2>1
  <2>2. CASE k # 0
    <3>1. m = on_segment(FreshMachine, u)
      BY <2>2 DEF WholeRead, u
    <3>2. PICK e : /\ e[0] = Begun(FreshMachine)
                   /\ \A i \in 1 .. Len(u) : e[i] = ReadChar(e[i - 1], u[i])
                   /\ on_segment(FreshMachine, u) = e[Len(u)]
      BY <1>4, SegmentSteps
    <3>3. \A i \in 1 .. k : e[i] = ReadChar(e[i - 1], s[i])
      BY <1>4, <3>2
    <3>4. \A i \in 1 .. k : h[i] = ReadChar(h[i - 1], s[i])
      BY <1>7
    <3>5. e[k] = h[k]
      <4> DEFINE z == 0
      <4>1. z \in Nat /\ z + k = k /\ e[0] = h[z] /\ \A i \in 1 .. k : z + i = i
        BY <1>7, <3>2
      <4> HIDE DEF z
      <4>2. ReadsFrom(e, s, z, k)
        BY <3>3, <4>1 DEF ReadsFrom
      <4>3. ReadsAll(h, s, z + k)
        BY <3>4, <4>1 DEF ReadsAll
      <4>4. e[k] = h[z + k]
        BY <4>1, <4>2, <4>3, ReadAlike
      <4> QED  BY <4>1, <4>4
    <3>6. m = h[k]
      BY <1>4, <3>1, <3>2, <3>5
    <3>7. m.state # "not_started"
      <4> DEFINE z == 0
                 b == FreshMachine
      <4>1. z \in Nat /\ z + k <= Len(s) /\ Parsed(s, z, b) /\ u = Segment(s, z, k)
        BY <1>1, FreshFacts DEF Parsed, u
      <4>2. m = on_segment(b, u)
        BY <3>1
      <4> HIDE DEF z, b
      <4>3. Known(s, z + k, m)
        BY <4>1, <4>2, SegmentKnown
      <4> QED  BY <4>3 DEF Known
    <3> QED  BY <3>6, <3>7 DEF Begun
  <2> QED  BY <2>1, <2>2
<1>9. f[n] = h[k + n]
  <2>1. ReadsFrom(f, s, k, n) /\ ReadsAll(h, s, k + n) /\ f[0] = h[k]
    BY <1>6, <1>7, <1>8 DEF ReadsFrom, ReadsAll
  <2> QED  BY <2>1, ReadAlike
<1> QED  BY <1>6, <1>7, <1>9 DEF g, w, WholeRead

(* What has been read, in one.                                             *)
Joined == parser = IF consumed = 0 THEN FreshMachine ELSE WholeRead(stream, consumed)

(* Every segment keeps that.                                               *)
LEMMA JoinedKept ==
  ASSUME Inv, Joined, [Next]_vars
  PROVE  Joined'
<1>1. ASSUME NEW n \in 1 .. Len(stream), ParseStep(n)
      PROVE  Joined'
  <2> DEFINE s == stream
             k == consumed
             m == parser
  <2>1. s \in Text /\ k \in Nat /\ n \in Nat /\ k + n <= Len(s)
    BY <1>1, StreamsAssumption DEF Inv, ParseStep, Text
  <2>2. m = IF k = 0 THEN FreshMachine ELSE WholeRead(s, k)
    BY DEF Joined
  <2>3. on_segment(m, Segment(s, k, n)) = WholeRead(s, k + n)
    <3> HIDE DEF s, k, m
    <3> QED  BY <2>1, <2>2, SegmentsJoin
  <2>4. /\ parser' = on_segment(parser, Segment(stream, consumed, n))
        /\ consumed' = consumed + n /\ stream' = stream
    BY <1>1 DEF ParseStep, Segment
  <2>5. consumed' # 0
    BY <2>1, <2>4
  <2> QED  BY <2>3, <2>4, <2>5 DEF Joined
<1>2. CASE UNCHANGED vars
  BY <1>2 DEF Joined, vars
<1> QED  BY <1>1, <1>2 DEF Next

(* How the stream is cut does not matter: after any segments, the parser   *)
(* is what it would be had all their bytes come in one (on_segment).       *)
THEOREM CutDoesNotMatter ==
  Spec => [](consumed # 0 => parser = on_segment(FreshMachine, Read))
<1>1. Init => Joined
  BY DEF Init, Joined
<1>2. Inv /\ Joined /\ [Next]_vars => Joined'
  BY JoinedKept
<1>3. Inv /\ Joined => (consumed # 0 => parser = on_segment(FreshMachine, Read))
  <2> SUFFICES ASSUME Inv, Joined, consumed # 0
               PROVE  parser = on_segment(FreshMachine, Read)
    OBVIOUS
  <2>1. parser = WholeRead(stream, consumed)
    BY DEF Joined
  <2>2. Segment(stream, 0, consumed) = Read
    <3>1. consumed \in Nat
      BY DEF Inv
    <3>2. 0 + 1 = 1 /\ 0 + consumed = consumed
      BY <3>1
    <3> QED  BY <3>2 DEF Segment, Read
  <2> QED  BY <2>1, <2>2 DEF WholeRead
<1> QED  BY <1>1, <1>2, <1>3, InvHolds, PTL DEF Spec

-----------------------------------------------------------------------------
(* The answer.                                                             *)

(* All of a request has been read, when it comes in one segment, exactly   *)
(* after its last byte, and its length is a number.                        *)
EndsOnce(r) ==
  /\ Len(r) > 0
  /\ \A k \in 1 .. Len(r) :
       LET m == on_segment(FreshMachine, SubSeq(r, 1, k))
       IN  /\ m.state = "body" /\ HasLength(m) => HasNumber(m.headers[ContentLengthName])
           /\ m.state = "body" /\ BodyComplete(m) <=> k = Len(r)

(* A segment posts GenerateResponse when all of the request has been read. *)
LEMMA TasksAnswer ==
  ASSUME NEW m
  PROVE  Contains(TasksAfter(m), "GenerateResponse") <=> m.state = "body" /\ BodyComplete(m)
<1>1. CASE m.state = "body" /\ BodyComplete(m)
  <2>1. TasksAfter(m) = << "FindHandler", "GenerateResponse" >>
    BY <1>1 DEF TasksAfter
  <2> QED  BY <1>1, <2>1 DEF Contains
<1>2. CASE ~ (m.state = "body" /\ BodyComplete(m))
  <2>1. TasksAfter(m) \in { << "RequestClose" >>, <<>>, << "FindHandler" >> }
    BY <1>2 DEF TasksAfter
  <2>2. ~ Contains(TasksAfter(m), "GenerateResponse")
    BY <2>1 DEF Contains
  <2> QED  BY <1>2, <2>2
<1> QED  BY <1>1, <1>2

(* A request is answered by the segment that completes it.                 *)
LEMMA AnswerKept ==
  ASSUME Inv, Joined, AnsweredWhenComplete, [Next]_vars, \A r \in REQUESTS : EndsOnce(r)
  PROVE  AnsweredWhenComplete'
<1>1. ASSUME NEW n \in 1 .. Len(stream), ParseStep(n)
      PROVE  AnsweredWhenComplete'
  <2> SUFFICES ASSUME stream \in REQUESTS
               PROVE  answers' = IF consumed' = Len(stream) THEN 1 ELSE 0
    BY <1>1 DEF AnsweredWhenComplete, ParseStep
  <2> DEFINE k == consumed'
             m == parser'
  <2>1. /\ k = consumed + n /\ k <= Len(stream) /\ stream' = stream
        /\ consumed \in Nat /\ Len(stream) \in Nat
    BY <1>1, StreamsAssumption DEF Inv, ParseStep
  <2>2. m = on_segment(FreshMachine, SubSeq(stream, 1, k))
    <3>1. Joined'
      BY JoinedKept
    <3>2. k # 0 /\ 0 + 1 = 1 /\ 0 + k = k
      BY <2>1
    <3> QED  BY <2>1, <3>1, <3>2 DEF Joined, WholeRead, Segment
  <2>3. k \in 1 .. Len(stream) /\ EndsOnce(stream)
    BY <2>1
  <2>4. /\ m.state = "body" /\ HasLength(m) => HasNumber(m.headers[ContentLengthName])
        /\ m.state = "body" /\ BodyComplete(m) <=> k = Len(stream)
    <3> HIDE DEF k, m
    <3> QED  BY <2>2, <2>3 DEF EndsOnce
  <2>5. posted' = TasksAfter(m)
    BY <1>1, <2>4 DEF ParseStep
  <2>6. Contains(posted', "GenerateResponse") <=> k = Len(stream)
    BY <2>4, <2>5, TasksAnswer
  <2>7. answers = 0
    <3>1. consumed # Len(stream)
      BY <2>1
    <3> QED  BY <3>1 DEF AnsweredWhenComplete
  <2>8. answers' = IF Contains(posted', "GenerateResponse") THEN answers + 1 ELSE answers
    BY <1>1 DEF ParseStep
  <2> QED  BY <2>6, <2>7, <2>8
<1>2. CASE UNCHANGED vars
  BY <1>2 DEF AnsweredWhenComplete, vars
<1> QED  BY <1>1, <1>2 DEF Next

(* A request that is complete exactly after its last byte when it comes in *)
(* one segment is answered exactly once however it is cut, and only when   *)
(* all of it has arrived (parse_step).                                     *)
THEOREM AnsweredOnce ==
  ASSUME \A r \in REQUESTS : EndsOnce(r)
  PROVE  Spec => []AnsweredWhenComplete
<1>1. Init => Joined /\ AnsweredWhenComplete
  <2> SUFFICES ASSUME Init
               PROVE  Joined /\ AnsweredWhenComplete
    OBVIOUS
  <2>1. Joined
    BY DEF Init, Joined
  <2>2. AnsweredWhenComplete
    BY DEF Init, AnsweredWhenComplete, EndsOnce
  <2> QED  BY <2>1, <2>2
<1>2. Inv /\ Joined /\ [Next]_vars => Joined'
  BY JoinedKept
<1>3. Inv /\ Joined /\ AnsweredWhenComplete /\ [Next]_vars => AnsweredWhenComplete'
  BY AnswerKept
<1> QED  BY <1>1, <1>2, <1>3, InvHolds, PTL DEF Spec
=============================================================================
