--------------------------- MODULE PrototypeParsing ---------------------------
(***************************************************************************)
(* parse_step of the prototype test2.cpp: received bytes are collected in  *)
(* acc; every complete request is cut off its front and answered.          *)
(*                                                                         *)
(* A byte stands for a whole header line (known only when its last         *)
(* character is there), for the end of the empty line after the headers,   *)
(* or for anything else.  A body may look like header lines.               *)
(*                                                                         *)
(* A definition X_... that stands before a definition X is a faulty        *)
(* version of it, which no specification uses (see PROJECT.json).          *)
(***************************************************************************)
EXTENDS TxOps

CONSTANT KEEPALIVE_LIMIT   (* max_keepalive_requests                        *)

ASSUME LimitAssumption == KEEPALIVE_LIMIT \in Nat

BLANK == << "blank", 0 >>              (* ends at \r\n\r\n                  *)
CLOSE == << "connection", 0 >>         (* Connection: close                 *)
KEEP == << "connection", 1 >>          (* Connection: anything else         *)
LENGTH(n) == << "length", n >>         (* Content-Length: n                 *)
TEXT == << "other", 0 >>               (* any other line or byte            *)

Byte == { "blank", "connection", "length", "other" } \X Nat

(* kHdrKeep, kHdrClose and kBody; only the last ends a response.           *)
Literals == { "keep", "close", "body" }

Hdr(keep) == [ seg |-> IF keep THEN "keep" ELSE "close", eor |-> FALSE ]
Hello == [ seg |-> "body", eor |-> TRUE ]

-----------------------------------------------------------------------------
find_hdr_end_last(acc) ==
  LET ends == { i \in 1 .. Len(acc) : acc[i] = BLANK }
  IN  IF ends = {} THEN 0 ELSE CHOOSE i \in ends : \A j \in ends : j <= i

(* The first end of headers in acc, 0 when there is none.                  *)
find_hdr_end(acc) ==
  LET ends == { i \in 1 .. Len(acc) : acc[i] = BLANK }
  IN  IF ends = {} THEN 0 ELSE CHOOSE i \in ends : \A j \in ends : i <= j

(* The value of the last line of this name, of several the one that counts. *)
LastValue(lines, name, none) ==
  LET at == { i \in 1 .. Len(lines) : lines[i][1] = name }
  IN  IF at = {} THEN none ELSE lines[CHOOSE i \in at : \A j \in at : j <= i][2]

scan_headers(lines) ==
  [ keep |-> LastValue(lines, "connection", 1) # 0,
    clen |-> LastValue(lines, "length", 0) ]

KeepConn_past_limit(served, keep) == keep /\ served < KEEPALIVE_LIMIT

(* Does the answer announce that the connection is kept?  For a limit of 0 *)
(* the unsigned comparison with -1 is always true.                         *)
KeepConn(served, keep) ==
  keep /\ (KEEPALIVE_LIMIT = 0 \/ served < KEEPALIVE_LIMIT - 1)

(* What parse_step works on.                                               *)
Parser == [ acc : Seq(Byte), keep_alive : BOOLEAN, txq : Seq(OwnedBuf(Literals)) ]

ParserOf(c, bytes) ==
  [ acc |-> c.acc \o bytes, keep_alive |-> c.keep_alive, txq |-> c.tx.txq ]

With(c, p) ==
  [ c EXCEPT !.acc = p.acc, !.keep_alive = p.keep_alive, !.tx.txq = p.txq ]

Answer(p, served, keep, size) ==
  [ acc        |-> SubSeq(p.acc, size + 1, Len(p.acc)),
    keep_alive |-> keep,
    txq        |-> p.txq \o << Hdr(KeepConn(served, keep)), Hello >> ]

parse_step_one_request(c, bytes) ==
  LET p == ParserOf(c, bytes)
      e == find_hdr_end(p.acc)
      h == scan_headers(SubSeq(p.acc, 1, e - 1))
  IN  With(c, IF e = 0 THEN p
              ELSE IF Len(p.acc) < e + h.clen THEN [ p EXCEPT !.keep_alive = h.keep ]
              ELSE Answer(p, c.served, h.keep, e + h.clen))

(* The inner loop, until no complete request is left.  An incomplete one   *)
(* already decides keep_alive.                                             *)
parse_step(c, bytes) ==
  LET loop[p \in Parser] ==
        LET e == find_hdr_end(p.acc)
            h == scan_headers(SubSeq(p.acc, 1, e - 1))
        IN  IF e = 0 THEN p
            ELSE IF Len(p.acc) < e + h.clen THEN [ p EXCEPT !.keep_alive = h.keep ]
            ELSE loop[Answer(p, c.served, h.keep, e + h.clen)]
  IN  With(c, loop[ParserOf(c, bytes)])

-----------------------------------------------------------------------------
IsLast(lines, name, i) ==
  /\ lines[i][1] = name
  /\ \A j \in i + 1 .. Len(lines) : lines[j][1] # name

(* What a peer means: a request has header lines and a body.  Of several   *)
(* lines of one name the last counts.                                      *)
Requests ==
  { r \in [ lines : Seq(Byte), body : Seq(Byte), keep : BOOLEAN ] :
      LET at == 1 .. Len(r.lines)
      IN  /\ \A i \in at : r.lines[i] # BLANK
          /\ \A i \in at : IsLast(r.lines, "length", i) => r.lines[i][2] = Len(r.body)
          /\ (\A i \in at : r.lines[i][1] # "length") => r.body = <<>>
          /\ r.keep = \A i \in at :
                        IsLast(r.lines, "connection", i) => r.lines[i][2] # 0 }

Wire(r) == r.lines \o << BLANK >> \o r.body

(* The bytes of the first n requests of a stream, and their number.        *)
Wires(stream) ==
  LET first[n \in 0 .. Len(stream)] ==
        IF n = 0 THEN <<>> ELSE first[n - 1] \o Wire(stream[n])
  IN  first

EndOf(stream, n) == Len(Wires(stream)[n])

Bytes(stream) == Wires(stream)[Len(stream)]

(* How many requests are complete after the first n bytes of a stream?     *)
CompleteIn(stream, n) ==
  CHOOSE m \in 0 .. Len(stream) :
    /\ EndOf(stream, m) <= n
    /\ m < Len(stream) => EndOf(stream, m + 1) > n

(* Does the peer want the connection kept after request r?                 *)
WantsKeep(r) == r.keep
=============================================================================
