--------------------------- MODULE RequestParsing ---------------------------
(***************************************************************************)
(* parse_step of one connection: the peer's bytes arrive in segments of    *)
(* any size, each is given to the parser, and the parser's state decides   *)
(* which tasks are posted.  The queue rxq never holds more than the one    *)
(* segment just received, so parse_step handles exactly that one.          *)
(*                                                                         *)
(* A definition X_... that stands before a definition X is a faulty        *)
(* version of it, which no specification uses (see PROJECT.json).          *)
(***************************************************************************)
EXTENDS ProcessingMachine, ParseEffects

CONSTANTS
  STREAMS,       (* byte streams a peer may send                            *)
  REQUESTS       (* those of them that are one well-formed request          *)

ASSUME StreamsAssumption ==
  /\ STREAMS \subseteq Seq(Char)
  /\ REQUESTS \subseteq STREAMS

VARIABLES
  stream,        (* the bytes this peer sends                               *)
  consumed,      (* how many of them have been received and parsed          *)
  parser,
  closing,
  running,       (* FALSE once an exception has ended the worker thread     *)
  posted,        (* the tasks the last segment posted                       *)
  answers        (* history: how often GenerateResponse was posted          *)

vars == << stream, consumed, parser, closing, running, posted, answers >>

Init ==
  /\ stream \in STREAMS
  /\ consumed = 0
  /\ parser = FreshMachine
  /\ closing = FALSE
  /\ running = TRUE
  /\ posted = <<>>
  /\ answers = 0

(* The phase the event loop can tell.                                      *)
Phase(m) ==
  CASE m.state \in { "not_started", "method", "path" } -> "start"
    [] m.state = "error_state" -> "error"
    [] m.state = "body" -> "body"
    [] OTHER -> "head"

HasLength(m) == ContentLengthName \in DOMAIN m.headers

BodyComplete_once_begun(m) == HasLength(m) => m.body # <<>>

(* All of the body announced by Content-Length has been read.             *)
BodyComplete(m) ==
  HasLength(m) => Len(m.body) = Stoull(m.headers[ContentLengthName])

TasksAfter_answering_first(m) ==
  CASE m.state = "error_state" -> << "RequestClose" >>
    [] m.state \in { "method", "path" } -> <<>>
    [] m.state = "body" /\ BodyComplete(m) -> << "GenerateResponse", "FindHandler" >>
    [] OTHER -> << "FindHandler" >>

TasksAfter_flushing(m) ==
  CASE m.state = "error_state" -> << "RequestClose" >>
    [] m.state \in { "method", "path" } -> <<>>
    [] m.state = "body" /\ BodyComplete(m) -> << "FindHandler", "RequestFlush" >>
    [] OTHER -> << "FindHandler" >>

(* The tasks posted after a segment, FindHandler first.                    *)
TasksAfter(m) ==
  CASE m.state = "error_state" -> << "RequestClose" >>
    [] m.state \in { "method", "path" } -> <<>>
    [] m.state = "body" /\ BodyComplete(m) -> << "FindHandler", "GenerateResponse" >>
    [] OTHER -> << "FindHandler" >>

(* A segment of n bytes is received and parsed.                            *)
ParseStep(n) ==
  /\ running
  /\ consumed + n <= Len(stream)
  /\ consumed' = consumed + n
  /\ parser' = on_segment(parser, SubSeq(stream, consumed + 1, consumed + n))
  /\ \/ (* std::stoull throws *)
        /\ parser'.state = "body" /\ HasLength(parser')
        /\ ~ HasNumber(parser'.headers[ContentLengthName])
        /\ running' = FALSE
        /\ posted' = << "FindHandler" >>
        /\ UNCHANGED closing
     \/ /\ parser'.state = "body" /\ HasLength(parser')
             => HasNumber(parser'.headers[ContentLengthName])
        /\ posted' = TasksAfter(parser')
        /\ closing' = (closing \/ parser'.state = "error_state")
        /\ UNCHANGED running
  /\ answers' =
       IF Contains(posted', "GenerateResponse") THEN answers + 1 ELSE answers
  /\ UNCHANGED stream

Next == \E n \in 1 .. Len(stream) : ParseStep(n)

Spec == Init /\ [][Next]_vars

-----------------------------------------------------------------------------
TypeOK ==
  /\ stream \in STREAMS
  /\ consumed \in 0 .. Len(stream)
  /\ parser.state \in { "not_started", "method", "path", "protocol_version",
                        "header_name", "header_value", "cr", "crlf", "crlfcr",
                        "body", "error_state" }
  /\ \A f \in { "tmp", "val", "method", "path", "protocol", "body" } :
       parser[f] \in Seq(Char)
  /\ closing \in BOOLEAN
  /\ running \in BOOLEAN
  /\ posted \in Seq(ParseTasks)
  /\ answers \in Nat

Read == SubSeq(stream, 1, consumed)

BlankLine == << "CR", "LF", "CR", "LF" >>

(* Position of the last byte of the i-th possible blank line.              *)
BlankLineAt(i) == i + 3 <= consumed /\ SubSeq(stream, i, i + 3) = BlankLine

(* However the stream was cut, the body that the head announces is what    *)
(* follows the first blank line, as far as it has been read; and there is  *)
(* no body before one (on_segment).                                        *)
Announces(m, j) ==
  /\ HasLength(m) /\ HasNumber(m.headers[ContentLengthName])
  /\ j <= Stoull(m.headers[ContentLengthName])

BodyAfterBlankLine ==
  LET blanks == { i \in 1 .. consumed : BlankLineAt(i) }
  IN  /\ parser.state = "body" =>
           \E i \in blanks :
             /\ \A j \in blanks : i <= j
             /\ \A j \in 1 .. consumed - (i + 3) : Announces(parser, j) =>
                  j <= Len(parser.body) /\ parser.body[j] = Read[i + 3 + j]
      /\ blanks # {} => parser.state \in { "body", "error_state" } \/ answers > 0
      /\ parser.body # <<>> => parser.state \in { "body", "error_state" }

(* However the stream was cut, method, path and protocol are what stands   *)
(* between the separators of the first line (on_segment).                  *)
RequestLineSplit ==
  Phase(parser) \in { "head", "body" } /\ parser.state # "protocol_version" =>
    /\ IsPrefix(parser.method \o << "SP" >> \o parser.path \o << "SP" >>
                  \o parser.protocol \o << "CR" >>, Read)
    /\ \A c \in { "SP", "CR", "LF" } :
         ~ Contains(parser.method, c) /\ ~ Contains(parser.path, c)

(* A stored header is a line of the head, and the first one of its name;   *)
(* nothing of one line is left over in the next (on_segment).              *)
HeaderLine(n, v) == << "CR", "LF" >> \o n \o << "COLON" >> \o v \o << "CR" >>

OccursAt(s, i) ==
  /\ i + Len(s) - 1 <= consumed
  /\ SubSeq(stream, i, i + Len(s) - 1) = s

HeadersAreLines ==
  \A n \in DOMAIN parser.headers :
    \E i \in 1 .. consumed :
      /\ OccursAt(HeaderLine(n, parser.headers[n]), i)
      /\ ~ Contains(parser.headers[n], "CR")
      /\ \A j \in 1 .. i - 1 : ~ OccursAt(<< "CR", "LF" >> \o n \o << "COLON" >>, j)

(* A well-formed request is answered exactly once, and only when all of it *)
(* has arrived (parse_step).                                               *)
AnsweredWhenComplete ==
  stream \in REQUESTS =>
    answers = IF consumed = Len(stream) THEN 1 ELSE 0

(* Two requests, one after the other, get two answers, however they are cut*)
(* and run together (parse_step, reset_parser).                            *)
EachRequestAnswered ==
  (\E r, q \in REQUESTS : stream = r \o q) /\ consumed = Len(stream) => answers = 2

(* A segment has no effect on the event loop that ParseEffects leaves out, *)
(* be it the last one, after which an exception ends the process           *)
(* (parse_step, std::stoull).                                              *)
OnlyKnownEffects ==
  [][ [ from |-> Phase(parser), to |-> Phase(parser'), posts |-> posted' ]
        \in IF running' THEN Effects ELSE LastEffects ]_vars
=============================================================================
