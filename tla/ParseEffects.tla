---------------------------- MODULE ParseEffects ----------------------------
(***************************************************************************)
(* What one received segment can do, seen from the event loop: it moves    *)
(* the parser from one phase to another and makes parse_step post tasks.   *)
(* RequestParsing checks that the parser has no other effect; Worker takes *)
(* its segments from this table.                                           *)
(***************************************************************************)
EXTENDS Sequences

(* "start": the path is not complete; "head": it is, the empty line is not *)
(* read; "body": the empty line has been read; "error": malformed.         *)
Phases == { "start", "head", "body", "error" }

ParseTasks == { "FindHandler", "GenerateResponse", "RequestClose" }

(* The tasks a segment may post when it moves the parser from one phase to *)
(* another.  The parser never leaves "body" or "error".                    *)
Posts(from, to) ==
  CASE to = "error" /\ from # "body"              -> { << "RequestClose" >> }
    [] to = "body" /\ from # "error"              ->
         { << "FindHandler" >>, << "FindHandler", "GenerateResponse" >> }
    [] to = "head" /\ from \in { "start", "head" } -> { << "FindHandler" >> }
    [] to = "start" /\ from = "start"             -> { <<>> }
    [] OTHER                                      -> {}

Effects == { e \in [ from  : Phases, to : Phases,
                     posts : { <<>>, << "RequestClose" >>, << "FindHandler" >>,
                               << "FindHandler", "GenerateResponse" >> } ] :
             e.posts \in Posts(e.from, e.to) }

(* The effects that end in an exception: the length that the empty line    *)
(* announces is no number, and FindHandler has been posted before.         *)
LastEffects == [ from : { "start", "head" }, to : {"body"},
                 posts : { << "FindHandler" >> } ]
=============================================================================
