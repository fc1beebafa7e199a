--------------------------- MODULE MCQueueAndTable ---------------------------
(***************************************************************************)
(* The queue and the table of one server (pr1/mtgf/gfserver_main.c:104-109 *)
(* starts both).  They share nothing, so that each of them moves here      *)
(* while the other one rests: the interleavings of their steps would show  *)
(* nothing that this does not.                                             *)
(*                                                                         *)
(* The queue has a few nodes whose memory holds anything.  The content     *)
(* file has five lines out of order, one key twice, and no newline at its  *)
(* end; its table grows twice; the disk may lack a file, and may have one  *)
(* by the name that is cut short.                                          *)
(***************************************************************************)
EXTENDS Steque, ContentTable

MCPaths == {"a", "b", "c", "d", "cut"}
MCLine(k, p) == [key |-> k, path |-> p, eol |-> TRUE]
MCLines == <<MCLine(7, "a"), MCLine(3, "b"), MCLine(5, "c"), MCLine(3, "d"),
             [key |-> 1, path |-> "a", eol |-> FALSE]>>
MCChop == [p \in MCPaths \cup {NoPath} |-> IF p = NoPath THEN NoPath ELSE "cut"]
\* Every file is there; one is missing; or the file of the name cut short.
MCDisks == {MCPaths, MCPaths \ {"c"}, MCPaths \ {"cut"}}

QueueRests == allocated = {} /\ ans = NoItem /\ mode = "ready"
TableRests == phase = "serve" /\ \A t \in Threads : pc[t] = "idle"

MCInit == TableInit /\ Init
MCNext ==
  \/ TableRests /\ Next /\ UNCHANGED tableVars
  \/ QueueRests /\ TableNext /\ UNCHANGED vars

MCSpec == MCInit /\ [][MCNext]_<<vars, tableVars>>
=============================================================================
