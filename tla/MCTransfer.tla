---------------------------- MODULE MCTransfer ----------------------------
(***************************************************************************)
(* Small instances of Transfer: a file of three bytes that is read in two  *)
(* parts, and a local file that is new, shorter or longer.                 *)
(***************************************************************************)
EXTENDS Transfer, TLC

CONSTANTS c1, c2, c3

MCFile == <<"b1", "b2", "b3">>
MCByte == {"b1", "b2", "b3", "old"}
MCOld == (c1 :> <<>>) @@ (c2 :> <<"old">>) @@ (c3 :> <<"old", "old", "old", "old">>)
=============================================================================
