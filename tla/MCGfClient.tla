----------------------------- MODULE MCGfClient -----------------------------
(***************************************************************************)
(* Small instances of GfClient: a file of six bytes and an empty one, with *)
(* headers of both kinds, bodies too short and too long, and connections   *)
(* that end early, on time, or not at all.                                 *)
(***************************************************************************)
EXTENDS GfClient

MCFile == <<"b1", "b2", "b3", "b4", "b5", "b6">>
MCByte == {MCFile[i] : i \in 1..6}
MCHeader == <<"header", "eol">>

\* The first n bytes of the file, announced as l, after a header.
Sends(h, l, n, c) ==
  [status |-> "OK", length |-> l, header |-> h, body |-> SubSeq(MCFile, 1, n), close |-> c]
Fails(s, h, c) ==
  [status |-> s, length |-> 0, header |-> h, body |-> <<>>, close |-> c]

MCEndings == {"close", "reset", "open"}
\* Bodies of every length for a file of none and of four bytes.
Files(h) == {Sends(h, l, n, c) : l \in {0, 4}, n \in 0..6, c \in MCEndings}
Failures(h) == {Fails(s, h, c) : s \in Kinds \ {"OK"}, c \in MCEndings}

MCOwn == OwnResponses({MCFile, <<>>})
MCResponses ==
  MCOwn \cup Files(MCHeader) \cup Files(OwnHeader)
  \cup Failures(MCHeader) \cup Failures(OwnHeader) \cup {Fails("ERROR", <<>>, c) : c \in MCEndings}
=============================================================================
