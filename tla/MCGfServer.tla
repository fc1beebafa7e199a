----------------------------- MODULE MCGfServer -----------------------------
(***************************************************************************)
(* A small instance of GfServer: three clients and two descriptors, a file *)
(* of two bytes that a handler may also miss, the path "/" and another.    *)
(***************************************************************************)
EXTENDS GfServer

MCContents == {<<"b1", "b2">>, NoFile}
\* A right request, a wrong path, and a wrong method whose path is right.
MCRequests == {<<"GETFILE", "GET", "/">>, <<"GETFILE", "GET", "/file">>, <<"GETFILE", "FETCH", "/">>}
\* What is left of a word is no word that the server knows, but of "/file" it
\* may be "/".
MCCutTo == [w \in {"GETFILE", "GET", "FETCH", "/", "/file"} |->
              IF w = "/" THEN {} ELSE IF w = "/file" THEN {"/", "part"} ELSE {"part"}]
=============================================================================
