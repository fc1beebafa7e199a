------------------------------ MODULE GfClient ------------------------------
(***************************************************************************)
(* One request of the getfile client of pr1/gflib: gfc_perform of          *)
(* gfclient.c, which takes a response apart as it arrives, and its caller  *)
(* gfclient_download.c, which keeps or removes the local file.  The server *)
(* sends one of Responses, those of gflib/gfserver.c or others, and recv   *)
(* returns any piece of it.                                                *)
(*                                                                         *)
(* Abstractions: of a request and of a header only their pieces count; a   *)
(* header is <<"header", "eol">>, "eol" being its last character, or that  *)
(* with spaces in it.  The connection stands at the start.                 *)
(***************************************************************************)
EXTENDS Integers, Sequences

CONSTANTS
  Responses,  \* what a server may send: see Response
  Byte,       \* what files hold
  BufSize,    \* BUFSIZE
  SendSizes   \* how much of the request one send may take

Request == <<"request", "eol">>
HeaderLen == 2 \* strlen of the header as the client would write it
Kinds == {"OK", "FILE_NOT_FOUND", "ERROR", "INVALID"}

\* status: what the header says; length: the number in it; body: what is sent
\* after it; close: what the server does at the end.
Response ==
  [status : Kinds, length : Nat, header : Seq({"header", " ", "eol"}), body : Seq(Byte),
   close : {"close", "reset", "open"}]

\* gfserver.c writes a space before the end of a header, and closes nothing.
OwnHeader == <<"header", " ", "eol">>
OwnResponses(files) ==
  {[status |-> "OK", length |-> Len(f), header |-> OwnHeader, body |-> f, close |-> "open"] :
     f \in files}
  \cup {[status |-> s, length |-> 0, header |-> OwnHeader, body |-> <<>>, close |-> "open"] :
     s \in {"FILE_NOT_FOUND", "ERROR"}}

ASSUME GfClientAssumption ==
  /\ Responses \subseteq Response
  /\ \A r \in Responses : r.header # <<>> => r.header[Len(r.header)] = "eol"
  /\ \A r \in Responses : r.status = "OK" => r.header # <<>> /\ r.header[1] = "header"
  /\ BufSize \in Nat /\ \A r \in Responses : Len(r.header) <= BufSize
  /\ SendSizes \subseteq 1..Len(Request) /\ SendSizes # {}

VARIABLES
  st,             \* "send", "recv", "done", "crashed" or "exited"
  request,        \* what the server has received
  sent,           \* total_bytes_sent
  response,       \* what the server answers
  pos,            \* how much of it recv has returned
  header_rcvd, status, file_length, bytes_received, \* as in the code
  file            \* what write_func has put into the local file

recvVars == <<header_rcvd, status, file_length, bytes_received, file>>
getVars == <<st, request, sent, response, pos, recvVars>>

\* The header, and after it what is sent of the file.
Stream == response.header \o response.body

GetInit ==
  /\ st = "send" /\ request = <<>> /\ sent = 0
  /\ response \in Responses /\ pos = 0
  /\ header_rcvd = FALSE /\ status = "INVALID" /\ file_length = 0 /\ bytes_received = 0
  /\ file = <<>>

\* One send: always from the start of the request.
Send(n) ==
  /\ st = "send"
  /\ request' = request \o SubSeq(Request, 1, n)
  /\ sent' = sent + n
  /\ st' = IF sent + n < Len(Request) THEN "send" ELSE "recv"
  /\ UNCHANGED <<response, pos, recvVars>>

\* send returns -1, and the process exits.
SendFails ==
  /\ st = "send" /\ response.close = "reset"
  /\ st' = "exited"
  /\ UNCHANGED <<request, sent, response, pos, recvVars>>

-----------------------------------------------------------------------------
\* What recv may return next.
Pieces == {n \in 1..BufSize : pos + n <= Len(Stream)}
Piece(n) == SubSeq(Stream, pos + 1, pos + n)
Ended == pos = Len(Stream) /\ response.close = "close"

Complete_Never(n) == FALSE  \* mutant: the loop waits for the end of the connection
\* The loop ends when as much has come as the header announced.
Complete(n) == n = file_length'

Finish(s) ==
  /\ st' = "done" /\ status' = s
  /\ UNCHANGED <<request, sent, response, header_rcvd, file_length, bytes_received, file>>

\* The connection is closed, or what came first is not a whole header.
NoHeader ==
  /\ st = "recv" /\ ~header_rcvd
  /\ \/ Ended /\ Finish("ERROR") /\ UNCHANGED pos
     \/ \E n \in Pieces :
          /\ ~ \E i \in 1..n : Piece(n)[i] = "eol"
          /\ Finish("INVALID") /\ pos' = pos + n

\* A header that announces no file ends the request.
HeaderOfFailure ==
  /\ st = "recv" /\ ~header_rcvd /\ response.status # "OK"
  /\ \E n \in Pieces :
       /\ \E i \in 1..n : Piece(n)[i] = "eol"
       /\ pos' = pos + n
  /\ st' = "done" /\ status' = response.status /\ header_rcvd' = TRUE
  /\ UNCHANGED <<request, sent, response, file_length, bytes_received, file>>

AfterHeader_Off(m) == SubSeq(m, HeaderLen + 2, Len(m))  \* mutant
\* What follows the header, found by the length of one written afresh.
AfterHeader(m) == SubSeq(m, HeaderLen + 1, Len(m))

\* The header of a file, and what has come with it.
Header ==
  /\ st = "recv" /\ ~header_rcvd /\ response.status = "OK"
  /\ \E n \in Pieces :
       /\ \E i \in 1..n : Piece(n)[i] = "eol"
       /\ file' = AfterHeader(Piece(n))
       /\ bytes_received' = n - HeaderLen
       /\ pos' = pos + n
  /\ header_rcvd' = TRUE /\ status' = "OK" /\ file_length' = response.length
  /\ st' = IF Complete(bytes_received') THEN "done" ELSE "recv"
  /\ UNCHANGED <<request, sent, response>>

\* A further piece of the file.
Body ==
  /\ st = "recv" /\ header_rcvd
  /\ \E n \in Pieces :
       /\ file' = file \o Piece(n)
       /\ bytes_received' = bytes_received + n
       /\ pos' = pos + n
  /\ UNCHANGED <<request, sent, response, header_rcvd, status, file_length>>
  /\ st' = IF Complete(bytes_received') THEN "done" ELSE "recv"

\* The server has closed too early.  (Once there are more bytes than announced,
\* the loop goes on for ever: recv blocks, or returns 0 again and again.)
ClosedEarly ==
  /\ st = "recv" /\ header_rcvd /\ Ended /\ bytes_received < file_length
  /\ Finish("OK") /\ UNCHANGED pos

\* recv returns -1, which is then the size of a memcpy.
Reset ==
  /\ st = "recv" /\ response.close = "reset"
  /\ st' = "crashed"
  /\ UNCHANGED <<request, sent, response, pos, recvVars>>

GetNext ==
  \/ \E n \in SendSizes : Send(n)
  \/ SendFails
  \/ NoHeader \/ HeaderOfFailure \/ Header \/ Body \/ ClosedEarly \/ Reset

GetSpec == GetInit /\ [][GetNext]_getVars

\* The server sends its response, and the client receives it.
FairGetSpec == GetSpec /\ WF_getVars(GetNext)

-----------------------------------------------------------------------------
ReturnCode_NoLength == IF status \in {"ERROR", "FILE_NOT_FOUND", "OK"} THEN 0 ELSE -1  \* mutant
\* get_return_code, of the state in which gfc_perform returns.
ReturnCode ==
  IF \/ status \in {"ERROR", "FILE_NOT_FOUND"}
     \/ status = "OK" /\ bytes_received = file_length
  THEN 0 ELSE -1

\* gfclient_download.c does not unlink the local file.
Kept == st = "done" /\ ReturnCode = 0 /\ status = "OK"

\* The values each variable takes.
GetTypeOK ==
  /\ st \in {"send", "recv", "done", "crashed", "exited"}
  /\ request \in Seq({"request", "eol"}) /\ sent \in Nat
  /\ response \in Responses /\ pos \in 0..Len(Stream)
  /\ header_rcvd \in BOOLEAN /\ status \in Kinds
  /\ file_length \in Nat /\ bytes_received \in Nat
  /\ file \in Seq(Byte \cup {"header", " ", "eol"})

\* A header as pr1/README.md:231-234 wants it: no space before its end.
Conforms == response.header = <<"header", "eol">>

\* What has been given is the start of what the server sent after its header.
StartOfBody == \E l \in 0..Len(response.body) : file = SubSeq(response.body, 1, l)

(* pr1/README.md:231-232, "All remaining bytes are the files contents".    *)
(* However the response is cut, bytes_received counts what the caller has  *)
(* been given; and after a header without a space, which gfserver.c does   *)
(* not send, that is the start of what follows the header.                 *)
GivenIsStart == bytes_received = Len(file) /\ (Conforms => StartOfBody)

(* gfclient.c:25-31, 219-231 and gfclient_download.c:154-166.  A file that *)
(* is kept has the length that the header announced, whatever the server   *)
(* sent; and after a header without a space it is the start of the body.   *)
KeptIsWhole == Kept => Len(file) = response.length /\ (Conforms => StartOfBody)

\* What never ends: more bytes than announced, counted from where the client
\* takes the file to start (the space of gfserver.c is one), ...
TooLong == response.status = "OK" /\ Len(Stream) > HeaderLen + response.length
\* ... and a server that keeps the connection, and does not send them all.
Withheld ==
  /\ response.close = "open"
  /\ Stream = <<>> \/ (response.status = "OK" /\ Len(Stream) < HeaderLen + response.length)

(* gfclient.c:228.  gfc_perform returns, also when the server leaves the   *)
(* connection open after the last byte or closes it early.                 *)
Returns == response.close # "reset" /\ ~TooLong /\ ~Withheld => <>(st = "done")

(* pr1/README.md:231-234 of gflib's own two halves: the file that the      *)
(* client keeps is the one that the server has sent.                       *)
KeptIsServersFile == Kept => file = response.body
=============================================================================
