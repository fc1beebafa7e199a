------------------------------ MODULE Transfer ------------------------------
(***************************************************************************)
(* The file transfer of pr1/transfer: a server (transferserver.c) that     *)
(* sends one file to each client in turn and closes the connection, and    *)
(* clients (transferclient.c) that save what they receive until then.      *)
(* Nothing tells a client how long the file is.                            *)
(*                                                                         *)
(* Abstractions: the file does not change; a connection is a window of     *)
(* bytes; what write returns is what it is given.                          *)
(***************************************************************************)
EXTENDS Integers, Sequences

CONSTANTS
  Clients,
  Leavers,  \* the clients that may end before they have everything
  Byte,
  File,     \* what is sent
  Old,      \* what each client's local file holds before
  BufSize,  \* BUFSIZE of both programs
  Window,   \* bytes a connection holds
  MaxFiles, \* how often the server can open the file
  NoClient

ASSUME TransferAssumption ==
  /\ Leavers \subseteq Clients /\ NoClient \notin Clients
  /\ File \in Seq(Byte) /\ Old \in [Clients -> Seq(Byte)]
  /\ BufSize \in Nat \ {0} /\ Window \in Nat \ {0} /\ MaxFiles \in Nat

VARIABLES
  srv,     \* "accept", "open", "read", "send", "close" or "exited"
  cur,     \* the client that is sent the file
  backlog, \* the connections not accepted yet, oldest first
  opened,  \* how many descriptors of the file are open
  off,     \* how much of the file has been read
  left,    \* what of buf is still to be sent
  cl,      \* each client: "start", "recv", "done" or "gone"
  wire,    \* what is on its way to the client
  ended,   \* the connections that the server has closed
  local,   \* the client's file
  rcvd     \* its file offset

serverVars == <<srv, cur, backlog, opened, off, left>>
clientVars == <<cl, local, rcvd>>
vars == <<serverVars, clientVars, wire, ended>>

Lesser(a, b) == IF a < b THEN a ELSE b

Init ==
  /\ srv = "accept" /\ cur = NoClient /\ backlog = <<>>
  /\ opened = 0 /\ off = 0 /\ left = <<>>
  /\ cl = [c \in Clients |-> "start"] /\ wire = [c \in Clients |-> <<>>] /\ ended = {}
  /\ local = Old /\ rcvd = [c \in Clients |-> 0]

-----------------------------------------------------------------------------
(* The server: main and send_file                                          *)

Accept ==
  /\ srv = "accept" /\ backlog # <<>>
  /\ srv' = "open" /\ cur' = Head(backlog) /\ backlog' = Tail(backlog)
  /\ UNCHANGED <<opened, off, left, clientVars, wire, ended>>

\* The file is opened for each client, and never closed.
Open ==
  /\ srv = "open" /\ opened < MaxFiles
  /\ srv' = "read" /\ opened' = opened + 1 /\ off' = 0
  /\ UNCHANGED <<cur, backlog, left, clientVars, wire, ended>>

\* The process ends, and its connections with it.
Exit == srv' = "exited" /\ ended' = Clients

OpenFails ==
  /\ srv = "open" /\ opened = MaxFiles /\ Exit
  /\ UNCHANGED <<cur, backlog, opened, off, left, clientVars, wire>>

\* read fills buf, or finds the end of the file.
Read ==
  /\ srv = "read"
  /\ left' = SubSeq(File, off + 1, Lesser(off + BufSize, Len(File)))
  /\ off' = off + Len(left')
  /\ srv' = IF left' = <<>> THEN "close" ELSE "send"
  /\ UNCHANGED <<cur, backlog, opened, clientVars, wire, ended>>

ReadFails ==
  /\ srv = "read" /\ Exit
  /\ UNCHANGED <<cur, backlog, opened, off, left, clientVars, wire>>

AfterSend_Restart(n) ==  \* mutant: a short send starts over
  IF n = Len(left) THEN <<>> ELSE left
AfterSend(n) == SubSeq(left, n + 1, Len(left))

\* One send takes what fits, also while nobody has told the server that the
\* client has left.
Send ==
  /\ srv = "send"
  /\ \E n \in 1..Lesser(Len(left), Window - Len(wire[cur])) :
       /\ wire' = [wire EXCEPT ![cur] = @ \o SubSeq(left, 1, n)]
       /\ left' = AfterSend(n)
  /\ srv' = IF left' = <<>> THEN "read" ELSE "send"
  /\ UNCHANGED <<cur, backlog, opened, off, clientVars, ended>>

\* At last a send to a client that has left fails, and the server exits.
SendFails ==
  /\ srv = "send" /\ cl[cur] = "gone" /\ Exit
  /\ UNCHANGED <<cur, backlog, opened, off, left, clientVars, wire>>

\* After the file the connection is closed, which is its only end mark.
Close ==
  /\ srv = "close"
  /\ srv' = "accept" /\ cur' = NoClient /\ ended' = ended \cup {cur}
  /\ UNCHANGED <<backlog, opened, off, left, clientVars, wire>>

ServerStep == Accept \/ Open \/ OpenFails \/ Read \/ ReadFails \/ Send \/ SendFails \/ Close

-----------------------------------------------------------------------------
(* The client                                                              *)

\* The local file is opened without O_TRUNC: it keeps what it holds.
Connect(c) ==
  /\ cl[c] = "start" /\ srv # "exited"
  /\ cl' = [cl EXCEPT ![c] = "recv"]
  /\ backlog' = Append(backlog, c)
  /\ UNCHANGED <<srv, cur, opened, off, left, local, rcvd, wire, ended>>

\* write at an offset of a file.
WriteAt(f, o, d) == SubSeq(f, 1, o) \o d \o SubSeq(f, o + Len(d) + 1, Len(f))

\* recv takes some of what has come, and write puts it into the file.
Receive(c) ==
  /\ cl[c] = "recv"
  /\ \E n \in 1..Lesser(BufSize, Len(wire[c])) :
       /\ local' = [local EXCEPT ![c] = WriteAt(@, rcvd[c], SubSeq(wire[c], 1, n))]
       /\ rcvd' = [rcvd EXCEPT ![c] = @ + n]
       /\ wire' = [wire EXCEPT ![c] = SubSeq(@, n + 1, Len(@))]
  /\ UNCHANGED <<serverVars, cl, ended>>

\* recv returns 0 or -1, whichever way the connection has ended.
Finish(c) ==
  /\ cl[c] = "recv" /\ wire[c] = <<>> /\ c \in ended
  /\ cl' = [cl EXCEPT ![c] = "done"]
  /\ UNCHANGED <<serverVars, local, rcvd, wire, ended>>

Leave(c) ==
  /\ c \in Leavers /\ cl[c] = "recv"
  /\ cl' = [cl EXCEPT ![c] = "gone"]
  /\ UNCHANGED <<serverVars, local, rcvd, wire, ended>>

ClientStep(c) == Receive(c) \/ Finish(c)

Next == ServerStep \/ \E c \in Clients : ClientStep(c) \/ Connect(c) \/ Leave(c)

Spec == Init /\ [][Next]_vars

-----------------------------------------------------------------------------
\* The values each variable takes; a connection holds no more than it can.
TypeOK ==
  /\ srv \in {"accept", "open", "read", "send", "close", "exited"}
  /\ cur \in Clients \cup {NoClient} /\ backlog \in Seq(Clients)
  /\ opened \in 0..MaxFiles /\ off \in 0..Len(File) /\ left \in Seq(Byte)
  /\ cl \in [Clients -> {"start", "recv", "done", "gone"}]
  /\ wire \in [Clients -> Seq(Byte)] /\ ended \subseteq Clients
  /\ \A c \in Clients : Len(wire[c]) <= Window
  /\ local \in [Clients -> Seq(Byte)]
  /\ rcvd \in [Clients -> Nat] /\ \A c \in Clients : rcvd[c] <= Len(local[c])

\* The end of an older file that is longer than what has been received.
OldTail(c) == SubSeq(Old[c], rcvd[c] + 1, Len(Old[c]))

(* transferserver.c:32-52, 136 with transferclient.c:80, 106-109.  However *)
(* sends and receives are cut, what a client has received, what is on its  *)
(* way and what the server has read but not sent add up to the file:       *)
(* nothing is lost, doubled or out of place.  A client that sees the end   *)
(* of its connection has the whole file, and behind it the end of a longer *)
(* older one: transferclient.c:80 does not truncate, so that size and      *)
(* contents match (pr1/README.md:457-459) only when there is none.         *)
(* When the server has exited, any client may end with a part of the file. *)
FileArrives ==
  /\ \A c \in Clients : SubSeq(local[c], 1, rcvd[c]) \o wire[c]
                          = SubSeq(File, 1, rcvd[c] + Len(wire[c]))
  /\ srv \in {"read", "send", "close"} =>
       SubSeq(local[cur], 1, rcvd[cur]) \o wire[cur] \o left = SubSeq(File, 1, off)
  /\ \A c \in Clients : cl[c] = "done" /\ srv # "exited" =>
       rcvd[c] = Len(File) /\ local[c] = File \o OldTail(c)
=============================================================================
