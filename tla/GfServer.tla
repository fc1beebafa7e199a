------------------------------ MODULE GfServer ------------------------------
(***************************************************************************)
(* The getfile server library of pr1/gflib, gfserver.c: one thread that    *)
(* accepts a client, receives its request once, and answers it or calls    *)
(* the handler, before it accepts the next one.                            *)
(*                                                                         *)
(* The handler (handler.o) is external: it looks its path up, sends a      *)
(* header and the file by gfs_send, and aborts when that falls short.      *)
(*                                                                         *)
(* Abstractions: a request is three words, whose ends of line strtok takes *)
(* off; one recv returns any start of it, cut between words or inside one; *)
(* a header is two pieces; the calls of gfs_send for one file are one      *)
(* call; the parsing of what was received is one step.                     *)
(***************************************************************************)
EXTENDS Integers, Sequences, FiniteSets

CONSTANTS
  Clients,
  Requests, \* what clients send: scheme, method and path
  CutTo,    \* what may be left of a word whose end has not arrived
  Leavers,  \* the clients that may close or reset their connection
  Contents, \* what a handler may find at "/": files, or NoFile
  NoFile,
  MaxFds,   \* how many connections the process may have open
  NoClient

ASSUME GfServerAssumption ==
  /\ IsFiniteSet(Clients) /\ NoClient \notin Clients /\ Leavers \subseteq Clients
  /\ \A q \in Requests : Len(q) = 3 /\ \A i \in 1..3 : q[i] \in DOMAIN CutTo
  /\ MaxFds \in Nat

VARIABLES
  st,       \* "accept", "recv", "send"; or "exited", "killed", "crashed"
  cur,      \* the client being served
  backlog,  \* the connections not accepted yet, oldest first
  conn,     \* each client's end: "none", "open", "closed" or "reset"
  written,  \* the words of its request that have arrived
  accepted, \* the clients that have been accepted
  aborted,  \* those whose socket gfs_abort has closed
  contexts, \* how many contexts are allocated
  left,     \* what gfs_send has to send still
  got       \* what each client has been sent

clientVars == <<backlog, conn, written>>
vars == <<st, cur, clientVars, accepted, aborted, contexts, left, got>>

Init ==
  /\ st = "accept" /\ cur = NoClient /\ backlog = <<>>
  /\ conn = [c \in Clients |-> "none"] /\ written = [c \in Clients |-> <<>>]
  /\ accepted = {} /\ aborted = {} /\ contexts = 0 /\ left = <<>>
  /\ got = [c \in Clients |-> <<>>]

-----------------------------------------------------------------------------
(* The clients                                                             *)

Connect(c) ==
  /\ conn[c] = "none"
  /\ conn' = [conn EXCEPT ![c] = "open"]
  /\ backlog' = Append(backlog, c)
  /\ UNCHANGED <<st, cur, written, accepted, aborted, contexts, left, got>>

\* The words that a start of request q makes: whole ones, and part of the next.
Starts(q) ==
  {SubSeq(q, 1, n) : n \in 1..3}
  \cup UNION {{Append(SubSeq(q, 1, n - 1), w) : w \in CutTo[q[n]]} : n \in 1..3}

\* What arrives first; the server never reads what comes later.
Write(c) ==
  /\ conn[c] = "open" /\ written[c] = <<>>
  /\ \E q \in Requests : \E w \in Starts(q) : written' = [written EXCEPT ![c] = w]
  /\ UNCHANGED <<st, cur, backlog, conn, accepted, aborted, contexts, left, got>>

Leave(c) ==
  /\ c \in Leavers /\ conn[c] = "open"
  /\ \E e \in {"closed", "reset"} : conn' = [conn EXCEPT ![c] = e]
  /\ UNCHANGED <<st, cur, backlog, written, accepted, aborted, contexts, left, got>>

-----------------------------------------------------------------------------
(* gfserver_serve                                                          *)

OpenFds == Cardinality(accepted \ aborted)

\* A context is allocated, and the oldest connection accepted.
Accept ==
  /\ st = "accept" /\ backlog # <<>> /\ OpenFds < MaxFds
  /\ st' = "recv" /\ cur' = Head(backlog) /\ backlog' = Tail(backlog)
  /\ accepted' = accepted \cup {Head(backlog)}
  /\ contexts' = contexts + 1
  /\ UNCHANGED <<conn, written, aborted, left, got>>

Stop(s) ==
  /\ st' = s
  /\ UNCHANGED <<cur, clientVars, accepted, aborted, contexts, left, got>>

\* accept fails once all descriptors are used, for none is ever closed.
AcceptFails == st = "accept" /\ backlog # <<>> /\ OpenFds = MaxFds /\ Stop("exited")

\* What recv returns: everything that has arrived.
Received == written[cur]

\* Back to accept; the socket stays open.
Done == st' = "accept" /\ cur' = NoClient

\* recv returns 0: the client has left without a word.
NoRequest ==
  /\ st = "recv" /\ Received = <<>> /\ conn[cur] = "closed" /\ Done
  /\ UNCHANGED <<clientVars, accepted, aborted, contexts, left, got>>

\* recv returns -1, which is more than 0 as a size_t: strtok finds no word in
\* the empty buffer, and strcmp gets a null pointer.
ReceiveFails == st = "recv" /\ Received = <<>> /\ conn[cur] = "reset" /\ Stop("crashed")

WrongMethod(q) == Len(q) >= 2 /\ q[2] # "GET"
WrongPath(q) == Len(q) >= 3 /\ q[3] # "/"

\* The tests of the words, in their order: a missing method is compared.
Refused(q) == q # <<>> /\ (q[1] # "GETFILE" \/ WrongMethod(q) \/ WrongPath(q))
NullMethod == st = "recv" /\ Len(Received) = 1 /\ ~Refused(Received) /\ Stop("crashed")

\* A missing path goes to the handler, which compares it with its keys.
NullPath == st = "recv" /\ Len(Received) = 2 /\ ~Refused(Received) /\ Stop("crashed")

\* What the server sends reaches a client that is there.
Sent(d) == got' = IF conn[cur] = "open" THEN [got EXCEPT ![cur] = @ \o d] ELSE got

\* One send: the answer's header, or as much of it as the send takes.
Header(s) == <<s, "eol">>
SendOnce(s) == \E n \in 1..2 : Sent(SubSeq(Header(s), 1, n))

\* Mutant: the inner loop goes on and waits for another request.
Invalid_NoBreak ==
  /\ st = "recv" /\ Refused(Received) /\ got[cur] = <<>>
  /\ SendOnce("INVALID")
  /\ UNCHANGED <<st, cur, clientVars, accepted, aborted, contexts, left>>

\* The context is not freed.
Invalid ==
  /\ st = "recv" /\ Refused(Received)
  /\ SendOnce("INVALID") /\ Done
  /\ UNCHANGED <<clientVars, accepted, aborted, contexts, left>>

-----------------------------------------------------------------------------
(* The handler, gfs_sendheader, gfs_send and gfs_abort                     *)

Handled == st = "recv" /\ Len(Received) >= 3 /\ ~Refused(Received)

\* The header is the whole answer; then the context is freed.
NotFound ==
  /\ Handled /\ NoFile \in Contents
  /\ SendOnce("FILE_NOT_FOUND") /\ Done
  /\ contexts' = contexts - 1
  /\ UNCHANGED <<clientVars, accepted, aborted, left>>

SendHeader ==
  /\ Handled
  /\ SendOnce("OK")
  /\ st' = "send" /\ left' \in Contents \ {NoFile}
  /\ UNCHANGED <<cur, clientVars, accepted, aborted, contexts>>

AfterSend_Once(n) == <<>>  \* mutant: a short send is taken for all of it
AfterSend(n) == SubSeq(left, n + 1, Len(left))

\* One send takes at least a byte, which a client that has closed does not get.
Send ==
  /\ st = "send" /\ left # <<>> /\ conn[cur] # "reset"
  /\ \E n \in 1..Len(left) : Sent(SubSeq(left, 1, n)) /\ left' = AfterSend(n)
  /\ UNCHANGED <<st, cur, clientVars, accepted, aborted, contexts>>

\* The client has left.  A later send to it raises SIGPIPE, whose default ends
\* the process; one that only fails makes the handler abort.
SendKills == st = "send" /\ left # <<>> /\ conn[cur] # "open" /\ Stop("killed")
SendFails ==
  /\ st = "send" /\ left # <<>> /\ conn[cur] # "open"
  /\ left' = <<>> /\ aborted' = aborted \cup {cur}
  /\ contexts' = contexts - 1 /\ Done
  /\ UNCHANGED <<clientVars, accepted, got>>

\* The handler returns, and the context is freed.
HandlerReturns ==
  /\ st = "send" /\ left = <<>> /\ Done
  /\ contexts' = contexts - 1
  /\ UNCHANGED <<clientVars, accepted, aborted, left, got>>

ServerStep ==
  \/ Accept \/ AcceptFails \/ NoRequest \/ ReceiveFails \/ Invalid \/ NullMethod \/ NullPath
  \/ NotFound \/ SendHeader \/ Send \/ SendKills \/ SendFails \/ HandlerReturns

Next == ServerStep \/ \E c \in Clients : Connect(c) \/ Write(c) \/ Leave(c)

Spec == Init /\ [][Next]_vars

\* The server runs; something of the request of each client arrives.
FairSpec == Spec /\ WF_vars(ServerStep) /\ \A c \in Clients : WF_vars(Write(c))

-----------------------------------------------------------------------------
\* The values each variable takes; in particular a client is served only
\* while its socket is open, and one context belongs to it.
TypeOK ==
  /\ st \in {"accept", "recv", "send", "exited", "killed", "crashed"}
  /\ cur \in Clients \cup {NoClient} /\ backlog \in Seq(Clients)
  /\ \A c \in Clients : written[c] = <<>> \/ \E q \in Requests : written[c] \in Starts(q)
  /\ conn \in [Clients -> {"none", "open", "closed", "reset"}]
  /\ accepted \subseteq Clients /\ aborted \subseteq accepted
  /\ contexts \in Nat /\ (cur # NoClient => cur \in accepted \ aborted /\ contexts > 0)
  /\ left # <<>> => cur # NoClient

\* The answers to what has been received: a header, or what one send took of
\* it, and for a right request the whole file.
Headers(s) == {SubSeq(Header(s), 1, n) : n \in 1..2}
Answers(c) ==
  IF written[c] # <<"GETFILE", "GET", "/">> THEN Headers("INVALID")
  ELSE {h \o f : h \in Headers("OK"), f \in Contents \ {NoFile}}
       \cup (IF NoFile \in Contents THEN Headers("FILE_NOT_FOUND") ELSE {})

(* gfserver.c:38-48, 121-152.  When the server has turned to the next      *)
(* client, the last one has the answer to the words that the one recv      *)
(* returned, and all of its file however little each send took; before, it *)
(* has a part of that.  A right request cut inside a word is a wrong one   *)
(* here, and "/file" cut behind the slash is "/".                          *)
AnswerIsWhole ==
  \A c \in Clients : conn[c] = "open" =>
    /\ \E a \in Answers(c) : Len(got[c]) <= Len(a) /\ got[c] = SubSeq(a, 1, Len(got[c]))
    /\ c \in accepted /\ c # cur => got[c] \in Answers(c)

\* The process has ended: it ran out of descriptors, a client left, or what
\* was received had no method or path.
Over == st \in {"exited", "killed", "crashed"}

(* gfserver.c:120-152.  As long as the process lives it comes to the end   *)
(* of every client that connects, and never waits for one it has refused.  *)
EveryClientServed ==
  \A c \in Clients : (conn[c] = "open") ~> ((c \in accepted /\ c # cur) \/ Over)
=============================================================================
