---------------------------- MODULE FileService ----------------------------
(***************************************************************************)
(* What a file server promises to its clients, whatever queues, threads    *)
(* and memory it has underneath: a worker is asked for a path, answers     *)
(* either with a 200 header that carries the length of the file or with a  *)
(* not-found header, sends the bytes of the file in order, and returns     *)
(* only when all of them have been sent, or the client has left.           *)
(* ShmCache (pr3/cache) and ServerPool (pr1/mtgf) both implement it; a     *)
(* "worker" is a thread of the proxy in one, a connection in the other.    *)
(***************************************************************************)
EXTENDS Integers, Sequences

CONSTANTS
  Workers,   \* threads that answer clients
  Leavers,   \* the threads whose client may leave before it has all
  Paths,     \* what a client may ask for
  Cached,    \* the paths the service has a file for
  File,      \* File[p] is the sequence of the bytes of the file at p
  OK,        \* GF_OK
  NotFound,  \* GF_FILE_NOT_FOUND
  NoHeader   \* no header sent yet

VARIABLES
  stage,     \* "idle", "asked", "sending" or "gone", for each worker
  want,      \* the path the worker is serving, or served last
  hdr,       \* the header sent to the client: <<status, length>>
  body       \* the bytes sent to the client

vars == <<stage, want, hdr, body>>

Init ==
  /\ stage = [w \in Workers |-> "idle"]
  /\ want \in [Workers -> Paths]
  /\ hdr = [w \in Workers |-> NoHeader]
  /\ body = [w \in Workers |-> <<>>]

\* A client asks worker w for p.
Ask(w, p) ==
  /\ stage[w] = "idle"
  /\ stage' = [stage EXCEPT ![w] = "asked"]
  /\ want' = [want EXCEPT ![w] = p]
  /\ hdr' = [hdr EXCEPT ![w] = NoHeader]
  /\ body' = [body EXCEPT ![w] = <<>>]

\* The file exists: its length is announced.
AnswerOK(w) ==
  /\ stage[w] = "asked"
  /\ want[w] \in Cached
  /\ stage' = [stage EXCEPT ![w] = "sending"]
  /\ hdr' = [hdr EXCEPT ![w] = <<OK, Len(File[want[w]])>>]
  /\ UNCHANGED <<want, body>>

\* There is no such file: that is the whole answer.
AnswerNotFound(w) ==
  /\ stage[w] = "asked"
  /\ want[w] \notin Cached
  /\ stage' = [stage EXCEPT ![w] = "idle"]
  /\ hdr' = [hdr EXCEPT ![w] = <<NotFound, 0>>]
  /\ UNCHANGED <<want, body>>

\* The next bytes of the file, at least one, go to the client.
Deliver(w) ==
  /\ stage[w] = "sending"
  /\ \E n \in (Len(body[w]) + 1)..Len(File[want[w]]) :
        body' = [body EXCEPT ![w] = SubSeq(File[want[w]], 1, n)]
  /\ UNCHANGED <<stage, want, hdr>>

\* The worker returns once the client has the whole file.
Return(w) ==
  /\ stage[w] = "sending"
  /\ body[w] = File[want[w]]
  /\ stage' = [stage EXCEPT ![w] = "idle"]
  /\ UNCHANGED <<want, hdr, body>>

\* The client has left: it gets nothing more.
Leave(w) ==
  /\ w \in Leavers /\ stage[w] \in {"asked", "sending"}
  /\ stage' = [stage EXCEPT ![w] = "gone"]
  /\ UNCHANGED <<want, hdr, body>>

Next ==
  \E w \in Workers :
    \/ \E p \in Paths : Ask(w, p)
    \/ AnswerOK(w)
    \/ AnswerNotFound(w)
    \/ Deliver(w)
    \/ Return(w)
    \/ Leave(w)

Spec == Init /\ [][Next]_vars
=============================================================================
