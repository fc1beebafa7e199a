----------------------------- MODULE ServerPool -----------------------------
(***************************************************************************)
(* The multithreaded Getfile server of pr1/mtgf: the boss thread runs the  *)
(* library's accept loop, whose handler (handler.c) puts each request in a *)
(* queue; worker threads (gfserver_main.c) take requests and send files.   *)
(*                                                                         *)
(* The library, gfserver.o, is external: it accepts a connection, calls    *)
(* the handler with its path, and gfs_send sends all it is given, or       *)
(* returns -1 once the client has left.                                    *)
(*                                                                         *)
(* Abstractions: a critical section is one step; content_get is a look-up; *)
(* fstat of an open file does not fail; a worker runs pread and gfs_send   *)
(* as one step.                                                            *)
(***************************************************************************)
EXTENDS Integers, Sequences, FiniteSets

CONSTANTS
  Workers,    \* the threads made by set_pthreads
  Requests,   \* the connections of clients
  Leavers,    \* the clients that may leave before they are answered
  Paths,      \* what a client may ask for
  Cached,     \* the keys of content.txt
  Byte,       \* the values of a byte
  File,       \* File[p]: the bytes of the file that key p names
  BufSize,    \* BUFSIZE, the size of a worker's buffer
  SizeMod,    \* 2^64, the modulus of size_t
  NoHeader,   \* no header sent yet
  NoRequest,  \* no connection
  NoFile      \* no descriptor

ASSUME ServerAssumption ==
  /\ Workers # {} /\ IsFiniteSet(Workers)
  /\ Leavers \subseteq Requests
  /\ Cached \subseteq Paths /\ NoFile \notin Paths
  /\ NoRequest \notin Requests
  /\ NoHeader \notin Nat \X Nat
  /\ File \in [Cached -> Seq(Byte)]
  /\ BufSize \in Nat \ {0}
  /\ SizeMod \in Nat \ {0}
  /\ \A p \in Cached : Len(File[p]) < SizeMod - 1

VARIABLES
  boss,       \* where the boss is
  accepted,   \* the connection the boss handles
  work_queue, \* requests, oldest first
  want,       \* the path each client asked for
  conn,       \* each connection: "new", "open" or "closed"
  gone,       \* the clients that have left
  hdr,        \* the header each client has received
  body,       \* the bytes each client has received
  pc,         \* where each worker is
  req,        \* its req
  file,       \* its fd, named by the key it belongs to
  total       \* its total_bts_sent

clientVars == <<want, conn, gone, hdr, body>>
vars == <<boss, accepted, work_queue, clientVars, pc, req, file, total>>

GF_OK == 200
GF_FILE_NOT_FOUND == 400

Lesser(a, b) == IF a < b THEN a ELSE b

Init ==
  /\ boss = "accept"
  /\ accepted = NoRequest
  /\ work_queue = <<>>
  /\ want \in [Requests -> Paths]
  /\ conn = [r \in Requests |-> "new"]
  /\ gone = {}
  /\ hdr = [r \in Requests |-> NoHeader]
  /\ body = [r \in Requests |-> <<>>]
  /\ pc = [w \in Workers |-> "test"]
  /\ req = [w \in Workers |-> NoRequest]
  /\ file = [w \in Workers |-> NoFile]
  /\ total = [w \in Workers |-> 0]

Sleepers == {w \in Workers : pc[w] = "sleep"}

\* pthread_cond_signal wakes one sleeper, whichever it is, if there is one;
\* p is where the workers are otherwise.
Signal(p) ==
  \/ Sleepers = {} /\ pc' = p
  \/ \E w \in Sleepers : pc' = [p EXCEPT ![w] = "test"]

\* pthread_cond_wait may return for no reason.
SpuriousWakeup ==
  /\ \E w \in Sleepers : pc' = [pc EXCEPT ![w] = "test"]
  /\ UNCHANGED <<boss, accepted, work_queue, clientVars, req, file, total>>

-----------------------------------------------------------------------------
(* The boss: gfserver_serve and gfs_handler                                *)

\* The library accepts client r and parses its request.
Accept(r) ==
  /\ boss = "accept"
  /\ boss' = "handler"
  /\ conn[r] = "new"
  /\ conn' = [conn EXCEPT ![r] = "open"]
  /\ accepted' = r
  /\ UNCHANGED <<work_queue, want, gone, hdr, body, pc, req, file, total>>

\* A client closes its end.
Leave(r) ==
  /\ r \in Leavers \ gone /\ conn[r] = "open"
  /\ gone' = gone \cup {r}
  /\ UNCHANGED <<boss, accepted, work_queue, want, conn, hdr, body, pc, req, file, total>>

\* gfs_handler: a steque_request is enqueued, under the mutex.
Handler ==
  /\ boss = "handler"
  /\ boss' = "signal"
  /\ work_queue' = Append(work_queue, accepted)
  /\ UNCHANGED <<accepted, clientVars, pc, req, file, total>>

\* The signal after the unlock; the context now belongs to the worker, and
\* the library goes back to accept.
SignalHandled ==
  /\ boss = "signal"
  /\ boss' = "accept"
  /\ accepted' = NoRequest
  /\ Signal(pc)
  /\ UNCHANGED <<work_queue, clientVars, req, file, total>>

BossStep == Handler \/ SignalHandled

-----------------------------------------------------------------------------
(* A worker: thread_handle_req                                             *)

Goto(w, from, to) == pc[w] = from /\ pc' = [pc EXCEPT ![w] = to]

\* Under the mutex: the queue is empty.
Sleep(w) ==
  /\ Goto(w, "test", "sleep")
  /\ work_queue = <<>>
  /\ UNCHANGED <<boss, accepted, work_queue, clientVars, req, file, total>>

\* Mutant: steque_front in place of steque_pop.
Take_Front(w) ==
  /\ Goto(w, "test", "signal")
  /\ work_queue # <<>>
  /\ req' = [req EXCEPT ![w] = Head(work_queue)]
  /\ UNCHANGED <<boss, accepted, work_queue, clientVars, file, total>>

\* Under the mutex: the oldest request is taken.
Take(w) ==
  /\ Goto(w, "test", "signal")
  /\ work_queue # <<>>
  /\ req' = [req EXCEPT ![w] = Head(work_queue)]
  /\ work_queue' = Tail(work_queue)
  /\ UNCHANGED <<boss, accepted, clientVars, file, total>>

\* The signal after the unlock.
SignalTaken(w) ==
  /\ pc[w] = "signal"
  /\ Signal([pc EXCEPT ![w] = "get"])
  /\ UNCHANGED <<boss, accepted, work_queue, clientVars, req, file, total>>

Found_Any(w) == want[req[w]] \in Paths  \* mutant: no test for -1
Found(w) == want[req[w]] \in Cached

\* content_get finds the file; it stays open for every worker that finds it.
ContentFound(w) ==
  /\ Goto(w, "get", "fstat")
  /\ Found(w)
  /\ file' = [file EXCEPT ![w] = want[req[w]]]
  /\ UNCHANGED <<boss, accepted, work_queue, clientVars, req, total>>

\* gfs_sendheader reaches a client that is still there.
HeaderSent(r, h) == hdr' = IF r \in gone THEN hdr ELSE [hdr EXCEPT ![r] = h]

\* content_get finds nothing: the answer is a header, and the break leaves
\* the for loop, so that the thread ends.
ContentMissing(w) ==
  /\ Goto(w, "get", "exited")
  /\ ~Found(w)
  /\ HeaderSent(req[w], <<GF_FILE_NOT_FOUND, 0>>)
  /\ conn' = [conn EXCEPT ![req[w]] = "closed"]
  /\ req' = [req EXCEPT ![w] = NoRequest]
  /\ UNCHANGED <<boss, accepted, work_queue, want, gone, body, file, total>>

FileLen(w) == Len(File[file[w]])

\* fstat gives the length, and the header goes out.
SendHeader(w) ==
  /\ Goto(w, "fstat", "send")
  /\ HeaderSent(req[w], <<GF_OK, FileLen(w)>>)
  /\ total' = [total EXCEPT ![w] = 0]
  /\ UNCHANGED <<boss, accepted, work_queue, want, conn, gone, body, req, file>>

\* Mutant: read in place of pread at total_bts_sent.
Chunk_NoOffset(w) == SubSeq(File[file[w]], 1, Lesser(BufSize, FileLen(w)))
\* What pread returns at total_bts_sent.
Chunk(w) == SubSeq(File[file[w]], total[w] + 1, Lesser(total[w] + BufSize, FileLen(w)))

\* total_bts_sent after a turn: gfs_send returned the length of the chunk,
\* or -1, which is added modulo 2^64.
Counted_Zero(w) == IF req[w] \in gone THEN total[w] ELSE total[w] + Len(Chunk(w)) \* mutant
Counted(w) == IF req[w] \in gone THEN (total[w] + SizeMod - 1) % SizeMod
              ELSE total[w] + Len(Chunk(w))

\* One turn of the do loop: pread, and gfs_send unless nothing was read.
SendChunk(w) ==
  /\ Goto(w, "send", IF Chunk(w) # <<>> /\ FileLen(w) > Counted(w) THEN "send" ELSE "free")
  /\ body' = IF req[w] \in gone THEN body
             ELSE [body EXCEPT ![req[w]] = body[req[w]] \o Chunk(w)]
  /\ total' = IF Chunk(w) = <<>> THEN total ELSE [total EXCEPT ![w] = Counted(w)]
  /\ UNCHANGED <<boss, accepted, work_queue, want, conn, gone, hdr, req, file>>

\* free(req), and around the for loop.
Free(w) ==
  /\ Goto(w, "free", "test")
  /\ conn' = [conn EXCEPT ![req[w]] = "closed"]
  /\ req' = [req EXCEPT ![w] = NoRequest]
  /\ UNCHANGED <<boss, accepted, work_queue, want, gone, hdr, body, file, total>>

WorkerStep(w) ==
  \/ Sleep(w) \/ Take(w) \/ SignalTaken(w) \/ ContentFound(w) \/ ContentMissing(w)
  \/ SendHeader(w) \/ SendChunk(w) \/ Free(w)

Next ==
  \/ \E r \in Requests : Accept(r) \/ Leave(r)
  \/ BossStep
  \/ \E w \in Workers : WorkerStep(w)
  \/ SpuriousWakeup

Spec == Init /\ [][Next]_vars

\* Threads that can run do run; clients and spurious wakeups need not come.
FairSpec ==
  /\ Spec
  /\ WF_vars(BossStep)
  /\ \A w \in Workers : WF_vars(WorkerStep(w))

-----------------------------------------------------------------------------
WorkerStates == {"test", "sleep", "signal", "get", "fstat", "send", "free", "exited"}
Header == {NoHeader, <<GF_FILE_NOT_FOUND, 0>>} \cup ({GF_OK} \X Nat)

\* The values each variable takes.
TypeOK ==
  /\ boss \in {"accept", "handler", "signal"}
  /\ accepted \in Requests \cup {NoRequest}
  /\ accepted = NoRequest <=> boss = "accept"
  /\ work_queue \in Seq(Requests)
  /\ want \in [Requests -> Paths]
  /\ conn \in [Requests -> {"new", "open", "closed"}]
  /\ gone \subseteq Leavers
  /\ hdr \in [Requests -> Header]
  /\ body \in [Requests -> Seq(Byte)]
  /\ pc \in [Workers -> WorkerStates]
  /\ req \in [Workers -> Requests \cup {NoRequest}]
  /\ \A w \in Workers : req[w] = NoRequest <=> pc[w] \in {"test", "sleep", "exited"}
  /\ file \in [Workers -> Cached \cup {NoFile}]
  /\ \A w \in Workers : pc[w] \in {"fstat", "send"} => file[w] # NoFile
  /\ total \in [Workers -> 0..(SizeMod - 1)]

\* Request r is with the boss, not in the queue yet.
WithBoss(r) == boss = "handler" /\ r = accepted

(* handler.c:22-34, gfserver_main.c:148-156.  A connection that waits for  *)
(* its answer is with the boss, in the queue, or with a worker, in one of  *)
(* these places and once: none is forgotten and none is served twice.      *)
EachRequestOnce ==
  /\ \A r \in Requests : conn[r] = "open" =>
       \/ WithBoss(r)
       \/ \E i \in 1..Len(work_queue) : work_queue[i] = r
       \/ \E w \in Workers : req[w] = r
  /\ \A i, j \in 1..Len(work_queue) : work_queue[i] = work_queue[j] => i = j
  /\ \A i \in 1..Len(work_queue) : conn[work_queue[i]] = "open" /\ ~WithBoss(work_queue[i])
  /\ \A w \in Workers : req[w] # NoRequest =>
       /\ conn[req[w]] = "open" /\ ~WithBoss(req[w])
       /\ \A i \in 1..Len(work_queue) : work_queue[i] # req[w]
       /\ \A v \in Workers : req[v] = req[w] => v = w
  /\ boss = "handler" => conn[accepted] = "open"

\* What a client sees of its connection.
Stage(r) == IF r \in gone THEN "gone"
            ELSE IF conn[r] # "open" THEN "idle"
            ELSE IF hdr[r] = NoHeader THEN "asked" ELSE "sending"

Service == INSTANCE FileService WITH
  Workers <- Requests, stage <- [r \in Requests |-> Stage(r)],
  OK <- GF_OK, NotFound <- GF_FILE_NOT_FOUND

(* handler.c:21-36, gfserver_main.c:133-197.  Boss, queue and workers      *)
(* together do no more than the file service: whatever the interleaving, a *)
(* client gets the header and the bytes of its own file, in order and      *)
(* complete if it stays, although the send loop counts a -1 as progress.   *)
ImplementsFileService == Service!Spec

(* gfserver_main.c:141-197.  No connection waits while a worker lives:     *)
(* each one that is accepted comes to its end, whoever else leaves, unless *)
(* requests for missing files have ended every worker first (:165-168).    *)
EveryRequestEnds ==
  \A r \in Requests :
    (conn[r] = "open") ~> (conn[r] = "closed" \/ \A w \in Workers : pc[w] = "exited")
=============================================================================
