------------------------------ MODULE ShmCache ------------------------------
(***************************************************************************)
(* The caching proxy of pr3/cache.  Worker threads of the proxy process    *)
(* (handle_with_cache.c) and worker threads of the cache daemon            *)
(* (simplecached.c) talk through a POSIX message queue that carries        *)
(* requests and through shared memory segments that carry answers.  A      *)
(* proxy worker takes a segment from a FIFO of free segments, lends it to  *)
(* whichever daemon worker receives its request, and both then alternate   *)
(* on it with three semaphores until the file has been copied.  Nothing    *)
(* but this protocol protects the contents of a segment.                   *)
(*                                                                         *)
(* Abstractions: a critical section of shm_mutex is one step; the bytes    *)
(* of a file are abstract values; mq_open, shm_open, mmap and ftruncate    *)
(* succeed, pread gives all that is there, nothing, or fails, and printing *)
(* is left out.                                                            *)
(***************************************************************************)
EXTENDS Integers, Sequences

CONSTANTS
  Workers,    \* threads of the proxy that run handle_with_cache
  Daemons,    \* threads of simplecached that run workerRoutine
  NSegments,  \* -n of the proxy: how many segments initSharedMemory makes
  Paths,      \* what a client may ask for
  Cached,     \* the keys of locals.txt
  Byte,       \* the values of a byte
  File,       \* File[p]: the bytes of the file that key p names
  SegSize,    \* -z of the proxy: bytes of data in a segment
  MaxMsg,     \* mq_maxmsg
  SizeMod,    \* 2^64, the modulus of size_t
  SendErrors, \* what gfs_send may return instead of the full length
  ReadErrors, \* what pread may return instead of the full length: 0, -1
  NoHeader    \* no header sent yet

ASSUME FileAssumption ==
  /\ Paths # {} /\ Cached \subseteq Paths
  /\ File \in [Cached -> Seq(Byte)]
ASSUME SizeAssumption ==
  /\ NSegments \in Nat \ {0}
  /\ SegSize \in Nat \ {0}
  /\ MaxMsg \in Nat \ {0}
  /\ SizeMod \in Nat \ {0}
  /\ SegSize < SizeMod
  /\ \A p \in Cached : Len(File[p]) < SizeMod - 1
ASSUME SendAssumption == SendErrors \subseteq {e \in Int : -1 <= e /\ e < SegSize}
ASSUME ReadAssumption == ReadErrors \subseteq {0, -1}
ASSUME HeaderAssumption == NoHeader \notin Nat \X Nat

VARIABLES
  shm_queue,   \* FIFO of the free segments
  pc,          \* where each proxy worker is
  path,        \* the path it serves, or served last
  seg,         \* its local sharemem: the segment it holds
  transferred, \* its local bytes_transferred
  hdr,         \* the header its client has received
  body,        \* the bytes its client has received
  mq,          \* the message queue, oldest request first
  sem,         \* the three semaphores of each segment
  shm,         \* the plain fields of each segment
  dpc,         \* where each daemon worker is
  req,         \* its local mq_msg
  bytes_read   \* its local bytes_read, which equals offset

workerVars == <<pc, path, seg, transferred, hdr, body>>
daemonVars == <<dpc, req, bytes_read>>
vars == <<shm_queue, pc, path, seg, transferred, hdr, body, mq, sem, shm,
          dpc, req, bytes_read>>

\* The segments, in the order in which initSharedMemory makes them.
Segments == 1..NSegments
NoSeg == 0

GF_OK == 200
GF_FILE_NOT_FOUND == 400

Lesser(a, b) == IF a < b THEN a ELSE b

\* Conversion of a small signed number to size_t, and addition in size_t.
ToSize(n) == IF n < 0 THEN n + SizeMod ELSE n
AddSize(a, b) == IF a + b < SizeMod THEN a + b ELSE a + b - SizeMod

Request == [path : Paths, seg : Segments]

\* Locals that are set before they are read start with any value.
AnyPath == CHOOSE p \in Paths : TRUE

Init ==
  /\ shm_queue = [m \in Segments |-> m]
  /\ pc = [w \in Workers |-> "idle"]
  /\ path = [w \in Workers |-> AnyPath]
  /\ seg = [w \in Workers |-> NoSeg]
  /\ transferred = [w \in Workers |-> 0]
  /\ hdr = [w \in Workers |-> NoHeader]
  /\ body = [w \in Workers |-> <<>>]
  /\ mq = <<>>
  /\ sem = [s \in Segments |-> [filelen |-> 0, proxy |-> 0, cache |-> 0]]
  /\ shm = [s \in Segments |->
              [status |-> 0, filesize |-> 0, read_len |-> 0, data |-> <<>>]]
  /\ dpc = [d \in Daemons |-> "receive"]
  /\ req = [d \in Daemons |-> [path |-> AnyPath, seg |-> 1]]
  /\ bytes_read = [d \in Daemons |-> 0]

-----------------------------------------------------------------------------
(* The proxy worker: handle_with_cache, processResponse, queueMemory.      *)

Goto(w, from, to) == pc[w] = from /\ pc' = [pc EXCEPT ![w] = to]

\* The library calls handle_with_cache for a request of a new client.
Ask(w, p) ==
  /\ Goto(w, "idle", "get")
  /\ path' = [path EXCEPT ![w] = p]
  /\ hdr' = [hdr EXCEPT ![w] = NoHeader]
  /\ body' = [body EXCEPT ![w] = <<>>]
  /\ UNCHANGED <<shm_queue, seg, transferred, mq, sem, shm, daemonVars>>

\* Under shm_mutex: the queue is empty, and pthread_cond_wait releases the
\* mutex and sleeps.
AwaitSegment(w) ==
  /\ Goto(w, "get", "cond_wait")
  /\ shm_queue = <<>>
  /\ UNCHANGED <<shm_queue, path, seg, transferred, hdr, body, mq, sem, shm, daemonVars>>

\* Mutant: steque_front in place of steque_pop.
GetSegment_Front(w) ==
  /\ Goto(w, "get", "popped")
  /\ shm_queue # <<>>
  /\ seg' = [seg EXCEPT ![w] = Head(shm_queue)]
  /\ UNCHANGED <<shm_queue, path, transferred, hdr, body, mq, sem, shm, daemonVars>>

\* Under shm_mutex: the first free segment is taken.
GetSegment(w) ==
  /\ Goto(w, "get", "popped")
  /\ shm_queue # <<>>
  /\ seg' = [seg EXCEPT ![w] = Head(shm_queue)]
  /\ shm_queue' = Tail(shm_queue)
  /\ UNCHANGED <<path, transferred, hdr, body, mq, sem, shm, daemonVars>>

\* pthread_cond_wait may return without a broadcast: the while loop tests again.
SpuriousWakeup(w) ==
  /\ Goto(w, "cond_wait", "get")
  /\ UNCHANGED <<shm_queue, path, seg, transferred, hdr, body, mq, sem, shm, daemonVars>>

\* Where a worker that broadcasts shm_cond goes next.
AfterBroadcast(from) == IF from = "popped" THEN "init"
                        ELSE IF from = "queued" THEN "idle" ELSE "header404"
Broadcasting(w) == pc[w] \in {"popped", "queued", "queued404"}

\* pthread_cond_broadcast, after the mutex has been released.
Broadcast(w) ==
  /\ Broadcasting(w)
  /\ pc' = [v \in Workers |->
              IF v = w THEN AfterBroadcast(pc[w])
              ELSE IF pc[v] = "cond_wait" THEN "get" ELSE pc[v]]
  /\ UNCHANGED <<shm_queue, path, seg, transferred, hdr, body, mq, sem, shm, daemonVars>>

\* The daemon may fill the segment first, the proxy waits for both answers.
FreshSems_Two == [filelen |-> 0, proxy |-> 0, cache |-> 2]   \* mutants
FreshSems_Closed == [filelen |-> 0, proxy |-> 0, cache |-> 0]
FreshSems == [filelen |-> 0, proxy |-> 0, cache |-> 1]

\* The three semaphores of the segment get their starting values.
InitSems(w) ==
  /\ Goto(w, "init", "request")
  /\ sem' = [sem EXCEPT ![seg[w]] = FreshSems]
  /\ UNCHANGED <<shm_queue, path, seg, transferred, hdr, body, mq, shm, daemonVars>>

\* mq_send blocks while the queue is full.
SendRequest(w) ==
  /\ Goto(w, "request", "filelen")
  /\ Len(mq) < MaxMsg
  /\ mq' = Append(mq, [path |-> path[w], seg |-> seg[w]])
  /\ UNCHANGED <<shm_queue, path, seg, transferred, hdr, body, sem, shm, daemonVars>>

\* sem_wait(filelen_sem), then the test of status.  The daemon only stores
\* 200 or 404: the final return 0 is never reached.
AwaitFileLen(w) ==
  /\ pc[w] = "filelen"
  /\ sem[seg[w]].filelen > 0
  /\ sem' = [sem EXCEPT ![seg[w]].filelen = @ - 1]
  /\ pc' = [pc EXCEPT ![w] = IF shm[seg[w]].status = 200 THEN "header" ELSE "finish404"]
  /\ UNCHANGED <<shm_queue, path, seg, transferred, hdr, body, mq, shm, daemonVars>>

\* gfs_sendheader(GF_OK) with the length the daemon left in the segment.
SendHeader(w) ==
  /\ Goto(w, "header", "loop")
  /\ hdr' = [hdr EXCEPT ![w] = <<GF_OK, shm[seg[w]].filesize>>]
  /\ transferred' = [transferred EXCEPT ![w] = 0]
  /\ UNCHANGED <<shm_queue, path, seg, body, mq, sem, shm, daemonVars>>

MoreToSend(w) == transferred[w] < shm[seg[w]].filesize

\* The test of the while loop; filesize is read from the segment each time.
LoopTest(w) ==
  /\ pc[w] = "loop"
  /\ pc' = [pc EXCEPT ![w] = IF MoreToSend(w) THEN "proxysem" ELSE "finish"]
  /\ UNCHANGED <<shm_queue, path, seg, transferred, hdr, body, mq, sem, shm, daemonVars>>

\* sem_wait(proxysem): the daemon has filled the segment.
AwaitChunk(w) ==
  /\ Goto(w, "proxysem", "send")
  /\ sem[seg[w]].proxy > 0
  /\ sem' = [sem EXCEPT ![seg[w]].proxy = @ - 1]
  /\ UNCHANGED <<shm_queue, path, seg, transferred, hdr, body, mq, shm, daemonVars>>

\* What gfs_send may return for n bytes, of which m are in the segment: only
\* a read_len that was -1 in the daemon is more.
SendResults(n, m) == {e \in SendErrors : e < n /\ e <= m} \cup (IF n <= m THEN {n} ELSE {})

\* gfs_send returned r, stored in the size_t bytes_sent: the test for an
\* error is true of 0 only, and a negative r is added modulo 2^64.
SendChunk(w) ==
  /\ pc[w] = "send"
  /\ \E r \in SendResults(shm[seg[w]].read_len, Len(shm[seg[w]].data)) :
    /\ Goto(w, "send", IF r = 0 THEN "finish" ELSE "post")
    /\ body' = IF r > 0 THEN [body EXCEPT ![w] = @ \o SubSeq(shm[seg[w]].data, 1, r)]
                        ELSE body
    /\ transferred' = [transferred EXCEPT ![w] = AddSize(@, ToSize(r))]
    /\ UNCHANGED <<shm_queue, path, seg, hdr, mq, sem, shm, daemonVars>>

\* sem_post(cachesem): the daemon may fill the segment again.
PostCache(w) ==
  /\ Goto(w, "post", "loop")
  /\ sem' = [sem EXCEPT ![seg[w]].cache = @ + 1]
  /\ UNCHANGED <<shm_queue, path, seg, transferred, hdr, body, mq, shm, daemonVars>>

\* queueMemory: two fields are cleared and the segment is free again.  The
\* not-found answer goes out only after that.
AfterQueue_Silent(from) == IF from = "finish" THEN "idle" ELSE "header404" \* mutant
AfterQueue(from) == IF from = "finish" THEN "queued" ELSE "queued404"
QueueMemory(w) ==
  /\ pc[w] \in {"finish", "finish404"}
  /\ pc' = [pc EXCEPT ![w] = AfterQueue(@)]
  /\ shm' = [shm EXCEPT ![seg[w]] = [@ EXCEPT !.read_len = 0, !.filesize = 0]]
  /\ shm_queue' = Append(shm_queue, seg[w])
  /\ seg' = [seg EXCEPT ![w] = NoSeg]
  /\ UNCHANGED <<path, transferred, hdr, body, mq, sem, daemonVars>>

\* gfs_sendheader(GF_FILE_NOT_FOUND) is the whole answer.
SendNotFound(w) ==
  /\ Goto(w, "header404", "idle")
  /\ hdr' = [hdr EXCEPT ![w] = <<GF_FILE_NOT_FOUND, 0>>]
  /\ UNCHANGED <<shm_queue, path, seg, transferred, body, mq, sem, shm, daemonVars>>

\* The steps a worker takes once it has been called.
WorkerStep(w) ==
  \/ AwaitSegment(w) \/ GetSegment(w) \/ Broadcast(w) \/ InitSems(w)
  \/ SendRequest(w) \/ AwaitFileLen(w) \/ SendHeader(w) \/ LoopTest(w)
  \/ AwaitChunk(w) \/ SendChunk(w) \/ PostCache(w) \/ QueueMemory(w)
  \/ SendNotFound(w)

-----------------------------------------------------------------------------
(* The daemon worker: workerRoutine and sendResponse.                      *)

DGoto(d, from, to) == dpc[d] = from /\ dpc' = [dpc EXCEPT ![d] = to]

\* Its local filsize, from lseek on the open file.
Filsize(d) == Len(File[req[d].path])

\* Mutant: read where pread always starts at the beginning.
Chunk_NoOffset(d) == SubSeq(File[req[d].path], 1, Lesser(SegSize, Filsize(d)))

\* What pread returns at offset bytes_read: the file does not change.
Chunk(d) ==
  SubSeq(File[req[d].path], bytes_read[d] + 1, Lesser(bytes_read[d] + SegSize, Filsize(d)))

\* mq_receive, then simplecache_get and the mapping of the segment.
Receive(d) ==
  /\ DGoto(d, "receive", "reply")
  /\ mq # <<>>
  /\ req' = [req EXCEPT ![d] = Head(mq)]
  /\ mq' = Tail(mq)
  /\ UNCHANGED <<shm_queue, workerVars, sem, shm, bytes_read>>

\* The answer's length and status; -1 stored in the size_t filesize.
Reply(d) ==
  /\ DGoto(d, "reply", "postlen")
  /\ shm' = [shm EXCEPT ![req[d].seg] =
               IF req[d].path \in Cached
               THEN [@ EXCEPT !.filesize = Filsize(d), !.status = 200]
               ELSE [@ EXCEPT !.filesize = ToSize(-1), !.status = 404]]
  /\ UNCHANGED <<shm_queue, workerVars, mq, sem, req, bytes_read>>

\* Where the daemon goes when n bytes of the file have been copied.
NextCopy_AtMost(d, n) == IF n <= Filsize(d) THEN "cachesem" ELSE "receive" \* mutant
NextCopy(d, n) == IF n < Filsize(d) THEN "cachesem" ELSE "receive"

\* Mutant: no else, the answer that there is no file goes on to the copy loop.
PostFileLen_NoElse(d) ==
  /\ DGoto(d, "postlen", IF req[d].path \in Cached THEN NextCopy(d, 0) ELSE "cachesem")
  /\ sem' = [sem EXCEPT ![req[d].seg].filelen = @ + 1]
  /\ bytes_read' = [bytes_read EXCEPT ![d] = 0]
  /\ UNCHANGED <<shm_queue, workerVars, mq, shm, req>>

\* sem_post(filelen_sem); a file goes on to the copy loop if it has bytes.
PostFileLen(d) ==
  /\ DGoto(d, "postlen", IF req[d].path \in Cached THEN NextCopy(d, 0) ELSE "receive")
  /\ sem' = [sem EXCEPT ![req[d].seg].filelen = @ + 1]
  /\ bytes_read' = [bytes_read EXCEPT ![d] = 0]
  /\ UNCHANGED <<shm_queue, workerVars, mq, shm, req>>

\* sem_wait(cachesem): the proxy worker has sent the last chunk.
AwaitCache(d) ==
  /\ DGoto(d, "cachesem", "copy")
  /\ sem[req[d].seg].cache > 0
  /\ sem' = [sem EXCEPT ![req[d].seg].cache = @ - 1]
  /\ UNCHANGED <<shm_queue, workerVars, mq, shm, req, bytes_read>>

\* memcpy of s to the start of t.
Overwrite(t, s) == s \o SubSeq(t, Len(s) + 1, Len(t))

\* The next chunk is copied over the start of the segment's data.
Copy(d) ==
  /\ DGoto(d, "copy", "postproxy")
  /\ shm' = [shm EXCEPT ![req[d].seg] =
               [@ EXCEPT !.read_len = Len(Chunk(d)),
                         !.data = Overwrite(shm[req[d].seg].data, Chunk(d))]]
  /\ bytes_read' = [bytes_read EXCEPT ![d] = @ + Len(Chunk(d))]
  /\ UNCHANGED <<shm_queue, workerVars, mq, sem, req>>

\* pread returned 0: the loop is left, and the proxy is not told.
ReadNothing(d) ==
  /\ 0 \in ReadErrors
  /\ DGoto(d, "copy", "receive")
  /\ UNCHANGED <<shm_queue, workerVars, mq, sem, shm, req, bytes_read>>

\* pread returned -1, a size_t above 0: it is stored in read_len, and the
\* memcpy of so many bytes ends the process with all its threads.
ReadFails(d) ==
  /\ -1 \in ReadErrors
  /\ dpc[d] = "copy" /\ dpc' = [e \in Daemons |-> "crashed"]
  /\ shm' = [shm EXCEPT ![req[d].seg].read_len = ToSize(-1)]
  /\ UNCHANGED <<shm_queue, workerVars, mq, sem, req, bytes_read>>

\* sem_post(proxysem), and around the loop.
PostProxy(d) ==
  /\ DGoto(d, "postproxy", NextCopy(d, bytes_read[d]))
  /\ sem' = [sem EXCEPT ![req[d].seg].proxy = @ + 1]
  /\ UNCHANGED <<shm_queue, workerVars, mq, shm, req, bytes_read>>

DaemonStep(d) ==
  \/ Receive(d) \/ Reply(d) \/ PostFileLen(d)
  \/ AwaitCache(d) \/ Copy(d) \/ ReadNothing(d) \/ ReadFails(d) \/ PostProxy(d)

-----------------------------------------------------------------------------
Next ==
  \/ \E w \in Workers :
       \/ \E p \in Paths : Ask(w, p)
       \/ SpuriousWakeup(w)
       \/ WorkerStep(w)
  \/ \E d \in Daemons : DaemonStep(d)

Spec == Init /\ [][Next]_vars

\* Every thread keeps running, and of the threads that mq_send has blocked
\* none is passed over for ever; clients and spurious wakeups need not come.
FairSpec ==
  /\ Spec
  /\ \A w \in Workers : WF_vars(WorkerStep(w)) /\ SF_vars(SendRequest(w))
  /\ \A d \in Daemons : WF_vars(DaemonStep(d))

-----------------------------------------------------------------------------
ProxyStates ==
  {"idle", "get", "cond_wait", "popped", "init", "request", "filelen", "header",
   "loop", "proxysem", "send", "post", "finish", "queued",
   "finish404", "queued404", "header404"}
HoldingStates ==
  {"popped", "init", "request", "filelen", "header", "loop", "proxysem", "send",
   "post", "finish", "finish404"}
DaemonStates == {"receive", "reply", "postlen", "cachesem", "copy", "postproxy",
                 "crashed"}

Header == {NoHeader, <<GF_FILE_NOT_FOUND, 0>>} \cup ({GF_OK} \X Nat)

WorkersTypeOK ==
  /\ pc \in [Workers -> ProxyStates]
  /\ path \in [Workers -> Paths]
  /\ seg \in [Workers -> Segments \cup {NoSeg}]
  /\ \A w \in Workers : seg[w] = NoSeg <=> pc[w] \notin HoldingStates
  /\ transferred \in [Workers -> 0..(SizeMod - 1)]
  /\ hdr \in [Workers -> Header]
  /\ body \in [Workers -> Seq(Byte)]

QueuesTypeOK ==
  /\ shm_queue \in Seq(Segments)
  /\ mq \in Seq(Request) /\ Len(mq) <= MaxMsg

Semaphores == [filelen : Nat, proxy : Nat, cache : Nat]
Shared == [status : {0, 200, 404}, filesize : 0..(SizeMod - 1),
           read_len : 0..(SizeMod - 1), data : Seq(Byte)]

\* The segment holds the bytes it announces, unless a read has failed.
Fits(g) == (g.read_len <= SegSize /\ g.read_len <= Len(g.data)) \/ g.read_len = ToSize(-1)

SegmentsTypeOK ==
  /\ sem \in [Segments -> Semaphores]
  /\ shm \in [Segments -> Shared]
  /\ \A s \in Segments : Fits(shm[s])

DaemonsTypeOK ==
  /\ dpc \in [Daemons -> DaemonStates]
  /\ req \in [Daemons -> Request]
  /\ bytes_read \in [Daemons -> Nat]
  /\ \A d \in Daemons :
       dpc[d] \in {"cachesem", "copy", "postproxy"} => req[d].path \in Cached

\* The values each variable takes; a worker holds a segment exactly while its
\* pc says so, and the daemon only copies files it has.
TypeOK == WorkersTypeOK /\ QueuesTypeOK /\ SegmentsTypeOK /\ DaemonsTypeOK

(* handle_with_cache.c:26-37, 129-137.  No segment is lost or handed out   *)
(* twice: each one is in the FIFO once, or else in the hands of exactly    *)
(* one proxy worker.  It holds whatever gfs_send returns.                  *)
SegmentOwnership ==
  /\ \A i, j \in 1..Len(shm_queue) : shm_queue[i] = shm_queue[j] => i = j
  /\ \A v, w \in Workers : seg[v] = seg[w] /\ seg[v] # NoSeg => v = w
  /\ \A w \in Workers, i \in 1..Len(shm_queue) : shm_queue[i] # seg[w]
  /\ \A s \in Segments : \/ \E i \in 1..Len(shm_queue) : shm_queue[i] = s
                         \/ \E w \in Workers : seg[w] = s

(* handle_with_cache.c:26-32, 134-137.  The condition variable is          *)
(* signalled outside the mutex, yet no wakeup is lost: while a worker      *)
(* sleeps and a segment is free, a broadcast is still to come.             *)
NoLostWakeup ==
  (shm_queue # <<>> /\ \E w \in Workers : pc[w] = "cond_wait")
     => \E v \in Workers : Broadcasting(v)

\* Daemon worker d has received a request and may still use its segment.
Serving(d) == dpc[d] \notin {"receive", "crashed"}

\* Worker w has lent its segment and has not taken it back.
Lent(w) == pc[w] \in {"filelen", "header", "loop", "proxysem", "send", "post"}

(* The hand over between processes: whoever in the daemon can still touch  *)
(* a segment, by a request in the message queue or by a transfer under     *)
(* way, does it for the worker that holds the segment now and for the      *)
(* path this worker was asked for; and there is one of them at most.       *)
LeaseIsExclusive ==
  /\ \A i \in 1..Len(mq) : \E w \in Workers :
        Lent(w) /\ mq[i] = [path |-> path[w], seg |-> seg[w]]
  /\ \A d \in Daemons : Serving(d) => \E w \in Workers :
        Lent(w) /\ req[d] = [path |-> path[w], seg |-> seg[w]]
  /\ \A i, j \in 1..Len(mq) : mq[i].seg = mq[j].seg => i = j
  /\ \A d, e \in Daemons : Serving(d) /\ Serving(e) /\ req[d].seg = req[e].seg => d = e
  /\ \A d \in Daemons, i \in 1..Len(mq) : Serving(d) => req[d].seg # mq[i].seg

(* The semaphores alternate the two processes on the fields of a segment:  *)
(* none writes a field while the other reads it, without any lock.         *)
NoSegmentRace ==
  \A w \in Workers, d \in Daemons :
    seg[w] = req[d].seg =>
      /\ ~(pc[w] = "send" /\ dpc[d] = "copy")
      /\ ~(pc[w] \in {"header", "loop", "finish", "finish404"} /\ dpc[d] = "reply")
      /\ ~(pc[w] = "finish" /\ dpc[d] = "copy")

\* What the client of a worker sees of it.
Stage(w) == IF pc[w] = "idle" THEN "idle"
            ELSE IF hdr[w] = NoHeader THEN "asked" ELSE "sending"

Service == INSTANCE FileService WITH
  Leavers <- {}, stage <- [w \in Workers |-> Stage(w)], want <- path,
  OK <- GF_OK, NotFound <- GF_FILE_NOT_FOUND

(* The proxy, the daemon, the queue, the segments and the semaphores       *)
(* together do no more than the file service: every client gets the header *)
(* and the bytes of the file it asked for, in order and complete.          *)
ImplementsFileService == Service!Spec

(* gfserver.h:97-98, "The second argument is the path of the requested     *)
(* resource": the bytes a client receives are the first bytes of the file  *)
(* it asked for, and of no other.  When gfs_send fails because a client    *)
(* left, handle_with_cache.c:108-111 frees the segment while the daemon    *)
(* still fills it, and the next client receives bytes of the wrong file.   *)
ClientGetsItsFile ==
  \A w \in Workers : body[w] # <<>> =>
     path[w] \in Cached /\ body[w] = SubSeq(File[path[w]], 1, Len(body[w]))

(* handle_with_cache.c:45-52, 104-117, simplecached.c:160-217.  The pools  *)
(* of two processes wait for each other at a queue and three semaphores:   *)
(* with a segment for each worker, each request is answered to its end.    *)
EveryRequestAnswered == \A w \in Workers : (pc[w] = "get") ~> (pc[w] = "idle")
=============================================================================
