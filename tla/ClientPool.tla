----------------------------- MODULE ClientPool -----------------------------
(***************************************************************************)
(* The multithreaded download client, pr1/mtgf/gfclient_download.c.  The   *)
(* boss thread puts the requests in a queue and waits until they have all  *)
(* been performed; worker threads take requests and save each answer in a  *)
(* file of its own.  One mutex protects the queue and the count of         *)
(* finished requests, and one condition variable serves both, so that a    *)
(* signal may wake the boss or a worker.                                   *)
(*                                                                         *)
(* Abstractions: a critical section is one step; gfc_perform is one step   *)
(* with any outcome and returns; files and directories can be created.     *)
(***************************************************************************)
EXTENDS Integers, Sequences, FiniteSets

CONSTANTS
  Workers,   \* the threads made by set_pthreads
  Boss,      \* the main thread
  NRequests, \* nrequests, option -r
  NPaths,    \* gUniqueWorkloadPaths: how many paths the workload file has
  LongPaths  \* the paths that may be longer than PATH_BUFFER_SIZE

ASSUME PoolAssumption ==
  /\ Workers # {} /\ IsFiniteSet(Workers) /\ Boss \notin Workers
  /\ NRequests \in Nat
  /\ NPaths \in Nat \ {0} /\ LongPaths \subseteq 0..(NPaths - 1)

VARIABLES
  boss,      \* where the boss is
  next,      \* its loop counter i: the request it enqueues next
  work_queue, \* requests, oldest first
  done,      \* nrequests_done
  pc,        \* where each worker is
  loops,     \* its loop counter i
  item,      \* its req_obj
  counter,   \* the static counter of localPath
  seen,      \* the value of counter a worker has loaded
  local_path, \* the name of the file it writes
  disk,      \* the names of the local files that exist
  raced,     \* history: a store of counter++ has undone another one
  counted,   \* history: the request of each increment of nrequests_done
  long       \* the paths of this workload file that are too long

vars == <<boss, next, work_queue, done, pc, loops, item, counter, seen, local_path,
          disk, raced, counted, long>>

Requests == 0..(NRequests - 1)
NoItem == -1

\* workload_get_path: the i-th call returns path i modulo their number.
PathOf(i) == i % NPaths

\* A local file name: the path and the number localPath appends.
NoName == <<-1, -1>>

Init ==
  /\ boss = IF NRequests = 0 THEN "await" ELSE "enqueue"
  /\ next = 0
  /\ work_queue = <<>>
  /\ done = 0
  /\ pc = [w \in Workers |-> "head"]
  /\ loops = [w \in Workers |-> 0]
  /\ item = [w \in Workers |-> NoItem]
  /\ counter = 0
  /\ seen = [w \in Workers |-> 0]
  /\ local_path = [w \in Workers |-> NoName]
  /\ disk = {}
  /\ raced = FALSE
  /\ counted = {}
  /\ long \in SUBSET LongPaths

-----------------------------------------------------------------------------
(* The condition variable                                                  *)

Sleepers == {w \in Workers : pc[w] = "sleep"} \cup (IF boss = "sleep" THEN {Boss} ELSE {})

\* The threads of T leave pthread_cond_wait and will test their condition
\* again; the caller, b or worker w, goes on.
Waking(T, b, p) ==
  /\ boss' = IF Boss \in T THEN "await" ELSE b
  /\ pc' = [w \in Workers |-> IF w \in T THEN "test" ELSE p[w]]

\* pthread_cond_signal wakes one sleeper, whichever it is, if there is one.
Signal(b, p) ==
  \/ Sleepers = {} /\ boss' = b /\ pc' = p
  \/ \E t \in Sleepers : Waking({t}, b, p)

\* pthread_cond_broadcast wakes them all.
Broadcast(b, p) == Waking(Sleepers, b, p)

\* pthread_cond_wait may return for no reason.
SpuriousWakeup ==
  /\ \E t \in Sleepers : Waking({t}, boss, pc)
  /\ UNCHANGED <<next, work_queue, done, loops, item, counter, seen, local_path, disk, raced, counted, long>>

-----------------------------------------------------------------------------
(* The boss                                                                *)

\* The next request enters the queue, under the mutex.
Enqueue ==
  /\ boss = "enqueue" /\ PathOf(next) \notin long
  /\ boss' = "signal"
  /\ work_queue' = Append(work_queue, next)
  /\ next' = next + 1
  /\ UNCHANGED <<done, pc, loops, item, counter, seen, local_path, disk, raced, counted, long>>

\* A path that is too long ends the process, with whatever its threads do.
PathTooLong ==
  /\ boss = "enqueue" /\ PathOf(next) \in long
  /\ boss' = "aborted"
  /\ pc' = [w \in Workers |-> "exited"]
  /\ UNCHANGED <<next, work_queue, done, loops, item, counter, seen, local_path, disk, raced, counted, long>>

MoreToEnqueue_AtMost == next <= NRequests  \* mutant
MoreToEnqueue == next < NRequests

\* Mutant: no signal.
SignalEnqueued_None ==
  /\ boss = "signal"
  /\ boss' = IF MoreToEnqueue THEN "enqueue" ELSE "await"
  /\ UNCHANGED <<next, work_queue, done, pc, loops, item, counter, seen, local_path, disk, raced, counted, long>>

\* The signal comes after the unlock; then the for loop goes on or ends.
SignalEnqueued ==
  /\ boss = "signal"
  /\ Signal(IF MoreToEnqueue THEN "enqueue" ELSE "await", pc)
  /\ UNCHANGED <<next, work_queue, done, loops, item, counter, seen, local_path, disk, raced, counted, long>>

\* Mutant: the boss stops waiting when the queue is empty.
AwaitDone_QueueEmpty ==
  /\ boss = "await"
  /\ boss' = IF work_queue # <<>> THEN "sleep" ELSE "broadcast"
  /\ UNCHANGED <<next, work_queue, done, pc, loops, item, counter, seen, local_path, disk, raced, counted, long>>

\* The loop of the boss around pthread_cond_wait.
AwaitDone ==
  /\ boss = "await"
  /\ boss' = IF done # NRequests THEN "sleep" ELSE "broadcast"
  /\ UNCHANGED <<next, work_queue, done, pc, loops, item, counter, seen, local_path, disk, raced, counted, long>>

\* The last broadcast, for workers that wait for requests still.
BroadcastDone ==
  /\ boss = "broadcast"
  /\ Broadcast("join", pc)
  /\ UNCHANGED <<next, work_queue, done, loops, item, counter, seen, local_path, disk, raced, counted, long>>

\* pthread_join of every worker, and the end of main.
Join ==
  /\ boss = "join"
  /\ \A w \in Workers : pc[w] = "exited"
  /\ boss' = "exited"
  /\ UNCHANGED <<next, work_queue, done, pc, loops, item, counter, seen, local_path, disk, raced, counted, long>>

BossStep == Enqueue \/ PathTooLong \/ SignalEnqueued \/ AwaitDone \/ BroadcastDone \/ Join

-----------------------------------------------------------------------------
(* A worker: thread_handle_req and set_request_main_code                   *)

\* The test of the for loop, i < nrequests.
LoopHead(w) ==
  /\ pc[w] = "head"
  /\ pc' = [pc EXCEPT ![w] = IF loops[w] < NRequests THEN "test" ELSE "exited"]
  /\ UNCHANGED <<boss, next, work_queue, done, loops, item, counter, seen, local_path, disk, raced, counted, long>>

\* Under the mutex: the queue is empty, and the worker leaves if all is done.
FindNothing(w) ==
  /\ pc[w] = "test"
  /\ work_queue = <<>>
  /\ pc' = [pc EXCEPT ![w] = IF done = NRequests THEN "exited" ELSE "sleep"]
  /\ UNCHANGED <<boss, next, work_queue, done, loops, item, counter, seen, local_path, disk, raced, counted, long>>

\* Mutant: steque_front in place of steque_pop.
Take_Front(w) ==
  /\ pc[w] = "test"
  /\ work_queue # <<>>
  /\ item' = [item EXCEPT ![w] = Head(work_queue)]
  /\ pc' = [pc EXCEPT ![w] = "signal"]
  /\ UNCHANGED <<boss, next, work_queue, done, loops, counter, seen, local_path, disk, raced, counted, long>>

\* Under the mutex: the oldest request is taken.
Take(w) ==
  /\ pc[w] = "test"
  /\ work_queue # <<>>
  /\ item' = [item EXCEPT ![w] = Head(work_queue)]
  /\ work_queue' = Tail(work_queue)
  /\ pc' = [pc EXCEPT ![w] = "signal"]
  /\ UNCHANGED <<boss, next, done, loops, counter, seen, local_path, disk, raced, counted, long>>

\* The signal after the unlock.
SignalTaken(w) ==
  /\ pc[w] = "signal"
  /\ Signal(boss, [pc EXCEPT ![w] = "name"])
  /\ UNCHANGED <<next, work_queue, done, loops, item, counter, seen, local_path, disk, raced, counted, long>>

\* localPath: counter++ is a load and a store, with no lock.
LoadCounter(w) ==
  /\ pc[w] = "name"
  /\ seen' = [seen EXCEPT ![w] = counter]
  /\ pc' = [pc EXCEPT ![w] = "open"]
  /\ UNCHANGED <<boss, next, work_queue, done, loops, item, counter, local_path, disk, raced, counted, long>>

\* Mutant: a name that does not depend on the path.
NameOf_NoPath(i, n) == <<0, n>>
NameOf(i, n) == <<PathOf(i), n>>

\* The store of counter++, and openFile, which creates or truncates the file.
OpenLocal(w) ==
  /\ pc[w] = "open"
  /\ counter' = seen[w] + 1
  /\ raced' = (raced \/ counter # seen[w])
  /\ local_path' = [local_path EXCEPT ![w] = NameOf(item[w], seen[w])]
  /\ disk' = disk \cup {NameOf(item[w], seen[w])}
  /\ pc' = [pc EXCEPT ![w] = "perform"]
  /\ UNCHANGED <<boss, next, work_queue, done, loops, item, seen, counted, long>>

\* gfc_perform: the answer is in the file, or it failed and the file is
\* removed (twice when both tests fail, which removes nothing more).
Perform(w) ==
  /\ pc[w] = "perform"
  /\ \/ UNCHANGED disk
     \/ disk' = disk \ {local_path[w]}
  /\ pc' = [pc EXCEPT ![w] = "count"]
  /\ UNCHANGED <<boss, next, work_queue, done, loops, item, counter, seen, local_path, raced, counted, long>>

\* nrequests_done += 1, under the mutex.
Count(w) ==
  /\ pc[w] = "count"
  /\ done' = done + 1
  /\ counted' = counted \cup {item[w]}
  /\ pc' = [pc EXCEPT ![w] = "broadcast"]
  /\ UNCHANGED <<boss, next, work_queue, loops, item, counter, seen, local_path, disk, raced, long>>

\* Mutant: a signal wakes one thread, perhaps not the one that can go on.
BroadcastCounted_Signal(w) ==
  /\ pc[w] = "broadcast"
  /\ Signal(boss, [pc EXCEPT ![w] = "head"])
  /\ loops' = [loops EXCEPT ![w] = @ + 1]
  /\ item' = [item EXCEPT ![w] = NoItem]
  /\ UNCHANGED <<next, work_queue, done, counter, seen, local_path, disk, raced, counted, long>>

\* The broadcast after the unlock, and the end of the loop's body.
BroadcastCounted(w) ==
  /\ pc[w] = "broadcast"
  /\ Broadcast(boss, [pc EXCEPT ![w] = "head"])
  /\ loops' = [loops EXCEPT ![w] = @ + 1]
  /\ item' = [item EXCEPT ![w] = NoItem]
  /\ UNCHANGED <<next, work_queue, done, counter, seen, local_path, disk, raced, counted, long>>

WorkerStep(w) ==
  \/ LoopHead(w) \/ FindNothing(w) \/ Take(w) \/ SignalTaken(w) \/ LoadCounter(w)
  \/ OpenLocal(w) \/ Perform(w) \/ Count(w) \/ BroadcastCounted(w)

\* The process has ended.
Finished == boss \in {"exited", "aborted"} /\ UNCHANGED vars

Next ==
  \/ BossStep
  \/ \E w \in Workers : WorkerStep(w)
  \/ SpuriousWakeup
  \/ Finished

Spec == Init /\ [][Next]_vars

\* Threads that can run do run; nothing wakes a thread for no reason.
FairSpec ==
  /\ Spec
  /\ WF_vars(BossStep)
  /\ \A w \in Workers : WF_vars(WorkerStep(w))

-----------------------------------------------------------------------------
BossStates == {"enqueue", "signal", "await", "sleep", "broadcast", "join", "exited",
               "aborted"}
WorkerStates == {"head", "test", "sleep", "signal", "name", "open", "perform", "count",
                 "broadcast", "exited"}
Busy == {"signal", "name", "open", "perform", "count"}

\* The values each variable takes.
TypeOK ==
  /\ boss \in BossStates
  /\ next \in 0..NRequests
  /\ work_queue \in Seq(Requests)
  /\ done \in Nat
  /\ pc \in [Workers -> WorkerStates]
  /\ loops \in [Workers -> Nat]
  /\ item \in [Workers -> Requests \cup {NoItem}]
  /\ counter \in Nat
  /\ seen \in [Workers -> Nat]
  /\ local_path \in [Workers -> ((0..(NPaths - 1)) \X Nat) \cup {NoName}]
  /\ disk \subseteq (0..(NPaths - 1)) \X Nat
  /\ raced \in BOOLEAN
  /\ counted \subseteq Requests
  /\ long \subseteq 0..(NPaths - 1)

(* gfclient_download.c:160-173, 197-217.  Every request is in one place    *)
(* only: not enqueued yet, in the queue, with one worker, or counted.      *)
RequestsInOnePlace ==
  /\ \A i \in 1..Len(work_queue) :
       /\ work_queue[i] = next - Len(work_queue) + i - 1
       /\ work_queue[i] \notin counted
  /\ \A w \in Workers : pc[w] \in Busy =>
       /\ item[w] \in Requests /\ item[w] < next - Len(work_queue)
       /\ item[w] \notin counted
  /\ \A v, w \in Workers : pc[v] \in Busy /\ pc[w] \in Busy /\ item[v] = item[w] => v = w
  /\ \A r \in counted : r < next - Len(work_queue)

(* gfclient_download.c:176-182, 212-214.  The boss leaves its loop only    *)
(* when every request has been performed and counted, and nothing is left  *)
(* in the queue.                                                           *)
BossLeavesLast ==
  boss \in {"broadcast", "join", "exited"} => counted = Requests /\ work_queue = <<>>

(* gfclient_download.c:169-172, 200-210.  The queue and the completion     *)
(* share a condition variable, and the signals come outside the mutex; yet *)
(* while a worker sleeps, every queued request has an awake worker about   *)
(* to look, or a signal about to come.                                     *)
NoNeedlessSleep ==
  (\E w \in Workers : pc[w] = "sleep") =>
     Len(work_queue) <= Cardinality({w \in Workers : pc[w] = "test"})
                        + (IF boss = "signal" THEN 1 ELSE 0)

\* Some other request is for the same path.
Repeated(r) == \E q \in Requests : q # r /\ PathOf(q) = PathOf(r)

(* gfclient_download.c:31-35, 37-63, 223-227.  Every download is saved in  *)
(* a file of its own, and opening truncates none that is there, unless     *)
(* both fail that keep the names apart: the path is requested twice, and   *)
(* an unlocked counter++ was undone by another one.  (That this happens is *)
(* against pr1/README.md:490-492, "no race conditions".)                   *)
OwnFile ==
  [][\A w \in Workers :
        local_path'[w] # local_path[w] /\ local_path'[w] \in disk =>
          raced' /\ Repeated(item[w])]_vars

(* pr1/README.md:345-351.  The boss enqueues the requests, they are all    *)
(* performed, the workers terminate and the process exits; or a path is    *)
(* too long, which ends the process at once.                               *)
Termination == <>(boss = "exited" \/ (boss = "aborted" /\ long # {}))
=============================================================================
