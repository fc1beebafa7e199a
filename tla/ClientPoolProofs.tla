-------------------------- MODULE ClientPoolProofs --------------------------
(***************************************************************************)
(* Theorems about ClientPool, for every set of workers and any number of   *)
(* requests and of paths.  The invariants of the run are inductive once    *)
(* they are joined with what the boss's place says of its loop counter,    *)
(* and with nrequests_done being the number of requests counted; OwnFile   *)
(* needs more.  The last part is about GfClient, the request itself.       *)
(***************************************************************************)
EXTENDS ClientPool, GfClient, FiniteSetTheorems, SequenceTheorems, TLAPS

\* The boss is in its for loop only while there is a request to enqueue.
BossInLoop ==
  /\ boss = "enqueue" => next < NRequests
  /\ boss \notin {"enqueue", "signal", "aborted"} => next = NRequests

\* nrequests_done is the number of requests that have been counted.
DoneIsCounted == IsFiniteSet(counted) /\ done = Cardinality(counted)

IInv ==
  /\ TypeOK /\ BossInLoop /\ RequestsInOnePlace
  /\ DoneIsCounted /\ BossLeavesLast /\ NoNeedlessSleep

-----------------------------------------------------------------------------
(* The condition variable                                                  *)

\* Threads that wake test their condition; nobody else moves but the caller.
LEMMA WakingMoves ==
  ASSUME TypeOK, NEW b \in BossStates, NEW p \in [Workers -> WorkerStates],
         NEW T \in SUBSET Sleepers, Waking(T, b, p),
         \A w \in Workers : pc[w] = "sleep" => p[w] = "sleep"
  PROVE  /\ boss' = (IF Boss \in T THEN "await" ELSE b)
         /\ Boss \in T => boss = "sleep"
         /\ pc' \in [Workers -> WorkerStates]
         /\ \A w \in Workers :
              pc'[w] = p[w] \/ (pc[w] = "sleep" /\ p[w] = "sleep" /\ pc'[w] = "test" /\ w \in T)
  <1>1. Boss \in T => boss = "sleep"
    BY PoolAssumption DEF Sleepers
  <1>2. \A w \in Workers : w \in T => pc[w] = "sleep"
    BY PoolAssumption DEF Sleepers
  <1>3. boss' = (IF Boss \in T THEN "await" ELSE b)
    BY DEF Waking
  <1>4. pc' = [w \in Workers |-> IF w \in T THEN "test" ELSE p[w]]
    BY DEF Waking
  <1>5. pc' \in [Workers -> WorkerStates]
    BY <1>4 DEF WorkerStates
  <1>6. QED
    BY <1>1, <1>2, <1>3, <1>4, <1>5

\* A signal moves the caller, and one sleeper if there is any.
LEMMA SignalMoves ==
  ASSUME TypeOK, NEW b \in BossStates, NEW p \in [Workers -> WorkerStates], Signal(b, p),
         \A w \in Workers : pc[w] = "sleep" => p[w] = "sleep"
  PROVE  /\ boss' = b \/ (boss = "sleep" /\ boss' = "await")
         /\ pc' \in [Workers -> WorkerStates]
         /\ \A w \in Workers :
              pc'[w] = p[w] \/ (pc[w] = "sleep" /\ p[w] = "sleep" /\ pc'[w] = "test")
  <1>1. CASE boss' = b /\ pc' = p
    BY <1>1
  <1>2. CASE \E t \in Sleepers : Waking({t}, b, p)
    <2>1. PICK t \in Sleepers : Waking({t}, b, p)
      BY <1>2
    <2>2. {t} \in SUBSET Sleepers
      OBVIOUS
    <2>3. QED
      BY <2>1, <2>2, WakingMoves
  <1>3. QED
    BY <1>1, <1>2 DEF Signal

\* After a broadcast nobody sleeps, but the caller if it does.
LEMMA BroadcastMoves ==
  ASSUME TypeOK, NEW b \in BossStates, NEW p \in [Workers -> WorkerStates], Broadcast(b, p),
         \A w \in Workers : pc[w] = "sleep" <=> p[w] = "sleep"
  PROVE  /\ boss' = b \/ (boss = "sleep" /\ boss' = "await")
         /\ pc' \in [Workers -> WorkerStates]
         /\ \A w \in Workers :
              pc'[w] = p[w] \/ (pc[w] = "sleep" /\ p[w] = "sleep" /\ pc'[w] = "test")
         /\ \A w \in Workers : pc'[w] # "sleep"
  <1>1. Waking(Sleepers, b, p)
    BY DEF Broadcast
  <1>2. \A w \in Workers : pc[w] = "sleep" => w \in Sleepers
    BY DEF Sleepers
  <1>3. pc' = [w \in Workers |-> IF w \in Sleepers THEN "test" ELSE p[w]]
    BY <1>1 DEF Waking
  <1>4. \A w \in Workers : pc'[w] # "sleep"
    BY <1>2, <1>3
  <1>5. Sleepers \in SUBSET Sleepers
    OBVIOUS
  <1>6. QED
    BY <1>1, <1>4, <1>5, WakingMoves

-----------------------------------------------------------------------------
(* Types                                                                   *)

\* A local file's name is made of the number of a path and of the counter.
LEMMA NameType ==
  ASSUME NEW i \in Requests, NEW n \in Nat
  PROVE  NameOf(i, n) \in (0..(NPaths - 1)) \X Nat
  <1>1. i \in Nat /\ NPaths \in Nat \ {0}
    BY PoolAssumption DEF Requests
  <1>2. i % NPaths \in 0..(NPaths - 1)
    BY <1>1
  <1>3. QED
    BY <1>2 DEF NameOf, PathOf

LEMMA NextType ==
  ASSUME TypeOK, BossInLoop, RequestsInOnePlace, [Next]_vars
  PROVE  TypeOK' /\ BossInLoop'
  <1> USE DEF TypeOK, BossInLoop
  <1>1. CASE UNCHANGED vars
    BY <1>1 DEF vars
  <1>2. CASE Enqueue
    <2>1. next \in Requests /\ next' \in 0..NRequests
      BY <1>2, PoolAssumption DEF Enqueue, Requests
    <2>2. work_queue' \in Seq(Requests)
      BY <1>2, <2>1 DEF Enqueue
    <2>3. QED
      BY <1>2, <2>1, <2>2 DEF Enqueue, BossStates
  <1>18. CASE PathTooLong
    BY <1>18 DEF PathTooLong, BossStates, WorkerStates
  <1>3. CASE SignalEnqueued
    <2> DEFINE b == IF MoreToEnqueue THEN "enqueue" ELSE "await"
    <2>1. b \in BossStates
      BY DEF BossStates
    <2>2. Signal(b, pc) /\ boss = "signal"
      BY <1>3 DEF SignalEnqueued
    <2>3. boss' = b /\ pc' \in [Workers -> WorkerStates]
      BY <2>1, <2>2, SignalMoves
    <2>4. (boss' = "enqueue" => next < NRequests)
          /\ (boss' \notin {"enqueue", "signal", "aborted"} => next = NRequests)
      BY <2>3, PoolAssumption DEF MoreToEnqueue
    <2>5. QED
      BY <1>3, <2>1, <2>3, <2>4 DEF SignalEnqueued
  <1>4. CASE AwaitDone
    BY <1>4 DEF AwaitDone, BossStates
  <1>5. CASE BroadcastDone
    <2>1. Broadcast("join", pc) /\ boss = "broadcast" /\ "join" \in BossStates
      BY <1>5 DEF BroadcastDone, BossStates
    <2>2. boss' = "join" /\ pc' \in [Workers -> WorkerStates]
      BY <2>1, BroadcastMoves
    <2>3. QED
      BY <1>5, <2>1, <2>2 DEF BroadcastDone
  <1>6. CASE Join
    BY <1>6 DEF Join, BossStates
  <1>7. ASSUME NEW w \in Workers, LoopHead(w) PROVE TypeOK' /\ BossInLoop'
    BY <1>7 DEF LoopHead, WorkerStates
  <1>8. ASSUME NEW w \in Workers, FindNothing(w) PROVE TypeOK' /\ BossInLoop'
    BY <1>8 DEF FindNothing, WorkerStates
  <1>9. ASSUME NEW w \in Workers, Take(w) PROVE TypeOK' /\ BossInLoop'
    <2>1. Head(work_queue) \in Requests /\ Tail(work_queue) \in Seq(Requests)
      BY <1>9 DEF Take
    <2>2. QED
      BY <1>9, <2>1 DEF Take, WorkerStates
  <1>10. ASSUME NEW w \in Workers, SignalTaken(w) PROVE TypeOK' /\ BossInLoop'
    <2> DEFINE p == [pc EXCEPT ![w] = "name"]
    <2>1. /\ p \in [Workers -> WorkerStates] /\ Signal(boss, p)
          /\ \A v \in Workers : pc[v] = "sleep" => p[v] = "sleep"
      BY <1>10 DEF SignalTaken, WorkerStates
    <2> HIDE DEF p
    <2>2. /\ boss' = boss \/ (boss = "sleep" /\ boss' = "await")
          /\ pc' \in [Workers -> WorkerStates]
      BY <2>1, SignalMoves
    <2>3. QED
      BY <1>10, <2>2 DEF SignalTaken, BossStates
  <1>11. ASSUME NEW w \in Workers, LoadCounter(w) PROVE TypeOK' /\ BossInLoop'
    BY <1>11 DEF LoadCounter, WorkerStates
  <1>12. ASSUME NEW w \in Workers, OpenLocal(w) PROVE TypeOK' /\ BossInLoop'
    <2>1. item[w] \in Requests /\ seen[w] \in Nat
      BY <1>12 DEF RequestsInOnePlace, OpenLocal, Busy
    <2>2. NameOf(item[w], seen[w]) \in (0..(NPaths - 1)) \X Nat
      BY <2>1, NameType
    <2>3. counter' \in Nat /\ pc' \in [Workers -> WorkerStates]
      BY <1>12, <2>1 DEF OpenLocal, WorkerStates
    <2>4. local_path' \in [Workers -> ((0..(NPaths - 1)) \X Nat) \cup {NoName}]
      BY <1>12, <2>2 DEF OpenLocal
    <2>5. disk' \subseteq (0..(NPaths - 1)) \X Nat
      BY <1>12, <2>2 DEF OpenLocal
    <2>6. raced' \in BOOLEAN
      BY <1>12, Zenon DEF OpenLocal
    <2>7. QED
      BY <1>12, <2>3, <2>4, <2>5, <2>6 DEF OpenLocal
  <1>13. ASSUME NEW w \in Workers, Perform(w) PROVE TypeOK' /\ BossInLoop'
    BY <1>13 DEF Perform, WorkerStates
  <1>14. ASSUME NEW w \in Workers, Count(w) PROVE TypeOK' /\ BossInLoop'
    <2>1. item[w] \in Requests
      BY <1>14 DEF RequestsInOnePlace, Count, Busy
    <2>2. QED
      BY <1>14, <2>1 DEF Count, WorkerStates
  <1>15. ASSUME NEW w \in Workers, BroadcastCounted(w) PROVE TypeOK' /\ BossInLoop'
    <2> DEFINE p == [pc EXCEPT ![w] = "head"]
    <2>1. /\ p \in [Workers -> WorkerStates] /\ Broadcast(boss, p)
          /\ \A v \in Workers : pc[v] = "sleep" <=> p[v] = "sleep"
      BY <1>15 DEF BroadcastCounted, WorkerStates
    <2> HIDE DEF p
    <2>2. /\ boss' = boss \/ (boss = "sleep" /\ boss' = "await")
          /\ pc' \in [Workers -> WorkerStates]
      BY <2>1, BroadcastMoves
    <2>3. loops' \in [Workers -> Nat] /\ item' \in [Workers -> Requests \cup {NoItem}]
      BY <1>15 DEF BroadcastCounted
    <2>4. QED
      BY <1>15, <2>2, <2>3 DEF BroadcastCounted, BossStates
  <1>16. CASE SpuriousWakeup
    <2>1. PICK t \in Sleepers : Waking({t}, boss, pc)
      BY <1>16 DEF SpuriousWakeup
    <2>2. {t} \in SUBSET Sleepers
      OBVIOUS
    <2>3. /\ boss' = boss \/ (boss = "sleep" /\ boss' = "await")
          /\ pc' \in [Workers -> WorkerStates]
      BY <2>1, <2>2, WakingMoves
    <2>4. QED
      BY <1>16, <2>3 DEF SpuriousWakeup, BossStates
  <1>17. QED
    BY <1>1, <1>2, <1>3, <1>4, <1>5, <1>6, <1>7, <1>8, <1>9, <1>10, <1>11, <1>12, <1>13, <1>14,
       <1>15, <1>16, <1>18 DEF Next, BossStep, WorkerStep, Finished

-----------------------------------------------------------------------------
(* Every request in one place                                              *)

\* Nothing changes for the requests when no worker gets hold of one.
LEMMA RequestsStay ==
  ASSUME RequestsInOnePlace, UNCHANGED <<next, work_queue, counted>>,
         \A w \in Workers : pc'[w] \in Busy => pc[w] \in Busy /\ item'[w] = item[w]
  PROVE  RequestsInOnePlace'
  BY DEF RequestsInOnePlace

LEMMA NextInOnePlace ==
  ASSUME TypeOK, RequestsInOnePlace, [Next]_vars
  PROVE  RequestsInOnePlace'
  <1> USE DEF TypeOK
  <1>a. "sleep" \notin Busy /\ "test" \notin Busy
    BY DEF Busy
  <1>1. CASE UNCHANGED vars
    BY <1>1, RequestsStay DEF vars
  <1>2. CASE Enqueue
    <2>1. /\ work_queue' = Append(work_queue, next) /\ next' = next + 1
          /\ UNCHANGED <<pc, item, counted>> /\ next \in Nat
      BY <1>2, PoolAssumption DEF Enqueue
    <2>2. Len(work_queue) \in Nat /\ Len(work_queue') = Len(work_queue) + 1
      BY <2>1
    <2>3. next' - Len(work_queue') = next - Len(work_queue)
      BY <2>1, <2>2
    <2>4. ASSUME NEW i \in 1..Len(work_queue')
          PROVE  work_queue'[i] = next - Len(work_queue) + i - 1 /\ work_queue'[i] \notin counted
      <3>1. CASE i \in 1..Len(work_queue)
        BY <3>1, <2>1 DEF RequestsInOnePlace
      <3>2. CASE i = Len(work_queue) + 1
        <4>1. work_queue'[i] = next
          BY <3>2, <2>1
        <4>2. next \notin counted
          BY <2>1, <2>2 DEF RequestsInOnePlace
        <4>3. QED
          BY <3>2, <4>1, <4>2, <2>1, <2>2
      <3>3. QED
        BY <3>1, <3>2, <2>2
    <2>5. QED
      BY <2>1, <2>3, <2>4 DEF RequestsInOnePlace
  <1>3. CASE SignalEnqueued
    <2> DEFINE b == IF MoreToEnqueue THEN "enqueue" ELSE "await"
    <2>1. b \in BossStates /\ Signal(b, pc)
      BY <1>3 DEF BossStates, SignalEnqueued
    <2> HIDE DEF b
    <2>2. \A w \in Workers : pc'[w] = pc[w] \/ pc'[w] = "test"
      BY <2>1, SignalMoves
    <2>3. QED
      BY <1>a, <1>3, <2>2, RequestsStay DEF SignalEnqueued
  <1>4. CASE AwaitDone
    BY <1>4, RequestsStay DEF AwaitDone
  <1>5. CASE BroadcastDone
    <2>1. Broadcast("join", pc) /\ "join" \in BossStates
      BY <1>5 DEF BroadcastDone, BossStates
    <2>2. \A w \in Workers : pc'[w] = pc[w] \/ pc'[w] = "test"
      BY <2>1, BroadcastMoves
    <2>3. QED
      BY <1>a, <1>5, <2>2, RequestsStay DEF BroadcastDone
  <1>6. CASE Join \/ PathTooLong
    BY <1>6, RequestsStay DEF Join, PathTooLong, Busy
  <1>7. ASSUME NEW w \in Workers,
               LoopHead(w) \/ FindNothing(w) \/ LoadCounter(w) \/ OpenLocal(w) \/ Perform(w)
        PROVE  RequestsInOnePlace'
    BY <1>7, RequestsStay DEF LoopHead, FindNothing, LoadCounter, OpenLocal, Perform, Busy
  <1>8. ASSUME NEW w \in Workers, Take(w) PROVE RequestsInOnePlace'
    <2> DEFINE q == work_queue
    <2>1. /\ q # <<>> /\ q' = Tail(q) /\ UNCHANGED <<next, counted>>
          /\ item' = [item EXCEPT ![w] = Head(q)] /\ pc[w] = "test"
          /\ \A v \in Workers \ {w} : pc'[v] = pc[v] /\ item'[v] = item[v]
          /\ item'[w] = Head(q) /\ next \in Nat
      BY <1>8, PoolAssumption DEF Take
    <2>2. Len(q) \in Nat /\ Len(q) > 0 /\ Len(q') = Len(q) - 1 /\ Head(q) = q[1]
      BY <2>1
    <2>3. \A i \in 1..Len(q') : i + 1 \in 1..Len(q) /\ q'[i] = q[i + 1]
      BY <2>1, <2>2
    <2>4. q[1] = next - Len(q) /\ q[1] \notin counted /\ q[1] \in Requests
      BY <2>2 DEF RequestsInOnePlace
    <2>5. \A i \in 1..Len(q') : q'[i] = next' - Len(q') + i - 1 /\ q'[i] \notin counted'
      BY <2>1, <2>2, <2>3 DEF RequestsInOnePlace
    <2>6. ASSUME NEW v \in Workers, v # w, pc'[v] \in Busy
          PROVE  /\ item'[v] \in Requests /\ item'[v] < next - Len(q) /\ item'[v] \notin counted
                 /\ pc[v] \in Busy /\ item'[v] = item[v]
      BY <2>1, <2>6 DEF RequestsInOnePlace
    <2>7. \A v \in Workers : pc'[v] \in Busy =>
             item'[v] \in Requests /\ item'[v] < next' - Len(q') /\ item'[v] \notin counted'
      BY <2>1, <2>2, <2>4, <2>6 DEF Requests
    <2>8. \A u, v \in Workers : pc'[u] \in Busy /\ pc'[v] \in Busy /\ item'[u] = item'[v] => u = v
      <3>1. TAKE u, v \in Workers
      <3>2. HAVE pc'[u] \in Busy /\ pc'[v] \in Busy /\ item'[u] = item'[v]
      <3>3. CASE u # w /\ v # w
        BY <3>2, <3>3, <2>6 DEF RequestsInOnePlace
      <3>4. CASE (u = w /\ v # w) \/ (u # w /\ v = w)
        BY <3>2, <3>4, <2>1, <2>2, <2>4, <2>6 DEF Requests
      <3>5. QED
        BY <3>3, <3>4
    <2>9. \A r \in counted' : r < next' - Len(q')
      BY <2>1, <2>2 DEF RequestsInOnePlace, Requests
    <2>10. QED
      BY <2>5, <2>7, <2>8, <2>9 DEF RequestsInOnePlace
  <1>9. ASSUME NEW w \in Workers, SignalTaken(w) PROVE RequestsInOnePlace'
    <2> DEFINE p == [pc EXCEPT ![w] = "name"]
    <2>1. /\ p \in [Workers -> WorkerStates] /\ Signal(boss, p) /\ boss \in BossStates
          /\ \A v \in Workers : pc[v] = "sleep" => p[v] = "sleep"
          /\ \A v \in Workers : p[v] \in Busy => pc[v] \in Busy
      BY <1>9 DEF SignalTaken, WorkerStates, Busy
    <2> HIDE DEF p
    <2>2. \A v \in Workers : pc'[v] = p[v] \/ pc'[v] = "test"
      BY <2>1, SignalMoves
    <2>3. QED
      BY <1>a, <1>9, <2>1, <2>2, RequestsStay DEF SignalTaken
  <1>10. ASSUME NEW w \in Workers, Count(w) PROVE RequestsInOnePlace'
    <2>1. /\ pc[w] = "count" /\ counted' = counted \cup {item[w]} /\ pc'[w] = "broadcast"
          /\ UNCHANGED <<next, work_queue, item>>
          /\ \A v \in Workers : v # w => pc'[v] = pc[v]
      BY <1>10 DEF Count
    <2>2. item[w] \in Requests /\ item[w] < next - Len(work_queue)
      BY <2>1 DEF RequestsInOnePlace, Busy
    <2>3. \A i \in 1..Len(work_queue) : work_queue[i] # item[w]
      BY <2>2, PoolAssumption DEF RequestsInOnePlace, Requests
    <2>4. \A v \in Workers : pc'[v] \in Busy => v # w /\ pc[v] \in Busy /\ item[v] # item[w]
      BY <2>1 DEF RequestsInOnePlace, Busy
    <2>5. QED
      BY <2>1, <2>2, <2>3, <2>4 DEF RequestsInOnePlace
  <1>11. ASSUME NEW w \in Workers, BroadcastCounted(w) PROVE RequestsInOnePlace'
    <2> DEFINE p == [pc EXCEPT ![w] = "head"]
    <2>1. /\ p \in [Workers -> WorkerStates] /\ Broadcast(boss, p) /\ boss \in BossStates
          /\ \A v \in Workers : pc[v] = "sleep" <=> p[v] = "sleep"
          /\ \A v \in Workers : p[v] \in Busy => pc[v] \in Busy /\ v # w
      BY <1>11 DEF BroadcastCounted, WorkerStates, Busy
    <2> HIDE DEF p
    <2>2. \A v \in Workers : pc'[v] = p[v] \/ pc'[v] = "test"
      BY <2>1, BroadcastMoves
    <2>3. \A v \in Workers : v # w => item'[v] = item[v]
      BY <1>11 DEF BroadcastCounted
    <2>4. QED
      BY <1>a, <1>11, <2>1, <2>2, <2>3, RequestsStay DEF BroadcastCounted
  <1>12. CASE SpuriousWakeup
    <2>1. PICK t \in Sleepers : Waking({t}, boss, pc)
      BY <1>12 DEF SpuriousWakeup
    <2>2. {t} \in SUBSET Sleepers
      OBVIOUS
    <2>3. \A v \in Workers : pc'[v] = pc[v] \/ pc'[v] = "test"
      BY <2>1, <2>2, WakingMoves
    <2>4. QED
      BY <1>a, <1>12, <2>3, RequestsStay DEF SpuriousWakeup
  <1>13. QED
    BY <1>1, <1>2, <1>3, <1>4, <1>5, <1>6, <1>7, <1>8, <1>9, <1>10, <1>11, <1>12
       DEF Next, BossStep, WorkerStep, Finished

-----------------------------------------------------------------------------
(* The end of the boss                                                     *)

\* What a step may do to the boss's place, to the queue and to the requests
\* that have been counted.
LEMMA BossMoves ==
  ASSUME TypeOK, RequestsInOnePlace, [Next]_vars
  PROVE  \/ UNCHANGED <<boss, work_queue, counted, done>>
         \/ Enqueue \/ PathTooLong
         \/ UNCHANGED <<work_queue, counted, done>> /\ boss' \in {"enqueue", "await", "sleep"}
         \/ AwaitDone
         \/ UNCHANGED <<work_queue, counted, done>> /\ boss = "broadcast" /\ boss' = "join"
         \/ UNCHANGED <<work_queue, counted, done>> /\ boss = "join" /\ boss' = "exited"
         \/ \E w \in Workers : Take(w)
         \/ \E w \in Workers : Count(w)
  <1> USE DEF TypeOK
  <1>1. CASE UNCHANGED vars
    BY <1>1 DEF vars
  <1>3. CASE SignalEnqueued
    <2> DEFINE b == IF MoreToEnqueue THEN "enqueue" ELSE "await"
    <2>1. b \in BossStates /\ Signal(b, pc) /\ boss = "signal" /\ b \in {"enqueue", "await"}
      BY <1>3 DEF BossStates, SignalEnqueued
    <2> HIDE DEF b
    <2>2. boss' = b \/ boss' = "await"
      BY <2>1, SignalMoves
    <2>3. QED
      BY <1>3, <2>1, <2>2 DEF SignalEnqueued
  <1>5. CASE BroadcastDone
    <2>1. Broadcast("join", pc) /\ "join" \in BossStates /\ boss = "broadcast"
      BY <1>5 DEF BroadcastDone, BossStates
    <2>2. boss' = "join"
      BY <2>1, BroadcastMoves
    <2>3. QED
      BY <1>5, <2>1, <2>2 DEF BroadcastDone
  <1>6. CASE Join
    BY <1>6 DEF Join
  <1>7. ASSUME NEW w \in Workers,
               LoopHead(w) \/ FindNothing(w) \/ LoadCounter(w) \/ OpenLocal(w) \/ Perform(w)
        PROVE  UNCHANGED <<boss, work_queue, counted, done>>
    BY <1>7 DEF LoopHead, FindNothing, LoadCounter, OpenLocal, Perform
  <1>9. ASSUME NEW w \in Workers, SignalTaken(w)
        PROVE  UNCHANGED <<work_queue, counted, done>> /\ (boss' = boss \/ boss' = "await")
    <2> DEFINE p == [pc EXCEPT ![w] = "name"]
    <2>1. /\ p \in [Workers -> WorkerStates] /\ Signal(boss, p) /\ boss \in BossStates
          /\ \A v \in Workers : pc[v] = "sleep" => p[v] = "sleep"
      BY <1>9 DEF SignalTaken, WorkerStates
    <2> HIDE DEF p
    <2>2. boss' = boss \/ boss' = "await"
      BY <2>1, SignalMoves
    <2>3. QED
      BY <1>9, <2>2 DEF SignalTaken
  <1>11. ASSUME NEW w \in Workers, BroadcastCounted(w)
         PROVE  UNCHANGED <<work_queue, counted, done>> /\ (boss' = boss \/ boss' = "await")
    <2> DEFINE p == [pc EXCEPT ![w] = "head"]
    <2>1. /\ p \in [Workers -> WorkerStates] /\ Broadcast(boss, p) /\ boss \in BossStates
          /\ \A v \in Workers : pc[v] = "sleep" <=> p[v] = "sleep"
      BY <1>11 DEF BroadcastCounted, WorkerStates
    <2> HIDE DEF p
    <2>2. boss' = boss \/ boss' = "await"
      BY <2>1, BroadcastMoves
    <2>3. QED
      BY <1>11, <2>2 DEF BroadcastCounted
  <1>12. CASE SpuriousWakeup
    <2>1. PICK t \in Sleepers : Waking({t}, boss, pc)
      BY <1>12 DEF SpuriousWakeup
    <2>2. {t} \in SUBSET Sleepers
      OBVIOUS
    <2>3. boss' = boss \/ boss' = "await"
      BY <2>1, <2>2, WakingMoves
    <2>4. QED
      BY <1>12, <2>3 DEF SpuriousWakeup
  <1>13. QED
    BY <1>1, <1>3, <1>5, <1>6, <1>7, <1>9, <1>11, <1>12
       DEF Next, BossStep, WorkerStep, Finished

LEMMA NextDone ==
  ASSUME TypeOK, RequestsInOnePlace, DoneIsCounted, [Next]_vars
  PROVE  DoneIsCounted'
  <1>1. CASE UNCHANGED <<counted, done>>
    BY <1>1 DEF DoneIsCounted
  <1>2. ASSUME NEW w \in Workers, Count(w) PROVE DoneIsCounted'
    <2>1. item[w] \notin counted
      BY <1>2 DEF RequestsInOnePlace, Count, Busy
    <2>2. done' = done + 1 /\ counted' = counted \cup {item[w]}
      BY <1>2 DEF Count
    <2>3. QED
      BY <2>1, <2>2, FS_AddElement DEF DoneIsCounted
  <1>3. QED
    BY <1>1, <1>2, BossMoves DEF Enqueue, PathTooLong, AwaitDone, Take

\* When all have been counted, the queue has nothing left.
LEMMA AllCounted ==
  ASSUME TypeOK, RequestsInOnePlace, DoneIsCounted, done = NRequests
  PROVE  counted = Requests /\ work_queue = <<>>
  <1>1. IsFiniteSet(Requests) /\ Cardinality(Requests) = NRequests
    BY FS_Interval, PoolAssumption DEF Requests
  <1>2. counted = Requests
    BY <1>1, FS_Subset DEF DoneIsCounted, TypeOK
  <1>3. Len(work_queue) \in Nat /\ next \in Nat /\ NRequests \in Nat /\ next <= NRequests
    BY PoolAssumption DEF TypeOK
  <1>4. CASE NRequests = 0
    <2>1. Requests = {}
      BY <1>4 DEF Requests
    <2>2. Len(work_queue) = 0
      <3>1. SUFFICES ASSUME Len(work_queue) > 0 PROVE FALSE
        BY <1>3
      <3>2. work_queue[1] \in Requests
        BY <1>3, <3>1 DEF TypeOK
      <3>3. QED
        BY <2>1, <3>2
    <2>3. QED
      BY <1>2, <2>2 DEF TypeOK
  <1>5. CASE NRequests > 0
    <2>1. NRequests - 1 \in counted
      BY <1>2, <1>3, <1>5 DEF Requests
    <2>2. NRequests - 1 < next - Len(work_queue)
      BY <2>1 DEF RequestsInOnePlace
    <2>3. Len(work_queue) = 0
      BY <1>3, <2>2
    <2>4. QED
      BY <1>2, <2>3 DEF TypeOK
  <1>6. QED
    BY <1>3, <1>4, <1>5

LEMMA NextLast ==
  ASSUME TypeOK, RequestsInOnePlace, DoneIsCounted, BossLeavesLast, [Next]_vars
  PROVE  BossLeavesLast'
  <1> DEFINE After == {"broadcast", "join", "exited"}
  <1>1. CASE UNCHANGED <<work_queue, counted>> /\ (boss' \in After => boss \in After)
    BY <1>1 DEF BossLeavesLast
  <1>2. CASE AwaitDone
    BY <1>2, AllCounted DEF AwaitDone, BossLeavesLast
  <1>3. ASSUME NEW w \in Workers, Take(w) PROVE BossLeavesLast'
    BY <1>3 DEF Take, BossLeavesLast
  <1>4. ASSUME NEW w \in Workers, Count(w) PROVE BossLeavesLast'
    <2>1. item[w] \in Requests
      BY <1>4 DEF RequestsInOnePlace, Count, Busy
    <2>2. QED
      BY <1>4, <2>1 DEF Count, BossLeavesLast
  <1>5. CASE Enqueue \/ PathTooLong
    BY <1>5 DEF Enqueue, PathTooLong, BossLeavesLast
  <1>6. QED
    BY <1>1, <1>2, <1>3, <1>4, <1>5, BossMoves

-----------------------------------------------------------------------------
(* Sleepers and the queue                                                  *)

\* The workers that are about to look at the queue.
Testing == {w \in Workers : pc[w] = "test"}

LEMMA TestingFinite ==
  /\ IsFiniteSet(Testing) /\ Cardinality(Testing) \in Nat
  /\ IsFiniteSet(Testing') /\ Cardinality(Testing') \in Nat
  <1>1. Testing \in SUBSET Workers /\ Testing' \in SUBSET Workers
    BY DEF Testing
  <1>2. QED
    BY <1>1, FS_Subset, FS_CardinalityType, PoolAssumption

\* A step that puts nothing in the queue, sends nobody to sleep, and takes
\* nobody from the test.
LEMMA NobodyLeaves ==
  ASSUME NoNeedlessSleep, work_queue' = work_queue, Testing \subseteq Testing',
         \A w \in Workers : pc'[w] = "sleep" => pc[w] = "sleep",
         boss = "signal" => boss' = "signal", Len(work_queue) \in Nat
  PROVE  NoNeedlessSleep'
  <1>1. Cardinality(Testing) <= Cardinality(Testing')
    BY TestingFinite, FS_Subset
  <1>2. CASE \E w \in Workers : pc'[w] = "sleep"
    <2>1. Len(work_queue) <= Cardinality(Testing) + (IF boss = "signal" THEN 1 ELSE 0)
      BY <1>2 DEF NoNeedlessSleep, Testing
    <2>2. Len(work_queue') <= Cardinality(Testing') + (IF boss' = "signal" THEN 1 ELSE 0)
      BY <1>1, <2>1, TestingFinite
    <2>3. QED
      BY <2>2 DEF NoNeedlessSleep, Testing
  <1>3. QED
    BY <1>2 DEF NoNeedlessSleep

LEMMA NextSleep ==
  ASSUME TypeOK, NoNeedlessSleep, [Next]_vars
  PROVE  NoNeedlessSleep'
  <1> USE DEF TypeOK
  <1>a. Len(work_queue) \in Nat
    OBVIOUS
  <1>1. CASE UNCHANGED vars
    BY <1>1, <1>a, NobodyLeaves DEF vars, Testing
  <1>2. CASE Enqueue
    <2>1. UNCHANGED pc /\ boss = "enqueue" /\ boss' = "signal" /\ Len(work_queue') = Len(work_queue) + 1
      BY <1>2 DEF Enqueue
    <2>2. Testing' = Testing
      BY <2>1 DEF Testing
    <2>3. CASE \E w \in Workers : pc[w] = "sleep"
      <3>1. Len(work_queue) <= Cardinality(Testing)
        BY <2>1, <2>3, TestingFinite DEF NoNeedlessSleep, Testing
      <3>2. Len(work_queue') <= Cardinality(Testing') + 1
        BY <2>1, <2>2, <3>1, <1>a, TestingFinite
      <3>3. QED
        BY <2>1, <3>2 DEF NoNeedlessSleep, Testing
    <2>4. QED
      BY <2>1, <2>3 DEF NoNeedlessSleep
  <1>3. CASE SignalEnqueued
    <2> DEFINE b == IF MoreToEnqueue THEN "enqueue" ELSE "await"
    <2>1. /\ b \in BossStates /\ b # "signal" /\ Signal(b, pc) /\ boss = "signal"
          /\ UNCHANGED work_queue
      BY <1>3 DEF BossStates, SignalEnqueued
    <2> HIDE DEF b
    <2>2. CASE Sleepers = {} /\ boss' = b /\ pc' = pc
      BY <2>2 DEF NoNeedlessSleep, Sleepers
    <2>3. ASSUME NEW t \in Sleepers, Waking({t}, b, pc) PROVE NoNeedlessSleep'
      <3>1. t \in Workers /\ pc[t] = "sleep"
        BY <2>1 DEF Sleepers
      <3>2. pc' = [w \in Workers |-> IF w = t THEN "test" ELSE pc[w]]
        BY <2>3 DEF Waking
      <3>3. Testing' = Testing \cup {t} /\ t \notin Testing
        BY <3>1, <3>2 DEF Testing
      <3>4. Cardinality(Testing') = Cardinality(Testing) + 1
        BY <3>3, TestingFinite, FS_AddElement
      <3>5. Len(work_queue) <= Cardinality(Testing) + 1
        BY <2>1, <3>1 DEF NoNeedlessSleep, Testing
      <3>6. Len(work_queue') <= Cardinality(Testing')
        BY <2>1, <3>4, <3>5
      <3>7. QED
        BY <3>6, <2>1, <1>a, TestingFinite DEF NoNeedlessSleep, Testing
    <2>4. QED
      BY <2>1, <2>2, <2>3 DEF Signal
  <1>14. CASE PathTooLong
    BY <1>14 DEF PathTooLong, NoNeedlessSleep
  <1>4. CASE AwaitDone
    BY <1>4, <1>a, NobodyLeaves DEF AwaitDone, Testing
  <1>5. CASE BroadcastDone
    <2>1. Broadcast("join", pc) /\ "join" \in BossStates
      BY <1>5 DEF BroadcastDone, BossStates
    <2>2. QED
      BY <2>1, BroadcastMoves DEF NoNeedlessSleep
  <1>6. CASE Join
    BY <1>6, <1>a, NobodyLeaves DEF Join, Testing
  <1>7. ASSUME NEW w \in Workers, LoopHead(w) \/ LoadCounter(w) \/ OpenLocal(w) \/ Perform(w) \/ Count(w)
        PROVE  NoNeedlessSleep'
    <2>1. /\ work_queue' = work_queue /\ boss' = boss /\ pc[w] # "test" /\ pc'[w] # "sleep"
          /\ \A v \in Workers : v # w => pc'[v] = pc[v]
      BY <1>7 DEF LoopHead, LoadCounter, OpenLocal, Perform, Count
    <2>2. Testing \subseteq Testing'
      BY <2>1 DEF Testing
    <2>3. QED
      BY <2>1, <2>2, <1>a, NobodyLeaves
  <1>8. ASSUME NEW w \in Workers, FindNothing(w) PROVE NoNeedlessSleep'
    <2>1. Len(work_queue') = 0
      BY <1>8 DEF FindNothing
    <2>2. QED
      BY <2>1, TestingFinite DEF NoNeedlessSleep, Testing
  <1>9. ASSUME NEW w \in Workers, Take(w) PROVE NoNeedlessSleep'
    <2>1. /\ Len(work_queue') = Len(work_queue) - 1 /\ boss' = boss /\ pc[w] = "test"
          /\ pc' = [pc EXCEPT ![w] = "signal"]
      BY <1>9 DEF Take
    <2>2. Testing' = Testing \ {w} /\ w \in Testing
      BY <2>1 DEF Testing
    <2>3. Cardinality(Testing') = Cardinality(Testing) - 1
      BY <2>2, TestingFinite, FS_RemoveElement
    <2>4. CASE \E v \in Workers : pc'[v] = "sleep"
      <3>1. \E v \in Workers : pc[v] = "sleep"
        BY <2>1, <2>4
      <3>2. Len(work_queue) <= Cardinality(Testing) + (IF boss = "signal" THEN 1 ELSE 0)
        BY <3>1 DEF NoNeedlessSleep, Testing
      <3>3. Len(work_queue') <= Cardinality(Testing') + (IF boss' = "signal" THEN 1 ELSE 0)
        BY <2>1, <2>3, <3>2, <1>a, TestingFinite
      <3>4. QED
        BY <3>3 DEF NoNeedlessSleep, Testing
    <2>5. QED
      BY <2>4 DEF NoNeedlessSleep
  <1>10. ASSUME NEW w \in Workers, SignalTaken(w) PROVE NoNeedlessSleep'
    <2> DEFINE p == [pc EXCEPT ![w] = "name"]
    <2>1. /\ p \in [Workers -> WorkerStates] /\ Signal(boss, p) /\ boss \in BossStates
          /\ \A v \in Workers : pc[v] = "sleep" => p[v] = "sleep"
          /\ \A v \in Workers : p[v] = "sleep" => pc[v] = "sleep"
          /\ \A v \in Workers : pc[v] = "test" => p[v] = "test"
          /\ UNCHANGED work_queue
      BY <1>10 DEF SignalTaken, WorkerStates
    <2> HIDE DEF p
    <2>2. /\ boss' = boss \/ (boss = "sleep" /\ boss' = "await")
          /\ \A v \in Workers :
               pc'[v] = p[v] \/ (pc[v] = "sleep" /\ p[v] = "sleep" /\ pc'[v] = "test")
      BY <2>1, SignalMoves
    <2>3. /\ \A v \in Workers : pc'[v] = "sleep" => pc[v] = "sleep"
          /\ Testing \subseteq Testing'
      BY <2>1, <2>2 DEF Testing
    <2>4. QED
      BY <2>1, <2>2, <2>3, <1>a, NobodyLeaves
  <1>11. ASSUME NEW w \in Workers, BroadcastCounted(w) PROVE NoNeedlessSleep'
    <2> DEFINE p == [pc EXCEPT ![w] = "head"]
    <2>1. /\ p \in [Workers -> WorkerStates] /\ Broadcast(boss, p) /\ boss \in BossStates
          /\ \A v \in Workers : pc[v] = "sleep" <=> p[v] = "sleep"
      BY <1>11 DEF BroadcastCounted, WorkerStates
    <2> HIDE DEF p
    <2>2. QED
      BY <2>1, BroadcastMoves DEF NoNeedlessSleep
  <1>12. CASE SpuriousWakeup
    <2>1. PICK t \in Sleepers : Waking({t}, boss, pc)
      BY <1>12 DEF SpuriousWakeup
    <2>2. {t} \in SUBSET Sleepers
      OBVIOUS
    <2>3. /\ boss' = boss \/ (boss = "sleep" /\ boss' = "await")
          /\ \A v \in Workers : pc'[v] = pc[v] \/ (pc[v] = "sleep" /\ pc'[v] = "test")
      BY <2>1, <2>2, WakingMoves
    <2>4. /\ \A v \in Workers : pc'[v] = "sleep" => pc[v] = "sleep"
          /\ Testing \subseteq Testing' /\ UNCHANGED work_queue
      BY <1>12, <2>3 DEF Testing, SpuriousWakeup
    <2>5. QED
      BY <2>3, <2>4, <1>a, NobodyLeaves
  <1>13. QED
    BY <1>1, <1>2, <1>3, <1>4, <1>5, <1>6, <1>7, <1>8, <1>9, <1>10, <1>11, <1>12, <1>14
       DEF Next, BossStep, WorkerStep, Finished

-----------------------------------------------------------------------------
(* The theorems                                                            *)

LEMMA InitInvariant == Init => IInv
  <1> SUFFICES ASSUME Init PROVE IInv
    OBVIOUS
  <1> USE PoolAssumption DEF Init
  <1>1. TypeOK
    <2>1. long \subseteq LongPaths /\ LongPaths \subseteq 0..(NPaths - 1)
      BY PoolAssumption DEF Init
    <2>2. long \subseteq 0..(NPaths - 1)
      BY <2>1
    <2>3. <<>> \in Seq(Requests)
      BY EmptySeq
    <2>4. next \in 0..NRequests /\ done \in Nat /\ counter \in Nat
      OBVIOUS
    <2>5. /\ boss \in BossStates
          /\ pc \in [Workers -> WorkerStates] /\ loops \in [Workers -> Nat]
          /\ item \in [Workers -> Requests \cup {NoItem}] /\ seen \in [Workers -> Nat]
          /\ local_path \in [Workers -> ((0..(NPaths - 1)) \X Nat) \cup {NoName}]
      BY DEF BossStates, WorkerStates
    <2>6. QED
      BY <2>2, <2>3, <2>4, <2>5 DEF TypeOK
  <1>2. BossInLoop
    BY DEF BossInLoop
  <1>3. RequestsInOnePlace /\ NoNeedlessSleep
    BY DEF RequestsInOnePlace, Busy, NoNeedlessSleep
  <1>4. DoneIsCounted
    BY FS_EmptySet DEF DoneIsCounted
  <1>5. BossLeavesLast
    BY DEF BossLeavesLast
  <1>6. QED
    BY <1>1, <1>2, <1>3, <1>4, <1>5 DEF IInv

LEMMA NextInvariant == IInv /\ [Next]_vars => IInv'
  BY NextType, NextInOnePlace, NextDone, NextLast, NextSleep DEF IInv

LEMMA Invariant == Spec => []IInv
  BY InitInvariant, NextInvariant, PTL DEF Spec

(* gfclient_download.c:160-217.  The variables of boss and workers keep    *)
(* their types; the loop of the boss never runs past nrequests.            *)
THEOREM TypesHold == Spec => []TypeOK
  <1>1. IInv => TypeOK
    BY DEF IInv
  <1>2. QED
    BY <1>1, Invariant, PTL

(* gfclient_download.c:160-173, 197-217.  No request is lost, and no two   *)
(* workers get hold of the same one.                                       *)
THEOREM OneWorkerEach == Spec => []RequestsInOnePlace
  <1>1. IInv => RequestsInOnePlace
    BY DEF IInv
  <1>2. QED
    BY <1>1, Invariant, PTL

(* gfclient_download.c:176-182, 212-214.  Whatever the signals wake, the   *)
(* boss leaves its loop only after the last request has been counted.      *)
THEOREM BossIsLast == Spec => []BossLeavesLast
  <1>1. IInv => BossLeavesLast
    BY DEF IInv
  <1>2. QED
    BY <1>1, Invariant, PTL

(* gfclient_download.c:169-172, 200-210.  One condition variable for two   *)
(* purposes loses no wakeup: requests in the queue have workers awake for  *)
(* them, or a signal to come, while any worker sleeps.                     *)
THEOREM NobodyOversleeps == Spec => []NoNeedlessSleep
  <1>1. IInv => NoNeedlessSleep
    BY DEF IInv
  <1>2. QED
    BY <1>1, Invariant, PTL

-----------------------------------------------------------------------------
(* The names of local files.  They are kept apart by the path, when it is  *)
(* requested once, and by the number, while no increment undoes another.   *)

Naming == {"signal", "name", "open"}

\* A file is there for a request that has been taken, whose worker has
\* opened it already.
Fresh ==
  \A d \in disk : \E r \in Requests :
    /\ PathOf(r) = d[1] /\ r < next - Len(work_queue)
    /\ \A w \in Workers : pc[w] \in Naming => item[w] # r

\* The numbers in use are below the counter.
Counts == ~raced => \A d \in disk : d[2] < counter

NInv == IInv /\ Fresh /\ Counts

\* What the steps do that neither take a request nor name a file.
LEMMA NamingMoves ==
  ASSUME TypeOK, [Next]_vars,
         \A w \in Workers : ~Take(w) /\ ~LoadCounter(w) /\ ~OpenLocal(w)
  PROVE  /\ UNCHANGED <<seen, counter, local_path, raced>> /\ disk' \subseteq disk
         /\ next' - Len(work_queue') = next - Len(work_queue)
         /\ \A w \in Workers : pc'[w] \in Naming =>
              /\ pc[w] \in Naming /\ item'[w] = item[w]
              /\ pc'[w] = "open" => pc[w] = "open"
  <1> USE DEF TypeOK
  <1> DEFINE Keeps == \A w \in Workers : pc'[w] \in Naming =>
                        /\ pc[w] \in Naming /\ item'[w] = item[w]
                        /\ pc'[w] = "open" => pc[w] = "open"
             Names == UNCHANGED <<seen, counter, local_path, raced, disk>>
             Queue == UNCHANGED <<next, work_queue>>
  <1>1. CASE UNCHANGED vars
    BY <1>1 DEF vars
  <1>2. CASE Enqueue
    <2>1. Len(work_queue) \in Nat /\ Len(work_queue') = Len(work_queue) + 1 /\ next' = next + 1
          /\ next \in Nat
      BY <1>2, PoolAssumption DEF Enqueue
    <2>2. next' - Len(work_queue') = next - Len(work_queue)
      BY <2>1
    <2>3. QED
      BY <1>2, <2>2 DEF Enqueue
  <1>3. CASE SignalEnqueued
    <2> DEFINE b == IF MoreToEnqueue THEN "enqueue" ELSE "await"
    <2>1. b \in BossStates /\ Signal(b, pc) /\ Names /\ Queue /\ item' = item
      BY <1>3 DEF BossStates, SignalEnqueued
    <2> HIDE DEF b
    <2>2. \A w \in Workers : pc'[w] = pc[w] \/ pc'[w] = "test"
      BY <2>1, SignalMoves
    <2>3. QED
      BY <2>1, <2>2 DEF Naming
  <1>4. CASE AwaitDone \/ Join \/ PathTooLong
    BY <1>4 DEF AwaitDone, Join, PathTooLong, Naming
  <1>5. CASE BroadcastDone
    <2>1. Broadcast("join", pc) /\ "join" \in BossStates /\ Names /\ Queue /\ item' = item
      BY <1>5 DEF BroadcastDone, BossStates
    <2>2. \A w \in Workers : pc'[w] = pc[w] \/ pc'[w] = "test"
      BY <2>1, BroadcastMoves
    <2>3. QED
      BY <2>1, <2>2 DEF Naming
  <1>6. ASSUME NEW w \in Workers, LoopHead(w) \/ FindNothing(w)
        PROVE  Keeps /\ Names /\ Queue
    BY <1>6 DEF LoopHead, FindNothing, Naming
  <1>7. ASSUME NEW w \in Workers, Perform(w) \/ Count(w)
        PROVE  Keeps /\ UNCHANGED <<seen, counter, local_path, raced>> /\ disk' \subseteq disk /\ Queue
    BY <1>7 DEF Perform, Count, Naming
  <1>8. ASSUME NEW w \in Workers, SignalTaken(w) PROVE Keeps /\ Names /\ Queue
    <2> DEFINE p == [pc EXCEPT ![w] = "name"]
    <2>1. /\ p \in [Workers -> WorkerStates] /\ Signal(boss, p) /\ boss \in BossStates
          /\ \A v \in Workers : pc[v] = "sleep" => p[v] = "sleep"
          /\ \A v \in Workers : p[v] = pc[v] \/ (pc[v] = "signal" /\ p[v] = "name")
      BY <1>8 DEF SignalTaken, WorkerStates
    <2> HIDE DEF p
    <2>2. \A v \in Workers : pc'[v] = p[v] \/ pc'[v] = "test"
      BY <2>1, SignalMoves
    <2>3. QED
      BY <1>8, <2>1, <2>2 DEF SignalTaken, Naming
  <1>9. ASSUME NEW w \in Workers, BroadcastCounted(w) PROVE Keeps /\ Names /\ Queue
    <2> DEFINE p == [pc EXCEPT ![w] = "head"]
    <2>1. /\ p \in [Workers -> WorkerStates] /\ Broadcast(boss, p) /\ boss \in BossStates
          /\ \A v \in Workers : pc[v] = "sleep" <=> p[v] = "sleep"
          /\ p[w] = "head" /\ \A v \in Workers : v # w => p[v] = pc[v]
      BY <1>9 DEF BroadcastCounted, WorkerStates
    <2> HIDE DEF p
    <2>2. \A v \in Workers : pc'[v] = p[v] \/ pc'[v] = "test"
      BY <2>1, BroadcastMoves
    <2>3. \A v \in Workers : v # w => item'[v] = item[v]
      BY <1>9 DEF BroadcastCounted
    <2>4. QED
      BY <1>9, <2>1, <2>2, <2>3 DEF BroadcastCounted, Naming
  <1>10. CASE SpuriousWakeup
    <2>1. PICK t \in Sleepers : Waking({t}, boss, pc)
      BY <1>10 DEF SpuriousWakeup
    <2>2. {t} \in SUBSET Sleepers
      OBVIOUS
    <2>3. \A v \in Workers : pc'[v] = pc[v] \/ pc'[v] = "test"
      BY <2>1, <2>2, WakingMoves
    <2>4. QED
      BY <1>10, <2>3 DEF SpuriousWakeup, Naming
  <1>11. QED
    BY <1>1, <1>2, <1>3, <1>4, <1>5, <1>6, <1>7, <1>8, <1>9, <1>10
       DEF Next, BossStep, WorkerStep, Finished

\* If the file that a worker opens is there, both have failed.
LEMMA OpensNew ==
  ASSUME NInv, NEW w \in Workers, OpenLocal(w), NameOf(item[w], seen[w]) \in disk
  PROVE  raced' /\ Repeated(item[w])
  <1> DEFINE d == NameOf(item[w], seen[w])
  <1>1. pc[w] = "open" /\ d[1] = PathOf(item[w]) /\ d[2] = seen[w] /\ d \in disk
    BY DEF OpenLocal, NameOf
  <1> HIDE DEF d
  <1>2. PICK r \in Requests : PathOf(r) = d[1] /\ item[w] # r
    BY <1>1 DEF NInv, Fresh, Naming
  <1>3. Repeated(item[w])
    BY <1>1, <1>2 DEF Repeated
  <1>4. raced'
    <2>1. SUFFICES ASSUME ~raced' PROVE FALSE
      OBVIOUS
    <2>2. ~raced /\ counter = seen[w]
      BY <2>1, Zenon DEF OpenLocal
    <2>3. seen[w] < counter /\ counter \in Nat
      BY <1>1, <2>2 DEF NInv, IInv, TypeOK, Counts
    <2>4. QED
      BY <2>2, <2>3
  <1>5. QED
    BY <1>3, <1>4

LEMMA NextFresh ==
  ASSUME NInv, [Next]_vars
  PROVE  Fresh'
  <1> DEFINE n == next - Len(work_queue)
  <1>1. Fresh /\ TypeOK /\ RequestsInOnePlace
    BY DEF NInv, IInv
  <1>2. ASSUME NEW w \in Workers, Take(w) PROVE Fresh'
    <2>1. /\ work_queue # <<>> /\ work_queue' = Tail(work_queue)
          /\ item' = [item EXCEPT ![w] = Head(work_queue)]
          /\ pc' = [pc EXCEPT ![w] = "signal"] /\ UNCHANGED <<next, disk>>
      BY <1>2 DEF Take
    <2>2. /\ Len(work_queue) \in Nat \ {0} /\ Len(work_queue') = Len(work_queue) - 1
          /\ Head(work_queue) = work_queue[1] /\ next \in Nat
      BY <1>1, <2>1, PoolAssumption DEF TypeOK
    <2>3. Head(work_queue) = n
      BY <1>1, <2>2 DEF RequestsInOnePlace
    <2>4. ASSUME NEW d \in disk, NEW r \in Requests, PathOf(r) = d[1], r < n,
                 \A v \in Workers : pc[v] \in Naming => item[v] # r
          PROVE  /\ r < next' - Len(work_queue')
                 /\ \A v \in Workers : pc'[v] \in Naming => item'[v] # r
      <3>1. r \in Int /\ r < next' - Len(work_queue') /\ r # n
        BY <2>1, <2>2, <2>4 DEF Requests
      <3>2. ASSUME NEW v \in Workers, pc'[v] \in Naming PROVE item'[v] # r
        <4>1. CASE v = w
          BY <1>1, <2>1, <2>3, <3>1, <4>1 DEF TypeOK
        <4>2. CASE v # w
          BY <1>1, <2>1, <2>4, <3>2, <4>2 DEF TypeOK
        <4>3. QED
          BY <4>1, <4>2
      <3>3. QED
        BY <3>1, <3>2
    <2>5. QED
      BY <1>1, <2>1, <2>4 DEF Fresh
  <1>3. ASSUME NEW w \in Workers, LoadCounter(w) PROVE Fresh'
    <2>1. /\ UNCHANGED <<disk, next, work_queue, item>>
          /\ \A v \in Workers : pc'[v] \in Naming => pc[v] \in Naming
      BY <1>1, <1>3 DEF LoadCounter, TypeOK, Naming
    <2>2. QED
      BY <1>1, <2>1 DEF Fresh
  <1>4. ASSUME NEW w \in Workers, OpenLocal(w) PROVE Fresh'
    <2>1. item[w] \in Requests /\ item[w] < n /\ pc[w] = "open"
      BY <1>1, <1>4 DEF RequestsInOnePlace, OpenLocal, Busy
    <2>2. /\ disk' = disk \cup {NameOf(item[w], seen[w])} /\ UNCHANGED <<next, work_queue, item>>
          /\ pc' = [pc EXCEPT ![w] = "perform"]
      BY <1>4 DEF OpenLocal
    <2>3. NameOf(item[w], seen[w])[1] = PathOf(item[w])
      BY DEF NameOf
    <2>4. \A v \in Workers : pc'[v] \in Naming => v # w /\ pc[v] \in Naming /\ item[v] # item[w]
      BY <1>1, <2>1, <2>2 DEF TypeOK, Naming, RequestsInOnePlace, Busy
    <2>5. ASSUME NEW d \in disk'
          PROVE  \E r \in Requests :
                   /\ PathOf(r) = d[1] /\ r < next' - Len(work_queue')
                   /\ \A v \in Workers : pc'[v] \in Naming => item'[v] # r
      <3>1. CASE d = NameOf(item[w], seen[w])
        BY <2>1, <2>2, <2>3, <2>4, <3>1
      <3>2. CASE d \in disk
        BY <1>1, <2>2, <2>4, <3>2 DEF Fresh
      <3>3. QED
        BY <2>2, <3>1, <3>2
    <2>6. QED
      BY <2>5 DEF Fresh
  <1>5. CASE \A w \in Workers : ~Take(w) /\ ~LoadCounter(w) /\ ~OpenLocal(w)
    <2>1. /\ disk' \subseteq disk /\ next' - Len(work_queue') = next - Len(work_queue)
          /\ \A w \in Workers : pc'[w] \in Naming => pc[w] \in Naming /\ item'[w] = item[w]
      BY <1>1, <1>5, NamingMoves
    <2>2. QED
      BY <1>1, <2>1 DEF Fresh
  <1>6. QED
    BY <1>2, <1>3, <1>4, <1>5

LEMMA NextCounts ==
  ASSUME NInv, [Next]_vars
  PROVE  Counts'
  <1>1. Counts /\ TypeOK
    BY DEF NInv, IInv
  <1>2. ASSUME NEW w \in Workers, Take(w) \/ LoadCounter(w) PROVE Counts'
    BY <1>1, <1>2 DEF Take, LoadCounter, Counts
  <1>3. ASSUME NEW w \in Workers, OpenLocal(w), ~raced' PROVE \A d \in disk' : d[2] < counter'
    <2>1. ~raced /\ counter = seen[w]
      BY <1>3, Zenon DEF OpenLocal
    <2>2. counter \in Nat /\ \A d \in disk : d[2] \in Nat /\ d[2] < counter
      BY <1>1, <2>1 DEF Counts, TypeOK
    <2>3. counter' = counter + 1 /\ disk' = disk \cup {NameOf(item[w], counter)}
      BY <1>3, <2>1 DEF OpenLocal
    <2>4. NameOf(item[w], counter)[2] = counter
      BY DEF NameOf
    <2>5. QED
      BY <2>2, <2>3, <2>4
  <1>4. CASE \A w \in Workers : ~Take(w) /\ ~LoadCounter(w) /\ ~OpenLocal(w)
    <2>1. UNCHANGED <<counter, raced>> /\ disk' \subseteq disk
      BY <1>1, <1>4, NamingMoves
    <2>2. QED
      BY <1>1, <2>1 DEF Counts
  <1>5. QED
    BY <1>2, <1>3, <1>4 DEF Counts

LEMMA NInvHolds == Spec => []NInv
  <1>1. Init => NInv
    <2>1. Init => Fresh /\ Counts
      BY DEF Init, Fresh, Counts
    <2>2. QED
      BY <2>1, InitInvariant DEF NInv
  <1>2. NInv /\ [Next]_vars => NInv'
    BY NextInvariant, NextFresh, NextCounts DEF NInv
  <1>3. QED
    BY <1>1, <1>2, PTL DEF Spec

(* gfclient_download.c:31-35, 37-63, 223-227.  For every number of         *)
(* workers, requests and paths, a worker truncates a local file that is    *)
(* there only if its path is requested twice and an increment of the       *)
(* unlocked counter has been undone by another: names are apart if no path *)
(* comes twice, and as long as no two increments overlap.                  *)
THEOREM OneWriterEach == Spec => OwnFile
  <1> DEFINE Own == \A w \in Workers :
                      local_path'[w] # local_path[w] /\ local_path'[w] \in disk =>
                        raced' /\ Repeated(item[w])
  <1>1. ASSUME NInv, [Next]_vars PROVE Own
    <2>1. ASSUME NEW w \in Workers, Take(w) \/ LoadCounter(w) PROVE Own
      BY <2>1 DEF Take, LoadCounter
    <2>2. ASSUME NEW w \in Workers, OpenLocal(w) PROVE Own
      <3>1. local_path' = [local_path EXCEPT ![w] = NameOf(item[w], seen[w])]
        BY <2>2 DEF OpenLocal
      <3>2. local_path \in [Workers -> ((0..(NPaths - 1)) \X Nat) \cup {NoName}]
        BY <1>1 DEF NInv, IInv, TypeOK
      <3>3. \A v \in Workers : v # w => local_path'[v] = local_path[v]
        BY <3>1, <3>2
      <3>4. local_path'[w] = NameOf(item[w], seen[w])
        BY <3>1, <3>2
      <3>5. local_path'[w] \in disk => raced' /\ Repeated(item[w])
        BY <1>1, <2>2, <3>4, OpensNew
      <3>6. QED
        BY <3>3, <3>5
    <2>3. CASE \A w \in Workers : ~Take(w) /\ ~LoadCounter(w) /\ ~OpenLocal(w)
      BY <1>1, <2>3, NamingMoves DEF NInv, IInv
    <2>4. QED
      BY <2>1, <2>2, <2>3
  <1>2. QED
    BY NInvHolds, <1>1, PTL DEF Spec, OwnFile

-----------------------------------------------------------------------------
(* The request that a worker, or the client of pr1/gflib, makes by         *)
(* gfc_perform.  Its module, GfClient, has variables of its own.           *)

\* Two sequences in a row.
LEMMA Concatenated ==
  ASSUME NEW S, NEW a \in Seq(S), NEW b \in Seq(S)
  PROVE  /\ a \o b \in Seq(S) /\ Len(a \o b) = Len(a) + Len(b)
         /\ \A i \in 1..(Len(a) + Len(b)) :
              (a \o b)[i] = IF i <= Len(a) THEN a[i] ELSE b[i - Len(a)]
  OBVIOUS

\* A piece of the stream.
LEMMA PieceOfStream ==
  ASSUME NEW s, Len(s) \in Nat, NEW p \in Nat, NEW n \in Nat \ {0}, p + n <= Len(s)
  PROVE  /\ Len(SubSeq(s, p + 1, p + n)) = n
         /\ \A i \in 1..n : SubSeq(s, p + 1, p + n)[i] = s[p + i]
  <1> DEFINE S == {s[i] : i \in (p + 1)..(p + n)}
             t == SubSeq(s, p + 1, p + n)
  <1>1. \A i \in (p + 1)..(p + n) : s[i] \in S
    OBVIOUS
  <1> HIDE DEF S
  <1>2. /\ Len(t) = (IF p + 1 <= p + n THEN (p + n) - (p + 1) + 1 ELSE 0)
        /\ \A i \in 1..((p + n) - (p + 1) + 1) : t[i] = s[(p + 1) + i - 1]
    BY <1>1, SubSeqProperties
  <1> HIDE DEF t
  <1>3. (p + n) - (p + 1) + 1 = n /\ \A i \in Int : (p + 1) + i - 1 = p + i
    OBVIOUS
  <1>4. Len(t) = n
    BY <1>2, <1>3
  <1>5. ASSUME NEW i \in 1..n PROVE t[i] = s[p + i]
    <2>1. i \in Int /\ i \in 1..((p + n) - (p + 1) + 1)
      BY <1>3
    <2>2. t[i] = s[(p + 1) + i - 1] /\ (p + 1) + i - 1 = p + i
      BY <1>2, <1>3, <2>1
    <2>3. QED
      BY <2>2
  <1>6. QED
    BY <1>4, <1>5 DEF t

\* What a server may send, byte by byte.
Symbols == Byte \cup {"header", " ", "eol"}

\* The stream of any server.
LEMMA StreamOfServer ==
  ASSUME response \in Responses
  PROVE  /\ Stream \in Seq(Symbols) /\ Len(Stream) \in Nat
         /\ response.status = "OK" => Stream[1] = "header"
         /\ response.status \in Kinds /\ response.length \in Nat
  <1> DEFINE a == response.header
             b == response.body
  <1>1. /\ a \in Seq({"header", " ", "eol"}) /\ b \in Seq(Byte)
        /\ response.status \in Kinds /\ response.length \in Nat
    BY GfClientAssumption DEF GfClientAssumption, Response
  <1>2. response.status = "OK" => a # <<>> /\ a[1] = "header"
    BY GfClientAssumption DEF GfClientAssumption
  <1>3. Stream = a \o b
    BY DEF Stream
  <1> HIDE DEF a, b
  <1>4. a \in Seq(Symbols) /\ b \in Seq(Symbols)
    <2>1. {"header", " ", "eol"} \subseteq Symbols /\ Byte \subseteq Symbols
      BY DEF Symbols
    <2>2. QED
      BY <1>1, <2>1, SeqMonotonic
  <1>5. /\ a \o b \in Seq(Symbols)
        /\ \A i \in 1..(Len(a) + Len(b)) : (a \o b)[i] = IF i <= Len(a) THEN a[i] ELSE b[i - Len(a)]
    BY <1>4, ConcatProperties
  <1>6. ASSUME response.status = "OK" PROVE (a \o b)[1] = "header"
    <2>1. Len(a) \in Nat \ {0} /\ Len(b) \in Nat
      BY <1>2, <1>4, <1>6, EmptySeq
    <2>2. 1 \in 1..(Len(a) + Len(b)) /\ 1 <= Len(a)
      BY <2>1
    <2>3. QED
      BY <1>2, <1>5, <1>6, <2>2
  <1>7. Len(a \o b) \in Nat
    BY <1>5
  <1>8. QED
    BY <1>1, <1>3, <1>5, <1>6, <1>7

\* What recv may return of it.
LEMMA PieceOfServer ==
  ASSUME response \in Responses, pos \in Nat, NEW n \in Pieces
  PROVE  /\ n \in Nat \ {0} /\ pos + n \in Nat /\ pos + n <= Len(Stream)
         /\ Len(Piece(n)) = n /\ \A i \in 1..n : Piece(n)[i] = Stream[pos + i]
         /\ Piece(n) \in Seq(Symbols)
  <1> DEFINE s == Stream
             q == Piece(n)
  <1>1. s \in Seq(Symbols) /\ Len(s) \in Nat
    BY StreamOfServer
  <1>2. n \in Nat \ {0} /\ pos + n <= Len(s) /\ pos + n \in Nat
    BY <1>1 DEF Pieces
  <1>3. q = SubSeq(s, pos + 1, pos + n)
    BY DEF Piece
  <1> HIDE DEF s, q
  <1>4. Len(q) = n /\ \A i \in 1..n : q[i] = s[pos + i]
    BY <1>1, <1>2, <1>3, PieceOfStream
  <1>5. \A i \in (pos + 1)..(pos + n) : s[i] \in Symbols
    BY <1>1, <1>2
  <1>6. pos + 1 \in Int /\ pos + n \in Int
    BY <1>2
  <1>7. q \in Seq(Symbols)
    BY <1>3, <1>5, <1>6, SubSeqProperties
  <1>8. QED
    BY <1>2, <1>4, <1>7 DEF s, q

\* What the caller has been given so far, of any server's stream: what follows
\* the place where the client takes the header to end.
Got ==
  /\ response \in Responses /\ pos \in Nat
  /\ file \in Seq(Symbols) /\ bytes_received = Len(file)
  /\ \A i \in 1..Len(file) : file[i] = Stream[HeaderLen + i]
  /\ file # <<>> => HeaderLen + Len(file) <= Len(Stream)
  /\ ~header_rcvd => file = <<>> /\ status # "OK" /\ (st \in {"send", "recv"} => pos = 0)
  /\ header_rcvd /\ st = "recv" => response.status = "OK" /\ pos = HeaderLen + Len(file)
  /\ header_rcvd /\ st = "recv" => status = "OK"
  /\ st = "send" => ~header_rcvd
  /\ status = "OK" => file_length = response.length

LEMMA GotNext ==
  ASSUME Got, [GetNext]_getVars
  PROVE  Got'
  <1> DEFINE s == Stream
  <1> USE DEF Got, HeaderLen
  <1>a. /\ s \in Seq(Symbols) /\ Len(s) \in Nat
        /\ response.status = "OK" => s[1] = "header"
    BY StreamOfServer
  <1>b. response' = response => s' = s
    BY DEF Stream
  <1>1. CASE UNCHANGED getVars
    BY <1>1, <1>b DEF getVars, recvVars
  <1>2. ASSUME (\E n \in SendSizes : Send(n)) \/ SendFails PROVE Got'
    <2>1. /\ st = "send" /\ st' \in {"send", "recv", "exited"}
          /\ UNCHANGED <<response, pos, header_rcvd, status, file_length, bytes_received, file>>
      BY <1>2 DEF Send, SendFails, recvVars
    <2>2. QED
      BY <1>b, <2>1
  <1>3. CASE NoHeader
    <2>1. pos' \in Nat /\ UNCHANGED <<response, file, bytes_received, header_rcvd, file_length>>
          /\ st' = "done" /\ status' # "OK" /\ ~header_rcvd
      BY <1>3 DEF NoHeader, Finish, Pieces
    <2>2. QED
      BY <1>b, <2>1
  <1>4. CASE HeaderOfFailure
    <2>1. pos' \in Nat /\ UNCHANGED <<response, file, bytes_received, file_length>>
          /\ st' = "done" /\ status' # "OK" /\ header_rcvd' /\ ~header_rcvd
      BY <1>4 DEF HeaderOfFailure, Pieces
    <2>2. QED
      BY <1>b, <2>1
  <1>5. CASE Header
    <2>1. /\ st = "recv" /\ ~header_rcvd /\ response.status = "OK" /\ pos = 0
          /\ header_rcvd' /\ status' = "OK" /\ file_length' = response.length
          /\ response' = response /\ st' \in {"done", "recv"}
      BY <1>5 DEF Header
    <2>2. PICK n \in Pieces :
            /\ \E i \in 1..n : Piece(n)[i] = "eol"
            /\ file' = AfterHeader(Piece(n))
            /\ bytes_received' = n - HeaderLen
            /\ pos' = pos + n
      BY <1>5 DEF Header
    <2> DEFINE q == Piece(n)
    <2>3. /\ n \in Nat \ {0} /\ n <= Len(s) /\ Len(q) = n
          /\ \A i \in 1..n : q[i] = s[pos + i]
          /\ q \in Seq(Symbols)
      BY <2>1, PieceOfServer
    <2>4. (\E i \in 1..n : q[i] = "eol") /\ file' = SubSeq(q, 3, n)
      BY <2>2, <2>3 DEF AfterHeader
    <2> HIDE DEF s, q
    <2>5. \A i \in 1..n : q[i] = s[i]
      BY <2>1, <2>3
    <2>6. n >= 2
      <3>1. PICK i \in 1..n : q[i] = "eol"
        BY <2>4
      <3>2. i # 1
        BY <1>a, <2>1, <2>3, <2>5, <3>1
      <3>3. QED
        BY <2>3, <3>1, <3>2
    <2>7. /\ file' \in Seq(Symbols) /\ Len(file') = n - 2
          /\ \A i \in 1..(n - 2) : file'[i] = q[i + 2]
      <3>0. \A i \in 3..n : q[i] \in Symbols
        BY <2>3
      <3>1. /\ SubSeq(q, 3, n) \in Seq(Symbols)
            /\ Len(SubSeq(q, 3, n)) = (IF 3 <= n THEN n - 3 + 1 ELSE 0)
            /\ \A i \in 1..(n - 3 + 1) : SubSeq(q, 3, n)[i] = q[3 + i - 1]
        BY <2>3, <3>0, SubSeqProperties
      <3>2. n - 3 + 1 = n - 2 /\ (~(3 <= n) => n - 2 = 0) /\ \A i \in Int : 3 + i - 1 = i + 2
        BY <2>3, <2>6
      <3>3. QED
        BY <2>4, <3>1, <3>2
    <2>8. \A i \in 1..(n - 2) : file'[i] = s[2 + i]
      <3>1. \A i \in 1..(n - 2) : i + 2 \in 1..n /\ i + 2 = 2 + i
        BY <2>3
      <3>2. QED
        BY <2>5, <2>7, <3>1
    <2>9. /\ bytes_received' = Len(file') /\ pos' = 2 + Len(file') /\ pos' \in Nat
          /\ 2 + Len(file') <= Len(s)
      BY <2>1, <2>2, <2>3, <2>6, <2>7
    <2>10. s' = s
      BY <1>b, <2>1
    <2>11. QED
      BY <2>1, <2>7, <2>8, <2>9, <2>10 DEF s
  <1>6. CASE Body
    <2>1. /\ st = "recv" /\ header_rcvd /\ response.status = "OK" /\ status = "OK"
          /\ pos = 2 + Len(file)
          /\ UNCHANGED <<response, header_rcvd, status, file_length>> /\ st' \in {"done", "recv"}
      BY <1>6 DEF Body
    <2>2. PICK n \in Pieces :
            /\ file' = file \o Piece(n)
            /\ bytes_received' = bytes_received + n
            /\ pos' = pos + n
      BY <1>6 DEF Body
    <2> DEFINE q == Piece(n)
               l == Len(file)
    <2>3. /\ n \in Nat \ {0} /\ pos + n <= Len(s) /\ Len(q) = n
          /\ \A i \in 1..n : q[i] = s[pos + i]
          /\ q \in Seq(Symbols) /\ l \in Nat
      BY PieceOfServer
    <2>4. /\ file \in Seq(Symbols) /\ pos = 2 + l
          /\ \A i \in 1..l : file[i] = s[2 + i]
      BY <2>1
    <2>5. file' = file \o q
      BY <2>2
    <2>6. s' = s
      BY <1>b, <2>1
    <2> HIDE DEF s, q
    <2>7. /\ file' \in Seq(Symbols) /\ Len(file') = l + n
          /\ \A i \in 1..(l + n) : file'[i] = IF i <= l THEN file[i] ELSE q[i - l]
      <3>1. /\ file \o q \in Seq(Symbols) /\ Len(file \o q) = Len(file) + Len(q)
            /\ \A i \in 1..(Len(file) + Len(q)) :
                 (file \o q)[i] = IF i <= Len(file) THEN file[i] ELSE q[i - Len(file)]
        <4>1. file \in Seq(Symbols) /\ q \in Seq(Symbols)
          BY <2>3, <2>4
        <4>2. QED
          BY <4>1, Concatenated
      <3>2. Len(file) = l /\ Len(q) = n
        BY <2>3 DEF l
      <3>3. QED
        BY <2>5, <3>1, <3>2
    <2> HIDE DEF l
    <2>8. \A i \in 1..(l + n) : file'[i] = s[2 + i]
      <3>1. \A i \in 1..(l + n) : i <= l => i \in 1..l
        BY <2>3
      <3>2. \A i \in 1..(l + n) : ~(i <= l) => i - l \in 1..n /\ pos + (i - l) = 2 + i
        BY <2>3, <2>4
      <3>3. QED
        <4>1. SUFFICES ASSUME NEW i \in 1..(l + n) PROVE file'[i] = s[2 + i]
          OBVIOUS
        <4>2. CASE i <= l
          <5>1. i \in 1..l /\ file'[i] = file[i]
            BY <2>7, <3>1, <4>2
          <5>2. QED
            BY <2>4, <5>1
        <4>3. CASE ~(i <= l)
          <5>1. file'[i] = q[i - l] /\ i - l \in 1..n /\ pos + (i - l) = 2 + i
            BY <2>7, <3>2, <4>3
          <5>2. q[i - l] = s[pos + (i - l)]
            BY <2>3, <5>1
          <5>3. QED
            BY <5>1, <5>2
        <4>4. QED
          BY <4>2, <4>3
    <2>9. /\ bytes_received' = Len(file') /\ pos' = 2 + Len(file') /\ pos' \in Nat
          /\ 2 + Len(file') <= Len(s)
      BY <2>2, <2>3, <2>4, <2>7 DEF l
    <2>10. QED
      BY <2>1, <2>6, <2>7, <2>8, <2>9 DEF s
  <1>7. CASE ClosedEarly
    BY <1>7, <1>b DEF ClosedEarly, Finish
  <1>8. CASE Reset
    BY <1>8, <1>b DEF Reset, recvVars
  <1>9. QED
    BY <1>1, <1>2, <1>3, <1>4, <1>5, <1>6, <1>7, <1>8 DEF GetNext

LEMMA GotHolds == GetSpec => []Got
  <1>1. GetInit => Got
    <2> SUFFICES ASSUME GetInit PROVE Got
      OBVIOUS
    <2>1. <<>> \in Seq(Symbols)
      BY EmptySeq
    <2>2. QED
      BY <2>1 DEF GetInit, Got
  <1>2. Got /\ [GetNext]_getVars => Got'
    BY GotNext
  <1>3. QED
    BY <1>1, <1>2, PTL DEF GetSpec

\* After a header without a space the file starts where the body does.
LEMMA BodyOfServer ==
  ASSUME Got, Conforms
  PROVE  StartOfBody
  <1> DEFINE a == response.header
             b == response.body
             f == file
             l == Len(f)
  <1>1. a = <<"header", "eol">> /\ b \in Seq(Byte) /\ Stream = a \o b
    BY GfClientAssumption DEF Got, Conforms, GfClientAssumption, Response, Stream
  <1>2. f \in Seq(Symbols) /\ l \in Nat
    BY DEF Got
  <1>3. /\ \A i \in 1..l : f[i] = (a \o b)[2 + i]
        /\ f # <<>> => 2 + l <= Len(a \o b)
    BY <1>1 DEF Got, HeaderLen
  <1>4. f = <<>> => l = 0
    BY <1>2, EmptySeq
  <1> HIDE DEF b, f
  <1>5. a \in Seq(Symbols) /\ b \in Seq(Symbols) /\ Len(a) = 2 /\ Len(b) \in Nat
    <2>1. Byte \subseteq Symbols /\ {"header", "eol"} \subseteq Symbols
      BY DEF Symbols
    <2>2. a \in Seq({"header", "eol"}) /\ Len(a) = 2
      BY <1>1
    <2>3. QED
      BY <1>1, <2>1, <2>2, SeqMonotonic
  <1> HIDE DEF a
  <1>6. /\ Len(a \o b) = 2 + Len(b)
        /\ \A i \in 1..(2 + Len(b)) : (a \o b)[i] = IF i <= 2 THEN a[i] ELSE b[i - 2]
    <2>1. /\ Len(a \o b) = Len(a) + Len(b)
          /\ \A i \in 1..(Len(a) + Len(b)) :
               (a \o b)[i] = IF i <= Len(a) THEN a[i] ELSE b[i - Len(a)]
      BY <1>5, Concatenated
    <2>2. QED
      BY <1>5, <2>1
  <1>7. l \in 0..Len(b)
    BY <1>2, <1>3, <1>4, <1>5, <1>6
  <1>8. \A i \in 1..l : f[i] = b[i]
    <2>1. \A i \in 1..l : 2 + i \in 1..(2 + Len(b)) /\ ~(2 + i <= 2) /\ (2 + i) - 2 = i
      BY <1>2, <1>5, <1>7
    <2>2. QED
      BY <1>3, <1>6, <2>1
  <1>9. /\ SubSeq(b, 1, l) \in Seq(Symbols) /\ Len(SubSeq(b, 1, l)) = l
        /\ \A i \in 1..l : SubSeq(b, 1, l)[i] = b[i]
    BY <1>5, <1>7
  <1>10. f = SubSeq(b, 1, l)
    BY <1>2, <1>8, <1>9, SeqEqual
  <1>11. QED
    BY <1>7, <1>10 DEF StartOfBody, f, b

(* gfclient.c:163-243 and pr1/README.md:231-232.  However the response of  *)
(* any server is cut, what gfc_perform has given to its caller is counted, *)
(* and is the start of what follows a header without a space.              *)
THEOREM GivenFromStart == GetSpec => []GivenIsStart
  <1>1. Got => GivenIsStart
    BY BodyOfServer DEF Got, GivenIsStart
  <1>2. QED
    BY <1>1, GotHolds, PTL

(* gfclient.c:25-31, 219-231 and gfclient_download.c:154-166.  A local     *)
(* file that is kept has the length announced, from any server, and is the *)
(* start of the body after a header without a space.                       *)
THEOREM WholeIsKept == GetSpec => []KeptIsWhole
  <1>1. ASSUME Got PROVE KeptIsWhole
    <2>1. ASSUME Kept PROVE Len(file) = response.length
      BY <1>1, <2>1 DEF Got, Kept, ReturnCode
    <2>2. QED
      BY <1>1, <2>1, BodyOfServer DEF KeptIsWhole
  <1>2. QED
    BY <1>1, GotHolds, PTL

\* The types, and that nothing of the response is read before the header.
GInv ==
  /\ st \in {"send", "recv", "done", "crashed", "exited"}
  /\ request \in Seq({"request", "eol"}) /\ sent \in Nat
  /\ response \in Responses /\ pos \in Nat /\ pos <= Len(Stream)
  /\ header_rcvd \in BOOLEAN /\ status \in Kinds
  /\ file_length \in Nat /\ bytes_received \in Nat
  /\ file \in Seq(Symbols)
  /\ st = "send" => ~header_rcvd
  /\ ~header_rcvd /\ st \in {"send", "recv"} => pos = 0

LEMMA GetTypesNext ==
  ASSUME GInv, [GetNext]_getVars
  PROVE  GInv'
  <1> USE DEF GInv
  <1>a. /\ response \in Responses /\ Len(Stream) \in Nat /\ pos \in Nat
        /\ response.status = "OK" => Stream[1] = "header"
        /\ response.status \in Kinds /\ response.length \in Nat
    BY StreamOfServer
  <1>b. UNCHANGED Stream \/ response' # response
    BY DEF Stream
  <1>1. ASSUME NEW n \in SendSizes, Send(n) PROVE GInv'
    <2>1. n \in 1..2
      BY GfClientAssumption DEF GfClientAssumption, Request
    <2>2. SubSeq(Request, 1, n) \in Seq({"request", "eol"})
      BY <2>1 DEF Request
    <2>3. request' \in Seq({"request", "eol"})
      BY <1>1, <2>2, ConcatProperties DEF Send
    <2>4. /\ st = "send" /\ st' \in {"send", "recv"} /\ sent' = sent + n
          /\ UNCHANGED <<response, pos, header_rcvd, status, file_length, bytes_received, file>>
      BY <1>1 DEF Send, recvVars
    <2>5. QED
      BY <1>b, <2>1, <2>3, <2>4
  <1>2. ASSUME NoHeader \/ ClosedEarly PROVE GInv'
    <2>1. pos' = pos \/ \E n \in Pieces : pos' = pos + n
      BY <1>2 DEF NoHeader, ClosedEarly
    <2>2. pos' \in Nat /\ pos' <= Len(Stream)
      BY <1>a, <2>1, PieceOfServer
    <2>3. /\ st' = "done" /\ status' \in Kinds
          /\ UNCHANGED <<request, sent, response, header_rcvd, file_length, bytes_received, file>>
      BY <1>2 DEF NoHeader, ClosedEarly, Finish, Kinds
    <2>4. QED
      BY <1>b, <2>2, <2>3
  <1>3. ASSUME HeaderOfFailure PROVE GInv'
    <2>1. \E n \in Pieces : pos' = pos + n
      BY <1>3 DEF HeaderOfFailure
    <2>2. pos' \in Nat /\ pos' <= Len(Stream)
      BY <1>a, <2>1, PieceOfServer
    <2>3. /\ st' = "done" /\ status' \in Kinds /\ header_rcvd' = TRUE
          /\ UNCHANGED <<request, sent, response, file_length, bytes_received, file>>
      BY <1>3, <1>a DEF HeaderOfFailure
    <2>4. QED
      BY <1>b, <2>2, <2>3
  <1>4. ASSUME Header PROVE GInv'
    <2>1. /\ ~header_rcvd /\ response.status = "OK" /\ pos = 0
          /\ header_rcvd' = TRUE /\ status' = "OK" /\ file_length' = response.length
          /\ st' \in {"done", "recv"} /\ UNCHANGED <<request, sent, response>>
      BY <1>4 DEF Header
    <2>2. PICK n \in Pieces :
            /\ \E i \in 1..n : Piece(n)[i] = "eol"
            /\ file' = AfterHeader(Piece(n))
            /\ bytes_received' = n - HeaderLen
            /\ pos' = pos + n
      BY <1>4 DEF Header
    <2> DEFINE q == Piece(n)
    <2>3. /\ n \in Nat \ {0} /\ pos + n \in Nat /\ pos + n <= Len(Stream)
          /\ Len(q) = n /\ \A i \in 1..n : q[i] = Stream[pos + i]
          /\ q \in Seq(Symbols)
      BY <1>a, PieceOfServer
    <2>4. (\E i \in 1..n : q[i] = "eol") /\ file' = SubSeq(q, 3, n) /\ bytes_received' = n - 2
      BY <2>2, <2>3 DEF AfterHeader, HeaderLen
    <2> HIDE DEF q
    <2>5. n >= 2
      <3>1. q[1] = "header"
        BY <1>a, <2>1, <2>3
      <3>2. n # 1
        BY <2>4, <3>1
      <3>3. QED
        BY <2>3, <3>2
    <2>6. file' \in Seq(Symbols)
      <3>1. \A i \in 3..n : q[i] \in Symbols
        BY <2>3
      <3>2. SubSeq(q, 3, n) \in Seq(Symbols)
        BY <2>3, <3>1, SubSeqProperties
      <3>3. QED
        BY <2>4, <3>2
    <2>7. bytes_received' \in Nat /\ pos' \in Nat /\ pos' <= Len(Stream)
      BY <2>2, <2>3, <2>4, <2>5
    <2>8. "OK" \in Kinds
      BY DEF Kinds
    <2>9. QED
      BY <1>a, <1>b, <2>1, <2>6, <2>7, <2>8
  <1>5. ASSUME Body PROVE GInv'
    <2>1. /\ st = "recv" /\ header_rcvd /\ st' \in {"done", "recv"}
          /\ UNCHANGED <<request, sent, response, header_rcvd, status, file_length>>
      BY <1>5 DEF Body
    <2>2. PICK n \in Pieces :
            /\ file' = file \o Piece(n)
            /\ bytes_received' = bytes_received + n
            /\ pos' = pos + n
      BY <1>5 DEF Body
    <2>3. /\ n \in Nat \ {0} /\ pos + n \in Nat /\ pos + n <= Len(Stream)
          /\ Piece(n) \in Seq(Symbols)
      BY <1>a, PieceOfServer
    <2>4. file' \in Seq(Symbols)
      BY <2>2, <2>3, ConcatProperties
    <2>5. bytes_received' \in Nat /\ pos' \in Nat /\ pos' <= Len(Stream)
      BY <2>2, <2>3
    <2>6. QED
      BY <1>b, <2>1, <2>4, <2>5
  <1>6. ASSUME Reset \/ SendFails \/ UNCHANGED getVars PROVE GInv'
    <2>1. /\ st' = st \/ st' = "crashed" \/ st' = "exited"
          /\ UNCHANGED <<request, sent, response, pos, header_rcvd, status, file_length, bytes_received, file>>
      BY <1>6 DEF Reset, SendFails, getVars, recvVars
    <2>2. QED
      BY <1>b, <2>1
  <1>7. QED
    BY <1>1, <1>2, <1>3, <1>4, <1>5, <1>6 DEF GetNext

(* gfclient.c:163-243.  What gfc_perform counts and keeps has its type for *)
(* any body, short, long or of another file, of a server that starts the   *)
(* header of a file with its words: bytes_received never falls below 0     *)
(* when the header is taken off, and nothing is read past the stream.      *)
THEOREM GetTypes == GetSpec => []GetTypeOK
  <1>1. GetInit => GInv
    <2> SUFFICES ASSUME GetInit PROVE GInv
      OBVIOUS
    <2>1. response \in Responses
      BY DEF GetInit
    <2>2. Len(Stream) \in Nat
      BY <2>1, StreamOfServer
    <2>3. /\ st = "send" /\ request = <<>> /\ sent = 0 /\ pos = 0
          /\ header_rcvd = FALSE /\ status = "INVALID"
          /\ file_length = 0 /\ bytes_received = 0 /\ file = <<>>
      BY DEF GetInit
    <2>4. "INVALID" \in Kinds
      BY DEF Kinds
    <2>5. <<>> \in Seq(Symbols) /\ <<>> \in Seq({"request", "eol"})
      BY EmptySeq
    <2>6. pos \in Nat /\ pos <= Len(Stream) /\ sent \in Nat
          /\ file_length \in Nat /\ bytes_received \in Nat
      BY <2>2, <2>3
    <2>7. QED
      BY <2>1, <2>3, <2>4, <2>5, <2>6 DEF GInv
  <1>2. GInv /\ [GetNext]_getVars => GInv'
    BY GetTypesNext
  <1>3. GInv => GetTypeOK
    <2>1. response \in Responses => Len(Stream) \in Nat
      BY StreamOfServer
    <2>2. ASSUME GInv PROVE pos \in 0..Len(Stream)
      BY <2>1, <2>2 DEF GInv
    <2>3. Seq(Symbols) = Seq(Byte \cup {"header", " ", "eol"})
      BY DEF Symbols
    <2>4. QED
      BY <2>2, <2>3, Zenon DEF GInv, GetTypeOK
  <1>4. QED
    BY <1>1, <1>2, <1>3, PTL DEF GetSpec
=============================================================================
