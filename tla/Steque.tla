------------------------------- MODULE Steque -------------------------------
(***************************************************************************)
(* The queue that every pool of the project waits on, steque.c (the copies *)
(* in pr1/mtgf, pr3/cache and pr3/server are the same program): a singly   *)
(* linked list with pointers to both ends and a count of its nodes.  The   *)
(* callers hold their mutex, so that a call is one step.                   *)
(*                                                                         *)
(* Abstractions: a node is an address that malloc may return; malloc       *)
(* succeeds; a node that is free or new keeps whatever it held.            *)
(***************************************************************************)
EXTENDS Integers, Sequences, FiniteSets, Functions

CONSTANTS
  Nodes,  \* the addresses malloc may return
  Items,  \* what is put into the queue
  NULL,
  NoItem  \* no answer yet, the item of a node that never had one

ASSUME StequeAssumption == NULL \notin Nodes /\ NoItem \notin Items

VARIABLES
  front, back, N, \* the fields of steque_t
  item, next,     \* the fields of each node
  allocated,      \* the nodes that are not free
  ans,            \* what the last steque_pop or steque_front returned
  mode            \* "ready", "destroy" in steque_destroy, "exited"

list == <<front, back, N>>
vars == <<list, item, next, allocated, ans, mode>>

\* steque_init; memory holds anything.
Init ==
  /\ front = NULL /\ back = NULL /\ N = 0
  /\ item = [n \in Nodes |-> NoItem]
  /\ next \in [Nodes -> Nodes \cup {NULL}]
  /\ allocated = {}
  /\ ans = NoItem
  /\ mode = "ready"

\* malloc, and the item of the new node.
NewNode(n, x) ==
  /\ n \notin allocated
  /\ allocated' = allocated \cup {n}
  /\ item' = [item EXCEPT ![n] = x]

\* A node behind the last one.
Enqueue(n, x) ==
  /\ mode = "ready"
  /\ NewNode(n, x)
  /\ front' = IF back = NULL THEN n ELSE front
  /\ next' = IF back = NULL THEN [next EXCEPT ![n] = NULL]
             ELSE [next EXCEPT ![n] = NULL, ![back] = n]
  /\ back' = n
  /\ N' = N + 1
  /\ UNCHANGED <<ans, mode>>

\* Mutant: the first node pushed is not the last one too.
Push_NoBack(n, x) ==
  /\ mode = "ready"
  /\ NewNode(n, x)
  /\ next' = [next EXCEPT ![n] = front]
  /\ front' = n
  /\ N' = N + 1
  /\ UNCHANGED <<back, ans, mode>>

\* A node before the first one.
Push(n, x) ==
  /\ mode = "ready"
  /\ NewNode(n, x)
  /\ next' = [next EXCEPT ![n] = front]
  /\ back' = IF back = NULL THEN n ELSE back
  /\ front' = n
  /\ N' = N + 1
  /\ UNCHANGED <<ans, mode>>

\* The back of the queue once f is its front.
AfterPop(f) == IF f = NULL THEN NULL ELSE back

\* The first node is unlinked and freed.
Remove ==
  /\ front # NULL
  /\ ans' = item[front]
  /\ front' = next[front]
  /\ back' = AfterPop(next[front])
  /\ allocated' = allocated \ {front}
  /\ N' = N - 1
  /\ UNCHANGED <<item, next>>

Pop == mode = "ready" /\ Remove /\ UNCHANGED mode

\* Mutant: the wrong end.
Front_Back ==
  /\ mode = "ready" /\ front # NULL
  /\ ans' = item[back]
  /\ UNCHANGED <<list, item, next, allocated, mode>>

Front ==
  /\ mode = "ready" /\ front # NULL
  /\ ans' = item[front]
  /\ UNCHANGED <<list, item, next, allocated, mode>>

\* steque_pop and steque_front end the program when there is no front.
Underflow ==
  /\ mode = "ready" /\ front = NULL
  /\ mode' = "exited"
  /\ UNCHANGED <<list, item, next, allocated, ans>>

\* Mutant: the new last node keeps its link.
Cycle_NoNull ==
  /\ mode = "ready" /\ back # NULL
  /\ next' = [next EXCEPT ![back] = front]
  /\ front' = next'[front]
  /\ back' = front
  /\ UNCHANGED <<N, item, allocated, ans, mode>>

\* The first node becomes the last one, by four assignments in a row; with
\* one node in the queue, back and front are the same node throughout.
Cycle ==
  /\ mode = "ready" /\ back # NULL
  /\ LET linked == [next EXCEPT ![back] = front] IN
       /\ front' = linked[front]
       /\ next' = [linked EXCEPT ![front] = NULL]
  /\ back' = front
  /\ UNCHANGED <<N, item, allocated, ans, mode>>

\* steque_destroy pops until steque_isempty, which looks at N.
Destroy ==
  /\ mode = "ready" /\ mode' = "destroy"
  /\ UNCHANGED <<list, item, next, allocated, ans>>
DestroyPop == mode = "destroy" /\ N # 0 /\ Remove /\ UNCHANGED mode
DestroyDone ==
  /\ mode = "destroy" /\ N = 0 /\ mode' = "ready"
  /\ UNCHANGED <<list, item, next, allocated, ans>>

Next ==
  \/ \E n \in Nodes, x \in Items : Enqueue(n, x) \/ Push(n, x)
  \/ Pop \/ Front \/ Cycle \/ Underflow
  \/ Destroy \/ DestroyPop \/ DestroyDone

Spec == Init /\ [][Next]_vars

-----------------------------------------------------------------------------
\* The values each variable takes.  steque_destroy never finds a queue that
\* has nodes by its count and none by its front.
TypeOK ==
  /\ front \in Nodes \cup {NULL} /\ back \in Nodes \cup {NULL} /\ N \in Nat
  /\ item \in [Nodes -> Items \cup {NoItem}]
  /\ next \in [Nodes -> Nodes \cup {NULL}]
  /\ allocated \subseteq Nodes
  /\ ans \in Items \cup {NoItem}
  /\ mode \in {"ready", "destroy", "exited"}
  /\ \A n \in allocated : item[n] \in Items
  /\ mode = "destroy" /\ N # 0 => front # NULL

\* c lists the nodes of the queue from front to back.
Linked(c) ==
  /\ front = IF N = 0 THEN NULL ELSE c[1]
  /\ back = IF N = 0 THEN NULL ELSE c[N]
  /\ \A i \in 1..N : next[c[i]] = IF i = N THEN NULL ELSE c[i + 1]

(* steque.c.  After every sequence of calls the two pointers, the links    *)
(* and the count agree: the list from front ends at back after N nodes, it *)
(* has no cycle, and its nodes are exactly those that are allocated.  No   *)
(* call follows a stale pointer, and none leaks a node.                    *)
WellLinked == \E c \in Bijection(1..N, allocated) : Linked(c)

\* The nodes one meets on the way from front.
Walk == LET w[i \in 1..N] == IF i = 1 THEN front ELSE next[w[i - 1]] IN w

Abstract == INSTANCE Deque WITH
  q <- [i \in 1..N |-> item[Walk[i]]], dead <- mode = "exited"

(* steque.h: the linked list implements a sequence of items; pop and front *)
(* end the program exactly when it is empty.                               *)
ImplementsDeque == Abstract!Spec
=============================================================================
