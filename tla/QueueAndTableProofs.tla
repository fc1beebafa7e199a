------------------------ MODULE QueueAndTableProofs ------------------------
(***************************************************************************)
(* Theorems about the two data structures of the multithreaded server,     *)
(* which the cache daemon has too.  First Steque, for every set of nodes   *)
(* and of items: the invariant is inductive once it is joined to the       *)
(* types; each operation has a lemma that builds the new list of nodes     *)
(* from the old one.  From the same lists follows that the queue           *)
(* implements Deque.                                                       *)
(*                                                                         *)
(* Then ContentTable, for every content file, every number of threads and  *)
(* every key.  The invariant that carries these theorems says what is in   *)
(* the table in each phase: the lines read so far, in their order; then a  *)
(* sorted rearrangement of all of them.                                    *)
(***************************************************************************)
EXTENDS Steque, ContentTable, FiniteSetTheorems, SequenceTheorems, TLAPS

\* c lists the nodes of the queue.
ListOf(c) == c \in Bijection(1..N, allocated) /\ Linked(c)

-----------------------------------------------------------------------------
\* What a bijection is, and what makes one.
LEMMA BijectionFacts ==
  ASSUME NEW S, NEW T, NEW c \in Bijection(S, T)
  PROVE  /\ c \in [S -> T]
         /\ \A i, j \in S : c[i] = c[j] => i = j
         /\ \A t \in T : \E i \in S : c[i] = t
  BY DEF Bijection, Injection, Surjection, IsInjective

\* An injective function onto its range is a bijection.
LEMMA BijectionFrom ==
  ASSUME NEW S, NEW T, NEW c \in [S -> T],
         \A i, j \in S : c[i] = c[j] => i = j,
         \A t \in T : \E i \in S : c[i] = t
  PROVE  c \in Bijection(S, T)
  BY DEF Bijection, Injection, Surjection, IsInjective

\* The list of nodes c of a queue, spelled out.
LEMMA ListOfNodes ==
  ASSUME TypeOK, WellLinked
  PROVE  \E c \in [1..N -> allocated] :
           /\ ListOf(c)
           /\ \A i, j \in 1..N : c[i] = c[j] => i = j
           /\ \A n \in allocated : \E i \in 1..N : c[i] = n
           /\ front = IF N = 0 THEN NULL ELSE c[1]
           /\ back = IF N = 0 THEN NULL ELSE c[N]
           /\ \A i \in 1..N : next[c[i]] = IF i = N THEN NULL ELSE c[i + 1]
  <1>1. PICK c \in Bijection(1..N, allocated) : Linked(c)
    BY DEF WellLinked
  <1>2. /\ c \in [1..N -> allocated]
        /\ \A i, j \in 1..N : c[i] = c[j] => i = j
        /\ \A n \in allocated : \E i \in 1..N : c[i] = n
    BY DEF Bijection, Injection, Surjection, IsInjective
  <1>3. /\ front = IF N = 0 THEN NULL ELSE c[1]
        /\ back = IF N = 0 THEN NULL ELSE c[N]
        /\ \A i \in 1..N : next[c[i]] = IF i = N THEN NULL ELSE c[i + 1]
    BY <1>1 DEF Linked
  <1>4. QED
    BY <1>1, <1>2, <1>3 DEF ListOf

\* An empty queue is one without a front, and without a back.
LEMMA EmptyQueue ==
  ASSUME TypeOK, WellLinked
  PROVE  (front = NULL <=> N = 0) /\ (back = NULL <=> N = 0)
  <1>1. PICK c \in [1..N -> allocated] :
           /\ front = IF N = 0 THEN NULL ELSE c[1]
           /\ back = IF N = 0 THEN NULL ELSE c[N]
    BY ListOfNodes
  <1>2. N # 0 => c[1] \in Nodes /\ c[N] \in Nodes
    BY DEF TypeOK
  <1>3. QED
    BY <1>1, <1>2, StequeAssumption

-----------------------------------------------------------------------------
\* The list grows at its end.
LEMMA EnqueueLinked ==
  ASSUME TypeOK, WellLinked, NEW n \in Nodes, NEW x \in Items, Enqueue(n, x)
  PROVE  \E c : /\ ListOf(c)
               /\ \E d : ListOf(d)' /\ d = [i \in 1..(N + 1) |-> IF i = N + 1 THEN n ELSE c[i]]
  <1>1. PICK c \in [1..N -> allocated] :
           /\ ListOf(c)
           /\ \A i, j \in 1..N : c[i] = c[j] => i = j
           /\ \A m \in allocated : \E i \in 1..N : c[i] = m
           /\ front = IF N = 0 THEN NULL ELSE c[1]
           /\ back = IF N = 0 THEN NULL ELSE c[N]
           /\ \A i \in 1..N : next[c[i]] = IF i = N THEN NULL ELSE c[i + 1]
    BY ListOfNodes
  <1>2. PICK d : d = [i \in 1..(N + 1) |-> IF i = N + 1 THEN n ELSE c[i]]
    OBVIOUS
  <1>3. N \in Nat /\ N' = N + 1 /\ n \notin allocated /\ allocated' = allocated \cup {n}
    BY DEF TypeOK, Enqueue, NewNode
  <1>4. d \in [1..N' -> allocated']
    BY <1>2, <1>3
  <1>5. \A i \in 1..N : i \in 1..(N + 1) /\ i # N + 1 /\ d[i] = c[i]
    BY <1>2, <1>3
  <1>6. d[N + 1] = n /\ \A i \in 1..N : d[i] # n
    BY <1>2, <1>3, <1>5
  <1>7. \A i, j \in 1..N' : d[i] = d[j] => i = j
    BY <1>1, <1>3, <1>5, <1>6
  <1>8. \A m \in allocated' : \E i \in 1..N' : d[i] = m
    <2>1. TAKE m \in allocated'
    <2>2. CASE m = n
      BY <2>2, <1>3, <1>6
    <2>3. CASE m # n
      <3>1. PICK i \in 1..N : c[i] = m
        BY <1>1, <1>3, <2>3
      <3>2. QED
        BY <3>1, <1>3, <1>5
    <2>4. QED
      BY <2>2, <2>3
  <1>9. d \in Bijection(1..N', allocated')
    BY <1>4, <1>7, <1>8, BijectionFrom
  <1>10. front' = d[1] /\ back' = d[N']
    BY <1>1, <1>3, <1>5, <1>6, EmptyQueue DEF Enqueue
  <1>11. \A i \in 1..N' : next'[d[i]] = IF i = N' THEN NULL ELSE d[i + 1]
    <2>1. CASE N = 0
      BY <2>1, <1>3, <1>6, EmptyQueue DEF Enqueue, TypeOK
    <2>2. CASE N # 0
      <3>1. /\ back = c[N] /\ back \in Nodes /\ back # n
            /\ next' = [next EXCEPT ![n] = NULL, ![back] = n]
        BY <2>2, <1>1, <1>3, EmptyQueue DEF Enqueue, TypeOK
      <3>2. next'[n] = NULL /\ next'[back] = n
        BY <3>1 DEF TypeOK
      <3>3. \A i \in 1..(N - 1) : next'[c[i]] = c[i + 1]
        BY <1>1, <1>3, <3>1 DEF TypeOK
      <3>4. TAKE i \in 1..N'
      <3>5. CASE i = N + 1
        BY <3>5, <3>2, <1>3, <1>6
      <3>6. CASE i = N
        BY <3>6, <3>1, <3>2, <1>3, <1>5, <1>6, <2>2
      <3>7. CASE i \in 1..(N - 1)
        <4>1. i \in 1..N /\ i + 1 \in 1..N /\ i # N'
          BY <3>7, <1>3
        <4>2. d[i] = c[i] /\ d[i + 1] = c[i + 1]
          BY <4>1, <1>5
        <4>3. QED
          BY <4>1, <4>2, <3>3, <3>7
      <3>8. QED
        BY <3>5, <3>6, <3>7, <1>3
    <2>3. QED
      BY <2>1, <2>2
  <1>12. ListOf(d)'
    BY <1>3, <1>9, <1>10, <1>11 DEF ListOf, Linked
  <1>13. QED
    BY <1>1, <1>2, <1>12

\* The list grows at its start.
LEMMA PushLinked ==
  ASSUME TypeOK, WellLinked, NEW n \in Nodes, NEW x \in Items, Push(n, x)
  PROVE  \E c : /\ ListOf(c)
               /\ \E d : ListOf(d)' /\ d = [i \in 1..(N + 1) |-> IF i = 1 THEN n ELSE c[i - 1]]
  <1>1. PICK c \in [1..N -> allocated] :
           /\ ListOf(c)
           /\ \A i, j \in 1..N : c[i] = c[j] => i = j
           /\ \A m \in allocated : \E i \in 1..N : c[i] = m
           /\ front = IF N = 0 THEN NULL ELSE c[1]
           /\ back = IF N = 0 THEN NULL ELSE c[N]
           /\ \A i \in 1..N : next[c[i]] = IF i = N THEN NULL ELSE c[i + 1]
    BY ListOfNodes
  <1>2. PICK d : d = [i \in 1..(N + 1) |-> IF i = 1 THEN n ELSE c[i - 1]]
    OBVIOUS
  <1>3. N \in Nat /\ N' = N + 1 /\ n \notin allocated /\ allocated' = allocated \cup {n}
    BY DEF TypeOK, Push, NewNode
  <1>4. d \in [1..N' -> allocated']
    BY <1>2, <1>3
  <1>5. \A i \in 2..(N + 1) : i - 1 \in 1..N /\ d[i] = c[i - 1] /\ d[i] # n
    BY <1>2, <1>3
  <1>6. d[1] = n
    BY <1>2, <1>3
  <1>7. \A i, j \in 1..N' : d[i] = d[j] => i = j
    <2>1. TAKE i, j \in 1..N'
    <2>2. CASE i = 1 \/ j = 1
      BY <2>2, <1>3, <1>5, <1>6
    <2>3. CASE i # 1 /\ j # 1
      BY <2>3, <1>1, <1>3, <1>5
    <2>4. QED
      BY <2>2, <2>3
  <1>8. \A m \in allocated' : \E i \in 1..N' : d[i] = m
    <2>1. TAKE m \in allocated'
    <2>2. CASE m = n
      BY <2>2, <1>3, <1>6
    <2>3. CASE m # n
      <3>1. PICK i \in 1..N : c[i] = m
        BY <1>1, <1>3, <2>3
      <3>2. i + 1 \in 2..(N + 1) /\ i + 1 \in 1..N' /\ d[i + 1] = m
        BY <3>1, <1>3, <1>5
      <3>3. QED
        BY <3>2
    <2>4. QED
      BY <2>2, <2>3
  <1>9. d \in Bijection(1..N', allocated')
    BY <1>4, <1>7, <1>8, BijectionFrom
  <1>10. front' = d[1] /\ back' = d[N']
    <2>1. CASE N = 0
      BY <2>1, <1>3, <1>6, EmptyQueue DEF Push
    <2>2. CASE N # 0
      BY <2>2, <1>1, <1>3, <1>5, <1>6, EmptyQueue DEF Push
    <2>3. QED
      BY <2>1, <2>2
  <1>11. next'[n] = front /\ \A i \in 1..N : next'[c[i]] = next[c[i]]
    BY <1>3 DEF Push, TypeOK
  <1>12. \A i \in 1..N' : next'[d[i]] = IF i = N' THEN NULL ELSE d[i + 1]
    <2>1. TAKE i \in 1..N'
    <2>2. CASE i = 1
      <3>1. CASE N = 0
        BY <2>2, <3>1, <1>1, <1>3, <1>6, <1>11
      <3>2. CASE N # 0
        BY <2>2, <3>2, <1>1, <1>3, <1>5, <1>6, <1>11
      <3>3. QED
        BY <3>1, <3>2
    <2>3. CASE i # 1
      <3>1. i - 1 \in 1..N /\ d[i] = c[i - 1]
        BY <2>3, <1>3, <1>5
      <3>2. i # N' => d[i + 1] = c[i]
        BY <2>3, <1>3, <1>5
      <3>3. QED
        BY <3>1, <3>2, <1>1, <1>3, <1>11
    <2>4. QED
      BY <2>2, <2>3
  <1>13. ListOf(d)'
    BY <1>3, <1>9, <1>10, <1>12 DEF ListOf, Linked
  <1>14. QED
    BY <1>1, <1>2, <1>13

\* The list loses its first node.
LEMMA RemoveLinked ==
  ASSUME TypeOK, WellLinked, Remove
  PROVE  \E c : /\ ListOf(c)
               /\ \E d : ListOf(d)' /\ d = [i \in 1..(N - 1) |-> c[i + 1]]
  <1>1. PICK c \in [1..N -> allocated] :
           /\ ListOf(c)
           /\ \A i, j \in 1..N : c[i] = c[j] => i = j
           /\ \A m \in allocated : \E i \in 1..N : c[i] = m
           /\ front = IF N = 0 THEN NULL ELSE c[1]
           /\ back = IF N = 0 THEN NULL ELSE c[N]
           /\ \A i \in 1..N : next[c[i]] = IF i = N THEN NULL ELSE c[i + 1]
    BY ListOfNodes
  <1>2. PICK d : d = [i \in 1..(N - 1) |-> c[i + 1]]
    OBVIOUS
  <1>3. /\ N \in Nat /\ N # 0 /\ N' = N - 1 /\ N' \in Nat
        /\ front = c[1] /\ allocated' = allocated \ {c[1]} /\ next' = next
    BY <1>1, EmptyQueue DEF TypeOK, Remove
  <1>4. \A i \in 1..N' : i + 1 \in 1..N /\ d[i] = c[i + 1] /\ d[i] # c[1]
    BY <1>1, <1>2, <1>3
  <1>5. d \in [1..N' -> allocated']
    BY <1>1, <1>2, <1>3, <1>4
  <1>6. \A i, j \in 1..N' : d[i] = d[j] => i = j
    BY <1>1, <1>3, <1>4
  <1>7. \A m \in allocated' : \E i \in 1..N' : d[i] = m
    <2>1. TAKE m \in allocated'
    <2>2. PICK i \in 1..N : c[i] = m
      BY <1>1, <1>3
    <2>3. i - 1 \in 1..N' /\ d[i - 1] = m
      BY <2>2, <1>3, <1>4
    <2>4. QED
      BY <2>3
  <1>8. d \in Bijection(1..N', allocated')
    BY <1>5, <1>6, <1>7, BijectionFrom
  <1>9. front' = (IF N' = 0 THEN NULL ELSE d[1]) /\ back' = (IF N' = 0 THEN NULL ELSE d[N'])
    <2>1. CASE N = 1
      BY <2>1, <1>1, <1>3 DEF Remove, AfterPop
    <2>2. CASE N # 1
      <3>1. next[c[1]] = c[2] /\ c[2] = d[1] /\ c[2] \in Nodes /\ back = d[N']
        BY <2>2, <1>1, <1>3, <1>4 DEF TypeOK
      <3>2. QED
        BY <2>2, <3>1, <1>3, StequeAssumption DEF Remove, AfterPop
    <2>3. QED
      BY <2>1, <2>2
  <1>10. \A i \in 1..N' : next'[d[i]] = IF i = N' THEN NULL ELSE d[i + 1]
    <2>1. TAKE i \in 1..N'
    <2>2. i + 1 \in 1..N /\ (i + 1 = N <=> i = N') /\ (i # N' => i + 1 \in 1..N')
      BY <1>3
    <2>3. QED
      BY <2>2, <1>1, <1>3, <1>4
  <1>11. ListOf(d)'
    BY <1>8, <1>9, <1>10 DEF ListOf, Linked
  <1>12. QED
    BY <1>1, <1>2, <1>11

\* The list is rotated by one node.
LEMMA CycleLinked ==
  ASSUME TypeOK, WellLinked, Cycle
  PROVE  \E c : /\ ListOf(c)
               /\ \E d : ListOf(d)' /\ d = [i \in 1..N |-> IF i = N THEN c[1] ELSE c[i + 1]]
  <1>1. PICK c \in [1..N -> allocated] :
           /\ ListOf(c)
           /\ \A i, j \in 1..N : c[i] = c[j] => i = j
           /\ \A m \in allocated : \E i \in 1..N : c[i] = m
           /\ front = IF N = 0 THEN NULL ELSE c[1]
           /\ back = IF N = 0 THEN NULL ELSE c[N]
           /\ \A i \in 1..N : next[c[i]] = IF i = N THEN NULL ELSE c[i + 1]
    BY ListOfNodes
  <1>2. PICK d : d = [i \in 1..N |-> IF i = N THEN c[1] ELSE c[i + 1]]
    OBVIOUS
  <1>3. /\ N \in Nat /\ N # 0 /\ N' = N /\ allocated' = allocated
        /\ front = c[1] /\ back = c[N] /\ 1 \in 1..N /\ N \in 1..N
    BY <1>1, EmptyQueue DEF TypeOK, Cycle
  <1>4. d[N] = c[1] /\ \A i \in 1..(N - 1) : i \in 1..N /\ i + 1 \in 1..N /\ d[i] = c[i + 1]
    BY <1>2, <1>3
  <1>5. d \in [1..N' -> allocated']
    BY <1>2, <1>3
  <1>6. \A i, j \in 1..N' : d[i] = d[j] => i = j
    <2>1. TAKE i, j \in 1..N'
    <2>2. CASE i = N \/ j = N
      BY <2>2, <1>1, <1>3, <1>4
    <2>3. CASE i # N /\ j # N
      <3>1. i \in 1..(N - 1) /\ j \in 1..(N - 1)
        BY <2>3, <1>3
      <3>2. QED
        BY <3>1, <1>1, <1>4
    <2>4. QED
      BY <2>2, <2>3
  <1>7. \A m \in allocated' : \E i \in 1..N' : d[i] = m
    <2>1. TAKE m \in allocated'
    <2>2. PICK i \in 1..N : c[i] = m
      BY <1>1, <1>3
    <2>3. CASE i = 1
      BY <2>2, <2>3, <1>3, <1>4
    <2>4. CASE i # 1
      <3>1. i - 1 \in 1..(N - 1) /\ d[i - 1] = m
        BY <2>2, <2>4, <1>3, <1>4
      <3>2. QED
        BY <3>1, <1>3, <1>4
    <2>5. QED
      BY <2>3, <2>4
  <1>8. d \in Bijection(1..N', allocated')
    BY <1>5, <1>6, <1>7, BijectionFrom
  <1>9. PICK linked : linked = [next EXCEPT ![c[N]] = c[1]]
    OBVIOUS
  <1>10. /\ \A i \in 1..N : c[i] \in Nodes
         /\ linked \in [Nodes -> Nodes \cup {NULL}]
         /\ \A i \in 1..N : linked[c[i]] = d[i]
    <2>1. \A i \in 1..N : c[i] \in Nodes
      BY DEF TypeOK
    <2>2. linked \in [Nodes -> Nodes \cup {NULL}] /\ linked[c[N]] = c[1]
      BY <2>1, <1>3, <1>9 DEF TypeOK
    <2>3. \A i \in 1..(N - 1) : linked[c[i]] = c[i + 1]
      <3>1. TAKE i \in 1..(N - 1)
      <3>2. i \in 1..N /\ i # N /\ c[i] # c[N] /\ c[i] \in Nodes
        BY <1>1, <1>3, <2>1
      <3>3. QED
        BY <3>2, <1>1, <1>9 DEF TypeOK
    <2>4. QED
      BY <2>1, <2>2, <2>3, <1>3, <1>4
  <1>11. front' = linked[c[1]] /\ back' = c[1] /\ next' = [linked EXCEPT ![c[1]] = NULL]
    BY <1>3, <1>9 DEF Cycle
  <1>12. front' = d[1] /\ back' = d[N']
    BY <1>3, <1>4, <1>10, <1>11
  <1>13. \A i \in 1..N' : next'[d[i]] = IF i = N' THEN NULL ELSE d[i + 1]
    <2>1. TAKE i \in 1..N'
    <2>2. CASE i = N
      BY <2>2, <1>3, <1>4, <1>10, <1>11
    <2>3. CASE i # N
      <3>1. i \in 1..(N - 1) /\ i + 1 \in 1..N /\ i + 1 # 1
        BY <2>3, <1>3
      <3>2. d[i] = c[i + 1] /\ c[i + 1] # c[1] /\ c[i + 1] \in Nodes
        BY <3>1, <1>1, <1>3, <1>4, <1>10
      <3>3. next'[d[i]] = linked[c[i + 1]]
        BY <3>2, <1>10, <1>11
      <3>4. QED
        BY <3>1, <3>3, <2>3, <1>3, <1>10
    <2>4. QED
      BY <2>2, <2>3
  <1>14. ListOf(d)'
    BY <1>3, <1>8, <1>12, <1>13 DEF ListOf, Linked
  <1>15. QED
    BY <1>1, <1>2, <1>14

-----------------------------------------------------------------------------
\* The queue that steque_init makes is empty.
LEMMA InitInvariant == Init => TypeOK /\ WellLinked
  <1> SUFFICES ASSUME Init PROVE TypeOK /\ WellLinked
    OBVIOUS
  <1>1. TypeOK
    BY DEF Init, TypeOK
  <1>2. PICK c : c = [i \in 1..0 |-> NULL]
    OBVIOUS
  <1>3. N = 0 /\ allocated = {} /\ c \in [1..0 -> allocated]
    BY <1>2 DEF Init
  <1>4. c \in Bijection(1..N, allocated)
    BY <1>3, BijectionFrom
  <1>5. Linked(c)
    BY <1>3 DEF Linked, Init
  <1>6. QED
    BY <1>1, <1>4, <1>5 DEF WellLinked

\* No operation breaks the list.
LEMMA NextLinked == TypeOK /\ WellLinked /\ [Next]_vars => WellLinked'
  <1> SUFFICES ASSUME TypeOK, WellLinked, [Next]_vars PROVE WellLinked'
    OBVIOUS
  <1>1. CASE UNCHANGED <<list, next, allocated>>
    BY <1>1 DEF WellLinked, Linked, list
  <1>2. ASSUME NEW n \in Nodes, NEW x \in Items, Enqueue(n, x) PROVE WellLinked'
    BY <1>2, EnqueueLinked DEF ListOf, WellLinked
  <1>3. ASSUME NEW n \in Nodes, NEW x \in Items, Push(n, x) PROVE WellLinked'
    BY <1>3, PushLinked DEF ListOf, WellLinked
  <1>4. CASE Pop \/ DestroyPop
    BY <1>4, RemoveLinked DEF Pop, DestroyPop, ListOf, WellLinked
  <1>5. CASE Cycle
    BY <1>5, CycleLinked DEF ListOf, WellLinked
  <1>6. CASE Front \/ Underflow \/ Destroy \/ DestroyDone \/ UNCHANGED vars
    BY <1>1, <1>6 DEF Front, Underflow, Destroy, DestroyDone, vars
  <1>7. QED
    BY <1>2, <1>3, <1>4, <1>5, <1>6 DEF Next

\* No operation breaks a type.  That a queue with nodes has a front is known
\* from the list, before and after the step.
LEMMA NextType == TypeOK /\ WellLinked /\ WellLinked' /\ [Next]_vars => TypeOK'
  <1> SUFFICES ASSUME TypeOK, WellLinked, WellLinked', [Next]_vars PROVE TypeOK'
    OBVIOUS
  <1> DEFINE Types ==
        /\ front' \in Nodes \cup {NULL} /\ back' \in Nodes \cup {NULL} /\ N' \in Nat
        /\ item' \in [Nodes -> Items \cup {NoItem}]
        /\ next' \in [Nodes -> Nodes \cup {NULL}]
        /\ allocated' \subseteq Nodes
        /\ ans' \in Items \cup {NoItem}
        /\ mode' \in {"ready", "destroy", "exited"}
        /\ \A n \in allocated' : item'[n] \in Items
  <1>1. ASSUME NEW n \in Nodes, NEW x \in Items, Enqueue(n, x) PROVE Types
    BY <1>1 DEF Enqueue, NewNode, TypeOK
  <1>2. ASSUME NEW n \in Nodes, NEW x \in Items, Push(n, x) PROVE Types
    BY <1>2 DEF Push, NewNode, TypeOK
  <1>3. ASSUME Remove, mode' = mode PROVE Types
    <2>1. N # 0 /\ front \in Nodes
      BY <1>3, EmptyQueue DEF Remove, TypeOK
    <2>2. N' \in Nat /\ front' \in Nodes \cup {NULL} /\ back' \in Nodes \cup {NULL}
      BY <1>3, <2>1 DEF Remove, AfterPop, TypeOK
    <2>3. QED
      BY <1>3, <2>1, <2>2 DEF Remove, TypeOK
  <1>4. ASSUME Cycle PROVE Types
    <2>1. back \in Nodes /\ front \in Nodes
      BY <1>4, EmptyQueue DEF Cycle, TypeOK
    <2>2. PICK linked : linked = [next EXCEPT ![back] = front]
      OBVIOUS
    <2>3. linked \in [Nodes -> Nodes \cup {NULL}]
      BY <2>1, <2>2 DEF TypeOK
    <2>4. front' = linked[front] /\ next' = [linked EXCEPT ![front] = NULL] /\ back' = front
      BY <1>4, <2>2 DEF Cycle
    <2>5. QED
      BY <1>4, <2>1, <2>3, <2>4 DEF Cycle, TypeOK
  <1>5. ASSUME Front PROVE Types
    <2>1. front \in Nodes /\ item[front] \in Items \cup {NoItem}
      BY <1>5 DEF Front, TypeOK
    <2>2. QED
      BY <1>5, <2>1 DEF Front, list, TypeOK
  <1>6. ASSUME UNCHANGED <<list, item, next, allocated, ans>>, mode' \in {"ready", "destroy", "exited"}
        PROVE  Types
    BY <1>6 DEF list, TypeOK
  <1>7. ASSUME Underflow \/ Destroy \/ DestroyDone \/ UNCHANGED vars PROVE Types
    <2>1. UNCHANGED <<list, item, next, allocated, ans>>
      BY <1>7 DEF Underflow, Destroy, DestroyDone, vars
    <2>2. mode' \in {"ready", "destroy", "exited"}
      BY <1>7 DEF Underflow, Destroy, DestroyDone, vars, TypeOK
    <2>3. QED
      BY <1>6, <2>1, <2>2
  <1>8. ASSUME Pop \/ DestroyPop PROVE Types
    BY <1>3, <1>8 DEF Pop, DestroyPop
  <1>9. Types
    BY <1>1, <1>2, <1>4, <1>5, <1>7, <1>8 DEF Next
  <1>10. N' # 0 => front' # NULL
    <2>1. PICK c \in Bijection(1..N', allocated') : Linked(c)'
      BY DEF WellLinked
    <2>2. c \in [1..N' -> allocated']
      BY BijectionFacts
    <2>3. QED
      BY <2>1, <2>2, <1>9, StequeAssumption DEF Linked
  <1>11. QED
    BY <1>9, <1>10 DEF TypeOK

\* The inductive invariant.
LEMMA Invariant == Spec => [](TypeOK /\ WellLinked)
  <1>1. TypeOK /\ WellLinked /\ [Next]_vars => (TypeOK /\ WellLinked)'
    BY NextLinked, NextType
  <1>2. QED
    BY InitInvariant, <1>1, PTL DEF Spec

\* steque.c:5-81: after any sequence of calls, front, back, N and the links
\* describe one list of distinct nodes, and it holds every allocated node.
THEOREM ListIsSound == Spec => []WellLinked
  BY Invariant, PTL

\* steque.c:5-88: the fields keep their types; a queue that steque_destroy
\* finds not empty has a front, so that steque_destroy ends no program.
THEOREM TypesHold == Spec => []TypeOK
  BY Invariant, PTL
-----------------------------------------------------------------------------
(* The refinement of Deque                                                 *)

\* Induction over the places of a list, from the pigeonhole principle: with a
\* place outside S, the places before it that are outside would fit into one
\* place less.
LEMMA EveryPlace ==
  ASSUME NEW n \in Nat, NEW S, \A i \in 1..n : i = 1 \/ i - 1 \in S => i \in S
  PROVE  \A i \in 1..n : i \in S
  <1> SUFFICES ASSUME NEW m \in 1..n, m \notin S PROVE FALSE
    OBVIOUS
  <1> DEFINE U == {i \in 1..m : i \notin S}
             V == U \ {m}
             f == [i \in U |-> i - 1]
  <1>1. IsFiniteSet(U)
    <2>1. IsFiniteSet(1..m)
      BY FS_Interval
    <2>2. QED
      BY <2>1, FS_Subset
  <1>2. IsFiniteSet(V) /\ Cardinality(V) = Cardinality(U) - 1
    <2>1. m \in U
      OBVIOUS
    <2> HIDE DEF U
    <2>2. QED
      BY <1>1, <2>1, FS_RemoveElement
  <1>3. f \in [U -> V]
    <2>1. ASSUME NEW i \in U PROVE i - 1 \in V
      BY <2>1
    <2>2. QED
      BY <2>1
  <1>4. Cardinality(V) < Cardinality(U)
    <2> HIDE DEF U, V
    <2>1. QED
      BY <1>1, <1>2, FS_CardinalityType
  <1>5. PICK i, j \in U : i # j /\ f[i] = f[j]
    <2> HIDE DEF U, V, f
    <2>1. QED
      BY <1>1, <1>2, <1>3, <1>4, FS_PigeonHole
  <1>6. f[i] = i - 1 /\ f[j] = j - 1 /\ i \in 1..m /\ j \in 1..m
    OBVIOUS
  <1>7. QED
    BY <1>5, <1>6

\* Who walks from front meets the nodes of the list.
LEMMA WalkIsList == \A c : N \in Nat /\ ListOf(c) => Walk = c
  <1> SUFFICES ASSUME NEW c, N \in Nat, ListOf(c) PROVE Walk = c
    OBVIOUS
  <1> DEFINE Step(w) == [i \in 1..N |-> IF i = 1 THEN front ELSE next[w[i - 1]]]
             w == Walk
  <1>1. /\ c \in [1..N -> allocated] /\ (N # 0 => front = c[1])
        /\ \A i \in 1..N : i # N => next[c[i]] = c[i + 1]
    BY DEF ListOf, Linked, Bijection, Injection
  <1>2. c = Step(c)
    <2>1. ASSUME NEW i \in 1..N PROVE c[i] = Step(c)[i]
      <3>1. CASE i = 1
        BY <1>1, <3>1
      <3>2. CASE i # 1
        <4>1. i - 1 \in 1..N /\ i - 1 # N /\ (i - 1) + 1 = i
          BY <3>2
        <4>2. QED
          BY <1>1, <3>2, <4>1
      <3>3. QED
        BY <3>1, <3>2
    <2>2. QED
      BY <1>1, <2>1
  <1>3. w = CHOOSE v : v = Step(v)
    BY DEF Walk
  <1>4. w = Step(w)
    <2> HIDE DEF w, Step
    <2>1. QED
      BY <1>2, <1>3
  <1> HIDE DEF w
  <1>5. \A i \in 1..N : w[i] = IF i = 1 THEN front ELSE next[w[i - 1]]
    BY <1>4
  <1> DEFINE S == {i \in 1..N : w[i] = c[i]}
  <1>6. ASSUME NEW i \in 1..N, i = 1 \/ i - 1 \in S PROVE i \in S
    <2>1. CASE i = 1
      BY <1>1, <1>5, <2>1
    <2>2. CASE i # 1
      <3>1. i - 1 \in 1..N /\ i - 1 # N /\ (i - 1) + 1 = i /\ w[i - 1] = c[i - 1]
        BY <1>6, <2>2
      <3>2. QED
        BY <1>1, <1>5, <2>2, <3>1
    <2>3. QED
      BY <2>1, <2>2
  <1> HIDE DEF S
  <1>7. \A i \in 1..N : i \in S
    BY <1>6, EveryPlace
  <1>8. \A i \in 1..N : w[i] = c[i]
    BY <1>7 DEF S
  <1>9. w = c
    <2>1. w = [i \in 1..N |-> w[i]]
      <3>1. DOMAIN Step(w) = 1..N
        OBVIOUS
      <3>2. QED
        BY <1>4, <3>1
    <2>2. c = [i \in 1..N |-> c[i]]
      BY <1>1
    <2>3. QED
      BY <1>8, <2>1, <2>2
  <1>10. QED
    BY <1>9 DEF w

LEMMA WalkIsListNext == (\A c : N \in Nat /\ ListOf(c) => Walk = c)'
  BY WalkIsList, PTL

\* The items of the queue, front first: what ImplementsDeque maps to q.
Held == [i \in 1..N |-> item[Walk[i]]]

LEMMA HeldItems ==
  \A c : TypeOK /\ ListOf(c) =>
    /\ Held \in Seq(Items) /\ Len(Held) = N /\ N \in Nat
    /\ \A i \in 1..N : c[i] \in allocated /\ c[i] \in Nodes /\ Held[i] = item[c[i]]
  <1> SUFFICES ASSUME NEW c, TypeOK, ListOf(c)
               PROVE  /\ Held \in Seq(Items) /\ Len(Held) = N /\ N \in Nat
                      /\ \A i \in 1..N : c[i] \in allocated /\ c[i] \in Nodes /\ Held[i] = item[c[i]]
    OBVIOUS
  <1>1. N \in Nat /\ Walk = c
    BY WalkIsList DEF TypeOK
  <1>2. \A i \in 1..N : c[i] \in allocated /\ c[i] \in Nodes /\ item[c[i]] \in Items
    BY DEF ListOf, Bijection, Injection, TypeOK
  <1>3. Held = [i \in 1..N |-> item[c[i]]]
    BY <1>1 DEF Held
  <1>4. Held \in [1..N -> Items] /\ \A i \in 1..N : Held[i] = item[c[i]]
    BY <1>2, <1>3
  <1>5. Held \in Seq(Items) /\ Len(Held) = N
    BY <1>1, <1>4
  <1>6. QED
    BY <1>1, <1>2, <1>4, <1>5

LEMMA HeldItemsNext ==
  (\A c : TypeOK /\ ListOf(c) =>
    /\ Held \in Seq(Items) /\ Len(Held) = N /\ N \in Nat
    /\ \A i \in 1..N : c[i] \in allocated /\ c[i] \in Nodes /\ Held[i] = item[c[i]])'
  BY HeldItems, PTL

LEMMA EnqueueHeld ==
  ASSUME TypeOK, WellLinked, TypeOK', NEW n \in Nodes, NEW x \in Items, Enqueue(n, x)
  PROVE  Held' = Append(Held, x)
  <1>1. PICK c, d : /\ ListOf(c) /\ ListOf(d)'
                    /\ d = [i \in 1..(N + 1) |-> IF i = N + 1 THEN n ELSE c[i]]
    BY EnqueueLinked
  <1>2. /\ Held \in Seq(Items) /\ Len(Held) = N /\ N \in Nat
        /\ \A i \in 1..N : c[i] \in allocated /\ c[i] \in Nodes /\ Held[i] = item[c[i]]
    BY <1>1, HeldItems
  <1>3. /\ Held' \in Seq(Items) /\ Len(Held') = N + 1
        /\ \A i \in 1..(N + 1) : Held'[i] = item'[d[i]]
    BY <1>1, HeldItemsNext DEF Enqueue
  <1>4. item' = [item EXCEPT ![n] = x] /\ n \notin allocated
    BY DEF Enqueue, NewNode
  <1>5. Append(Held, x) \in Seq(Items) /\ Len(Append(Held, x)) = N + 1
        /\ \A i \in 1..N : Append(Held, x)[i] = Held[i]
        /\ Append(Held, x)[N + 1] = x
    BY <1>2
  <1>6. ASSUME NEW i \in 1..(N + 1) PROVE Held'[i] = Append(Held, x)[i]
    <2>1. CASE i = N + 1
      BY <1>1, <1>3, <1>4, <1>5, <2>1 DEF TypeOK
    <2>2. CASE i # N + 1
      <3>1. i \in 1..N /\ d[i] = c[i] /\ c[i] # n
        BY <1>1, <1>2, <1>4, <2>2
      <3>2. QED
        BY <1>2, <1>3, <1>4, <1>5, <3>1 DEF TypeOK
    <2>3. QED
      BY <2>1, <2>2
  <1>7. QED
    BY <1>3, <1>5, <1>6, SeqEqual

LEMMA PushHeld ==
  ASSUME TypeOK, WellLinked, TypeOK', NEW n \in Nodes, NEW x \in Items, Push(n, x)
  PROVE  Held' = <<x>> \o Held
  <1> DEFINE p == <<x>> \o Held
  <1>1. PICK c, d : /\ ListOf(c) /\ ListOf(d)'
                    /\ d = [i \in 1..(N + 1) |-> IF i = 1 THEN n ELSE c[i - 1]]
    BY PushLinked
  <1>2. /\ Held \in Seq(Items) /\ Len(Held) = N /\ N \in Nat
        /\ \A i \in 1..N : c[i] \in allocated /\ c[i] \in Nodes /\ Held[i] = item[c[i]]
    BY <1>1, HeldItems
  <1>3. /\ Held' \in Seq(Items) /\ Len(Held') = N + 1
        /\ \A i \in 1..(N + 1) : Held'[i] = item'[d[i]]
    BY <1>1, HeldItemsNext DEF Push
  <1>4. item' = [item EXCEPT ![n] = x] /\ n \notin allocated
    BY DEF Push, NewNode
  <1>5. p \in Seq(Items) /\ Len(p) = N + 1 /\ p[1] = x
        /\ \A i \in 2..(N + 1) : p[i] = Held[i - 1]
    <2>1. <<x>> \in Seq(Items) /\ Len(<<x>>) = 1 /\ <<x>>[1] = x
      OBVIOUS
    <2>2. /\ p \in Seq(Items) /\ Len(p) = 1 + N
          /\ \A i \in 1..(1 + N) : p[i] = IF i <= 1 THEN <<x>>[i] ELSE Held[i - 1]
      BY <1>2, <2>1, ConcatProperties
    <2> HIDE DEF p
    <2>3. QED
      BY <1>2, <2>1, <2>2
  <1> HIDE DEF p
  <1>6. ASSUME NEW i \in 1..(N + 1) PROVE Held'[i] = p[i]
    <2>1. CASE i = 1
      BY <1>1, <1>3, <1>4, <1>5, <2>1 DEF TypeOK
    <2>2. CASE i # 1
      <3>1. i \in 2..(N + 1) /\ i - 1 \in 1..N /\ d[i] = c[i - 1] /\ c[i - 1] # n
        BY <1>1, <1>2, <1>4, <2>2
      <3>2. QED
        BY <1>2, <1>3, <1>4, <1>5, <3>1 DEF TypeOK
    <2>3. QED
      BY <2>1, <2>2
  <1>7. QED
    BY <1>3, <1>5, <1>6, SeqEqual DEF p

LEMMA RemoveHeld ==
  ASSUME TypeOK, WellLinked, TypeOK', Remove
  PROVE  Held # <<>> /\ ans' = Head(Held) /\ Held' = Tail(Held)
  <1>1. PICK c, d : ListOf(c) /\ ListOf(d)' /\ d = [i \in 1..(N - 1) |-> c[i + 1]]
    BY RemoveLinked
  <1>2. /\ Held \in Seq(Items) /\ Len(Held) = N /\ N \in Nat
        /\ \A i \in 1..N : c[i] \in allocated /\ c[i] \in Nodes /\ Held[i] = item[c[i]]
    BY <1>1, HeldItems
  <1>3. /\ Held' \in Seq(Items) /\ Len(Held') = N - 1
        /\ \A i \in 1..(N - 1) : Held'[i] = item[d[i]]
    BY <1>1, HeldItemsNext DEF Remove
  <1>4. N # 0 /\ front = c[1] /\ ans' = item[c[1]]
    BY <1>1, EmptyQueue DEF ListOf, Linked, Remove
  <1>5. Held # <<>> /\ Head(Held) = item[c[1]]
    BY <1>2, <1>4
  <1>6. /\ Tail(Held) \in Seq(Items) /\ Len(Tail(Held)) = N - 1
        /\ \A i \in 1..(N - 1) : Tail(Held)[i] = Held[i + 1]
    BY <1>2, <1>5, HeadTailProperties
  <1>7. ASSUME NEW i \in 1..(N - 1) PROVE Held'[i] = Tail(Held)[i]
    <2>1. i + 1 \in 1..N /\ d[i] = c[i + 1]
      BY <1>1, <1>2
    <2>2. QED
      BY <1>2, <1>3, <1>6, <2>1
  <1>8. Held' = Tail(Held)
    BY <1>3, <1>6, <1>7, SeqEqual
  <1>9. QED
    BY <1>4, <1>5, <1>8

LEMMA CycleHeld ==
  ASSUME TypeOK, WellLinked, TypeOK', Cycle
  PROVE  Held # <<>> /\ Held' = Append(Tail(Held), Head(Held))
  <1> DEFINE t == Tail(Held)
             p == Append(t, Head(Held))
  <1>1. PICK c, d : ListOf(c) /\ ListOf(d)' /\ d = [i \in 1..N |-> IF i = N THEN c[1] ELSE c[i + 1]]
    BY CycleLinked
  <1>2. /\ Held \in Seq(Items) /\ Len(Held) = N /\ N \in Nat
        /\ \A i \in 1..N : c[i] \in allocated /\ c[i] \in Nodes /\ Held[i] = item[c[i]]
    BY <1>1, HeldItems
  <1>3. /\ Held' \in Seq(Items) /\ Len(Held') = N
        /\ \A i \in 1..N : Held'[i] = item[d[i]]
    BY <1>1, HeldItemsNext DEF Cycle
  <1>4. N # 0 /\ Held # <<>> /\ Head(Held) = item[c[1]] /\ Head(Held) \in Items
    <2>1. N # 0
      BY EmptyQueue DEF Cycle
    <2>2. QED
      BY <1>2, <2>1
  <1>5. t \in Seq(Items) /\ Len(t) = N - 1 /\ \A i \in 1..(N - 1) : t[i] = Held[i + 1]
    BY <1>2, <1>4, HeadTailProperties
  <1> HIDE DEF t
  <1>6. p \in Seq(Items) /\ Len(p) = N /\ p[N] = Head(Held) /\ \A i \in 1..(N - 1) : p[i] = t[i]
    BY <1>2, <1>4, <1>5
  <1> HIDE DEF p
  <1>7. ASSUME NEW i \in 1..N PROVE Held'[i] = p[i]
    <2>1. CASE i = N
      BY <1>1, <1>3, <1>4, <1>6, <2>1
    <2>2. CASE i # N
      <3>1. i \in 1..(N - 1) /\ i + 1 \in 1..N /\ d[i] = c[i + 1]
        BY <1>1, <1>2, <2>2
      <3>2. QED
        BY <1>2, <1>3, <1>5, <1>6, <3>1
    <2>3. QED
      BY <2>1, <2>2
  <1>8. QED
    BY <1>3, <1>4, <1>6, <1>7, SeqEqual DEF p, t

\* A queue without a front holds nothing, one with a front starts with its item.
LEMMA FrontHeld ==
  ASSUME TypeOK, WellLinked
  PROVE  /\ front = NULL => Held = <<>>
         /\ front # NULL => Held # <<>> /\ item[front] = Head(Held)
  <1>1. PICK c : ListOf(c)
    BY DEF WellLinked, ListOf
  <1>2. /\ Held \in Seq(Items) /\ Len(Held) = N /\ N \in Nat
        /\ \A i \in 1..N : c[i] \in allocated /\ c[i] \in Nodes /\ Held[i] = item[c[i]]
    BY <1>1, HeldItems
  <1>3. (front = NULL <=> N = 0) /\ (N # 0 => front = c[1])
    BY <1>1, EmptyQueue DEF ListOf, Linked
  <1>4. QED
    BY <1>2, <1>3

\* Each step is one of Deque or a stutter.
LEMMA StepOfDeque ==
  ASSUME TypeOK, WellLinked, TypeOK', [Next]_vars
  PROVE  [Abstract!Next]_<<[i \in 1..N |-> item[Walk[i]]], ans, mode = "exited">>
  <1>1. ASSUME NEW n \in Nodes, NEW x \in Items, Enqueue(n, x) PROVE Abstract!Enqueue(x)
    BY <1>1, EnqueueHeld DEF Abstract!Enqueue, Held, Enqueue
  <1>2. ASSUME NEW n \in Nodes, NEW x \in Items, Push(n, x) PROVE Abstract!Push(x)
    BY <1>2, PushHeld DEF Abstract!Push, Held, Push
  <1>3. CASE Pop \/ DestroyPop
    <2>1. Remove /\ mode # "exited" /\ mode' = mode
      BY <1>3 DEF Pop, DestroyPop
    <2>2. Abstract!Pop
      BY <2>1, RemoveHeld DEF Abstract!Pop, Held
    <2>3. QED
      BY <2>2 DEF Abstract!Next
  <1>4. CASE Cycle
    <2>1. Abstract!Cycle
      BY <1>4, CycleHeld DEF Abstract!Cycle, Held, Cycle
    <2>2. QED
      BY <2>1 DEF Abstract!Next
  <1>5. CASE UNCHANGED <<list, item, next>>
    <2>1. Walk' = Walk /\ N' = N /\ item' = item
      BY <1>5 DEF Walk, list
    <2>2. Held' = Held
      BY <2>1 DEF Held
    <2>3. CASE Front
      <3>1. Abstract!Front
        BY <2>2, <2>3, FrontHeld DEF Abstract!Front, Held, Front
      <3>2. QED
        BY <3>1 DEF Abstract!Next
    <2>4. CASE Underflow
      <3>1. Abstract!Underflow
        BY <2>2, <2>4, FrontHeld DEF Abstract!Underflow, Held, Underflow
      <3>2. QED
        BY <3>1 DEF Abstract!Next
    <2>5. CASE Destroy \/ DestroyDone \/ UNCHANGED vars
      <3>1. ans' = ans /\ (mode = "exited")' = (mode = "exited")
        BY <2>5 DEF Destroy, DestroyDone, vars
      <3>2. QED
        BY <2>2, <3>1 DEF Held
    <2>6. QED
      BY <1>1, <1>2, <1>3, <1>4, <2>3, <2>4, <2>5 DEF Next, Abstract!Next
  <1>6. UNCHANGED <<list, item, next>> \/ Pop \/ DestroyPop \/ Cycle
        \/ \E n \in Nodes, x \in Items : Enqueue(n, x) \/ Push(n, x)
    BY DEF Next, Front, Underflow, Destroy, DestroyDone, vars
  <1>7. QED
    BY <1>1, <1>2, <1>3, <1>4, <1>5, <1>6 DEF Abstract!Next

\* steque.h, with steque.c:5-88: the nodes, links and counts are a sequence of
\* items, to which every operation does what its name says.  The sequence is
\* what one meets on the way from front; that the way leads along the list of
\* the invariant, for any length, is WalkIsList.
THEOREM IsDeque == Spec => ImplementsDeque
  <1>1. Init => Abstract!Init
    <2> SUFFICES ASSUME Init PROVE Abstract!Init
      OBVIOUS
    <2>1. Held = <<>>
      BY InitInvariant, FrontHeld DEF Init
    <2>2. QED
      BY <2>1 DEF Init, Abstract!Init, Held
  <1>2. TypeOK /\ WellLinked /\ TypeOK' /\ [Next]_vars
        => [Abstract!Next]_<<[i \in 1..N |-> item[Walk[i]]], ans, mode = "exited">>
    BY StepOfDeque
  <1>3. QED
    BY <1>1, <1>2, Invariant, PTL DEF Spec, ImplementsDeque, Abstract!Spec

-----------------------------------------------------------------------------
(* The table of files.                                                     *)

\* Entry e stands for line i of the content file.
FromLine(e, i) == e.key = Lines[i].key /\ e.fildes = StoredPath(i)

TableHoldsLines ==
  /\ nitems <= Len(Lines)
  /\ phase = "load" => \A i \in 1..nitems : FromLine(items[i], i)
  /\ phase \in {"sort", "serve"} =>
       /\ nitems = Len(Lines)
       /\ \A i \in 1..nitems : \E j \in 1..Len(Lines) : FromLine(items[i], j)
       /\ \A j \in 1..Len(Lines) : \E i \in 1..nitems : items[i].key = Lines[j].key
  /\ phase = "serve" => Sorted(items)
  /\ phase # "serve" => \A t \in Threads : pc[t] = "idle"

(* A window that is not empty has its middle inside.                       *)
LEMMA MiddleInside ==
  ASSUME NEW l \in Int, NEW h \in Int, l <= h
  PROVE  l <= l + (h - l) \div 2 /\ l + (h - l) \div 2 <= h
BY SMT

(* Below the middle, and above it, is at most half of the window.          *)
LEMMA HalfIsLess ==
  ASSUME NEW l \in Int, NEW h \in Int, l <= h
  PROVE  /\ (l + (h - l) \div 2 - 1) - l + 1 <= (h - l + 1) \div 2
         /\ h - (l + (h - l) \div 2 + 1) + 1 <= (h - l + 1) \div 2
BY SMT

(* Half of a number, and of two numbers in order.                          *)
LEMMA HalfOf == \A n \in Nat : n \div 2 \in Nat
BY SMT
LEMMA HalvesInOrder == \A w \in Int, n \in Nat : w <= n => w \div 2 <= n \div 2
BY SMT

(* A function on 1..n is a sequence.                                       *)
LEMMA Listed ==
  ASSUME NEW S, NEW n \in Nat, NEW f \in [1..n -> S] PROVE f \in Seq(S)
OBVIOUS

(* An element of a sequence.                                               *)
LEMMA Element ==
  ASSUME NEW S, NEW s \in Seq(S), NEW i \in 1..Len(s) PROVE s[i] \in S
OBVIOUS

(* Keys are integers, as strcmp orders them.                               *)
LEMMA KeyType ==
  ASSUME NEW i \in 1..Len(Lines)
  PROVE  Lines[i].key \in Int
<1>1. Lines[i] \in [key : Int, path : Paths \cup {NoPath}, eol : BOOLEAN]
  BY ContentAssumption, Element, Zenon
<1> QED BY <1>1

(* The tables start well typed.                                            *)
LEMMA InitTableType == TableInit => TableTypeOK
BY ContentAssumption DEF TableInit, TableTypeOK

(* A step keeps the types.                                                 *)
LEMMA NextTableType == TableTypeOK /\ KeyInWindow /\ [TableNext]_tableVars => TableTypeOK'
<1> SUFFICES ASSUME TableTypeOK, KeyInWindow, [TableNext]_tableVars PROVE TableTypeOK'
  OBVIOUS
<1> USE DEF TableTypeOK
<1>1. CASE LoadLine
  <2>1. nitems \in Nat /\ nitems + 1 \in 1..Len(Lines)
    BY <1>1, ContentAssumption DEF LoadLine, nitems
  <2>2. [key |-> Lines[nitems + 1].key, fildes |-> StoredPath(nitems + 1)]
          \in [key : Int, fildes : disk]
    BY <1>1, <2>1, KeyType DEF LoadLine
  <2>3. items' \in Seq([key : Int, fildes : disk])
    BY <1>1, <2>2 DEF LoadLine
  <2> QED BY <1>1, <2>1, <2>3 DEF LoadLine, Grow, searchVars
<1>2. CASE LoadFails
  BY <1>2 DEF LoadFails, searchVars
<1>3. CASE EndOfFile
  BY <1>3 DEF EndOfFile, searchVars
<1>4. CASE Sort
  <2>1. PICK p \in Bijection(1..nitems, 1..nitems) :
          items' = [i \in 1..nitems |-> items[p[i]]]
    BY <1>4, Zenon DEF Sort
  <2>2. p \in [1..nitems -> 1..nitems] /\ nitems \in Nat
    BY DEF Bijection, Injection, nitems
  <2>3. \A i \in 1..nitems : items[p[i]] \in [key : Int, fildes : disk]
    <3> TAKE i \in 1..nitems
    <3>1. p[i] \in 1..Len(items)
      BY <2>2 DEF nitems
    <3> QED BY <3>1, Element, Zenon
  <2>4. items' \in [1..nitems -> [key : Int, fildes : disk]]
    BY <2>1, <2>3, Zenon
  <2>5. items' \in Seq([key : Int, fildes : disk])
    BY <2>2, <2>4, Listed, Zenon
  <2> QED BY <1>4, <2>5 DEF Sort, searchVars
<1>5. ASSUME NEW t \in Threads, NEW k \in Wanted, Get(t, k) PROVE TableTypeOK'
  BY <1>5, ContentAssumption DEF Get, nitems
<1>6. ASSUME NEW t \in Threads, GoLeft(t) PROVE TableTypeOK'
  BY <1>6, HalfOf DEF GoLeft, Mid, Turn
<1>7. ASSUME NEW t \in Threads, GoRight(t) PROVE TableTypeOK'
  BY <1>7, HalfOf DEF GoRight, Mid, Turn
<1>8. ASSUME NEW t \in Threads, Miss(t) PROVE TableTypeOK'
  BY <1>8 DEF Miss, Return
<1>9. ASSUME NEW t \in Threads, Hit(t) PROVE TableTypeOK'
  <2>1. lo[t] <= Mid(t) /\ Mid(t) <= hi[t] /\ Mid(t) \in Int
    BY <1>9, MiddleInside DEF Hit, Mid
  <2>2. Mid(t) + 1 \in 1..Len(items)
    BY <1>9, <2>1 DEF Hit, KeyInWindow, nitems
  <2>3. Item(Mid(t)).fildes \in disk
    <3>1. items[Mid(t) + 1] \in [key : Int, fildes : disk]
      BY <2>2, Element, Zenon
    <3> QED BY <3>1 DEF Item
  <2> QED BY <1>9, <2>3 DEF Hit, Return
<1>10. CASE UNCHANGED tableVars
  BY <1>10 DEF tableVars, searchVars
<1> QED BY <1>1, <1>2, <1>3, <1>4, <1>5, <1>6, <1>7, <1>8, <1>9, <1>10 DEF TableNext, Load, Search

-----------------------------------------------------------------------------
(* The table starts empty.                                                 *)
LEMMA InitTable == TableInit => TableHoldsLines
BY ContentAssumption DEF TableInit, TableHoldsLines, nitems

(* What the table holds is kept by every step.                             *)
LEMMA NextTable == TableTypeOK /\ TableHoldsLines /\ [TableNext]_tableVars => TableHoldsLines'
<1> SUFFICES ASSUME TableTypeOK, TableHoldsLines, [TableNext]_tableVars PROVE TableHoldsLines'
  OBVIOUS
<1>0. nitems \in Nat /\ Len(Lines) \in Nat /\ pc \in [Threads -> {"idle", "search", "done"}]
  BY ContentAssumption DEF TableTypeOK, nitems
<1>1. CASE LoadLine
  <2> DEFINE e == [key |-> Lines[nitems + 1].key, fildes |-> StoredPath(nitems + 1)]
  <2>1. items' = Append(items, e) /\ items \in Seq([key : Int, fildes : disk])
    BY <1>1 DEF LoadLine, TableTypeOK
  <2>2. nitems' = nitems + 1
    BY <2>1 DEF nitems
  <2>3. FromLine(e, nitems + 1)
    BY DEF FromLine
  <2>4. ASSUME NEW i \in 1..nitems' PROVE FromLine(items'[i], i)
    <3>1. CASE i = nitems + 1
      <4>1. items'[i] = e
        BY <2>1, <3>1 DEF nitems
      <4> QED BY <4>1, <3>1, <2>3, Zenon
    <3>2. CASE i # nitems + 1
      <4>1. i \in 1..nitems
        BY <2>2, <3>2, <1>0
      <4>2. items'[i] = items[i]
        BY <2>1, <4>1 DEF nitems
      <4>3. FromLine(items[i], i)
        BY <4>1, <1>1 DEF TableHoldsLines, LoadLine
      <4> QED BY <4>2, <4>3, Zenon
    <3> QED BY <3>1, <3>2
  <2>5. phase' = "load" /\ pc' = pc /\ nitems + 1 <= Len(Lines)
    BY <1>1, <1>0 DEF LoadLine, searchVars
  <2>6. \A t \in Threads : pc[t] = "idle"
    BY <1>1 DEF LoadLine, TableHoldsLines
  <2> HIDE DEF e
  <2> QED BY <2>2, <2>4, <2>5, <2>6, Zenon DEF TableHoldsLines
<1>2. CASE LoadFails
  BY <1>2 DEF LoadFails, searchVars, TableHoldsLines, nitems
<1>3. CASE EndOfFile
  <2>1. nitems = Len(Lines) /\ items' = items /\ nitems' = nitems /\ phase' = "sort" /\ pc' = pc
    BY <1>3 DEF EndOfFile, searchVars, nitems
  <2>2. \A i \in 1..nitems : FromLine(items[i], i)
    BY <1>3 DEF EndOfFile, TableHoldsLines
  <2>3. \A t \in Threads : pc[t] = "idle"
    BY <1>3 DEF EndOfFile, TableHoldsLines
  <2>4. \A i \in 1..nitems : \E j \in 1..Len(Lines) : FromLine(items[i], j)
    BY <2>1, <2>2
  <2>5. \A j \in 1..Len(Lines) : \E i \in 1..nitems : items[i].key = Lines[j].key
    BY <2>1, <2>2 DEF FromLine
  <2> QED BY <2>1, <2>3, <2>4, <2>5, <1>0 DEF TableHoldsLines
<1>4. CASE Sort
  <2>1. PICK p \in Bijection(1..nitems, 1..nitems) :
          items' = [i \in 1..nitems |-> items[p[i]]] /\ Sorted(items')
    BY <1>4, Zenon DEF Sort
  <2>2. nitems' = nitems
    BY <2>1, <1>0 DEF nitems
  <2>3. phase = "sort" /\ phase' = "serve" /\ pc' = pc
    BY <1>4 DEF Sort, searchVars
  <2>4. nitems = Len(Lines)
    BY <2>3, <1>0 DEF TableHoldsLines
  <2>5. /\ \A i \in 1..nitems : \E j \in 1..Len(Lines) : FromLine(items[i], j)
        /\ \A j \in 1..Len(Lines) : \E i \in 1..nitems : items[i].key = Lines[j].key
    BY <2>3 DEF TableHoldsLines
  <2>6. /\ \A i \in 1..nitems : \E j \in 1..Len(Lines) : FromLine(items'[i], j)
        /\ \A j \in 1..Len(Lines) : \E i \in 1..nitems : items'[i].key = Lines[j].key
    <3>1. p \in [1..nitems -> 1..nitems] /\ \A k \in 1..nitems : \E i \in 1..nitems : p[i] = k
      BY DEF Bijection, Surjection
    <3>2. \A i \in 1..nitems : items'[i] = items[p[i]] /\ p[i] \in 1..nitems
      BY <2>1, <3>1
    <3>3. ASSUME NEW j \in 1..Len(Lines)
          PROVE  \E i \in 1..nitems : items'[i].key = Lines[j].key
      <4>1. PICK k \in 1..nitems : items[k].key = Lines[j].key
        BY <2>5
      <4>2. PICK i \in 1..nitems : p[i] = k
        BY <3>1
      <4> QED BY <3>2, <4>1, <4>2, Zenon
    <3>4. ASSUME NEW i \in 1..nitems
          PROVE  \E j \in 1..Len(Lines) : FromLine(items'[i], j)
      BY <2>5, <3>2, Zenon
    <3> QED BY <3>3, <3>4
  <2> HIDE DEF nitems
  <2> QED BY <2>1, <2>2, <2>3, <2>4, <2>6 DEF TableHoldsLines
<1>5. CASE \E t \in Threads : Search(t) \/ \E k \in Wanted : Get(t, k)
  <2>1. phase = "serve" /\ UNCHANGED <<phase, items>>
    BY <1>5, <1>0 DEF Search, Get, GoLeft, GoRight, Hit, Miss, Return, TableHoldsLines
  <2> QED BY <2>1 DEF TableHoldsLines, nitems
<1>6. CASE UNCHANGED tableVars
  BY <1>6 DEF tableVars, searchVars, TableHoldsLines, nitems
<1> QED BY <1>1, <1>2, <1>3, <1>4, <1>5, <1>6 DEF TableNext, Load

-----------------------------------------------------------------------------
(* No search has begun.                                                    *)
LEMMA InitWindow == TableInit => KeyInWindow
BY DEF TableInit, KeyInWindow

(* In a sorted table, a key below the item in the middle lies to its left, *)
(* and a key above it lies to its right.                                   *)
LEMMA SortedSides ==
  ASSUME TableTypeOK, Sorted(items), NEW m \in 0..(nitems - 1), NEW i \in 0..(nitems - 1)
  PROVE  /\ Item(i).key < Item(m).key => i < m
         /\ Item(i).key > Item(m).key => i > m
<1>1. nitems \in Nat /\ i + 1 \in 1..nitems /\ m + 1 \in 1..nitems
  BY DEF nitems, TableTypeOK
<1>2. items[i + 1] \in [key : Int, fildes : disk] /\ items[m + 1] \in [key : Int, fildes : disk]
  BY <1>1, Element, Zenon DEF TableTypeOK, nitems
<1>3. Item(i).key \in Int /\ Item(m).key \in Int
  BY <1>2 DEF Item
<1>4. i < m => Item(i).key <= Item(m).key
  BY <1>1 DEF Sorted, Item, nitems
<1>5. m < i => Item(m).key <= Item(i).key
  BY <1>1 DEF Sorted, Item, nitems
<1>6. i = m => Item(i).key = Item(m).key
  OBVIOUS
<1> HIDE DEF Item
<1> QED BY <1>1, <1>3, <1>4, <1>5, <1>6

(* The key stays in the window.                                            *)
LEMMA NextWindow ==
  TableTypeOK /\ TableHoldsLines /\ KeyInWindow /\ [TableNext]_tableVars => KeyInWindow'
<1> SUFFICES ASSUME TableTypeOK, TableHoldsLines, KeyInWindow, [TableNext]_tableVars PROVE KeyInWindow'
  OBVIOUS
<1>0. /\ nitems \in Nat /\ pc \in [Threads -> {"idle", "search", "done"}]
      /\ lo \in [Threads -> Int] /\ hi \in [Threads -> Int] /\ key \in [Threads -> Int]
  BY DEF TableTypeOK, nitems
<1>1. CASE Load
  <2>1. \A t \in Threads : pc'[t] = "idle"
    BY <1>1 DEF Load, LoadLine, LoadFails, EndOfFile, Sort, searchVars, TableHoldsLines
  <2> QED BY <2>1 DEF KeyInWindow
<1>2. ASSUME NEW t \in Threads, Search(t) \/ \E k \in Wanted : Get(t, k) PROVE KeyInWindow'
  <2> SUFFICES ASSUME NEW u \in Threads, pc'[u] = "search"
               PROVE  /\ 0 <= lo'[u] /\ hi'[u] < nitems'
                      /\ \A i \in 0..(nitems' - 1) :
                           Item(i)'.key = key'[u] => lo'[u] <= i /\ i <= hi'[u]
    BY DEF KeyInWindow
  <2>1. items' = items /\ nitems' = nitems /\ \A i : Item(i)' = Item(i)
    BY <1>2 DEF Search, GoLeft, GoRight, Hit, Miss, Return, Get, nitems, Item
  <2>2. phase = "serve" /\ Sorted(items)
    BY <1>0, <1>2 DEF Search, GoLeft, GoRight, Hit, Miss, Get, TableHoldsLines
  <2>3. CASE u # t
    <3>1. pc[u] = "search" /\ lo'[u] = lo[u] /\ hi'[u] = hi[u] /\ key'[u] = key[u]
      BY <1>0, <1>2, <2>3 DEF Search, GoLeft, GoRight, Hit, Miss, Return, Get
    <3> QED BY <2>1, <3>1 DEF KeyInWindow
  <2>4. CASE u = t
    <3>1. ASSUME NEW k \in Wanted, Get(t, k)
          PROVE  /\ 0 <= lo'[u] /\ hi'[u] < nitems'
                 /\ \A i \in 0..(nitems' - 1) :
                      Item(i)'.key = key'[u] => lo'[u] <= i /\ i <= hi'[u]
      <4>1. lo'[u] = 0 /\ hi'[u] = nitems - 1
        BY <3>1, <2>4, <1>0 DEF Get
      <4> QED BY <4>1, <2>1, <1>0
    <3>2. ASSUME pc[u] = "search", lo[u] <= hi[u]
          PROVE  /\ Mid(u) \in 0..(nitems - 1) /\ lo[u] <= Mid(u) /\ Mid(u) <= hi[u]
      BY <3>2, <1>0, MiddleInside DEF Mid, KeyInWindow
    <3>3. CASE GoLeft(t)
      <4>1. /\ pc[u] = "search" /\ lo'[u] = lo[u] /\ key'[u] = key[u]
            /\ hi'[u] = Mid(u) - 1 /\ key[u] < Item(Mid(u)).key /\ lo[u] <= hi[u]
        BY <3>3, <2>4, <1>0 DEF GoLeft
      <4>2. Mid(u) \in 0..(nitems - 1) /\ lo[u] <= Mid(u) /\ Mid(u) <= hi[u]
        BY <3>2, <4>1
      <4>3. ASSUME NEW i \in 0..(nitems - 1), Item(i).key = key[u]
            PROVE  lo[u] <= i /\ i < Mid(u)
        BY <4>1, <4>2, <4>3, <2>2, SortedSides DEF KeyInWindow
      <4>4. 0 <= lo[u]
        BY <4>1 DEF KeyInWindow
      <4> QED BY <4>1, <4>2, <4>3, <4>4, <2>1, <1>0
    <3>4. CASE GoRight(t)
      <4>1. /\ pc[u] = "search" /\ hi'[u] = hi[u] /\ key'[u] = key[u]
            /\ lo'[u] = Mid(u) + 1 /\ key[u] > Item(Mid(u)).key /\ lo[u] <= hi[u]
        BY <3>4, <2>4, <1>0 DEF GoRight
      <4>2. Mid(u) \in 0..(nitems - 1) /\ lo[u] <= Mid(u) /\ Mid(u) <= hi[u]
        BY <3>2, <4>1
      <4>3. ASSUME NEW i \in 0..(nitems - 1), Item(i).key = key[u]
            PROVE  i > Mid(u) /\ i <= hi[u]
        BY <4>1, <4>2, <4>3, <2>2, SortedSides DEF KeyInWindow
      <4>4. hi[u] < nitems
        BY <4>1 DEF KeyInWindow
      <4> QED BY <4>1, <4>2, <4>3, <4>4, <2>1, <1>0
    <3>5. ~Hit(t) /\ ~Miss(t)
      BY <1>0, <2>4 DEF Hit, Miss, Return
    <3> QED BY <1>2, <3>1, <3>3, <3>4, <3>5 DEF Search
  <2> QED BY <2>3, <2>4
<1>3. CASE UNCHANGED tableVars
  BY <1>3 DEF tableVars, searchVars, KeyInWindow, nitems, Item
<1> QED BY <1>1, <1>2, <1>3 DEF TableNext

-----------------------------------------------------------------------------
(* The inductive invariant.                                                *)
IInv == TableTypeOK /\ TableHoldsLines /\ KeyInWindow

(* It holds in every reachable state.                                      *)
LEMMA InvariantHolds == TableSpec => []IInv
<1>1. TableInit => IInv
  BY InitTableType, InitTable, InitWindow DEF IInv
<1>2. IInv /\ [TableNext]_tableVars => IInv'
  BY NextTableType, NextTable, NextWindow DEF IInv
<1> QED BY <1>1, <1>2, PTL DEF TableSpec

(* content.c:75 and simplecache.c:89: in every search the key is in        *)
(* items[lo..hi] or not present, and lo and hi stay within the table, for  *)
(* every table, with equal keys too.                                       *)
THEOREM KeyStaysInWindow == TableSpec => []KeyInWindow
BY InvariantHolds, PTL DEF IInv

(* content.c:74-84: each turn of a search at least halves its window, so   *)
(* that a search of any table ends within log2(nitems) + 1 turns.          *)
THEOREM SearchHalves == TableSpec => []WindowHalves
<1>1. TableInit => WindowHalves
  BY DEF TableInit, WindowHalves
<1>2. TableTypeOK /\ WindowHalves /\ [TableNext]_tableVars => WindowHalves'
  <2> SUFFICES ASSUME TableTypeOK, WindowHalves, [TableNext]_tableVars,
                      NEW t \in Threads, pc'[t] = "search"
               PROVE  hi'[t] - lo'[t] + 1 <= atMost'[t]
    BY DEF WindowHalves
  <2>0. /\ pc \in [Threads -> {"idle", "search", "done"}] /\ nitems \in Nat
        /\ lo \in [Threads -> Int] /\ hi \in [Threads -> Int] /\ atMost \in [Threads -> Nat]
    BY DEF TableTypeOK, nitems
  <2>1. ASSUME pc[t] = "search", lo'[t] = lo[t], hi'[t] = hi[t], atMost'[t] = atMost[t]
        PROVE  hi'[t] - lo'[t] + 1 <= atMost'[t]
    BY <2>1 DEF WindowHalves
  <2>2. CASE Load \/ UNCHANGED tableVars
    BY <2>1, <2>2 DEF Load, LoadLine, LoadFails, EndOfFile, Sort, searchVars, tableVars
  <2>3. ASSUME NEW u \in Threads, u # t, Search(u) \/ \E k \in Wanted : Get(u, k)
        PROVE  hi'[t] - lo'[t] + 1 <= atMost'[t]
    <3>1. pc[t] = "search" /\ lo'[t] = lo[t] /\ hi'[t] = hi[t] /\ atMost'[t] = atMost[t]
      BY <2>3, <2>0 DEF Search, Get, GoLeft, GoRight, Turn, Hit, Miss, Return
    <3> QED BY <2>1, <3>1
  <2>4. ASSUME NEW k \in Wanted, Get(t, k) PROVE hi'[t] - lo'[t] + 1 <= atMost'[t]
    <3>1. hi'[t] = nitems - 1 /\ lo'[t] = 0 /\ atMost'[t] = nitems
      BY <2>4, <2>0 DEF Get
    <3> HIDE DEF nitems
    <3> QED BY <3>1, <2>0
  <2>5. CASE GoLeft(t) \/ GoRight(t)
    <3> DEFINE w == hi[t] - lo[t] + 1
               n == atMost[t]
    <3>1. pc[t] = "search" /\ lo[t] <= hi[t] /\ lo[t] \in Int /\ hi[t] \in Int
      BY <2>5, <2>0 DEF GoLeft, GoRight
    <3>2. w \in Int /\ n \in Nat /\ w <= n
      BY <3>1, <2>0 DEF WindowHalves
    <3>3. atMost'[t] = n \div 2
      BY <2>5, <2>0 DEF GoLeft, GoRight, Turn
    <3>4. hi'[t] - lo'[t] + 1 <= w \div 2 /\ hi'[t] - lo'[t] + 1 \in Int
      <4>1. CASE GoLeft(t)
        <5>1. lo'[t] = lo[t] /\ hi'[t] = Mid(t) - 1
          BY <4>1, <2>0 DEF GoLeft
        <5> QED BY <5>1, <3>1, HalfIsLess DEF Mid
      <4>2. CASE GoRight(t)
        <5>1. hi'[t] = hi[t] /\ lo'[t] = Mid(t) + 1
          BY <4>2, <2>0 DEF GoRight
        <5> QED BY <5>1, <3>1, HalfIsLess DEF Mid
      <4> QED BY <4>1, <4>2, <2>5
    <3>5. w \div 2 <= n \div 2 /\ w \div 2 \in Int /\ n \div 2 \in Int
      BY <3>2, HalvesInOrder
    <3> HIDE DEF w, n
    <3> QED BY <3>3, <3>4, <3>5
  <2>6. ~Hit(t) /\ ~Miss(t)
    BY <2>0 DEF Hit, Miss, Return
  <2> QED BY <2>2, <2>3, <2>4, <2>5, <2>6 DEF TableNext, Search
<1>3. TableSpec => []TableTypeOK
  BY InvariantHolds, PTL DEF IInv
<1> QED BY <1>1, <1>2, <1>3, PTL DEF TableSpec

-----------------------------------------------------------------------------
(* Nothing has been returned.                                              *)
LEMMA InitFinds == TableInit => FindsListedFile
BY DEF TableInit, FindsListedFile

(* A result, once returned, answers the question that was asked.           *)
LEMMA NextFinds == IInv /\ FindsListedFile /\ [TableNext]_tableVars => FindsListedFile'
<1> DEFINE Answers(t) ==
      \/ /\ result[t] = NoFd
         /\ \A i \in 1..Len(Lines) : Lines[i].key # key[t]
      \/ \E i \in 1..Len(Lines) :
           /\ Lines[i].key = key[t]
           /\ result[t] = Lines[i].path \/ (~Lines[i].eol /\ result[t] = Chop[Lines[i].path])
<1> SUFFICES ASSUME IInv, FindsListedFile, [TableNext]_tableVars,
                    NEW t \in Threads, pc'[t] = "done"
             PROVE  Answers(t)'
  BY DEF FindsListedFile
<1>0. /\ nitems \in Nat /\ pc \in [Threads -> {"idle", "search", "done"}]
      /\ lo \in [Threads -> Int] /\ hi \in [Threads -> Int]
      /\ key \in [Threads -> Int] /\ result \in [Threads -> Paths \cup {NoFd}]
  BY DEF IInv, TableTypeOK, nitems
<1>1. CASE pc[t] = "done" /\ key'[t] = key[t] /\ result'[t] = result[t]
  BY <1>1 DEF FindsListedFile
<1>2. CASE Hit(t)
  <2>1. /\ pc[t] = "search" /\ lo[t] <= hi[t] /\ key[t] = Item(Mid(t)).key
        /\ key'[t] = key[t] /\ result'[t] = Item(Mid(t)).fildes /\ phase = "serve"
    BY <1>2, <1>0 DEF Hit, Return, IInv, TableHoldsLines
  <2>2. Mid(t) + 1 \in 1..nitems
    BY <2>1, <1>0, MiddleInside DEF Mid, IInv, KeyInWindow
  <2>3. PICK j \in 1..Len(Lines) : FromLine(items[Mid(t) + 1], j)
    BY <2>1, <2>2 DEF IInv, TableHoldsLines
  <2>4. Lines[j].key = key'[t] /\ StoredPath(j) = result'[t]
    BY <2>1, <2>3, Zenon DEF FromLine, Item
  <2>5. \/ result'[t] = Lines[j].path
        \/ ~Lines[j].eol /\ result'[t] = Chop[Lines[j].path]
    BY <2>4, Zenon DEF StoredPath
  <2> QED BY <2>4, <2>5
<1>3. CASE Miss(t)
  <2>1. /\ pc[t] = "search" /\ lo[t] > hi[t] /\ phase = "serve"
        /\ key'[t] = key[t] /\ result'[t] = NoFd
    BY <1>3, <1>0 DEF Miss, Return, IInv, TableHoldsLines
  <2>2. ASSUME NEW i \in 1..nitems PROVE items[i].key # key[t]
    <3>1. i - 1 \in 0..(nitems - 1) /\ Item(i - 1) = items[i]
      BY <1>0 DEF Item
    <3>2. Item(i - 1).key = key[t] => lo[t] <= i - 1 /\ i - 1 <= hi[t]
      BY <2>1, <3>1 DEF IInv, KeyInWindow
    <3>3. ~(lo[t] <= i - 1 /\ i - 1 <= hi[t])
      BY <2>1, <1>0
    <3> QED BY <3>1, <3>2, <3>3, Zenon
  <2>3. ASSUME NEW j \in 1..Len(Lines) PROVE Lines[j].key # key[t]
    BY <2>1, <2>2 DEF IInv, TableHoldsLines
  <2> QED BY <2>1, <2>3
<1>4. CASE Load
  <2>1. pc[t] = "idle" /\ pc' = pc
    BY <1>4 DEF Load, LoadLine, LoadFails, EndOfFile, Sort, searchVars, IInv, TableHoldsLines
  <2> QED BY <2>1
<1>5. ASSUME NEW u \in Threads, Search(u) \/ \E k \in Wanted : Get(u, k), ~Hit(t), ~Miss(t)
      PROVE  pc[t] = "done" /\ key'[t] = key[t] /\ result'[t] = result[t]
  BY <1>5, <1>0 DEF Search, GoLeft, GoRight, Hit, Miss, Return, Get
<1>6. CASE UNCHANGED tableVars
  BY <1>6, <1>1 DEF tableVars, searchVars
<1> QED BY <1>1, <1>2, <1>3, <1>4, <1>5, <1>6 DEF TableNext

(* content.c:22-85 and simplecache.c:38-100: a key is found exactly when a *)
(* line of the content file has it, and what is returned is the file that  *)
(* such a line names, whichever of several the unstable sort puts first;   *)
(* for a line without a newline it is that of the name less a character.   *)
THEOREM FindsWhatIsListed == TableSpec => []FindsListedFile
<1>1. IInv /\ FindsListedFile /\ [TableNext]_tableVars => FindsListedFile'
  BY NextFinds
<1> QED BY <1>1, InitFinds, InvariantHolds, PTL DEF TableSpec

-----------------------------------------------------------------------------
(* content.c:34-52 and simplecache.c:50-68: a line is read into            *)
(* items[nitems] before any test, and there is always room for it.         *)
THEOREM AlwaysRoom == TableSpec => []RoomForLine
<1>1. TableInit => RoomForLine
  BY ContentAssumption DEF TableInit, RoomForLine, nitems
<1>2. TableTypeOK /\ RoomForLine /\ [TableNext]_tableVars => RoomForLine'
  <2> SUFFICES ASSUME TableTypeOK, RoomForLine, [TableNext]_tableVars PROVE RoomForLine'
    OBVIOUS
  <2>0. nitems \in Nat /\ capacity \in Nat /\ items \in Seq([key : Int, fildes : disk])
    BY DEF TableTypeOK, nitems
  <2>1. CASE LoadLine
    <3>1. nitems' = nitems + 1 /\ phase = "load" /\ capacity' = Grow(nitems + 1)
      BY <2>1, <2>0 DEF LoadLine, nitems
    <3> QED BY <3>1, <2>0 DEF RoomForLine, Grow
  <2>2. CASE LoadFails \/ EndOfFile \/ Sort
    BY <2>2 DEF LoadFails, EndOfFile, Sort, RoomForLine
  <2>3. CASE \E t \in Threads : Search(t) \/ \E k \in Wanted : Get(t, k)
    BY <2>3 DEF Search, GoLeft, GoRight, Hit, Miss, Return, Get, RoomForLine, nitems
  <2>4. CASE UNCHANGED tableVars
    BY <2>4 DEF tableVars, RoomForLine, nitems
  <2> QED BY <2>1, <2>2, <2>3, <2>4 DEF TableNext, Load
<1>3. TableSpec => []TableTypeOK
  BY InvariantHolds, PTL DEF IInv
<1> QED BY <1>1, <1>2, <1>3, PTL DEF TableSpec
=============================================================================
