------------------------------- MODULE Deque -------------------------------
(***************************************************************************)
(* What steque.h promises: a sequence of items that grows at both ends and *)
(* shrinks at the front, and whose first item can be moved to the back.    *)
(***************************************************************************)
EXTENDS Integers, Sequences

CONSTANTS Items, NoItem

VARIABLES q,    \* the items, front first
          ans,  \* what the last steque_pop or steque_front returned
          dead  \* the program has ended on an underflow

Init == q = <<>> /\ ans = NoItem /\ dead = FALSE

Enqueue(x) == ~dead /\ q' = Append(q, x) /\ UNCHANGED <<ans, dead>>
Push(x) == ~dead /\ q' = <<x>> \o q /\ UNCHANGED <<ans, dead>>
Pop == ~dead /\ q # <<>> /\ ans' = Head(q) /\ q' = Tail(q) /\ UNCHANGED dead
Front == ~dead /\ q # <<>> /\ ans' = Head(q) /\ UNCHANGED <<q, dead>>
Cycle == ~dead /\ q # <<>> /\ q' = Append(Tail(q), Head(q)) /\ UNCHANGED <<ans, dead>>
Underflow == ~dead /\ q = <<>> /\ dead' = TRUE /\ UNCHANGED <<q, ans>>

Next == (\E x \in Items : Enqueue(x) \/ Push(x)) \/ Pop \/ Front \/ Cycle \/ Underflow

Spec == Init /\ [][Next]_<<q, ans, dead>>
=============================================================================
