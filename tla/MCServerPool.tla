--------------------------- MODULE MCServerPool ---------------------------
(***************************************************************************)
(* Small instances of ServerPool: a file of two chunks and a missing one.  *)
(***************************************************************************)
EXTENDS ServerPool

Lengths == [long |-> 3]
MCBytes == {<<p, i>> : p \in DOMAIN Lengths, i \in 1..3}
MCFile == [p \in Cached |-> [i \in 1..Lengths[p] |-> <<p, i>>]]
=============================================================================
