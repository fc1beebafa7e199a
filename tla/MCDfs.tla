------------------------------- MODULE MCDfs -------------------------------
(***************************************************************************)
(* Small instances of Dfs: a file of which the clients and the server have *)
(* versions of two chunks, and an empty one that bob does not have; the    *)
(* server cannot write the empty one, and bob not the other.  A byte is    *)
(* named by its version and its place.                                     *)
(***************************************************************************)
EXTENDS Dfs

MCNames == {"f", "g"}
MCOwners == {"ann", "bob", "srv"}
MCHole == <<"hole", 0>>
MCByte == (MCOwners \X (1..3)) \cup {MCHole}
MCPlace == [b \in MCByte |-> b[2]]
Version(v, n) == [i \in 1..n |-> <<v, i>>]

MCOwner == [k \in Calls |-> IF k = "b" THEN "bob" ELSE "ann"]
MCLocal == [cl \in Clients |-> [n \in MCNames |->
  IF n = "g" THEN IF cl = "ann" THEN <<>> ELSE NoFile
  ELSE IF cl = "ann" THEN Version("ann", 3) ELSE Version("bob", 1)]]
MCLocked == [cl \in Clients |-> IF cl = "bob" THEN {"f"} ELSE {}]
MCRemote == [n \in MCNames |-> IF n = "g" THEN <<>> ELSE Version("srv", 2)]
=============================================================================
