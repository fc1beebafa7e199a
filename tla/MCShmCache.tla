---------------------------- MODULE MCShmCache ----------------------------
(***************************************************************************)
(* Small instances of ShmCache: a file that needs two chunks, one of a     *)
(* single byte and a missing one.  Bytes of different files,               *)
(* and the bytes within a file, are all different, so that a byte tells    *)
(* where it comes from.                                                    *)
(***************************************************************************)
EXTENDS ShmCache

Lengths == [long |-> 3, short |-> 1]
MCBytes == {<<p, i>> : p \in DOMAIN Lengths, i \in 1..3}
\* gfs_send may fail with -1, send nothing, or one byte only.
AllSendErrors == -1..1
AllReadErrors == -1..0
MCFile == [p \in Cached |-> [i \in 1..Lengths[p] |-> <<p, i>>]]
=============================================================================
