---------------------------- MODULE ContentTable ----------------------------
(***************************************************************************)
(* The table of files behind the multithreaded server of pr1/mtgf          *)
(* (content.c) and behind the cache daemon of pr3/cache (simplecache.c):   *)
(* it is read from a file of "key path" lines, growing as it goes, sorted  *)
(* by qsort, and then searched by many threads at once, without a lock,    *)
(* with a binary search.  simplecache.c differs in the length of a line,   *)
(* and in an lseek to the start of a file that is found (line 95), which   *)
(* the daemon does not notice, for it reads with pread.                    *)
(*                                                                         *)
(* Abstractions: keys are integers, ordered as strcmp orders the strings;  *)
(* a descriptor is named by the path it was opened with; malloc and        *)
(* realloc succeed; the configured delay is left out.  A line is what one  *)
(* call of fgets gives: a line of the file that is longer than MAX_KEYLEN  *)
(* comes as several, of which only the last one has a newline.             *)
(***************************************************************************)
EXTENDS Integers, Sequences, Functions

CONSTANTS
  Threads,   \* the worker threads
  Paths,     \* names of files
  Lines,     \* the content file: a sequence of [key, path, eol], the last of
             \* which says whether there is a newline at the end
  NoPath,    \* the path of a line that has only a key
  Chop,      \* Chop[p]: p without its last character
  Disks,     \* the sets of files that may exist when the server starts
  Capacity,  \* 16, the size of the first allocation
  Wanted,    \* the keys that are looked up
  NoFd       \* -1

ASSUME ContentAssumption ==
  /\ Lines \in Seq([key : Int, path : Paths \cup {NoPath}, eol : BOOLEAN])
  /\ Chop \in [Paths \cup {NoPath} -> Paths \cup {NoPath}]
  /\ Disks \subseteq SUBSET Paths
  /\ Capacity \in Nat /\ Capacity > 1
  /\ Wanted \subseteq Int
  /\ NoFd \notin Paths /\ NoPath \notin Paths

VARIABLES
  disk,     \* the paths that open can open
  phase,    \* "load", "sort", "serve" or "exited"
  items,    \* the table: a sequence of [key, fildes]
  capacity, \* how many items fit into the allocation
  pc,       \* "idle", "search" or "done", for each thread
  key,      \* what it looks for
  lo, hi,   \* its window, counted from 0 as in the code
  result,   \* what content_get returned to it
  atMost    \* history: the size of the table, halved for each turn it took

searchVars == <<pc, key, lo, hi, result, atMost>>
tableVars == <<disk, phase, items, capacity, searchVars>>

nitems == Len(items)

\* items[i] of the code.
Item(i) == items[i + 1]

TableInit ==
  /\ disk \in Disks
  /\ phase = "load"
  /\ items = <<>>
  /\ capacity = Capacity
  /\ pc = [t \in Threads |-> "idle"]
  /\ key = [t \in Threads |-> 0]
  /\ lo = [t \in Threads |-> 0]
  /\ hi = [t \in Threads |-> 0]
  /\ result = [t \in Threads |-> NoFd]
  /\ atMost = [t \in Threads |-> 0]

-----------------------------------------------------------------------------
(* content_init                                                            *)

\* The path that open is given: the last character of the line is taken out,
\* whether it is a newline or belongs to the path.
StoredPath(i) == IF Lines[i].eol THEN Lines[i].path ELSE Chop[Lines[i].path]

Grow_Late(n) == IF n > capacity THEN 2 * capacity ELSE capacity  \* mutant
\* The allocation doubles as soon as it is full.
Grow(n) == IF n = capacity THEN 2 * capacity ELSE capacity

\* One turn of the loop: the next line goes into items[nitems].
LoadLine ==
  /\ phase = "load" /\ nitems < Len(Lines)
  /\ LET path == StoredPath(nitems + 1) IN
       /\ path \in disk
       /\ items' = Append(items, [key |-> Lines[nitems + 1].key, fildes |-> path])
  /\ capacity' = Grow(nitems + 1)
  /\ UNCHANGED <<disk, phase, searchVars>>

\* A file that cannot be opened, or a line without a path, ends the program.
LoadFails ==
  /\ phase = "load" /\ nitems < Len(Lines)
  /\ StoredPath(nitems + 1) \notin disk
  /\ phase' = "exited"
  /\ UNCHANGED <<disk, items, capacity, searchVars>>

EndOfFile ==
  /\ phase = "load" /\ nitems = Len(Lines)
  /\ phase' = "sort"
  /\ UNCHANGED <<disk, items, capacity, searchVars>>

Sorted(s) == \A i, j \in 1..Len(s) : i < j => s[i].key <= s[j].key

\* Mutant: no sort.
Sort_None ==
  /\ phase = "sort" /\ phase' = "serve"
  /\ UNCHANGED <<disk, items, capacity, searchVars>>

\* qsort: an order of the items by key; it is not stable.
Sort ==
  /\ phase = "sort" /\ phase' = "serve"
  /\ \E p \in Bijection(1..nitems, 1..nitems) :
       LET s == [i \in 1..nitems |-> items[p[i]]] IN Sorted(s) /\ items' = s
  /\ UNCHANGED <<disk, capacity, searchVars>>

-----------------------------------------------------------------------------
(* content_get                                                             *)

\* A thread calls content_get for k.
Get(t, k) ==
  /\ phase = "serve" /\ pc[t] \in {"idle", "done"}
  /\ pc' = [pc EXCEPT ![t] = "search"]
  /\ key' = [key EXCEPT ![t] = k]
  /\ lo' = [lo EXCEPT ![t] = 0]
  /\ hi' = [hi EXCEPT ![t] = nitems - 1]
  /\ atMost' = [atMost EXCEPT ![t] = nitems]
  /\ UNCHANGED <<disk, phase, items, capacity, result>>

Mid(t) == lo[t] + (hi[t] - lo[t]) \div 2
Turn(t) == atMost' = [atMost EXCEPT ![t] = @ \div 2]

\* The key is below the middle item.
GoLeft(t) ==
  /\ pc[t] = "search" /\ lo[t] <= hi[t]
  /\ key[t] < Item(Mid(t)).key
  /\ hi' = [hi EXCEPT ![t] = Mid(t) - 1]
  /\ Turn(t)
  /\ UNCHANGED <<disk, phase, items, capacity, pc, key, lo, result>>

\* Mutants: one item too many is passed over; the middle is kept.
GoRight_Skip(t) ==
  /\ pc[t] = "search" /\ lo[t] <= hi[t]
  /\ key[t] > Item(Mid(t)).key
  /\ lo' = [lo EXCEPT ![t] = Mid(t) + 2]
  /\ Turn(t)
  /\ UNCHANGED <<disk, phase, items, capacity, pc, key, hi, result>>
GoRight_Keep(t) ==
  /\ pc[t] = "search" /\ lo[t] <= hi[t]
  /\ key[t] > Item(Mid(t)).key
  /\ lo' = [lo EXCEPT ![t] = Mid(t)]
  /\ Turn(t)
  /\ UNCHANGED <<disk, phase, items, capacity, pc, key, hi, result>>

\* The key is above the middle item.
GoRight(t) ==
  /\ pc[t] = "search" /\ lo[t] <= hi[t]
  /\ key[t] > Item(Mid(t)).key
  /\ lo' = [lo EXCEPT ![t] = Mid(t) + 1]
  /\ Turn(t)
  /\ UNCHANGED <<disk, phase, items, capacity, pc, key, hi, result>>

Return(t, fd) ==
  /\ pc' = [pc EXCEPT ![t] = "done"]
  /\ result' = [result EXCEPT ![t] = fd]
  /\ UNCHANGED <<disk, phase, items, capacity, key, lo, hi, atMost>>

Hit(t) ==
  /\ pc[t] = "search" /\ lo[t] <= hi[t]
  /\ key[t] = Item(Mid(t)).key
  /\ Return(t, Item(Mid(t)).fildes)

Miss(t) == pc[t] = "search" /\ lo[t] > hi[t] /\ Return(t, NoFd)

Search(t) == GoLeft(t) \/ GoRight(t) \/ Hit(t) \/ Miss(t)

Load == LoadLine \/ LoadFails \/ EndOfFile \/ Sort

TableNext ==
  \/ Load
  \/ \E t \in Threads : Search(t) \/ \E k \in Wanted : Get(t, k)

TableSpec == TableInit /\ [][TableNext]_tableVars

-----------------------------------------------------------------------------
\* The values each variable takes; the table only holds files that are open.
TableTypeOK ==
  /\ disk \subseteq Paths
  /\ phase \in {"load", "sort", "serve", "exited"}
  /\ items \in Seq([key : Int, fildes : disk])
  /\ capacity \in Nat
  /\ pc \in [Threads -> {"idle", "search", "done"}]
  /\ key \in [Threads -> Int]
  /\ lo \in [Threads -> Int]
  /\ hi \in [Threads -> Int]
  /\ result \in [Threads -> Paths \cup {NoFd}]
  /\ atMost \in [Threads -> Nat]

(* content.c:34-52.  The next line is read straight into items[nitems],    *)
(* before the test that makes room: there is always room for it.           *)
RoomForLine == phase = "load" => nitems < capacity

(* content.c:75, "Key is in items[lo..hi] or not present": at every turn   *)
(* of every search, with equal keys too, and no index of the window leaves *)
(* the table.                                                              *)
KeyInWindow ==
  \A t \in Threads : pc[t] = "search" =>
    /\ 0 <= lo[t] /\ hi[t] < nitems
    /\ \A i \in 0..(nitems - 1) : Item(i).key = key[t] => lo[t] <= i /\ i <= hi[t]

(* content.c:22-61, 65-85 together.  A search finds a key exactly when     *)
(* some line of the content file has it, and returns the file that such a  *)
(* line names.  A line that does not end in a newline is an exception:     *)
(* content.c:36, for "Taking out EOL character", takes a character out of  *)
(* its path, and the file of that other name is returned.                  *)
FindsListedFile ==
  \A t \in Threads : pc[t] = "done" =>
    \/ /\ result[t] = NoFd
       /\ \A i \in 1..Len(Lines) : Lines[i].key # key[t]
    \/ \E i \in 1..Len(Lines) :
         /\ Lines[i].key = key[t]
         /\ result[t] = Lines[i].path \/ (~Lines[i].eol /\ result[t] = Chop[Lines[i].path])

(* content.c:74-84.  Every turn of a search at least halves its window:    *)
(* after n turns it has at most nitems / 2^n items, so that a search ends  *)
(* within log2(nitems) + 1 turns, whatever the order of its table.         *)
WindowHalves ==
  \A t \in Threads : pc[t] = "search" => hi[t] - lo[t] + 1 <= atMost[t]
=============================================================================
