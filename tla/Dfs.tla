-------------------------------- MODULE Dfs --------------------------------
(***************************************************************************)
(* The file service of pr4: the handlers of dfslib-servernode-p1.cpp, one  *)
(* thread of the gRPC server for each call and no lock on the mount        *)
(* directory, and the client library dfs-clientnode-p1.cpp.  Files travel  *)
(* in chunks, a call has a deadline, and a handler learns of it when it    *)
(* asks.                                                                   *)
(*                                                                         *)
(* Abstractions: a call is made once, and a client makes one at a time; a  *)
(* file that is created is named by the call that creates it; a chunk is   *)
(* read from the disk, and written to it, when the loop comes to it; a     *)
(* stream holds up to Window chunks; times of files are left out, and the  *)
(* entries "." and ".." of a directory are one, Dot.                       *)
(***************************************************************************)
EXTENDS Integers, Sequences

CONSTANTS
  Clients,    \* each has a mount directory of its own
  Calls,      \* the calls that are made
  Owner,      \* Owner[k]: the client that makes call k
  Ops,        \* the operations they may be
  Names,      \* the names of files
  Dot,        \* the entry of a directory for itself and its parent
  Byte,       \* what files hold
  Hole,       \* the byte one reads where nothing was written
  Place,      \* Place[b]: where byte b was in the file it comes from
  Local,      \* Local[c][n]: the file n of client c at first, or NoFile
  Remote,     \* Remote[n]: the file n of the server at first, or NoFile
  NoFile,
  Unwritable, \* the names that the server may not open for writing
  Locked,     \* Locked[c]: those that client c may not
  Editors,    \* the clients whose user shortens files meanwhile
  Chunk,      \* 1024
  Window      \* the chunks gRPC lets a stream hold

Files == Names \cup Calls
InPlace(s) == \A i \in 1..Len(s) : s[i] = Hole \/ Place[s[i]] = i
Content == Seq(Byte) \cup {NoFile}

ASSUME DfsAssumption ==
  /\ Owner \in [Calls -> Clients]
  /\ Names \cap Calls = {}
  /\ Hole \in Byte
  /\ Local \in [Clients -> [Names -> Content]]
  /\ Remote \in [Names -> Content]
  /\ \A cl \in Clients, n \in Names : Local[cl][n] # NoFile => InPlace(Local[cl][n])
  /\ \A n \in Names : Remote[n] # NoFile => InPlace(Remote[n])
  /\ NoFile \notin Seq(Byte) /\ NoFile \notin Files /\ Dot \notin Names
  /\ Chunk \in Nat \ {0} /\ Window \in Nat \ {0}
  /\ Locked \in [Clients -> SUBSET Names]

VARIABLES
  dir,       \* the server's directory: the file of each name, or NoFile
  data,      \* what each file of the server holds
  local,     \* the mount directory of each client
  c,         \* the client's side of each call
  h,         \* the handler of each call
  up, down,  \* the chunks on their way, to the server and to the client
  expired,   \* the calls whose deadline has passed
  cancelled, \* those of which the server knows it
  touched    \* history: the calls whose file another handler has changed
             \* between the first look of their handler and their return

disk == <<dir, data>>
vars == <<disk, local, c, h, up, down, expired, cancelled, touched>>

Init ==
  /\ dir = [n \in Names |-> IF Remote[n] = NoFile THEN NoFile ELSE n]
  /\ data = [f \in Files |-> IF f \in Names /\ Remote[f] # NoFile THEN Remote[f] ELSE <<>>]
  /\ local = Local
  /\ c = [k \in Calls |-> [st |-> "idle", op |-> "none", name |-> NoFile, size |-> 0, off |-> 0,
                           eof |-> FALSE, opened |-> FALSE, map |-> {}, status |-> "none"]]
  /\ h = [k \in Calls |-> [st |-> "wait", ino |-> NoFile, size |-> 0, off |-> 0,
                           eof |-> FALSE, todo |-> {}, items |-> {}, status |-> "none"]]
  /\ up = [k \in Calls |-> <<>>] /\ down = [k \in Calls |-> <<>>]
  /\ expired = {} /\ cancelled = {} /\ touched = {}

-----------------------------------------------------------------------------
Greater(i, j) == IF i > j THEN i ELSE j
Lesser(i, j) == IF i < j THEN i ELSE j

\* What a read of one chunk returns.
ReadAt(s, off) == SubSeq(s, off + 1, Lesser(off + Chunk, Len(s)))

WriteAt_Append(s, off, m) == s \o m  \* mutant: the file is opened with ios::app
\* The file s after m is written at off; a gap reads as holes.
WriteAt(s, off, m) ==
  [i \in 1..(IF m = <<>> THEN Len(s) ELSE Greater(Len(s), off + Len(m))) |->
     IF i \in (off + 1)..(off + Len(m)) THEN m[i - off]
     ELSE IF i <= Len(s) THEN s[i] ELSE Hole]

\* Write waits for room; once the call is dead it returns false at once.
Room(q, k) == Len(q[k]) < Window \/ k \in expired
\* The stream after a Write whose result the caller ignores.
Written(q, k, m) == IF k \in expired THEN q ELSE [q EXCEPT ![k] = Append(@, m)]

Busy(k) == c[k].st \in {"send", "finish", "recv", "await"}
HasDeadline(k) == Busy(k)

\* The deadline passes.
Expire(k) ==
  /\ HasDeadline(k) /\ k \notin expired
  /\ expired' = expired \cup {k}
  /\ UNCHANGED <<disk, local, c, h, up, down, cancelled, touched>>

\* The server gets to know it, maybe before the handler runs.
NoticeCancel(k) ==
  /\ k \in expired \ cancelled /\ h[k].st # "over"
  /\ cancelled' = cancelled \cup {k}
  /\ UNCHANGED <<disk, local, c, h, up, down, expired, touched>>

\* A call that expires before the server has seen it may never get there.
Lost(k) ==
  /\ k \in expired /\ h[k].st = "wait"
  /\ h' = [h EXCEPT ![k].st = "over"]
  /\ UNCHANGED <<disk, local, c, up, down, expired, cancelled, touched>>

\* The user of a client shortens a file.
Shorten(cl, n) ==
  /\ cl \in Editors /\ local[cl][n] # NoFile
  /\ \E l \in 0..(Len(local[cl][n]) - 1) :
       local' = [local EXCEPT ![cl][n] = SubSeq(@, 1, l)]
  /\ UNCHANGED <<disk, c, h, up, down, expired, cancelled, touched>>

-----------------------------------------------------------------------------
(* The client's side                                                       *)

Mine(k) == local[Owner[k]][c[k].name]

CanStart(k, op) ==
  /\ c[k].st = "idle" /\ op \in Ops
  /\ \A j \in Calls : Owner[j] = Owner[k] => ~Busy(j)

Started(k, st, op, n) == [c[k] EXCEPT !.st = st, !.op = op, !.name = n]

\* Store: stat of the local file, then the stream.
StartStore(k, n) ==
  /\ CanStart(k, "store")
  /\ LET file == local[Owner[k]][n] IN
       c' = [c EXCEPT ![k] = IF file = NoFile
               THEN [Started(k, "over", "store", n) EXCEPT !.status = "NOT_FOUND"]
               ELSE [Started(k, "send", "store", n) EXCEPT !.size = Len(file)]]
  /\ UNCHANGED <<disk, local, h, up, down, expired, cancelled, touched>>

MoreToSend_Less(k) == c[k].off < c[k].size - 1  \* mutant
MoreToSend(k) == c[k].off < c[k].size

\* A chunk of the file as it is now; at its end, an empty one.
SendChunk(k) ==
  /\ c[k].st = "send" /\ MoreToSend(k) /\ Room(up, k)
  /\ LET m == IF c[k].eof THEN <<>> ELSE ReadAt(Mine(k), c[k].off) IN
       /\ up' = Written(up, k, m)
       /\ c' = [c EXCEPT ![k].off = @ + Len(m), ![k].eof = @ \/ Len(m) < Chunk]
  /\ UNCHANGED <<disk, local, h, down, expired, cancelled, touched>>

WritesDone(k) ==
  /\ c[k].st = "send" /\ ~MoreToSend(k)
  /\ c' = [c EXCEPT ![k].st = "finish"]
  /\ UNCHANGED <<disk, local, h, up, down, expired, cancelled, touched>>

\* The status is the handler's, unless the deadline passed before it came.
Outcome(k) == IF k \in expired THEN "DEADLINE_EXCEEDED" ELSE h[k].status

\* The call is over for the client, who has put the names m into its map.
Over(k, m) ==
  /\ k \in expired \/ h[k].st = "over"
  /\ c' = [c EXCEPT ![k].st = "over", ![k].status = Outcome(k), ![k].map = m]
  /\ UNCHANGED <<disk, local, h, up, down, expired, cancelled, touched>>

FinishStore(k) == c[k].st = "finish" /\ Over(k, {})

StartFetch(k, n) ==
  /\ CanStart(k, "fetch")
  /\ c' = [c EXCEPT ![k] = Started(k, "recv", "fetch", n)]
  /\ UNCHANGED <<disk, local, h, up, down, expired, cancelled, touched>>

CanOpen(k) == c[k].name \notin Locked[Owner[k]]

\* The first chunk opens, and truncates, the local file.
ReceiveChunk(k) ==
  /\ c[k].st = "recv" /\ down[k] # <<>> /\ CanOpen(k)
  /\ LET m == Head(down[k])
         file == IF c[k].opened THEN Mine(k) ELSE <<>> IN
       /\ local' = [local EXCEPT ![Owner[k]][c[k].name] = WriteAt(file, c[k].off, m)]
       /\ c' = [c EXCEPT ![k].opened = TRUE, ![k].off = @ + Len(m)]
  /\ down' = [down EXCEPT ![k] = Tail(@)]
  /\ UNCHANGED <<disk, h, up, expired, cancelled, touched>>

\* The open fails, for this chunk and the next: they count, and are dropped.
DropChunk(k) ==
  /\ c[k].st = "recv" /\ down[k] # <<>> /\ ~CanOpen(k)
  /\ c' = [c EXCEPT ![k].off = @ + Len(Head(down[k]))]
  /\ down' = [down EXCEPT ![k] = Tail(@)]
  /\ UNCHANGED <<disk, local, h, up, expired, cancelled, touched>>

FinishFetch(k) ==
  /\ c[k].st = "recv"
  /\ k \in expired \/ down[k] = <<>>
  /\ Over(k, {})

\* Delete, Stat and List send one message and await one.
StartUnary(k, op, n) ==
  /\ CanStart(k, op)
  /\ c' = [c EXCEPT ![k] = Started(k, "await", op, n)]
  /\ UNCHANGED <<disk, local, h, up, down, expired, cancelled, touched>>

StartDelete(k, n) == StartUnary(k, "delete", n)
FinishDelete(k) == c[k].st = "await" /\ c[k].op = "delete" /\ Over(k, {})

\* What Stat has got it prints; its caller gets the status only.
StartStat(k, n) == StartUnary(k, "stat", n)
FinishStat(k) == c[k].st = "await" /\ c[k].op = "stat" /\ Over(k, {})

StartList(k) == StartUnary(k, "list", NoFile)
FinishList(k) ==
  /\ c[k].st = "await" /\ c[k].op = "list"
  /\ Over(k, IF Outcome(k) = "OK" THEN h[k].items ELSE {})

ClientStep(k) ==
  \/ SendChunk(k) \/ WritesDone(k) \/ FinishStore(k)
  \/ ReceiveChunk(k) \/ DropChunk(k) \/ FinishFetch(k)
  \/ FinishDelete(k) \/ FinishStat(k) \/ FinishList(k)

-----------------------------------------------------------------------------
(* The handlers                                                            *)

Name(k) == c[k].name
\* The call gets to the server, maybe after the client has given it up.
Arrives(k, op) ==
  h[k].st = "wait" /\ c[k].op = op /\ (Busy(k) \/ (c[k].st = "over" /\ k \in expired))
IsCancelled_Never(k) == FALSE  \* mutant: nobody asks
IsCancelled(k) == k \in cancelled

\* The handler of k changes the file that name n stands for.
Touch(k, n) ==
  touched' = touched \cup
    {j \in Calls \ {k} : Name(j) = n /\ h[j].st # "wait" /\ c[j].st # "over"}

Return(k, s) ==
  /\ h' = [h EXCEPT ![k].st = "over", ![k].status = s]
  /\ UNCHANGED <<local, c, up, expired, cancelled>>

\* storeFile opens its file, which creates or truncates it; that the open
\* failed is not noticed.
OpenStore(k) ==
  /\ Arrives(k, "store")
  /\ LET n == Name(k)
         f == IF n \in Unwritable THEN NoFile ELSE IF dir[n] = NoFile THEN k ELSE dir[n] IN
       /\ h' = [h EXCEPT ![k].st = "store", ![k].ino = f]
       /\ IF f = NoFile THEN UNCHANGED <<disk, touched>>
          ELSE /\ dir' = [dir EXCEPT ![n] = f]
               /\ data' = [data EXCEPT ![f] = <<>>]
               /\ Touch(k, n)
  /\ UNCHANGED <<local, c, up, down, expired, cancelled>>

\* Read returns a chunk; after the test it is written where the last ended.
StoreChunk(k) ==
  /\ h[k].st = "store" /\ up[k] # <<>> /\ ~IsCancelled(k)
  /\ LET m == Head(up[k])
         f == h[k].ino IN
       /\ h' = [h EXCEPT ![k].off = @ + Len(m)]
       /\ IF f = NoFile THEN UNCHANGED <<data, touched>>
          ELSE /\ data' = [data EXCEPT ![f] = WriteAt(@, h[k].off, m)]
               /\ Touch(k, Name(k))
  /\ up' = [up EXCEPT ![k] = Tail(@)]
  /\ UNCHANGED <<dir, local, c, down, expired, cancelled>>

\* Read returned a chunk of a call that is cancelled by now.
StoreCancelled(k) ==
  /\ h[k].st = "store" /\ up[k] # <<>> /\ IsCancelled(k)
  /\ Return(k, "DEADLINE_EXCEEDED")
  /\ UNCHANGED <<disk, down, touched>>

\* Read returned false, at the end of the stream or because it broke.
StoreDone(k) ==
  /\ h[k].st = "store"
  /\ (up[k] = <<>> /\ c[k].st = "finish") \/ k \in cancelled
  /\ Return(k, "OK")
  /\ UNCHANGED <<disk, down, touched>>

\* fetchFile first takes the size of the file.
StatFetch(k) ==
  /\ Arrives(k, "fetch")
  /\ LET f == dir[Name(k)] IN
       h' = [h EXCEPT ![k] = IF f = NoFile THEN [@ EXCEPT !.st = "over", !.status = "NOT_FOUND"]
                             ELSE [@ EXCEPT !.st = "open", !.size = Len(data[f])]]
  /\ UNCHANGED <<disk, local, c, up, down, expired, cancelled, touched>>

\* Then it opens it; that it is gone by now is not noticed.
OpenFetch(k) ==
  /\ h[k].st = "open"
  /\ LET f == dir[Name(k)] IN
       h' = [h EXCEPT ![k].st = "fetch", ![k].ino = f, ![k].eof = (f = NoFile)]
  /\ UNCHANGED <<disk, local, c, up, down, expired, cancelled, touched>>

MoreToFetch_Less(k) == h[k].off < h[k].size - 1  \* mutant
MoreToFetch(k) == h[k].off < h[k].size

\* A chunk of the file as it is now; at its end, an empty one.
FetchChunk(k) ==
  /\ h[k].st = "fetch" /\ MoreToFetch(k) /\ ~IsCancelled(k) /\ Room(down, k)
  /\ LET m == IF h[k].eof THEN <<>> ELSE ReadAt(data[h[k].ino], h[k].off) IN
       /\ down' = Written(down, k, m)
       /\ h' = [h EXCEPT ![k].off = @ + Len(m), ![k].eof = @ \/ Len(m) < Chunk]
  /\ UNCHANGED <<disk, local, c, up, expired, cancelled, touched>>

FetchCancelled(k) ==
  /\ h[k].st = "fetch" /\ MoreToFetch(k) /\ IsCancelled(k)
  /\ Return(k, "DEADLINE_EXCEEDED")
  /\ UNCHANGED <<disk, down, touched>>

FetchDone(k) ==
  /\ h[k].st = "fetch" /\ ~MoreToFetch(k)
  /\ Return(k, "OK")
  /\ UNCHANGED <<disk, down, touched>>

\* deleteFile and getFileAttrs first ask whether the call is dead.
CancelledAtStart(k) ==
  /\ Arrives(k, "delete") \/ Arrives(k, "stat")
  /\ IsCancelled(k) /\ Return(k, "DEADLINE_EXCEEDED")
  /\ UNCHANGED <<disk, down, touched>>

\* getFileAttrs is one stat.
Attrs(k) ==
  /\ Arrives(k, "stat") /\ ~IsCancelled(k)
  /\ LET f == dir[Name(k)] IN
       h' = [h EXCEPT ![k] = IF f = NoFile THEN [@ EXCEPT !.st = "over", !.status = "NOT_FOUND"]
                             ELSE [@ EXCEPT !.st = "over", !.status = "OK", !.size = Len(data[f])]]
  /\ UNCHANGED <<disk, local, c, up, down, expired, cancelled, touched>>

StatDelete_Untested(k) ==  \* mutant: it goes on
  /\ Arrives(k, "delete") /\ ~IsCancelled(k)
  /\ h' = [h EXCEPT ![k].st = "remove", ![k].ino = dir[Name(k)]]
  /\ UNCHANGED <<disk, local, c, up, down, expired, cancelled, touched>>

\* deleteFile looks whether the file is there,
StatDelete(k) ==
  /\ Arrives(k, "delete") /\ ~IsCancelled(k)
  /\ LET f == dir[Name(k)] IN
       h' = [h EXCEPT ![k] = IF f = NoFile THEN [@ EXCEPT !.st = "over", !.status = "NOT_FOUND"]
                             ELSE [@ EXCEPT !.st = "remove", !.ino = f]]
  /\ UNCHANGED <<disk, local, c, up, down, expired, cancelled, touched>>

\* Mutant: the result of remove is not tested.
Remove_Untested(k) ==
  /\ h[k].st = "remove"
  /\ dir' = [dir EXCEPT ![Name(k)] = NoFile]
  /\ Touch(k, Name(k))
  /\ Return(k, "OK")
  /\ UNCHANGED <<data, down>>

\* and removes what has the name now.
Remove(k) ==
  /\ h[k].st = "remove"
  /\ LET f == dir[Name(k)] IN
       IF f = NoFile
       THEN h' = [h EXCEPT ![k].st = "over", ![k].status = "CANCELLED"] /\ UNCHANGED <<dir, touched>>
       ELSE /\ dir' = [dir EXCEPT ![Name(k)] = NoFile]
            /\ Touch(k, Name(k))
            /\ h' = [h EXCEPT ![k].st = "over", ![k].status = "OK", ![k].ino = f]
  /\ UNCHANGED <<data, local, c, up, down, expired, cancelled>>

\* listFiles opens the directory,
There(n) == n = Dot \/ dir[n] # NoFile
OpenList(k) ==
  /\ Arrives(k, "list")
  /\ h' = [h EXCEPT ![k].st = "list", ![k].todo = {n \in Names \cup {Dot} : There(n)}]
  /\ UNCHANGED <<disk, local, c, up, down, expired, cancelled, touched>>

\* and goes through its entries, in any order; a file that has come since
\* may be among them.  One that is gone by the time of its stat is skipped.
ListEntry_Break(k) ==  \* mutant: it ends the loop
  /\ h[k].st = "list" /\ ~IsCancelled(k)
  /\ \E n \in h[k].todo :
       h' = [h EXCEPT ![k].todo = IF There(n) THEN @ \ {n} ELSE {},
                      ![k].items = IF There(n) THEN @ \cup {n} ELSE @]
  /\ UNCHANGED <<disk, local, c, up, down, expired, cancelled, touched>>
ListEntry(k) ==
  /\ h[k].st = "list" /\ ~IsCancelled(k)
  /\ \E n \in h[k].todo \cup {m \in Names \ h[k].items : There(m)} :
       h' = [h EXCEPT ![k].todo = @ \ {n}, ![k].items = IF There(n) THEN @ \cup {n} ELSE @]
  /\ UNCHANGED <<disk, local, c, up, down, expired, cancelled, touched>>

\* The directory stays open.
ListCancelled(k) ==
  /\ h[k].st = "list" /\ h[k].todo # {} /\ IsCancelled(k)
  /\ Return(k, "DEADLINE_EXCEEDED")
  /\ UNCHANGED <<disk, down, touched>>

ListDone(k) ==
  /\ h[k].st = "list" /\ h[k].todo = {}
  /\ Return(k, "OK")
  /\ UNCHANGED <<disk, down, touched>>

HandlerStep(k) ==
  \/ CancelledAtStart(k) \/ Attrs(k)
  \/ OpenList(k) \/ ListEntry(k) \/ ListCancelled(k) \/ ListDone(k)
  \/ OpenStore(k) \/ StoreChunk(k) \/ StoreCancelled(k) \/ StoreDone(k)
  \/ StatFetch(k) \/ OpenFetch(k) \/ FetchChunk(k) \/ FetchCancelled(k) \/ FetchDone(k)
  \/ StatDelete(k) \/ Remove(k)

Next ==
  \/ \E k \in Calls : ClientStep(k) \/ HandlerStep(k) \/ Expire(k) \/ NoticeCancel(k) \/ Lost(k)
  \/ \E k \in Calls : StartList(k)
  \/ \E k \in Calls, n \in Names :
       StartStore(k, n) \/ StartFetch(k, n) \/ StartDelete(k, n) \/ StartStat(k, n)
  \/ \E cl \in Clients, n \in Names : Shorten(cl, n)

Spec == Init /\ [][Next]_vars

\* Threads run, time passes, and the server is told of a broken call.
FairSpec ==
  /\ Spec
  /\ \A k \in Calls : /\ WF_vars(ClientStep(k)) /\ WF_vars(HandlerStep(k))
                      /\ WF_vars(Expire(k)) /\ WF_vars(NoticeCancel(k) \/ Lost(k))

-----------------------------------------------------------------------------
Statuses == {"none", "OK", "NOT_FOUND", "DEADLINE_EXCEEDED", "CANCELLED"}
ClientSide ==
  [st : {"idle", "send", "finish", "recv", "await", "over"},
   op : {"none", "store", "fetch", "delete", "stat", "list"}, name : Names \cup {NoFile},
   size : Nat, off : Nat, eof : BOOLEAN, opened : BOOLEAN, map : SUBSET (Names \cup {Dot}),
   status : Statuses]
HandlerSide ==
  [st : {"wait", "store", "open", "fetch", "remove", "list", "over"}, ino : Files \cup {NoFile},
   size : Nat, off : Nat, eof : BOOLEAN, todo : SUBSET (Names \cup {Dot}),
   items : SUBSET (Names \cup {Dot}), status : Statuses]

\* The values each variable takes.  Streams stay within their window; a
\* handler that reads or removes a file has found it.
TypeOK ==
  /\ dir \in [Names -> Files \cup {NoFile}]
  /\ data \in [Files -> Seq(Byte)]
  /\ local \in [Clients -> [Names -> Content]]
  /\ c \in [Calls -> ClientSide]
  /\ h \in [Calls -> HandlerSide]
  /\ up \in [Calls -> Seq(Seq(Byte))] /\ down \in [Calls -> Seq(Seq(Byte))]
  /\ expired \subseteq Calls /\ cancelled \subseteq expired /\ touched \subseteq Calls
  /\ \A k \in Calls :
       /\ Len(up[k]) <= Window /\ Len(down[k]) <= Window
       /\ c[k].st # "idle" /\ c[k].op # "list" => c[k].name \in Names
       /\ c[k].st = "recv" /\ c[k].opened => Mine(k) # NoFile
       /\ h[k].st = "fetch" /\ ~h[k].eof => h[k].ino # NoFile
       /\ h[k].st = "remove" => h[k].ino # NoFile

(* dfslib-servernode-p1.cpp:160-177 and dfs-clientnode-p1.cpp:115-128.     *)
(* However stores, fetches and removals of one file interleave, a byte     *)
(* never leaves its place: what a file holds at i was at i in the file it  *)
(* came from, or was never written.                                        *)
ByteInPlace ==
  /\ \A f \in Files : InPlace(data[f])
  /\ \A cl \in Clients, n \in Names : local[cl][n] # NoFile => InPlace(local[cl][n])

(* dfs-clientnode-p1.cpp:57-101 with dfslib-servernode-p1.cpp:144-187.     *)
(* When Store returns OK, the server's file is the client's, unless        *)
(* another call has changed it meanwhile or its user has, or the server    *)
(* could not open it, which lines 160-177 do not notice.                   *)
OkStoreIsThere ==
  [][\A k \in Calls :
       c[k].st = "finish" /\ c'[k].st = "over" /\ c'[k].status = "OK" /\ k \notin touched
         /\ Owner[k] \notin Editors /\ Name(k) \notin Unwritable
       => /\ dir[Name(k)] # NoFile
          /\ data[dir[Name(k)]] = Mine(k)]_vars

(* dfs-clientnode-p1.cpp:104-148 with dfslib-servernode-p1.cpp:95-141.     *)
(* When Fetch returns OK for a file that is not empty, the local file is   *)
(* the server's, unless another call has changed that meanwhile, or the    *)
(* local file could not be opened, which lines 122-127 do not notice.      *)
OkFetchIsWhole ==
  [][\A k \in Calls :
       c[k].st = "recv" /\ c'[k].st = "over" /\ c'[k].status = "OK" /\ k \notin touched
         /\ Owner[k] \notin Editors /\ CanOpen(k) /\ h[k].size # 0
       => dir[Name(k)] # NoFile /\ Mine(k) = data[dir[Name(k)]]]_vars

(* dfslib-servernode-p1.cpp:233-245.  Two deletions can both find the      *)
(* file, but only one of them returns OK for it.                           *)
DeletedOnce ==
  \A j, k \in Calls :
    /\ j # k /\ c[j].op = "delete" /\ c[k].op = "delete"
    /\ h[j].status = "OK" /\ h[k].status = "OK"
    => h[j].ino # h[k].ino

(* dfslib-servernode-p1.cpp:261-278.  A listing that returns OK has every  *)
(* file that was there all the time, although readdir and stat of its      *)
(* entries are interleaved with other handlers that remove files and make  *)
(* new ones.  (A name whose file is the first one has never been removed.) *)
ListsWhatStays ==
  [][\A k \in Calls :
       c[k].op = "list" /\ c[k].st = "await" /\ c'[k].st = "over" /\ c'[k].status = "OK"
       => {n \in Names : dir[n] = n} \subseteq c'[k].map]_vars

(* dfslib-servernode-p1.cpp:118-130, 168-177.  No handler runs for ever,   *)
(* not even one whose file got shorter, because it asks IsCancelled.       *)
HandlersEnd == \A k \in Calls : (h[k].st # "wait") ~> (h[k].st = "over")
=============================================================================
