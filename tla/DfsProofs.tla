----------------------------- MODULE DfsProofs -----------------------------
(***************************************************************************)
(* Theorems about Dfs, for any number of clients, calls and files, any     *)
(* size of chunks and any room in a stream.  The types tie each handler to *)
(* the operation of its call.  On them rest two invariants: which file a   *)
(* name can stand for, so that what was removed stays removed, and where   *)
(* the bytes of the chunks in a stream belong.                             *)
(***************************************************************************)
EXTENDS Dfs, SequenceTheorems, TLAPS

\* A handler runs a call of its own kind; a call that was not made is fresh.
Role(k) ==
  /\ c[k].st = "idle" => ~c[k].opened /\ h[k].st = "wait" /\ k \notin expired
  /\ c[k].st \in {"send", "finish"} => c[k].op = "store"
  /\ c[k].st = "recv" => c[k].op = "fetch"
  /\ c[k].st = "send" => Mine(k) # NoFile
  /\ h[k].st = "store" => c[k].op = "store"
  /\ h[k].st \in {"open", "fetch"} => c[k].op = "fetch"
  /\ h[k].st = "remove" => c[k].op = "delete"
  /\ h[k].st = "list" => c[k].op = "list"

Roles == \A k \in Calls : Role(k)

Streams == [Calls -> Seq(Seq(Byte))]
InWindow(q) == \A k \in Calls : Len(q[k]) <= Window

-----------------------------------------------------------------------------
(* Types of what is read and written                                       *)

LEMMA ReadType ==
  ASSUME NEW s \in Seq(Byte), NEW off \in Nat
  PROVE  ReadAt(s, off) \in Seq(Byte)
  BY DfsAssumption DEF ReadAt, Lesser

LEMMA WriteType ==
  ASSUME NEW s \in Seq(Byte), NEW off \in Nat, NEW m \in Seq(Byte)
  PROVE  WriteAt(s, off, m) \in Seq(Byte)
  <1> DEFINE l == IF m = <<>> THEN Len(s) ELSE Greater(Len(s), off + Len(m))
             w == WriteAt(s, off, m)
  <1>1. l \in Nat
    BY DEF Greater
  <1>2. \A i \in 1..l : w[i] \in Byte
    BY <1>1, DfsAssumption DEF WriteAt
  <1>3. w = [i \in 1..l |-> w[i]]
    BY DEF WriteAt
  <1> HIDE DEF w, l
  <1>4. w \in [1..l -> Byte]
    BY <1>2, <1>3
  <1>5. w \in Seq(Byte)
    BY <1>1, <1>4, SeqDef
  <1>6. QED
    BY <1>5 DEF w

LEMMA WrittenType ==
  ASSUME NEW q \in Streams, InWindow(q), NEW k \in Calls, NEW m \in Seq(Byte), Room(q, k)
  PROVE  Written(q, k, m) \in Streams /\ InWindow(Written(q, k, m))
  BY DfsAssumption DEF Written, Room, Streams, InWindow

LEMMA TailType ==
  ASSUME NEW q \in Streams, InWindow(q), NEW k \in Calls, q[k] # <<>>
  PROVE  /\ [q EXCEPT ![k] = Tail(@)] \in Streams /\ InWindow([q EXCEPT ![k] = Tail(@)])
         /\ Head(q[k]) \in Seq(Byte)
  <1>1. q[k] \in Seq(Seq(Byte)) /\ Len(q[k]) <= Window
    BY DEF Streams, InWindow
  <1>2. Head(q[k]) \in Seq(Byte) /\ Tail(q[k]) \in Seq(Seq(Byte)) /\ Len(Tail(q[k])) = Len(q[k]) - 1
    BY <1>1
  <1>3. Len(q[k]) \in Nat /\ Len(Tail(q[k])) <= Window
    BY <1>1, <1>2, DfsAssumption
  <1>4. QED
    BY <1>2, <1>3 DEF Streams, InWindow

-----------------------------------------------------------------------------
(* A step changes one side of one call                                     *)

TInv == TypeOK /\ Roles

\* Call k is at a point of the client library that suits its handler.
LEMMA ClientFrame ==
  ASSUME TInv, NEW k \in Calls, NEW r \in ClientSide, c' = [c EXCEPT ![k] = r],
         UNCHANGED <<disk, h, expired, cancelled, touched>>,
         local' \in [Clients -> [Names -> Content]],
         \A cl \in Clients, n \in Names : local[cl][n] # NoFile => local'[cl][n] # NoFile,
         up' \in Streams, down' \in Streams, InWindow(up'), InWindow(down'),
         r.st # "idle",
         r.op # "list" => r.name \in Names,
         r.st \in {"send", "finish"} => r.op = "store",
         r.st = "recv" => r.op = "fetch",
         r.st = "send" \/ (r.st = "recv" /\ r.opened) => local'[Owner[k]][r.name] # NoFile,
         c[k].st = "idle" \/ r.op = c[k].op
  PROVE  TInv'
  <1> USE DEF TInv
  <1>1. c' \in [Calls -> ClientSide]
    BY DEF TypeOK
  <1>2. c'[k] = r /\ \A j \in Calls \ {k} : c'[j] = c[j]
    BY DEF TypeOK
  <1>3. \A j \in Calls : Owner[j] \in Clients
    BY DfsAssumption
  <1>4. ASSUME NEW j \in Calls
        PROVE  /\ c'[j].st # "idle" /\ c'[j].op # "list" => c'[j].name \in Names
               /\ c'[j].st = "recv" /\ c'[j].opened => Mine(j)' # NoFile
               /\ c'[j].st = "send" => Mine(j)' # NoFile
    <2>1. CASE j = k
      BY <1>2, <2>1 DEF Mine
    <2>2. CASE j # k
      <3>1. c'[j] = c[j] /\ Owner[j] \in Clients
        BY <1>2, <1>3, <2>2
      <3>2. CASE c[j].st = "recv" \/ c[j].st = "send"
        <4>1. c[j].name \in Names
          BY <3>2 DEF TypeOK, Roles, Role
        <4>2. QED
          BY <3>1, <3>2, <4>1 DEF TypeOK, Roles, Role, Mine
      <3>3. CASE ~(c[j].st = "recv" \/ c[j].st = "send")
        BY <3>1, <3>3 DEF TypeOK
      <3>4. QED
        BY <3>2, <3>3
    <2>3. QED
      BY <2>1, <2>2
  <1>5. TypeOK'
    BY <1>1, <1>4 DEF TypeOK, disk, Streams, InWindow
  <1>6. ASSUME NEW j \in Calls PROVE Role(j)'
    <2>1. CASE j = k
      BY <1>2, <1>4, <2>1 DEF Roles, Role
    <2>2. CASE j # k
      BY <1>2, <1>4, <2>2 DEF Roles, Role
    <2>3. QED
      BY <2>1, <2>2
  <1>7. QED
    BY <1>5, <1>6 DEF Roles

\* The handler of k is at a point that suits its call.
LEMMA HandlerFrame ==
  ASSUME TInv, NEW k \in Calls, NEW r \in HandlerSide, h' = [h EXCEPT ![k] = r],
         UNCHANGED <<local, c, expired, cancelled>>,
         dir' \in [Names -> Files \cup {NoFile}], data' \in [Files -> Seq(Byte)],
         up' \in Streams, down' \in Streams, InWindow(up'), InWindow(down'),
         touched' \subseteq Calls,
         c[k].st # "idle", r.st # "wait",
         r.st = "store" => c[k].op = "store",
         r.st \in {"open", "fetch"} => c[k].op = "fetch",
         r.st = "remove" => c[k].op = "delete",
         r.st = "list" => c[k].op = "list",
         r.st = "fetch" /\ ~r.eof => r.ino # NoFile,
         r.st = "remove" => r.ino # NoFile
  PROVE  TInv'
  <1> USE DEF TInv
  <1>1. h' \in [Calls -> HandlerSide]
    BY DEF TypeOK
  <1>2. h'[k] = r /\ \A j \in Calls \ {k} : h'[j] = h[j]
    BY DEF TypeOK
  <1>3. \A j \in Calls : Mine(j)' = Mine(j)
    BY DEF Mine
  <1>4. TypeOK'
    <2>1. \A j \in Calls : /\ h'[j].st = "fetch" /\ ~h'[j].eof => h'[j].ino # NoFile
                          /\ h'[j].st = "remove" => h'[j].ino # NoFile
      BY <1>2 DEF TypeOK
    <2>2. \A j \in Calls : c'[j].st = "recv" /\ c'[j].opened => Mine(j)' # NoFile
      BY <1>3 DEF TypeOK
    <2>3. QED
      BY <1>1, <2>1, <2>2 DEF TypeOK, Streams, InWindow
  <1>5. ASSUME NEW j \in Calls PROVE Role(j)'
    <2>1. CASE j = k
      BY <1>2, <1>3, <2>1 DEF Roles, Role
    <2>2. CASE j # k
      BY <1>2, <1>3, <2>2 DEF Roles, Role
    <2>3. QED
      BY <2>1, <2>2
  <1>6. QED
    BY <1>4, <1>5 DEF Roles

-----------------------------------------------------------------------------
(* The client's side                                                       *)

LEMMA StartTypes ==
  ASSUME TInv, NEW k \in Calls, NEW n,
         \/ StartList(k)
         \/ /\ n \in Names
            /\ StartStore(k, n) \/ StartFetch(k, n) \/ StartDelete(k, n) \/ StartStat(k, n)
  PROVE  TInv'
  <1> USE DEF TInv
  <1>1. /\ c[k] \in ClientSide /\ c[k].st = "idle" /\ ~c[k].opened
        /\ up \in Streams /\ down \in Streams /\ InWindow(up) /\ InWindow(down)
        /\ UNCHANGED <<disk, local, h, up, down, expired, cancelled, touched>>
    BY DEF TypeOK, Streams, InWindow, Roles, Role, CanStart, StartStore, StartFetch, StartDelete,
           StartStat, StartList, StartUnary
  <1>2. local \in [Clients -> [Names -> Content]]
    BY DEF TypeOK
  <1>3. CASE n \in Names /\ StartStore(k, n) /\ local[Owner[k]][n] = NoFile
    <2> DEFINE r == [Started(k, "over", "store", n) EXCEPT !.status = "NOT_FOUND"]
    <2>1. r \in ClientSide /\ r.st = "over" /\ r.op = "store" /\ r.name = n
      BY <1>1, <1>3 DEF Started, ClientSide, Statuses
    <2>2. c' = [c EXCEPT ![k] = r]
      BY <1>3 DEF StartStore
    <2> HIDE DEF r
    <2>3. QED
      BY <1>1, <1>2, <1>3, <2>1, <2>2, ClientFrame
  <1>4. CASE n \in Names /\ StartStore(k, n) /\ local[Owner[k]][n] # NoFile
    <2> DEFINE l == Len(local[Owner[k]][n])
               r == [Started(k, "send", "store", n) EXCEPT !.size = l]
    <2>1. local[Owner[k]][n] \in Seq(Byte) /\ l \in Nat
      <3>1. Owner[k] \in Clients
        BY DfsAssumption
      <3>2. QED
        BY <1>2, <1>4, <3>1 DEF Content
    <2> HIDE DEF l
    <2>2. r \in ClientSide /\ r.st = "send" /\ r.op = "store" /\ r.name = n
      BY <1>1, <1>4, <2>1 DEF Started, ClientSide, Statuses
    <2>3. c' = [c EXCEPT ![k] = r]
      BY <1>4 DEF StartStore, l
    <2> HIDE DEF r
    <2>4. QED
      BY <1>1, <1>2, <1>4, <2>2, <2>3, ClientFrame
  <1>5. CASE \/ StartList(k)
             \/ /\ n \in Names
                /\ StartFetch(k, n) \/ StartDelete(k, n) \/ StartStat(k, n)
    <2>1. PICK st \in {"recv", "await"}, op \in {"fetch", "delete", "stat", "list"}, m \in Names \cup {NoFile} :
            /\ c' = [c EXCEPT ![k] = Started(k, st, op, m)]
            /\ op # "list" => m \in Names
            /\ st = "recv" => op = "fetch"
      BY <1>5 DEF StartFetch, StartDelete, StartStat, StartList, StartUnary
    <2> DEFINE r == Started(k, st, op, m)
    <2>2. r \in ClientSide /\ r.st = st /\ r.op = op /\ r.name = m /\ ~r.opened
      BY <1>1 DEF Started, ClientSide
    <2>3. c' = [c EXCEPT ![k] = r]
      BY <2>1
    <2> HIDE DEF r
    <2>4. QED
      BY <1>1, <1>2, <2>1, <2>2, <2>3, ClientFrame
  <1>6. QED
    BY <1>3, <1>4, <1>5

LEMMA OverTypes ==
  ASSUME TInv, NEW k \in Calls, NEW m \in SUBSET (Names \cup {Dot}), Over(k, m), c[k].st # "idle"
  PROVE  TInv'
  <1> USE DEF TInv
  <1> DEFINE r == [c[k] EXCEPT !.st = "over", !.status = Outcome(k), !.map = m]
  <1>1. c[k] \in ClientSide /\ h[k] \in HandlerSide
    BY DEF TypeOK
  <1>2. Outcome(k) \in Statuses
    BY <1>1 DEF Outcome, HandlerSide, Statuses
  <1>3. r \in ClientSide /\ r.st = "over" /\ r.op = c[k].op /\ r.name = c[k].name
    BY <1>1, <1>2 DEF ClientSide
  <1>4. c' = [c EXCEPT ![k] = r]
    BY DEF Over, TypeOK, ClientSide
  <1>5. /\ up \in Streams /\ down \in Streams /\ InWindow(up) /\ InWindow(down)
        /\ UNCHANGED <<disk, local, h, up, down, expired, cancelled, touched>>
        /\ local \in [Clients -> [Names -> Content]]
        /\ r.op # "list" => r.name \in Names
    BY <1>3 DEF TypeOK, Streams, InWindow, Over
  <1> HIDE DEF r
  <1>6. QED
    BY <1>3, <1>4, <1>5, ClientFrame
LEMMA ClientTypes ==
  ASSUME TInv, NEW k \in Calls, ClientStep(k)
  PROVE  TInv'
  <1> USE DEF TInv
  <1>1. c[k] \in ClientSide
    BY DEF TypeOK
  <1>2. /\ up \in Streams /\ down \in Streams /\ InWindow(up) /\ InWindow(down)
        /\ local \in [Clients -> [Names -> Content]] /\ Owner[k] \in Clients
    BY DfsAssumption DEF TypeOK, Streams, InWindow
  <1>3. CASE SendChunk(k)
    <2> DEFINE m == IF c[k].eof THEN <<>> ELSE ReadAt(Mine(k), c[k].off)
               e == c[k].eof \/ Len(m) < Chunk
               o == c[k].off + Len(m)
               r == [c[k] EXCEPT !.off = o, !.eof = e]
    <2>1. c[k].name \in Names /\ Mine(k) # NoFile /\ c[k].op = "store" /\ c[k].st = "send"
      BY <1>3 DEF SendChunk, TypeOK, Roles, Role
    <2>2. Mine(k) \in Seq(Byte)
      BY <1>2, <2>1 DEF Mine, Content
    <2>3. m \in Seq(Byte) /\ Len(m) \in Nat
      <3>1. ReadAt(Mine(k), c[k].off) \in Seq(Byte)
        BY <1>1, <2>2, ReadType DEF ClientSide
      <3>2. QED
        BY <3>1
    <2>4. /\ up' = Written(up, k, m) /\ c' = [c EXCEPT ![k] = r] /\ Room(up, k)
          /\ UNCHANGED <<disk, local, h, down, expired, cancelled, touched>>
      BY <1>3 DEF SendChunk, TypeOK, ClientSide
    <2> HIDE DEF m
    <2>5. e \in BOOLEAN /\ o \in Nat
      BY <1>1, <2>3 DEF ClientSide
    <2> HIDE DEF e, o
    <2>6. r \in ClientSide /\ r.st = "send" /\ r.op = "store" /\ r.name = c[k].name
      BY <1>1, <2>1, <2>3, <2>5 DEF ClientSide
    <2> HIDE DEF r
    <2>7. up' \in Streams /\ InWindow(up')
      BY <1>2, <2>3, <2>4, WrittenType
    <2>8. local'[Owner[k]][r.name] # NoFile
      BY <2>1, <2>4, <2>6 DEF Mine
    <2>9. QED
      BY <1>2, <2>1, <2>4, <2>6, <2>7, <2>8, ClientFrame
  <1>4. CASE WritesDone(k)
    <2> DEFINE r == [c[k] EXCEPT !.st = "finish"]
    <2>1. /\ c' = [c EXCEPT ![k] = r] /\ c[k].op = "store" /\ c[k].name \in Names
          /\ UNCHANGED <<disk, local, h, up, down, expired, cancelled, touched>>
      BY <1>4 DEF WritesDone, TypeOK, ClientSide, Roles, Role
    <2>2. r \in ClientSide /\ r.st = "finish" /\ r.op = c[k].op /\ r.name = c[k].name
      BY <1>1 DEF ClientSide
    <2> HIDE DEF r
    <2>3. QED
      BY <1>2, <2>1, <2>2, ClientFrame
  <1>5. CASE ReceiveChunk(k)
    <2> DEFINE m == Head(down[k])
               file == IF c[k].opened THEN Mine(k) ELSE <<>>
               o == c[k].off + Len(m)
               r == [c[k] EXCEPT !.opened = TRUE, !.off = o]
               n == c[k].name
               w == WriteAt(file, c[k].off, m)
    <2>1. n \in Names /\ c[k].op = "fetch" /\ c[k].st = "recv"
      BY <1>5 DEF ReceiveChunk, TypeOK, Roles, Role
    <2>2. file \in Seq(Byte)
      <3>1. CASE c[k].opened
        BY <1>2, <2>1, <3>1 DEF TypeOK, Mine, Content
      <3>2. CASE ~c[k].opened
        BY <3>2
      <3>3. QED
        BY <3>1, <3>2
    <2>3. /\ down[k] # <<>> /\ down' = [down EXCEPT ![k] = Tail(@)]
          /\ local' = [local EXCEPT ![Owner[k]][n] = w]
          /\ UNCHANGED <<disk, h, up, expired, cancelled, touched>>
      BY <1>5 DEF ReceiveChunk
    <2>4. c' = [c EXCEPT ![k] = r]
      BY <1>5 DEF ReceiveChunk, TypeOK, ClientSide
    <2>5. m \in Seq(Byte) /\ down' \in Streams /\ InWindow(down')
      BY <1>2, <2>3, TailType
    <2> HIDE DEF m, file
    <2>6. o \in Nat
      BY <1>1, <2>5 DEF ClientSide
    <2> HIDE DEF o
    <2>7. r \in ClientSide /\ r.st = "recv" /\ r.op = "fetch" /\ r.name = n
      BY <1>1, <2>1, <2>6 DEF ClientSide
    <2>8. w \in Seq(Byte)
      BY <1>1, <2>2, <2>5, WriteType DEF ClientSide
    <2> HIDE DEF r, n, w
    <2>9. /\ local' \in [Clients -> [Names -> Content]]
          /\ \A cl \in Clients, x \in Names : local[cl][x] # NoFile => local'[cl][x] # NoFile
          /\ local'[Owner[k]][n] # NoFile
      <3>1. w \in Content /\ w # NoFile
        BY <2>8, DfsAssumption DEF Content
      <3>2. QED
        BY <1>2, <2>1, <2>3, <3>1
    <2>10. QED
      BY <1>2, <2>1, <2>3, <2>4, <2>5, <2>7, <2>9, ClientFrame DEF n
  <1>6. CASE FinishStore(k) \/ FinishFetch(k) \/ FinishDelete(k) \/ FinishStat(k) \/ FinishList(k)
    <2>1. PICK m \in SUBSET (Names \cup {Dot}) : Over(k, m) /\ c[k].st # "idle"
      <3>1. h[k].items \in SUBSET (Names \cup {Dot})
        BY DEF TypeOK, HandlerSide
      <3>2. QED
        BY <1>6, <3>1 DEF FinishStore, FinishFetch, FinishDelete, FinishStat, FinishList
    <2>2. QED
      BY <2>1, OverTypes
  <1>7. CASE DropChunk(k)
    <2> DEFINE m == Head(down[k])
               o == c[k].off + Len(m)
               r == [c[k] EXCEPT !.off = o]
    <2>1. /\ down[k] # <<>> /\ down' = [down EXCEPT ![k] = Tail(@)]
          /\ c[k].st = "recv" /\ c[k].op = "fetch" /\ c[k].name \in Names
          /\ c[k].opened => Mine(k) # NoFile
          /\ UNCHANGED <<disk, local, h, up, expired, cancelled, touched>>
      BY <1>7 DEF DropChunk, TypeOK, Roles, Role
    <2>2. c' = [c EXCEPT ![k] = r]
      BY <1>7 DEF DropChunk, TypeOK, ClientSide
    <2>3. m \in Seq(Byte) /\ down' \in Streams /\ InWindow(down')
      BY <1>2, <2>1, TailType
    <2> HIDE DEF m
    <2>4. o \in Nat
      BY <1>1, <2>3 DEF ClientSide
    <2> HIDE DEF o
    <2>5. r \in ClientSide /\ r.st = "recv" /\ r.op = "fetch" /\ r.name = c[k].name /\ r.opened = c[k].opened
      BY <1>1, <2>1, <2>4 DEF ClientSide
    <2> HIDE DEF r
    <2>6. r.opened => local'[Owner[k]][r.name] # NoFile
      BY <2>1, <2>5 DEF Mine
    <2>7. QED
      BY <1>2, <2>1, <2>2, <2>3, <2>5, <2>6, ClientFrame
  <1>8. QED
    BY <1>3, <1>4, <1>5, <1>6, <1>7 DEF ClientStep

-----------------------------------------------------------------------------
(* The handlers                                                            *)

LEMMA ReturnTypes ==
  ASSUME TInv, NEW k \in Calls, NEW s \in Statuses, c[k].st # "idle", Return(k, s),
         UNCHANGED <<disk, down, touched>>
  PROVE  TInv'
  <1> USE DEF TInv
  <1> DEFINE r == [h[k] EXCEPT !.st = "over", !.status = s]
  <1>1. h' = [h EXCEPT ![k] = r] /\ UNCHANGED <<disk, local, c, up, down, expired, cancelled, touched>>
    BY DEF Return, TypeOK, HandlerSide
  <1>2. r \in HandlerSide /\ r.st = "over"
    BY DEF TypeOK, HandlerSide
  <1> HIDE DEF r
  <1>3. QED
    BY <1>1, <1>2, HandlerFrame DEF TypeOK, Streams, InWindow, disk

\* The handler goes on, or ends, and changes nothing but itself.
LEMMA LookTypes ==
  ASSUME TInv, NEW k \in Calls,
         \/ Lost(k) \/ StatFetch(k) \/ OpenFetch(k) \/ Attrs(k) \/ StatDelete(k)
         \/ OpenList(k) \/ ListEntry(k)
  PROVE  TInv'
  <1> USE DEF TInv
  <1> DEFINE f == dir[c[k].name]
             l == Len(data[f])
             Suits(r) == /\ h' = [h EXCEPT ![k] = r] /\ r.st \notin {"wait", "store"}
                         /\ r.st \in {"open", "fetch"} => c[k].op = "fetch"
                         /\ r.st = "remove" => c[k].op = "delete"
                         /\ r.st = "list" => c[k].op = "list"
                         /\ r.st = "fetch" /\ ~r.eof => r.ino # NoFile
                         /\ r.st = "remove" => r.ino # NoFile
  <1>1. UNCHANGED <<disk, local, c, up, down, expired, cancelled, touched>>
    BY DEF Lost, StatFetch, OpenFetch, Attrs, StatDelete, OpenList, ListEntry
  <1>2. /\ c[k].st # "idle" /\ c[k] \in ClientSide /\ h[k] \in HandlerSide
        /\ c[k].op # "list" => f \in Files \cup {NoFile}
    BY DEF TypeOK, Roles, Role, Arrives, Busy, Lost, StatFetch, OpenFetch, Attrs, StatDelete,
           OpenList, ListEntry
  <1>3. SUFFICES \E r \in HandlerSide : Suits(r)
    BY <1>1, <1>2, HandlerFrame DEF TypeOK, Streams, InWindow, disk
  <1>4. CASE Lost(k)
    <2> DEFINE r == [h[k] EXCEPT !.st = "over"]
    <2>1. r \in HandlerSide /\ Suits(r)
      BY <1>2, <1>4 DEF Lost, HandlerSide
    <2> HIDE DEF r, Suits
    <2>2. QED
      BY <2>1
  <1>5. CASE StatFetch(k) \/ Attrs(k) \/ StatDelete(k)
    <2>1. f \in Files \cup {NoFile}
      BY <1>2, <1>5 DEF StatFetch, Attrs, StatDelete, Arrives
    <2>2. f # NoFile => l \in Nat
      BY <2>1 DEF TypeOK
    <2>3. CASE f = NoFile
      <3> DEFINE r == [h[k] EXCEPT !.st = "over", !.status = "NOT_FOUND"]
      <3>1. r \in HandlerSide /\ Suits(r)
        BY <1>2, <1>5, <2>3 DEF StatFetch, Attrs, StatDelete, HandlerSide, Statuses, Name
      <3> HIDE DEF r, Suits
      <3>2. QED
        BY <3>1
    <2>4. CASE f # NoFile /\ StatFetch(k)
      <3> DEFINE r == [h[k] EXCEPT !.st = "open", !.size = l]
      <3>1. h' = [h EXCEPT ![k] = r] /\ c[k].op = "fetch"
        BY <2>4 DEF StatFetch, Name, Arrives
      <3> HIDE DEF l
      <3>2. r \in HandlerSide /\ Suits(r)
        BY <1>2, <2>2, <2>4, <3>1 DEF HandlerSide
      <3> HIDE DEF r, Suits
      <3>3. QED
        BY <3>2
    <2>5. CASE f # NoFile /\ Attrs(k)
      <3> DEFINE r == [h[k] EXCEPT !.st = "over", !.status = "OK", !.size = l]
      <3>1. h' = [h EXCEPT ![k] = r]
        BY <2>5 DEF Attrs, Name, Arrives
      <3> HIDE DEF l
      <3>2. r \in HandlerSide /\ Suits(r)
        BY <1>2, <2>2, <2>5, <3>1 DEF HandlerSide, Statuses
      <3> HIDE DEF r, Suits
      <3>3. QED
        BY <3>2
    <2>6. CASE f # NoFile /\ StatDelete(k)
      <3> DEFINE r == [h[k] EXCEPT !.st = "remove", !.ino = f]
      <3>1. h' = [h EXCEPT ![k] = r] /\ c[k].op = "delete"
        BY <2>6 DEF StatDelete, Name, Arrives
      <3> HIDE DEF f
      <3>2. r \in HandlerSide /\ Suits(r)
        BY <1>2, <2>1, <2>6, <3>1 DEF HandlerSide
      <3> HIDE DEF r, Suits
      <3>3. QED
        BY <3>2
    <2>7. QED
      BY <1>5, <2>3, <2>4, <2>5, <2>6
  <1>6. CASE OpenFetch(k)
    <2> DEFINE e == f = NoFile
               r == [h[k] EXCEPT !.st = "fetch", !.ino = f, !.eof = e]
    <2>1. c[k].op = "fetch" /\ f \in Files \cup {NoFile}
      BY <1>2, <1>6 DEF OpenFetch, Roles, Role
    <2>2. h' = [h EXCEPT ![k] = r]
      BY <1>2, <1>6 DEF OpenFetch, Name, TypeOK, HandlerSide
    <2>3. e \in BOOLEAN /\ (~e => f # NoFile)
      OBVIOUS
    <2> HIDE DEF e, f
    <2>4. r \in HandlerSide /\ Suits(r)
      BY <1>2, <2>1, <2>2, <2>3 DEF HandlerSide
    <2> HIDE DEF r, Suits
    <2>5. QED
      BY <2>4
  <1>7. CASE OpenList(k)
    <2> DEFINE t == {n \in Names \cup {Dot} : There(n)}
               r == [h[k] EXCEPT !.st = "list", !.todo = t]
    <2>1. h' = [h EXCEPT ![k] = r] /\ c[k].op = "list"
      BY <1>2, <1>7 DEF OpenList, TypeOK, HandlerSide, Arrives
    <2>2. t \in SUBSET (Names \cup {Dot})
      OBVIOUS
    <2> HIDE DEF t
    <2>3. r \in HandlerSide /\ Suits(r)
      BY <1>2, <2>1, <2>2 DEF HandlerSide
    <2> HIDE DEF r, Suits
    <2>4. QED
      BY <2>3
  <1>8. CASE ListEntry(k)
    <2>1. PICK n \in Names \cup {Dot} :
            h' = [h EXCEPT ![k].todo = @ \ {n}, ![k].items = IF There(n) THEN @ \cup {n} ELSE @]
      BY <1>2, <1>8 DEF ListEntry, HandlerSide
    <2> DEFINE t == h[k].todo \ {n}
               i == IF There(n) THEN h[k].items \cup {n} ELSE h[k].items
               r == [h[k] EXCEPT !.todo = t, !.items = i]
    <2>2. h' = [h EXCEPT ![k] = r]
      BY <1>2, <2>1 DEF TypeOK, HandlerSide
    <2>3. t \in SUBSET (Names \cup {Dot}) /\ i \in SUBSET (Names \cup {Dot})
      BY <1>2 DEF HandlerSide
    <2>4. h[k].st = "list" /\ c[k].op = "list"
      BY <1>8 DEF ListEntry, Roles, Role
    <2> HIDE DEF t, i
    <2>5. r \in HandlerSide /\ Suits(r)
      BY <1>2, <2>2, <2>3, <2>4 DEF HandlerSide
    <2> HIDE DEF r, Suits
    <2>6. QED
      BY <2>5
  <1>9. QED
    BY <1>4, <1>5, <1>6, <1>7, <1>8
LEMMA TouchType ==
  ASSUME TInv, NEW k, NEW n, Touch(k, n)
  PROVE  touched' \subseteq Calls
  BY DEF TInv, TypeOK, Touch

\* The handler opens, reads, writes or removes its file.
LEMMA FileTypes ==
  ASSUME TInv, NEW k \in Calls,
         OpenStore(k) \/ StoreChunk(k) \/ FetchChunk(k) \/ Remove(k)
  PROVE  TInv'
  <1> USE DEF TInv
  <1> DEFINE n == c[k].name
  <1>1. /\ n \in Names /\ c[k].st # "idle" /\ h[k] \in HandlerSide /\ dir[n] \in Files \cup {NoFile}
        /\ UNCHANGED <<local, c, expired, cancelled>>
    BY DEF TypeOK, Roles, Role, Arrives, Busy, OpenStore, StoreChunk, FetchChunk, Remove
  <1>2. /\ up \in Streams /\ down \in Streams /\ InWindow(up) /\ InWindow(down) /\ touched \subseteq Calls
        /\ dir \in [Names -> Files \cup {NoFile}] /\ data \in [Files -> Seq(Byte)]
    BY DEF TypeOK, Streams, InWindow
  <1>3. CASE OpenStore(k)
    <2> DEFINE f == IF n \in Unwritable THEN NoFile ELSE IF dir[n] = NoFile THEN k ELSE dir[n]
               r == [h[k] EXCEPT !.st = "store", !.ino = f]
    <2>1. f \in Files \cup {NoFile}
      BY <1>1 DEF Files
    <2>2. h' = [h EXCEPT ![k] = r] /\ c[k].op = "store" /\ UNCHANGED <<up, down>>
      BY <1>1, <1>3 DEF OpenStore, Arrives, Name, TypeOK, HandlerSide
    <2>3. IF f = NoFile THEN UNCHANGED <<disk, touched>>
          ELSE /\ dir' = [dir EXCEPT ![n] = f]
               /\ data' = [data EXCEPT ![f] = <<>>]
               /\ Touch(k, n)
      BY <1>3 DEF OpenStore, Name
    <2> HIDE DEF f
    <2>4. r \in HandlerSide /\ r.st = "store"
      BY <1>1, <2>1 DEF HandlerSide
    <2> HIDE DEF n, r
    <2>5. /\ dir' \in [Names -> Files \cup {NoFile}] /\ data' \in [Files -> Seq(Byte)]
          /\ touched' \subseteq Calls
      <3>1. CASE f = NoFile
        BY <1>2, <2>3, <3>1 DEF disk
      <3>2. CASE f # NoFile
        <4>1. dir' = [dir EXCEPT ![n] = f] /\ data' = [data EXCEPT ![f] = <<>>] /\ f \in Files
          BY <2>1, <2>3, <3>2
        <4>2. dir' \in [Names -> Files \cup {NoFile}]
          BY <1>2, <4>1
        <4>3. data' \in [Files -> Seq(Byte)]
          BY <1>2, <4>1
        <4>4. touched' \subseteq Calls
          BY <2>3, <3>2, TouchType
        <4>5. QED
          BY <4>2, <4>3, <4>4
      <3>3. QED
        BY <3>1, <3>2
    <2>6. QED
      BY <1>1, <1>2, <2>2, <2>4, <2>5, HandlerFrame
  <1>4. CASE StoreChunk(k)
    <2> DEFINE m == Head(up[k])
               o == h[k].off + Len(m)
               r == [h[k] EXCEPT !.off = o]
               f == h[k].ino
               w == WriteAt(data[f], h[k].off, m)
    <2>1. /\ h[k].st = "store" /\ c[k].op = "store" /\ up[k] # <<>> /\ up' = [up EXCEPT ![k] = Tail(@)]
          /\ UNCHANGED <<dir, down>> /\ h' = [h EXCEPT ![k] = r]
      BY <1>1, <1>4 DEF StoreChunk, Roles, Role, TypeOK, HandlerSide
    <2>2. IF f = NoFile THEN UNCHANGED <<data, touched>>
          ELSE data' = [data EXCEPT ![f] = w] /\ Touch(k, n)
      BY <1>4 DEF StoreChunk, Name
    <2>3. m \in Seq(Byte) /\ up' \in Streams /\ InWindow(up')
      BY <1>2, <2>1, TailType
    <2> HIDE DEF m
    <2>4. o \in Nat
      BY <1>1, <2>3 DEF HandlerSide
    <2> HIDE DEF o
    <2>5. r \in HandlerSide /\ r.st = "store"
      BY <1>1, <2>1, <2>4 DEF HandlerSide
    <2> HIDE DEF r
    <2>6. data' \in [Files -> Seq(Byte)] /\ touched' \subseteq Calls
      <3>1. CASE f = NoFile
        BY <1>2, <2>2, <3>1
      <3>2. CASE f # NoFile
        <4>1. f \in Files /\ h[k].off \in Nat
          BY <1>1, <3>2 DEF HandlerSide
        <4>2. w \in Seq(Byte)
          BY <1>2, <2>3, <4>1, WriteType
        <4> HIDE DEF w
        <4>3. QED
          BY <1>2, <2>2, <3>2, <4>1, <4>2, TouchType
      <3>3. QED
        BY <3>1, <3>2
    <2>7. QED
      BY <1>1, <1>2, <2>1, <2>3, <2>5, <2>6, HandlerFrame
  <1>5. CASE FetchChunk(k)
    <2> DEFINE m == IF h[k].eof THEN <<>> ELSE ReadAt(data[h[k].ino], h[k].off)
               o == h[k].off + Len(m)
               e == h[k].eof \/ Len(m) < Chunk
               r == [h[k] EXCEPT !.off = o, !.eof = e]
    <2>1. /\ h[k].st = "fetch" /\ c[k].op = "fetch" /\ Room(down, k) /\ down' = Written(down, k, m)
          /\ UNCHANGED <<disk, up, touched>> /\ h' = [h EXCEPT ![k] = r]
      BY <1>1, <1>5 DEF FetchChunk, Roles, Role, TypeOK, HandlerSide
    <2>2. m \in Seq(Byte)
      <3>1. CASE ~h[k].eof
        <4>1. h[k].ino \in Files /\ h[k].off \in Nat
          BY <1>1, <2>1, <3>1 DEF TypeOK, HandlerSide
        <4>2. QED
          BY <1>2, <3>1, <4>1, ReadType
      <3>2. CASE h[k].eof
        BY <3>2
      <3>3. QED
        BY <3>1, <3>2
    <2> HIDE DEF m
    <2>3. o \in Nat /\ e \in BOOLEAN
      BY <1>1, <2>2 DEF HandlerSide
    <2>4. e = FALSE => h[k].eof = FALSE
      BY <1>1 DEF HandlerSide
    <2> HIDE DEF o, e
    <2>5. r \in HandlerSide /\ r.st = "fetch" /\ r.ino = h[k].ino /\ r.eof = e
      BY <1>1, <2>1, <2>3 DEF HandlerSide
    <2> HIDE DEF r
    <2>6. ~r.eof => r.ino # NoFile
      BY <2>1, <2>3, <2>4, <2>5 DEF TypeOK
    <2>7. down' \in Streams /\ InWindow(down')
      BY <1>2, <2>1, <2>2, WrittenType
    <2>8. QED
      BY <1>1, <1>2, <2>1, <2>5, <2>6, <2>7, HandlerFrame DEF disk
  <1>6. CASE Remove(k)
    <2> DEFINE f == dir[n]
               s == IF f = NoFile THEN "CANCELLED" ELSE "OK"
               i == IF f = NoFile THEN h[k].ino ELSE f
               r == [h[k] EXCEPT !.st = "over", !.status = s, !.ino = i]
    <2>1. h' = [h EXCEPT ![k] = r] /\ UNCHANGED <<data, up, down>>
      <3>1. h \in [Calls -> HandlerSide] /\ h[k] \in HandlerSide /\ n = Name(k)
        BY DEF TypeOK, Name
      <3>2. CASE f = NoFile
        <4>1. h' = [h EXCEPT ![k].st = "over", ![k].status = "CANCELLED"]
          BY <1>6, <3>1, <3>2 DEF Remove
        <4>2. [h[k] EXCEPT !.st = "over", !.status = "CANCELLED"] = r
          BY <3>1, <3>2 DEF HandlerSide
        <4>3. QED
          BY <1>6, <3>1, <4>1, <4>2 DEF Remove
      <3>3. CASE f # NoFile
        BY <1>6, <3>1, <3>3 DEF Remove
      <3>4. QED
        BY <3>2, <3>3
    <2>2. IF f = NoFile THEN UNCHANGED <<dir, touched>>
          ELSE dir' = [dir EXCEPT ![n] = NoFile] /\ Touch(k, n)
      BY <1>6 DEF Remove, Name
    <2>3. i \in Files \cup {NoFile} /\ s \in Statuses
      BY <1>1 DEF HandlerSide, Statuses
    <2> HIDE DEF i, s
    <2>4. r \in HandlerSide /\ r.st = "over"
      BY <1>1, <2>3 DEF HandlerSide
    <2> HIDE DEF r
    <2>5. dir' \in [Names -> Files \cup {NoFile}] /\ touched' \subseteq Calls
      <3>1. CASE f = NoFile
        BY <1>2, <2>2, <3>1
      <3>2. CASE f # NoFile
        BY <1>1, <1>2, <2>2, <3>2, TouchType
      <3>3. QED
        BY <3>1, <3>2
    <2>6. QED
      BY <1>1, <1>2, <2>1, <2>4, <2>5, HandlerFrame
  <1>7. QED
    BY <1>3, <1>4, <1>5, <1>6

LEMMA HandlerTypes ==
  ASSUME TInv, NEW k \in Calls, HandlerStep(k)
  PROVE  TInv'
  <1>1. CASE \/ CancelledAtStart(k) \/ ListCancelled(k) \/ ListDone(k) \/ StoreCancelled(k)
             \/ StoreDone(k) \/ FetchCancelled(k) \/ FetchDone(k)
    <2>1. PICK s \in Statuses : Return(k, s) /\ UNCHANGED <<disk, down, touched>> /\ c[k].st # "idle"
      BY <1>1 DEF CancelledAtStart, ListCancelled, ListDone, StoreCancelled, StoreDone, FetchCancelled,
                  FetchDone, Statuses, TInv, Roles, Role, Arrives, Busy
    <2>2. QED
      BY <2>1, ReturnTypes
  <1>2. CASE ~(\/ CancelledAtStart(k) \/ ListCancelled(k) \/ ListDone(k) \/ StoreCancelled(k)
               \/ StoreDone(k) \/ FetchCancelled(k) \/ FetchDone(k))
    BY <1>2, LookTypes, FileTypes DEF HandlerStep
  <1>3. QED
    BY <1>1, <1>2

-----------------------------------------------------------------------------
(* Time and users, and all together                                        *)

LEMMA TimeTypes ==
  ASSUME TInv, NEW k \in Calls, Expire(k) \/ NoticeCancel(k)
  PROVE  TInv'
  <1> USE DEF TInv
  <1>1. /\ UNCHANGED <<disk, local, c, h, up, down, touched>> /\ c[k].st # "idle"
        /\ expired' \in {expired, expired \cup {k}} /\ cancelled' \subseteq expired'
        /\ expired' \subseteq Calls
    BY DEF Expire, NoticeCancel, HasDeadline, Busy, TypeOK, Roles, Role
  <1>2. \A j \in Calls : Mine(j)' = Mine(j)
    BY <1>1 DEF Mine
  <1>3. TypeOK'
    BY <1>1, <1>2 DEF TypeOK, disk
  <1>4. Roles'
    BY <1>1, <1>2 DEF Roles, Role
  <1>5. QED
    BY <1>3, <1>4

LEMMA ShortenTypes ==
  ASSUME TInv, NEW cl \in Clients, NEW n \in Names, Shorten(cl, n)
  PROVE  TInv'
  <1> USE DEF TInv
  <1>1. /\ UNCHANGED <<disk, c, h, up, down, expired, cancelled, touched>>
        /\ local \in [Clients -> [Names -> Content]] /\ local[cl][n] # NoFile
    BY DEF Shorten, TypeOK
  <1>2. PICK s \in Seq(Byte) : local' = [local EXCEPT ![cl][n] = s]
    <2>1. PICK l \in 0..(Len(local[cl][n]) - 1) : local' = [local EXCEPT ![cl][n] = SubSeq(@, 1, l)]
      BY DEF Shorten
    <2>2. local[cl][n] \in Seq(Byte)
      BY <1>1 DEF Content
    <2>3. SubSeq(local[cl][n], 1, l) \in Seq(Byte)
      BY <2>2
    <2>4. QED
      BY <2>1, <2>3
  <1>3. s \in Content /\ s # NoFile
    BY DfsAssumption DEF Content
  <1>4. /\ local' \in [Clients -> [Names -> Content]]
        /\ \A x \in Clients, y \in Names : local[x][y] # NoFile => local'[x][y] # NoFile
    BY <1>1, <1>2, <1>3
  <1>5. \A j \in Calls : c[j].st \in {"send", "recv"} /\ Mine(j) # NoFile => Mine(j)' # NoFile
    BY <1>1, <1>4, DfsAssumption DEF Mine, TypeOK, Roles, Role
  <1>6. TypeOK'
    BY <1>1, <1>4, <1>5 DEF TypeOK, disk
  <1>7. Roles'
    BY <1>1, <1>5 DEF Roles, Role
  <1>8. QED
    BY <1>6, <1>7

LEMMA TInvInit ==
  ASSUME Init
  PROVE  TInv
  <1>1. dir \in [Names -> Files \cup {NoFile}] /\ data \in [Files -> Seq(Byte)]
    BY DfsAssumption DEF Init, Files, Content
  <1>2. local \in [Clients -> [Names -> Content]]
    BY DfsAssumption DEF Init
  <1>3. c \in [Calls -> ClientSide] /\ h \in [Calls -> HandlerSide]
    BY DEF Init, ClientSide, HandlerSide, Statuses
  <1>4. /\ up \in [Calls -> Seq(Seq(Byte))] /\ down \in [Calls -> Seq(Seq(Byte))]
        /\ \A k \in Calls : Len(up[k]) <= Window /\ Len(down[k]) <= Window
    BY DfsAssumption DEF Init
  <1>5. \A k \in Calls : c[k].st = "idle" /\ h[k].st = "wait" /\ ~c[k].opened
    BY DEF Init
  <1>6. TypeOK
    BY <1>1, <1>2, <1>3, <1>4, <1>5 DEF TypeOK, Init
  <1>7. Roles
    BY <1>5 DEF Roles, Role, Init
  <1>8. QED
    BY <1>6, <1>7 DEF TInv

LEMMA TInvNext ==
  ASSUME TInv, [Next]_vars
  PROVE  TInv'
  <1>1. CASE \E k \in Calls : ClientStep(k) \/ HandlerStep(k) \/ Expire(k) \/ NoticeCancel(k) \/ Lost(k)
    BY <1>1, ClientTypes, HandlerTypes, TimeTypes, LookTypes
  <1>2. CASE \E k \in Calls : StartList(k)
    BY <1>2, StartTypes
  <1>3. CASE \E k \in Calls, n \in Names :
               StartStore(k, n) \/ StartFetch(k, n) \/ StartDelete(k, n) \/ StartStat(k, n)
    BY <1>3, StartTypes
  <1>4. CASE \E cl \in Clients, n \in Names : Shorten(cl, n)
    BY <1>4, ShortenTypes
  <1>5. CASE UNCHANGED vars
    BY <1>5 DEF vars, disk, TInv, TypeOK, Roles, Role, Mine
  <1>6. QED
    BY <1>1, <1>2, <1>3, <1>4, <1>5 DEF Next

LEMMA TInvHolds == Spec => []TInv
  BY TInvInit, TInvNext, PTL DEF Spec

\* Every variable keeps its type; streams keep within their window.
THEOREM TypesHold == Spec => []TypeOK
  <1>1. TInv => TypeOK
    BY DEF TInv
  <1>2. QED
    BY TInvHolds, <1>1, PTL
-----------------------------------------------------------------------------
(* Which file a name stands for                                            *)

\* A name stands for its first file, or for one that a store of it made.
Inodes ==
  \A n \in Names :
    /\ dir[n] \in Names => dir[n] = n
    /\ dir[n] \in Calls =>
         c[dir[n]].op = "store" /\ c[dir[n]].name = n /\ h[dir[n]].st # "wait"

\* A file that a handler has removed stays removed.
Removal(k) ==
  c[k].op = "delete" /\ h[k].status = "OK" =>
    /\ h[k].ino \in Files
    /\ h[k].ino \in Calls => h[h[k].ino].st # "wait"
    /\ \A n \in Names : dir[n] # h[k].ino

\* A listing has, or has still to come to, each file that was never removed.
Listing(k) ==
  \A n \in Names :
    c[k].op = "list" /\ dir[n] = n =>
      /\ h[k].st = "list" => n \in h[k].todo \cup h[k].items
      /\ h[k].st = "over" /\ h[k].status = "OK" => n \in h[k].items

Pending(k) == h[k].st # "over" => h[k].status = "none"

DInv ==
  /\ TInv /\ Inodes /\ DeletedOnce
  /\ \A k \in Calls : Pending(k) /\ Removal(k) /\ Listing(k)

\* Neither the directory nor a handler changes.
LEMMA QuietKeeps ==
  ASSUME DInv, TInv', UNCHANGED <<dir, h>>,
         \A k \in Calls : h[k].st = "wait" \/ (c'[k].op = c[k].op /\ c'[k].name = c[k].name)
  PROVE  DInv'
  <1> USE DEF DInv
  <1>1. \A k \in Calls : h[k].status = "OK" => c'[k].op = c[k].op
    BY DEF Pending
  <1>2. Inodes'
    BY DEF Inodes
  <1>3. DeletedOnce'
    BY <1>1 DEF DeletedOnce
  <1>4. ASSUME NEW k \in Calls PROVE Pending(k)' /\ Removal(k)' /\ Listing(k)'
    <2>1. Pending(k)'
      BY DEF Pending
    <2>2. Removal(k)'
      BY <1>1 DEF Removal
    <2>3. Listing(k)'
      BY DEF Listing, Pending
    <2>4. QED
      BY <2>1, <2>2, <2>3
  <1>5. QED
    BY <1>2, <1>3, <1>4

\* A handler goes on, without a change of the directory.
LEMMA HandlerKeeps ==
  ASSUME DInv, TInv', NEW k \in Calls, UNCHANGED <<dir, c>>,
         \A j \in Calls \ {k} : h'[j] = h[j],
         h'[k].st # "wait",
         h'[k].st # "over" => h'[k].status = "none",
         c[k].op = "delete" => h'[k].status # "OK",
         Listing(k)'
  PROVE  DInv'
  <1> USE DEF DInv
  <1>1. Inodes'
    BY DEF Inodes
  <1>2. DeletedOnce'
    BY DEF DeletedOnce
  <1>3. ASSUME NEW j \in Calls PROVE Pending(j)' /\ Removal(j)' /\ Listing(j)'
    <2>1. CASE j = k
      BY <2>1 DEF Pending, Removal
    <2>2. CASE j # k
      <3>1. Pending(j)'
        BY <2>2 DEF Pending
      <3>2. Removal(j)'
        BY <2>2 DEF Removal
      <3>3. Listing(j)'
        BY <2>2 DEF Listing
      <3>4. QED
        BY <3>1, <3>2, <3>3
    <2>3. QED
      BY <2>1, <2>2
  <1>4. QED
    BY <1>1, <1>2, <1>3

LEMMA StoreKeeps ==
  ASSUME DInv, TInv', NEW k \in Calls, OpenStore(k)
  PROVE  DInv'
  <1> USE DEF DInv
  <1> DEFINE n == c[k].name
             f == IF n \in Unwritable THEN NoFile ELSE IF dir[n] = NoFile THEN k ELSE dir[n]
  <1>1. /\ n \in Names /\ c[k].op = "store" /\ h[k].st = "wait" /\ h[k].status = "none"
        /\ h \in [Calls -> HandlerSide] /\ dir \in [Names -> Files \cup {NoFile}]
    BY DEF OpenStore, Arrives, Busy, TInv, TypeOK, Pending
  <1>2. /\ h'[k].st = "store" /\ h'[k].status = "none" /\ UNCHANGED c
        /\ \A j \in Calls \ {k} : h'[j] = h[j]
    BY <1>1 DEF OpenStore, HandlerSide
  <1>3. CASE f = NoFile \/ f = dir[n]
    <2>1. UNCHANGED dir
      BY <1>1, <1>3 DEF OpenStore, Name, disk
    <2>2. Listing(k)'
      BY <1>1, <1>2 DEF Listing
    <2>3. QED
      BY <1>1, <1>2, <2>1, <2>2, HandlerKeeps
  <1>4. CASE f = k /\ dir[n] = NoFile
    <2>1. k # NoFile /\ k \notin Names /\ NoFile \notin Names /\ NoFile \notin Calls
      BY DfsAssumption DEF Files
    <2>2. dir' = [dir EXCEPT ![n] = k]
      BY <1>1, <1>4, <2>1 DEF OpenStore, Name
    <2>3. dir'[n] = k /\ \A m \in Names \ {n} : dir'[m] = dir[m]
      BY <1>1, <2>2
    <2>4. Inodes'
      <3> SUFFICES ASSUME NEW m \in Names
                   PROVE  /\ dir'[m] \in Names => dir'[m] = m
                          /\ dir'[m] \in Calls =>
                               c'[dir'[m]].op = "store" /\ c'[dir'[m]].name = m /\ h'[dir'[m]].st # "wait"
        BY DEF Inodes
      <3>1. CASE m = n
        BY <1>1, <1>2, <2>1, <2>3, <3>1
      <3>2. CASE m # n
        BY <1>2, <2>3, <3>2 DEF Inodes
      <3>3. QED
        BY <3>1, <3>2
    <2>5. DeletedOnce'
      BY <1>1, <1>2 DEF DeletedOnce
    <2>6. ASSUME NEW j \in Calls PROVE Pending(j)' /\ Removal(j)' /\ Listing(j)'
      <3>1. CASE j = k
        BY <1>1, <1>2, <3>1 DEF Pending, Removal, Listing
      <3>2. CASE j # k
        <4>1. Pending(j)'
          BY <1>2, <3>2 DEF Pending
        <4>2. Removal(j)'
          <5>1. ASSUME c[j].op = "delete", h[j].status = "OK"
                PROVE  /\ h[j].ino \in Files /\ h[j].ino # k
                       /\ h[j].ino \in Calls => h[h[j].ino].st # "wait"
                       /\ \A m \in Names : dir[m] # h[j].ino
            BY <1>1, <5>1 DEF Removal
          <5>2. h'[j] = h[j]
            BY <1>2, <3>2
          <5>3. \A i \in Calls : h[i].st # "wait" => h'[i].st # "wait"
            BY <1>2
          <5>4. ASSUME c[j].op = "delete", h[j].status = "OK", NEW m \in Names
                PROVE  dir'[m] # h[j].ino
            BY <2>3, <5>1, <5>4
          <5>5. QED
            BY <1>2, <5>1, <5>2, <5>3, <5>4 DEF Removal
        <4>3. Listing(j)'
          BY <1>2, <2>1, <2>3, <3>2 DEF Listing
        <4>4. QED
          BY <4>1, <4>2, <4>3
      <3>3. QED
        BY <3>1, <3>2
    <2>7. QED
      BY <2>4, <2>5, <2>6
  <1>5. QED
    BY <1>3, <1>4

LEMMA RemoveKeeps ==
  ASSUME DInv, TInv', NEW k \in Calls, Remove(k)
  PROVE  DInv'
  <1> USE DEF DInv
  <1> DEFINE n == c[k].name
             f == dir[n]
  <1>1. /\ n \in Names /\ c[k].op = "delete" /\ h[k].status = "none"
        /\ h \in [Calls -> HandlerSide] /\ dir \in [Names -> Files \cup {NoFile}]
    BY DEF Remove, TInv, TypeOK, Roles, Role, Pending
  <1>2. /\ h'[k].st = "over" /\ UNCHANGED c
        /\ h'[k].status = IF f = NoFile THEN "CANCELLED" ELSE "OK"
        /\ f # NoFile => h'[k].ino = f
        /\ \A j \in Calls \ {k} : h'[j] = h[j]
    BY <1>1 DEF Remove, Name, HandlerSide
  <1>3. CASE f = NoFile
    <2>1. UNCHANGED dir
      BY <1>1, <1>3 DEF Remove, Name
    <2>2. Listing(k)'
      BY <1>1, <1>2 DEF Listing
    <2>3. QED
      BY <1>1, <1>2, <1>3, <2>1, <2>2, HandlerKeeps
  <1>4. CASE f # NoFile
    <2>1. NoFile \notin Names /\ NoFile \notin Calls /\ f \in Files /\ Names \cap Calls = {}
      BY <1>1, <1>4, DfsAssumption DEF Files
    <2>2. dir' = [dir EXCEPT ![n] = NoFile]
      BY <1>4 DEF Remove, Name
    <2>3. dir'[n] = NoFile /\ \A m \in Names \ {n} : dir'[m] = dir[m]
      BY <1>1, <2>2
    <2>4. \A m \in Names \ {n} : dir[m] # f
      BY <1>1, <2>1 DEF Inodes, Files
    <2>5. Inodes'
      BY <1>1, <1>2, <2>1, <2>3 DEF Inodes
    <2>6. f \in Calls => h'[f].st # "wait"
      BY <1>1, <1>2 DEF Inodes
    <2>7. \A j \in Calls : c[j].op = "delete" /\ h[j].status = "OK" => h[j].ino # f
      BY <1>1 DEF Removal
    <2>8. DeletedOnce'
      BY <1>2, <1>4, <2>7 DEF DeletedOnce
    <2>9. ASSUME NEW j \in Calls PROVE Pending(j)' /\ Removal(j)' /\ Listing(j)'
      <3>1. CASE j = k
        <4>1. Pending(j)' /\ Listing(j)'
          BY <1>1, <1>2, <3>1 DEF Pending, Listing
        <4>2. \A m \in Names : dir'[m] # f
          BY <1>4, <2>3, <2>4
        <4>3. Removal(j)'
          BY <1>2, <1>4, <2>1, <2>6, <3>1, <4>2 DEF Removal
        <4>4. QED
          BY <4>1, <4>3
      <3>2. CASE j # k
        <4>1. Pending(j)'
          BY <1>2, <3>2 DEF Pending
        <4>2. Removal(j)'
          <5>1. ASSUME c[j].op = "delete", h[j].status = "OK"
                PROVE  /\ h[j].ino \in Files
                       /\ h[j].ino \in Calls => h[h[j].ino].st # "wait"
                       /\ \A m \in Names : dir[m] # h[j].ino
            BY <5>1 DEF Removal
          <5>2. h'[j] = h[j] /\ \A i \in Calls : h[i].st # "wait" => h'[i].st # "wait"
            BY <1>2, <3>2
          <5>3. ASSUME c[j].op = "delete", h[j].status = "OK", NEW m \in Names
                PROVE  dir'[m] # h[j].ino
            <6>1. h[j].ino # NoFile
              BY <5>1, <5>3, DfsAssumption
            <6>2. QED
              BY <2>3, <5>1, <5>3, <6>1
          <5>4. QED
            BY <1>2, <5>1, <5>2, <5>3 DEF Removal
        <4>3. Listing(j)'
          BY <1>2, <2>1, <2>3, <3>2 DEF Listing
        <4>4. QED
          BY <4>1, <4>2, <4>3
      <3>3. QED
        BY <3>1, <3>2
    <2>10. QED
      BY <2>5, <2>8, <2>9
  <1>5. QED
    BY <1>3, <1>4

\* The other steps of a handler.
LEMMA LooksKeep ==
  ASSUME DInv, TInv', NEW k \in Calls, HandlerStep(k) \/ Lost(k), ~OpenStore(k), ~Remove(k)
  PROVE  DInv'
  <1> USE DEF DInv
  <1>1. /\ h \in [Calls -> HandlerSide] /\ Role(k) /\ Pending(k) /\ Listing(k)
        /\ \A n \in Names : There(n) <=> n = Dot \/ dir[n] # NoFile
        /\ NoFile \notin Names /\ Dot \notin Names
    BY DfsAssumption DEF TInv, TypeOK, Roles, There, Files
  <1>2. UNCHANGED <<dir, c>>
    BY DEF HandlerStep, Lost, CancelledAtStart, Attrs, OpenList, ListEntry, ListCancelled, ListDone,
           StoreChunk, StoreCancelled, StoreDone, StatFetch, OpenFetch, FetchChunk, FetchCancelled,
           FetchDone, StatDelete, Return, disk
  <1>3. \A j \in Calls \ {k} : h'[j] = h[j]
    BY <1>1 DEF HandlerStep, Lost, CancelledAtStart, Attrs, OpenList, ListEntry, ListCancelled, ListDone,
           StoreChunk, StoreCancelled, StoreDone, StatFetch, OpenFetch, FetchChunk, FetchCancelled,
           FetchDone, StatDelete, Return
  <1>4. CASE \/ CancelledAtStart(k) \/ ListCancelled(k) \/ StoreCancelled(k) \/ FetchCancelled(k)
    <2>1. h'[k].st = "over" /\ h'[k].status = "DEADLINE_EXCEEDED"
      BY <1>1, <1>4 DEF CancelledAtStart, ListCancelled, StoreCancelled, FetchCancelled, Return, HandlerSide
    <2>2. Listing(k)'
      BY <2>1 DEF Listing
    <2>3. QED
      BY <1>2, <1>3, <2>1, <2>2, HandlerKeeps
  <1>5. CASE StoreDone(k) \/ FetchDone(k)
    <2>1. h'[k].st = "over" /\ c[k].op \in {"store", "fetch"}
      BY <1>1, <1>5 DEF StoreDone, FetchDone, Return, HandlerSide, Role
    <2>2. Listing(k)'
      BY <1>2, <2>1 DEF Listing
    <2>3. QED
      BY <1>2, <1>3, <2>1, <2>2, HandlerKeeps
  <1>6. CASE ListDone(k)
    <2>1. /\ h'[k].st = "over" /\ c[k].op = "list" /\ h[k].st = "list"
          /\ h[k].todo = {} /\ h'[k].items = h[k].items
      BY <1>1, <1>6 DEF ListDone, Return, HandlerSide, Role
    <2>2. Listing(k)'
      BY <1>1, <1>2, <2>1 DEF Listing
    <2>3. QED
      BY <1>2, <1>3, <2>1, <2>2, HandlerKeeps
  <1>7. CASE OpenList(k)
    <2>1. /\ h'[k].st = "list" /\ h'[k].status = "none" /\ c[k].op = "list"
          /\ h'[k].todo = {n \in Names \cup {Dot} : There(n)}
      BY <1>1, <1>7 DEF OpenList, HandlerSide, Arrives, Pending
    <2>2. \A n \in Names : dir[n] = n => n \in h'[k].todo
      BY <1>1, <2>1
    <2>3. Listing(k)'
      BY <1>2, <2>1, <2>2 DEF Listing
    <2>4. QED
      BY <1>2, <1>3, <2>1, <2>3, HandlerKeeps
  <1>8. CASE ListEntry(k)
    <2>1. PICK x : h' = [h EXCEPT ![k].todo = @ \ {x}, ![k].items = IF There(x) THEN @ \cup {x} ELSE @]
      BY <1>8 DEF ListEntry
    <2>2. /\ h'[k].st = "list" /\ h'[k].status = "none" /\ c[k].op = "list" /\ h[k].st = "list"
          /\ h'[k].todo = h[k].todo \ {x}
          /\ h'[k].items = IF There(x) THEN h[k].items \cup {x} ELSE h[k].items
      <3>1. h[k].st = "list" /\ h[k].status = "none" /\ c[k].op = "list"
        BY <1>1, <1>8 DEF ListEntry, Pending, Role
      <3>2. h'[k].st = h[k].st /\ h'[k].status = h[k].status
        BY <1>1, <2>1 DEF HandlerSide
      <3>3. h'[k].todo = h[k].todo \ {x}
        BY <1>1, <2>1 DEF HandlerSide
      <3>4. h'[k].items = IF There(x) THEN h[k].items \cup {x} ELSE h[k].items
        BY <1>1, <2>1 DEF HandlerSide
      <3>5. QED
        BY <3>1, <3>2, <3>3, <3>4
    <2>3. \A n \in Names : dir[n] = n => n \in h'[k].todo \cup h'[k].items
      BY <1>1, <2>2 DEF Listing
    <2>4. Listing(k)'
      BY <1>2, <2>2, <2>3 DEF Listing
    <2>5. QED
      BY <1>2, <1>3, <2>2, <2>4, HandlerKeeps
  <1>9. CASE \/ Lost(k) \/ Attrs(k) \/ StoreChunk(k) \/ StatFetch(k) \/ OpenFetch(k) \/ FetchChunk(k)
             \/ StatDelete(k)
    <2>1. /\ h'[k].st \notin {"wait", "list"}
          /\ h'[k].st # "over" => h'[k].status = "none"
          /\ c[k].op \in {"delete", "list"} => h'[k].status # "OK"
      <3>1. CASE Lost(k)
        BY <1>1, <3>1 DEF Lost, HandlerSide, Pending
      <3>2. CASE Attrs(k)
        BY <1>1, <3>2 DEF Attrs, Arrives, HandlerSide, Pending
      <3>3. CASE StoreChunk(k)
        <4>1. h'[k].st = h[k].st /\ h'[k].status = h[k].status
          BY <1>1, <3>3 DEF StoreChunk, HandlerSide
        <4>2. QED
          BY <1>1, <3>3, <4>1 DEF StoreChunk, Pending
      <3>4. CASE StatFetch(k)
        BY <1>1, <3>4 DEF StatFetch, Arrives, HandlerSide, Pending
      <3>5. CASE OpenFetch(k)
        BY <1>1, <3>5 DEF OpenFetch, HandlerSide, Pending
      <3>6. CASE FetchChunk(k)
        <4>1. h'[k].st = h[k].st /\ h'[k].status = h[k].status
          BY <1>1, <3>6 DEF FetchChunk, HandlerSide
        <4>2. QED
          BY <1>1, <3>6, <4>1 DEF FetchChunk, Pending
      <3>7. CASE StatDelete(k)
        BY <1>1, <3>7 DEF StatDelete, Arrives, HandlerSide, Pending
      <3>8. QED
        BY <1>9, <3>1, <3>2, <3>3, <3>4, <3>5, <3>6, <3>7
    <2>2. Listing(k)'
      BY <1>2, <2>1 DEF Listing
    <2>3. QED
      BY <1>2, <1>3, <2>1, <2>2, HandlerKeeps
  <1>10. QED
    BY <1>4, <1>5, <1>6, <1>7, <1>8, <1>9 DEF HandlerStep
\* Clients and time.
LEMMA OthersKeep ==
  ASSUME DInv, TInv', NEW k \in Calls, NEW n,
         \/ ClientStep(k) \/ Expire(k) \/ NoticeCancel(k)
         \/ StartList(k) \/ StartStore(k, n) \/ StartFetch(k, n) \/ StartDelete(k, n) \/ StartStat(k, n)
  PROVE  DInv'
  <1>1. UNCHANGED <<dir, h>>
    BY DEF ClientStep, SendChunk, WritesDone, FinishStore, ReceiveChunk, DropChunk, FinishFetch,
           FinishDelete, FinishStat, FinishList, Over, Expire, NoticeCancel, StartList, StartStore,
           StartFetch, StartDelete, StartStat, StartUnary, disk
  <1>2. c \in [Calls -> ClientSide] /\ \A j \in Calls : c[j].st = "idle" => h[j].st = "wait"
    BY DEF DInv, TInv, TypeOK, Roles, Role
  <1>3. CASE \/ StartList(k) \/ StartStore(k, n) \/ StartFetch(k, n) \/ StartDelete(k, n) \/ StartStat(k, n)
    <2>1. c[k].st = "idle" /\ \A j \in Calls \ {k} : c'[j] = c[j]
      BY <1>2, <1>3 DEF StartList, StartStore, StartFetch, StartDelete, StartStat, StartUnary, CanStart
    <2>2. QED
      BY <1>1, <1>2, <2>1, QuietKeeps
  <1>4. CASE Expire(k) \/ NoticeCancel(k)
    <2>1. UNCHANGED c
      BY <1>4 DEF Expire, NoticeCancel
    <2>2. QED
      BY <1>1, <2>1, QuietKeeps
  <1>5. CASE ClientStep(k)
    <2>1. \A j \in Calls : c'[j].op = c[j].op /\ c'[j].name = c[j].name
      <3>1. CASE SendChunk(k)
        BY <1>2, <3>1 DEF SendChunk, ClientSide
      <3>2. CASE ReceiveChunk(k)
        BY <1>2, <3>2 DEF ReceiveChunk, ClientSide
      <3>5. CASE DropChunk(k)
        BY <1>2, <3>5 DEF DropChunk, ClientSide
      <3>3. CASE WritesDone(k)
        BY <1>2, <3>3 DEF WritesDone, ClientSide
      <3>4. CASE FinishStore(k) \/ FinishFetch(k) \/ FinishDelete(k) \/ FinishStat(k) \/ FinishList(k)
        <4>1. PICK m : Over(k, m)
          BY <3>4 DEF FinishStore, FinishFetch, FinishDelete, FinishStat, FinishList
        <4>2. QED
          BY <1>2, <4>1 DEF Over, ClientSide
      <3>6. QED
        BY <1>5, <3>1, <3>2, <3>3, <3>4, <3>5 DEF ClientStep
    <2>2. QED
      BY <1>1, <2>1, QuietKeeps
  <1>6. QED
    BY <1>3, <1>4, <1>5

LEMMA DInvInit ==
  ASSUME Init
  PROVE  DInv
  <1>1. TInv
    BY TInvInit
  <1>2. \A k \in Calls : h[k].st = "wait" /\ h[k].status = "none"
    BY DEF Init
  <1>3. Inodes
    BY DfsAssumption DEF Init, Inodes, Files
  <1>4. DeletedOnce
    BY <1>2 DEF DeletedOnce
  <1>5. \A k \in Calls : Pending(k) /\ Removal(k) /\ Listing(k)
    BY <1>2 DEF Pending, Removal, Listing
  <1>6. QED
    BY <1>1, <1>3, <1>4, <1>5 DEF DInv

LEMMA DInvNext ==
  ASSUME DInv, [Next]_vars
  PROVE  DInv'
  <1>1. TInv'
    BY TInvNext DEF DInv
  <1>2. CASE \E k \in Calls : ClientStep(k) \/ Expire(k) \/ NoticeCancel(k) \/ StartList(k)
    BY <1>1, <1>2, OthersKeep
  <1>3. CASE \E k \in Calls : HandlerStep(k) \/ Lost(k)
    BY <1>1, <1>3, StoreKeeps, RemoveKeeps, LooksKeep
  <1>4. CASE \E k \in Calls, n \in Names :
               StartStore(k, n) \/ StartFetch(k, n) \/ StartDelete(k, n) \/ StartStat(k, n)
    BY <1>1, <1>4, OthersKeep
  <1>5. CASE \/ \E cl \in Clients, n \in Names : Shorten(cl, n)
             \/ UNCHANGED vars
    <2>1. UNCHANGED <<dir, h, c>>
      BY <1>5 DEF Shorten, vars, disk
    <2>2. QED
      BY <1>1, <2>1, QuietKeeps
  <1>6. QED
    BY <1>2, <1>3, <1>4, <1>5 DEF Next

LEMMA DInvHolds == Spec => []DInv
  BY DInvInit, DInvNext, PTL DEF Spec

(* dfslib-servernode-p1.cpp:233-245.  Two deletions can both find the      *)
(* file, but only one of them returns OK for it.                           *)
THEOREM OneDeletion == Spec => []DeletedOnce
  <1>1. DInv => DeletedOnce
    BY DEF DInv
  <1>2. QED
    BY DInvHolds, <1>1, PTL

\* A handler changes nothing at any client.
LEMMA HandlerLeavesClients ==
  ASSUME NEW k \in Calls, HandlerStep(k)
  PROVE  UNCHANGED c
  <1>1. CancelledAtStart(k) \/ Attrs(k) => UNCHANGED c
    BY DEF CancelledAtStart, Attrs, Return
  <1>2. OpenList(k) => UNCHANGED c
    BY DEF OpenList
  <1>3. ListEntry(k) => UNCHANGED c
    BY DEF ListEntry
  <1>4. ListCancelled(k) \/ ListDone(k) => UNCHANGED c
    BY DEF ListCancelled, ListDone, Return
  <1>5. OpenStore(k) \/ StoreChunk(k) => UNCHANGED c
    BY DEF OpenStore, StoreChunk
  <1>6. StoreCancelled(k) \/ StoreDone(k) => UNCHANGED c
    BY DEF StoreCancelled, StoreDone, Return
  <1>7. StatFetch(k) \/ OpenFetch(k) \/ FetchChunk(k) => UNCHANGED c
    BY DEF StatFetch, OpenFetch, FetchChunk, Return
  <1>8. FetchCancelled(k) \/ FetchDone(k) => UNCHANGED c
    BY DEF FetchCancelled, FetchDone, Return
  <1>9. StatDelete(k) \/ Remove(k) => UNCHANGED c
    BY DEF StatDelete, Remove, Return
  <1>10. QED
    BY <1>1, <1>2, <1>3, <1>4, <1>5, <1>6, <1>7, <1>8, <1>9 DEF HandlerStep

\* A call ends by its own finishing step.
LEMMA CallEnds ==
  ASSUME TInv, [Next]_vars, NEW k \in Calls, Busy(k), c'[k].st = "over"
  PROVE  FinishStore(k) \/ FinishFetch(k) \/ FinishDelete(k) \/ FinishStat(k) \/ FinishList(k)
  <1>1. c \in [Calls -> ClientSide] /\ c[k] \in ClientSide
    BY DEF TInv, TypeOK
  <1>2. PICK j \in Calls : ClientStep(j) /\ ~UNCHANGED c
    <2>1. ASSUME NEW j \in Calls, HandlerStep(j) PROVE UNCHANGED c
      BY <2>1, HandlerLeavesClients
    <2>2. \A j \in Calls : Expire(j) \/ NoticeCancel(j) \/ Lost(j) => UNCHANGED c
      BY DEF Expire, NoticeCancel, Lost
    <2>3. \A cl \in Clients, n \in Names : Shorten(cl, n) => UNCHANGED c
      BY DEF Shorten
    <2>4. ASSUME NEW j \in Calls, NEW n,
                 \/ StartList(j) \/ StartStore(j, n) \/ StartFetch(j, n)
                 \/ StartDelete(j, n) \/ StartStat(j, n)
          PROVE  FALSE
      <3>1. \E r : c' = [c EXCEPT ![j] = r]
        BY <2>4 DEF StartList, StartStore, StartFetch, StartDelete, StartStat, StartUnary
      <3>2. c[j].st = "idle"
        BY <2>4
        DEF StartList, StartStore, StartFetch, StartDelete, StartStat, StartUnary, CanStart
      <3>3. QED
        BY <1>1, <3>1, <3>2 DEF Busy
    <2>5. ~UNCHANGED c
      BY DEF Busy
    <2>6. QED
      BY <2>1, <2>2, <2>3, <2>4, <2>5 DEF Next, vars
  <1>3. j = k
    <2>1. \E r : c' = [c EXCEPT ![j] = r]
      <3>1. SendChunk(j) \/ WritesDone(j) \/ ReceiveChunk(j) \/ DropChunk(j)
              => \E r : c' = [c EXCEPT ![j] = r]
        BY DEF SendChunk, WritesDone, ReceiveChunk, DropChunk
      <3>2. ASSUME NEW m, Over(j, m) PROVE \E r : c' = [c EXCEPT ![j] = r]
        BY <3>2 DEF Over
      <3>3. QED
        BY <1>2, <3>1, <3>2
        DEF ClientStep, FinishStore, FinishFetch, FinishDelete, FinishStat, FinishList
    <2>2. QED
      BY <1>1, <2>1 DEF Busy
  <1>4. ASSUME SendChunk(k) PROVE c'[k].st = "send"
    <2>1. PICK m : /\ c' = [c EXCEPT ![k].off = @ + Len(m), ![k].eof = @ \/ Len(m) < Chunk]
                   /\ c[k].st = "send"
      BY <1>4 DEF SendChunk
    <2>2. QED
      BY <1>1, <2>1 DEF ClientSide
  <1>5. ASSUME ReceiveChunk(k) PROVE c'[k].st = "recv"
    <2>1. PICK m : c' = [c EXCEPT ![k].opened = TRUE, ![k].off = @ + Len(m)] /\ c[k].st = "recv"
      BY <1>5 DEF ReceiveChunk
    <2>2. QED
      BY <1>1, <2>1 DEF ClientSide
  <1>6. WritesDone(k) => c'[k].st = "finish"
    BY <1>1 DEF WritesDone, ClientSide
  <1>7. DropChunk(k) => c'[k].st = "recv"
    BY <1>1 DEF DropChunk, ClientSide
  <1>8. QED
    BY <1>2, <1>3, <1>4, <1>5, <1>6, <1>7 DEF ClientStep

(* dfslib-servernode-p1.cpp:261-278.  However other handlers change the    *)
(* directory while it is listed, a listing that returns OK has every file  *)
(* that was there all the time.                                            *)
THEOREM ListingIsComplete == Spec => ListsWhatStays
  <1> DEFINE Lists == \A k \in Calls :
               c[k].op = "list" /\ c[k].st = "await" /\ c'[k].st = "over" /\ c'[k].status = "OK"
               => {n \in Names : dir[n] = n} \subseteq c'[k].map
  <1>1. ASSUME DInv, [Next]_vars PROVE Lists
    <2> SUFFICES ASSUME NEW k \in Calls, c[k].op = "list", c[k].st = "await",
                        c'[k].st = "over", c'[k].status = "OK"
                 PROVE  {n \in Names : dir[n] = n} \subseteq c'[k].map
      OBVIOUS
    <2>1. c \in [Calls -> ClientSide] /\ Listing(k) /\ Pending(k)
      BY <1>1 DEF DInv, TInv, TypeOK
    <2>2. FinishList(k)
      BY <1>1, CallEnds DEF DInv, Busy, FinishStore, FinishFetch, FinishDelete, FinishStat
    <2>3. /\ c'[k].status = Outcome(k)
          /\ k \in expired \/ h[k].st = "over"
          /\ c'[k].map = IF Outcome(k) = "OK" THEN h[k].items ELSE {}
      BY <2>1, <2>2 DEF FinishList, Over, ClientSide
    <2>4. h[k].st = "over" /\ h[k].status = "OK"
      BY <2>3 DEF Outcome
    <2>5. QED
      BY <2>1, <2>3, <2>4 DEF Listing
  <1>2. QED
    BY DInvHolds, <1>1, PTL DEF Spec, ListsWhatStays

-----------------------------------------------------------------------------
(* Bytes and streams                                                       *)

\* The bytes of m, had they been read after the first o bytes of a file.
Placed(m, o) == \A i \in 1..Len(m) : m[i] = Hole \/ Place[m[i]] = o + i

\* The chunks of q, one after the other, are the bytes after a up to b.
Chain(q, a, b) ==
  \E s \in [1..(Len(q) + 1) -> Nat] :
    /\ s[1] = a /\ s[Len(q) + 1] = b
    /\ \A i \in 1..Len(q) : s[i + 1] = s[i] + Len(q[i]) /\ Placed(q[i], s[i])

LEMMA ReadPlaced ==
  ASSUME NEW s \in Seq(Byte), InPlace(s), NEW off \in Nat
  PROVE  Placed(ReadAt(s, off), off)
  <1> DEFINE l == Lesser(off + Chunk, Len(s))
             m == ReadAt(s, off)
  <1>1. l \in Nat /\ l <= Len(s) /\ m = SubSeq(s, off + 1, l)
    BY DfsAssumption DEF Lesser, ReadAt
  <1> HIDE DEF l, m
  <1>2. ASSUME NEW i \in 1..Len(m) PROVE m[i] = s[off + i] /\ off + i \in 1..Len(s)
    <2>1. Len(s) \in Nat /\ off + 1 <= l
      BY <1>1, <1>2
    <2>2. Len(m) = l - off /\ i \in 1..(l - off)
      BY <1>1, <1>2, <2>1
    <2>3. m[i] = s[off + 1 + i - 1]
      BY <1>1, <2>1, <2>2
    <2>4. QED
      BY <1>1, <2>1, <2>2, <2>3
  <1>3. QED
    BY <1>2 DEF Placed, InPlace, m

LEMMA WritePlaced ==
  ASSUME NEW s \in Seq(Byte), NEW off \in Nat, NEW m \in Seq(Byte), InPlace(s), Placed(m, off)
  PROVE  InPlace(WriteAt(s, off, m))
  <1> DEFINE l == IF m = <<>> THEN Len(s) ELSE Greater(Len(s), off + Len(m))
             w == WriteAt(s, off, m)
  <1>1. l \in Nat
    BY DEF Greater
  <1>2. w = [i \in 1..l |-> IF i \in (off + 1)..(off + Len(m)) THEN m[i - off]
                            ELSE IF i <= Len(s) THEN s[i] ELSE Hole]
    BY DEF WriteAt
  <1> HIDE DEF l, w
  <1>3. Len(w) = l
    BY <1>1, <1>2
  <1>4. ASSUME NEW i \in 1..Len(w) PROVE w[i] = Hole \/ Place[w[i]] = i
    <2>1. i \in 1..l
      BY <1>3
    <2>2. CASE i \in (off + 1)..(off + Len(m))
      <3>1. i - off \in 1..Len(m) /\ off + (i - off) = i
        BY <1>1, <2>1, <2>2
      <3>2. w[i] = m[i - off]
        BY <1>2, <2>1, <2>2
      <3>3. QED
        BY <3>1, <3>2 DEF Placed
    <2>3. CASE i \notin (off + 1)..(off + Len(m)) /\ i <= Len(s)
      <3>1. w[i] = s[i] /\ i \in 1..Len(s)
        BY <1>1, <1>2, <2>1, <2>3
      <3>2. QED
        BY <3>1 DEF InPlace
    <2>4. CASE i \notin (off + 1)..(off + Len(m)) /\ ~(i <= Len(s))
      BY <1>2, <2>1, <2>4
    <2>5. QED
      BY <2>2, <2>3, <2>4
  <1>5. QED
    BY <1>4 DEF InPlace, w

LEMMA ChainEmpty ==
  ASSUME NEW q, q = <<>>
  PROVE  Chain(q, 0, 0)
  <1> DEFINE s == [i \in 1..1 |-> 0]
  <1>1. Len(q) = 0 /\ s \in [1..(Len(q) + 1) -> Nat] /\ s[1] = 0
    OBVIOUS
  <1> HIDE DEF s
  <1>2. s[Len(q) + 1] = 0 /\ \A i \in 1..Len(q) : s[i + 1] = s[i] + Len(q[i]) /\ Placed(q[i], s[i])
    BY <1>1
  <1>3. QED
    BY <1>1, <1>2 DEF Chain

\* A chunk is sent.
LEMMA ChainAppend ==
  ASSUME NEW q \in Seq(Seq(Byte)), NEW a \in Nat, NEW b \in Nat, Chain(q, a, b),
         NEW m \in Seq(Byte), Placed(m, b)
  PROVE  Chain(Append(q, m), a, b + Len(m))
  <1> DEFINE p == Append(q, m)
             l == Len(q)
  <1>1. PICK s \in [1..(l + 1) -> Nat] :
          /\ s[1] = a /\ s[l + 1] = b
          /\ \A i \in 1..l : s[i + 1] = s[i] + Len(q[i]) /\ Placed(q[i], s[i])
    BY DEF Chain
  <1>2. /\ l \in Nat /\ Len(p) = l + 1 /\ p[l + 1] = m /\ Len(m) \in Nat
        /\ \A i \in 1..l : p[i] = q[i]
    OBVIOUS
  <1> HIDE DEF l, p
  <1> DEFINE t == [i \in 1..(l + 2) |-> IF i = l + 2 THEN b + Len(m) ELSE s[i]]
  <1>3. t \in [1..(Len(p) + 1) -> Nat]
    BY <1>1, <1>2
  <1>4. t[1] = a /\ t[Len(p) + 1] = b + Len(m) /\ t[l + 1] = b
    BY <1>1, <1>2
  <1>5. ASSUME NEW i \in 1..Len(p) PROVE t[i + 1] = t[i] + Len(p[i]) /\ Placed(p[i], t[i])
    <2>1. CASE i = l + 1
      BY <1>2, <1>4, <2>1
    <2>2. CASE i # l + 1
      <3>1. i \in 1..l /\ t[i] = s[i] /\ t[i + 1] = s[i + 1]
        BY <1>2, <2>2
      <3>2. QED
        BY <1>1, <1>2, <3>1
    <2>3. QED
      BY <2>1, <2>2
  <1> HIDE DEF t
  <1>6. QED
    BY <1>3, <1>4, <1>5 DEF Chain, p

\* The first chunk arrives.
LEMMA ChainTail ==
  ASSUME NEW q \in Seq(Seq(Byte)), q # <<>>, NEW a \in Nat, NEW b \in Nat, Chain(q, a, b)
  PROVE  Placed(Head(q), a) /\ Chain(Tail(q), a + Len(Head(q)), b)
  <1> DEFINE p == Tail(q)
             l == Len(q)
  <1>1. PICK s \in [1..(l + 1) -> Nat] :
          /\ s[1] = a /\ s[l + 1] = b
          /\ \A i \in 1..l : s[i + 1] = s[i] + Len(q[i]) /\ Placed(q[i], s[i])
    BY DEF Chain
  <1>2. /\ l \in Nat /\ l # 0 /\ Len(p) = l - 1 /\ Head(q) = q[1]
        /\ \A i \in 1..Len(p) : p[i] = q[i + 1]
    OBVIOUS
  <1> HIDE DEF l, p
  <1>3. s[2] = a + Len(q[1]) /\ Placed(q[1], a)
    <2>1. 1 \in 1..l /\ 1 + 1 = 2
      BY <1>2
    <2>2. s[1 + 1] = s[1] + Len(q[1]) /\ Placed(q[1], s[1])
      BY <1>1, <2>1
    <2>3. QED
      BY <1>1, <2>2
  <1> DEFINE t == [i \in 1..l |-> s[i + 1]]
  <1>4. t \in [1..(Len(p) + 1) -> Nat]
    BY <1>1, <1>2
  <1>5. t[1] = a + Len(q[1]) /\ t[Len(p) + 1] = b
    BY <1>1, <1>2, <1>3
  <1>6. ASSUME NEW i \in 1..Len(p) PROVE t[i + 1] = t[i] + Len(p[i]) /\ Placed(p[i], t[i])
    <2>1. i + 1 \in 1..l /\ i \in 1..l /\ p[i] = q[i + 1]
      BY <1>2
    <2>2. t[i] = s[i + 1] /\ t[i + 1] = s[(i + 1) + 1]
      BY <2>1
    <2>3. QED
      BY <1>1, <2>1, <2>2
  <1> HIDE DEF t
  <1>7. Chain(p, a + Len(q[1]), b)
    BY <1>4, <1>5, <1>6 DEF Chain
  <1>8. QED
    BY <1>2, <1>3, <1>7 DEF p
\* A stream from offset a has what was read up to e, unless its call is dead.
Carries(q, a, e, dead) == \E b \in Nat : Chain(q, a, b) /\ (dead \/ b = e)

InFlight(k) ==
  /\ c[k].op = "store" => Carries(up[k], h[k].off, c[k].off, k \in expired)
  /\ c[k].op = "fetch" => Carries(down[k], c[k].off, h[k].off, k \in expired)
  /\ h[k].st = "wait" => h[k].off = 0
  /\ c[k].st = "idle" => c[k].off = 0 /\ up[k] = <<>> /\ down[k] = <<>>

BInv == TInv /\ ByteInPlace /\ \A k \in Calls : InFlight(k)

LEMMA CarrySend ==
  ASSUME NEW k \in Calls, NEW q \in Streams, NEW a \in Nat, NEW e \in Nat,
         Carries(q[k], a, e, k \in expired), NEW m \in Seq(Byte), Placed(m, e)
  PROVE  /\ Carries(Written(q, k, m)[k], a, e + Len(m), k \in expired)
         /\ \A j \in Calls \ {k} : Written(q, k, m)[j] = q[j]
  <1>1. PICK b \in Nat : Chain(q[k], a, b) /\ (k \in expired \/ b = e)
    BY DEF Carries
  <1>2. CASE k \in expired
    BY <1>1, <1>2 DEF Carries, Written
  <1>3. CASE k \notin expired
    <2>1. Written(q, k, m)[k] = Append(q[k], m) /\ \A j \in Calls \ {k} : Written(q, k, m)[j] = q[j]
      BY <1>3 DEF Written, Streams
    <2>2. q[k] \in Seq(Seq(Byte)) /\ e + Len(m) \in Nat
      BY DEF Streams
    <2>3. Chain(Append(q[k], m), a, e + Len(m))
      BY <1>1, <1>3, <2>2, ChainAppend
    <2>4. QED
      BY <2>1, <2>2, <2>3 DEF Carries
  <1>4. QED
    BY <1>2, <1>3

LEMMA CarryTake ==
  ASSUME NEW q \in Seq(Seq(Byte)), q # <<>>, NEW a \in Nat, NEW e, NEW dead, Carries(q, a, e, dead)
  PROVE  Placed(Head(q), a) /\ Carries(Tail(q), a + Len(Head(q)), e, dead)
  <1>1. PICK b \in Nat : Chain(q, a, b) /\ (dead \/ b = e)
    BY DEF Carries
  <1>2. Placed(Head(q), a) /\ Chain(Tail(q), a + Len(Head(q)), b)
    BY <1>1, ChainTail
  <1>3. QED
    BY <1>1, <1>2 DEF Carries

LEMMA CarryNothing ==
  ASSUME NEW q, q = <<>>, NEW dead
  PROVE  Carries(q, 0, 0, dead)
  BY ChainEmpty DEF Carries

\* A step of one call.
LEMMA FlightFrame ==
  ASSUME BInv, TInv', ByteInPlace', NEW k \in Calls,
         \A j \in Calls \ {k} :
           c'[j] = c[j] /\ h'[j] = h[j] /\ up'[j] = up[j] /\ down'[j] = down[j],
         expired \subseteq expired', InFlight(k)'
  PROVE  BInv'
  <1>1. ASSUME NEW j \in Calls PROVE InFlight(j)'
    <2>1. CASE j = k
      BY <2>1
    <2>2. CASE j # k
      <3>1. InFlight(j) /\ c'[j] = c[j] /\ h'[j] = h[j] /\ up'[j] = up[j] /\ down'[j] = down[j]
        BY <2>2 DEF BInv
      <3>2. j \in expired => j \in expired'
        OBVIOUS
      <3>3. c[j].op = "store" => Carries(up[j], h[j].off, c[j].off, j \in expired')
        BY <3>1, <3>2 DEF InFlight, Carries
      <3>4. c[j].op = "fetch" => Carries(down[j], c[j].off, h[j].off, j \in expired')
        BY <3>1, <3>2 DEF InFlight, Carries
      <3>5. QED
        BY <3>1, <3>3, <3>4 DEF InFlight
    <2>3. QED
      BY <2>1, <2>2
  <1>2. QED
    BY <1>1 DEF BInv

\* A step that sends and receives nothing and starts no call.
LEMMA SilentFlight ==
  ASSUME BInv, TInv', ByteInPlace', NEW k \in Calls,
         \A j \in Calls \ {k} : c'[j] = c[j] /\ h'[j] = h[j],
         UNCHANGED <<up, down>>, expired \subseteq expired',
         c'[k].op = c[k].op, c'[k].off = c[k].off, h'[k].off = h[k].off,
         c'[k].st = "idle" => c[k].st = "idle", h'[k].st = "wait" => h[k].st = "wait"
  PROVE  BInv'
  <1>1. InFlight(k) /\ (k \in expired => k \in expired')
    BY DEF BInv
  <1>2. c[k].op = "store" => Carries(up[k], h[k].off, c[k].off, k \in expired')
    BY <1>1 DEF InFlight, Carries
  <1>3. c[k].op = "fetch" => Carries(down[k], c[k].off, h[k].off, k \in expired')
    BY <1>1 DEF InFlight, Carries
  <1>4. InFlight(k)'
    BY <1>1, <1>2, <1>3 DEF InFlight
  <1>5. QED
    BY <1>4, FlightFrame

\* A call is made: nothing is on its way.
LEMMA StartFlight ==
  ASSUME BInv, TInv', NEW k \in Calls, NEW n,
         \/ StartList(k) \/ StartStore(k, n) \/ StartFetch(k, n) \/ StartDelete(k, n) \/ StartStat(k, n)
  PROVE  BInv'
  <1>1. /\ c \in [Calls -> ClientSide] /\ c[k].st = "idle" /\ h[k].st = "wait" /\ InFlight(k)
        /\ UNCHANGED <<disk, local, h, up, down, expired>>
    BY DEF BInv, TInv, TypeOK, Roles, Role, StartList, StartStore, StartFetch, StartDelete, StartStat,
           StartUnary, CanStart
  <1>2. \A j \in Calls \ {k} : c'[j] = c[j]
    BY <1>1 DEF StartList, StartStore, StartFetch, StartDelete, StartStat, StartUnary
  <1>3. c'[k].off = c[k].off /\ c'[k].st # "idle"
    <2>1. CASE StartStore(k, n)
      <3> DEFINE r == Started(k, "over", "store", n)
                 t == Started(k, "send", "store", n)
                 l == Len(local[Owner[k]][n])
      <3>1. c[k] \in ClientSide
        BY <1>1
      <3>2. DOMAIN r = DOMAIN c[k] /\ r.off = c[k].off /\ r.st = "over"
        BY <3>1 DEF Started, ClientSide
      <3>3. DOMAIN t = DOMAIN c[k] /\ t.off = c[k].off /\ t.st = "send"
        BY <3>1 DEF Started, ClientSide
      <3>4. DOMAIN c[k] = {"st", "op", "name", "size", "off", "eof", "opened", "map", "status"}
        BY <3>1 DEF ClientSide
      <3>5. \/ c'[k] = [r EXCEPT !.status = "NOT_FOUND"]
            \/ c'[k] = [t EXCEPT !.size = l]
        BY <1>1, <2>1 DEF StartStore
      <3> HIDE DEF r, t, l
      <3>6. QED
        BY <3>2, <3>3, <3>4, <3>5
    <2>2. CASE StartList(k) \/ StartFetch(k, n) \/ StartDelete(k, n) \/ StartStat(k, n)
      <3>1. PICK st, op, m : /\ st \in {"recv", "await"}
                                /\ c' = [c EXCEPT ![k] = Started(k, st, op, m)]
        BY <2>2 DEF StartFetch, StartDelete, StartStat, StartList, StartUnary
      <3>2. QED
        BY <1>1, <3>1 DEF Started, ClientSide
    <2>3. QED
      BY <2>1, <2>2
  <1>4. c[k].off = 0 /\ h[k].off = 0 /\ up[k] = <<>> /\ down[k] = <<>>
    BY <1>1 DEF InFlight
  <1>5. Carries(up[k], 0, 0, k \in expired) /\ Carries(down[k], 0, 0, k \in expired)
    BY <1>4, CarryNothing
  <1>6. InFlight(k)'
    BY <1>1, <1>3, <1>4, <1>5 DEF InFlight
  <1>7. ByteInPlace'
    BY <1>1 DEF BInv, ByteInPlace, disk
  <1>8. QED
    BY <1>1, <1>2, <1>6, <1>7, FlightFrame
\* The parts of the types that the bytes need.
LEMMA FlightTypes ==
  ASSUME BInv, NEW k \in Calls
  PROVE  /\ c \in [Calls -> ClientSide] /\ h \in [Calls -> HandlerSide]
         /\ c[k].off \in Nat /\ h[k].off \in Nat
         /\ up \in Streams /\ down \in Streams
         /\ data \in [Files -> Seq(Byte)] /\ local \in [Clients -> [Names -> Content]]
         /\ Role(k) /\ InFlight(k) /\ Owner[k] \in Clients
         /\ c[k].st # "idle" /\ c[k].op # "list" => c[k].name \in Names
         /\ c[k].st = "recv" /\ c[k].opened => Mine(k) # NoFile
  <1>1. c \in [Calls -> ClientSide] /\ h \in [Calls -> HandlerSide]
    BY DEF BInv, TInv, TypeOK
  <1>2. c[k].off \in Nat /\ h[k].off \in Nat
    BY <1>1 DEF ClientSide, HandlerSide
  <1>3. QED
    BY <1>1, <1>2, DfsAssumption DEF BInv, TInv, TypeOK, Roles, Streams

LEMMA SendFlight ==
  ASSUME BInv, TInv', NEW k \in Calls, SendChunk(k)
  PROVE  BInv'
  <1> USE FlightTypes
  <1> DEFINE m == IF c[k].eof THEN <<>> ELSE ReadAt(Mine(k), c[k].off)
             o == c[k].off + Len(m)
  <1>1. c[k].st = "send" /\ c[k].op = "store" /\ c[k].name \in Names /\ Mine(k) # NoFile
    BY DEF SendChunk, Role
  <1>2. Mine(k) \in Seq(Byte) /\ InPlace(Mine(k))
    BY <1>1 DEF Mine, Content, BInv, ByteInPlace
  <1>3. m \in Seq(Byte) /\ Placed(m, c[k].off)
    <2>1. CASE c[k].eof
      BY <2>1 DEF Placed
    <2>2. CASE ~c[k].eof
      <3>1. ReadAt(Mine(k), c[k].off) \in Seq(Byte) /\ Placed(ReadAt(Mine(k), c[k].off), c[k].off)
        BY <1>2, ReadType, ReadPlaced
      <3>2. QED
        BY <2>2, <3>1
    <2>3. QED
      BY <2>1, <2>2
  <1>4. /\ up' = Written(up, k, m) /\ UNCHANGED <<disk, local, h, down, expired>>
        /\ \A j \in Calls \ {k} : c'[j] = c[j]
    BY DEF SendChunk
  <1>5. c'[k].off = o /\ c'[k].st = c[k].st /\ c'[k].op = c[k].op
    BY DEF SendChunk, ClientSide
  <1> HIDE DEF m
  <1>6. /\ Carries(Written(up, k, m)[k], h[k].off, o, k \in expired)
        /\ \A j \in Calls \ {k} : Written(up, k, m)[j] = up[j]
    <2>1. Carries(up[k], h[k].off, c[k].off, k \in expired)
      BY <1>1 DEF InFlight
    <2>2. QED
      BY <1>3, <2>1, CarrySend
  <1> HIDE DEF o
  <1>7. Carries(up'[k], h'[k].off, c'[k].off, k \in expired')
    BY <1>4, <1>5, <1>6
  <1>8. InFlight(k)'
    BY <1>1, <1>4, <1>5, <1>7 DEF InFlight
  <1>9. ByteInPlace'
    BY <1>4 DEF BInv, ByteInPlace, disk
  <1>10. QED
    BY <1>4, <1>6, <1>8, <1>9, FlightFrame

LEMMA ReceiveFlight ==
  ASSUME BInv, TInv', NEW k \in Calls, ReceiveChunk(k)
  PROVE  BInv'
  <1> USE FlightTypes
  <1> DEFINE m == Head(down[k])
             file == IF c[k].opened THEN Mine(k) ELSE <<>>
             o == c[k].off + Len(m)
             n == c[k].name
             w == WriteAt(file, c[k].off, m)
  <1>1. c[k].st = "recv" /\ c[k].op = "fetch" /\ n \in Names /\ down[k] # <<>>
    BY DEF ReceiveChunk, Role
  <1>2. file \in Seq(Byte) /\ InPlace(file)
    <2>1. CASE c[k].opened
      BY <1>1, <2>1 DEF Mine, Content, BInv, ByteInPlace
    <2>2. CASE ~c[k].opened
      BY <2>2 DEF InPlace
    <2>3. QED
      BY <2>1, <2>2
  <1>3. /\ local' = [local EXCEPT ![Owner[k]][n] = w]
        /\ down' = [down EXCEPT ![k] = Tail(@)] /\ UNCHANGED <<disk, h, up, expired>>
        /\ \A j \in Calls \ {k} : c'[j] = c[j]
    BY DEF ReceiveChunk
  <1>4. c'[k].off = o /\ c'[k].st = c[k].st /\ c'[k].op = c[k].op
    BY DEF ReceiveChunk, ClientSide
  <1>5. m \in Seq(Byte) /\ down[k] \in Seq(Seq(Byte))
    BY <1>1 DEF Streams
  <1>6. Placed(m, c[k].off) /\ Carries(Tail(down[k]), o, h[k].off, k \in expired)
    <2>1. Carries(down[k], c[k].off, h[k].off, k \in expired)
      BY <1>1 DEF InFlight
    <2>2. QED
      BY <1>1, <1>5, <2>1, CarryTake
  <1> HIDE DEF m, file, o
  <1>7. InPlace(w)
    BY <1>2, <1>5, <1>6, WritePlaced
  <1> HIDE DEF w
  <1>8. ByteInPlace'
    <2>1. ASSUME NEW cl \in Clients, NEW p \in Names, local'[cl][p] # NoFile
          PROVE  InPlace(local'[cl][p])
      <3>1. CASE cl = Owner[k] /\ p = n
        BY <1>3, <1>7, <3>1
      <3>2. CASE ~(cl = Owner[k] /\ p = n)
        <4>1. local'[cl][p] = local[cl][p]
          BY <1>3, <3>2
        <4>2. QED
          BY <2>1, <4>1 DEF BInv, ByteInPlace
      <3>3. QED
        BY <3>1, <3>2
    <2>2. QED
      BY <1>3, <2>1 DEF BInv, ByteInPlace, disk
  <1>9. down'[k] = Tail(down[k]) /\ \A j \in Calls \ {k} : down'[j] = down[j]
    BY <1>3 DEF Streams
  <1>10. Carries(down'[k], c'[k].off, h'[k].off, k \in expired')
    BY <1>3, <1>4, <1>6, <1>9
  <1>11. InFlight(k)'
    BY <1>1, <1>3, <1>4, <1>10 DEF InFlight
  <1>12. QED
    BY <1>3, <1>8, <1>9, <1>11, FlightFrame

LEMMA StoreFlight ==
  ASSUME BInv, TInv', NEW k \in Calls, StoreChunk(k)
  PROVE  BInv'
  <1> USE FlightTypes
  <1> DEFINE m == Head(up[k])
             o == h[k].off + Len(m)
             f == h[k].ino
             w == WriteAt(data[f], h[k].off, m)
  <1>1. h[k].st = "store" /\ c[k].op = "store" /\ c[k].st # "idle" /\ up[k] # <<>>
    BY DEF StoreChunk, Role
  <1>2. /\ data' = data \/ (f # NoFile /\ data' = [data EXCEPT ![f] = w])
        /\ up' = [up EXCEPT ![k] = Tail(@)] /\ UNCHANGED <<local, c, down, expired>>
        /\ \A j \in Calls \ {k} : h'[j] = h[j]
    BY DEF StoreChunk
  <1>3. h'[k].off = o /\ h'[k].st = h[k].st
    BY DEF StoreChunk, HandlerSide
  <1>4. m \in Seq(Byte) /\ up[k] \in Seq(Seq(Byte)) /\ f \in Files \cup {NoFile}
    BY <1>1 DEF Streams, HandlerSide
  <1>5. Placed(m, h[k].off) /\ Carries(Tail(up[k]), o, c[k].off, k \in expired)
    <2>1. Carries(up[k], h[k].off, c[k].off, k \in expired)
      BY <1>1 DEF InFlight
    <2>2. QED
      BY <1>1, <1>4, <2>1, CarryTake
  <1> HIDE DEF m, o
  <1>6. \A g \in Files : InPlace(data'[g])
    <2>1. CASE data' = data
      BY <2>1 DEF BInv, ByteInPlace
    <2>2. CASE f # NoFile /\ data' = [data EXCEPT ![f] = w]
      <3>1. data[f] \in Seq(Byte) /\ InPlace(data[f])
        BY <1>4, <2>2 DEF BInv, ByteInPlace
      <3>2. InPlace(w)
        BY <1>4, <1>5, <3>1, WritePlaced
      <3> HIDE DEF w
      <3>3. QED
        BY <2>2, <3>2 DEF BInv, ByteInPlace
    <2>3. QED
      BY <1>2, <2>1, <2>2
  <1>7. ByteInPlace'
    BY <1>2, <1>6 DEF BInv, ByteInPlace
  <1>8. up'[k] = Tail(up[k]) /\ \A j \in Calls \ {k} : up'[j] = up[j]
    BY <1>2 DEF Streams
  <1>9. Carries(up'[k], h'[k].off, c'[k].off, k \in expired')
    BY <1>2, <1>3, <1>5, <1>8
  <1>10. InFlight(k)'
    BY <1>1, <1>2, <1>3, <1>9 DEF InFlight
  <1>11. QED
    BY <1>2, <1>7, <1>8, <1>10, FlightFrame

LEMMA FetchFlight ==
  ASSUME BInv, TInv', NEW k \in Calls, FetchChunk(k)
  PROVE  BInv'
  <1> USE FlightTypes
  <1> DEFINE m == IF h[k].eof THEN <<>> ELSE ReadAt(data[h[k].ino], h[k].off)
             o == h[k].off + Len(m)
  <1>1. h[k].st = "fetch" /\ c[k].op = "fetch" /\ c[k].st # "idle"
    BY DEF FetchChunk, Role
  <1>2. m \in Seq(Byte) /\ Placed(m, h[k].off)
    <2>1. CASE h[k].eof
      BY <2>1 DEF Placed
    <2>2. CASE ~h[k].eof
      <3>1. h[k].ino \in Files
        <4>1. h[k].ino # NoFile
          BY <1>1, <2>2 DEF BInv, TInv, TypeOK
        <4>2. QED
          BY <4>1 DEF HandlerSide
      <3>2. data[h[k].ino] \in Seq(Byte) /\ InPlace(data[h[k].ino])
        BY <3>1 DEF BInv, ByteInPlace
      <3>3. /\ ReadAt(data[h[k].ino], h[k].off) \in Seq(Byte)
            /\ Placed(ReadAt(data[h[k].ino], h[k].off), h[k].off)
        BY <3>2, ReadType, ReadPlaced
      <3>4. QED
        BY <2>2, <3>3
    <2>3. QED
      BY <2>1, <2>2
  <1>3. /\ down' = Written(down, k, m) /\ UNCHANGED <<disk, local, c, up, expired>>
        /\ \A j \in Calls \ {k} : h'[j] = h[j]
    BY DEF FetchChunk
  <1>4. h'[k].off = o /\ h'[k].st = h[k].st
    BY DEF FetchChunk, HandlerSide
  <1> HIDE DEF m
  <1>5. /\ Carries(Written(down, k, m)[k], c[k].off, o, k \in expired)
        /\ \A j \in Calls \ {k} : Written(down, k, m)[j] = down[j]
    <2>1. Carries(down[k], c[k].off, h[k].off, k \in expired)
      BY <1>1 DEF InFlight
    <2>2. QED
      BY <1>2, <2>1, CarrySend
  <1> HIDE DEF o
  <1>6. Carries(down'[k], c'[k].off, h'[k].off, k \in expired')
    BY <1>3, <1>4, <1>5
  <1>7. InFlight(k)'
    BY <1>1, <1>3, <1>4, <1>6 DEF InFlight
  <1>8. ByteInPlace'
    BY <1>3 DEF BInv, ByteInPlace, disk
  <1>9. QED
    BY <1>3, <1>5, <1>7, <1>8, FlightFrame
LEMMA DropFlight ==
  ASSUME BInv, TInv', NEW k \in Calls, DropChunk(k)
  PROVE  BInv'
  <1> USE FlightTypes
  <1> DEFINE m == Head(down[k])
             o == c[k].off + Len(m)
  <1>1. c[k].st = "recv" /\ c[k].op = "fetch" /\ down[k] # <<>>
    BY DEF DropChunk, Role
  <1>2. /\ down' = [down EXCEPT ![k] = Tail(@)] /\ UNCHANGED <<disk, local, h, up, expired>>
        /\ \A j \in Calls \ {k} : c'[j] = c[j]
    BY DEF DropChunk
  <1>3. c'[k].off = o /\ c'[k].st = c[k].st /\ c'[k].op = c[k].op
    BY DEF DropChunk, ClientSide
  <1>4. m \in Seq(Byte) /\ down[k] \in Seq(Seq(Byte))
    BY <1>1 DEF Streams
  <1>5. Carries(Tail(down[k]), o, h[k].off, k \in expired)
    <2>1. Carries(down[k], c[k].off, h[k].off, k \in expired)
      BY <1>1 DEF InFlight
    <2>2. QED
      BY <1>1, <1>4, <2>1, CarryTake
  <1> HIDE DEF m, o
  <1>6. Carries(down'[k], c'[k].off, h'[k].off, k \in expired')
    BY <1>2, <1>3, <1>5 DEF Streams
  <1>7. InFlight(k)'
    BY <1>1, <1>2, <1>3, <1>6 DEF InFlight
  <1>8. ByteInPlace'
    BY <1>2 DEF BInv, ByteInPlace, disk
  <1>9. \A j \in Calls \ {k} : down'[j] = down[j]
    BY <1>2
  <1>10. QED
    BY <1>2, <1>7, <1>8, <1>9, FlightFrame
\* The other steps of a client.
LEMMA ClientFlight ==
  ASSUME BInv, TInv', NEW k \in Calls, ClientStep(k)
  PROVE  BInv'
  <1> USE FlightTypes
  <1>1. CASE SendChunk(k)
    BY <1>1, SendFlight
  <1>2. CASE ReceiveChunk(k)
    BY <1>2, ReceiveFlight
  <1>3. CASE WritesDone(k) \/ \E m : Over(k, m) /\ c[k].st # "idle"
    <2>1. /\ UNCHANGED <<disk, local, h, up, down, expired>>
          /\ \A j \in Calls \ {k} : c'[j] = c[j]
      BY <1>3 DEF WritesDone, Over
    <2>2. c'[k].op = c[k].op /\ c'[k].off = c[k].off /\ c'[k].st # "idle"
      <3>1. c[k] \in ClientSide
        OBVIOUS
      <3>2. CASE WritesDone(k)
        BY <3>1, <3>2 DEF WritesDone, ClientSide
      <3>3. CASE \E m : Over(k, m)
        <4>1. PICK m : c' = [c EXCEPT ![k].st = "over", ![k].status = Outcome(k), ![k].map = m]
          BY <3>3 DEF Over
        <4>2. QED
          BY <3>1, <4>1 DEF ClientSide
      <3>4. QED
        BY <1>3, <3>2, <3>3
    <2>3. ByteInPlace'
      BY <2>1 DEF BInv, ByteInPlace, disk
    <2>4. QED
      BY <2>1, <2>2, <2>3, SilentFlight
  <1>4. CASE DropChunk(k)
    BY <1>4, DropFlight
  <1>5. QED
    BY <1>1, <1>2, <1>3, <1>4
    DEF ClientStep, FinishStore, FinishFetch, FinishDelete, FinishStat, FinishList

\* The other steps of a handler.
LEMMA HandlerFlight ==
  ASSUME BInv, TInv', NEW k \in Calls, HandlerStep(k)
  PROVE  BInv'
  <1> USE FlightTypes
  <1>1. CASE StoreChunk(k)
    BY <1>1, StoreFlight
  <1>2. CASE FetchChunk(k)
    BY <1>2, FetchFlight
  <1>3. CASE ~StoreChunk(k) /\ ~FetchChunk(k)
    <2>1. /\ UNCHANGED <<local, c, up, down, expired>>
          /\ \A j \in Calls \ {k} : h'[j] = h[j]
      BY <1>3 DEF HandlerStep, CancelledAtStart, Attrs, OpenList, ListEntry, ListCancelled, ListDone,
                  OpenStore, StoreCancelled, StoreDone, StatFetch, OpenFetch,
                  FetchCancelled, FetchDone, StatDelete, Remove, Return
    <2>2. h'[k].off = h[k].off /\ h'[k].st # "wait"
      <3>1. CASE CancelledAtStart(k) \/ ListCancelled(k) \/ ListDone(k) \/ StoreCancelled(k)
                 \/ StoreDone(k) \/ FetchCancelled(k) \/ FetchDone(k)
        <4>1. PICK s : h' = [h EXCEPT ![k].st = "over", ![k].status = s]
          BY <3>1 DEF CancelledAtStart, ListCancelled, ListDone, StoreCancelled, StoreDone,
                      FetchCancelled, FetchDone, Return
        <4>2. h[k] \in HandlerSide
          OBVIOUS
        <4>3. QED
          BY <4>1, <4>2 DEF HandlerSide
      <3>2. CASE Attrs(k) \/ StatFetch(k) \/ StatDelete(k)
        <4>1. h[k] \in HandlerSide
          OBVIOUS
        <4>2. CASE Attrs(k)
          BY <4>1, <4>2 DEF Attrs, HandlerSide
        <4>3. CASE StatFetch(k)
          BY <4>1, <4>3 DEF StatFetch, HandlerSide
        <4>4. CASE StatDelete(k)
          BY <4>1, <4>4 DEF StatDelete, HandlerSide
        <4>5. QED
          BY <3>2, <4>2, <4>3, <4>4
      <3>3. CASE OpenList(k) \/ ListEntry(k)
        <4>1. h[k] \in HandlerSide
          OBVIOUS
        <4>2. CASE OpenList(k)
          BY <4>1, <4>2 DEF OpenList, HandlerSide
        <4>3. CASE ListEntry(k)
          BY <4>1, <4>3 DEF ListEntry, HandlerSide
        <4>4. QED
          BY <3>3, <4>2, <4>3
      <3>4. CASE OpenStore(k) \/ OpenFetch(k)
        <4>1. h[k] \in HandlerSide
          OBVIOUS
        <4>2. CASE OpenStore(k)
          <5>1. PICK f : h' = [h EXCEPT ![k].st = "store", ![k].ino = f]
            BY <4>2 DEF OpenStore
          <5>2. QED
            BY <4>1, <5>1 DEF HandlerSide
        <4>3. CASE OpenFetch(k)
          <5>1. PICK f, e : h' = [h EXCEPT ![k].st = "fetch", ![k].ino = f, ![k].eof = e]
            BY <4>3 DEF OpenFetch
          <5>2. QED
            BY <4>1, <5>1 DEF HandlerSide
        <4>4. QED
          BY <3>4, <4>2, <4>3
      <3>5. CASE Remove(k)
        BY <3>5 DEF Remove, HandlerSide
      <3>6. QED
        BY <1>3, <3>1, <3>2, <3>3, <3>4, <3>5 DEF HandlerStep
    <2>3. ByteInPlace'
      <3>1. data' = data \/ \E f : data' = [data EXCEPT ![f] = <<>>]
        BY <1>3 DEF HandlerStep, CancelledAtStart, Attrs, OpenList, ListEntry, ListCancelled,
                    ListDone, OpenStore, StoreCancelled, StoreDone, StatFetch, OpenFetch,
                    FetchCancelled, FetchDone, StatDelete, Remove, Return, disk
      <3>2. \A f \in Files : data'[f] = data[f] \/ data'[f] = <<>>
        BY <3>1
      <3>3. InPlace(<<>>)
        BY DEF InPlace
      <3>4. \A f \in Files : InPlace(data'[f])
        BY <3>2, <3>3 DEF BInv, ByteInPlace
      <3>5. QED
        BY <2>1, <3>4 DEF BInv, ByteInPlace
    <2>4. QED
      BY <2>1, <2>2, <2>3, SilentFlight
  <1>4. QED
    BY <1>1, <1>2, <1>3

\* Time passes.
LEMMA TimeFlight ==
  ASSUME BInv, TInv', NEW k \in Calls, Expire(k) \/ NoticeCancel(k) \/ Lost(k)
  PROVE  BInv'
  <1> USE FlightTypes
  <1>1. /\ UNCHANGED <<disk, local, c, up, down>> /\ expired \subseteq expired'
        /\ \A j \in Calls \ {k} : h'[j] = h[j]
    BY DEF Expire, NoticeCancel, Lost
  <1>2. h'[k].off = h[k].off /\ (h'[k].st = "wait" => h[k].st = "wait")
    BY DEF Expire, NoticeCancel, Lost, HandlerSide
  <1>3. ByteInPlace'
    BY <1>1 DEF BInv, ByteInPlace, disk
  <1>4. QED
    BY <1>1, <1>2, <1>3, SilentFlight

LEMMA ShortenFlight ==
  ASSUME BInv, TInv', NEW cl \in Clients, NEW n \in Names, Shorten(cl, n)
  PROVE  BInv'
  <1>1. PICK l \in 0..(Len(local[cl][n]) - 1) :
          local' = [local EXCEPT ![cl][n] = SubSeq(@, 1, l)]
    BY DEF Shorten
  <1>2. /\ local \in [Clients -> [Names -> Content]]
        /\ local[cl][n] \in Seq(Byte) /\ InPlace(local[cl][n])
    BY DEF BInv, TInv, TypeOK, ByteInPlace, Shorten, Content
  <1>3. InPlace(SubSeq(local[cl][n], 1, l))
    <2>1. \A i \in 1..Len(SubSeq(local[cl][n], 1, l)) :
            i \in 1..Len(local[cl][n]) /\ SubSeq(local[cl][n], 1, l)[i] = local[cl][n][i]
      BY <1>1, <1>2
    <2>2. QED
      BY <1>2, <2>1 DEF InPlace
  <1>4. \A b \in Clients, p \in Names :
          local'[b][p] = local[b][p] \/ local'[b][p] = SubSeq(local[cl][n], 1, l)
    BY <1>1, <1>2
  <1>5. ByteInPlace'
    BY <1>3, <1>4 DEF BInv, ByteInPlace, Shorten, disk
  <1>6. \A k \in Calls : InFlight(k)'
    BY DEF BInv, InFlight, Shorten
  <1>7. QED
    BY <1>5, <1>6 DEF BInv

LEMMA BInvInit == Init => BInv
  <1> SUFFICES ASSUME Init PROVE BInv
    OBVIOUS
  <1>1. TInv
    BY TInvInit
  <1>2. ByteInPlace
    <2>1. InPlace(<<>>)
      BY DEF InPlace
    <2>2. \A f \in Files : data[f] = <<>> \/ (f \in Names /\ Remote[f] # NoFile /\ data[f] = Remote[f])
      BY DEF Init
    <2>3. \A f \in Files : InPlace(data[f])
      BY <2>1, <2>2, DfsAssumption
    <2>4. QED
      BY <2>3, DfsAssumption DEF ByteInPlace, Init
  <1>3. \A k \in Calls : InFlight(k)
    BY DEF Init, InFlight
  <1>4. QED
    BY <1>1, <1>2, <1>3 DEF BInv

LEMMA BInvNext == BInv /\ [Next]_vars => BInv'
  <1> SUFFICES ASSUME BInv, [Next]_vars PROVE BInv'
    OBVIOUS
  <1>1. TInv'
    BY TInvNext DEF BInv
  <1>2. ASSUME NEW k \in Calls, ClientStep(k) PROVE BInv'
    BY <1>1, <1>2, ClientFlight
  <1>3. ASSUME NEW k \in Calls, HandlerStep(k) PROVE BInv'
    BY <1>1, <1>3, HandlerFlight
  <1>4. ASSUME NEW k \in Calls, Expire(k) \/ NoticeCancel(k) \/ Lost(k) PROVE BInv'
    BY <1>1, <1>4, TimeFlight
  <1>5. ASSUME NEW k \in Calls, NEW n,
               \/ StartList(k) \/ StartStore(k, n) \/ StartFetch(k, n)
               \/ StartDelete(k, n) \/ StartStat(k, n)
        PROVE  BInv'
    BY <1>1, <1>5, StartFlight
  <1>6. ASSUME NEW cl \in Clients, NEW n \in Names, Shorten(cl, n) PROVE BInv'
    BY <1>1, <1>6, ShortenFlight
  <1>7. CASE UNCHANGED vars
    <2>1. ByteInPlace'
      BY <1>7 DEF BInv, ByteInPlace, vars, disk
    <2>2. \A k \in Calls : InFlight(k)'
      BY <1>7 DEF BInv, InFlight, vars, disk
    <2>3. QED
      BY <1>1, <2>1, <2>2 DEF BInv
  <1>8. QED
    BY <1>2, <1>3, <1>4, <1>5, <1>6, <1>7 DEF Next

(* dfslib-servernode-p1.cpp:160-177 and dfs-clientnode-p1.cpp:115-128.     *)
(* Stores, fetches and removals of one file, interleaved in any way, never *)
(* move a byte: a chunk is always written where it was read.               *)
THEOREM BytesStay == Spec => []ByteInPlace
  <1>1. BInv => ByteInPlace
    BY DEF BInv
  <1>2. QED
    BY <1>1, BInvInit, BInvNext, PTL DEF Spec
-----------------------------------------------------------------------------
(* Whole files.  A store, or a fetch, of a file that nobody else changes   *)
(* keeps three things together: the start of the file that has arrived,    *)
(* the pieces of it that are on their way, and where the sender is in it.  *)

\* The chunks q are the pieces of s that lie between a and b.
Pieces(q, s, a, b) ==
  \E t \in [1..(Len(q) + 1) -> 0..Len(s)] :
    /\ t[1] = a /\ t[Len(q) + 1] = b
    /\ \A i \in 1..Len(q) : t[i] <= t[i + 1] /\ q[i] = SubSeq(s, t[i] + 1, t[i + 1])

LEMMA PiecesNone ==
  ASSUME NEW s \in Seq(Byte), NEW a \in 0..Len(s), NEW q, q = <<>>
  PROVE  Pieces(q, s, a, a)
  <1> DEFINE t == [i \in 1..(Len(q) + 1) |-> a]
  <1>1. Len(q) = 0
    OBVIOUS
  <1>2. t \in [1..(Len(q) + 1) -> 0..Len(s)] /\ t[1] = a /\ t[Len(q) + 1] = a
    BY <1>1
  <1>3. \A i \in 1..Len(q) : t[i] <= t[i + 1] /\ q[i] = SubSeq(s, t[i] + 1, t[i + 1])
    BY <1>1
  <1> HIDE DEF t
  <1>4. QED
    BY <1>2, <1>3 DEF Pieces

LEMMA PiecesEnd ==
  ASSUME NEW q, q = <<>>, NEW s, NEW a, NEW b, Pieces(q, s, a, b)
  PROVE  a = b
  <1>1. Len(q) + 1 = 1
    OBVIOUS
  <1>2. QED
    BY <1>1 DEF Pieces

LEMMA PiecesAdd ==
  ASSUME NEW q \in Seq(Seq(Byte)), NEW s \in Seq(Byte), NEW a, NEW b \in Nat, NEW e \in b..Len(s),
         Pieces(q, s, a, b)
  PROVE  Pieces(Append(q, SubSeq(s, b + 1, e)), s, a, e)
  <1> DEFINE l == Len(q)
             m == SubSeq(s, b + 1, e)
             p == Append(q, m)
  <1>1. PICK t \in [1..(l + 1) -> 0..Len(s)] :
          /\ t[1] = a /\ t[l + 1] = b
          /\ \A i \in 1..l : t[i] <= t[i + 1] /\ q[i] = SubSeq(s, t[i] + 1, t[i + 1])
    BY DEF Pieces
  <1>2. l \in Nat /\ Len(p) = l + 1 /\ p[l + 1] = m /\ \A i \in 1..l : p[i] = q[i]
    OBVIOUS
  <1>3. e \in 0..Len(s) /\ b <= e
    OBVIOUS
  <1> DEFINE u == [i \in 1..(Len(p) + 1) |-> IF i = l + 2 THEN e ELSE t[i]]
  <1> HIDE DEF l, p, m
  <1>4. u \in [1..(Len(p) + 1) -> 0..Len(s)]
    BY <1>1, <1>2, <1>3
  <1>5. u[1] = a /\ u[Len(p) + 1] = e /\ \A i \in 1..(l + 1) : u[i] = t[i]
    BY <1>1, <1>2
  <1>6. u[l + 1] = b /\ u[(l + 1) + 1] = e
    BY <1>1, <1>2, <1>5
  <1> HIDE DEF u
  <1>7. ASSUME NEW i \in 1..Len(p)
        PROVE  u[i] <= u[i + 1] /\ p[i] = SubSeq(s, u[i] + 1, u[i + 1])
    <2>1. CASE i = l + 1
      BY <1>2, <1>3, <1>6, <2>1 DEF m
    <2>2. CASE i # l + 1
      <3>1. i \in 1..l /\ u[i] = t[i] /\ u[i + 1] = t[i + 1] /\ p[i] = q[i]
        BY <1>2, <1>5, <2>2
      <3>2. QED
        BY <1>1, <3>1
    <2>3. QED
      BY <2>1, <2>2
  <1>8. Pieces(p, s, a, e)
    BY <1>4, <1>5, <1>7 DEF Pieces
  <1>9. QED
    BY <1>8 DEF p, m

LEMMA PiecesTake ==
  ASSUME NEW q \in Seq(Seq(Byte)), q # <<>>, NEW s \in Seq(Byte), NEW a \in Nat, NEW b,
         Pieces(q, s, a, b)
  PROVE  /\ a + Len(Head(q)) \in a..Len(s)
         /\ Head(q) = SubSeq(s, a + 1, a + Len(Head(q)))
         /\ Pieces(Tail(q), s, a + Len(Head(q)), b)
  <1> DEFINE p == Tail(q)
             l == Len(q)
  <1>1. PICK t \in [1..(l + 1) -> 0..Len(s)] :
          /\ t[1] = a /\ t[l + 1] = b
          /\ \A i \in 1..l : t[i] <= t[i + 1] /\ q[i] = SubSeq(s, t[i] + 1, t[i + 1])
    BY DEF Pieces
  <1>2. /\ l \in Nat /\ l # 0 /\ Len(p) = l - 1 /\ Head(q) = q[1]
        /\ \A i \in 1..Len(p) : p[i] = q[i + 1]
    OBVIOUS
  <1> HIDE DEF l, p
  <1>3. t[2] \in a..Len(s) /\ q[1] = SubSeq(s, a + 1, t[2])
    <2>1. 1 \in 1..l /\ 1 + 1 = 2 /\ 2 \in 1..(l + 1)
      BY <1>2
    <2>2. t[1] <= t[1 + 1] /\ q[1] = SubSeq(s, t[1] + 1, t[1 + 1])
      BY <1>1, <2>1
    <2>3. t[2] \in 0..Len(s)
      BY <1>1, <2>1
    <2>4. Len(s) \in Nat
      OBVIOUS
    <2>5. QED
      BY <1>1, <2>1, <2>2, <2>3, <2>4
  <1>4. t[2] = a + Len(q[1])
    <2>1. Len(SubSeq(s, a + 1, t[2])) = t[2] - a
      BY <1>3
    <2>2. QED
      BY <1>3, <2>1
  <1> DEFINE u == [i \in 1..l |-> t[i + 1]]
  <1>5. u \in [1..(Len(p) + 1) -> 0..Len(s)]
    <2>1. Len(p) + 1 = l /\ \A i \in 1..l : i + 1 \in 1..(l + 1)
      BY <1>2
    <2>2. \A i \in 1..l : t[i + 1] \in 0..Len(s)
      BY <1>1, <2>1
    <2>3. QED
      BY <2>1, <2>2
  <1>6. u[1] = t[2] /\ u[Len(p) + 1] = b
    BY <1>1, <1>2
  <1>7. ASSUME NEW i \in 1..Len(p)
        PROVE  u[i] <= u[i + 1] /\ p[i] = SubSeq(s, u[i] + 1, u[i + 1])
    <2>1. i + 1 \in 1..l /\ i \in 1..l /\ p[i] = q[i + 1]
      BY <1>2
    <2>2. u[i] = t[i + 1] /\ u[i + 1] = t[(i + 1) + 1]
      BY <2>1
    <2>3. QED
      BY <1>1, <2>1, <2>2
  <1> HIDE DEF u
  <1>8. Pieces(p, s, t[2], b)
    BY <1>5, <1>6, <1>7 DEF Pieces
  <1>9. QED
    BY <1>2, <1>3, <1>4, <1>8 DEF p

\* What a read of a chunk returns before the end of the file ...
LEMMA ReadOn ==
  ASSUME NEW s \in Seq(Byte), NEW a \in Nat, a < Len(s)
  PROVE  LET n == Len(ReadAt(s, a))
         IN  /\ n \in Nat \ {0} /\ a + n <= Len(s)
             /\ ReadAt(s, a) = SubSeq(s, a + 1, a + n)
             /\ n < Chunk => a + n = Len(s)
  <1> DEFINE e == Lesser(a + Chunk, Len(s))
             n == Len(ReadAt(s, a))
  <1>1. e \in Nat /\ a < e /\ e <= Len(s) /\ (e < a + Chunk => e = Len(s))
    BY DfsAssumption DEF Lesser
  <1>2. ReadAt(s, a) = SubSeq(s, a + 1, e)
    BY DEF ReadAt
  <1> HIDE DEF e
  <1>3. Len(SubSeq(s, a + 1, e)) = e - a
    BY <1>1
  <1>4. n = e - a
    BY <1>2, <1>3
  <1>5. e = a + n
    <2> HIDE DEF n
    <2>1. QED
      BY <1>1, <1>4
  <1>6. ReadAt(s, a) = SubSeq(s, a + 1, a + n)
    BY <1>2, <1>5
  <1> HIDE DEF n
  <1>7. n \in Nat \ {0} /\ a + n <= Len(s) /\ (n < Chunk => a + n = Len(s))
    BY <1>1, <1>4, DfsAssumption
  <1>8. QED
    BY <1>6, <1>7 DEF n

\* ... and what a write of it makes of the start of a file.
LEMMA WriteOn ==
  ASSUME NEW s \in Seq(Byte), NEW a \in Nat, NEW b \in a..Len(s)
  PROVE  WriteAt(SubSeq(s, 1, a), a, SubSeq(s, a + 1, b)) = SubSeq(s, 1, b)
  <1> DEFINE r == SubSeq(s, 1, a)
             m == SubSeq(s, a + 1, b)
             w == WriteAt(r, a, m)
  <1>1. /\ r \in Seq(Byte) /\ Len(r) = a /\ \A i \in 1..a : r[i] = s[i]
        /\ m \in Seq(Byte) /\ Len(m) = b - a /\ \A i \in 1..(b - a) : m[i] = s[a + i]
        /\ b \in Nat
    <2>1. b \in Nat /\ a <= b /\ b <= Len(s) /\ Len(s) \in Nat
      OBVIOUS
    <2>2. r \in Seq(Byte) /\ Len(r) = a /\ \A i \in 1..a : r[i] = s[i]
      BY <2>1
    <2>3. m \in Seq(Byte) /\ Len(m) = b - a
      BY <2>1
    <2>4. ASSUME NEW i \in 1..(b - a) PROVE m[i] = s[a + i]
      <3>1. m[i] = s[(a + 1) + i - 1]
        BY <2>1, <2>3
      <3>2. (a + 1) + i - 1 = a + i
        BY <2>1
      <3>3. QED
        BY <3>1, <3>2
    <2>5. QED
      BY <2>1, <2>2, <2>3, <2>4
  <1>2. w = [i \in 1..(IF m = <<>> THEN Len(r) ELSE Greater(Len(r), a + Len(m))) |->
               IF i \in (a + 1)..(a + Len(m)) THEN m[i - a]
               ELSE IF i <= Len(r) THEN r[i] ELSE Hole]
    BY DEF WriteAt
  <1> HIDE DEF r, m, w
  <1>3. (IF m = <<>> THEN Len(r) ELSE Greater(Len(r), a + Len(m))) = b
    <2>1. CASE m = <<>>
      BY <1>1, <2>1
    <2>2. CASE m # <<>>
      BY <1>1, <2>2 DEF Greater
    <2>3. QED
      BY <2>1, <2>2
  <1>4. w = [i \in 1..b |-> IF i \in (a + 1)..b THEN m[i - a] ELSE IF i <= a THEN r[i] ELSE Hole]
    BY <1>1, <1>2, <1>3
  <1>5. ASSUME NEW i \in 1..b PROVE w[i] = s[i]
    <2>1. CASE i <= a
      BY <1>1, <1>4, <2>1
    <2>2. CASE i > a
      <3>1. i - a \in 1..(b - a) /\ a + (i - a) = i
        BY <1>1, <2>2
      <3>2. QED
        BY <1>1, <1>4, <2>2, <3>1
    <2>3. QED
      BY <1>1, <2>1, <2>2
  <1>6. DOMAIN w = 1..b
    BY <1>4
  <1>7. SubSeq(s, 1, b) = [i \in 1..b |-> s[i]]
    BY <1>1
  <1>8. w = [i \in 1..b |-> w[i]]
    BY <1>4
  <1>9. w = SubSeq(s, 1, b)
    BY <1>5, <1>7, <1>8
  <1>10. QED
    BY <1>9 DEF r, m, w

\* File f is, or was, the one that name n stands for.
Belongs(f, n) ==
  \/ f \in Names /\ f = n
  \/ f \in Calls /\ h[f].st # "wait" /\ c[f].op = "store" /\ c[f].name = n

\* A call that sends or receives a file.
Moves(k) == c[k].st \in {"send", "finish", "recv"}

\* A client makes one call at a time; a store writes to a file of its name.
OneCall == \A j, k \in Calls : Busy(j) /\ Busy(k) /\ Owner[j] = Owner[k] => j = k
Writers == \A j \in Calls : h[j].st = "store" /\ h[j].ino # NoFile => Belongs(h[j].ino, Name(j))

\* Nothing is sent before a call is made, nor by a handler that looks.
Blank(k) ==
  /\ c[k].st = "idle" => /\ ~c[k].opened /\ ~c[k].eof /\ c[k].off = 0
                         /\ up[k] = <<>> /\ down[k] = <<>>
  /\ h[k].st \in {"wait", "open"} => h[k].off = 0 /\ ~h[k].eof /\ down[k] = <<>>

\* A store: what is read, on its way, and there.
Stored(k) ==
  /\ h[k].st = "store" => /\ h[k].ino # NoFile /\ dir[Name(k)] = h[k].ino
                          /\ data[h[k].ino] = SubSeq(Mine(k), 1, h[k].off)
  /\ h[k].st = "over" => dir[Name(k)] # NoFile /\ data[dir[Name(k)]] = Mine(k)
Sends(k) ==
  c[k].st \in {"send", "finish"} /\ Owner[k] \notin Editors =>
    /\ Mine(k) # NoFile /\ c[k].size = Len(Mine(k)) /\ c[k].off <= c[k].size
    /\ c[k].eof \/ c[k].st = "finish" => c[k].off = c[k].size
    /\ k \notin expired =>
         /\ Pieces(up[k], Mine(k), h[k].off, c[k].off)
         /\ k \notin touched /\ Name(k) \notin Unwritable => Stored(k)

\* A fetch, of the file f.
Reads(k, f) ==
  /\ f # NoFile /\ h[k].size = Len(data[f]) /\ h[k].off <= h[k].size
  /\ h[k].st = "fetch" => h[k].ino = f
  /\ h[k].eof \/ h[k].st = "over" => h[k].off = h[k].size
  /\ Pieces(down[k], data[f], c[k].off, h[k].off)
  /\ c[k].opened /\ Owner[k] \notin Editors => Mine(k) = SubSeq(data[f], 1, c[k].off)
Fetches(k) ==
  c[k].st = "recv" /\ k \notin expired =>
    /\ ~c[k].opened /\ CanOpen(k) => c[k].off = 0
    /\ c[k].opened => CanOpen(k)
    /\ h[k].st \in {"wait", "open"} => ~c[k].opened /\ c[k].off = 0
    /\ k \notin touched /\ (h[k].st \in {"open", "fetch"} \/ h[k].status = "OK")
         => Reads(k, dir[Name(k)])

Goes(k) == Blank(k) /\ Sends(k) /\ Fetches(k)
WInv == DInv /\ OneCall /\ Writers /\ \A k \in Calls : Goes(k)

\* The parts of the types that whole files need.
LEMMA WholeTypes ==
  ASSUME TInv, NEW k \in Calls
  PROVE  /\ c \in [Calls -> ClientSide] /\ h \in [Calls -> HandlerSide]
         /\ c[k] \in ClientSide /\ h[k] \in HandlerSide
         /\ c[k].off \in Nat /\ h[k].off \in Nat /\ h[k].size \in Nat /\ c[k].size \in Nat
         /\ c[k].eof \in BOOLEAN /\ h[k].eof \in BOOLEAN
         /\ h[k].ino \in Files \cup {NoFile}
         /\ up \in Streams /\ down \in Streams
         /\ up[k] \in Seq(Seq(Byte)) /\ down[k] \in Seq(Seq(Byte))
         /\ dir \in [Names -> Files \cup {NoFile}]
         /\ data \in [Files -> Seq(Byte)] /\ local \in [Clients -> [Names -> Content]]
         /\ Role(k) /\ Owner[k] \in Clients
         /\ Moves(k) \/ (Busy(k) /\ c[k].op # "list") => Name(k) \in Names /\ c[k].name \in Names
         /\ cancelled \subseteq expired /\ touched \subseteq Calls
  <1>1. c \in [Calls -> ClientSide] /\ h \in [Calls -> HandlerSide]
    BY DEF TInv, TypeOK
  <1>2. c[k] \in ClientSide /\ h[k] \in HandlerSide
    BY <1>1
  <1>3. /\ c[k].off \in Nat /\ c[k].size \in Nat /\ c[k].eof \in BOOLEAN
        /\ h[k].off \in Nat /\ h[k].size \in Nat /\ h[k].eof \in BOOLEAN
        /\ h[k].ino \in Files \cup {NoFile}
    BY <1>2 DEF ClientSide, HandlerSide
  <1>4. /\ up \in Streams /\ down \in Streams
        /\ up[k] \in Seq(Seq(Byte)) /\ down[k] \in Seq(Seq(Byte))
    BY DEF TInv, TypeOK, Streams
  <1>5. Moves(k) \/ (Busy(k) /\ c[k].op # "list") => Name(k) \in Names /\ c[k].name \in Names
    BY DEF TInv, TypeOK, Roles, Role, Moves, Busy, Name
  <1>6. /\ dir \in [Names -> Files \cup {NoFile}]
        /\ data \in [Files -> Seq(Byte)] /\ local \in [Clients -> [Names -> Content]]
        /\ Role(k) /\ Owner[k] \in Clients /\ cancelled \subseteq expired /\ touched \subseteq Calls
    BY DfsAssumption DEF TInv, TypeOK, Roles
  <1>7. QED
    BY <1>1, <1>2, <1>3, <1>4, <1>5, <1>6

\* The bytes of k's own file have their type.
LEMMA MineType ==
  ASSUME TInv, NEW k \in Calls, c[k].st = "send" \/ (c[k].st = "recv" /\ c[k].opened)
  PROVE  Mine(k) \in Seq(Byte)
  <1>1. c[k].name \in Names /\ Owner[k] \in Clients /\ Role(k)
    BY WholeTypes DEF Moves, Role
  <1>2. Mine(k) # NoFile
    BY <1>1 DEF TInv, TypeOK, Role
  <1>3. QED
    BY <1>1, <1>2, WholeTypes DEF Mine, Content

\* A step of others keeps what is said of k: it does not change k, nor, unless
\* it is recorded in touched, the file of k's name.
LEMMA Bystander ==
  ASSUME WInv, NEW k \in Calls,
         c'[k] = c[k], h'[k] = h[k], up'[k] = up[k], down'[k] = down[k],
         expired \subseteq expired', touched \subseteq touched',
         Moves(k) /\ Owner[k] \notin Editors => Mine(k)' = Mine(k),
         Moves(k) /\ h[k].st # "wait" /\ k \notin touched' /\ dir[Name(k)] # NoFile =>
           dir'[Name(k)] = dir[Name(k)] /\ data'[dir[Name(k)]] = data[dir[Name(k)]]
  PROVE  Goes(k)'
  <1>1. Goes(k) /\ Pending(k)
    BY DEF WInv, DInv
  <1>2. Blank(k)'
    BY <1>1 DEF Goes, Blank
  <1>3. Name(k)' = Name(k)
    BY DEF Name
  <1>4. Sends(k)'
    <2> SUFFICES ASSUME c[k].st \in {"send", "finish"}, Owner[k] \notin Editors PROVE Sends(k)'
      BY DEF Sends
    <2>1. Moves(k) /\ Mine(k)' = Mine(k)
      BY DEF Moves
    <2>2. /\ Mine(k) # NoFile /\ c[k].size = Len(Mine(k)) /\ c[k].off <= c[k].size
          /\ c[k].eof \/ c[k].st = "finish" => c[k].off = c[k].size
          /\ k \notin expired =>
               /\ Pieces(up[k], Mine(k), h[k].off, c[k].off)
               /\ k \notin touched /\ Name(k) \notin Unwritable => Stored(k)
      BY <1>1 DEF Goes, Sends
    <2>3. ASSUME Stored(k), k \notin touched' PROVE Stored(k)'
      BY <1>3, <2>1, <2>3 DEF Stored
    <2>4. Pieces(up[k], Mine(k), h[k].off, c[k].off)
            => Pieces(up'[k], Mine(k)', h'[k].off, c'[k].off)
      BY <2>1
    <2>5. QED
      BY <1>3, <2>1, <2>2, <2>3, <2>4 DEF Sends
  <1>5. Fetches(k)'
    <2> SUFFICES ASSUME c[k].st = "recv", k \notin expired' PROVE Fetches(k)'
      BY DEF Fetches
    <2>1. Moves(k) /\ k \notin expired /\ (Owner[k] \notin Editors => Mine(k)' = Mine(k))
      BY DEF Moves
    <2>2. /\ ~c[k].opened /\ CanOpen(k) => c[k].off = 0
          /\ c[k].opened => CanOpen(k)
          /\ h[k].st \in {"wait", "open"} => ~c[k].opened /\ c[k].off = 0
      BY <1>1, <2>1 DEF Goes, Fetches
    <2>3. ASSUME k \notin touched', h[k].st \in {"open", "fetch"} \/ h[k].status = "OK"
          PROVE  Reads(k, dir[Name(k)])'
      <3> DEFINE f == dir[Name(k)]
      <3>1. Reads(k, f) /\ h[k].st # "wait"
        BY <1>1, <2>1, <2>3 DEF Goes, Fetches, Pending
      <3>2. dir'[Name(k)] = f /\ data'[f] = data[f]
        BY <2>1, <2>3, <3>1 DEF Reads
      <3> HIDE DEF f
      <3>3. Pieces(down[k], data[f], c[k].off, h[k].off)
              => Pieces(down'[k], data'[f], c'[k].off, h'[k].off)
        BY <3>2
      <3>4. QED
        BY <1>3, <2>1, <3>1, <3>2, <3>3 DEF Reads, f
    <2>4. QED
      BY <2>2, <2>3 DEF Fetches, CanOpen
  <1>6. QED
    BY <1>2, <1>4, <1>5 DEF Goes

-----------------------------------------------------------------------------
(* Files and their names                                                   *)

LEMMA BelongsOne ==
  ASSUME NEW f, NEW n, NEW m, Belongs(f, n), Belongs(f, m)
  PROVE  n = m
  BY DfsAssumption DEF Belongs

LEMMA BelongsStays ==
  ASSUME \A g \in Calls : h[g].st # "wait" =>
           h'[g].st # "wait" /\ c'[g].op = c[g].op /\ c'[g].name = c[g].name,
         NEW f, NEW n, Belongs(f, n)
  PROVE  Belongs(f, n)'
  BY DEF Belongs

LEMMA DirBelongs ==
  ASSUME WInv, NEW n \in Names, dir[n] # NoFile
  PROVE  dir[n] \in Files /\ Belongs(dir[n], n)
  <1>1. dir[n] \in Files
    BY DEF WInv, DInv, TInv, TypeOK
  <1>2. QED
    BY <1>1 DEF WInv, DInv, Inodes, Belongs, Files

\* What a handler that changes the disk changes.
LEMMA DiskSteps ==
  ASSUME NEW j \in Calls, HandlerStep(j)
  PROVE  \/ OpenStore(j) \/ StoreChunk(j) \/ Remove(j)
         \/ UNCHANGED <<disk, touched>>
  <1>1. CancelledAtStart(j) \/ Attrs(j) => UNCHANGED <<disk, touched>>
    BY DEF CancelledAtStart, Attrs
  <1>2. OpenList(j) \/ ListEntry(j) \/ ListCancelled(j) \/ ListDone(j) => UNCHANGED <<disk, touched>>
    BY DEF OpenList, ListEntry, ListCancelled, ListDone
  <1>3. StoreCancelled(j) \/ StoreDone(j) => UNCHANGED <<disk, touched>>
    BY DEF StoreCancelled, StoreDone
  <1>4. StatFetch(j) \/ OpenFetch(j) \/ FetchChunk(j) => UNCHANGED <<disk, touched>>
    BY DEF StatFetch, OpenFetch, FetchChunk
  <1>5. FetchCancelled(j) \/ FetchDone(j) \/ StatDelete(j) => UNCHANGED <<disk, touched>>
    BY DEF FetchCancelled, FetchDone, StatDelete
  <1>6. QED
    BY <1>1, <1>2, <1>3, <1>4, <1>5 DEF HandlerStep

\* A handler changes the file of another call's name only if that is recorded,
\* and records nothing of its own call.
LEMMA OthersFile ==
  ASSUME WInv, NEW j \in Calls, HandlerStep(j), NEW k \in Calls \ {j}, Moves(k),
         h[k].st # "wait", k \notin touched', dir[Name(k)] # NoFile
  PROVE  dir'[Name(k)] = dir[Name(k)] /\ data'[dir[Name(k)]] = data[dir[Name(k)]]
  <1> DEFINE n == Name(j)
             g == dir[Name(k)]
  <1>1. Name(k) \in Names /\ g \in Files /\ Belongs(g, Name(k))
    BY WholeTypes, DirBelongs DEF WInv, DInv
  <1>2. c[k].st # "over"
    BY DEF Moves
  <1>3. ASSUME Touch(j, n) PROVE n # Name(k)
    BY <1>2, <1>3 DEF Touch
  <1>4. /\ dir \in [Names -> Files \cup {NoFile}] /\ data \in [Files -> Seq(Byte)]
        /\ Role(j) /\ (c[j].st # "idle" /\ c[j].op # "list" => n \in Names)
    BY WholeTypes DEF WInv, DInv, TInv, TypeOK, Name
  <1>5. ASSUME NEW f, Belongs(f, n), n # Name(k) PROVE f # g
    BY <1>1, <1>5, BelongsOne
  <1>6. CASE OpenStore(j)
    <2> DEFINE f == IF n \in Unwritable THEN NoFile ELSE IF dir[n] = NoFile THEN j ELSE dir[n]
    <2>1. h[j].st = "wait" /\ n \in Names
      BY <1>4, <1>6 DEF OpenStore, Arrives, Busy
    <2>2. CASE f = NoFile
      BY <1>6, <2>2 DEF OpenStore, disk
    <2>3. CASE f # NoFile
      <3>1. /\ dir' = [dir EXCEPT ![n] = f] /\ data' = [data EXCEPT ![f] = <<>>]
            /\ Touch(j, n)
        BY <1>6, <2>3 DEF OpenStore
      <3>2. n # Name(k)
        BY <1>3, <3>1
      <3>3. f # g
        <4>1. CASE dir[n] = NoFile
          <5>1. g # j
            BY <1>1, <2>1, DfsAssumption DEF Belongs
          <5>2. QED
            BY <2>3, <4>1, <5>1
        <4>2. CASE dir[n] # NoFile
          BY <1>5, <2>1, <2>3, <3>2, <4>2, DirBelongs
        <4>3. QED
          BY <4>1, <4>2
      <3> HIDE DEF f
      <3>4. QED
        BY <1>1, <1>4, <3>1, <3>2, <3>3
    <2>4. QED
      BY <2>2, <2>3
  <1>7. CASE StoreChunk(j)
    <2> DEFINE f == h[j].ino
    <2>1. h[j].st = "store" /\ dir' = dir
      BY <1>7 DEF StoreChunk
    <2>2. CASE f = NoFile
      BY <1>7, <2>1, <2>2 DEF StoreChunk
    <2>3. CASE f # NoFile
      <3>1. \E w : data' = [data EXCEPT ![f] = w]
        BY <1>7, <2>3 DEF StoreChunk
      <3>2. Touch(j, n)
        BY <1>7, <2>3 DEF StoreChunk
      <3>3. f # g
        BY <1>3, <1>5, <2>1, <2>3, <3>2 DEF WInv, Writers
      <3>4. QED
        BY <1>1, <1>4, <2>1, <3>1, <3>3
    <2>4. QED
      BY <2>2, <2>3
  <1>8. CASE Remove(j)
    <2>1. data' = data
      BY <1>8 DEF Remove
    <2>2. CASE dir[n] = NoFile
      BY <1>8, <2>1, <2>2 DEF Remove
    <2>3. CASE dir[n] # NoFile
      <3>1. dir' = [dir EXCEPT ![n] = NoFile] /\ Touch(j, n)
        BY <1>8, <2>3 DEF Remove
      <3>2. QED
        BY <1>1, <1>3, <1>4, <2>1, <3>1
    <2>4. QED
      BY <2>2, <2>3
  <1>9. CASE UNCHANGED <<disk, touched>>
    BY <1>9 DEF disk
  <1>10. QED
    BY <1>6, <1>7, <1>8, <1>9, DiskSteps

LEMMA TouchedOthers ==
  ASSUME NEW j \in Calls, HandlerStep(j)
  PROVE  touched \subseteq touched' /\ (j \in touched' => j \in touched)
  <1>1. ASSUME NEW n, Touch(j, n) PROVE touched \subseteq touched' /\ (j \in touched' => j \in touched)
    BY <1>1 DEF Touch
  <1>2. OpenStore(j) => touched' = touched \/ Touch(j, Name(j))
    BY DEF OpenStore
  <1>3. StoreChunk(j) => touched' = touched \/ Touch(j, Name(j))
    BY DEF StoreChunk
  <1>4. Remove(j) => touched' = touched \/ Touch(j, Name(j))
    BY DEF Remove
  <1>5. QED
    BY <1>1, <1>2, <1>3, <1>4, DiskSteps

\* What a handler leaves of others, and of the clients.
LEMMA HandlerAlone ==
  ASSUME NEW j \in Calls, HandlerStep(j), TInv
  PROVE  /\ UNCHANGED <<c, local, expired, cancelled>> /\ h'[j].st # "wait"
         /\ \A k \in Calls \ {j} : h'[k] = h[k] /\ up'[k] = up[k] /\ down'[k] = down[k]
         /\ h[j].st = "wait" => Busy(j) \/ c[j].st = "over"
  <1>1. /\ up \in Streams /\ down \in Streams /\ h \in [Calls -> HandlerSide]
        /\ h[j] \in HandlerSide
    BY WholeTypes
  <1>2. CASE CancelledAtStart(j)
    BY <1>1, <1>2 DEF CancelledAtStart, Return, HandlerSide, Arrives
  <1>3. CASE Attrs(j)
    BY <1>1, <1>3 DEF Attrs, HandlerSide, Arrives
  <1>4. CASE OpenList(j)
    BY <1>1, <1>4 DEF OpenList, HandlerSide, Arrives
  <1>5. CASE ListEntry(j)
    BY <1>1, <1>5 DEF ListEntry, HandlerSide
  <1>6. CASE ListCancelled(j) \/ ListDone(j)
    BY <1>1, <1>6 DEF ListCancelled, ListDone, Return, HandlerSide
  <1>7. CASE OpenStore(j)
    <2>1. PICK f : h' = [h EXCEPT ![j].st = "store", ![j].ino = f]
      BY <1>7 DEF OpenStore
    <2>2. QED
      BY <1>1, <1>7, <2>1 DEF OpenStore, HandlerSide, Arrives
  <1>8. CASE StoreChunk(j)
    <2>1. PICK m : h' = [h EXCEPT ![j].off = @ + Len(m)]
      BY <1>8 DEF StoreChunk
    <2>2. up' = [up EXCEPT ![j] = Tail(@)] /\ UNCHANGED <<c, local, expired, cancelled, down>>
      BY <1>8 DEF StoreChunk
    <2>3. QED
      BY <1>1, <1>8, <2>1, <2>2 DEF StoreChunk, HandlerSide, Streams
  <1>9. CASE StoreCancelled(j) \/ StoreDone(j)
    BY <1>1, <1>9 DEF StoreCancelled, StoreDone, Return, HandlerSide
  <1>10. CASE StatFetch(j)
    BY <1>1, <1>10 DEF StatFetch, HandlerSide, Arrives
  <1>11. CASE OpenFetch(j)
    <2>1. PICK f, e : h' = [h EXCEPT ![j].st = "fetch", ![j].ino = f, ![j].eof = e]
      BY <1>11 DEF OpenFetch
    <2>2. QED
      BY <1>1, <1>11, <2>1 DEF OpenFetch, HandlerSide
  <1>12. CASE FetchChunk(j)
    <2>1. PICK m : /\ down' = Written(down, j, m)
                   /\ h' = [h EXCEPT ![j].off = @ + Len(m), ![j].eof = @ \/ Len(m) < Chunk]
      BY <1>12 DEF FetchChunk
    <2>2. \A k \in Calls \ {j} : down'[k] = down[k]
      BY <1>1, <2>1 DEF Written, Streams
    <2>3. QED
      BY <1>1, <1>12, <2>1, <2>2 DEF FetchChunk, HandlerSide
  <1>13. CASE FetchCancelled(j) \/ FetchDone(j)
    BY <1>1, <1>13 DEF FetchCancelled, FetchDone, Return, HandlerSide
  <1>14. CASE StatDelete(j)
    BY <1>1, <1>14 DEF StatDelete, HandlerSide, Arrives
  <1>15. CASE Remove(j)
    BY <1>1, <1>15 DEF Remove, HandlerSide
  <1>16. QED
    BY <1>2, <1>3, <1>4, <1>5, <1>6, <1>7, <1>8, <1>9, <1>10, <1>11, <1>12, <1>13, <1>14, <1>15
       DEF HandlerStep

-----------------------------------------------------------------------------
(* The handlers of whole files                                             *)

\* Where a handler can come from.
LEMMA HandlerGoesOn ==
  ASSUME TInv, NEW k \in Calls, HandlerStep(k)
  PROVE  /\ h'[k].st = "open" => StatFetch(k)
         /\ h'[k].st = "store" => OpenStore(k) \/ StoreChunk(k)
  <1>1. h \in [Calls -> HandlerSide] /\ h[k] \in HandlerSide
    BY WholeTypes
  <1>2. ASSUME OpenStore(k) PROVE h'[k].st = "store"
    <2>1. PICK f : h' = [h EXCEPT ![k].st = "store", ![k].ino = f]
      BY <1>2 DEF OpenStore
    <2>2. QED
      BY <1>1, <2>1 DEF HandlerSide
  <1>3. ASSUME OpenFetch(k) PROVE h'[k].st = "fetch"
    <2>1. PICK f, e : h' = [h EXCEPT ![k].st = "fetch", ![k].ino = f, ![k].eof = e]
      BY <1>3 DEF OpenFetch
    <2>2. QED
      BY <1>1, <2>1 DEF HandlerSide
  <1>4. ASSUME StoreChunk(k) PROVE h'[k].st = "store"
    <2>1. PICK m : h' = [h EXCEPT ![k].off = @ + Len(m)]
      BY <1>4 DEF StoreChunk
    <2>2. QED
      BY <1>1, <1>4, <2>1 DEF StoreChunk, HandlerSide
  <1>5. ASSUME FetchChunk(k) PROVE h'[k].st = "fetch"
    <2>1. PICK m : h' = [h EXCEPT ![k].off = @ + Len(m), ![k].eof = @ \/ Len(m) < Chunk]
      BY <1>5 DEF FetchChunk
    <2>2. QED
      BY <1>1, <1>5, <2>1 DEF FetchChunk, HandlerSide
  <1>6. ASSUME Attrs(k) PROVE h'[k].st = "over"
    BY <1>1, <1>6 DEF Attrs, HandlerSide
  <1>7. ASSUME StatDelete(k) PROVE h'[k].st = "over" \/ h'[k].st = "remove"
    <2>1. CASE dir[Name(k)] = NoFile
      BY <1>1, <1>7, <2>1 DEF StatDelete, HandlerSide
    <2>2. CASE dir[Name(k)] # NoFile
      BY <1>1, <1>7, <2>2 DEF StatDelete, HandlerSide
    <2>3. QED
      BY <2>1, <2>2
  <1>8. ASSUME StatFetch(k) PROVE h'[k].st = "over" \/ h'[k].st = "open"
    <2>1. CASE dir[Name(k)] = NoFile
      BY <1>1, <1>8, <2>1 DEF StatFetch, HandlerSide
    <2>2. CASE dir[Name(k)] # NoFile
      BY <1>1, <1>8, <2>2 DEF StatFetch, HandlerSide
    <2>3. QED
      BY <2>1, <2>2
  <1>9. ASSUME OpenList(k) PROVE h'[k].st = "list"
    BY <1>1, <1>9 DEF OpenList, HandlerSide
  <1>10. ASSUME ListEntry(k) PROVE h'[k].st = "list"
    <2>1. PICK t, i : h' = [h EXCEPT ![k].todo = t, ![k].items = i]
      BY <1>10 DEF ListEntry
    <2>2. h[k].st = "list"
      BY <1>10 DEF ListEntry
    <2>3. QED
      BY <1>1, <2>1, <2>2 DEF HandlerSide
  <1>11. ASSUME Remove(k) PROVE h'[k].st = "over"
    BY <1>1, <1>11 DEF Remove, HandlerSide
  <1>12. ASSUME NEW s, Return(k, s) PROVE h'[k].st = "over"
    BY <1>1, <1>12 DEF Return, HandlerSide
  <1>13. \/ CancelledAtStart(k) \/ ListCancelled(k) \/ ListDone(k) \/ StoreCancelled(k)
         \/ StoreDone(k) \/ FetchCancelled(k) \/ FetchDone(k)
         => h'[k].st = "over"
    BY <1>12
    DEF CancelledAtStart, ListCancelled, ListDone, StoreCancelled, StoreDone, FetchCancelled, FetchDone
  <1>14. QED
    BY <1>2, <1>3, <1>4, <1>5, <1>6, <1>7, <1>8, <1>9, <1>10, <1>11, <1>13 DEF HandlerStep

LEMMA HandlerBlank ==
  ASSUME WInv, NEW k \in Calls, HandlerStep(k)
  PROVE  Blank(k)'
  <1>1. UNCHANGED c /\ c[k].st # "idle" /\ h'[k].st # "wait"
    BY HandlerAlone, WholeTypes DEF WInv, DInv, Role, Busy
  <1>2. CASE StatFetch(k)
    <2>1. h[k].st = "wait" /\ down' = down /\ h[k] \in HandlerSide /\ h \in [Calls -> HandlerSide]
      BY <1>2, WholeTypes DEF StatFetch, Arrives, WInv, DInv
    <2>2. h[k].off = 0 /\ ~h[k].eof /\ down[k] = <<>>
      BY <2>1 DEF WInv, Goes, Blank
    <2>3. h'[k].off = h[k].off /\ h'[k].eof = h[k].eof
      BY <1>2, <2>1 DEF StatFetch, HandlerSide
    <2>4. QED
      BY <1>1, <2>1, <2>2, <2>3 DEF Blank
  <1>3. CASE ~StatFetch(k)
    BY <1>1, <1>3, HandlerGoesOn DEF Blank, WInv, DInv
  <1>4. QED
    BY <1>2, <1>3

\* A handler that stores keeps to its file.
LEMMA StoreFlow ==
  ASSUME WInv, NEW k \in Calls, HandlerStep(k), c[k].st \in {"send", "finish"}
  PROVE  Sends(k)'
  <1> DEFINE L == Mine(k)
             n == Name(k)
  <1>1. /\ c[k].op = "store" /\ n \in Names /\ h \in [Calls -> HandlerSide] /\ h[k] \in HandlerSide
        /\ h[k].off \in Nat /\ up[k] \in Seq(Seq(Byte)) /\ up \in Streams
        /\ dir \in [Names -> Files \cup {NoFile}] /\ data \in [Files -> Seq(Byte)]
        /\ local \in [Clients -> [Names -> Content]] /\ Owner[k] \in Clients
        /\ cancelled \subseteq expired /\ h[k].ino \in Files \cup {NoFile}
    BY WholeTypes DEF WInv, DInv, Role, Moves
  <1>2. UNCHANGED <<c, local, expired>> /\ (k \notin touched' <=> k \notin touched)
    BY HandlerAlone, TouchedOthers DEF WInv, DInv
  <1>3. L' = L /\ n' = n
    BY <1>2 DEF Mine, Name
  <1>4. OpenStore(k) \/ StoreChunk(k) \/ StoreCancelled(k) \/ StoreDone(k)
    BY <1>1, WholeTypes
    DEF WInv, DInv, Role, HandlerStep, CancelledAtStart, Attrs, Arrives, OpenList, ListEntry,
        ListCancelled, ListDone, StatFetch, OpenFetch, FetchChunk, FetchCancelled, FetchDone,
        StatDelete, Remove
  <1> SUFFICES ASSUME Owner[k] \notin Editors PROVE Sends(k)'
    BY <1>2 DEF Sends
  <1>5. /\ L # NoFile /\ c[k].size = Len(L) /\ c[k].off <= c[k].size
        /\ c[k].eof \/ c[k].st = "finish" => c[k].off = c[k].size
        /\ k \notin expired =>
             /\ Pieces(up[k], L, h[k].off, c[k].off)
             /\ k \notin touched /\ n \notin Unwritable => Stored(k)
    BY DEF WInv, Goes, Sends
  <1>6. L \in Seq(Byte) /\ Len(L) \in Nat
    BY <1>1, <1>5 DEF Mine, Name, Content
  <1>7. SUFFICES ASSUME k \notin expired
                 PROVE  /\ Pieces(up'[k], L, h'[k].off, c[k].off)
                        /\ k \notin touched /\ n \notin Unwritable => Stored(k)'
    BY <1>2, <1>3, <1>5 DEF Sends
  <1> HIDE DEF L, n
  <1>8. CASE OpenStore(k)
    <2> DEFINE f == IF n \in Unwritable THEN NoFile ELSE IF dir[n] = NoFile THEN k ELSE dir[n]
    <2>1. h[k].st = "wait" /\ h' = [h EXCEPT ![k].st = "store", ![k].ino = f] /\ up' = up
      BY <1>8 DEF OpenStore, Arrives, n
    <2>2. f # NoFile => dir' = [dir EXCEPT ![n] = f] /\ data' = [data EXCEPT ![f] = <<>>]
      BY <1>8 DEF OpenStore, n
    <2>3. n \notin Unwritable => f # NoFile /\ f \in Files
      BY <1>1, DfsAssumption DEF Files
    <2> HIDE DEF f
    <2>4. h'[k].st = "store" /\ h'[k].ino = f /\ h'[k].off = h[k].off
      BY <1>1, <2>1 DEF HandlerSide
    <2>5. h[k].off = 0
      BY <2>1 DEF WInv, Goes, Blank
    <2>6. SubSeq(L, 1, 0) = <<>>
      BY <1>6, SubSeqEmpty
    <2>7. ASSUME n \notin Unwritable PROVE Stored(k)'
      <3>1. f \in Files /\ f # NoFile /\ dir'[n] = f /\ data'[f] = <<>>
        BY <1>1, <2>2, <2>3, <2>7
      <3>2. dir'[n] = h'[k].ino /\ data'[h'[k].ino] = SubSeq(L, 1, h'[k].off)
        BY <2>4, <2>5, <2>6, <3>1
      <3>3. QED
        BY <1>3, <2>4, <3>1, <3>2 DEF Stored, L, n
    <2>8. QED
      BY <1>7, <1>5, <2>1, <2>4, <2>7
  <1>9. CASE StoreChunk(k)
    <2> DEFINE m == Head(up[k])
               o == h[k].off
               e == o + Len(m)
               f == h[k].ino
    <2>1. /\ h[k].st = "store" /\ up[k] # <<>> /\ h' = [h EXCEPT ![k].off = @ + Len(m)]
          /\ up' = [up EXCEPT ![k] = Tail(@)] /\ dir' = dir
      BY <1>9 DEF StoreChunk
    <2>2. h'[k].st = "store" /\ h'[k].ino = f /\ h'[k].off = e
      BY <1>1, <2>1 DEF HandlerSide
    <2>3. e \in o..Len(L) /\ m = SubSeq(L, o + 1, e) /\ Pieces(Tail(up[k]), L, e, c[k].off)
      BY <1>1, <1>5, <1>6, <1>7, <2>1, PiecesTake
    <2>4. up'[k] = Tail(up[k])
      BY <1>1, <2>1 DEF Streams
    <2>5. ASSUME k \notin touched, n \notin Unwritable PROVE Stored(k)'
      <3>1. f # NoFile /\ dir[n] = f /\ data[f] = SubSeq(L, 1, o)
        BY <1>5, <1>7, <2>1, <2>5 DEF Stored, L, n
      <3>2. data' = [data EXCEPT ![f] = WriteAt(data[f], o, m)]
        BY <1>9, <3>1 DEF StoreChunk
      <3>3. data'[f] = WriteAt(data[f], o, m)
        BY <1>1, <3>1, <3>2
      <3> HIDE DEF m, e, o, f
      <3>4. o \in Nat
        BY <1>1 DEF o
      <3>5. data'[f] = SubSeq(L, 1, e)
        BY <1>6, <2>3, <3>1, <3>3, <3>4, WriteOn
      <3>6. QED
        BY <1>3, <2>1, <2>2, <3>1, <3>5 DEF Stored, L, n
    <2> HIDE DEF m, e, o, f
    <2>6. QED
      BY <2>2, <2>3, <2>4, <2>5
  <1>10. CASE StoreCancelled(k)
    BY <1>1, <1>7, <1>10 DEF StoreCancelled, IsCancelled
  <1>11. CASE StoreDone(k)
    <2>1. /\ h[k].st = "store" /\ h' = [h EXCEPT ![k].st = "over", ![k].status = "OK"]
          /\ UNCHANGED <<disk, up>> /\ up[k] = <<>> /\ c[k].st = "finish"
      BY <1>1, <1>7, <1>11 DEF StoreDone, Return
    <2>2. h'[k].st = "over" /\ h'[k].off = h[k].off
      BY <1>1, <2>1 DEF HandlerSide
    <2>3. h[k].off = c[k].off
      BY <1>5, <1>7, <2>1, PiecesEnd
    <2>4. h[k].off = Len(L)
      BY <1>5, <2>1, <2>3
    <2>5. ASSUME k \notin touched, n \notin Unwritable PROVE Stored(k)'
      <3>1. dir[n] # NoFile /\ data[dir[n]] = SubSeq(L, 1, Len(L))
        BY <1>5, <1>7, <2>1, <2>4, <2>5 DEF Stored, L, n
      <3>2. data[dir[n]] = L
        BY <1>6, <3>1, SubSeqFull
      <3>3. QED
        BY <1>3, <2>1, <2>2, <3>1, <3>2 DEF Stored, disk, L, n
    <2>6. QED
      BY <1>5, <1>7, <2>1, <2>2, <2>5
  <1>12. QED
    BY <1>4, <1>8, <1>9, <1>10, <1>11

\* So does one that fetches.
LEMMA FetchFlow ==
  ASSUME WInv, NEW k \in Calls, HandlerStep(k), c[k].st = "recv"
  PROVE  Fetches(k)'
  <1> DEFINE n == Name(k)
             f == dir[n]
  <1>1. /\ c[k].op = "fetch" /\ n \in Names /\ h \in [Calls -> HandlerSide] /\ h[k] \in HandlerSide
        /\ h[k].off \in Nat /\ h[k].size \in Nat /\ h[k].eof \in BOOLEAN /\ c[k].off \in Nat
        /\ down[k] \in Seq(Seq(Byte)) /\ down \in Streams
        /\ dir \in [Names -> Files \cup {NoFile}] /\ data \in [Files -> Seq(Byte)]
        /\ cancelled \subseteq expired
    BY WholeTypes DEF WInv, DInv, Role, Moves
  <1>2. UNCHANGED <<c, local, expired>> /\ (k \notin touched' <=> k \notin touched)
    BY HandlerAlone, TouchedOthers DEF WInv, DInv
  <1>3. n' = n /\ Mine(k)' = Mine(k)
    BY <1>2 DEF Mine, Name
  <1>4. StatFetch(k) \/ OpenFetch(k) \/ FetchChunk(k) \/ FetchCancelled(k) \/ FetchDone(k)
    BY <1>1, WholeTypes
    DEF WInv, DInv, Role, HandlerStep, CancelledAtStart, Attrs, Arrives, OpenList, ListEntry,
        ListCancelled, ListDone, StatDelete, OpenStore, StoreChunk, StoreCancelled, StoreDone, Remove
  <1>5. UNCHANGED disk
    BY <1>4 DEF StatFetch, OpenFetch, FetchChunk, FetchCancelled, FetchDone
  <1>6. f' = f /\ data' = data
    BY <1>3, <1>5 DEF disk
  <1>7. SUFFICES ASSUME k \notin expired PROVE Fetches(k)'
    BY <1>2 DEF Fetches
  <1>8. /\ ~c[k].opened /\ CanOpen(k) => c[k].off = 0
        /\ c[k].opened => CanOpen(k)
        /\ h[k].st \in {"wait", "open"} => ~c[k].opened /\ c[k].off = 0
        /\ k \notin touched /\ (h[k].st \in {"open", "fetch"} \/ h[k].status = "OK") => Reads(k, f)
        /\ h[k].st \in {"wait", "open"} => h[k].off = 0 /\ ~h[k].eof /\ down[k] = <<>>
        /\ h[k].st # "over" => h[k].status = "none"
    BY <1>7 DEF WInv, DInv, Goes, Fetches, Blank, Pending
  <1>9. SUFFICES ASSUME k \notin touched, h'[k].st \in {"open", "fetch"} \/ h'[k].status = "OK"
                 PROVE  Reads(k, f)'
    <2>1. h'[k].st = "open" => h[k].st = "wait"
      BY HandlerGoesOn DEF WInv, DInv, StatFetch, Arrives
    <2>2. h'[k].st # "wait"
      BY HandlerAlone DEF WInv, DInv
    <2>3. ASSUME k \notin touched', h'[k].st \in {"open", "fetch"} \/ h'[k].status = "OK"
          PROVE  Reads(k, dir[Name(k)])'
      BY <1>2, <1>9, <2>3
    <2>4. QED
      BY <1>2, <1>8, <2>1, <2>2, <2>3 DEF Fetches, CanOpen
  <1> HIDE DEF n, f
  <1>10. CASE StatFetch(k)
    <2>1. /\ h[k].st = "wait" /\ down' = down
          /\ h' = [h EXCEPT ![k] = IF f = NoFile THEN [@ EXCEPT !.st = "over", !.status = "NOT_FOUND"]
                                   ELSE [@ EXCEPT !.st = "open", !.size = Len(data[f])]]
      BY <1>10 DEF StatFetch, Arrives, n, f
    <2>2. f # NoFile
      <3>1. SUFFICES ASSUME f = NoFile PROVE FALSE
        OBVIOUS
      <3>2. h'[k].st = "over" /\ h'[k].status = "NOT_FOUND"
        BY <1>1, <2>1, <3>1 DEF HandlerSide
      <3>3. QED
        BY <1>9, <3>2
    <2>3. /\ h'[k].st = "open" /\ h'[k].size = Len(data[f]) /\ h'[k].off = h[k].off
          /\ h'[k].eof = h[k].eof
      BY <1>1, <2>1, <2>2 DEF HandlerSide
    <2>4. h[k].off = 0 /\ ~h[k].eof /\ down[k] = <<>> /\ ~c[k].opened /\ c[k].off = 0
      BY <1>8, <2>1
    <2>5. f \in Files /\ data[f] \in Seq(Byte)
      BY <1>1, <2>2 DEF f
    <2>6. Len(data[f]) \in Nat /\ 0 \in 0..Len(data[f])
      BY <2>5
    <2>7. Pieces(down'[k], data[f], c[k].off, h'[k].off)
      BY <2>1, <2>3, <2>4, <2>5, <2>6, PiecesNone
    <2>8. QED
      BY <1>2, <1>6, <2>2, <2>3, <2>4, <2>6, <2>7 DEF Reads
  <1>11. CASE OpenFetch(k)
    <2>1. /\ h[k].st = "open" /\ down' = down
          /\ h' = [h EXCEPT ![k].st = "fetch", ![k].ino = f, ![k].eof = (f = NoFile)]
      BY <1>11 DEF OpenFetch, n, f
    <2>2. Reads(k, f)
      BY <1>8, <1>9, <2>1
    <2>3. /\ h'[k].st = "fetch" /\ h'[k].ino = f /\ h'[k].size = h[k].size /\ h'[k].off = h[k].off
          /\ h'[k].eof = (f = NoFile)
      BY <1>1, <2>1 DEF HandlerSide
    <2>4. Pieces(down'[k], data[f], c[k].off, h'[k].off)
      BY <2>1, <2>2, <2>3 DEF Reads
    <2>5. QED
      BY <1>2, <1>3, <1>6, <2>2, <2>3, <2>4 DEF Reads
  <1>12. CASE FetchChunk(k)
    <2> DEFINE o == h[k].off
               m == IF h[k].eof THEN <<>> ELSE ReadAt(data[h[k].ino], o)
               e == o + Len(m)
    <2>1. /\ h[k].st = "fetch" /\ h[k].off < h[k].size /\ down' = [down EXCEPT ![k] = Append(@, m)]
          /\ h' = [h EXCEPT ![k].off = @ + Len(m), ![k].eof = @ \/ Len(m) < Chunk]
      BY <1>7, <1>12 DEF FetchChunk, MoreToFetch, Written
    <2>2. Reads(k, f)
      BY <1>8, <1>9, <2>1
    <2>3. ~h[k].eof /\ h[k].ino = f /\ h[k].size = Len(data[f]) /\ f \in Files /\ data[f] \in Seq(Byte)
      BY <1>1, <2>1, <2>2 DEF Reads, f
    <2>4. m = ReadAt(data[f], o)
      BY <2>3
    <2> HIDE DEF m
    <2>5. o \in Nat /\ o < Len(data[f])
      BY <1>1, <2>1, <2>3
    <2>6. /\ Len(m) \in Nat \ {0} /\ o + Len(m) <= Len(data[f])
          /\ m = SubSeq(data[f], o + 1, o + Len(m))
          /\ Len(m) < Chunk => o + Len(m) = Len(data[f])
      BY <2>3, <2>4, <2>5, ReadOn
    <2>7. /\ h'[k].st = "fetch" /\ h'[k].ino = f /\ h'[k].size = h[k].size /\ h'[k].off = e
          /\ h'[k].eof = (h[k].eof \/ Len(m) < Chunk)
      BY <1>1, <2>1, <2>3 DEF HandlerSide
    <2>8. down'[k] = Append(down[k], m)
      BY <1>1, <2>1 DEF Streams
    <2>9. e \in o..Len(data[f]) /\ (Len(m) < Chunk => e = Len(data[f]))
      BY <2>3, <2>5, <2>6
    <2>10. Pieces(down[k], data[f], c[k].off, o)
      BY <2>2 DEF Reads
    <2> HIDE DEF o, e
    <2>11. m = SubSeq(data[f], o + 1, e)
      BY <2>6 DEF e
    <2>12. Pieces(down'[k], data[f], c[k].off, e)
      BY <1>1, <2>3, <2>5, <2>8, <2>9, <2>10, <2>11, PiecesAdd
    <2>13. h'[k].off <= h'[k].size /\ (h'[k].eof => h'[k].off = h'[k].size)
      <3>1. h'[k].eof => Len(m) < Chunk
        BY <2>3, <2>7
      <3>2. e = Len(data[f]) \/ (Len(m) >= Chunk /\ e <= Len(data[f]))
        BY <2>5, <2>6, <2>9, DfsAssumption
      <3>3. QED
        BY <2>3, <2>5, <2>6, <2>7, <2>9, <3>1, <3>2, DfsAssumption
    <2>14. QED
      BY <1>2, <1>3, <1>6, <2>2, <2>3, <2>7, <2>12, <2>13 DEF Reads
  <1>13. CASE FetchCancelled(k)
    BY <1>1, <1>7, <1>13 DEF FetchCancelled, IsCancelled
  <1>14. CASE FetchDone(k)
    <2>1. /\ h[k].st = "fetch" /\ ~(h[k].off < h[k].size) /\ down' = down
          /\ h' = [h EXCEPT ![k].st = "over", ![k].status = "OK"]
      BY <1>14 DEF FetchDone, MoreToFetch, Return
    <2>2. Reads(k, f)
      BY <1>8, <1>9, <2>1
    <2>3. /\ h'[k].st = "over" /\ h'[k].size = h[k].size /\ h'[k].off = h[k].off
          /\ h'[k].eof = h[k].eof
      BY <1>1, <2>1 DEF HandlerSide
    <2>4. h[k].off = h[k].size
      BY <1>1, <2>1, <2>2 DEF Reads
    <2>5. Pieces(down'[k], data[f], c[k].off, h'[k].off)
      BY <2>1, <2>2, <2>3 DEF Reads
    <2>6. QED
      BY <1>2, <1>3, <1>6, <2>2, <2>3, <2>4, <2>5 DEF Reads
  <1>15. QED
    BY <1>4, <1>10, <1>11, <1>12, <1>13, <1>14

\* What a handler does keeps all files whole, its own call's and the others'.
LEMMA HandlerWhole ==
  ASSUME WInv, NEW j \in Calls, HandlerStep(j)
  PROVE  OneCall' /\ Writers' /\ \A k \in Calls : Goes(k)'
  <1>1. /\ UNCHANGED <<c, local, expired, cancelled>> /\ h'[j].st # "wait"
        /\ \A k \in Calls \ {j} : h'[k] = h[k] /\ up'[k] = up[k] /\ down'[k] = down[k]
        /\ h[j].st = "wait" => Busy(j) \/ c[j].st = "over"
    BY HandlerAlone DEF WInv, DInv
  <1>2. touched \subseteq touched'
    BY TouchedOthers
  <1>3. OneCall'
    BY <1>1 DEF OneCall, Busy, WInv
  <1>4. Writers'
    <2>1. \A g \in Calls : h[g].st # "wait" =>
            h'[g].st # "wait" /\ c'[g].op = c[g].op /\ c'[g].name = c[g].name
      BY <1>1
    <2>2. ASSUME NEW i \in Calls, h'[i].st = "store", h'[i].ino # NoFile
          PROVE  Belongs(h[i].ino, Name(i))'
      <3>1. ASSUME NEW f, Belongs(f, Name(i)) PROVE Belongs(f, Name(i))'
        <4>1. Name(i)' = Name(i)
          BY <1>1 DEF Name
        <4>2. QED
          BY <2>1, <3>1, <4>1 DEF Belongs
      <3>2. CASE i # j
        <4>1. h'[i] = h[i]
          BY <1>1, <3>2
        <4>2. Belongs(h[i].ino, Name(i))
          BY <2>2, <4>1 DEF WInv, Writers
        <4>3. QED
          BY <3>1, <4>1, <4>2
      <3>3. CASE i = j /\ OpenStore(i)
        <4> DEFINE n == Name(i)
                   f == IF n \in Unwritable THEN NoFile ELSE IF dir[n] = NoFile THEN i ELSE dir[n]
        <4>1. h' = [h EXCEPT ![i].st = "store", ![i].ino = f] /\ c[i].st # "idle" /\ c[i].op = "store"
          BY <3>3 DEF OpenStore, Arrives, Busy
        <4>2. h \in [Calls -> HandlerSide] /\ h[i] \in HandlerSide /\ n \in Names
          BY <4>1, WholeTypes DEF WInv, DInv, TInv, TypeOK, Name
        <4>3. h'[i].ino = f
          BY <4>1, <4>2 DEF HandlerSide
        <4>4. CASE dir[n] = NoFile
          <5>1. h'[i].ino = i
            BY <2>2, <4>3, <4>4
          <5>2. QED
            BY <1>1, <2>2, <4>1, <5>1 DEF Belongs, Name
        <4>5. CASE dir[n] # NoFile
          <5>1. h'[i].ino = dir[n]
            BY <2>2, <4>3, <4>5
          <5>2. QED
            BY <3>1, <4>2, <4>5, <5>1, DirBelongs
        <4>6. QED
          BY <4>4, <4>5
      <3>4. CASE i = j /\ StoreChunk(i)
        <4>1. PICK m : h' = [h EXCEPT ![i].off = @ + Len(m)] /\ h[i].st = "store"
          BY <3>4 DEF StoreChunk
        <4>2. h \in [Calls -> HandlerSide] /\ h[i] \in HandlerSide
          BY WholeTypes DEF WInv, DInv
        <4>3. h'[i].ino = h[i].ino
          BY <4>1, <4>2 DEF HandlerSide
        <4>4. Belongs(h[i].ino, Name(i))
          BY <2>2, <4>1, <4>3 DEF WInv, Writers
        <4>5. QED
          BY <3>1, <4>3, <4>4
      <3>5. QED
        BY <2>2, <3>2, <3>3, <3>4, HandlerGoesOn DEF WInv, DInv
    <2>3. QED
      BY <2>2 DEF Writers
  <1>5. Goes(j)'
    <2>1. c[j].st \in {"send", "finish"} => Sends(j)'
      BY StoreFlow
    <2>2. c[j].st = "recv" => Fetches(j)'
      BY FetchFlow
    <2>3. QED
      BY <1>1, <2>1, <2>2, HandlerBlank DEF Goes, Sends, Fetches
  <1>6. ASSUME NEW k \in Calls \ {j} PROVE Goes(k)'
    <2>1. c'[k] = c[k] /\ h'[k] = h[k] /\ up'[k] = up[k] /\ down'[k] = down[k]
          /\ expired \subseteq expired'
      BY <1>1
    <2>2. Mine(k)' = Mine(k)
      BY <1>1 DEF Mine
    <2>3. Moves(k) /\ h[k].st # "wait" /\ k \notin touched' /\ dir[Name(k)] # NoFile =>
            dir'[Name(k)] = dir[Name(k)] /\ data'[dir[Name(k)]] = data[dir[Name(k)]]
      BY OthersFile
    <2>4. QED
      BY <1>2, <2>1, <2>2, <2>3, Bystander
  <1>7. QED
    BY <1>3, <1>4, <1>5, <1>6

-----------------------------------------------------------------------------
(* The clients of whole files                                              *)

\* A step of client k that keeps the files and their handlers keeps the others.
LEMMA ClientAlone ==
  ASSUME WInv, NEW k \in Calls, UNCHANGED <<disk, h, touched, expired>>,
         \A j \in Calls \ {k} : c'[j] = c[j] /\ up'[j] = up[j] /\ down'[j] = down[j],
         c[k].op # c'[k].op \/ c[k].name # c'[k].name => c[k].st = "idle",
         \A j \in Calls \ {k} : Moves(j) => Mine(j)' = Mine(j)
  PROVE  Writers' /\ \A j \in Calls \ {k} : Goes(j)'
  <1>1. \A g \in Calls : h[g].st # "wait" =>
          h'[g].st # "wait" /\ c'[g].op = c[g].op /\ c'[g].name = c[g].name
    <2>1. c[k].st = "idle" => h[k].st = "wait"
      BY WholeTypes DEF WInv, DInv, Role
    <2>2. QED
      BY <2>1
  <1>2. Writers'
    <2>1. ASSUME NEW j \in Calls, h'[j].st = "store", h'[j].ino # NoFile
          PROVE  Belongs(h[j].ino, Name(j))'
      <3>1. h[j].st = "store" /\ h[j].ino # NoFile /\ h'[j].ino = h[j].ino
        BY <2>1
      <3>2. Name(j)' = Name(j)
        BY <1>1, <3>1 DEF Name
      <3>3. Belongs(h[j].ino, Name(j))
        BY <3>1 DEF WInv, Writers
      <3>4. QED
        BY <1>1, <3>1, <3>2, <3>3 DEF Belongs
    <2>2. QED
      BY <2>1 DEF Writers
  <1>3. ASSUME NEW j \in Calls \ {k} PROVE Goes(j)'
    <2>1. c'[j] = c[j] /\ h'[j] = h[j] /\ up'[j] = up[j] /\ down'[j] = down[j]
          /\ expired \subseteq expired' /\ touched \subseteq touched' /\ dir' = dir /\ data' = data
      BY DEF disk
    <2>2. QED
      BY <2>1, Bystander
  <1>4. QED
    BY <1>2, <1>3

\* The client of a store sends the next piece.
LEMMA SendWhole ==
  ASSUME WInv, NEW k \in Calls, SendChunk(k)
  PROVE  Goes(k)'
  <1> DEFINE L == Mine(k)
             o == c[k].off
             m == IF c[k].eof THEN <<>> ELSE ReadAt(L, o)
             e == o + Len(m)
  <1>1. /\ c[k].st = "send" /\ o < c[k].size /\ up' = Written(up, k, m)
        /\ c' = [c EXCEPT ![k].off = @ + Len(m), ![k].eof = @ \/ Len(m) < Chunk]
        /\ UNCHANGED <<disk, local, h, down, expired, cancelled, touched>>
    BY DEF SendChunk, MoreToSend
  <1>2. /\ c \in [Calls -> ClientSide] /\ c[k] \in ClientSide /\ up \in Streams
        /\ up[k] \in Seq(Seq(Byte)) /\ c[k].off \in Nat /\ c[k].size \in Nat
    BY WholeTypes DEF WInv, DInv
  <1>3. L \in Seq(Byte)
    BY <1>1, MineType DEF WInv, DInv
  <1> HIDE DEF m
  <1>4. /\ c'[k].st = "send" /\ c'[k].name = c[k].name /\ c'[k].size = c[k].size
        /\ c'[k].off = e /\ c'[k].eof = (c[k].eof \/ Len(m) < Chunk)
    BY <1>1, <1>2 DEF ClientSide
  <1>5. Mine(k)' = L /\ Name(k)' = Name(k)
    BY <1>1, <1>4 DEF Mine, Name
  <1>6. Blank(k)'
    BY <1>1, <1>4 DEF Blank, WInv, Goes
  <1>7. Fetches(k)'
    BY <1>4 DEF Fetches
  <1>8. Sends(k)'
    <2> SUFFICES ASSUME Owner[k] \notin Editors PROVE Sends(k)'
      BY DEF Sends
    <2>1. /\ L # NoFile /\ c[k].size = Len(L)
          /\ c[k].eof => c[k].off = c[k].size
          /\ k \notin expired =>
               /\ Pieces(up[k], L, h[k].off, o)
               /\ k \notin touched /\ Name(k) \notin Unwritable => Stored(k)
      BY <1>1 DEF WInv, Goes, Sends
    <2>2. ~c[k].eof /\ o \in Nat /\ o < Len(L)
      BY <1>1, <1>2, <2>1
    <2>3. m = ReadAt(L, o)
      BY <2>2 DEF m
    <2>4. /\ Len(m) \in Nat \ {0} /\ o + Len(m) <= Len(L)
          /\ m = SubSeq(L, o + 1, o + Len(m))
          /\ Len(m) < Chunk => o + Len(m) = Len(L)
      BY <1>3, <2>2, <2>3, ReadOn
    <2>5. e \in o..Len(L) /\ (Len(m) < Chunk => e = Len(L))
      BY <1>3, <2>2, <2>4
    <2>6. c'[k].eof => Len(m) < Chunk
      BY <1>4, <2>2
    <2>7. c'[k].off <= c'[k].size /\ (c'[k].eof => c'[k].off = c'[k].size)
      BY <1>4, <2>1, <2>5, <2>6
    <2>8. ASSUME k \notin expired
          PROVE  /\ Pieces(up'[k], L, h[k].off, e)
                 /\ k \notin touched /\ Name(k) \notin Unwritable => Stored(k)'
      <3>1. up'[k] = Append(up[k], m)
        BY <1>1, <1>2, <2>8 DEF Written, Streams
      <3>2. m = SubSeq(L, o + 1, e) /\ Pieces(up[k], L, h[k].off, o)
        BY <2>1, <2>4, <2>8
      <3> HIDE DEF o, e, L
      <3>3. Pieces(up'[k], L, h[k].off, e)
        BY <1>2, <1>3, <2>2, <2>5, <3>1, <3>2, PiecesAdd
      <3>4. Stored(k) => Stored(k)'
        BY <1>1, <1>5 DEF Stored, disk, L
      <3>5. QED
        BY <2>1, <2>8, <3>3, <3>4
    <2> HIDE DEF o, e, L
    <2>9. QED
      BY <1>1, <1>4, <1>5, <2>1, <2>7, <2>8 DEF Sends
  <1>9. QED
    BY <1>6, <1>7, <1>8 DEF Goes

LEMMA WritesDoneWhole ==
  ASSUME WInv, NEW k \in Calls, WritesDone(k)
  PROVE  Goes(k)'
  <1>1. /\ c[k].st = "send" /\ ~(c[k].off < c[k].size) /\ c' = [c EXCEPT ![k].st = "finish"]
        /\ UNCHANGED <<disk, local, h, up, down, expired, cancelled, touched>>
    BY DEF WritesDone, MoreToSend
  <1>2. /\ c \in [Calls -> ClientSide] /\ c[k] \in ClientSide /\ c[k].off \in Nat /\ c[k].size \in Nat
    BY WholeTypes DEF WInv, DInv
  <1>3. /\ c'[k].st = "finish" /\ c'[k].name = c[k].name /\ c'[k].size = c[k].size
        /\ c'[k].off = c[k].off /\ c'[k].eof = c[k].eof
    BY <1>1, <1>2 DEF ClientSide
  <1>4. Mine(k)' = Mine(k) /\ Name(k)' = Name(k)
    BY <1>1, <1>3 DEF Mine, Name
  <1>5. Stored(k) => Stored(k)'
    BY <1>1, <1>4 DEF Stored, disk
  <1>6. Pieces(up[k], Mine(k), h[k].off, c[k].off)
          => Pieces(up[k], Mine(k), h[k].off, c[k].off)'
    BY <1>1, <1>3, <1>4
  <1>7. Sends(k)'
    BY <1>1, <1>2, <1>3, <1>4, <1>5, <1>6 DEF Sends, WInv, Goes
  <1>8. Blank(k)' /\ Fetches(k)'
    BY <1>1, <1>3 DEF Blank, Fetches, WInv, Goes
  <1>9. QED
    BY <1>7, <1>8 DEF Goes

\* The client of a fetch writes the next piece.
LEMMA ReceiveWhole ==
  ASSUME WInv, NEW k \in Calls, ReceiveChunk(k)
  PROVE  Goes(k)'
  <1> DEFINE o == c[k].off
             m == Head(down[k])
             e == o + Len(m)
             f == dir[Name(k)]
             s == IF c[k].opened THEN Mine(k) ELSE <<>>
  <1>1. /\ c[k].st = "recv" /\ down[k] # <<>> /\ down' = [down EXCEPT ![k] = Tail(@)]
        /\ local' = [local EXCEPT ![Owner[k]][c[k].name] = WriteAt(s, o, m)]
        /\ c' = [c EXCEPT ![k].opened = TRUE, ![k].off = @ + Len(m)]
        /\ UNCHANGED <<disk, h, up, expired, cancelled, touched>>
    BY DEF ReceiveChunk
  <1>2. /\ c \in [Calls -> ClientSide] /\ c[k] \in ClientSide /\ down \in Streams
        /\ down[k] \in Seq(Seq(Byte)) /\ c[k].off \in Nat
        /\ local \in [Clients -> [Names -> Content]] /\ Owner[k] \in Clients
        /\ dir \in [Names -> Files \cup {NoFile}] /\ data \in [Files -> Seq(Byte)]
    BY WholeTypes DEF WInv, DInv
  <1>3. c[k].name \in Names
    BY <1>1, WholeTypes DEF WInv, DInv, Moves
  <1> HIDE DEF m, s
  <1>4. /\ c'[k].st = "recv" /\ c'[k].name = c[k].name /\ c'[k].opened /\ c'[k].off = e
    BY <1>1, <1>2 DEF ClientSide
  <1>5. h[k].st \notin {"wait", "open"}
    BY <1>1 DEF WInv, Goes, Blank
  <1>6. Blank(k)' /\ Sends(k)'
    BY <1>1, <1>4, <1>5 DEF Blank, Sends
  <1>7. Name(k)' = Name(k) /\ f' = f /\ Mine(k)' = WriteAt(s, o, m) /\ down'[k] = Tail(down[k])
    BY <1>1, <1>2, <1>3, <1>4 DEF Name, Mine, disk, Streams
  <1>8. ASSUME k \notin expired, k \notin touched, h[k].st \in {"open", "fetch"} \/ h[k].status = "OK"
        PROVE  Reads(k, f)'
    <2>1. Reads(k, f) /\ (~c[k].opened => o = 0)
      BY <1>1, <1>8 DEF WInv, Goes, Fetches, ReceiveChunk
    <2>2. f \in Files /\ data[f] \in Seq(Byte)
      BY <1>2, <1>3, <2>1 DEF Reads, Name
    <2>3. Pieces(down[k], data[f], o, h[k].off)
      BY <2>1 DEF Reads
    <2> HIDE DEF f, o, e
    <2>4. o \in Nat
      BY <1>2 DEF o
    <2>5. /\ o + Len(m) \in o..Len(data[f])
          /\ m = SubSeq(data[f], o + 1, o + Len(m))
          /\ Pieces(Tail(down[k]), data[f], o + Len(m), h[k].off)
      BY <1>1, <1>2, <2>2, <2>3, <2>4, PiecesTake DEF m
    <2>6. ASSUME Owner[k] \notin Editors PROVE Mine(k)' = SubSeq(data[f], 1, e)
      <3>1. s = SubSeq(data[f], 1, o)
        <4>1. CASE c[k].opened
          BY <2>1, <2>6, <4>1 DEF Reads, s, o
        <4>2. CASE ~c[k].opened
          BY <2>1, <2>2, <4>2, SubSeqEmpty DEF s
        <4>3. QED
          BY <4>1, <4>2
      <3>2. WriteAt(s, o, m) = SubSeq(data[f], 1, o + Len(m))
        <4> DEFINE b == o + Len(m)
        <4>1. b \in o..Len(data[f]) /\ m = SubSeq(data[f], o + 1, b)
          BY <2>5
        <4> HIDE DEF b
        <4>2. WriteAt(s, o, m) = SubSeq(data[f], 1, b)
          BY <2>2, <2>4, <3>1, <4>1, WriteOn
        <4>3. QED
          BY <4>2 DEF b
      <3>3. QED
        BY <1>7, <3>2 DEF e
    <2>7. Pieces(down'[k], data[f], c'[k].off, h[k].off)
      BY <1>4, <1>7, <2>5 DEF e
    <2>8. data' = data /\ h' = h
      BY <1>1 DEF disk
    <2>9. QED
      BY <1>4, <1>7, <2>1, <2>6, <2>7, <2>8 DEF Reads
  <1>9. Fetches(k)'
    <2>1. ASSUME k \notin expired, k \notin touched, h[k].st \in {"open", "fetch"} \/ h[k].status = "OK"
          PROVE  Reads(k, dir[Name(k)])'
      BY <1>8, <2>1
    <2> HIDE DEF f, o, e
    <2>2. QED
      BY <1>1, <1>4, <1>5, <2>1 DEF Fetches, CanOpen, ReceiveChunk
  <1>10. QED
    BY <1>6, <1>9 DEF Goes

\* What is dropped is counted.
LEMMA DropWhole ==
  ASSUME WInv, NEW k \in Calls, DropChunk(k)
  PROVE  Goes(k)'
  <1> DEFINE o == c[k].off
             m == Head(down[k])
             e == o + Len(m)
             f == dir[Name(k)]
  <1>1. /\ c[k].st = "recv" /\ down[k] # <<>> /\ down' = [down EXCEPT ![k] = Tail(@)]
        /\ c' = [c EXCEPT ![k].off = @ + Len(m)]
        /\ UNCHANGED <<disk, local, h, up, expired, cancelled, touched>>
    BY DEF DropChunk
  <1>2. /\ c \in [Calls -> ClientSide] /\ c[k] \in ClientSide /\ down \in Streams
        /\ down[k] \in Seq(Seq(Byte)) /\ c[k].off \in Nat
        /\ dir \in [Names -> Files \cup {NoFile}] /\ data \in [Files -> Seq(Byte)]
        /\ c[k].name \in Names
    BY <1>1, WholeTypes DEF WInv, DInv, Moves
  <1> HIDE DEF m
  <1>3. /\ c'[k].st = "recv" /\ c'[k].name = c[k].name /\ c'[k].opened = c[k].opened
        /\ c'[k].off = e
    BY <1>1, <1>2 DEF ClientSide
  <1>4. h[k].st \notin {"wait", "open"}
    BY <1>1 DEF WInv, Goes, Blank
  <1>5. Blank(k)' /\ Sends(k)'
    BY <1>1, <1>3, <1>4 DEF Blank, Sends
  <1>6. /\ Name(k)' = Name(k) /\ f' = f /\ Mine(k)' = Mine(k) /\ down'[k] = Tail(down[k])
        /\ ~CanOpen(k) /\ ~CanOpen(k)'
    BY <1>1, <1>2, <1>3 DEF Name, Mine, disk, Streams, CanOpen, DropChunk
  <1>7. k \notin expired => ~c[k].opened
    BY <1>1, <1>6 DEF WInv, Goes, Fetches
  <1>8. ASSUME k \notin expired, k \notin touched, h[k].st \in {"open", "fetch"} \/ h[k].status = "OK"
        PROVE  Reads(k, f)'
    <2>1. Reads(k, f)
      BY <1>1, <1>8 DEF WInv, Goes, Fetches
    <2>2. f \in Files /\ data[f] \in Seq(Byte)
      BY <1>2, <2>1 DEF Reads, Name
    <2>3. Pieces(down[k], data[f], o, h[k].off)
      BY <2>1 DEF Reads
    <2> HIDE DEF f, o, e
    <2>4. o \in Nat
      BY <1>2 DEF o
    <2>5. Pieces(Tail(down[k]), data[f], o + Len(m), h[k].off)
      BY <1>1, <1>2, <2>2, <2>3, <2>4, PiecesTake DEF m
    <2>6. Pieces(down'[k], data[f], c'[k].off, h[k].off)
      BY <1>3, <1>6, <2>5 DEF e
    <2>7. data' = data /\ h' = h
      BY <1>1 DEF disk
    <2>8. QED
      BY <1>3, <1>6, <1>7, <1>8, <2>1, <2>6, <2>7 DEF Reads
  <1>9. Fetches(k)'
    <2>1. ASSUME k \notin expired, k \notin touched, h[k].st \in {"open", "fetch"} \/ h[k].status = "OK"
          PROVE  Reads(k, dir[Name(k)])'
      BY <1>8, <2>1
    <2> HIDE DEF f, o, e
    <2>2. QED
      BY <1>1, <1>3, <1>4, <1>6, <1>7, <2>1 DEF Fetches
  <1>10. QED
    BY <1>5, <1>9 DEF Goes

\* A call that is over says nothing more.
LEMMA OverWhole ==
  ASSUME WInv, NEW k \in Calls, NEW m, Over(k, m)
  PROVE  Goes(k)' /\ c'[k].st = "over" /\ c'[k].status = Outcome(k) /\ c'[k].name = c[k].name
  <1>1. /\ c' = [c EXCEPT ![k].st = "over", ![k].status = Outcome(k), ![k].map = m]
        /\ UNCHANGED <<disk, local, h, up, down, expired, cancelled, touched>>
    BY DEF Over
  <1>2. c \in [Calls -> ClientSide] /\ c[k] \in ClientSide
    BY WholeTypes DEF WInv, DInv
  <1>3. c'[k].st = "over" /\ c'[k].status = Outcome(k) /\ c'[k].name = c[k].name
    BY <1>1, <1>2 DEF ClientSide
  <1>4. Goes(k)'
    BY <1>1, <1>3 DEF Goes, Blank, Sends, Fetches, WInv
  <1>5. QED
    BY <1>3, <1>4

LEMMA ClientWhole ==
  ASSUME WInv, NEW k \in Calls, ClientStep(k)
  PROVE  OneCall' /\ Writers' /\ \A j \in Calls : Goes(j)'
  <1>1. c \in [Calls -> ClientSide] /\ c[k] \in ClientSide /\ up \in Streams /\ down \in Streams
        /\ local \in [Clients -> [Names -> Content]] /\ Owner \in [Calls -> Clients]
    BY WholeTypes, DfsAssumption DEF WInv, DInv
  <1>2. PICK m : \/ SendChunk(k) \/ WritesDone(k) \/ ReceiveChunk(k) \/ DropChunk(k)
                 \/ Over(k, m) /\ Busy(k)
    BY DEF ClientStep, FinishStore, FinishFetch, FinishDelete, FinishStat, FinishList, Busy
  <1>3. /\ Busy(k) /\ Goes(k)' /\ UNCHANGED <<disk, h, touched, expired>>
        /\ c'[k].op = c[k].op /\ c'[k].name = c[k].name
        /\ \A j \in Calls \ {k} : c'[j] = c[j] /\ up'[j] = up[j] /\ down'[j] = down[j]
        /\ \A j \in Calls \ {k} : Owner[j] # Owner[k] => local'[Owner[j]] = local[Owner[j]]
    <2>1. CASE SendChunk(k)
      <3>1. PICK b : /\ c' = [c EXCEPT ![k].off = @ + Len(b), ![k].eof = @ \/ Len(b) < Chunk]
                     /\ up' = Written(up, k, b)
                     /\ c[k].st = "send"
                     /\ UNCHANGED <<disk, local, h, down, expired, cancelled, touched>>
        BY <2>1 DEF SendChunk
      <3>2. \A j \in Calls \ {k} : up'[j] = up[j]
        BY <1>1, <3>1 DEF Written, Streams
      <3>3. Goes(k)'
        BY <2>1, SendWhole
      <3>4. QED
        BY <1>1, <3>1, <3>2, <3>3 DEF ClientSide, Busy
    <2>2. CASE WritesDone(k)
      <3>1. Goes(k)'
        BY <2>2, WritesDoneWhole
      <3>2. QED
        BY <1>1, <2>2, <3>1 DEF WritesDone, ClientSide, Busy
    <2>3. CASE ReceiveChunk(k)
      <3>1. PICK b, w : /\ c' = [c EXCEPT ![k].opened = TRUE, ![k].off = @ + Len(b)]
                        /\ local' = [local EXCEPT ![Owner[k]][c[k].name] = w]
                        /\ down' = [down EXCEPT ![k] = Tail(@)]
                        /\ c[k].st = "recv"
                        /\ UNCHANGED <<disk, h, up, expired, cancelled, touched>>
        BY <2>3 DEF ReceiveChunk
      <3>2. \A j \in Calls \ {k} : Owner[j] # Owner[k] => local'[Owner[j]] = local[Owner[j]]
        BY <1>1, <3>1
      <3>3. Goes(k)'
        BY <2>3, ReceiveWhole
      <3>4. QED
        BY <1>1, <3>1, <3>2, <3>3 DEF ClientSide, Busy, Streams
    <2>4. CASE Over(k, m) /\ Busy(k)
      <3>1. Goes(k)'
        BY <2>4, OverWhole
      <3>2. QED
        BY <1>1, <2>4, <3>1 DEF Over, ClientSide
    <2>5. CASE DropChunk(k)
      <3>1. PICK b : c' = [c EXCEPT ![k].off = @ + Len(b)] /\ down' = [down EXCEPT ![k] = Tail(@)]
        BY <2>5 DEF DropChunk
      <3>2. c[k].st = "recv" /\ UNCHANGED <<disk, local, h, up, expired, cancelled, touched>>
        BY <2>5 DEF DropChunk
      <3>3. Goes(k)'
        BY <2>5, DropWhole
      <3>4. QED
        BY <1>1, <3>1, <3>2, <3>3 DEF ClientSide, Busy, Streams
    <2>6. QED
      BY <1>2, <2>1, <2>2, <2>3, <2>4, <2>5
  <1>4. ASSUME NEW j \in Calls \ {k}, Moves(j) PROVE Mine(j)' = Mine(j)
    <2>1. Owner[j] # Owner[k]
      BY <1>3, <1>4 DEF WInv, OneCall, Busy, Moves
    <2>2. QED
      BY <1>3, <2>1 DEF Mine
  <1>5. Writers' /\ \A j \in Calls \ {k} : Goes(j)'
    BY <1>3, <1>4, ClientAlone
  <1>6. OneCall'
    <2>1. \A j \in Calls : Busy(j)' => Busy(j)
      BY <1>3 DEF Busy
    <2>2. QED
      BY <2>1 DEF OneCall, WInv
  <1>7. QED
    BY <1>3, <1>5, <1>6

\* A call begins with nothing read and nothing sent.
LEMMA StartWhole ==
  ASSUME WInv, NEW k \in Calls, NEW n,
         \/ StartList(k)
         \/ /\ n \in Names
            /\ StartStore(k, n) \/ StartFetch(k, n) \/ StartDelete(k, n) \/ StartStat(k, n)
  PROVE  OneCall' /\ Writers' /\ \A j \in Calls : Goes(j)'
  <1>1. /\ c \in [Calls -> ClientSide] /\ c[k] \in ClientSide /\ Owner[k] \in Clients
        /\ local \in [Clients -> [Names -> Content]]
        /\ up[k] \in Seq(Seq(Byte)) /\ Role(k) /\ Pending(k) /\ Goes(k)
    BY WholeTypes DEF WInv, DInv
  <1>2. /\ c[k].st = "idle" /\ \A j \in Calls : Owner[j] = Owner[k] => ~Busy(j)
        /\ UNCHANGED <<disk, local, h, up, down, expired, cancelled, touched>>
        /\ \A j \in Calls \ {k} : c'[j] = c[j]
    <2>1. \E r : c' = [c EXCEPT ![k] = r]
      BY DEF StartList, StartStore, StartFetch, StartDelete, StartStat, StartUnary
    <2>2. /\ c[k].st = "idle" /\ \A j \in Calls : Owner[j] = Owner[k] => ~Busy(j)
          /\ UNCHANGED <<disk, local, h, up, down, expired, cancelled, touched>>
      BY DEF StartList, StartStore, StartFetch, StartDelete, StartStat, StartUnary, CanStart
    <2>3. QED
      BY <1>1, <2>1, <2>2
  <1>3. /\ h[k].st = "wait" /\ k \notin expired /\ h[k].off = 0 /\ h[k].status = "none"
        /\ ~c[k].opened /\ ~c[k].eof /\ c[k].off = 0 /\ up[k] = <<>> /\ down[k] = <<>>
    BY <1>1, <1>2 DEF Role, Pending, Goes, Blank
  <1>4. c'[k].st # "idle" /\ Sends(k)' /\ Fetches(k)'
    <2>1. CASE n \in Names /\ StartStore(k, n)
      <3> DEFINE s == local[Owner[k]][n]
      <3>1. CASE s = NoFile
        <4>1. c'[k].st = "over"
          BY <1>1, <2>1, <3>1 DEF StartStore, Started, ClientSide
        <4>2. QED
          BY <4>1 DEF Sends, Fetches
      <3>2. CASE s # NoFile
        <4>1. /\ c'[k].st = "send" /\ c'[k].name = n /\ c'[k].size = Len(s)
              /\ c'[k].off = c[k].off /\ c'[k].eof = c[k].eof
          BY <1>1, <2>1, <3>2 DEF StartStore, Started, ClientSide
        <4>2. s \in Seq(Byte)
          BY <1>1, <2>1, <3>2 DEF Content
        <4>3. Mine(k)' = s
          BY <1>2, <4>1 DEF Mine
        <4> HIDE DEF s
        <4>4. Len(s) \in Nat /\ 0 \in 0..Len(s)
          BY <4>2
        <4>5. Pieces(up[k], s, 0, 0)
          BY <1>3, <4>2, <4>4, PiecesNone
        <4>6. up'[k] = up[k] /\ h'[k] = h[k]
          BY <1>2
        <4>7. Pieces(up'[k], Mine(k)', h'[k].off, c'[k].off)
          BY <1>3, <4>1, <4>3, <4>5, <4>6
        <4>8. Stored(k)'
          BY <1>3, <4>6 DEF Stored
        <4>9. QED
          BY <1>3, <3>2, <4>1, <4>3, <4>4, <4>7, <4>8 DEF Sends, Fetches
      <3>3. QED
        BY <3>1, <3>2
    <2>2. CASE n \in Names /\ StartFetch(k, n)
      <3>1. c'[k].st = "recv" /\ c'[k].opened = c[k].opened /\ c'[k].off = c[k].off
        BY <1>1, <2>2 DEF StartFetch, Started, ClientSide
      <3>2. h' = h
        BY <1>2
      <3>3. QED
        BY <1>3, <3>1, <3>2 DEF Sends, Fetches
    <2>3. CASE StartList(k) \/ (n \in Names /\ (StartDelete(k, n) \/ StartStat(k, n)))
      <3>1. PICK op, m : c' = [c EXCEPT ![k] = Started(k, "await", op, m)]
        BY <2>3 DEF StartList, StartDelete, StartStat, StartUnary
      <3>2. c'[k].st = "await"
        BY <1>1, <3>1 DEF Started, ClientSide
      <3>3. QED
        BY <3>2 DEF Sends, Fetches
    <2>4. QED
      BY <2>1, <2>2, <2>3
  <1>5. Goes(k)'
    BY <1>1, <1>2, <1>4 DEF Goes, Blank
  <1>6. \A j \in Calls \ {k} : Mine(j)' = Mine(j)
    BY <1>2 DEF Mine
  <1>7. Writers' /\ \A j \in Calls \ {k} : Goes(j)'
    BY <1>2, <1>6, ClientAlone
  <1>8. OneCall'
    <2>1. \A j \in Calls \ {k} : Busy(j)' <=> Busy(j)
      BY <1>2 DEF Busy
    <2>2. QED
      BY <1>2, <2>1 DEF OneCall, WInv
  <1>9. QED
    BY <1>5, <1>7, <1>8

\* Time passes, calls are lost, and users shorten their files.
LEMMA TimeWhole ==
  ASSUME WInv,
         \/ \E k \in Calls : Expire(k) \/ NoticeCancel(k) \/ Lost(k)
         \/ \E cl \in Clients, n \in Names : Shorten(cl, n)
         \/ UNCHANGED vars
  PROVE  OneCall' /\ Writers' /\ \A j \in Calls : Goes(j)'
  <1>1. /\ UNCHANGED <<disk, c, up, down, touched>> /\ expired \subseteq expired'
        /\ \A k \in Calls : h'[k] # h[k] => Lost(k) /\ local' = local
        /\ \A k \in Calls : Owner[k] \notin Editors => Mine(k)' = Mine(k)
    <2>1. ASSUME NEW k \in Calls, Expire(k) \/ NoticeCancel(k) \/ Lost(k)
          PROVE  /\ UNCHANGED <<disk, c, up, down, touched, local>> /\ expired \subseteq expired'
                 /\ \A j \in Calls : h'[j] # h[j] => Lost(j)
      <3>1. h \in [Calls -> HandlerSide]
        BY DEF WInv, DInv, TInv, TypeOK
      <3>2. CASE Lost(k)
        <4>1. PICK x : h' = [h EXCEPT ![k] = x]
          BY <3>2 DEF Lost
        <4>2. \A j \in Calls : h'[j] # h[j] => j = k
          BY <3>1, <4>1
        <4>3. QED
          BY <3>2, <4>2 DEF Lost
      <3>3. CASE Expire(k) \/ NoticeCancel(k)
        BY <3>3 DEF Expire, NoticeCancel
      <3>4. QED
        BY <2>1, <3>2, <3>3
    <2>2. ASSUME NEW cl \in Clients, NEW n \in Names, Shorten(cl, n)
          PROVE  /\ UNCHANGED <<disk, c, up, down, touched, h, expired>>
                 /\ \A k \in Calls : Owner[k] \notin Editors => Mine(k)' = Mine(k)
      <3>1. local \in [Clients -> [Names -> Content]] /\ Owner \in [Calls -> Clients]
        BY DfsAssumption DEF WInv, DInv, TInv, TypeOK
      <3>2. PICK l : local' = [local EXCEPT ![cl][n] = SubSeq(@, 1, l)]
        BY <2>2 DEF Shorten
      <3>3. \A k \in Calls : Owner[k] \notin Editors => local'[Owner[k]] = local[Owner[k]]
        BY <2>2, <3>1, <3>2 DEF Shorten
      <3>4. QED
        BY <2>2, <3>3 DEF Shorten, Mine
    <2>3. CASE UNCHANGED vars
      BY <2>3 DEF vars, Mine, disk
    <2>4. UNCHANGED <<c, local>> => \A k \in Calls : Mine(k)' = Mine(k)
      BY DEF Mine
    <2>5. QED
      BY <2>1, <2>2, <2>3, <2>4
  <1>2. OneCall'
    BY <1>1 DEF OneCall, Busy, WInv
  <1>3. ASSUME NEW k \in Calls, h'[k] # h[k]
        PROVE  /\ h[k].st = "wait" /\ h'[k].st = "over" /\ k \in expired
    <2>1. Lost(k) /\ h[k] \in HandlerSide /\ h \in [Calls -> HandlerSide]
      BY <1>1, <1>3, WholeTypes DEF WInv, DInv
    <2>2. QED
      BY <2>1 DEF Lost, HandlerSide
  <1>4. Writers'
    <2>1. ASSUME NEW j \in Calls, h'[j].st = "store", h'[j].ino # NoFile
          PROVE  Belongs(h[j].ino, Name(j))' /\ h'[j].ino = h[j].ino
      <3>1. h'[j] = h[j]
        BY <1>3, <2>1
      <3>2. Belongs(h[j].ino, Name(j)) /\ Name(j)' = Name(j)
        BY <1>1, <2>1, <3>1 DEF WInv, Writers, Name
      <3>3. QED
        BY <1>1, <1>3, <3>1, <3>2 DEF Belongs
    <2>2. QED
      BY <2>1 DEF Writers
  <1>5. ASSUME NEW k \in Calls, h'[k] = h[k] PROVE Goes(k)'
    <2>1. /\ c'[k] = c[k] /\ up'[k] = up[k] /\ down'[k] = down[k]
          /\ touched \subseteq touched' /\ dir' = dir /\ data' = data
      BY <1>1 DEF disk
    <2>2. QED
      BY <1>1, <1>5, <2>1, Bystander
  <1>6. ASSUME NEW k \in Calls, h'[k] # h[k] PROVE Goes(k)'
    <2>1. Goes(k) /\ k \in expired' /\ h'[k].st = "over"
      BY <1>1, <1>3, <1>6 DEF WInv
    <2>2. QED
      BY <1>1, <2>1 DEF Goes, Blank, Sends, Fetches
  <1>7. QED
    BY <1>2, <1>4, <1>5, <1>6

LEMMA WInvInit == Init => WInv
  <1> SUFFICES ASSUME Init PROVE WInv
    OBVIOUS
  <1>1. DInv
    BY DInvInit
  <1>2. OneCall /\ Writers
    BY DEF Init, OneCall, Busy, Writers
  <1>3. \A k \in Calls : Goes(k)
    BY DEF Init, Goes, Blank, Sends, Fetches
  <1>4. QED
    BY <1>1, <1>2, <1>3 DEF WInv

LEMMA WInvNext == WInv /\ [Next]_vars => WInv'
  <1> SUFFICES ASSUME WInv, [Next]_vars PROVE WInv'
    OBVIOUS
  <1>1. DInv'
    BY DInvNext DEF WInv
  <1>2. OneCall' /\ Writers' /\ \A k \in Calls : Goes(k)'
    <2>1. CASE \E k \in Calls : ClientStep(k)
      BY <2>1, ClientWhole
    <2>2. CASE \E k \in Calls : HandlerStep(k)
      BY <2>2, HandlerWhole
    <2>3. CASE \/ \E k \in Calls : StartList(k)
               \/ \E k \in Calls, n \in Names :
                    StartStore(k, n) \/ StartFetch(k, n) \/ StartDelete(k, n) \/ StartStat(k, n)
      BY <2>3, StartWhole
    <2>4. CASE \/ \E k \in Calls : Expire(k) \/ NoticeCancel(k) \/ Lost(k)
               \/ \E cl \in Clients, n \in Names : Shorten(cl, n)
               \/ UNCHANGED vars
      BY <2>4, TimeWhole
    <2>5. QED
      BY <2>1, <2>2, <2>3, <2>4 DEF Next
  <1>3. QED
    BY <1>1, <1>2 DEF WInv

LEMMA WInvHolds == Spec => []WInv
  BY WInvInit, WInvNext, PTL DEF Spec

(* dfs-clientnode-p1.cpp:57-101 with dfslib-servernode-p1.cpp:144-187.     *)
(* Of a file that the server may open, Store says OK only when it is there *)
(* as it is at the client, whatever the calls of others did to other files *)
(* meanwhile, and unless one of them, or the user, changed this one.       *)
THEOREM StoreArrives == Spec => OkStoreIsThere
  <1> DEFINE There1 == \A k \in Calls :
               c[k].st = "finish" /\ c'[k].st = "over" /\ c'[k].status = "OK" /\ k \notin touched
                 /\ Owner[k] \notin Editors /\ Name(k) \notin Unwritable
               => /\ dir[Name(k)] # NoFile
                  /\ data[dir[Name(k)]] = Mine(k)
  <1>1. ASSUME WInv, [Next]_vars PROVE There1
    <2> SUFFICES ASSUME NEW k \in Calls, c[k].st = "finish", c'[k].st = "over",
                        c'[k].status = "OK", k \notin touched, Owner[k] \notin Editors,
                        Name(k) \notin Unwritable
                 PROVE  dir[Name(k)] # NoFile /\ data[dir[Name(k)]] = Mine(k)
      OBVIOUS
    <2>1. FinishStore(k)
      BY <1>1, CallEnds DEF WInv, DInv, Busy, FinishFetch, FinishDelete, FinishStat, FinishList
    <2>2. Over(k, {})
      BY <2>1 DEF FinishStore
    <2>3. Outcome(k) = "OK" /\ (k \in expired \/ h[k].st = "over")
      BY <1>1, <2>2, OverWhole DEF Over
    <2>4. k \notin expired /\ h[k].st = "over"
      BY <2>3 DEF Outcome
    <2>5. Stored(k)
      BY <1>1, <2>4 DEF WInv, Goes, Sends
    <2>6. QED
      BY <2>4, <2>5 DEF Stored
  <1>2. QED
    BY WInvHolds, <1>1, PTL DEF Spec, OkStoreIsThere

(* dfs-clientnode-p1.cpp:104-148 with dfslib-servernode-p1.cpp:95-141.     *)
(* Fetch says OK, for a file that is not empty and that it can open, only  *)
(* when the local file is the server's, unless another call, or the user,  *)
(* changed one of them.                                                    *)
THEOREM FetchArrives == Spec => OkFetchIsWhole
  <1> DEFINE Whole == \A k \in Calls :
               c[k].st = "recv" /\ c'[k].st = "over" /\ c'[k].status = "OK" /\ k \notin touched
                 /\ Owner[k] \notin Editors /\ CanOpen(k) /\ h[k].size # 0
               => dir[Name(k)] # NoFile /\ Mine(k) = data[dir[Name(k)]]
  <1>1. ASSUME WInv, [Next]_vars PROVE Whole
    <2> SUFFICES ASSUME NEW k \in Calls, c[k].st = "recv", c'[k].st = "over",
                        c'[k].status = "OK", k \notin touched, Owner[k] \notin Editors,
                        CanOpen(k), h[k].size # 0
                 PROVE  dir[Name(k)] # NoFile /\ Mine(k) = data[dir[Name(k)]]
      OBVIOUS
    <2> DEFINE f == dir[Name(k)]
    <2>1. FinishFetch(k)
      BY <1>1, CallEnds DEF WInv, DInv, Busy, FinishStore, FinishDelete, FinishStat, FinishList
    <2>2. Over(k, {}) /\ (k \in expired \/ down[k] = <<>>)
      BY <2>1 DEF FinishFetch
    <2>3. Outcome(k) = "OK" /\ (k \in expired \/ h[k].st = "over")
      BY <1>1, <2>2, OverWhole DEF Over
    <2>4. k \notin expired /\ h[k].st = "over" /\ h[k].status = "OK" /\ down[k] = <<>>
      BY <2>2, <2>3 DEF Outcome
    <2>5. Reads(k, f) /\ (~c[k].opened => c[k].off = 0)
      BY <1>1, <2>4 DEF WInv, Goes, Fetches
    <2>6. c[k].off = h[k].off
      BY <2>4, <2>5, PiecesEnd DEF Reads
    <2>7. h[k].off = Len(data[f]) /\ f # NoFile /\ c[k].opened
      BY <2>4, <2>5, <2>6 DEF Reads
    <2>8. data[f] \in Seq(Byte)
      BY <1>1, <2>7, WholeTypes DEF WInv, DInv, Moves
    <2>9. Mine(k) = SubSeq(data[f], 1, Len(data[f]))
      BY <2>5, <2>6, <2>7 DEF Reads
    <2>10. QED
      BY <2>7, <2>8, <2>9, SubSeqFull
  <1>2. QED
    BY WInvHolds, <1>1, PTL DEF Spec, OkFetchIsWhole
=============================================================================
