--------------------------- MODULE DfsMountProofs ---------------------------
(***************************************************************************)
(* Theorems about DfsMount, for every set of files and whatever the sizes  *)
(* of the kernel's queue and of the watcher's buffer.  NoChangeForgotten   *)
(* says that something will bring the server in line; the inductive        *)
(* invariant says what: the last event in the queue if there is one, else  *)
(* the last in the batch, else the call in progress, and else nothing has  *)
(* to.                                                                     *)
(***************************************************************************)
EXTENDS DfsMount, SequenceTheorems, TLAPS

\* Events wait only for a process that is there to read them.
Places ==
  /\ queue # <<>> => process = "up"
  /\ pc = "read" => batch = <<>>
  /\ process = "down" => pc = "read" /\ cur = NoEvent

\* The last event for n in q tells whether v, the state of n, is a file.
Tells(q, n, v) == \E i \in 1..Len(q) : LastFor(q, n, i) /\ (q[i].mask = "delete" <=> v = NoFile)

\* What will bring the server's file n in line with the mount directory.
InLine(n) ==
  IF n \in NamesIn(queue) THEN Tells(queue, n, mount[n])
  ELSE IF n \in NamesIn(batch) THEN Tells(batch, n, mount[n])
  ELSE IF cur # NoEvent /\ cur.name = n THEN CallAgrees(n)
  ELSE server[n] = mount[n]

AllInLine == \A n \in Watched \ missed : InLine(n)

IInv == TypeOK /\ Places /\ AllInLine

-----------------------------------------------------------------------------
(* Names and last events of a sequence                                     *)

LEMMA NamesOf ==
  ASSUME NEW q \in Seq(Event)
  PROVE  NamesIn(q) \subseteq Names /\ NamesIn(<<>>) = {}
  <1>1. ASSUME NEW x \in NamesIn(q) PROVE x \in Names
    <2>1. PICK i \in 1..Len(q) : x = q[i].name
      BY <1>1 DEF NamesIn
    <2>2. q[i] \in Event
      BY ElementOfSeq
    <2>3. QED
      BY <2>1, <2>2 DEF Event
  <1>2. NamesIn(<<>>) = {}
    <2>1. Len(<<>>) = 0 /\ 1..0 = {}
      OBVIOUS
    <2>2. QED
      BY <2>1 DEF NamesIn
  <1>3. QED
    BY <1>1, <1>2

\* An event is added.
LEMMA AppendTells ==
  ASSUME NEW q \in Seq(Event), NEW e \in Event, NEW n, NEW v
  PROVE  /\ NamesIn(Append(q, e)) = NamesIn(q) \cup {e.name}
         /\ e.name = n /\ (e.mask = "delete" <=> v = NoFile) => Tells(Append(q, e), n, v)
         /\ e.name # n /\ Tells(q, n, v) => Tells(Append(q, e), n, v)
  <1> DEFINE p == Append(q, e)
  <1>1. /\ Len(q) \in Nat /\ Len(p) = Len(q) + 1 /\ p[Len(q) + 1] = e
        /\ \A i \in 1..Len(q) : p[i] = q[i] /\ i \in 1..Len(p)
        /\ \A i \in 1..Len(p) : i \in 1..Len(q) \/ i = Len(q) + 1
        /\ Len(q) + 1 \in 1..Len(p)
    OBVIOUS
  <1> HIDE DEF p
  <1>2. NamesIn(p) = NamesIn(q) \cup {e.name}
    <2>1. ASSUME NEW x \in NamesIn(p) PROVE x \in NamesIn(q) \cup {e.name}
      BY <1>1 DEF NamesIn
    <2>2. ASSUME NEW x \in NamesIn(q) PROVE x \in NamesIn(p)
      <3>1. PICK i \in 1..Len(q) : x = q[i].name
        BY <2>2 DEF NamesIn
      <3>2. i \in 1..Len(p) /\ x = p[i].name
        BY <1>1, <3>1
      <3>3. QED
        BY <3>2 DEF NamesIn
    <2>3. e.name \in NamesIn(p)
      <3>1. e.name = p[Len(q) + 1].name
        BY <1>1
      <3>2. QED
        BY <1>1, <3>1 DEF NamesIn
    <2>4. QED
      BY <2>1, <2>2, <2>3
  <1>3. ASSUME e.name = n, e.mask = "delete" <=> v = NoFile PROVE Tells(p, n, v)
    <2>1. LastFor(p, n, Len(q) + 1)
      BY <1>1, <1>3 DEF LastFor
    <2>2. QED
      BY <1>1, <1>3, <2>1 DEF Tells
  <1>4. ASSUME e.name # n, Tells(q, n, v) PROVE Tells(p, n, v)
    <2>1. PICK i \in 1..Len(q) : LastFor(q, n, i) /\ (q[i].mask = "delete" <=> v = NoFile)
      BY <1>4 DEF Tells
    <2>2. \A j \in (i + 1)..Len(p) : p[j].name # n
      <3>1. TAKE j \in (i + 1)..Len(p)
      <3>2. CASE j \in (i + 1)..Len(q)
        <4>1. j \in 1..Len(q)
          BY <3>2
        <4>2. QED
          BY <4>1, <3>2, <1>1, <2>1 DEF LastFor
      <3>3. CASE j = Len(q) + 1
        BY <3>3, <1>1, <1>4
      <3>4. QED
        BY <3>2, <3>3, <1>1
    <2>3. LastFor(p, n, i)
      BY <1>1, <2>1, <2>2 DEF LastFor
    <2>4. QED
      BY <1>1, <2>1, <2>3 DEF Tells
  <1>5. QED
    BY <1>2, <1>3, <1>4 DEF p

\* a is the first l events of q, and b the others.
Cut(q, l, a, b) ==
  /\ Len(a) = l /\ \A i \in 1..l : a[i] = q[i]
  /\ Len(b) = Len(q) - l /\ \A i \in 1..Len(b) : b[i] = q[l + i]

\* The last event for a name is in the second part, if that has the name.
LEMMA SplitTells ==
  ASSUME NEW q \in Seq(Event), NEW a \in Seq(Event), NEW b \in Seq(Event),
         NEW l \in 1..Len(q), Cut(q, l, a, b)
  PROVE  /\ NamesIn(q) = NamesIn(a) \cup NamesIn(b)
         /\ \A n, v : Tells(q, n, v) => IF n \in NamesIn(b) THEN Tells(b, n, v) ELSE Tells(a, n, v)
  <1>1. /\ Len(a) = l /\ \A i \in 1..l : a[i] = q[i] /\ i \in 1..Len(q)
        /\ Len(b) = Len(q) - l
        /\ \A i \in 1..Len(b) : b[i] = q[l + i] /\ l + i \in 1..Len(q)
        /\ Len(q) \in Nat /\ l \in Nat
    BY DEF Cut
  <1>2. \A i \in 1..Len(q) : i \in 1..l \/ (i - l \in 1..Len(b) /\ b[i - l] = q[i])
    BY <1>1
  <1>3. NamesIn(q) = NamesIn(a) \cup NamesIn(b)
    <2>1. ASSUME NEW x \in NamesIn(q) PROVE x \in NamesIn(a) \cup NamesIn(b)
      <3>1. PICK i \in 1..Len(q) : x = q[i].name
        BY <2>1 DEF NamesIn
      <3>2. CASE i \in 1..l
        BY <3>1, <3>2, <1>1 DEF NamesIn
      <3>3. CASE i - l \in 1..Len(b) /\ b[i - l] = q[i]
        BY <3>1, <3>3 DEF NamesIn
      <3>4. QED
        BY <3>2, <3>3, <1>2
    <2>2. ASSUME NEW x \in NamesIn(a) PROVE x \in NamesIn(q)
      BY <1>1, <2>2 DEF NamesIn
    <2>3. ASSUME NEW x \in NamesIn(b) PROVE x \in NamesIn(q)
      <3>1. PICK i \in 1..Len(b) : x = b[i].name
        BY <2>3 DEF NamesIn
      <3>2. l + i \in 1..Len(q) /\ x = q[l + i].name
        BY <1>1, <3>1
      <3>3. QED
        BY <3>2 DEF NamesIn
    <2>4. QED
      BY <2>1, <2>2, <2>3
  <1>4. ASSUME NEW n, NEW v, Tells(q, n, v)
        PROVE  IF n \in NamesIn(b) THEN Tells(b, n, v) ELSE Tells(a, n, v)
    <2>1. PICK i \in 1..Len(q) : LastFor(q, n, i) /\ (q[i].mask = "delete" <=> v = NoFile)
      BY <1>4 DEF Tells
    <2>2. q[i].name = n /\ \A j \in 1..Len(q) : j > i => q[j].name # n
      BY <2>1, <1>1 DEF LastFor
    <2>3. CASE i \in 1..l
      <3>1. \A j \in 1..Len(b) : b[j].name # n
        <4>1. TAKE j \in 1..Len(b)
        <4>2. b[j] = q[l + j] /\ l + j \in 1..Len(q)
          BY <1>1
        <4>3. l + j > i
          BY <1>1, <2>3
        <4>4. QED
          BY <2>2, <4>2, <4>3
      <3>2. n \notin NamesIn(b)
        BY <3>1 DEF NamesIn
      <3>3. i \in 1..Len(a) /\ a[i] = q[i]
        BY <1>1, <2>3
      <3>4. \A j \in (i + 1)..Len(a) : a[j].name # n
        <4>1. TAKE j \in (i + 1)..Len(a)
        <4>2. j \in 1..l /\ j > i
          BY <1>1, <2>3
        <4>3. a[j] = q[j] /\ j \in 1..Len(q)
          BY <1>1, <4>2
        <4>4. QED
          BY <2>2, <4>2, <4>3
      <3>5. LastFor(a, n, i)
        BY <2>2, <3>3, <3>4 DEF LastFor
      <3>6. QED
        BY <2>1, <3>2, <3>3, <3>5 DEF Tells
    <2>4. CASE i - l \in 1..Len(b) /\ b[i - l] = q[i]
      <3>1. \A j \in (i - l + 1)..Len(b) : b[j].name # n
        <4>1. TAKE j \in (i - l + 1)..Len(b)
        <4>2. j \in 1..Len(b) /\ l + j > i
          BY <1>1, <2>4
        <4>3. b[j] = q[l + j] /\ l + j \in 1..Len(q)
          BY <4>2, <1>1
        <4>4. QED
          BY <4>2, <4>3, <2>2
      <3>2. LastFor(b, n, i - l)
        BY <2>2, <2>4, <3>1 DEF LastFor
      <3>3. b[i - l].mask = "delete" <=> v = NoFile
        BY <2>1, <2>4
      <3>4. Tells(b, n, v)
        BY <2>4, <3>2, <3>3 DEF Tells
      <3>5. n = b[i - l].name
        BY <2>2, <2>4
      <3>6. n \in NamesIn(b)
        BY <2>4, <3>5 DEF NamesIn
      <3>7. QED
        BY <3>4, <3>6
    <2>5. QED
      BY <2>3, <2>4, <1>2
  <1>5. QED
    BY <1>1, <1>3, <1>4

\* The first event is taken from a batch.
LEMMA TailTells ==
  ASSUME NEW q \in Seq(Event), q # <<>>
  PROVE  /\ Head(q) \in Event /\ Tail(q) \in Seq(Event)
         /\ NamesIn(q) = {Head(q).name} \cup NamesIn(Tail(q))
         /\ \A n, v : Tells(q, n, v) =>
              IF n \in NamesIn(Tail(q)) THEN Tells(Tail(q), n, v)
              ELSE Head(q).name = n /\ (Head(q).mask = "delete" <=> v = NoFile)
  <1> DEFINE a == <<Head(q)>>
             t == Tail(q)
  <1>1. /\ Len(q) \in Nat /\ Len(q) # 0 /\ Head(q) \in Event /\ Head(q) = q[1]
        /\ a \in Seq(Event) /\ Len(a) = 1 /\ a[1] = Head(q)
        /\ t \in Seq(Event) /\ Len(t) = Len(q) - 1
        /\ \A i \in 1..Len(t) : t[i] = q[1 + i]
    OBVIOUS
  <1> HIDE DEF a, t
  <1>2. 1 \in 1..Len(q) /\ Cut(q, 1, a, t)
    BY <1>1 DEF Cut
  <1>3. NamesIn(q) = NamesIn(a) \cup NamesIn(t)
    BY <1>1, <1>2, SplitTells
  <1>4. ASSUME NEW n, NEW v, Tells(q, n, v)
        PROVE  IF n \in NamesIn(t) THEN Tells(t, n, v) ELSE Tells(a, n, v)
    BY <1>1, <1>2, <1>4, SplitTells
  <1>5. NamesIn(a) = {Head(q).name}
    BY <1>1 DEF NamesIn
  <1>6. ASSUME NEW n, NEW v, Tells(a, n, v)
        PROVE  Head(q).name = n /\ (Head(q).mask = "delete" <=> v = NoFile)
    BY <1>1, <1>6 DEF Tells, LastFor
  <1>7. QED
    BY <1>1, <1>3, <1>4, <1>5, <1>6 DEF t

\* No name is empty.
LEMMA EmptyNames ==
  ASSUME NEW q, q = <<>>
  PROVE  NamesIn(q) = {}
  <1>1. q \in Seq(Event)
    OBVIOUS
  <1>2. QED
    BY <1>1, NamesOf

-----------------------------------------------------------------------------
(* A change of the user                                                    *)

\* What the kernel does when n is changed.
LEMMA Notified ==
  ASSUME TypeOK, NEW n \in Names, NEW m \in Masks, Notify(m, n)
  PROVE  /\ queue' \in Seq(Event) /\ missed' \subseteq Names
         /\ process # "up" => queue' = queue
         /\ missed' \in {missed \cup {n}, missed \ {n}}
         /\ NamesIn(queue) \ {n} = NamesIn(queue') \ {n}
         /\ \A x, v : x # n /\ Tells(queue, x, v) => Tells(queue', x, v)
         /\ \A v : n \notin missed' /\ (m = "delete" <=> v = NoFile) => Tells(queue', n, v)
         /\ n \notin missed' => n \in NamesIn(queue')
  <1> DEFINE e == [mask |-> m, name |-> n]
             same == queue # <<>> /\ queue[Len(queue)] = e
  <1>1. e \in Event /\ e.name = n /\ e.mask = m /\ queue \in Seq(Event) /\ missed \subseteq Names
    BY DEF TypeOK, Event
  <1>2. CASE process = "up" /\ same
    <2>1. queue' = queue /\ missed' = missed \ {n}
      BY <1>2 DEF Notify
    <2>2. Len(queue) \in 1..Len(queue) /\ queue[Len(queue)] = e
      BY <1>1, <1>2
    <2>3. LastFor(queue, n, Len(queue))
      BY <1>1, <2>2 DEF LastFor
    <2>4. \A v : (m = "delete" <=> v = NoFile) => Tells(queue, n, v)
      BY <1>1, <2>2, <2>3 DEF Tells
    <2>5. n \in NamesIn(queue)
      <3>1. n = queue[Len(queue)].name
        BY <1>1, <2>2
      <3>2. QED
        BY <2>2, <3>1 DEF NamesIn
    <2>6. QED
      BY <1>1, <2>1, <2>4, <2>5
  <1>3. CASE process = "up" /\ ~same /\ Len(queue) < QueueLimit
    <2>1. queue' = Append(queue, e) /\ missed' = missed \ {n}
      BY <1>3 DEF Notify
    <2>2. queue' \in Seq(Event)
      BY <1>1, <2>1
    <2>3. /\ NamesIn(queue') = NamesIn(queue) \cup {n}
          /\ \A x, v : x # n /\ Tells(queue, x, v) => Tells(queue', x, v)
          /\ \A v : (m = "delete" <=> v = NoFile) => Tells(queue', n, v)
      BY <1>1, <2>1, AppendTells
    <2>4. QED
      BY <1>1, <1>3, <2>1, <2>2, <2>3
  <1>4. CASE ~(process = "up" /\ (same \/ Len(queue) < QueueLimit))
    <2>1. queue' = queue /\ missed' = missed \cup {n}
      BY <1>4 DEF Notify
    <2>2. QED
      BY <1>1, <2>1
  <1>5. QED
    BY <1>2, <1>3, <1>4

\* The others are as much in line as before, and n is, if it is not missed.
LEMMA ChangeInLine ==
  ASSUME TypeOK, AllInLine, NEW n \in Names, NEW v \in Contents,
         mount' = [mount EXCEPT ![n] = v], UNCHANGED <<server, watcher>>,
         \/ \E m \in Masks : (m = "delete" <=> v = NoFile) /\ Notify(m, n)
         \/ missed' = missed \cup {n} /\ UNCHANGED queue
  PROVE  AllInLine'
  <1> SUFFICES ASSUME NEW x \in Watched, x \notin missed'
               PROVE  InLine(x)'
    BY DEF AllInLine
  <1>1. mount \in [Names -> Contents] /\ x \in Names
    BY MountAssumption DEF TypeOK
  <1>2. CASE missed' = missed \cup {n} /\ UNCHANGED queue
    <2>1. x # n /\ InLine(x) /\ mount'[x] = mount[x]
      BY <1>1, <1>2 DEF AllInLine
    <2>2. QED
      BY <1>2, <2>1 DEF InLine, CallAgrees, watcher
  <1>3. CASE \E m \in Masks : (m = "delete" <=> v = NoFile) /\ Notify(m, n)
    <2>1. PICK m \in Masks : (m = "delete" <=> v = NoFile) /\ Notify(m, n)
      BY <1>3
    <2>2. CASE x = n
      <3>1. n \in NamesIn(queue') /\ Tells(queue', n, v) /\ mount'[n] = v
        BY <1>1, <2>1, <2>2, Notified
      <3>2. QED
        BY <2>2, <3>1 DEF InLine
    <2>3. CASE x # n
      <3>1. missed' \in {missed \cup {n}, missed \ {n}}
        BY <2>1, Notified
      <3>2. InLine(x) /\ mount'[x] = mount[x]
        BY <1>1, <2>3, <3>1 DEF AllInLine
      <3>3. /\ x \in NamesIn(queue) <=> x \in NamesIn(queue')
            /\ Tells(queue, x, mount[x]) => Tells(queue', x, mount[x])
        <4>1. NamesIn(queue) \ {n} = NamesIn(queue') \ {n}
          BY <2>1, Notified
        <4>2. Tells(queue, x, mount[x]) => Tells(queue', x, mount[x])
          BY <2>1, <2>3, Notified
        <4>3. QED
          BY <2>3, <4>1, <4>2
      <3>4. QED
        BY <3>2, <3>3 DEF InLine, CallAgrees, watcher
    <2>4. QED
      BY <2>2, <2>3
  <1>4. QED
    BY <1>2, <1>3

\* A change with what the kernel makes of it keeps the invariant.
LEMMA ChangeKeeps ==
  ASSUME IInv, NEW n \in Names, NEW v \in Contents, Change(n, v),
         \/ \E m \in Masks : (m = "delete" <=> v = NoFile) /\ Notify(m, n)
         \/ missed' = missed \cup {n} /\ UNCHANGED queue
  PROVE  IInv'
  <1>1. /\ queue' \in Seq(Event) /\ missed' \subseteq Names
        /\ process # "up" => queue' = queue
    <2>1. queue \in Seq(Event) /\ missed \subseteq Names
      BY DEF IInv, TypeOK
    <2>2. QED
      BY <2>1, Notified DEF IInv
  <1>2. mount' \in [Names -> Contents] /\ version' \in Versions
    BY DEF IInv, TypeOK, Change, Contents
  <1>3. TypeOK'
    BY <1>1, <1>2 DEF IInv, TypeOK, Change, watcher
  <1>4. Places'
    BY <1>1 DEF IInv, Places, Change, watcher
  <1>5. AllInLine'
    BY ChangeInLine DEF IInv, Change
  <1>6. QED
    BY <1>3, <1>4, <1>5 DEF IInv

LEMMA UserMoves ==
  ASSUME IInv, User
  PROVE  IInv'
  <1>1. PICK n \in Names : Create(n) \/ Modify(n) \/ Unlink(n) \/ Move(n)
    BY DEF User
  <1>2. version < MaxVersion => version + 1 \in Contents /\ version + 1 # NoFile
    BY MountAssumption DEF IInv, TypeOK, Contents, Versions
  <1>3. NoFile \in Contents /\ "create" \in Masks /\ "modify" \in Masks /\ "delete" \in Masks
    BY DEF Contents, Masks
  <1>4. CASE Create(n)
    BY <1>2, <1>3, <1>4, ChangeKeeps DEF Create
  <1>5. CASE Modify(n)
    BY <1>2, <1>3, <1>5, ChangeKeeps DEF Modify
  <1>6. CASE Unlink(n)
    BY <1>3, <1>6, ChangeKeeps DEF Unlink
  <1>7. CASE Move(n)
    BY <1>2, <1>3, <1>7, ChangeKeeps DEF Move
  <1>8. QED
    BY <1>1, <1>4, <1>5, <1>6, <1>7

-----------------------------------------------------------------------------
(* The process                                                             *)

LEMMA ProcessMoves ==
  ASSUME IInv, Mount \/ Unmount \/ Exit
  PROVE  IInv'
  <1> USE DEF IInv
  <1>1. CASE Mount
    <2>1. TypeOK' /\ Places'
      BY <1>1 DEF Mount, TypeOK, Places, files, watcher
    <2>2. AllInLine'
      BY <1>1 DEF Mount, AllInLine, InLine, CallAgrees, files, watcher
    <2>3. QED
      BY <2>1, <2>2
  <1>2. CASE Unmount
    <2>1. NamesIn(queue') = {} /\ NamesIn(queue) \subseteq Names /\ queue' \in Seq(Event)
      BY <1>2, EmptyNames, NamesOf DEF Unmount, TypeOK
    <2>2. TypeOK' /\ Places'
      BY <1>2, <2>1 DEF Unmount, TypeOK, Places, files, watcher
    <2>3. AllInLine'
      BY <1>2, <2>1 DEF Unmount, AllInLine, InLine, CallAgrees, files, watcher
    <2>4. QED
      BY <2>2, <2>3
  <1>3. CASE Exit
    <2>1. NamesIn(queue) = {} /\ NamesIn(queue') = {} /\ NamesIn(batch') = {}
      BY <1>3, EmptyNames DEF Exit, Idle, Places
    <2>2. NamesIn(batch) \subseteq Names /\ batch' \in Seq(Event)
      BY <1>3, NamesOf DEF Exit, Idle, TypeOK
    <2>3. cur # NoEvent => cur.name \in Names
      BY MountAssumption DEF TypeOK
    <2>4. /\ server' \in [Names -> Contents \cup {Torn}]
          /\ \A x \in Names : cur = NoEvent \/ x # cur.name => server'[x] = server[x]
      <3>1. CASE cur = NoEvent
        BY <1>3, <3>1 DEF Exit, TypeOK
      <3>2. CASE cur # NoEvent
        <4>1. PICK v \in Broken(cur.name) : server' = [server EXCEPT ![cur.name] = v]
          BY <1>3, <3>2 DEF Exit
        <4>2. v \in Contents \cup {Torn}
          BY <2>3, <3>2, <4>1 DEF Broken, TypeOK, Contents
        <4>3. QED
          BY <4>1, <4>2, <3>2 DEF TypeOK
      <3>3. QED
        BY <3>1, <3>2
    <2>5. TypeOK'
      BY <1>3, <2>2, <2>3, <2>4 DEF Exit, Idle, TypeOK, files, Contents
    <2>6. Places'
      BY <1>3, <2>1 DEF Exit, Idle, Places
    <2>7. AllInLine'
      <3> SUFFICES ASSUME NEW x \in Watched, x \notin missed'
                   PROVE  InLine(x)'
        BY DEF AllInLine
      <3>1. x \in Names /\ x \notin missed /\ x \notin NamesIn(batch) /\ (cur = NoEvent \/ cur.name # x)
        BY <1>3, MountAssumption DEF Exit
      <3>2. server[x] = mount[x]
        BY <2>1, <3>1 DEF AllInLine, InLine
      <3>3. server'[x] = mount'[x] /\ cur' = NoEvent
        BY <1>3, <2>4, <3>1, <3>2 DEF Exit, Idle, files
      <3>4. QED
        BY <2>1, <3>3 DEF InLine
    <2>8. QED
      BY <2>5, <2>6, <2>7
  <1>4. QED
    BY <1>1, <1>2, <1>3

-----------------------------------------------------------------------------
(* The watcher and its events                                              *)

LEMMA ReadKeeps ==
  ASSUME IInv, ReadEvents
  PROVE  IInv'
  <1> USE DEF IInv
  <1>1. PICK l \in 1..Len(queue) : Cut(queue, l, batch', queue')
    <2>1. PICK l \in 1..BatchLimit : /\ l <= Len(queue)
                                     /\ batch' = SubSeq(queue, 1, l)
                                     /\ queue' = SubSeq(queue, l + 1, Len(queue))
      BY DEF ReadEvents
    <2>2. queue \in Seq(Event) /\ l \in 1..Len(queue)
      BY <2>1, MountAssumption DEF TypeOK
    <2>3. Cut(queue, l, batch', queue')
      BY <2>1, <2>2 DEF Cut
    <2>4. QED
      BY <2>2, <2>3
  <1>2. queue' \in Seq(Event) /\ batch' \in Seq(Event)
    BY DEF ReadEvents, TypeOK
  <1>3. queue \in Seq(Event) /\ NamesIn(batch) = {} /\ cur = NoEvent
    BY EmptyNames DEF ReadEvents, TypeOK, Places
  <1>4. NamesIn(queue) = NamesIn(batch') \cup NamesIn(queue')
    BY <1>1, <1>2, <1>3, SplitTells
  <1>5. ASSUME NEW n, NEW v, Tells(queue, n, v)
        PROVE  IF n \in NamesIn(queue') THEN Tells(queue', n, v) ELSE Tells(batch', n, v)
    BY <1>1, <1>2, <1>3, <1>5, SplitTells
  <1>6. process = "up"
    BY DEF ReadEvents, Places
  <1>7. TypeOK' /\ Places'
    BY <1>2, <1>3, <1>6 DEF ReadEvents, TypeOK, Places, files
  <1>8. AllInLine'
    <2> SUFFICES ASSUME NEW x \in Watched, x \notin missed'
                 PROVE  InLine(x)'
      BY DEF AllInLine
    <2>1. InLine(x) /\ mount' = mount /\ server' = server /\ cur' = NoEvent
      BY <1>3 DEF AllInLine, ReadEvents, files
    <2>2. CASE x \in NamesIn(queue)
      <3>1. Tells(queue, x, mount[x])
        BY <2>1, <2>2 DEF InLine
      <3>2. QED
        BY <1>4, <1>5, <2>1, <2>2, <3>1 DEF InLine
    <2>3. CASE x \notin NamesIn(queue)
      BY <1>3, <1>4, <2>1, <2>3 DEF InLine
    <2>4. QED
      BY <2>2, <2>3
  <1>9. QED
    BY <1>7, <1>8

LEMMA EventMoves ==
  ASSUME IInv, BatchDone \/ SkipEvent \/ HandleEvent
  PROVE  IInv'
  <1> USE DEF IInv
  <1>1. CASE BatchDone
    <2>1. TypeOK' /\ Places'
      BY <1>1 DEF BatchDone, Finished, TypeOK, Places, files
    <2>2. AllInLine'
      BY <1>1 DEF BatchDone, Finished, AllInLine, InLine, CallAgrees, TypeOK, files
    <2>3. QED
      BY <2>1, <2>2
  <1>2. CASE SkipEvent \/ HandleEvent
    <2> DEFINE h == Head(batch)
    <2>1. /\ batch \in Seq(Event) /\ batch # <<>> /\ batch' = Tail(batch)
          /\ cur = NoEvent /\ pc = "events" /\ UNCHANGED <<files, server, process, queue, sent, missed>>
      BY <1>2 DEF SkipEvent, HandleEvent, Rest, TypeOK
    <2>2. /\ h \in Event /\ batch' \in Seq(Event)
          /\ NamesIn(batch) = {h.name} \cup NamesIn(batch')
      BY <2>1, TailTells
    <2>3. ASSUME NEW n, NEW v, Tells(batch, n, v)
          PROVE  IF n \in NamesIn(batch') THEN Tells(batch', n, v)
                 ELSE h.name = n /\ (h.mask = "delete" <=> v = NoFile)
      BY <2>1, <2>3, TailTells
    <2> HIDE DEF h
    <2>4. CASE h.name \notin Watched /\ UNCHANGED <<pc, cur>>
      <3>1. TypeOK' /\ Places'
        BY <2>1, <2>2, <2>4 DEF TypeOK, Places, files
      <3>2. AllInLine'
        <4> SUFFICES ASSUME NEW x \in Watched, x \notin missed'
                     PROVE  InLine(x)'
          BY DEF AllInLine
        <4>1. InLine(x) /\ h.name # x
          BY <2>1, <2>4 DEF AllInLine
        <4>2. x \in NamesIn(batch) <=> x \in NamesIn(batch')
          BY <2>2, <4>1
        <4>3. Tells(batch, x, mount[x]) => Tells(batch', x, mount[x])
          BY <2>3, <4>1
        <4>4. QED
          BY <2>1, <2>4, <4>1, <4>2, <4>3 DEF InLine, files
      <3>3. QED
        BY <3>1, <3>2
    <2>5. CASE h.name \in Watched /\ cur' = h /\ pc' = IF h.mask = "delete" THEN "delete" ELSE "store"
      <3>1. cur' # NoEvent
        BY <2>2, <2>5, MountAssumption
      <3>2. TypeOK'
        BY <2>1, <2>2, <2>5, <3>1 DEF TypeOK, files
      <3>3. Places'
        BY <2>1, <2>5 DEF Places
      <3>4. AllInLine'
        <4> SUFFICES ASSUME NEW x \in Watched, x \notin missed'
                     PROVE  InLine(x)'
          BY DEF AllInLine
        <4>1. InLine(x) /\ mount' = mount /\ server' = server /\ queue' = queue
          BY <2>1 DEF AllInLine, files
        <4>2. CASE x \in NamesIn(queue)
          BY <4>1, <4>2 DEF InLine
        <4>3. CASE x \notin NamesIn(queue) /\ x \in NamesIn(batch)
          <5>1. Tells(batch, x, mount[x])
            BY <4>1, <4>3 DEF InLine
          <5>2. IF x \in NamesIn(batch') THEN Tells(batch', x, mount[x])
                ELSE h.name = x /\ (h.mask = "delete" <=> mount[x] = NoFile)
            BY <2>3, <5>1
          <5>3. QED
            BY <2>5, <3>1, <4>1, <4>3, <5>2 DEF InLine, CallAgrees
        <4>4. CASE x \notin NamesIn(queue) /\ x \notin NamesIn(batch)
          BY <2>1, <2>2, <2>5, <4>1, <4>4 DEF InLine
        <4>5. QED
          BY <4>2, <4>3, <4>4
      <3>5. QED
        BY <3>2, <3>3, <3>4
    <2>6. QED
      BY <1>2, <2>4, <2>5 DEF SkipEvent, HandleEvent, h
  <1>3. QED
    BY <1>1, <1>2

-----------------------------------------------------------------------------
(* The watcher and its calls                                               *)

LEMMA CallMoves ==
  ASSUME IInv, StoreNothing \/ StoreReads \/ StoreReturns \/ DeleteReturns \/ CallFails
  PROVE  IInv'
  <1> USE DEF IInv
  <1> DEFINE n == cur.name
  <1>1. /\ pc \in {"store", "sent", "delete"} /\ cur # NoEvent /\ n \in Names
        /\ UNCHANGED <<files, process, queue, batch>>
    BY MountAssumption
    DEF TypeOK, StoreNothing, StoreReads, StoreReturns, DeleteReturns, CallFails
  <1>2. process # "down"
    BY DEF StoreNothing, StoreReads, StoreReturns, DeleteReturns, CallFails, Running
  <1>3. CASE StoreReads
    <2>1. sent' = mount[n] /\ mount[n] \in Contents /\ mount[n] # NoFile
      BY <1>1, <1>3 DEF StoreReads, TypeOK
    <2>2. TypeOK' /\ Places'
      BY <1>1, <1>3, <2>1 DEF StoreReads, TypeOK, Places, files
    <2>3. AllInLine'
      <3> SUFFICES ASSUME NEW x \in Watched, x \notin missed'
                   PROVE  InLine(x)'
        BY DEF AllInLine
      <3>1. InLine(x)
        BY <1>3 DEF AllInLine, StoreReads
      <3>2. QED
        BY <1>3, <2>1, <3>1 DEF StoreReads, InLine, CallAgrees, files
    <2>4. QED
      BY <2>2, <2>3
  <1>4. CASE StoreNothing \/ StoreReturns \/ DeleteReturns \/ CallFails
    <2>1. Return
      BY <1>4 DEF StoreNothing, StoreReturns, DeleteReturns, CallFails
    <2>2. PICK v \in Contents \cup {Torn} : server' = [server EXCEPT ![n] = v]
      <3>1. CASE StoreNothing
        BY <1>1, <3>1 DEF StoreNothing, TypeOK
      <3>2. CASE StoreReturns
        BY <3>2 DEF StoreReturns, TypeOK
      <3>3. CASE DeleteReturns
        BY <3>3 DEF DeleteReturns, Contents
      <3>4. CASE CallFails
        <4>1. PICK v \in Broken(n) : server' = [server EXCEPT ![n] = v]
          BY <3>4 DEF CallFails
        <4>2. v \in Contents \cup {Torn}
          BY <1>1, <4>1 DEF Broken, TypeOK, Contents
        <4>3. QED
          BY <4>1, <4>2
      <3>5. QED
        BY <1>4, <3>1, <3>2, <3>3, <3>4
    <2>3. missed' \in {missed, missed \cup {n}}
      BY <1>4 DEF StoreNothing, StoreReturns, DeleteReturns, CallFails
    <2>4. TypeOK'
      BY <1>1, <2>1, <2>2, <2>3 DEF Return, TypeOK, files, Contents
    <2>5. Places'
      BY <1>1, <1>2, <2>1 DEF Return, Places
    <2>6. AllInLine'
      <3> SUFFICES ASSUME NEW x \in Watched, x \notin missed'
                   PROVE  InLine(x)'
        BY DEF AllInLine
      <3>1. InLine(x) /\ x \in Names
        BY <2>3, MountAssumption DEF AllInLine
      <3>2. CASE x # n
        <4>1. server'[x] = server[x] /\ cur' = NoEvent
          BY <2>1, <2>2, <3>1, <3>2 DEF Return, TypeOK
        <4>2. QED
          BY <1>1, <3>1, <3>2, <4>1 DEF InLine, files
      <3>3. CASE x = n /\ Expected(x)
        BY <1>1, <3>1, <3>3 DEF Expected, InLine, files
      <3>4. CASE x = n /\ ~Expected(x)
        <4>1. CallAgrees(x) /\ ~CallFails
          BY <1>1, <3>1, <3>4 DEF Expected, InLine, CallFails
        <4>2. server'[x] = mount[x]
          BY <1>4, <3>1, <3>4, <4>1
          DEF CallAgrees, StoreNothing, StoreReturns, DeleteReturns, TypeOK
        <4>3. QED
          BY <1>1, <2>1, <3>4, <4>2 DEF Expected, InLine, Return, files
      <3>5. QED
        BY <3>2, <3>3, <3>4
    <2>7. QED
      BY <2>4, <2>5, <2>6
  <1>5. QED
    BY <1>3, <1>4

-----------------------------------------------------------------------------
(* The theorems                                                            *)

LEMMA InitHolds ==
  ASSUME Init
  PROVE  IInv
  <1>1. PICK M \in [Names -> {0, NoFile}] : mount = M /\ server = M
    BY DEF Init
  <1>2. 0 \in Versions
    BY MountAssumption DEF Versions
  <1>3. TypeOK /\ Places
    BY <1>1, <1>2 DEF Init, TypeOK, Places, Contents
  <1>4. NamesIn(queue) = {} /\ NamesIn(batch) = {}
    BY EmptyNames DEF Init
  <1>5. AllInLine
    BY <1>1, <1>4 DEF Init, AllInLine, InLine
  <1>6. QED
    BY <1>3, <1>5 DEF IInv

LEMMA NextHolds ==
  ASSUME IInv, [Next]_vars
  PROVE  IInv'
  <1>1. CASE User
    BY <1>1, UserMoves
  <1>2. CASE Mount \/ Unmount \/ Exit
    BY <1>2, ProcessMoves
  <1>3. CASE Watcher
    BY <1>3, ReadKeeps, EventMoves, CallMoves DEF Watcher
  <1>4. CASE UNCHANGED vars
    BY <1>4 DEF vars, files, watcher, IInv, TypeOK, Places, AllInLine, InLine, CallAgrees
  <1>5. QED
    BY <1>1, <1>2, <1>3, <1>4 DEF Next

LEMMA IInvHolds == Spec => []IInv
  BY InitHolds, NextHolds, PTL DEF Spec

\* Each variable keeps its type, and the watcher calls only for watched files.
THEOREM TypesHold == Spec => []TypeOK
  <1>1. IInv => TypeOK
    BY DEF IInv
  <1>2. QED
    BY IInvHolds, <1>1, PTL

(* dfs-client-p2.cpp:143-181, 207-227.  However the events are batched,    *)
(* merged and delayed, no change of a watched file is forgotten that the   *)
(* kernel queued and whose call did not fail.                              *)
THEOREM NothingForgotten == Spec => []NoChangeForgotten
  <1>1. IInv => NoChangeForgotten
    <2>1. \A q, n : Tells(q, n, mount[n]) <=> Decides(q, n)
      BY DEF Tells, Decides
    <2>2. QED
      BY <2>1 DEF IInv, AllInLine, InLine, NoChangeForgotten, Expected
  <1>2. QED
    BY IInvHolds, <1>1, PTL

=============================================================================
