--------------------------- MODULE TransferProofs ---------------------------
(***************************************************************************)
(* Theorems about Transfer, for every file, any number of clients and all  *)
(* sizes of buffers and connections.  FileArrives speaks of sequences put  *)
(* together; its invariant says the same byte by byte, and adds whose turn *)
(* it is: a client waits, is served and has been served, in this order and *)
(* once.                                                                   *)
(***************************************************************************)
EXTENDS Transfer, SequenceTheorems, TLAPS

\* s is what the file holds after its first o bytes.
Piece(s, o) == o + Len(s) <= Len(File) /\ \A i \in 1..Len(s) : s[i] = File[o + i]

\* How much of the file client c has got or will get from its connection.
Ahead(c) == rcvd[c] + Len(wire[c])

Greater(a, b) == IF a > b THEN a ELSE b

\* What a client has received starts its file, and the rest is as it was.
Streamed(c) ==
  /\ \A i \in 1..rcvd[c] : local[c][i] = File[i]
  /\ Piece(wire[c], rcvd[c])
  /\ Len(local[c]) = Greater(rcvd[c], Len(Old[c]))
  /\ \A i \in 1..Len(Old[c]) : i > rcvd[c] => local[c][i] = Old[c][i]

Waiting(c) == \E i \in 1..Len(backlog) : backlog[i] = c
Once == \A i, j \in 1..Len(backlog) : backlog[i] = backlog[j] => i = j

\* Before its turn a client has nothing, after it the whole file.
Turn(c) ==
  /\ cl[c] = "start" \/ Waiting(c) \/ (srv = "open" /\ c = cur) => Ahead(c) = 0
  /\ cl[c] = "start" => ~Waiting(c) /\ c # cur
  /\ Waiting(c) => c # cur
  /\ c \in ended /\ srv # "exited" =>
       Ahead(c) = Len(File) /\ ~Waiting(c) /\ c # cur /\ cl[c] # "start"
  /\ cl[c] = "done" /\ srv # "exited" => c \in ended /\ wire[c] = <<>>

\* What the server has read goes on where the connection ends.
Serving ==
  /\ srv \in {"open", "read", "send", "close"} => cur \in Clients
  /\ srv \in {"read", "send", "close"} =>
       off = Ahead(cur) + Len(left) /\ Piece(left, Ahead(cur))
  /\ srv \in {"accept", "open", "read", "close"} => left = <<>>
  /\ srv = "close" => off = Len(File)

IInv == TypeOK /\ Once /\ Serving /\ \A c \in Clients : Streamed(c) /\ Turn(c)

-----------------------------------------------------------------------------
(* Sequences                                                               *)

LEMMA Concat ==
  ASSUME NEW s \in Seq(Byte), NEW t \in Seq(Byte)
  PROVE  /\ s \o t \in Seq(Byte) /\ Len(s \o t) = Len(s) + Len(t)
         /\ \A i \in 1..Len(s) : (s \o t)[i] = s[i]
         /\ \A i \in 1..Len(t) : (s \o t)[Len(s) + i] = t[i]
  <1>1. /\ s \o t \in Seq(Byte) /\ Len(s \o t) = Len(s) + Len(t)
        /\ \A i \in 1..(Len(s) + Len(t)) :
             (s \o t)[i] = IF i <= Len(s) THEN s[i] ELSE t[i - Len(s)]
    BY ConcatProperties
  <1>2. ASSUME NEW i \in 1..Len(s) PROVE (s \o t)[i] = s[i]
    BY <1>1
  <1>3. ASSUME NEW i \in 1..Len(t) PROVE (s \o t)[Len(s) + i] = t[i]
    <2>1. Len(s) + i \in 1..(Len(s) + Len(t)) /\ ~(Len(s) + i <= Len(s)) /\ (Len(s) + i) - Len(s) = i
      OBVIOUS
    <2>2. QED
      BY <1>1, <2>1
  <1>4. QED
    BY <1>1, <1>2, <1>3

\* What write leaves in a file.
LEMMA WriteFacts ==
  ASSUME NEW f \in Seq(Byte), NEW o \in Nat, o <= Len(f), NEW d \in Seq(Byte)
  PROVE  /\ WriteAt(f, o, d) \in Seq(Byte)
         /\ Len(WriteAt(f, o, d)) = Greater(o + Len(d), Len(f))
         /\ \A i \in 1..o : WriteAt(f, o, d)[i] = f[i]
         /\ \A i \in 1..Len(d) : WriteAt(f, o, d)[o + i] = d[i]
         /\ \A i \in 1..Len(f) : i > o + Len(d) => WriteAt(f, o, d)[i] = f[i]
  <1> DEFINE a == SubSeq(f, 1, o)
             k == o + Len(d)
             b == SubSeq(f, k + 1, Len(f))
  <1>1. a \in Seq(Byte) /\ Len(a) = o /\ \A i \in 1..o : a[i] = f[i]
    OBVIOUS
  <1>0. k \in Nat /\ Len(f) \in Nat
    OBVIOUS
  <1>2. /\ b \in Seq(Byte) /\ Len(b) = (IF k + 1 <= Len(f) THEN Len(f) - k ELSE 0)
        /\ \A i \in 1..Len(b) : b[i] = f[k + i]
    <2> HIDE DEF k
    <2>1. QED
      BY <1>0
  <1>3. WriteAt(f, o, d) = (a \o d) \o b
    BY DEF WriteAt
  <1> HIDE DEF a, b
  <1> DEFINE ad == a \o d
  <1>4. /\ ad \in Seq(Byte) /\ Len(ad) = k
        /\ \A i \in 1..o : ad[i] = a[i]
        /\ \A i \in 1..Len(d) : ad[o + i] = d[i]
    BY <1>1, Concat
  <1> HIDE DEF ad
  <1>5. /\ ad \o b \in Seq(Byte) /\ Len(ad \o b) = Len(ad) + Len(b)
        /\ \A i \in 1..Len(ad) : (ad \o b)[i] = ad[i]
        /\ \A i \in 1..Len(b) : (ad \o b)[Len(ad) + i] = b[i]
    BY <1>2, <1>4, Concat
  <1>6. WriteAt(f, o, d) = ad \o b
    BY <1>3 DEF ad
  <1>7. \A i \in 1..Len(d) : o + i \in 1..Len(ad)
    BY <1>4
  <1>8. \A i \in 1..o : i \in 1..Len(ad)
    BY <1>4
  <1> DEFINE w == WriteAt(f, o, d)
  <1> HIDE DEF w, k
  <1>9. w = ad \o b
    BY <1>6 DEF w
  <1>10. Len(w) = Greater(k, Len(f))
    <2>1. k + Len(b) = Greater(k, Len(f)) /\ Len(b) \in Nat
      BY <1>0, <1>2 DEF Greater
    <2>2. QED
      BY <1>4, <1>5, <1>9, <2>1
  <1>11. ASSUME NEW i \in 1..Len(f), i > k PROVE w[i] = f[i]
    <2>1. i - k \in 1..Len(b) /\ k + (i - k) = i
      BY <1>0, <1>2, <1>11
    <2>2. w[k + (i - k)] = b[i - k]
      BY <1>4, <1>5, <1>9, <2>1
    <2>3. b[i - k] = f[k + (i - k)]
      BY <1>2, <2>1
    <2>4. QED
      BY <2>1, <2>2, <2>3
  <1>12. w \in Seq(Byte) /\ (\A i \in 1..o : w[i] = f[i]) /\ \A i \in 1..Len(d) : w[o + i] = d[i]
    BY <1>1, <1>4, <1>5, <1>7, <1>8, <1>9
  <1>13. QED
    BY <1>10, <1>11, <1>12 DEF w, k

\* A piece goes from the head of one sequence to the end of another.
LEMMA PieceMoves ==
  ASSUME NEW s \in Seq(Byte), NEW t \in Seq(Byte), NEW o \in Nat, NEW n \in 1..Len(t),
         Piece(s, o), Piece(t, o + Len(s))
  PROVE  /\ s \o SubSeq(t, 1, n) \in Seq(Byte) /\ Len(s \o SubSeq(t, 1, n)) = Len(s) + n
         /\ Piece(s \o SubSeq(t, 1, n), o)
  <1> DEFINE p == SubSeq(t, 1, n)
             q == s \o p
  <1>1. p \in Seq(Byte) /\ Len(p) = n /\ \A i \in 1..n : p[i] = t[i]
    OBVIOUS
  <1> HIDE DEF p
  <1>2. /\ q \in Seq(Byte) /\ Len(q) = Len(s) + n
        /\ \A i \in 1..Len(s) : q[i] = s[i]
        /\ \A i \in 1..n : q[Len(s) + i] = p[i]
    BY <1>1, Concat
  <1> HIDE DEF q
  <1>3. ASSUME NEW i \in 1..Len(q) PROVE q[i] = File[o + i]
    <2>1. CASE i <= Len(s)
      BY <1>2, <2>1 DEF Piece
    <2>2. CASE i > Len(s)
      <3>1. i - Len(s) \in 1..n /\ Len(s) + (i - Len(s)) = i
        BY <1>2, <2>2
      <3>2. q[i] = t[i - Len(s)]
        BY <1>1, <1>2, <3>1
      <3>3. t[i - Len(s)] = File[(o + Len(s)) + (i - Len(s))]
        BY <3>1 DEF Piece
      <3>4. (o + Len(s)) + (i - Len(s)) = o + i
        BY <3>1
      <3>5. QED
        BY <3>2, <3>3, <3>4
    <2>3. QED
      BY <2>1, <2>2
  <1>4. o + Len(q) <= Len(File)
    BY <1>2, TransferAssumption DEF Piece
  <1>5. Piece(q, o)
    BY <1>3, <1>4 DEF Piece
  <1>6. QED
    BY <1>2, <1>5 DEF q, p

\* What stays behind is a piece that begins later.
LEMMA PieceLeft ==
  ASSUME NEW t \in Seq(Byte), NEW o \in Nat, NEW n \in 1..Len(t), Piece(t, o)
  PROVE  /\ SubSeq(t, n + 1, Len(t)) \in Seq(Byte)
         /\ Len(SubSeq(t, n + 1, Len(t))) = Len(t) - n
         /\ Piece(SubSeq(t, n + 1, Len(t)), o + n)
  <1> DEFINE p == SubSeq(t, n + 1, Len(t))
  <1>1. p \in Seq(Byte) /\ Len(p) = Len(t) - n
    OBVIOUS
  <1>2. \A i \in 1..Len(p) : p[i] = t[n + i] /\ n + i \in 1..Len(t)
    BY <1>1
  <1> HIDE DEF p
  <1>3. \A i \in 1..Len(p) : p[i] = File[o + (n + i)] /\ o + (n + i) = (o + n) + i
    BY <1>2 DEF Piece
  <1>4. (o + n) + Len(p) <= Len(File)
    BY <1>1, TransferAssumption DEF Piece
  <1>5. Piece(p, o + n)
    BY <1>3, <1>4 DEF Piece
  <1>6. QED
    BY <1>1, <1>5 DEF p

\* The first o bytes of f, then s, are the start of the file.
LEMMA Joined ==
  ASSUME NEW f \in Seq(Byte), NEW o \in 0..Len(f), NEW s \in Seq(Byte),
         \A i \in 1..o : f[i] = File[i], Piece(s, o)
  PROVE  SubSeq(f, 1, o) \o s = SubSeq(File, 1, o + Len(s))
  <1> DEFINE a == SubSeq(f, 1, o)
             q == a \o s
             g == SubSeq(File, 1, o + Len(s))
  <1>1. a \in Seq(Byte) /\ Len(a) = o /\ \A i \in 1..o : a[i] = f[i]
    OBVIOUS
  <1> HIDE DEF a
  <1>2. /\ q \in Seq(Byte) /\ Len(q) = o + Len(s)
        /\ \A i \in 1..o : q[i] = a[i]
        /\ \A i \in 1..Len(s) : q[o + i] = s[i]
    BY <1>1, Concat
  <1>3. o + Len(s) <= Len(File) /\ o + Len(s) \in Nat
    BY DEF Piece
  <1>4. /\ g \in Seq(Byte) /\ Len(g) = o + Len(s)
        /\ \A i \in 1..(o + Len(s)) : g[i] = File[i]
    BY <1>3, TransferAssumption
  <1> HIDE DEF q, g
  <1>5. ASSUME NEW i \in 1..Len(q) PROVE q[i] = g[i]
    <2>1. i \in 1..(o + Len(s))
      BY <1>2
    <2>2. CASE i <= o
      <3>1. i \in 1..o
        BY <2>1, <2>2
      <3>2. q[i] = a[i] /\ a[i] = f[i] /\ f[i] = File[i]
        BY <1>1, <1>2, <3>1
      <3>3. g[i] = File[i]
        BY <1>4, <2>1
      <3>4. QED
        BY <3>2, <3>3
    <2>3. CASE i > o
      <3>1. i - o \in 1..Len(s) /\ o + (i - o) = i
        BY <2>1, <2>3
      <3>2. s[i - o] = File[o + (i - o)]
        BY <3>1 DEF Piece
      <3>3. QED
        BY <1>2, <1>4, <2>1, <3>1, <3>2
    <2>4. QED
      BY <2>2, <2>3
  <1>6. q = g
    BY <1>2, <1>4, <1>5, SeqEqual
  <1>7. QED
    BY <1>6 DEF q, g, a
-----------------------------------------------------------------------------
(* The server                                                              *)

LEMMA Types ==
  ASSUME IInv, NEW c \in Clients
  PROVE  /\ wire[c] \in Seq(Byte) /\ local[c] \in Seq(Byte) /\ left \in Seq(Byte)
         /\ rcvd[c] \in Nat /\ rcvd[c] <= Len(local[c]) /\ Len(wire[c]) <= Window
         /\ Ahead(c) \in Nat /\ off \in Nat /\ off <= Len(File)
         /\ File \in Seq(Byte) /\ backlog \in Seq(Clients)
         /\ Turn(c) /\ Streamed(c)
  <1>1. wire[c] \in Seq(Byte) /\ rcvd[c] \in Nat
    BY DEF IInv, TypeOK
  <1>2. Ahead(c) \in Nat
    BY <1>1 DEF Ahead
  <1>3. QED
    BY <1>1, <1>2, TransferAssumption DEF IInv, TypeOK

\* A step of the server that sends nothing.
LEMMA ServerFrame ==
  ASSUME IInv, TypeOK', Once', Serving', UNCHANGED <<clientVars, wire>>,
         \A c \in Clients : Turn(c)'
  PROVE  IInv'
  <1>1. \A c \in Clients : Streamed(c)'
    BY DEF IInv, Streamed, Piece, clientVars
  <1>2. QED
    BY <1>1 DEF IInv

LEMMA AcceptKeeps ==
  ASSUME IInv, Accept
  PROVE  IInv'
  <1> DEFINE x == Head(backlog)
  <1>1. /\ backlog \in Seq(Clients) /\ backlog # <<>> /\ x \in Clients
        /\ backlog' = Tail(backlog) /\ cur' = x /\ srv = "accept" /\ srv' = "open"
        /\ UNCHANGED <<opened, off, left, cl, local, rcvd, wire, ended>>
    BY DEF IInv, TypeOK, Accept, clientVars
  <1>2. 1 \in 1..Len(backlog) /\ backlog[1] = x
    BY <1>1
  <1>3. \A i \in 1..Len(backlog') : i + 1 \in 1..Len(backlog) /\ backlog'[i] = backlog[i + 1]
    BY <1>1
  <1>4. backlog' \in Seq(Clients) /\ TypeOK'
    BY <1>1 DEF IInv, TypeOK
  <1> HIDE DEF x
  <1>5. Waiting(x)
    BY <1>2 DEF Waiting
  <1>6. Once'
    <2>1. ASSUME NEW i \in 1..Len(backlog'), NEW j \in 1..Len(backlog'), backlog'[i] = backlog'[j]
          PROVE  i = j
      <3>1. i + 1 = j + 1
        BY <1>3, <2>1 DEF IInv, Once
      <3>2. QED
        BY <3>1
    <2>2. QED
      BY <2>1 DEF Once
  <1>7. ASSUME NEW c \in Clients PROVE Turn(c)'
    <2>1. Waiting(c)' => Waiting(c) /\ c # x
      <3>1. SUFFICES ASSUME NEW i \in 1..Len(backlog'), backlog'[i] = c
                     PROVE  Waiting(c) /\ c # x
        BY DEF Waiting
      <3>2. i + 1 \in 1..Len(backlog) /\ backlog[i + 1] = c /\ i + 1 # 1
        BY <1>3, <3>1
      <3>3. QED
        BY <1>2, <3>2 DEF Waiting, IInv, Once
    <2>2. Turn(c) /\ Turn(x) /\ Ahead(c)' = Ahead(c)
      BY <1>1 DEF IInv, Ahead
    <2>3. c = x => cl[c] # "start" /\ Ahead(c) = 0 /\ c \notin ended
      BY <1>1, <1>5, <2>2 DEF Turn
    <2>4. QED
      BY <1>1, <2>1, <2>2, <2>3 DEF Turn
  <1>8. Serving'
    BY <1>1 DEF IInv, Serving
  <1>9. QED
    BY <1>1, <1>4, <1>6, <1>7, <1>8, ServerFrame DEF clientVars

LEMMA OpenKeeps ==
  ASSUME IInv, Open
  PROVE  IInv'
  <1>1. /\ srv = "open" /\ srv' = "read" /\ opened < MaxFiles /\ opened' = opened + 1 /\ off' = 0
        /\ UNCHANGED <<cur, backlog, left, cl, local, rcvd, wire, ended>> /\ cur \in Clients
    BY DEF Open, IInv, Serving, clientVars
  <1>2. TypeOK'
    BY <1>1, TransferAssumption DEF IInv, TypeOK
  <1>3. Ahead(cur) = 0 /\ \A c \in Clients : Ahead(c)' = Ahead(c) /\ Waiting(c)' = Waiting(c)
    BY <1>1 DEF IInv, Turn, Ahead, Waiting
  <1>4. left = <<>>
    BY <1>1 DEF IInv, Serving
  <1>5. Serving'
    BY <1>1, <1>3, <1>4, TransferAssumption DEF Serving, Piece
  <1>6. \A c \in Clients : Turn(c)'
    BY <1>1, <1>3 DEF IInv, Turn
  <1>7. Once'
    BY <1>1 DEF IInv, Once
  <1>8. QED
    BY <1>1, <1>2, <1>5, <1>6, <1>7, ServerFrame DEF clientVars
LEMMA ExitKeeps ==
  ASSUME IInv, OpenFails \/ ReadFails \/ SendFails
  PROVE  IInv'
  <1>1. /\ srv' = "exited" /\ ended' = Clients
        /\ UNCHANGED <<cur, backlog, opened, off, left, cl, local, rcvd, wire>>
    BY DEF OpenFails, ReadFails, SendFails, Exit, clientVars
  <1>2. TypeOK' /\ Serving' /\ Once'
    BY <1>1 DEF IInv, TypeOK, Serving, Once
  <1>3. \A c \in Clients : Ahead(c)' = Ahead(c) /\ Waiting(c)' = Waiting(c)
    BY <1>1 DEF Ahead, Waiting
  <1>4. \A c \in Clients : Turn(c)'
    BY <1>1, <1>3 DEF IInv, Turn
  <1>5. QED
    BY <1>1, <1>2, <1>4, ServerFrame DEF clientVars

LEMMA ReadKeeps ==
  ASSUME IInv, Read
  PROVE  IInv'
  <1> DEFINE l == Lesser(off + BufSize, Len(File))
             m == SubSeq(File, off + 1, l)
  <1>1. /\ srv = "read" /\ left' = m /\ off' = off + Len(m)
        /\ srv' = IF m = <<>> THEN "close" ELSE "send"
        /\ UNCHANGED <<cur, backlog, opened, cl, local, rcvd, wire, ended>>
    BY DEF Read, clientVars
  <1>2. /\ cur \in Clients /\ left = <<>> /\ off = Ahead(cur) + Len(left)
    BY <1>1 DEF IInv, Serving
  <1>3. off = Ahead(cur) /\ off \in Nat /\ off <= Len(File) /\ File \in Seq(Byte)
    BY <1>2, Types
  <1>4. /\ l \in Nat /\ off <= l /\ l <= Len(File) /\ (l = off => off = Len(File))
    BY <1>3, TransferAssumption DEF Lesser
  <1>5. /\ m \in Seq(Byte) /\ Len(m) = l - off
        /\ \A i \in 1..Len(m) : m[i] = File[off + i]
    <2>1. \A i \in (off + 1)..l : File[i] \in Byte
      BY <1>3, <1>4
    <2>2. off + 1 \in Int /\ l \in Int
      BY <1>3, <1>4
    <2>3. /\ m \in Seq(Byte) /\ Len(m) = IF off + 1 <= l THEN l - (off + 1) + 1 ELSE 0
          /\ \A i \in 1..(l - (off + 1) + 1) : m[i] = File[(off + 1) + i - 1]
      BY <2>1, <2>2, SubSeqProperties
    <2> HIDE DEF m, l
    <2>4. Len(m) = l - off /\ l - (off + 1) + 1 = l - off
      BY <1>3, <1>4, <2>3
    <2>5. \A i \in 1..Len(m) : (off + 1) + i - 1 = off + i
      BY <1>3
    <2>6. QED
      BY <2>3, <2>4, <2>5
  <1> HIDE DEF l, m
  <1>6. off' = l /\ (m = <<>> => off' = Len(File))
    BY <1>1, <1>3, <1>4, <1>5
  <1>7. Piece(m, off)
    BY <1>3, <1>4, <1>5 DEF Piece
  <1>8. TypeOK'
    BY <1>1, <1>4, <1>5, <1>6 DEF IInv, TypeOK
  <1>9. Once' /\ \A c \in Clients : Ahead(c)' = Ahead(c) /\ Waiting(c)' = Waiting(c)
    BY <1>1 DEF IInv, Once, Ahead, Waiting
  <1>10. Piece(left, Ahead(cur))'
    BY <1>1, <1>2, <1>3, <1>7, <1>9 DEF Piece
  <1>11. Serving'
    BY <1>1, <1>2, <1>3, <1>6, <1>9, <1>10 DEF Serving
  <1>12. \A c \in Clients : Turn(c)'
    BY <1>1, <1>9 DEF IInv, Turn
  <1>13. QED
    BY <1>1, <1>8, <1>9, <1>11, <1>12, ServerFrame DEF clientVars

LEMMA CloseKeeps ==
  ASSUME IInv, Close
  PROVE  IInv'
  <1>1. /\ srv = "close" /\ srv' = "accept" /\ cur' = NoClient /\ ended' = ended \cup {cur}
        /\ UNCHANGED <<backlog, opened, off, left, cl, local, rcvd, wire>>
    BY DEF Close, clientVars
  <1>2. /\ cur \in Clients /\ left = <<>> /\ off = Ahead(cur) + Len(left) /\ off = Len(File)
    BY <1>1 DEF IInv, Serving
  <1>3. Ahead(cur) = Len(File)
    BY <1>2, Types
  <1>4. TypeOK' /\ Serving' /\ Once'
    BY <1>1, <1>2 DEF IInv, TypeOK, Serving, Once
  <1>5. \A c \in Clients : Ahead(c)' = Ahead(c) /\ Waiting(c)' = Waiting(c) /\ Turn(c) /\ c # NoClient
    BY <1>1, TransferAssumption DEF IInv, Ahead, Waiting
  <1>6. \A c \in Clients : Turn(c)'
    BY <1>1, <1>2, <1>3, <1>5 DEF Turn
  <1>7. QED
    BY <1>1, <1>4, <1>6, ServerFrame DEF clientVars

LEMMA SendKeeps ==
  ASSUME IInv, Send
  PROVE  IInv'
  <1>1. PICK n \in 1..Lesser(Len(left), Window - Len(wire[cur])) :
          /\ srv = "send" /\ wire' = [wire EXCEPT ![cur] = @ \o SubSeq(left, 1, n)]
          /\ left' = SubSeq(left, n + 1, Len(left))
          /\ srv' = (IF left' = <<>> THEN "read" ELSE "send")
          /\ UNCHANGED <<cur, backlog, opened, off, cl, local, rcvd, ended>>
    BY DEF Send, AfterSend, clientVars
  <1>2. cur \in Clients /\ off = Ahead(cur) + Len(left) /\ Piece(left, Ahead(cur))
    BY <1>1 DEF IInv, Serving
  <1>3. /\ wire[cur] \in Seq(Byte) /\ left \in Seq(Byte) /\ rcvd[cur] \in Nat
        /\ wire \in [Clients -> Seq(Byte)] /\ Turn(cur)
        /\ Piece(wire[cur], rcvd[cur]) /\ Piece(left, rcvd[cur] + Len(wire[cur]))
    BY <1>2, Types DEF Streamed, IInv, TypeOK, Ahead
  <1>4. n \in 1..Len(left) /\ Len(wire[cur]) + n <= Window
    BY <1>3, TransferAssumption DEF Lesser
  <1> DEFINE q == wire[cur] \o SubSeq(left, 1, n)
             r == SubSeq(left, n + 1, Len(left))
  <1>5. q \in Seq(Byte) /\ Len(q) = Len(wire[cur]) + n /\ Piece(q, rcvd[cur])
    BY <1>3, <1>4, PieceMoves
  <1>6. /\ r \in Seq(Byte) /\ Len(r) = Len(left) - n
        /\ Piece(r, (rcvd[cur] + Len(wire[cur])) + n)
    BY <1>3, <1>4, PieceLeft
  <1>7. /\ left' = r /\ wire'[cur] = q /\ wire' \in [Clients -> Seq(Byte)]
        /\ \A c \in Clients \ {cur} : wire'[c] = wire[c]
    BY <1>1, <1>2, <1>3, <1>5
  <1> HIDE DEF q, r
  <1>8. /\ Ahead(cur)' = (rcvd[cur] + Len(wire[cur])) + n
        /\ \A c \in Clients \ {cur} : Ahead(c)' = Ahead(c)
        /\ \A c \in Clients : Waiting(c)' = Waiting(c)
    BY <1>1, <1>3, <1>4, <1>5, <1>7 DEF Ahead, Waiting
  <1>9. TypeOK'
    <2>1. \A c \in Clients : Len(wire'[c]) <= Window
      BY <1>4, <1>5, <1>7 DEF IInv, TypeOK
    <2>2. QED
      BY <1>1, <1>6, <1>7, <2>1 DEF IInv, TypeOK
  <1>10. Once'
    BY <1>1 DEF IInv, Once
  <1>11. Serving'
    <2>1. off' = Ahead(cur)' + Len(left')
      <3>1. off = (rcvd[cur] + Len(wire[cur])) + Len(left)
        BY <1>2 DEF Ahead
      <3>2. Len(left) \in Nat /\ Len(wire[cur]) \in Nat
        BY <1>3
      <3>3. Len(left') = Len(left) - n /\ off' = off
        BY <1>1, <1>6, <1>7
      <3>4. QED
        BY <1>3, <1>8, <3>1, <3>2, <3>3
    <2>2. Piece(left', Ahead(cur)')
      BY <1>6, <1>7, <1>8
    <2>3. QED
      BY <1>1, <1>2, <2>1, <2>2 DEF Serving, Piece
  <1>12. ASSUME NEW c \in Clients PROVE Streamed(c)'
    <2>1. Streamed(c)
      BY DEF IInv
    <2>2. CASE c = cur
      BY <1>1, <1>5, <1>7, <2>1, <2>2 DEF Streamed, Piece
    <2>3. CASE c # cur
      BY <1>1, <1>7, <2>1, <2>3 DEF Streamed, Piece
    <2>4. QED
      BY <2>2, <2>3
  <1>13. ASSUME NEW c \in Clients PROVE Turn(c)'
    <2>1. Turn(c)
      BY DEF IInv
    <2>2. CASE c = cur
      BY <1>1, <1>8, <2>1, <2>2 DEF Turn
    <2>3. CASE c # cur
      BY <1>1, <1>7, <1>8, <2>1, <2>3 DEF Turn
    <2>4. QED
      BY <2>2, <2>3
  <1>14. QED
    BY <1>9, <1>10, <1>11, <1>12, <1>13 DEF IInv
-----------------------------------------------------------------------------
(* The clients                                                             *)

LEMMA ConnectKeeps ==
  ASSUME IInv, NEW c \in Clients, Connect(c)
  PROVE  IInv'
  <1>1. /\ cl[c] = "start" /\ srv # "exited" /\ cl' = [cl EXCEPT ![c] = "recv"]
        /\ backlog' = Append(backlog, c) /\ backlog \in Seq(Clients)
        /\ UNCHANGED <<srv, cur, opened, off, left, local, rcvd, wire, ended>>
    BY DEF Connect, IInv, TypeOK
  <1>2. /\ Len(backlog') = Len(backlog) + 1 /\ backlog'[Len(backlog) + 1] = c
        /\ Len(backlog) \in Nat
        /\ \A i \in 1..Len(backlog) : backlog'[i] = backlog[i]
    BY <1>1
  <1>3. TypeOK'
    BY <1>1 DEF IInv, TypeOK
  <1>4. cl'[c] = "recv" /\ \A b \in Clients \ {c} : cl'[b] = cl[b]
    BY <1>1 DEF IInv, TypeOK
  <1>5. Turn(c) /\ ~Waiting(c)
    BY <1>1 DEF IInv, Turn
  <1>6. Once'
    <2>1. ASSUME NEW i \in 1..Len(backlog'), NEW j \in 1..Len(backlog'), backlog'[i] = backlog'[j]
          PROVE  i = j
      <3>1. CASE i \in 1..Len(backlog) /\ j \in 1..Len(backlog)
        BY <1>2, <2>1, <3>1 DEF IInv, Once
      <3>2. CASE i = Len(backlog) + 1 /\ j \in 1..Len(backlog)
        BY <1>2, <1>5, <2>1, <3>2 DEF Waiting
      <3>3. CASE i \in 1..Len(backlog) /\ j = Len(backlog) + 1
        BY <1>2, <1>5, <2>1, <3>3 DEF Waiting
      <3>4. CASE i = Len(backlog) + 1 /\ j = Len(backlog) + 1
        BY <3>4
      <3>5. QED
        BY <1>2, <3>1, <3>2, <3>3, <3>4
    <2>2. QED
      BY <2>1 DEF Once
  <1>7. ASSUME NEW b \in Clients PROVE Streamed(b)' /\ Turn(b)'
    <2>1. Streamed(b) /\ Turn(b) /\ Ahead(b)' = Ahead(b)
      BY <1>1 DEF IInv, Ahead
    <2>2. b # c => (Waiting(b)' <=> Waiting(b))
      <3>1. Waiting(b) => Waiting(b)'
        BY <1>2 DEF Waiting
      <3>2. ASSUME b # c, NEW i \in 1..Len(backlog'), backlog'[i] = b
            PROVE  Waiting(b)
        <4>1. i \in 1..Len(backlog)
          BY <1>2, <3>2
        <4>2. QED
          BY <1>2, <3>2, <4>1 DEF Waiting
      <3>3. QED
        BY <3>1, <3>2 DEF Waiting
    <2>3. Streamed(b)'
      BY <1>1, <2>1 DEF Streamed, Piece
    <2>4. Turn(b)'
      BY <1>1, <1>4, <1>5, <2>1, <2>2 DEF Turn
    <2>5. QED
      BY <2>3, <2>4
  <1>8. Serving'
    BY <1>1 DEF IInv, Serving, Ahead, Piece
  <1>9. QED
    BY <1>3, <1>6, <1>7, <1>8 DEF IInv

LEMMA ReceiveKeeps ==
  ASSUME IInv, NEW c \in Clients, Receive(c)
  PROVE  IInv'
  <1>1. PICK n \in 1..Lesser(BufSize, Len(wire[c])) :
          /\ cl[c] = "recv"
          /\ local' = [local EXCEPT ![c] = WriteAt(@, rcvd[c], SubSeq(wire[c], 1, n))]
          /\ rcvd' = [rcvd EXCEPT ![c] = @ + n]
          /\ wire' = [wire EXCEPT ![c] = SubSeq(@, n + 1, Len(@))]
          /\ UNCHANGED <<srv, cur, backlog, opened, off, left, cl, ended>>
    BY DEF Receive, serverVars
  <1> DEFINE o == rcvd[c]
             d == SubSeq(wire[c], 1, n)
             w == WriteAt(local[c], o, d)
             r == SubSeq(wire[c], n + 1, Len(wire[c]))
  <1>2. /\ wire[c] \in Seq(Byte) /\ local[c] \in Seq(Byte) /\ o \in Nat /\ o <= Len(local[c])
        /\ Streamed(c) /\ Len(wire[c]) <= Window
    BY Types
  <1>3. n \in 1..Len(wire[c])
    BY <1>2, TransferAssumption DEF Lesser
  <1>4. d \in Seq(Byte) /\ Len(d) = n /\ \A i \in 1..n : d[i] = wire[c][i]
    BY <1>2, <1>3
  <1>5. r \in Seq(Byte) /\ Len(r) = Len(wire[c]) - n /\ Piece(r, o + n)
    BY <1>2, <1>3, PieceLeft DEF Streamed
  <1>6. /\ local'[c] = w /\ wire'[c] = r /\ rcvd'[c] = o + n
        /\ \A b \in Clients \ {c} : local'[b] = local[b] /\ wire'[b] = wire[b] /\ rcvd'[b] = rcvd[b]
    BY <1>1 DEF IInv, TypeOK
  <1>7. /\ local' \in [Clients -> Seq(Byte)] /\ wire' \in [Clients -> Seq(Byte)]
        /\ rcvd' \in [Clients -> Nat] /\ Len(w) = Greater(o + n, Len(local[c]))
        /\ \A i \in 1..o : w[i] = local[c][i]
        /\ \A i \in 1..n : w[o + i] = d[i]
        /\ \A i \in 1..Len(local[c]) : i > o + n => w[i] = local[c][i]
    <2> HIDE DEF d, r
    <2>1. /\ w \in Seq(Byte) /\ Len(w) = Greater(o + Len(d), Len(local[c]))
          /\ \A i \in 1..o : w[i] = local[c][i]
          /\ \A i \in 1..Len(d) : w[o + i] = d[i]
          /\ \A i \in 1..Len(local[c]) : i > o + Len(d) => w[i] = local[c][i]
      BY <1>2, <1>4, WriteFacts
    <2>2. local' = [local EXCEPT ![c] = w] /\ wire' = [wire EXCEPT ![c] = r]
      BY <1>1 DEF d, r
    <2> HIDE DEF w
    <2>3. local' \in [Clients -> Seq(Byte)] /\ wire' \in [Clients -> Seq(Byte)]
      BY <1>5, <2>1, <2>2 DEF IInv, TypeOK
    <2>4. rcvd' \in [Clients -> Nat]
      BY <1>1, <1>2, <1>3 DEF IInv, TypeOK
    <2>5. QED
      BY <1>4, <2>1, <2>3, <2>4
  <1> HIDE DEF d, r, w
  <1>a. o + n <= Len(w)
    BY <1>2, <1>3, <1>7 DEF Greater
  <1>8. TypeOK'
    <2>1. \A b \in Clients : Len(wire'[b]) <= Window /\ rcvd'[b] <= Len(local'[b])
      <3>1. Len(r) \in Nat /\ Len(wire[c]) \in Nat /\ Window \in Nat
        BY <1>2, <1>5, TransferAssumption
      <3>2. Len(r) <= Window
        BY <1>2, <1>3, <1>5, <3>1
      <3>3. QED
        BY <1>6, <1>7, <1>a, <3>2 DEF IInv, TypeOK
    <2>2. QED
      BY <1>1, <1>7, <2>1 DEF IInv, TypeOK
  <1>9. \A b \in Clients : Ahead(b)' = Ahead(b)
    <2>1. Ahead(c)' = Ahead(c)
      <3>1. Len(r) = Len(wire[c]) - n /\ Len(wire[c]) \in Nat
        BY <1>2, <1>5
      <3>2. (o + n) + Len(r) = o + Len(wire[c])
        BY <1>2, <1>3, <3>1
      <3>3. QED
        BY <1>6, <3>2 DEF Ahead
    <2>2. QED
      BY <1>6, <2>1 DEF Ahead
  <1>10. ASSUME NEW b \in Clients PROVE Streamed(b)'
    <2>1. CASE b = c
      <3>1. ASSUME NEW i \in 1..(o + n) PROVE w[i] = File[i]
        <4>1. CASE i <= o
          BY <1>2, <1>7, <4>1 DEF Streamed
        <4>2. CASE i > o
          <5>1. i - o \in 1..n /\ o + (i - o) = i /\ i - o \in 1..Len(wire[c])
            BY <1>2, <1>3, <4>2
          <5>2. w[i] = wire[c][i - o]
            BY <1>4, <1>7, <5>1
          <5>3. wire[c][i - o] = File[o + (i - o)]
            BY <1>2, <5>1 DEF Streamed, Piece
          <5>4. QED
            BY <5>1, <5>2, <5>3
        <4>3. QED
          BY <1>2, <1>3, <4>1, <4>2
      <3>2. Old[c] \in Seq(Byte) /\ Len(Old[c]) \in Nat
        BY TransferAssumption
      <3>3. Len(w) = Greater(o + n, Len(Old[c]))
        <4>1. Len(local[c]) = Greater(o, Len(Old[c])) /\ Len(w) = Greater(o + n, Len(local[c]))
          BY <1>2, <1>7 DEF Streamed
        <4> HIDE DEF o
        <4>2. o \in Nat /\ n \in Nat
          BY <1>2, <1>3
        <4>3. QED
          BY <3>2, <4>1, <4>2 DEF Greater
      <3>4. ASSUME NEW i \in 1..Len(Old[c]), i > o + n PROVE w[i] = Old[c][i]
        <4>1. i \in 1..Len(local[c]) /\ i > o
          BY <1>2, <1>3, <3>2, <3>4 DEF Streamed, Greater
        <4>2. QED
          BY <1>2, <1>7, <3>4, <4>1 DEF Streamed
      <3>5. QED
        BY <1>5, <1>6, <2>1, <3>1, <3>3, <3>4 DEF Streamed, Piece
    <2>2. CASE b # c
      BY <1>6, <2>2 DEF IInv, Streamed, Piece
    <2>3. QED
      BY <2>1, <2>2
  <1>11. ASSUME NEW b \in Clients PROVE Turn(b)'
    <2>1. Turn(b) /\ (Waiting(b)' <=> Waiting(b)) /\ Ahead(b)' = Ahead(b)
      BY <1>1, <1>9 DEF IInv, Waiting
    <2>2. QED
      BY <1>1, <1>6, <2>1 DEF Turn
  <1>12. Serving'
    BY <1>1, <1>9 DEF IInv, Serving, Piece
  <1>13. Once'
    BY <1>1 DEF IInv, Once
  <1>14. QED
    BY <1>8, <1>10, <1>11, <1>12, <1>13 DEF IInv

\* A client that has the end of its connection, or leaves.
LEMMA EndKeeps ==
  ASSUME IInv, NEW c \in Clients, Finish(c) \/ Leave(c)
  PROVE  IInv'
  <1>1. /\ cl' = [cl EXCEPT ![c] = "done"] \/ cl' = [cl EXCEPT ![c] = "gone"]
        /\ UNCHANGED <<srv, cur, backlog, opened, off, left, local, rcvd, wire, ended>>
    BY DEF Finish, Leave, serverVars
  <1>2. TypeOK' /\ Once' /\ Serving'
    BY <1>1 DEF IInv, TypeOK, Once, Serving, Ahead, Piece
  <1>3. /\ cl[c] = "recv" /\ cl'[c] \in {"done", "gone"} /\ \A b \in Clients \ {c} : cl'[b] = cl[b]
        /\ cl'[c] = "done" => wire[c] = <<>> /\ c \in ended
    BY DEF IInv, TypeOK, Finish, Leave
  <1>4. ASSUME NEW b \in Clients PROVE Streamed(b)' /\ Turn(b)'
    <2>1. /\ Streamed(b) /\ Turn(b) /\ Ahead(b)' = Ahead(b) /\ (Waiting(b)' <=> Waiting(b))
      BY <1>1 DEF IInv, Ahead, Waiting
    <2>2. Streamed(b)'
      BY <1>1, <2>1 DEF Streamed, Piece
    <2>3. Turn(b)'
      BY <1>1, <1>3, <2>1 DEF Turn
    <2>4. QED
      BY <2>2, <2>3
  <1>5. QED
    BY <1>2, <1>4 DEF IInv

-----------------------------------------------------------------------------
(* The theorem                                                             *)

LEMMA IInvInit == Init => IInv
  <1> SUFFICES ASSUME Init PROVE IInv
    OBVIOUS
  <1>1. TypeOK
    BY TransferAssumption DEF Init, TypeOK
  <1>2. \A c \in Clients : Streamed(c) /\ Turn(c)
    <2>1. ASSUME NEW c \in Clients PROVE Streamed(c) /\ Turn(c)
      <3>1. /\ cl[c] = "start" /\ wire[c] = <<>> /\ rcvd[c] = 0 /\ backlog = <<>> /\ ended = {}
            /\ srv = "accept" /\ c # cur /\ Len(File) \in Nat
        BY TransferAssumption DEF Init
      <3>2. Ahead(c) = 0 /\ ~Waiting(c)
        BY <3>1 DEF Ahead, Waiting
      <3>3. Streamed(c)
        <4>1. local[c] = Old[c] /\ Len(Old[c]) \in Nat
          BY TransferAssumption DEF Init
        <4>2. QED
          BY <3>1, <4>1 DEF Streamed, Piece, Greater
      <3>4. Turn(c)
        BY <3>1, <3>2 DEF Turn
      <3>5. QED
        BY <3>3, <3>4
    <2>2. QED
      BY <2>1
  <1>3. QED
    BY <1>1, <1>2 DEF Init, IInv, Once, Serving

LEMMA IInvNext == IInv /\ [Next]_vars => IInv'
  <1> SUFFICES ASSUME IInv, [Next]_vars PROVE IInv'
    OBVIOUS
  <1>1. CASE ServerStep
    BY <1>1, AcceptKeeps, OpenKeeps, ExitKeeps, ReadKeeps, SendKeeps, CloseKeeps DEF ServerStep
  <1>2. ASSUME NEW c \in Clients, ClientStep(c) \/ Connect(c) \/ Leave(c) PROVE IInv'
    BY <1>2, ConnectKeeps, ReceiveKeeps, EndKeeps DEF ClientStep
  <1>3. CASE UNCHANGED vars
    <2>1. TypeOK' /\ Once' /\ Serving'
      BY <1>3 DEF vars, serverVars, clientVars, IInv, TypeOK, Once, Serving, Ahead, Piece
    <2>2. \A c \in Clients : Streamed(c)' /\ Turn(c)'
      BY <1>3 DEF vars, serverVars, clientVars, IInv, Streamed, Turn, Ahead, Piece, Waiting
    <2>3. QED
      BY <2>1, <2>2 DEF IInv
  <1>4. QED
    BY <1>1, <1>2, <1>3 DEF Next

LEMMA IInvArrives == IInv => FileArrives
  <1> SUFFICES ASSUME IInv PROVE FileArrives
    OBVIOUS
  <1>1. ASSUME NEW c \in Clients
        PROVE  SubSeq(local[c], 1, rcvd[c]) \o wire[c] = SubSeq(File, 1, rcvd[c] + Len(wire[c]))
    <2>1. /\ local[c] \in Seq(Byte) /\ rcvd[c] \in 0..Len(local[c]) /\ wire[c] \in Seq(Byte)
          /\ Streamed(c)
      BY Types
    <2>2. QED
      BY <2>1, Joined DEF Streamed
  <1>2. ASSUME srv \in {"read", "send", "close"}
        PROVE  SubSeq(local[cur], 1, rcvd[cur]) \o wire[cur] \o left = SubSeq(File, 1, off)
    <2>1. cur \in Clients /\ off = Ahead(cur) + Len(left) /\ Piece(left, Ahead(cur))
      BY <1>2 DEF IInv, Serving
    <2>2. left \in Seq(Byte) /\ Ahead(cur) \in Nat /\ off \in Nat /\ off <= Len(File) /\ File \in Seq(Byte)
      BY <2>1, Types
    <2> DEFINE g == SubSeq(File, 1, Ahead(cur))
    <2>3. SubSeq(local[cur], 1, rcvd[cur]) \o wire[cur] = g
      BY <1>1, <2>1 DEF Ahead
    <2>4. Ahead(cur) \in 0..Len(File) /\ SubSeq(File, 1, Ahead(cur)) \o left = SubSeq(File, 1, off)
      <3>1. Ahead(cur) \in 0..Len(File)
        BY <2>1, <2>2
      <3>2. QED
        BY <2>1, <2>2, <3>1, Joined
    <2> HIDE DEF g
    <2>5. QED
      BY <2>3, <2>4 DEF g
  <1>3. ASSUME NEW c \in Clients, cl[c] = "done", srv # "exited"
        PROVE  rcvd[c] = Len(File) /\ local[c] = File \o OldTail(c)
    <2> DEFINE f == local[c]
               l == Len(File)
               m == Len(Old[c])
               t == SubSeq(Old[c], l + 1, m)
    <2>1. wire[c] = <<>> /\ Ahead(c) = Len(File)
      BY <1>3 DEF IInv, Turn
    <2>2. /\ f \in Seq(Byte) /\ rcvd[c] = l /\ File \in Seq(Byte) /\ l \in Nat /\ Streamed(c)
      BY <2>1, Types DEF Ahead
    <2>3. Old[c] \in Seq(Byte) /\ m \in Nat
      BY TransferAssumption
    <2>4. /\ t \in Seq(Byte) /\ Len(t) = (IF l + 1 <= m THEN m - l ELSE 0)
          /\ \A i \in 1..Len(t) : t[i] = Old[c][l + i]
      BY <2>2, <2>3
    <2> HIDE DEF t
    <2>5. /\ File \o t \in Seq(Byte) /\ Len(File \o t) = l + Len(t)
          /\ \A i \in 1..l : (File \o t)[i] = File[i]
          /\ \A i \in 1..Len(t) : (File \o t)[l + i] = t[i]
      BY <2>2, <2>4, Concat
    <2>6. Len(f) = Greater(l, m) /\ (\A i \in 1..l : f[i] = File[i])
          /\ \A i \in 1..m : i > l => f[i] = Old[c][i]
      BY <2>2 DEF Streamed
    <2> HIDE DEF f, l, m
    <2>7. Len(f) = Len(File \o t)
      BY <2>2, <2>3, <2>4, <2>5, <2>6 DEF Greater
    <2>8. ASSUME NEW i \in 1..Len(f) PROVE f[i] = (File \o t)[i]
      <3>1. CASE i <= l
        BY <2>2, <2>5, <2>6, <3>1
      <3>2. CASE i > l
        <4>1. i \in 1..m /\ i - l \in 1..Len(t) /\ l + (i - l) = i
          BY <2>2, <2>3, <2>4, <2>6, <3>2 DEF Greater
        <4>2. f[i] = Old[c][i]
          BY <2>6, <3>2, <4>1
        <4>3. (File \o t)[l + (i - l)] = t[i - l] /\ t[i - l] = Old[c][l + (i - l)]
          BY <2>4, <2>5, <4>1
        <4>4. l + (i - l) = i
          BY <4>1
        <4>5. (File \o t)[i] = Old[c][i]
          BY <4>3, <4>4
        <4>6. QED
          BY <4>2, <4>5
      <3>3. i \in Int /\ l \in Int
        BY <2>2, <2>3, <2>6 DEF Greater
      <3>4. i <= l \/ i > l
        BY <3>3
      <3>5. QED
        BY <3>1, <3>2, <3>4, Zenon
    <2>9. f = File \o t
      BY <2>2, <2>5, <2>7, <2>8, SeqEqual
    <2>10. QED
      BY <2>2, <2>9 DEF OldTail, f, l, m, t
  <1>4. QED
    BY <1>1, <1>2, <1>3 DEF FileArrives

(* transferserver.c:32-52, 136 with transferclient.c:80, 106-109.  For     *)
(* every file and every size of buffers, however sends and receives are    *)
(* cut, a client's file, its connection and the server's buffer add up to  *)
(* the file, and who sees the end of its connection has all of it, before  *)
(* what was longer in its own, unless the server has exited.               *)
THEOREM WholeFile == Spec => []FileArrives
  BY IInvInit, IInvNext, IInvArrives, PTL DEF Spec

\* The values that each variable takes; a connection is never overfull.
THEOREM TypesHold == Spec => []TypeOK
  <1>1. IInv => TypeOK
    BY DEF IInv
  <1>2. QED
    BY <1>1, IInvInit, IInvNext, PTL DEF Spec
=============================================================================
