--------------------------- MODULE GfServerProofs ---------------------------
(***************************************************************************)
(* Theorems about GfServer, for any number of clients and descriptors, all *)
(* requests and files.  Clients have their turns one after the other: one  *)
(* waits, is served, and has been served, once.  The invariant says what   *)
(* each has been told before, during and after its own turn, which is      *)
(* nothing, a part of an answer together with what is left to send, and    *)
(* an answer.                                                              *)
(***************************************************************************)
EXTENDS GfServer, SequenceTheorems, TLAPS

CONSTANT Byte \* what files hold

\* c is in the backlog; no client is in it twice.
Waiting(c) == \E i \in 1..Len(backlog) : backlog[i] = c
Once == \A i, j \in 1..Len(backlog) : backlog[i] = backlog[j] => i = j

Words == Byte \cup {"OK", "INVALID", "FILE_NOT_FOUND", "eol"}

\* The handler finds a file, which is bytes, or finds none.
FilesHoldBytes == Contents # {} /\ \A f \in Contents : f = NoFile \/ f \in Seq(Byte)

Shapes ==
  /\ backlog \in Seq(Clients) /\ Once /\ accepted \subseteq Clients
  /\ st \in {"accept", "recv", "send", "exited", "killed", "crashed"}
  /\ written \in [Clients -> {<<>>} \cup UNION {Starts(q) : q \in Requests}]
  /\ conn \in [Clients -> {"none", "open", "closed", "reset"}]
  /\ got \in [Clients -> Seq(Words)]

\* The client that is served.
Served ==
  /\ st \in {"accept", "exited"} => cur = NoClient
  /\ st \in {"recv", "send", "killed", "crashed"} => cur \in accepted
  /\ st = "killed" => conn[cur] # "open"
  /\ st = "send" => left \in Seq(Byte)

\* What a client has been told before, during and after its turn.
Told(c) ==
  /\ Waiting(c) => c \notin accepted
  /\ Waiting(c) \/ c \in accepted => conn[c] # "none"
  /\ c \notin accepted \/ (c = cur /\ st \in {"recv", "crashed"}) => got[c] = <<>>
  /\ conn[c] = "open" /\ c \in accepted /\ c # cur => got[c] \in Answers(c)
  /\ conn[c] = "open" /\ c = cur /\ st = "send" => got[c] \o left \in Answers(c)
  /\ conn[c] = "open" /\ c \in accepted /\ (c # cur \/ st = "send") => written[c] # <<>>

SInv == Shapes /\ Served /\ \A c \in Clients : Told(c)

\* The oldest of the backlog leaves it.
LEMMA HeadLeaves ==
  ASSUME backlog \in Seq(Clients), backlog # <<>>, Once, backlog' = Tail(backlog)
  PROVE  /\ Head(backlog) \in Clients /\ Waiting(Head(backlog))
         /\ backlog' \in Seq(Clients) /\ Once'
         /\ \A c : Waiting(c)' => Waiting(c) /\ c # Head(backlog)
  <1>1. 1 \in 1..Len(backlog) /\ backlog[1] = Head(backlog) /\ Head(backlog) \in Clients
    OBVIOUS
  <1>2. /\ backlog' \in Seq(Clients) /\ Len(backlog') = Len(backlog) - 1 /\ Len(backlog) \in Nat
        /\ \A i \in 1..Len(backlog') : backlog'[i] = backlog[i + 1] /\ i + 1 \in 1..Len(backlog)
    BY HeadTailProperties
  <1>3. Once'
    <2>1. ASSUME NEW i \in 1..Len(backlog'), NEW j \in 1..Len(backlog'), backlog'[i] = backlog'[j]
          PROVE  i = j
      <3>1. i + 1 = j + 1
        BY <1>2, <2>1 DEF Once
      <3>2. QED
        BY <1>2, <3>1
    <2>2. QED
      BY <2>1 DEF Once
  <1>4. ASSUME NEW c, Waiting(c)' PROVE Waiting(c) /\ c # Head(backlog)
    <2>1. PICK i \in 1..Len(backlog') : backlog'[i] = c
      BY <1>4 DEF Waiting
    <2>2. i + 1 \in 1..Len(backlog) /\ backlog[i + 1] = c /\ i + 1 # 1
      BY <1>2, <2>1
    <2>3. QED
      BY <1>1, <2>2 DEF Waiting, Once
  <1>5. QED
    BY <1>1, <1>2, <1>3, <1>4 DEF Waiting

\* A client comes to the backlog.
LEMMA OneArrives ==
  ASSUME backlog \in Seq(Clients), Once, NEW c \in Clients, ~Waiting(c), backlog' = Append(backlog, c)
  PROVE  /\ backlog' \in Seq(Clients) /\ Once'
         /\ \A b : Waiting(b)' => Waiting(b) \/ b = c
  <1> DEFINE n == Len(backlog)
  <1>1. /\ backlog' \in Seq(Clients) /\ Len(backlog') = n + 1 /\ n \in Nat /\ backlog'[n + 1] = c
        /\ \A i \in 1..n : backlog'[i] = backlog[i]
    OBVIOUS
  <1>2. \A i \in 1..n : backlog[i] # c
    BY DEF Waiting
  <1>3. \A i \in 1..(n + 1) : i \in 1..n \/ i = n + 1
    BY <1>1
  <1>4. Once'
    <2>1. ASSUME NEW i \in 1..(n + 1), NEW j \in 1..(n + 1), backlog'[i] = backlog'[j]
          PROVE  i = j
      BY <1>1, <1>2, <1>3, <2>1 DEF Once
    <2>2. QED
      BY <1>1, <2>1 DEF Once
  <1>5. QED
    BY <1>1, <1>3, <1>4 DEF Waiting

\* What one recv returns is at most three words.
LEMMA AtMostThree ==
  ASSUME NEW q \in Requests, NEW w \in Starts(q)
  PROVE  w # <<>> /\ Len(w) \in Nat /\ Len(w) <= 3 /\ \E T : w \in Seq(T)
  <1> DEFINE S == {q[1], q[2], q[3]}
  <1>1. \A n \in 0..3 : SubSeq(q, 1, n) \in Seq(S) /\ Len(SubSeq(q, 1, n)) = n
    <2> SUFFICES ASSUME NEW n \in 0..3 PROVE SubSeq(q, 1, n) \in Seq(S) /\ Len(SubSeq(q, 1, n)) = n
      OBVIOUS
    <2>1. \A i \in 1..n : q[i] \in S
      OBVIOUS
    <2> HIDE DEF S
    <2>2. /\ SubSeq(q, 1, n) \in Seq(S)
          /\ Len(SubSeq(q, 1, n)) = (IF 1 <= n THEN n - 1 + 1 ELSE 0)
      BY <2>1, SubSeqProperties
    <2>3. QED
      BY <2>2
  <1> HIDE DEF S
  <1>2. ASSUME NEW n \in 1..3, w = SubSeq(q, 1, n)
        PROVE  w # <<>> /\ Len(w) \in Nat /\ Len(w) <= 3 /\ \E T : w \in Seq(T)
    <2>1. w \in Seq(S) /\ Len(w) = n
      BY <1>1, <1>2
    <2>2. QED
      BY <2>1, EmptySeq
  <1>3. ASSUME NEW n \in 1..3, NEW v, w = Append(SubSeq(q, 1, n - 1), v)
        PROVE  w # <<>> /\ Len(w) \in Nat /\ Len(w) <= 3 /\ \E T : w \in Seq(T)
    <2> DEFINE T == S \cup {v}
               a == SubSeq(q, 1, n - 1)
    <2>1. n - 1 \in 0..3
      OBVIOUS
    <2>2. a \in Seq(T) /\ Len(a) = n - 1
      BY <1>1, <2>1, SeqMonotonic
    <2> HIDE DEF a
    <2>3. Append(a, v) \in Seq(T) /\ Len(Append(a, v)) = n
      BY <2>2, AppendProperties
    <2>4. w = Append(a, v)
      BY <1>3 DEF a
    <2> HIDE DEF T
    <2>5. w \in Seq(T) /\ Len(w) = n
      BY <2>3, <2>4
    <2>6. w # <<>>
      BY <2>5
    <2>7. QED
      BY <2>5, <2>6
  <1>4. QED
    BY <1>2, <1>3 DEF Starts

LEMMA ReceivedWords ==
  ASSUME Shapes, NEW c \in Clients
  PROVE  Len(written[c]) \in Nat /\ Len(written[c]) <= 3
  <1>1. CASE written[c] = <<>>
    BY <1>1
  <1>2. CASE \E q \in Requests : written[c] \in Starts(q)
    BY <1>2, AtMostThree
  <1>3. QED
    BY <1>1, <1>2 DEF Shapes

\* The words of a right request.
RightWords == <<"GETFILE", "GET", "/">>

LEMMA AnswersTo ==
  ASSUME NEW c
  PROVE  /\ written[c] = RightWords =>
              \A h \in Headers("OK"), f \in Contents \ {NoFile} : h \o f \in Answers(c)
         /\ written[c] = RightWords /\ NoFile \in Contents =>
              Headers("FILE_NOT_FOUND") \subseteq Answers(c)
         /\ written[c] # RightWords => Answers(c) = Headers("INVALID")
  <1> DEFINE W == {h \o f : h \in Headers("OK"), f \in Contents \ {NoFile}}
             M == IF NoFile \in Contents THEN Headers("FILE_NOT_FOUND") ELSE {}
  <1>1. Answers(c) = IF written[c] # RightWords THEN Headers("INVALID") ELSE W \cup M
    BY DEF Answers, RightWords
  <1>2. \A h \in Headers("OK"), f \in Contents \ {NoFile} : h \o f \in W
    OBVIOUS
  <1>3. NoFile \in Contents => M = Headers("FILE_NOT_FOUND")
    OBVIOUS
  <1> HIDE DEF W, M
  <1>4. QED
    BY <1>1, <1>2, <1>3

\* Which requests are refused.
LEMMA RefusedOrRight ==
  ASSUME Shapes, cur \in Clients
  PROVE  /\ Refused(Received) => Received # RightWords /\ Received # <<>>
         /\ Handled => Received = RightWords
  <1> DEFINE q == written[cur]
             r == RightWords
             S == {q[1], q[2], q[3], "GETFILE", "GET", "/"}
  <1>1. Len(q) \in Nat /\ Len(q) <= 3 /\ Received = q
    BY ReceivedWords DEF Received
  <1>2. r \in Seq(S) /\ Len(r) = 3 /\ r[1] = "GETFILE" /\ r[2] = "GET" /\ r[3] = "/"
    BY DEF RightWords
  <1>3. Refused(q) => q # r /\ q # <<>>
    <2> HIDE DEF r
    <2>1. QED
      BY <1>2 DEF Refused, WrongMethod, WrongPath
  <1>4. ASSUME Handled PROVE q = r
    <2>0. Len(Received) >= 3 /\ ~Refused(Received)
      BY <1>4 DEF Handled
    <2>1. Len(q) = 3 /\ ~Refused(q)
      <3>1. Received = q
        BY <1>1
      <3> HIDE DEF q
      <3>2. ~Refused(q)
        BY <2>0, <3>1
      <3>3. Len(q) >= 3 /\ Len(q) \in Nat /\ Len(q) <= 3
        BY <1>1, <2>0, <3>1
      <3>4. Len(q) = 3
        <4>1. \A n \in Nat : n >= 3 /\ n <= 3 => n = 3
          OBVIOUS
        <4>2. QED
          BY <3>3, <4>1
      <3>5. QED
        BY <3>2, <3>4
    <2>2. q # <<>>
      BY <2>1
    <2>3. q[1] = "GETFILE" /\ q[2] = "GET" /\ q[3] = "/"
      BY <2>1, <2>2 DEF Refused, WrongMethod, WrongPath
    <2>4. q \in Seq(S)
      <3>0. SubSeq(q, 1, 3) \in Seq(S) /\ q = SubSeq(q, 1, 3)
        <4>1. \A i \in 1..3 : q[i] \in S
          OBVIOUS
        <4>2. \E T : q \in Seq(T)
          <5>1. CASE q = <<>>
            BY <2>2, <5>1
          <5>2. CASE \E p \in Requests : q \in Starts(p)
            BY <5>2, AtMostThree
          <5>3. QED
            BY <5>1, <5>2 DEF Shapes
        <4> HIDE DEF q, S
        <4>3. SubSeq(q, 1, 3) \in Seq(S)
          BY <4>1, SubSeqProperties
        <4>4. q = SubSeq(q, 1, 3)
          BY <2>1, <4>2, SubSeqFull
        <4>5. QED
          BY <4>3, <4>4
      <3>1. QED
        BY <3>0
    <2>5. \A i \in 1..3 : q[i] = r[i]
      <3>1. \A i \in 1..3 : i = 1 \/ i = 2 \/ i = 3
        OBVIOUS
      <3> HIDE DEF q, r, S
      <3>2. QED
        BY <1>2, <2>3, <3>1
    <2> HIDE DEF q, r, S
    <2>6. QED
      BY <1>2, <2>1, <2>4, <2>5, SeqEqual
  <1>5. QED
    BY <1>1, <1>3, <1>4

\* A header, or what one send took of it, is words.
LEMMA HeaderWords ==
  ASSUME NEW s \in {"OK", "INVALID", "FILE_NOT_FOUND"}
  PROVE  /\ Headers(s) \subseteq Seq(Words) /\ Header(s) \in Seq(Words)
         /\ Headers(s) # {}
         /\ \A n \in 1..2 : SubSeq(Header(s), 1, n) \in Headers(s)
  <1>1. Header(s) \in Seq(Words) /\ Len(Header(s)) = 2
    BY DEF Header, Words
  <1>2. \A n \in 1..2 : SubSeq(Header(s), 1, n) \in Seq(Words)
    BY <1>1
  <1>3. QED
    BY <1>1, <1>2 DEF Headers

\* A step that the server makes without a word, and without an end of it.
LEMMA QuietStep ==
  ASSUME SInv, UNCHANGED <<backlog, conn, written, accepted, got>>, Served',
         st' \in {"accept", "exited", "killed", "crashed"},
         cur \in accepted /\ cur # cur' /\ conn[cur] = "open"
           => got[cur] \in Answers(cur) /\ written[cur] # <<>>,
         st' = "crashed" => got[cur'] = <<>>
  PROVE  SInv'
  <1>1. Shapes'
    BY DEF SInv, Shapes, Once
  <1>2. ASSUME NEW c \in Clients PROVE Told(c)'
    <2>1. Told(c) /\ (Waiting(c)' <=> Waiting(c)) /\ Answers(c)' = Answers(c)
      BY DEF SInv, Waiting, Answers
    <2>2. c \notin accepted \/ (c = cur' /\ st' \in {"recv", "crashed"}) => got[c] = <<>>
      BY <2>1 DEF Told
    <2>3. conn[c] = "open" /\ c \in accepted /\ c # cur' => got[c] \in Answers(c) /\ written[c] # <<>>
      BY <2>1 DEF Told
    <2>4. QED
      BY <2>1, <2>2, <2>3 DEF Told
  <1>3. QED
    BY <1>1, <1>2 DEF SInv

\* A step in which the current client, if it is there, is told d.
LEMMA SpokenStep ==
  ASSUME SInv, NEW d \in Seq(Words), cur \in accepted, Sent(d),
         conn[cur] = "open" => written[cur] # <<>>,
         UNCHANGED <<backlog, conn, written, accepted>>, Served', st' \in {"accept", "send"},
         st' = "accept" => cur' = NoClient /\ (conn[cur] = "open" => got[cur] \o d \in Answers(cur)),
         st' = "send" => cur' = cur
                         /\ (conn[cur] = "open" => (got[cur] \o d) \o left' \in Answers(cur))
  PROVE  SInv'
  <1>1. cur \in Clients /\ got \in [Clients -> Seq(Words)]
    BY DEF SInv, Shapes
  <1>2. /\ got' \in [Clients -> Seq(Words)]
        /\ conn[cur] = "open" => got'[cur] = got[cur] \o d
        /\ \A c \in Clients : c # cur => got'[c] = got[c]
    <2>1. got[cur] \o d \in Seq(Words)
      BY <1>1
    <2>2. QED
      BY <1>1, <2>1 DEF Sent
  <1>3. Shapes'
    BY <1>2 DEF SInv, Shapes, Once
  <1>4. ASSUME NEW c \in Clients PROVE Told(c)'
    <2>1. Told(c) /\ (Waiting(c)' <=> Waiting(c)) /\ Answers(c)' = Answers(c)
      BY DEF SInv, Waiting, Answers
    <2>2. CASE c = cur
      BY <1>2, <2>1, <2>2 DEF Told
    <2>3. CASE c # cur
      BY <1>2, <2>1, <2>3 DEF Told
    <2>4. QED
      BY <2>2, <2>3
  <1>5. QED
    BY <1>3, <1>4 DEF SInv

\* The clients' steps.
LEMMA ClientTold ==
  ASSUME SInv, NEW c \in Clients,
         Connect(c) \/ Write(c) \/ Leave(c)
  PROVE  SInv'
  <1>1. UNCHANGED <<st, cur, accepted, left, got>>
    BY DEF Connect, Write, Leave
  <1>2. \A b : written'[b] = written[b] => Answers(b)' = Answers(b)
    BY DEF Answers
  <1>3. CASE Connect(c)
    <2>1. /\ conn[c] = "none" /\ conn' = [conn EXCEPT ![c] = "open"]
          /\ backlog' = Append(backlog, c) /\ written' = written
      BY <1>3 DEF Connect
    <2>2. c \notin accepted /\ ~Waiting(c)
      BY <2>1 DEF SInv, Told
    <2>3. backlog' \in Seq(Clients) /\ Once' /\ \A b : Waiting(b)' => Waiting(b) \/ b = c
      BY <2>1, <2>2, OneArrives DEF SInv, Shapes
    <2>4. /\ conn' \in [Clients -> {"none", "open", "closed", "reset"}]
          /\ conn'[c] = "open" /\ \A b \in Clients : b # c => conn'[b] = conn[b]
      BY <2>1 DEF SInv, Shapes
    <2>5. Shapes'
      BY <1>1, <2>1, <2>3, <2>4 DEF SInv, Shapes
    <2>6. Served'
      <3>1. cur \in accepted => cur \in Clients /\ cur # c
        BY <2>2 DEF SInv, Shapes
      <3>2. QED
        BY <1>1, <2>4, <3>1 DEF SInv, Served
    <2>7. ASSUME NEW b \in Clients PROVE Told(b)'
      <3>1. Told(b)
        BY DEF SInv
      <3>2. CASE b = c
        <4>1. b = cur => st \notin {"recv", "send"}
          BY <2>2, <3>2 DEF SInv, Served
        <4>2. QED
          BY <1>1, <2>2, <2>4, <3>1, <3>2, <4>1 DEF Told
      <3>3. CASE b # c
        <4>1. Answers(b)' = Answers(b) /\ written'[b] = written[b]
          BY <1>2, <2>1
        <4>2. QED
          BY <1>1, <2>3, <2>4, <3>1, <3>3, <4>1 DEF Told
      <3>4. QED
        BY <3>2, <3>3
    <2>8. QED
      BY <2>5, <2>6, <2>7 DEF SInv
  <1>4. CASE Write(c)
    <2>0. PICK q \in Requests : \E w \in Starts(q) : written' = [written EXCEPT ![c] = w]
      BY <1>4 DEF Write
    <2>1. PICK w \in Starts(q) : written' = [written EXCEPT ![c] = w]
      BY <2>0
    <2>2. /\ written' \in [Clients -> {<<>>} \cup UNION {Starts(p) : p \in Requests}]
          /\ backlog' = backlog /\ conn' = conn /\ written[c] = <<>> /\ conn[c] = "open"
          /\ \A b \in Clients : b # c => written'[b] = written[b]
      BY <1>4, <2>1 DEF SInv, Shapes, Write
    <2>3. Shapes' /\ Served'
      BY <1>1, <2>2 DEF SInv, Shapes, Once, Served
    <2>4. ASSUME NEW b \in Clients PROVE Told(b)'
      <3>1. Told(b) /\ (Waiting(b)' <=> Waiting(b))
        BY <2>2 DEF SInv, Waiting
      <3>2. CASE b = c
        <4>1. ~(c \in accepted /\ (c # cur \/ st = "send"))
          BY <2>2, <3>1, <3>2 DEF Told
        <4>2. /\ Waiting(c)' => c \notin accepted'
              /\ Waiting(c)' \/ c \in accepted' => conn'[c] # "none"
          BY <1>1, <2>2, <3>1, <3>2 DEF Told
        <4>3. c \notin accepted' \/ (c = cur' /\ st' \in {"recv", "crashed"}) => got'[c] = <<>>
          BY <1>1, <3>1, <3>2 DEF Told
        <4>4. ~(c \in accepted' /\ c # cur') /\ ~(c = cur' /\ st' = "send")
          BY <1>1, <4>1 DEF SInv, Served
        <4>5. QED
          BY <3>2, <4>2, <4>3, <4>4 DEF Told
      <3>3. CASE b # c
        <4>1. Answers(b)' = Answers(b) /\ written'[b] = written[b]
          BY <1>2, <2>2, <3>3
        <4>2. QED
          BY <1>1, <2>2, <3>1, <3>3, <4>1 DEF Told
      <3>4. QED
        BY <3>2, <3>3
    <2>5. QED
      BY <2>3, <2>4 DEF SInv
  <1>5. CASE Leave(c)
    <2>1. PICK e \in {"closed", "reset"} : conn' = [conn EXCEPT ![c] = e]
      BY <1>5 DEF Leave
    <2>2. /\ conn' \in [Clients -> {"none", "open", "closed", "reset"}]
          /\ conn'[c] \notin {"open", "none"} /\ \A b \in Clients : b # c => conn'[b] = conn[b]
          /\ backlog' = backlog /\ written' = written
      BY <1>5, <2>1 DEF SInv, Shapes, Leave
    <2>3. Shapes'
      BY <1>1, <2>2 DEF SInv, Shapes, Once
    <2>4. Served'
      <3>1. cur \in accepted => cur \in Clients
        BY DEF SInv, Shapes
      <3>2. QED
        BY <1>1, <2>2, <3>1 DEF SInv, Served
    <2>5. ASSUME NEW b \in Clients PROVE Told(b)'
      <3>1. Told(b) /\ (Waiting(b)' <=> Waiting(b))
        BY <2>2 DEF SInv, Waiting
      <3>2. CASE b = c
        BY <1>1, <2>2, <3>1, <3>2 DEF Told
      <3>3. CASE b # c
        BY <1>1, <1>2, <2>2, <3>1, <3>3 DEF Told
      <3>4. QED
        BY <3>2, <3>3
    <2>6. QED
      BY <2>3, <2>4, <2>5 DEF SInv
  <1>6. QED
    BY <1>3, <1>4, <1>5

\* The server's steps.
LEMMA ServerTold ==
  ASSUME FilesHoldBytes, SInv, ServerStep
  PROVE  SInv'
  <1> USE DEF clientVars
  <1>a. cur \in accepted => cur \in Clients /\ Told(cur)
    BY DEF SInv, Shapes
  <1>b. st \in {"recv", "send"} => cur \in accepted /\ cur # NoClient
    BY <1>a, GfServerAssumption DEF SInv, Served, GfServerAssumption
  <1>c. st = "recv" => got[cur] = <<>>
    BY <1>a, <1>b DEF Told
  <1>1. CASE Accept
    <2> DEFINE x == Head(backlog)
    <2>1. /\ st = "accept" /\ backlog # <<>> /\ st' = "recv" /\ cur' = x /\ backlog' = Tail(backlog)
          /\ accepted' = accepted \cup {x} /\ UNCHANGED <<conn, written, left, got>>
      BY <1>1 DEF Accept
    <2>2. /\ x \in Clients /\ Waiting(x) /\ backlog' \in Seq(Clients) /\ Once'
          /\ \A c : Waiting(c)' => Waiting(c) /\ c # x
      BY <2>1, HeadLeaves DEF SInv, Shapes
    <2> HIDE DEF x
    <2>3. Shapes' /\ Served'
      BY <2>1, <2>2 DEF SInv, Shapes, Served
    <2>4. ASSUME NEW c \in Clients PROVE Told(c)'
      <3>1. Told(c) /\ Answers(c)' = Answers(c)
        BY <2>1 DEF SInv, Answers
      <3>2. cur = NoClient /\ c # cur
        BY <2>1, GfServerAssumption DEF SInv, Served, GfServerAssumption
      <3>3. CASE c = x
        BY <2>1, <2>2, <3>1, <3>3 DEF Told
      <3>4. CASE c # x
        BY <2>1, <2>2, <3>1, <3>2, <3>4 DEF Told
      <3>5. QED
        BY <3>3, <3>4
    <2>5. QED
      BY <2>3, <2>4 DEF SInv
  <1>2. CASE AcceptFails
    <2>1. /\ st = "accept" /\ st' = "exited" /\ UNCHANGED <<cur, backlog, conn, written, accepted, left, got>>
      BY <1>2 DEF AcceptFails, Stop
    <2>2. Served'
      BY <2>1 DEF SInv, Served
    <2>3. QED
      BY <2>1, <2>2, QuietStep
  <1>3. CASE NoRequest
    <2>1. /\ conn[cur] = "closed" /\ st' = "accept" /\ cur' = NoClient
          /\ UNCHANGED <<backlog, conn, written, accepted, left, got>>
      BY <1>3 DEF NoRequest, Done
    <2>2. Served'
      BY <2>1 DEF SInv, Served
    <2>3. QED
      BY <2>1, <2>2, QuietStep
  <1>4. CASE ReceiveFails \/ NullMethod \/ NullPath
    <2>1. /\ st = "recv" /\ st' = "crashed"
          /\ UNCHANGED <<cur, backlog, conn, written, accepted, left, got>>
      BY <1>4 DEF ReceiveFails, NullMethod, NullPath, Stop
    <2>2. Served'
      BY <2>1 DEF SInv, Served
    <2>3. QED
      BY <1>c, <2>1, <2>2, QuietStep
  <1>5. CASE Invalid
    <2>1. /\ st = "recv" /\ Refused(Received) /\ SendOnce("INVALID") /\ st' = "accept" /\ cur' = NoClient
          /\ UNCHANGED <<backlog, conn, written, accepted, left>>
      BY <1>5 DEF Invalid, Done, Handled
    <2>2. Served'
      BY <2>1 DEF SInv, Served
    <2>3. PICK n \in 1..2 : Sent(SubSeq(Header("INVALID"), 1, n))
      BY <2>1 DEF SendOnce
    <2> DEFINE d == SubSeq(Header("INVALID"), 1, n)
    <2>4. d \in Headers("INVALID") /\ d \in Seq(Words) /\ Sent(d)
      BY <2>3, HeaderWords
    <2> HIDE DEF d
    <2>5. written[cur] # RightWords /\ written[cur] # <<>>
      <3>1. RightWords # <<>>
        BY DEF RightWords
      <3>2. QED
        BY <1>a, <1>b, <2>1, <3>1, RefusedOrRight DEF SInv, Received
    <2>6. d \in Answers(cur) /\ <<>> \o d = d
      BY <2>1, <2>4, <2>5, AnswersTo, ConcatEmptySeq
    <2>7. QED
      BY <1>b, <1>c, <2>1, <2>2, <2>4, <2>5, <2>6, SpokenStep
  <1>6. CASE NotFound
    <2>1. /\ st = "recv" /\ Handled /\ NoFile \in Contents /\ SendOnce("FILE_NOT_FOUND") /\ st' = "accept" /\ cur' = NoClient
          /\ UNCHANGED <<backlog, conn, written, accepted, left>>
      BY <1>6 DEF NotFound, Done, Handled
    <2>2. Served'
      BY <2>1 DEF SInv, Served
    <2>3. PICK n \in 1..2 : Sent(SubSeq(Header("FILE_NOT_FOUND"), 1, n))
      BY <2>1 DEF SendOnce
    <2> DEFINE d == SubSeq(Header("FILE_NOT_FOUND"), 1, n)
    <2>4. d \in Headers("FILE_NOT_FOUND") /\ d \in Seq(Words) /\ Sent(d)
      BY <2>3, HeaderWords
    <2> HIDE DEF d
    <2>5. written[cur] = RightWords /\ written[cur] # <<>>
      <3>1. RightWords # <<>>
        BY DEF RightWords
      <3>2. QED
        BY <1>a, <1>b, <2>1, <3>1, RefusedOrRight DEF SInv, Received
    <2>6. d \in Answers(cur) /\ <<>> \o d = d
      BY <2>1, <2>4, <2>5, AnswersTo, ConcatEmptySeq
    <2>7. QED
      BY <1>b, <1>c, <2>1, <2>2, <2>4, <2>5, <2>6, SpokenStep
  <1>7. CASE SendHeader
    <2>1. /\ st = "recv" /\ Handled /\ left' \in Contents \ {NoFile} /\ SendOnce("OK")
          /\ st' = "send" /\ cur' = cur
          /\ UNCHANGED <<backlog, conn, written, accepted>>
      BY <1>7 DEF SendHeader, Handled
    <2>2. left' \in Seq(Byte)
      BY <2>1 DEF FilesHoldBytes
    <2>3. Served'
      BY <1>b, <2>1, <2>2 DEF Served
    <2>4. PICK n \in 1..2 : Sent(SubSeq(Header("OK"), 1, n))
      BY <2>1 DEF SendOnce
    <2> DEFINE d == SubSeq(Header("OK"), 1, n)
    <2>5. d \in Headers("OK") /\ d \in Seq(Words) /\ Sent(d)
      BY <2>4, HeaderWords
    <2> HIDE DEF d
    <2>6. written[cur] = RightWords /\ written[cur] # <<>>
      <3>1. RightWords # <<>>
        BY DEF RightWords
      <3>2. QED
        BY <1>a, <1>b, <2>1, <3>1, RefusedOrRight DEF SInv, Received
    <2>7. d \o left' \in Answers(cur) /\ <<>> \o d = d
      <3>1. d \o left' \in Answers(cur)
        BY <2>1, <2>5, <2>6, AnswersTo
      <3>2. QED
        BY <2>5, <3>1, ConcatEmptySeq
    <2>8. QED
      BY <1>b, <1>c, <2>1, <2>3, <2>5, <2>6, <2>7, SpokenStep
  <1>8. CASE Send
    <2>1. PICK n \in 1..Len(left) : Sent(SubSeq(left, 1, n)) /\ left' = SubSeq(left, n + 1, Len(left))
      BY <1>8 DEF Send, AfterSend
    <2>2. /\ st = "send" /\ st' = "send" /\ cur' = cur
          /\ UNCHANGED <<backlog, conn, written, accepted>>
      BY <1>8 DEF Send
    <2> DEFINE d == SubSeq(left, 1, n)
               g == got[cur]
    <2>3. left \in Seq(Byte) /\ left' \in Seq(Byte) /\ d \in Seq(Byte) /\ d \o left' = left
      <3>1. left \in Seq(Byte)
        BY <2>2 DEF SInv, Served
      <3>2. left' \in Seq(Byte) /\ d \in Seq(Byte)
        BY <2>1, <3>1
      <3>3. d \o left' = SubSeq(left, 1, Len(left))
        BY <2>1, <3>1, ConcatAdjacentSubSeq
      <3>4. SubSeq(left, 1, Len(left)) = left
        BY <3>1, SubSeqFull
      <3>5. QED
        BY <3>1, <3>2, <3>3, <3>4
    <2>4. Served'
      BY <1>b, <2>2, <2>3 DEF Served
    <2>5. conn[cur] = "open" => g \o left \in Answers(cur) /\ written[cur] # <<>>
      BY <1>a, <1>b, <2>2 DEF Told
    <2>a. Sent(d)
      BY <2>1
    <2> HIDE DEF d, g
    <2>6. d \in Seq(Words) /\ left' \in Seq(Words) /\ g \in Seq(Words)
      <3>1. Byte \subseteq Words
        BY DEF Words
      <3>2. d \in Seq(Words) /\ left' \in Seq(Words)
        BY <2>3, <3>1, SeqMonotonic
      <3>3. g \in Seq(Words)
        BY <1>a, <1>b, <2>2 DEF SInv, Shapes, g
      <3>4. QED
        BY <3>2, <3>3
    <2>7. (g \o d) \o left' = g \o left
      <3>1. \A r, s, u \in Seq(Words) : (r \o s) \o u = r \o (s \o u)
        BY ConcatAssociative
      <3>2. (g \o d) \o left' = g \o (d \o left')
        BY <2>6, <3>1
      <3>3. QED
        BY <2>3, <3>2
    <2>8. conn[cur] = "open" => (got[cur] \o d) \o left' \in Answers(cur)
      BY <2>5, <2>7 DEF g
    <2>9. QED
      BY <1>b, <2>2, <2>4, <2>5, <2>6, <2>8, <2>a, SpokenStep
  <1>9. CASE SendKills
    <2>1. /\ st = "send" /\ conn[cur] # "open" /\ st' = "killed"
          /\ UNCHANGED <<cur, backlog, conn, written, accepted, left, got>>
      BY <1>9 DEF SendKills, Stop
    <2>2. Served'
      BY <1>b, <2>1 DEF SInv, Served
    <2>3. QED
      BY <2>1, <2>2, QuietStep
  <1>10. CASE SendFails
    <2>1. /\ conn[cur] # "open" /\ st' = "accept" /\ cur' = NoClient
          /\ UNCHANGED <<backlog, conn, written, accepted, got>>
      BY <1>10 DEF SendFails, Done
    <2>2. Served'
      BY <2>1 DEF SInv, Served
    <2>3. QED
      BY <2>1, <2>2, QuietStep
  <1>11. CASE HandlerReturns
    <2>1. /\ st = "send" /\ left = <<>> /\ st' = "accept" /\ cur' = NoClient
          /\ UNCHANGED <<backlog, conn, written, accepted, left, got>>
      BY <1>11 DEF HandlerReturns, Done
    <2>2. Served'
      BY <2>1 DEF SInv, Served
    <2>3. conn[cur] = "open" => got[cur] \in Answers(cur) /\ written[cur] # <<>>
      <3>1. got[cur] \in Seq(Words) /\ Told(cur)
        BY <1>a, <1>b, <2>1 DEF SInv, Shapes
      <3>2. got[cur] \o left = got[cur]
        BY <2>1, <3>1, ConcatEmptySeq
      <3>3. QED
        BY <1>b, <2>1, <3>1, <3>2 DEF Told
    <2>4. QED
      BY <2>1, <2>2, <2>3, QuietStep
  <1>12. QED
    BY <1>1, <1>2, <1>3, <1>4, <1>5, <1>6, <1>7, <1>8, <1>9, <1>10, <1>11 DEF ServerStep

\* A sequence is the start of itself and what follows.
LEMMA StartOfConcat ==
  ASSUME NEW S, NEW s \in Seq(S), NEW t \in Seq(S)
  PROVE  /\ Len(s) <= Len(s \o t) /\ s = SubSeq(s \o t, 1, Len(s))
         /\ s \o t \in Seq(S)
  <1> DEFINE u == s \o t
             v == SubSeq(u, 1, Len(s))
  <1>1. /\ u \in Seq(S) /\ Len(u) = Len(s) + Len(t) /\ Len(s) \in Nat /\ Len(t) \in Nat
        /\ \A i \in 1..(Len(s) + Len(t)) : u[i] = IF i <= Len(s) THEN s[i] ELSE t[i - Len(s)]
    BY ConcatProperties
  <1> HIDE DEF u
  <1>2. v \in Seq(S) /\ Len(v) = Len(s) /\ \A i \in 1..Len(s) : v[i] = u[i]
    BY <1>1
  <1> HIDE DEF v
  <1>3. \A i \in 1..Len(s) : u[i] = s[i]
    BY <1>1
  <1>4. v = s
    BY <1>2, <1>3, SeqEqual
  <1>5. QED
    BY <1>1, <1>4 DEF u, v

LEMMA AnswerIsWords ==
  ASSUME FilesHoldBytes, NEW c
  PROVE  \E a \in Answers(c) : a \in Seq(Words)
  <1>1. CASE written[c] # RightWords
    <2>1. PICK h \in Headers("INVALID") : h \in Seq(Words)
      BY HeaderWords
    <2>2. QED
      BY <1>1, <2>1, AnswersTo
  <1>2. CASE written[c] = RightWords
    <2>1. PICK f \in Contents : f = NoFile \/ f \in Seq(Byte)
      BY DEF FilesHoldBytes
    <2>2. CASE f = NoFile
      <3>1. PICK h \in Headers("FILE_NOT_FOUND") : h \in Seq(Words)
        BY HeaderWords
      <3>2. QED
        BY <1>2, <2>2, <3>1, AnswersTo
    <2>3. CASE f # NoFile
      <3>1. f \in Seq(Words)
        <4>1. f \in Seq(Byte) /\ Byte \subseteq Words
          BY <2>1, <2>3 DEF Words
        <4>2. QED
          BY <4>1, SeqMonotonic
      <3>2. PICK h \in Headers("OK") : h \in Seq(Words)
        BY HeaderWords
      <3>3. h \o f \in Seq(Words)
        BY <3>1, <3>2, ConcatProperties
      <3>4. h \o f \in Answers(c)
        BY <1>2, <2>1, <2>3, <3>2, AnswersTo
      <3>5. QED
        BY <3>3, <3>4
    <2>4. QED
      BY <2>2, <2>3
  <1>3. QED
    BY <1>1, <1>2

LEMMA SInvHolds ==
  ASSUME FilesHoldBytes
  PROVE  Spec => []SInv
  <1>1. Init => SInv
    <2> SUFFICES ASSUME Init PROVE SInv
      OBVIOUS
    <2> USE DEF Init
    <2>1. backlog = <<>> /\ \A c : ~Waiting(c)
      BY DEF Waiting
    <2>2. Shapes
      BY <2>1 DEF Shapes, Once
    <2>3. Served
      BY DEF Served
    <2>4. \A c \in Clients : Told(c)
      BY <2>1 DEF Told
    <2>5. QED
      BY <2>2, <2>3, <2>4 DEF SInv
  <1>2. SInv /\ [Next]_vars => SInv'
    <2> SUFFICES ASSUME SInv, [Next]_vars PROVE SInv'
      OBVIOUS
    <2>1. CASE ServerStep
      BY <2>1, ServerTold
    <2>2. ASSUME NEW c \in Clients, Connect(c) \/ Write(c) \/ Leave(c) PROVE SInv'
      BY <2>2, ClientTold
    <2>3. CASE UNCHANGED vars
      <3>1. UNCHANGED <<st, cur, backlog, conn, written, accepted, left, got>>
        BY <2>3 DEF vars, clientVars
      <3>2. \A c : Answers(c)' = Answers(c) /\ (Waiting(c)' <=> Waiting(c))
        BY <3>1 DEF Answers, Waiting
      <3>3. Shapes' /\ Served'
        BY <3>1 DEF SInv, Shapes, Once, Served
      <3>4. ASSUME NEW c \in Clients PROVE Told(c)'
        <4>1. Told(c)
          BY DEF SInv
        <4>2. QED
          BY <3>1, <3>2, <4>1 DEF Told
      <3>5. QED
        BY <3>3, <3>4 DEF SInv
    <2>4. QED
      BY <2>1, <2>2, <2>3 DEF Next
  <1>3. QED
    BY <1>1, <1>2, PTL DEF Spec

(* gflib/gfserver.c:38-48, 121-152.  Whatever start of a request one recv  *)
(* returns, however little each send takes, and whatever the handler       *)
(* finds, a client that stays has been told a part of the answer to what   *)
(* was received, and all of its file when its turn is over.                *)
THEOREM WholeAnswer ==
  ASSUME FilesHoldBytes
  PROVE  Spec => []AnswerIsWhole
  <1>1. ASSUME SInv PROVE AnswerIsWhole
    <2> SUFFICES ASSUME NEW c \in Clients, conn[c] = "open"
                 PROVE  /\ \E a \in Answers(c) :
                             Len(got[c]) <= Len(a) /\ got[c] = SubSeq(a, 1, Len(got[c]))
                        /\ c \in accepted /\ c # cur => got[c] \in Answers(c)
      BY DEF AnswerIsWhole
    <2> DEFINE g == got[c]
    <2>1. Told(c) /\ g \in Seq(Words) /\ Len(g) \in Nat
      BY <1>1 DEF SInv, Shapes
    <2>2. CASE g = <<>>
      <3>1. PICK a \in Answers(c) : a \in Seq(Words)
        BY AnswerIsWords
      <3>2. Len(g) = 0 /\ Len(a) \in Nat /\ SubSeq(a, 1, 0) = <<>>
        BY <2>2, <3>1, SubSeqEmpty
      <3>3. QED
        BY <2>1, <2>2, <3>1, <3>2 DEF Told
    <2>3. CASE c \in accepted /\ c # cur
      <3>1. g \in Answers(c) /\ SubSeq(g, 1, Len(g)) = g
        BY <2>1, <2>3, SubSeqFull DEF Told
      <3>2. QED
        BY <2>1, <3>1
    <2>4. CASE c = cur /\ st = "send" /\ c \in accepted
      <3>1. g \o left \in Answers(c) /\ left \in Seq(Words)
        BY <1>1, <2>1, <2>4, SeqMonotonic DEF SInv, Served, Told, Words
      <3>2. Len(g) <= Len(g \o left) /\ g = SubSeq(g \o left, 1, Len(g))
        BY <2>1, <3>1, StartOfConcat
      <3>3. QED
        BY <2>4, <3>1, <3>2
    <2>5. QED
      <3>1. st \in {"accept", "recv", "send", "exited", "killed", "crashed"} /\ Served
        BY <1>1 DEF SInv, Shapes
      <3>2. c # NoClient
        BY GfServerAssumption DEF GfServerAssumption
      <3>3. QED
        BY <2>1, <2>2, <2>3, <2>4, <3>1, <3>2 DEF Told, Served
  <1>2. QED
    BY <1>1, SInvHolds, PTL

\* What a client that is served costs.
Charged ==
  /\ aborted \subseteq accepted /\ contexts \in Nat
  /\ cur # NoClient => cur \in accepted \ aborted /\ contexts > 0
  /\ st \notin {"send", "killed"} => left = <<>>

LEMMA ChargedNext ==
  ASSUME SInv, Charged, [Next]_vars
  PROVE  Charged'
  <1> USE DEF Charged, clientVars, Done
  <1>1. st \in {"recv", "send"} => cur # NoClient
    BY GfServerAssumption DEF SInv, Shapes, Served, GfServerAssumption
  <1>2. ASSUME Accept PROVE Charged'
    <2>1. backlog # <<>> /\ backlog \in Seq(Clients)
      BY <1>2 DEF Accept, SInv, Shapes
    <2>2. Head(backlog) \in Clients /\ Waiting(Head(backlog))
      BY <2>1 DEF Waiting
    <2>3. Head(backlog) \notin accepted
      BY <2>2 DEF SInv, Told
    <2>4. QED
      BY <1>1, <1>2, <2>2, <2>3 DEF Accept
  <1>3. ASSUME \/ AcceptFails \/ ReceiveFails \/ NullMethod
               \/ NullPath \/ SendKills
        PROVE  Charged'
    BY <1>1, <1>3
    DEF AcceptFails, ReceiveFails, NullMethod, NullPath, SendKills, Stop
  <1>4. ASSUME NoRequest \/ Invalid PROVE Charged'
    <2>1. UNCHANGED <<aborted, accepted, contexts, left>> /\ cur' = NoClient /\ left = <<>>
      BY <1>4 DEF NoRequest, Invalid
    <2>2. QED
      BY <1>1, <2>1
  <1>5. ASSUME NotFound \/ SendFails \/ HandlerReturns PROVE Charged'
    BY <1>1, <1>5 DEF NotFound, SendFails, HandlerReturns, Handled
  <1>6. ASSUME SendHeader \/ Send PROVE Charged'
    BY <1>1, <1>6 DEF SendHeader, Send, Handled
  <1>7. ASSUME NEW c \in Clients, Connect(c) \/ Write(c) \/ Leave(c) PROVE Charged'
    BY <1>1, <1>7 DEF Connect, Write, Leave
  <1>8. ASSUME UNCHANGED vars PROVE Charged'
    BY <1>1, <1>8 DEF vars
  <1>9. QED
    BY <1>2, <1>3, <1>4, <1>5, <1>6, <1>7, <1>8 DEF Next, ServerStep

(* gflib/gfserver.c:119-152.  A client is served only while its socket is  *)
(* open and a context is allocated for it, whatever the other clients do.  *)
THEOREM ServedWithContext ==
  ASSUME FilesHoldBytes
  PROVE  Spec => []TypeOK
  <1>1. Init => Charged
    BY DEF Init, Charged
  <1>2. SInv /\ Charged /\ [Next]_vars => Charged'
    BY ChargedNext
  <1>3. SInv /\ Charged => TypeOK
    BY GfServerAssumption DEF SInv, Shapes, Served, Charged, TypeOK, GfServerAssumption
  <1>4. QED
    BY <1>1, <1>2, <1>3, SInvHolds, PTL DEF Spec
=============================================================================
