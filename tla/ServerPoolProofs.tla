-------------------------- MODULE ServerPoolProofs --------------------------
(***************************************************************************)
(* Theorems about ServerPool, for every set of workers, of clients and of  *)
(* files: types, every connection in one place, and that the pool          *)
(* implements the file service.  The last needs to know what a client has  *)
(* got at each point of the way of its request.                            *)
(***************************************************************************)
EXTENDS ServerPool, SequenceTheorems, TLAPS

-----------------------------------------------------------------------------
\* A signal moves the caller, and one sleeper if there is any.
LEMMA SignalMoves ==
  ASSUME TypeOK, NEW p \in [Workers -> WorkerStates], Signal(p),
         \A w \in Workers : pc[w] = "sleep" => p[w] = "sleep"
  PROVE  /\ pc' \in [Workers -> WorkerStates]
         /\ \A w \in Workers :
              pc'[w] = p[w] \/ (pc[w] = "sleep" /\ p[w] = "sleep" /\ pc'[w] = "test")
  <1>1. CASE pc' = p
    BY <1>1
  <1>2. CASE \E w \in Sleepers : pc' = [p EXCEPT ![w] = "test"]
    BY <1>2 DEF Sleepers, WorkerStates
  <1>3. QED
    BY <1>1, <1>2 DEF Signal

\* A chunk is a piece of the file, and there is none behind its end.
LEMMA ChunkFacts ==
  ASSUME TypeOK, NEW w \in Workers, pc[w] = "send"
  PROVE  /\ File[file[w]] \in Seq(Byte) /\ FileLen(w) \in Nat /\ FileLen(w) < SizeMod - 1
         /\ Chunk(w) \in Seq(Byte)
         /\ Len(Chunk(w)) = IF total[w] < FileLen(w)
                            THEN Lesser(total[w] + BufSize, FileLen(w)) - total[w] ELSE 0
         /\ Counted(w) \in 0..(SizeMod - 1)
  <1> USE ServerAssumption
  <1>1. file[w] \in Cached /\ total[w] \in Nat /\ total[w] <= SizeMod - 1 /\ SizeMod \in Nat \ {0}
    BY DEF TypeOK
  <1>2. File[file[w]] \in Seq(Byte) /\ FileLen(w) \in Nat /\ FileLen(w) < SizeMod - 1
    BY <1>1 DEF FileLen
  <1> DEFINE m == Lesser(total[w] + BufSize, FileLen(w))
  <1>3. m \in Nat /\ m <= FileLen(w) /\ m <= total[w] + BufSize
        /\ (m = FileLen(w) \/ m = total[w] + BufSize)
    BY <1>1, <1>2 DEF Lesser
  <1>4. Chunk(w) = SubSeq(File[file[w]], total[w] + 1, m)
    BY DEF Chunk
  <1> HIDE DEF m
  <1>5. total[w] + 1 \in 1..(Len(File[file[w]]) + 1) \/ total[w] >= FileLen(w)
    BY <1>1, <1>2 DEF FileLen
  <1>6. CASE total[w] < FileLen(w)
    <2>1. total[w] < m
      BY <1>1, <1>2, <1>3, <1>6
    <2>2. Chunk(w) \in Seq(Byte) /\ Len(Chunk(w)) = m - total[w]
      BY <1>1, <1>2, <1>3, <1>4, <2>1, <1>6, SubSeqProperties DEF FileLen
    <2>3. total[w] + Len(Chunk(w)) <= FileLen(w)
      BY <1>1, <1>2, <1>3, <2>2
    <2>4. (total[w] + SizeMod - 1) % SizeMod \in 0..(SizeMod - 1)
      BY <1>1
    <2>5. QED
      BY <1>1, <1>2, <1>3, <1>6, <2>2, <2>3, <2>4 DEF Counted, m
  <1>7. CASE total[w] >= FileLen(w)
    <2>1. Chunk(w) = << >>
      BY <1>1, <1>2, <1>3, <1>4, <1>7
    <2>2. (total[w] + SizeMod - 1) % SizeMod \in 0..(SizeMod - 1)
      BY <1>1
    <2>3. Chunk(w) \in Seq(Byte) /\ Len(Chunk(w)) = 0
      BY <2>1
    <2>4. QED
      BY <1>1, <1>2, <1>7, <2>2, <2>3 DEF Counted
  <1>8. QED
    BY <1>1, <1>2, <1>6, <1>7

-----------------------------------------------------------------------------
(* Types                                                                   *)

LEMMA HeaderType ==
  ASSUME TypeOK, NEW r \in Requests, NEW h \in Header, HeaderSent(r, h)
  PROVE  hdr' \in [Requests -> Header]
  BY DEF TypeOK, HeaderSent

LEMMA InitType == Init => TypeOK
  BY ServerAssumption DEF Init, TypeOK, WorkerStates, Header

LEMMA NextType == TypeOK /\ [Next]_vars => TypeOK'
  <1> SUFFICES ASSUME TypeOK, [Next]_vars PROVE TypeOK'
    OBVIOUS
  <1> USE ServerAssumption DEF TypeOK
  <1>1. CASE UNCHANGED vars
    BY <1>1 DEF vars, clientVars
  <1>2. ASSUME NEW r \in Requests, Accept(r) PROVE TypeOK'
    BY <1>2 DEF Accept
  <1>3. ASSUME NEW r \in Requests, Leave(r) PROVE TypeOK'
    BY <1>3 DEF Leave
  <1>4. CASE Handler
    <2>1. accepted \in Requests
      BY <1>4 DEF Handler
    <2>2. work_queue' \in Seq(Requests)
      BY <1>4, <2>1 DEF Handler
    <2>3. QED
      BY <1>4, <2>2 DEF Handler, clientVars
  <1>5. CASE SignalHandled
    <2>1. Signal(pc)
      BY <1>5 DEF SignalHandled
    <2>2. /\ pc' \in [Workers -> WorkerStates]
          /\ \A w \in Workers : pc'[w] = pc[w] \/ (pc[w] = "sleep" /\ pc'[w] = "test")
      BY <2>1, SignalMoves
    <2>3. QED
      BY <1>5, <2>2 DEF SignalHandled, clientVars
  <1>6. ASSUME NEW w \in Workers, Sleep(w) PROVE TypeOK'
    BY <1>6 DEF Sleep, Goto, WorkerStates, clientVars
  <1>7. ASSUME NEW w \in Workers, Take(w) PROVE TypeOK'
    <2>1. Head(work_queue) \in Requests /\ Tail(work_queue) \in Seq(Requests)
      BY <1>7 DEF Take
    <2>2. QED
      BY <1>7, <2>1 DEF Take, Goto, WorkerStates, clientVars
  <1>8. ASSUME NEW w \in Workers, SignalTaken(w) PROVE TypeOK'
    <2> DEFINE p == [pc EXCEPT ![w] = "get"]
    <2>1. /\ p \in [Workers -> WorkerStates] /\ Signal(p) /\ pc[w] = "signal"
          /\ \A v \in Workers : pc[v] = "sleep" => p[v] = "sleep"
          /\ p[w] = "get" /\ \A v \in Workers \ {w} : p[v] = pc[v]
      BY <1>8 DEF SignalTaken, WorkerStates
    <2> HIDE DEF p
    <2>2. /\ pc' \in [Workers -> WorkerStates]
          /\ \A v \in Workers : pc'[v] = p[v] \/ (pc[v] = "sleep" /\ pc'[v] = "test")
      BY <2>1, SignalMoves
    <2>3. UNCHANGED <<want, conn, gone, hdr, body, boss, accepted, work_queue, req, file, total>>
      BY <1>8 DEF SignalTaken, clientVars
    <2>4. \A v \in Workers : \/ pc'[v] = pc[v]
                             \/ pc[v] = "signal" /\ pc'[v] = "get"
                             \/ pc[v] = "sleep" /\ pc'[v] = "test"
      BY <2>1, <2>2
    <2>5. \A v \in Workers : req'[v] = NoRequest <=> pc'[v] \in {"test", "sleep", "exited"}
      BY <2>3, <2>4
    <2>6. \A v \in Workers : pc'[v] \in {"fstat", "send"} => file'[v] # NoFile
      BY <2>3, <2>4
    <2>7. QED
      BY <2>2, <2>3, <2>5, <2>6
  <1>9. ASSUME NEW w \in Workers, ContentFound(w) PROVE TypeOK'
    BY <1>9 DEF ContentFound, Goto, Found, WorkerStates, clientVars
  <1>10. ASSUME NEW w \in Workers, ContentMissing(w) PROVE TypeOK'
    <2>1. req[w] \in Requests
      BY <1>10 DEF ContentMissing, Goto
    <2>2. hdr' \in [Requests -> Header]
      BY <1>10, <2>1, HeaderType DEF ContentMissing, Header
    <2>3. QED
      BY <1>10, <2>1, <2>2 DEF ContentMissing, Goto, WorkerStates
  <1>11. ASSUME NEW w \in Workers, SendHeader(w) PROVE TypeOK'
    <2>1. req[w] \in Requests /\ file[w] \in Cached
      BY <1>11 DEF SendHeader, Goto
    <2>2. Len(File[file[w]]) \in Nat
      BY <2>1
    <2>3. <<GF_OK, FileLen(w)>> \in Header
      BY <2>2 DEF Header, FileLen
    <2>4. hdr' \in [Requests -> Header]
      BY <1>11, <2>1, <2>3, HeaderType DEF SendHeader
    <2>5. QED
      BY <1>11, <2>4 DEF SendHeader, Goto, WorkerStates
  <1>12. ASSUME NEW w \in Workers, SendChunk(w) PROVE TypeOK'
    <2>1. pc[w] = "send" /\ req[w] \in Requests
      BY <1>12 DEF SendChunk, Goto
    <2>2. Chunk(w) \in Seq(Byte) /\ Counted(w) \in 0..(SizeMod - 1)
      BY <2>1, ChunkFacts
    <2>3. body[req[w]] \o Chunk(w) \in Seq(Byte)
      BY <2>1, <2>2
    <2>4. body' \in [Requests -> Seq(Byte)]
      BY <1>12, <2>1, <2>3 DEF SendChunk
    <2>5. total' \in [Workers -> 0..(SizeMod - 1)]
      BY <1>12, <2>2 DEF SendChunk
    <2>6. /\ pc' \in [Workers -> WorkerStates] /\ pc'[w] \in {"send", "free"}
          /\ \A v \in Workers \ {w} : pc'[v] = pc[v]
      BY <1>12 DEF SendChunk, Goto, WorkerStates
    <2>7. QED
      BY <1>12, <2>1, <2>4, <2>5, <2>6 DEF SendChunk
  <1>13. ASSUME NEW w \in Workers, Free(w) PROVE TypeOK'
    BY <1>13 DEF Free, Goto, WorkerStates
  <1>14. CASE SpuriousWakeup
    BY <1>14 DEF SpuriousWakeup, Sleepers, WorkerStates, clientVars
  <1>15. QED
    BY <1>1, <1>2, <1>3, <1>4, <1>5, <1>6, <1>7, <1>8, <1>9, <1>10, <1>11, <1>12, <1>13, <1>14
       DEF Next, BossStep, WorkerStep

(* gfserver_main.c:133-200.  The variables keep their types; in particular *)
(* total_bts_sent stays within size_t, and a worker that sends has a file. *)
THEOREM TypesHold == Spec => []TypeOK
  BY InitType, NextType, PTL DEF Spec

-----------------------------------------------------------------------------
(* Every connection in one place                                           *)

\* EachRequestOnce in parts.
AtBoss(r) == boss = "handler" /\ accepted = r
Queued(r) == \E i \in 1..Len(work_queue) : work_queue[i] = r
Held(r) == \E w \in Workers : req[w] = r
OpenPlaced == \A r \in Requests : conn[r] = "open" => AtBoss(r) \/ Queued(r) \/ Held(r)
PlacedOpen == \A r \in Requests : AtBoss(r) \/ Queued(r) \/ Held(r) => conn[r] = "open"
QueuedOnce == \A i, j \in 1..Len(work_queue) : work_queue[i] = work_queue[j] => i = j
HeldOnce == \A w, v \in Workers : req[w] # NoRequest /\ req[v] = req[w] => v = w
OnePlace == \A r \in Requests : /\ ~(AtBoss(r) /\ Queued(r))
                                /\ ~(AtBoss(r) /\ Held(r))
                                /\ ~(Queued(r) /\ Held(r))
Parts == OpenPlaced /\ PlacedOpen /\ QueuedOnce /\ HeldOnce /\ OnePlace

\* The types that the places depend on.
PlaceTypes ==
  /\ work_queue \in Seq(Requests) /\ req \in [Workers -> Requests \cup {NoRequest}]
  /\ conn \in [Requests -> {"new", "open", "closed"}]
  /\ boss = "handler" => accepted \in Requests

LEMMA TypesOfPlaces == TypeOK => PlaceTypes
  BY DEF TypeOK, PlaceTypes

LEMMA OnceInParts == PlaceTypes => (EachRequestOnce <=> Parts)
  <1> SUFFICES ASSUME PlaceTypes PROVE EachRequestOnce <=> Parts
    OBVIOUS
  <1>a. /\ \A i \in 1..Len(work_queue) : work_queue[i] \in Requests
        /\ \A w \in Workers : req[w] # NoRequest => req[w] \in Requests
        /\ boss = "handler" => accepted \in Requests
        /\ NoRequest \notin Requests
    BY ServerAssumption DEF PlaceTypes
  <1>1. ASSUME EachRequestOnce PROVE Parts
    <2>1. OpenPlaced
      BY <1>1 DEF EachRequestOnce, OpenPlaced, AtBoss, Queued, Held, WithBoss
    <2>2. PlacedOpen
      BY <1>a, <1>1 DEF EachRequestOnce, PlacedOpen, AtBoss, Queued, Held, WithBoss
    <2>3. QueuedOnce /\ HeldOnce
      BY <1>1 DEF EachRequestOnce, QueuedOnce, HeldOnce
    <2>4. OnePlace
      BY <1>a, <1>1 DEF EachRequestOnce, OnePlace, AtBoss, Queued, Held, WithBoss
    <2>5. QED
      BY <2>1, <2>2, <2>3, <2>4 DEF Parts
  <1>2. ASSUME Parts PROVE EachRequestOnce
    <2> USE <1>a, <1>2 DEF Parts, AtBoss, Queued, Held
    <2>1. \A r \in Requests : conn[r] = "open" =>
            \/ WithBoss(r)
            \/ \E i \in 1..Len(work_queue) : work_queue[i] = r
            \/ \E w \in Workers : req[w] = r
      BY DEF OpenPlaced, WithBoss
    <2>2. \A i, j \in 1..Len(work_queue) : work_queue[i] = work_queue[j] => i = j
      BY DEF QueuedOnce
    <2>3. \A i \in 1..Len(work_queue) : conn[work_queue[i]] = "open" /\ ~WithBoss(work_queue[i])
      BY DEF PlacedOpen, OnePlace, WithBoss
    <2>4. \A w \in Workers : req[w] # NoRequest =>
            /\ conn[req[w]] = "open" /\ ~WithBoss(req[w])
            /\ \A i \in 1..Len(work_queue) : work_queue[i] # req[w]
      BY DEF PlacedOpen, OnePlace, WithBoss
    <2>5. \A w, v \in Workers : req[w] # NoRequest /\ req[v] = req[w] => v = w
      BY DEF HeldOnce
    <2>6. boss = "handler" => conn[accepted] = "open"
      BY DEF PlacedOpen
    <2>7. QED
      BY <2>1, <2>2, <2>3, <2>4, <2>5, <2>6 DEF EachRequestOnce
  <1>3. QED
    BY <1>1, <1>2

\* A step that leaves the places of all connections as they are.
LEMMA PlacesStay ==
  ASSUME Parts, UNCHANGED <<work_queue, req, conn>>,
         boss' = "handler" <=> boss = "handler", boss = "handler" => accepted' = accepted
  PROVE  Parts'
  <1>1. \A r : AtBoss(r)' <=> AtBoss(r)
    BY DEF AtBoss
  <1>2. \A r : (Queued(r)' <=> Queued(r)) /\ (Held(r)' <=> Held(r))
    BY DEF Queued, Held
  <1>3. OpenPlaced' /\ PlacedOpen' /\ OnePlace'
    BY <1>1, <1>2 DEF Parts, OpenPlaced, PlacedOpen, OnePlace
  <1>4. QueuedOnce' /\ HeldOnce'
    BY DEF Parts, QueuedOnce, HeldOnce
  <1>5. QED
    BY <1>3, <1>4 DEF Parts

\* A worker is done with its connection, and closes it.
LEMMA PlaceEmptied ==
  ASSUME PlaceTypes, Parts, NEW w \in Workers, req[w] # NoRequest,
         conn' = [conn EXCEPT ![req[w]] = "closed"], req' = [req EXCEPT ![w] = NoRequest],
         UNCHANGED <<boss, accepted, work_queue>>
  PROVE  Parts'
  <1>1. /\ req[w] \in Requests /\ req'[w] = NoRequest /\ \A v \in Workers \ {w} : req'[v] = req[v]
        /\ conn'[req[w]] = "closed" /\ \A r \in Requests \ {req[w]} : conn'[r] = conn[r]
        /\ NoRequest \notin Requests
    BY ServerAssumption DEF PlaceTypes
  <1>2. \A r : (AtBoss(r)' <=> AtBoss(r)) /\ (Queued(r)' <=> Queued(r))
    BY DEF AtBoss, Queued
  <1>3. \A v \in Workers \ {w} : req[v] # req[w]
    BY DEF Parts, HeldOnce
  <1>4. \A r \in Requests : Held(r)' <=> Held(r) /\ r # req[w]
    BY <1>1, <1>3 DEF Held
  <1>5. Held(req[w])
    BY DEF Held
  <1>6. OpenPlaced'
    BY <1>1, <1>2, <1>4 DEF Parts, OpenPlaced
  <1>7. PlacedOpen'
    BY <1>1, <1>2, <1>4, <1>5 DEF Parts, PlacedOpen, OnePlace
  <1>8. QueuedOnce'
    BY DEF Parts, QueuedOnce
  <1>9. HeldOnce'
    BY <1>1 DEF Parts, HeldOnce
  <1>10. OnePlace'
    BY <1>2, <1>4 DEF Parts, OnePlace
  <1>11. QED
    BY <1>6, <1>7, <1>8, <1>9, <1>10 DEF Parts

LEMMA AcceptPlaces ==
  ASSUME PlaceTypes, Parts, NEW r \in Requests, Accept(r)
  PROVE  Parts'
  <1>1. /\ boss = "accept" /\ boss' = "handler" /\ accepted' = r /\ conn[r] = "new"
        /\ conn'[r] = "open" /\ \A x \in Requests \ {r} : conn'[x] = conn[x]
        /\ UNCHANGED <<work_queue, req>>
    BY DEF Accept, PlaceTypes
  <1>2. \A x : (Queued(x)' <=> Queued(x)) /\ (Held(x)' <=> Held(x))
    BY <1>1 DEF Queued, Held
  <1>3. \A x : ~AtBoss(x) /\ (AtBoss(x)' <=> x = r)
    BY <1>1 DEF AtBoss
  <1>4. ~Queued(r) /\ ~Held(r)
    BY <1>1 DEF Parts, PlacedOpen
  <1>5. OpenPlaced' /\ PlacedOpen' /\ OnePlace'
    BY <1>1, <1>2, <1>3, <1>4 DEF Parts, OpenPlaced, PlacedOpen, OnePlace
  <1>6. QueuedOnce' /\ HeldOnce'
    BY <1>1 DEF Parts, QueuedOnce, HeldOnce
  <1>7. QED
    BY <1>5, <1>6 DEF Parts

LEMMA HandlerPlaces ==
  ASSUME PlaceTypes, Parts, Handler
  PROVE  Parts'
  <1>1. /\ boss = "handler" /\ boss' = "signal" /\ accepted \in Requests
        /\ work_queue' = Append(work_queue, accepted) /\ UNCHANGED <<accepted, conn, req>>
        /\ work_queue \in Seq(Requests)
    BY DEF Handler, clientVars, PlaceTypes
  <1>2. /\ Len(work_queue') = Len(work_queue) + 1 /\ Len(work_queue) \in Nat
        /\ work_queue'[Len(work_queue) + 1] = accepted
        /\ \A i \in 1..Len(work_queue) : work_queue'[i] = work_queue[i]
    BY <1>1
  <1>3. \A i \in 1..Len(work_queue') : i \in 1..Len(work_queue) \/ i = Len(work_queue) + 1
    BY <1>2
  <1>4. \A x : (AtBoss(x) <=> x = accepted) /\ ~AtBoss(x)' /\ (Held(x)' <=> Held(x))
    BY <1>1 DEF AtBoss, Held
  <1>5. ASSUME NEW x PROVE Queued(x)' <=> Queued(x) \/ x = accepted
    <2>1. ASSUME Queued(x)' PROVE Queued(x) \/ x = accepted
      <3>1. PICK i \in 1..Len(work_queue') : work_queue'[i] = x
        BY <2>1 DEF Queued
      <3>2. CASE i = Len(work_queue) + 1
        BY <3>1, <3>2, <1>2
      <3>3. CASE i \in 1..Len(work_queue)
        BY <3>1, <3>3, <1>2 DEF Queued
      <3>4. QED
        BY <3>2, <3>3, <1>3
    <2>2. ASSUME Queued(x) PROVE Queued(x)'
      <3>1. PICK i \in 1..Len(work_queue) : work_queue[i] = x
        BY <2>2 DEF Queued
      <3>2. i \in 1..Len(work_queue') /\ work_queue'[i] = x
        BY <3>1, <1>2
      <3>3. QED
        BY <3>2 DEF Queued
    <2>3. Queued(accepted)'
      <3>1. Len(work_queue) + 1 \in 1..Len(work_queue')
        BY <1>2
      <3>2. QED
        BY <3>1, <1>1, <1>2 DEF Queued
    <2>4. QED
      BY <2>1, <2>2, <2>3, <1>1
  <1>6. ~Queued(accepted) /\ ~Held(accepted) /\ conn[accepted] = "open"
    BY <1>1, <1>4 DEF Parts, OnePlace, PlacedOpen
  <1>7. OpenPlaced' /\ PlacedOpen' /\ OnePlace'
    BY <1>1, <1>4, <1>5, <1>6 DEF Parts, OpenPlaced, PlacedOpen, OnePlace
  <1>8. QueuedOnce'
    <2>1. \A i \in 1..Len(work_queue) : work_queue[i] # accepted
      BY <1>6 DEF Queued
    <2>2. QED
      BY <2>1, <1>2, <1>3 DEF Parts, QueuedOnce
  <1>9. HeldOnce'
    BY <1>1 DEF Parts, HeldOnce
  <1>10. QED
    BY <1>7, <1>8, <1>9 DEF Parts

LEMMA TakePlaces ==
  ASSUME PlaceTypes, Parts, NEW w \in Workers, Take(w), req[w] = NoRequest
  PROVE  Parts'
  <1> DEFINE h == work_queue[1]
  <1>1. /\ work_queue # <<>> /\ work_queue' = Tail(work_queue)
        /\ req' = [req EXCEPT ![w] = Head(work_queue)] /\ UNCHANGED <<boss, accepted, conn>>
        /\ work_queue \in Seq(Requests) /\ NoRequest \notin Requests
    BY ServerAssumption DEF Take, clientVars, PlaceTypes
  <1>2. /\ Len(work_queue) \in Nat /\ Len(work_queue) > 0 /\ Len(work_queue') = Len(work_queue) - 1
        /\ Head(work_queue) = h /\ h \in Requests /\ 1 \in 1..Len(work_queue)
    BY <1>1
  <1>3. \A i \in 1..Len(work_queue') : i + 1 \in 1..Len(work_queue) /\ work_queue'[i] = work_queue[i + 1]
    BY <1>1, <1>2
  <1>4. req'[w] = h /\ \A v \in Workers \ {w} : req'[v] = req[v]
    BY <1>1, <1>2 DEF PlaceTypes
  <1>5. \A i \in 1..Len(work_queue) : i # 1 => work_queue[i] # h
    BY <1>2 DEF Parts, QueuedOnce
  <1> HIDE DEF h
  <1>6. \A r : AtBoss(r)' <=> AtBoss(r)
    BY <1>1 DEF AtBoss
  <1>7. Queued(h) /\ ~Held(h) /\ ~AtBoss(h) /\ conn[h] = "open"
    <2>1. Queued(h)
      BY <1>2 DEF Queued, h
    <2>2. QED
      BY <2>1, <1>2 DEF Parts, OnePlace, PlacedOpen
  <1>8. ASSUME NEW r \in Requests PROVE Queued(r)' <=> Queued(r) /\ r # h
    <2>1. ASSUME Queued(r)' PROVE Queued(r) /\ r # h
      <3>1. PICK i \in 1..Len(work_queue') : work_queue'[i] = r
        BY <2>1 DEF Queued
      <3>2. i + 1 \in 1..Len(work_queue) /\ work_queue[i + 1] = r /\ i + 1 # 1
        BY <3>1, <1>2, <1>3
      <3>3. QED
        BY <3>2, <1>5 DEF Queued
    <2>2. ASSUME Queued(r), r # h PROVE Queued(r)'
      <3>1. PICK i \in 1..Len(work_queue) : work_queue[i] = r
        BY <2>2 DEF Queued
      <3>2. i # 1
        BY <3>1, <2>2 DEF h
      <3>3. i - 1 \in 1..Len(work_queue') /\ work_queue'[i - 1] = r
        BY <3>1, <3>2, <1>2, <1>3
      <3>4. QED
        BY <3>3 DEF Queued
    <2>3. QED
      BY <2>1, <2>2
  <1>9. \A r \in Requests : Held(r)' <=> Held(r) \/ r = h
    BY <1>1, <1>4 DEF Held
  <1>10. OpenPlaced' /\ PlacedOpen' /\ OnePlace'
    BY <1>1, <1>6, <1>7, <1>8, <1>9 DEF Parts, OpenPlaced, PlacedOpen, OnePlace
  <1>11. QueuedOnce'
    <2>1. ASSUME NEW i \in 1..Len(work_queue'), NEW j \in 1..Len(work_queue'), work_queue'[i] = work_queue'[j]
          PROVE  i = j
      <3>1. i + 1 = j + 1
        BY <2>1, <1>3 DEF Parts, QueuedOnce
      <3>2. QED
        BY <3>1
    <2>2. QED
      BY <2>1 DEF QueuedOnce
  <1>12. HeldOnce'
    <2>1. \A v \in Workers \ {w} : req'[v] # h
      BY <1>4, <1>7 DEF Held
    <2>2. QED
      BY <2>1, <1>4 DEF Parts, HeldOnce
  <1>13. QED
    BY <1>10, <1>11, <1>12 DEF Parts

LEMMA InitParts == Init => Parts
  BY ServerAssumption
     DEF Init, Parts, OpenPlaced, PlacedOpen, QueuedOnce, HeldOnce, OnePlace, AtBoss, Queued, Held

LEMMA NextParts == TypeOK /\ Parts /\ [Next]_vars => Parts'
  <1> SUFFICES ASSUME TypeOK, Parts, [Next]_vars PROVE Parts'
    OBVIOUS
  <1>t. PlaceTypes /\ (boss = "handler" \/ boss = "signal" \/ boss = "accept")
        /\ \A w \in Workers : req[w] = NoRequest <=> pc[w] \in {"test", "sleep", "exited"}
    BY TypesOfPlaces DEF TypeOK
  <1>1. CASE UNCHANGED vars
    BY <1>1, PlacesStay DEF vars, clientVars
  <1>2. ASSUME NEW r \in Requests, Accept(r) PROVE Parts'
    BY <1>2, <1>t, AcceptPlaces
  <1>3. ASSUME NEW r \in Requests, Leave(r) PROVE Parts'
    BY <1>3, PlacesStay DEF Leave
  <1>4. CASE Handler
    BY <1>4, <1>t, HandlerPlaces
  <1>5. CASE SignalHandled
    BY <1>5, PlacesStay DEF SignalHandled, clientVars
  <1>6. ASSUME NEW w \in Workers, Take(w) PROVE Parts'
    <2>1. req[w] = NoRequest
      BY <1>6, <1>t DEF Take, Goto
    <2>2. QED
      BY <2>1, <1>6, <1>t, TakePlaces
  <1>7. ASSUME NEW w \in Workers, ContentMissing(w) \/ Free(w) PROVE Parts'
    <2>1. /\ req[w] # NoRequest /\ UNCHANGED <<boss, accepted, work_queue>>
          /\ conn' = [conn EXCEPT ![req[w]] = "closed"] /\ req' = [req EXCEPT ![w] = NoRequest]
      BY <1>7, <1>t DEF ContentMissing, Free, Goto
    <2>2. QED
      BY <2>1, <1>t, PlaceEmptied
  <1>8. ASSUME NEW w \in Workers,
               Sleep(w) \/ SignalTaken(w) \/ ContentFound(w) \/ SendHeader(w) \/ SendChunk(w)
        PROVE  Parts'
    BY <1>8, PlacesStay DEF Sleep, SignalTaken, ContentFound, SendHeader, SendChunk, clientVars
  <1>9. CASE SpuriousWakeup
    BY <1>9, PlacesStay DEF SpuriousWakeup, clientVars
  <1>10. QED
    BY <1>1, <1>2, <1>3, <1>4, <1>5, <1>6, <1>7, <1>8, <1>9 DEF Next, BossStep, WorkerStep

(* handler.c:22-34, gfserver_main.c:148-156.  A connection that waits is   *)
(* with the boss, in the queue or with one worker, for any number of them. *)
THEOREM OnePlaceEach == Spec => []EachRequestOnce
  <1>1. Init => TypeOK /\ Parts
    BY InitType, InitParts
  <1>2. TypeOK /\ Parts /\ [Next]_vars => (TypeOK /\ Parts)'
    BY NextType, NextParts
  <1>3. TypeOK /\ Parts => EachRequestOnce
    BY TypesOfPlaces, OnceInParts
  <1>4. QED
    BY <1>1, <1>2, <1>3, PTL DEF Spec

-----------------------------------------------------------------------------
(* What clients have got                                                   *)

Fresh(r) == hdr[r] = NoHeader /\ body[r] = <<>>

\* A worker's client has nothing before gfs_sendheader, then the header and
\* the bytes the worker has counted, and in the end all of the file, unless
\* it has left.
WorkerProgress(w) ==
  /\ pc[w] \in {"signal", "get", "fstat"} => Fresh(req[w])
  /\ pc[w] \in {"fstat", "send", "free"} => file[w] = want[req[w]] /\ file[w] \in Cached
  /\ pc[w] = "send" /\ req[w] \notin gone =>
       /\ hdr[req[w]] = <<GF_OK, FileLen(w)>> /\ total[w] <= FileLen(w)
       /\ body[req[w]] = SubSeq(File[file[w]], 1, total[w])
  /\ pc[w] = "free" /\ req[w] \notin gone =>
       hdr[req[w]] = <<GF_OK, FileLen(w)>> /\ body[req[w]] = File[file[w]]

NewFresh == \A r \in Requests : conn[r] = "new" => Fresh(r) /\ r \notin gone
WaitingFresh == \A r \in Requests : AtBoss(r) \/ Queued(r) => Fresh(r)
Progress == NewFresh /\ WaitingFresh /\ \A w \in Workers : WorkerProgress(w)

\* After a turn of the send loop for a client that is there.
LEMMA ChunkSent ==
  ASSUME TypeOK, NEW w \in Workers, pc[w] = "send", req[w] \notin gone,
         total[w] <= FileLen(w), body[req[w]] = SubSeq(File[file[w]], 1, total[w])
  PROVE  /\ Counted(w) = total[w] + Len(Chunk(w)) /\ Counted(w) \in Nat /\ Counted(w) <= FileLen(w)
         /\ body[req[w]] \o Chunk(w) = SubSeq(File[file[w]], 1, Counted(w))
         /\ Len(body[req[w]]) = total[w]
         /\ Chunk(w) = <<>> => total[w] = FileLen(w)
  <1> USE ServerAssumption
  <1>1. /\ File[file[w]] \in Seq(Byte) /\ FileLen(w) \in Nat /\ Chunk(w) \in Seq(Byte)
        /\ total[w] \in Nat /\ BufSize \in Nat \ {0}
        /\ Len(Chunk(w)) = IF total[w] < FileLen(w)
                           THEN Lesser(total[w] + BufSize, FileLen(w)) - total[w] ELSE 0
    BY ChunkFacts DEF TypeOK
  <1> DEFINE m == Lesser(total[w] + BufSize, FileLen(w))
  <1>2. m \in Nat /\ m <= FileLen(w) /\ total[w] <= m /\ Len(Chunk(w)) = m - total[w]
        /\ (total[w] < FileLen(w) => total[w] < m)
    BY <1>1 DEF Lesser
  <1>3. Counted(w) = total[w] + Len(Chunk(w))
    BY DEF Counted
  <1>4. Counted(w) = m
    BY <1>1, <1>2, <1>3
  <1>5. Chunk(w) = SubSeq(File[file[w]], total[w] + 1, m)
    BY DEF Chunk
  <1> HIDE DEF m
  <1>6. SubSeq(File[file[w]], 1, total[w]) \o SubSeq(File[file[w]], total[w] + 1, m)
          = SubSeq(File[file[w]], 1, m)
    <2>1. 1 \in 1..(Len(File[file[w]]) + 1) /\ total[w] \in (1 - 1)..Len(File[file[w]])
          /\ m \in total[w]..Len(File[file[w]])
      BY <1>1, <1>2 DEF FileLen
    <2>2. QED
      BY <2>1, <1>1, ConcatAdjacentSubSeq
  <1>7. Len(body[req[w]]) = total[w]
    BY <1>1 DEF FileLen
  <1>8. Chunk(w) = <<>> => total[w] = FileLen(w)
    <2>1. Chunk(w) = <<>> => Len(Chunk(w)) = 0
      OBVIOUS
    <2>2. QED
      BY <2>1, <1>1, <1>2
  <1>9. QED
    BY <1>2, <1>3, <1>4, <1>5, <1>6, <1>7, <1>8

\* A worker that does nothing while others serve clients of theirs.
LEMMA OtherWorker ==
  ASSUME NEW v \in Workers, WorkerProgress(v),
         pc'[v] = pc[v] \/ pc'[v] = "test", req'[v] = req[v], file'[v] = file[v],
         total'[v] = total[v], want' = want, gone \subseteq gone',
         pc[v] \notin {"test", "sleep", "exited"} =>
           hdr'[req[v]] = hdr[req[v]] /\ body'[req[v]] = body[req[v]]
  PROVE  WorkerProgress(v)'
  BY DEF WorkerProgress, Fresh, FileLen

\* A step that changes nothing that clients have got.
LEMMA ProgressStays ==
  ASSUME Progress, UNCHANGED <<want, conn, gone, hdr, body>>,
         \A r \in Requests : AtBoss(r)' \/ Queued(r)' => AtBoss(r) \/ Queued(r),
         \A w \in Workers : WorkerProgress(w)'
  PROVE  Progress'
  BY DEF Progress, NewFresh, WaitingFresh, Fresh

\* A step that gives something to the client of worker w only.
LEMMA ClientServed ==
  ASSUME TypeOK, Parts, Progress, NEW w \in Workers, req[w] # NoRequest,
         \A r \in Requests \ {req[w]} : hdr'[r] = hdr[r] /\ body'[r] = body[r] /\ conn'[r] = conn[r],
         conn'[req[w]] # "new", UNCHANGED <<boss, accepted, work_queue, want, gone>>,
         \A v \in Workers \ {w} : /\ pc'[v] = pc[v] /\ req'[v] = req[v] /\ file'[v] = file[v]
                                  /\ total'[v] = total[v],
         WorkerProgress(w)'
  PROVE  Progress'
  <1>1. /\ req[w] \in Requests
        /\ \A v \in Workers : pc[v] \notin {"test", "sleep", "exited"} => req[v] \in Requests
    BY DEF TypeOK
  <1>2. \A v \in Workers \ {w} : req[v] # req[w]
    BY DEF Parts, HeldOnce
  <1>3. \A v \in Workers \ {w} : WorkerProgress(v)'
    BY <1>1, <1>2, OtherWorker DEF Progress
  <1>4. Held(req[w])
    BY DEF Held
  <1>5. \A r \in Requests : (AtBoss(r)' <=> AtBoss(r)) /\ (Queued(r)' <=> Queued(r))
    BY DEF AtBoss, Queued
  <1>6. WaitingFresh'
    BY <1>1, <1>4, <1>5 DEF Progress, WaitingFresh, Fresh, Parts, OnePlace
  <1>7. NewFresh'
    BY DEF Progress, NewFresh, Fresh
  <1>8. QED
    BY <1>3, <1>6, <1>7 DEF Progress

LEMMA InitProgress == Init => Progress
  BY DEF Init, Progress, NewFresh, WaitingFresh, WorkerProgress, Fresh

LEMMA NextProgress == TypeOK /\ Parts /\ Progress /\ [Next]_vars => Progress'
  <1> SUFFICES ASSUME TypeOK, Parts, Progress, [Next]_vars PROVE Progress'
    OBVIOUS
  <1>t. /\ PlaceTypes /\ NoRequest \notin Requests
        /\ \A w \in Workers : req[w] = NoRequest <=> pc[w] \in {"test", "sleep", "exited"}
        /\ \A w \in Workers : WorkerProgress(w)
        /\ pc \in [Workers -> WorkerStates] /\ file \in [Workers -> Cached \cup {NoFile}]
        /\ total \in [Workers -> 0..(SizeMod - 1)]
        /\ hdr \in [Requests -> Header] /\ body \in [Requests -> Seq(Byte)]
    BY TypesOfPlaces, ServerAssumption DEF TypeOK, Progress
  <1>1. CASE UNCHANGED vars
    <2>1. \A w \in Workers : WorkerProgress(w)'
      BY <1>1, <1>t, OtherWorker DEF vars, clientVars
    <2>2. QED
      BY <1>1, <2>1, ProgressStays DEF vars, clientVars, AtBoss, Queued
  <1>2. ASSUME NEW r \in Requests, Accept(r) PROVE Progress'
    <2>1. /\ conn[r] = "new" /\ conn'[r] = "open" /\ accepted' = r
          /\ \A x \in Requests \ {r} : conn'[x] = conn[x]
          /\ UNCHANGED <<work_queue, want, gone, hdr, body, pc, req, file, total>>
      BY <1>2, <1>t DEF Accept, PlaceTypes
    <2>2. \A w \in Workers : WorkerProgress(w)'
      BY <2>1, <1>t, OtherWorker
    <2>3. NewFresh' /\ Fresh(r)
      BY <2>1 DEF Progress, NewFresh, Fresh
    <2>4. WaitingFresh'
      BY <2>1, <2>3 DEF Progress, WaitingFresh, Fresh, AtBoss, Queued
    <2>5. QED
      BY <2>2, <2>3, <2>4 DEF Progress
  <1>3. ASSUME NEW r \in Requests, Leave(r) PROVE Progress'
    <2>1. /\ conn[r] = "open" /\ gone' = gone \cup {r}
          /\ UNCHANGED <<boss, accepted, work_queue, want, conn, hdr, body, pc, req, file, total>>
      BY <1>3 DEF Leave
    <2>2. \A w \in Workers : WorkerProgress(w)'
      BY <2>1, <1>t, OtherWorker
    <2>3. NewFresh'
      BY <2>1 DEF Progress, NewFresh, Fresh
    <2>4. WaitingFresh'
      BY <2>1 DEF Progress, WaitingFresh, Fresh, AtBoss, Queued
    <2>5. QED
      BY <2>2, <2>3, <2>4 DEF Progress
  <1>4. CASE Handler
    <2>1. /\ boss = "handler" /\ work_queue' = Append(work_queue, accepted) /\ accepted' = accepted
          /\ UNCHANGED <<want, conn, gone, hdr, body, pc, req, file, total>> /\ boss' = "signal"
          /\ work_queue \in Seq(Requests) /\ accepted \in Requests
      BY <1>4, <1>t DEF Handler, clientVars, PlaceTypes
    <2>2. \A w \in Workers : WorkerProgress(w)'
      BY <2>1, <1>t, OtherWorker
    <2>3. ASSUME NEW r \in Requests, AtBoss(r)' \/ Queued(r)' PROVE AtBoss(r) \/ Queued(r)
      <3>1. PICK i \in 1..Len(work_queue') : work_queue'[i] = r
        BY <2>1, <2>3 DEF AtBoss, Queued
      <3>2. CASE i = Len(work_queue) + 1
        BY <2>1, <3>1, <3>2 DEF AtBoss
      <3>3. CASE i \in 1..Len(work_queue)
        BY <2>1, <3>1, <3>3 DEF Queued
      <3>4. QED
        BY <2>1, <3>2, <3>3
    <2>4. QED
      BY <2>1, <2>2, <2>3, ProgressStays
  <1>5. CASE SignalHandled
    <2>1. /\ Signal(pc) /\ boss' = "accept" /\ boss = "signal"
          /\ UNCHANGED <<work_queue, want, conn, gone, hdr, body, req, file, total>>
      BY <1>5 DEF SignalHandled, clientVars
    <2>2. \A w \in Workers : pc'[w] = pc[w] \/ pc'[w] = "test"
      BY <2>1, <1>t, SignalMoves
    <2>3. \A w \in Workers : WorkerProgress(w)'
      BY <2>1, <2>2, <1>t, OtherWorker
    <2>4. QED
      BY <2>1, <2>3, ProgressStays DEF AtBoss, Queued
  <1>6. ASSUME NEW w \in Workers, Sleep(w) PROVE Progress'
    <2>1. /\ pc' = [pc EXCEPT ![w] = "sleep"]
          /\ UNCHANGED <<boss, accepted, work_queue, want, conn, gone, hdr, body, req, file, total>>
      BY <1>6 DEF Sleep, Goto, clientVars
    <2>2. \A v \in Workers \ {w} : WorkerProgress(v)'
      BY <2>1, <1>t, OtherWorker
    <2>3. WorkerProgress(w)'
      BY <2>1, <1>t DEF WorkerProgress
    <2>4. QED
      BY <2>1, <2>2, <2>3, ProgressStays DEF AtBoss, Queued
  <1>7. ASSUME NEW w \in Workers, Take(w) PROVE Progress'
    <2>1. /\ pc' = [pc EXCEPT ![w] = "signal"] /\ req' = [req EXCEPT ![w] = Head(work_queue)]
          /\ work_queue # <<>> /\ work_queue' = Tail(work_queue)
          /\ UNCHANGED <<boss, accepted, want, conn, gone, hdr, body, file, total>>
          /\ work_queue \in Seq(Requests)
      BY <1>7, <1>t DEF Take, Goto, clientVars, PlaceTypes
    <2>2. \A v \in Workers \ {w} : WorkerProgress(v)'
      BY <2>1, <1>t, OtherWorker DEF PlaceTypes
    <2>3. /\ Head(work_queue) = work_queue[1] /\ 1 \in 1..Len(work_queue)
          /\ Head(work_queue) \in Requests
      BY <2>1
    <2>4. Fresh(Head(work_queue))
      BY <2>3 DEF Progress, WaitingFresh, Queued
    <2>5. req'[w] = Head(work_queue) /\ pc'[w] = "signal"
      BY <2>1, <1>t DEF PlaceTypes
    <2>6. WorkerProgress(w)'
      BY <2>1, <2>4, <2>5 DEF WorkerProgress, Fresh
    <2>7. ASSUME NEW r \in Requests, Queued(r)' PROVE Queued(r)
      <3>1. PICK i \in 1..Len(work_queue') : work_queue'[i] = r
        BY <2>7 DEF Queued
      <3>2. i + 1 \in 1..Len(work_queue) /\ work_queue[i + 1] = r
        BY <3>1, <2>1
      <3>3. QED
        BY <3>2 DEF Queued
    <2>8. QED
      BY <2>1, <2>2, <2>6, <2>7, ProgressStays DEF AtBoss
  <1>8. ASSUME NEW w \in Workers, SignalTaken(w) PROVE Progress'
    <2> DEFINE p == [pc EXCEPT ![w] = "get"]
    <2>1. /\ p \in [Workers -> WorkerStates] /\ Signal(p) /\ pc[w] = "signal"
          /\ \A v \in Workers : pc[v] = "sleep" => p[v] = "sleep"
          /\ p[w] = "get" /\ \A v \in Workers \ {w} : p[v] = pc[v]
          /\ UNCHANGED <<boss, accepted, work_queue, want, conn, gone, hdr, body, req, file, total>>
      BY <1>8, <1>t DEF SignalTaken, WorkerStates, clientVars
    <2> HIDE DEF p
    <2>2. \A v \in Workers : pc'[v] = p[v] \/ (pc[v] = "sleep" /\ pc'[v] = "test")
      BY <2>1, SignalMoves
    <2>3. \A v \in Workers \ {w} : WorkerProgress(v)'
      BY <2>1, <2>2, <1>t, OtherWorker
    <2>4. pc'[w] = "get"
      BY <2>1, <2>2
    <2>5. WorkerProgress(w)'
      BY <2>1, <2>4, <1>t DEF WorkerProgress, Fresh
    <2>6. QED
      BY <2>1, <2>3, <2>5, ProgressStays DEF AtBoss, Queued
  <1>9. ASSUME NEW w \in Workers, ContentFound(w) PROVE Progress'
    <2>1. /\ pc[w] = "get" /\ pc' = [pc EXCEPT ![w] = "fstat"] /\ want[req[w]] \in Cached
          /\ file' = [file EXCEPT ![w] = want[req[w]]]
          /\ UNCHANGED <<boss, accepted, work_queue, want, conn, gone, hdr, body, req, total>>
      BY <1>9 DEF ContentFound, Found, Goto, clientVars
    <2>2. \A v \in Workers \ {w} : WorkerProgress(v)'
      BY <2>1, <1>t, OtherWorker
    <2>3. pc'[w] = "fstat" /\ file'[w] = want[req[w]]
      BY <2>1, <1>t
    <2>4. WorkerProgress(w)'
      BY <2>1, <2>3, <1>t DEF WorkerProgress, Fresh
    <2>5. QED
      BY <2>1, <2>2, <2>4, ProgressStays DEF AtBoss, Queued
  <1>10. ASSUME NEW w \in Workers, ContentMissing(w) PROVE Progress'
    <2>1. /\ pc[w] = "get" /\ pc' = [pc EXCEPT ![w] = "exited"] /\ req[w] \in Requests
          /\ HeaderSent(req[w], <<GF_FILE_NOT_FOUND, 0>>)
          /\ conn' = [conn EXCEPT ![req[w]] = "closed"] /\ req' = [req EXCEPT ![w] = NoRequest]
          /\ UNCHANGED <<boss, accepted, work_queue, want, gone, body, file, total>>
      BY <1>10, <1>t DEF ContentMissing, Goto, PlaceTypes
    <2>2. \A r \in Requests \ {req[w]} : hdr'[r] = hdr[r] /\ conn'[r] = conn[r]
      BY <2>1, <1>t DEF HeaderSent, PlaceTypes
    <2>3. conn'[req[w]] = "closed" /\ pc'[w] = "exited" /\ req[w] # NoRequest
      BY <2>1, <1>t DEF PlaceTypes
    <2>4. WorkerProgress(w)'
      BY <2>3 DEF WorkerProgress
    <2>5. \A v \in Workers \ {w} : pc'[v] = pc[v] /\ req'[v] = req[v]
      BY <2>1, <1>t DEF PlaceTypes
    <2>6. QED
      BY <2>1, <2>2, <2>3, <2>4, <2>5, ClientServed
  <1>11. ASSUME NEW w \in Workers, SendHeader(w) PROVE Progress'
    <2>1. /\ pc[w] = "fstat" /\ pc' = [pc EXCEPT ![w] = "send"] /\ req[w] \in Requests
          /\ HeaderSent(req[w], <<GF_OK, FileLen(w)>>) /\ total' = [total EXCEPT ![w] = 0]
          /\ UNCHANGED <<boss, accepted, work_queue, want, conn, gone, body, req, file>>
      BY <1>11, <1>t DEF SendHeader, Goto, PlaceTypes
    <2>2. \A r \in Requests \ {req[w]} : hdr'[r] = hdr[r]
      BY <2>1, <1>t DEF HeaderSent
    <2>3. /\ pc'[w] = "send" /\ req[w] # NoRequest /\ total'[w] = 0
          /\ (req[w] \notin gone => hdr'[req[w]] = <<GF_OK, FileLen(w)>>)
      BY <2>1, <1>t DEF HeaderSent
    <2>4. /\ file[w] = want[req[w]] /\ file[w] \in Cached /\ body[req[w]] = <<>>
          /\ File[file[w]] \in Seq(Byte) /\ FileLen(w) \in Nat
      BY <2>1, <1>t, ServerAssumption DEF WorkerProgress, Fresh, FileLen
    <2>5. SubSeq(File[file[w]], 1, 0) = <<>>
      BY SubSeqEmpty
    <2>6. WorkerProgress(w)'
      BY <2>1, <2>3, <2>4, <2>5 DEF WorkerProgress, FileLen
    <2>7. \A v \in Workers \ {w} : pc'[v] = pc[v] /\ total'[v] = total[v]
      BY <2>1, <1>t
    <2>8. conn[req[w]] # "new"
      <3>1. Held(req[w])
        BY DEF Held
      <3>2. QED
        BY <3>1, <2>1 DEF Parts, PlacedOpen
    <2>9. QED
      BY <2>1, <2>2, <2>3, <2>6, <2>7, <2>8, ClientServed
  <1>12. ASSUME NEW w \in Workers, SendChunk(w) PROVE Progress'
    <2>1. /\ pc[w] = "send" /\ req[w] \in Requests /\ req[w] # NoRequest
          /\ pc' = [pc EXCEPT ![w] = IF Chunk(w) # <<>> /\ FileLen(w) > Counted(w) THEN "send" ELSE "free"]
          /\ body' = IF req[w] \in gone THEN body
                     ELSE [body EXCEPT ![req[w]] = body[req[w]] \o Chunk(w)]
          /\ total' = IF Chunk(w) = <<>> THEN total ELSE [total EXCEPT ![w] = Counted(w)]
          /\ UNCHANGED <<boss, accepted, work_queue, want, conn, gone, hdr, req, file>>
      BY <1>12, <1>t DEF SendChunk, Goto, PlaceTypes
    <2>2. /\ \A r \in Requests \ {req[w]} : body'[r] = body[r]
          /\ \A v \in Workers \ {w} : pc'[v] = pc[v] /\ total'[v] = total[v]
      BY <2>1, <1>t
    <2>3. conn[req[w]] # "new"
      <3>1. Held(req[w])
        BY DEF Held
      <3>2. QED
        BY <3>1, <2>1 DEF Parts, PlacedOpen
    <2>4. file[w] = want[req[w]] /\ file[w] \in Cached /\ FileLen(w)' = FileLen(w)
      BY <2>1, <1>t DEF WorkerProgress, FileLen
    <2>5. CASE req[w] \in gone
      <3>1. WorkerProgress(w)'
        BY <2>1, <2>4, <2>5, <1>t DEF WorkerProgress
      <3>2. QED
        BY <2>1, <2>2, <2>3, <3>1, ClientServed
    <2>6. CASE req[w] \notin gone
      <3>1. /\ hdr[req[w]] = <<GF_OK, FileLen(w)>> /\ total[w] <= FileLen(w)
            /\ body[req[w]] = SubSeq(File[file[w]], 1, total[w])
        BY <2>1, <2>6, <1>t DEF WorkerProgress
      <3>2. /\ Counted(w) \in Nat /\ Counted(w) <= FileLen(w) /\ Counted(w) = total[w] + Len(Chunk(w))
            /\ body[req[w]] \o Chunk(w) = SubSeq(File[file[w]], 1, Counted(w))
            /\ Chunk(w) = <<>> => total[w] = FileLen(w)
        BY <2>1, <2>6, <3>1, ChunkSent
      <3>3. total[w] \in Nat /\ FileLen(w) \in Nat /\ File[file[w]] \in Seq(Byte)
        BY <2>1, <1>t, ChunkFacts
      <3>4. body'[req[w]] = SubSeq(File[file[w]], 1, Counted(w))
        BY <2>1, <2>6, <3>2, <1>t
      <3>5. total'[w] = Counted(w)
        BY <2>1, <3>2, <3>3, <1>t
      <3>6. pc'[w] = "send" \/ (pc'[w] = "free" /\ Counted(w) = FileLen(w))
        <4>1. Chunk(w) = <<>> => Len(Chunk(w)) = 0
          OBVIOUS
        <4>2. QED
          BY <4>1, <2>1, <3>2, <3>3, <1>t
      <3>7. SubSeq(File[file[w]], 1, FileLen(w)) = File[file[w]]
        BY <3>3, SubSeqFull DEF FileLen
      <3>8. WorkerProgress(w)'
        BY <2>1, <2>4, <3>1, <3>2, <3>4, <3>5, <3>6, <3>7 DEF WorkerProgress
      <3>9. QED
        BY <2>1, <2>2, <2>3, <3>8, ClientServed
    <2>7. QED
      BY <2>5, <2>6
  <1>13. ASSUME NEW w \in Workers, Free(w) PROVE Progress'
    <2>1. /\ pc[w] = "free" /\ pc' = [pc EXCEPT ![w] = "test"] /\ req[w] \in Requests
          /\ conn' = [conn EXCEPT ![req[w]] = "closed"] /\ req' = [req EXCEPT ![w] = NoRequest]
          /\ UNCHANGED <<boss, accepted, work_queue, want, gone, hdr, body, file, total>>
      BY <1>13, <1>t DEF Free, Goto, PlaceTypes
    <2>2. /\ \A r \in Requests \ {req[w]} : conn'[r] = conn[r]
          /\ conn'[req[w]] = "closed" /\ pc'[w] = "test" /\ req[w] # NoRequest
          /\ \A v \in Workers \ {w} : pc'[v] = pc[v] /\ req'[v] = req[v]
      BY <2>1, <1>t DEF PlaceTypes
    <2>3. WorkerProgress(w)'
      BY <2>2 DEF WorkerProgress
    <2>4. QED
      BY <2>1, <2>2, <2>3, ClientServed
  <1>14. CASE SpuriousWakeup
    <2>1. PICK t \in Sleepers : pc' = [pc EXCEPT ![t] = "test"]
      BY <1>14 DEF SpuriousWakeup
    <2>2. UNCHANGED <<boss, accepted, work_queue, want, conn, gone, hdr, body, req, file, total>>
      BY <1>14 DEF SpuriousWakeup, clientVars
    <2>3. \A v \in Workers : WorkerProgress(v)'
      BY <2>1, <2>2, <1>t, OtherWorker
    <2>4. QED
      BY <2>2, <2>3, ProgressStays DEF AtBoss, Queued
  <1>15. QED
    BY <1>1, <1>2, <1>3, <1>4, <1>5, <1>6, <1>7, <1>8, <1>9, <1>10, <1>11, <1>12, <1>13, <1>14
       DEF Next, BossStep, WorkerStep

-----------------------------------------------------------------------------
(* The pool implements the file service                                    *)

stages == [r \in Requests |-> Stage(r)]

LEMMA SameStages ==
  ASSUME UNCHANGED <<conn, gone>>,
         \A r \in Requests : hdr'[r] = NoHeader <=> hdr[r] = NoHeader
  PROVE  stages' = stages
  BY DEF stages, Stage

\* Nothing that a client sees.
LEMMA Unseen ==
  ASSUME UNCHANGED <<want, conn, gone, hdr, body>>
  PROVE  UNCHANGED <<stages, want, hdr, body>>
  BY SameStages

LEMMA StepImplements ==
  ASSUME TypeOK, Parts, Progress, [Next]_vars
  PROVE  [Service!Next]_<<stages, want, hdr, body>>
  <1> USE DEF Service!Next
  <1>t. /\ PlaceTypes /\ NoRequest \notin Requests
        /\ \A w \in Workers : req[w] = NoRequest <=> pc[w] \in {"test", "sleep", "exited"}
        /\ \A w \in Workers : WorkerProgress(w)
        /\ hdr \in [Requests -> Header] /\ body \in [Requests -> Seq(Byte)]
        /\ want \in [Requests -> Paths] /\ gone \subseteq Leavers
    BY TypesOfPlaces, ServerAssumption DEF TypeOK, Progress
  <1>h. ASSUME NEW w \in Workers, req[w] # NoRequest
        PROVE  req[w] \in Requests /\ conn[req[w]] = "open"
    <2>1. req[w] \in Requests /\ Held(req[w])
      BY <1>h, <1>t DEF Held, PlaceTypes
    <2>2. QED
      BY <2>1 DEF Parts, PlacedOpen
  <1>1. CASE UNCHANGED vars
    BY <1>1, Unseen DEF vars, clientVars
  <1>2. ASSUME NEW r \in Requests, Accept(r) PROVE Service!Next
    <2>1. /\ conn[r] = "new" /\ conn' = [conn EXCEPT ![r] = "open"]
          /\ UNCHANGED <<want, gone, hdr, body>>
      BY <1>2 DEF Accept
    <2>2. r \notin gone /\ hdr[r] = NoHeader /\ body[r] = <<>>
      BY <2>1 DEF Progress, NewFresh, Fresh
    <2>3. stages[r] = "idle" /\ stages' = [stages EXCEPT ![r] = "asked"]
      BY <2>1, <2>2, <1>t DEF stages, Stage, PlaceTypes
    <2>4. /\ want' = [want EXCEPT ![r] = want[r]] /\ want[r] \in Paths
          /\ hdr' = [hdr EXCEPT ![r] = NoHeader] /\ body' = [body EXCEPT ![r] = <<>>]
      BY <2>1, <2>2, <1>t
    <2>5. Service!Ask(r, want[r])
      BY <2>3, <2>4 DEF Service!Ask, stages
    <2>6. QED
      BY <2>4, <2>5
  <1>3. ASSUME NEW r \in Requests, Leave(r) PROVE Service!Next
    <2>1. /\ r \in Leavers \ gone /\ conn[r] = "open" /\ gone' = gone \cup {r}
          /\ UNCHANGED <<want, conn, hdr, body>>
      BY <1>3 DEF Leave
    <2>2. stages[r] \in {"asked", "sending"} /\ stages' = [stages EXCEPT ![r] = "gone"]
      BY <2>1, <1>t DEF stages, Stage
    <2>3. Service!Leave(r)
      BY <2>1, <2>2 DEF Service!Leave, stages
    <2>4. QED
      BY <2>3
  <1>4. CASE Handler \/ SignalHandled \/ SpuriousWakeup
    BY <1>4, Unseen DEF Handler, SignalHandled, SpuriousWakeup, clientVars
  <1>5. ASSUME NEW w \in Workers, Sleep(w) \/ Take(w) \/ SignalTaken(w) \/ ContentFound(w)
        PROVE  UNCHANGED <<stages, want, hdr, body>>
    BY <1>5, Unseen DEF Sleep, Take, SignalTaken, ContentFound, clientVars
  <1>6. ASSUME NEW w \in Workers, ContentMissing(w)
        PROVE  [Service!Next]_<<stages, want, hdr, body>>
    <2>1. /\ pc[w] = "get" /\ req[w] \in Requests /\ want[req[w]] \notin Cached
          /\ HeaderSent(req[w], <<GF_FILE_NOT_FOUND, 0>>) /\ conn[req[w]] = "open"
          /\ conn' = [conn EXCEPT ![req[w]] = "closed"] /\ UNCHANGED <<want, gone, body>>
      BY <1>6, <1>t, <1>h DEF ContentMissing, Found, Goto
    <2>2. hdr[req[w]] = NoHeader
      BY <2>1, <1>t DEF WorkerProgress, Fresh
    <2>3. CASE req[w] \in gone
      BY <2>1, <2>3, <1>t DEF HeaderSent, stages, Stage, PlaceTypes
    <2>4. CASE req[w] \notin gone
      <3>1. hdr' = [hdr EXCEPT ![req[w]] = <<GF_FILE_NOT_FOUND, 0>>]
        BY <2>1, <2>4 DEF HeaderSent
      <3>2. stages[req[w]] = "asked" /\ stages' = [stages EXCEPT ![req[w]] = "idle"]
        BY <2>1, <2>2, <2>4, <3>1, <1>t DEF stages, Stage, PlaceTypes
      <3>3. Service!AnswerNotFound(req[w])
        BY <2>1, <3>1, <3>2 DEF Service!AnswerNotFound, stages
      <3>4. QED
        BY <3>3, <2>1
    <2>5. QED
      BY <2>3, <2>4
  <1>7. ASSUME NEW w \in Workers, SendHeader(w)
        PROVE  [Service!Next]_<<stages, want, hdr, body>>
    <2>1. /\ pc[w] = "fstat" /\ req[w] \in Requests /\ conn[req[w]] = "open"
          /\ HeaderSent(req[w], <<GF_OK, FileLen(w)>>) /\ UNCHANGED <<want, conn, gone, body>>
      BY <1>7, <1>t, <1>h DEF SendHeader, Goto
    <2>2. hdr[req[w]] = NoHeader /\ file[w] = want[req[w]] /\ file[w] \in Cached
      BY <2>1, <1>t DEF WorkerProgress, Fresh
    <2>3. CASE req[w] \in gone
      BY <2>1, <2>3, SameStages DEF HeaderSent
    <2>4. CASE req[w] \notin gone
      <3>1. hdr' = [hdr EXCEPT ![req[w]] = <<GF_OK, Len(File[want[req[w]]])>>]
        BY <2>1, <2>2, <2>4 DEF HeaderSent, FileLen
      <3>2. Len(File[want[req[w]]]) \in Nat
        BY <2>2, ServerAssumption
      <3>3. <<GF_OK, Len(File[want[req[w]]])>> # NoHeader
        BY <3>2, ServerAssumption DEF GF_OK
      <3>4. stages[req[w]] = "asked" /\ stages' = [stages EXCEPT ![req[w]] = "sending"]
        BY <2>1, <2>2, <2>4, <3>1, <3>3, <1>t DEF stages, Stage
      <3>5. Service!AnswerOK(req[w])
        BY <2>1, <2>2, <3>1, <3>4 DEF Service!AnswerOK, stages
      <3>6. QED
        BY <3>5, <2>1
    <2>5. QED
      BY <2>3, <2>4
  <1>8. ASSUME NEW w \in Workers, SendChunk(w)
        PROVE  [Service!Next]_<<stages, want, hdr, body>>
    <2>1. /\ pc[w] = "send" /\ req[w] \in Requests /\ conn[req[w]] = "open"
          /\ body' = IF req[w] \in gone THEN body
                     ELSE [body EXCEPT ![req[w]] = body[req[w]] \o Chunk(w)]
          /\ UNCHANGED <<want, conn, gone, hdr>>
      BY <1>8, <1>t, <1>h DEF SendChunk, Goto
    <2>2. stages' = stages
      BY <2>1, SameStages
    <2>3. CASE req[w] \in gone
      BY <2>1, <2>2, <2>3
    <2>4. CASE req[w] \notin gone
      <3>1. /\ hdr[req[w]] = <<GF_OK, FileLen(w)>> /\ total[w] <= FileLen(w)
            /\ body[req[w]] = SubSeq(File[file[w]], 1, total[w]) /\ file[w] = want[req[w]]
        BY <2>1, <2>4, <1>t DEF WorkerProgress
      <3>2. /\ Counted(w) \in Nat /\ Counted(w) <= FileLen(w) /\ Counted(w) = total[w] + Len(Chunk(w))
            /\ body[req[w]] \o Chunk(w) = SubSeq(File[file[w]], 1, Counted(w))
            /\ Len(body[req[w]]) = total[w]
        BY <2>1, <2>4, <3>1, ChunkSent
      <3>3. FileLen(w) \in Nat /\ Chunk(w) \in Seq(Byte) /\ total[w] \in Nat
        BY <2>1, ChunkFacts DEF TypeOK
      <3>4. CASE Chunk(w) = <<>>
        <4>1. body[req[w]] \o Chunk(w) = body[req[w]]
          BY <2>1, <3>4, <1>t
        <4>2. body' = body
          BY <2>1, <2>4, <4>1, <1>t
        <4>3. QED
          BY <2>1, <2>2, <4>2
      <3>5. CASE Chunk(w) # <<>>
        <4>1. Len(Chunk(w)) \in Nat /\ Len(Chunk(w)) > 0
          BY <3>3, <3>5
        <4>2. Counted(w) \in (Len(body[req[w]]) + 1)..Len(File[want[req[w]]])
          BY <3>1, <3>2, <3>3, <4>1 DEF FileLen
        <4>3. body' = [body EXCEPT ![req[w]] = SubSeq(File[want[req[w]]], 1, Counted(w))]
          BY <2>1, <2>4, <3>1, <3>2
        <4>4. FileLen(w) \in Nat /\ <<GF_OK, FileLen(w)>> # NoHeader
          BY <3>3, ServerAssumption DEF GF_OK
        <4>5. stages[req[w]] = "sending"
          BY <2>1, <2>4, <3>1, <4>4 DEF stages, Stage
        <4>6. Service!Deliver(req[w])
          BY <2>1, <2>2, <4>2, <4>3, <4>5 DEF Service!Deliver, stages
        <4>7. QED
          BY <4>6, <2>1
      <3>6. QED
        BY <3>4, <3>5
    <2>5. QED
      BY <2>3, <2>4
  <1>9. ASSUME NEW w \in Workers, Free(w)
        PROVE  [Service!Next]_<<stages, want, hdr, body>>
    <2>1. /\ pc[w] = "free" /\ req[w] \in Requests /\ conn[req[w]] = "open"
          /\ conn' = [conn EXCEPT ![req[w]] = "closed"] /\ UNCHANGED <<want, gone, hdr, body>>
      BY <1>9, <1>t, <1>h DEF Free, Goto
    <2>2. CASE req[w] \in gone
      BY <2>1, <2>2, <1>t DEF stages, Stage, PlaceTypes
    <2>3. CASE req[w] \notin gone
      <3>1. /\ hdr[req[w]] = <<GF_OK, FileLen(w)>> /\ body[req[w]] = File[want[req[w]]]
            /\ file[w] \in Cached
        BY <2>1, <2>3, <1>t DEF WorkerProgress
      <3>2. FileLen(w) \in Nat
        BY <3>1, ServerAssumption DEF FileLen
      <3>3. <<GF_OK, FileLen(w)>> # NoHeader
        BY <3>2, ServerAssumption DEF GF_OK
      <3>4. stages[req[w]] = "sending" /\ stages' = [stages EXCEPT ![req[w]] = "idle"]
        BY <2>1, <2>3, <3>1, <3>3, <1>t DEF stages, Stage, PlaceTypes
      <3>5. Service!Return(req[w])
        BY <2>1, <3>1, <3>4 DEF Service!Return, stages
      <3>6. QED
        BY <3>5, <2>1
    <2>4. QED
      BY <2>2, <2>3
  <1>10. QED
    BY <1>1, <1>2, <1>3, <1>4, <1>5, <1>6, <1>7, <1>8, <1>9 DEF Next, BossStep, WorkerStep

(* handler.c:21-36, gfserver_main.c:133-197.  Boss, queue and workers      *)
(* implement the file service, for any number of workers and of clients,   *)
(* any file, and any size of the buffer: a client gets the header and the  *)
(* bytes of its own file in order, and all of it if it stays.              *)
THEOREM PoolIsFileService == Spec => ImplementsFileService
  <1>1. Init => Service!Init
    BY DEF Init, Service!Init, Stage
  <1>2. Init => TypeOK /\ Parts /\ Progress
    BY InitType, InitParts, InitProgress
  <1>3. TypeOK /\ Parts /\ Progress /\ [Next]_vars => (TypeOK /\ Parts /\ Progress)'
    BY NextType, NextParts, NextProgress
  <1>4. TypeOK /\ Parts /\ Progress /\ [Next]_vars => [Service!Next]_(Service!vars)
    BY StepImplements DEF Service!vars, stages
  <1>5. QED
    BY <1>1, <1>2, <1>3, <1>4, PTL DEF Spec, ImplementsFileService, Service!Spec
=============================================================================
