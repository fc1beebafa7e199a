--------------------------- MODULE ShmCacheProofs ---------------------------
(***************************************************************************)
(* Theorems about ShmCache, for every number of workers, segments and      *)
(* daemon threads, every set of files and every outcome of gfs_send and of *)
(* pread.                                                                  *)
(***************************************************************************)
EXTENDS ShmCache, SequenceTheorems, TLAPS

-----------------------------------------------------------------------------
(* Types                                                                   *)

\* Where a worker uses its segment it has one.
LEMMA HeldSegment ==
  ASSUME WorkersTypeOK, NEW w \in Workers, pc[w] \in HoldingStates
  PROVE  seg[w] \in Segments
  BY DEF WorkersTypeOK

\* What a daemon worker has received is a path and a segment.
LEMMA RequestFields ==
  ASSUME DaemonsTypeOK, NEW d \in Daemons
  PROVE  req[d].path \in Paths /\ req[d].seg \in Segments
  BY DEF DaemonsTypeOK, Request

\* Posting and passing a semaphore.
LEMMA SemaphoreSteps ==
  ASSUME NEW r \in Semaphores
  PROVE  /\ [r EXCEPT !.filelen = @ + 1] \in Semaphores
         /\ [r EXCEPT !.proxy = @ + 1] \in Semaphores
         /\ [r EXCEPT !.cache = @ + 1] \in Semaphores
         /\ r.filelen > 0 => [r EXCEPT !.filelen = @ - 1] \in Semaphores
         /\ r.proxy > 0 => [r EXCEPT !.proxy = @ - 1] \in Semaphores
         /\ r.cache > 0 => [r EXCEPT !.cache = @ - 1] \in Semaphores
  BY DEF Semaphores

\* What queueMemory leaves in a segment.
LEMMA ClearedSegment ==
  ASSUME NEW r \in Shared
  PROVE  /\ [r EXCEPT !.read_len = 0, !.filesize = 0] \in Shared
         /\ Fits([r EXCEPT !.read_len = 0, !.filesize = 0])
  <1> DEFINE t == [r EXCEPT !.read_len = 0, !.filesize = 0]
  <1>1. t \in Shared
    <2>1. 0 \in 0..SegSize /\ 0 \in 0..(SizeMod - 1)
      BY SizeAssumption
    <2>2. QED
      BY <2>1 DEF Shared
  <1>2. t.read_len = 0 /\ t.data = r.data /\ r.data \in Seq(Byte)
    BY DEF Shared
  <1>3. Fits(t)
    BY <1>2, SizeAssumption DEF Fits
  <1>4. QED
    BY <1>1, <1>3

\* Copying a chunk over the start of the data.
LEMMA CopiedSegment ==
  ASSUME NEW r \in Shared, NEW s \in Seq(Byte), Len(s) <= SegSize
  PROVE  LET t == [r EXCEPT !.read_len = Len(s), !.data = Overwrite(r.data, s)]
         IN  t \in Shared /\ Fits(t)
  <1>1. r.data \in Seq(Byte) /\ Len(s) \in 0..SegSize /\ Len(s) \in 0..(SizeMod - 1)
    BY SizeAssumption DEF Shared
  <1>2. SubSeq(r.data, Len(s) + 1, Len(r.data)) \in Seq(Byte)
    BY <1>1
  <1>3. Overwrite(r.data, s) \in Seq(Byte) /\ Len(s) <= Len(Overwrite(r.data, s))
    BY <1>1, <1>2 DEF Overwrite
  <1> DEFINE t == [r EXCEPT !.read_len = Len(s), !.data = Overwrite(r.data, s)]
  <1>4. t \in Shared /\ t.read_len = Len(s) /\ t.data = Overwrite(r.data, s)
    BY <1>1, <1>3 DEF Shared
  <1>5. Len(s) <= SegSize /\ Len(s) <= Len(Overwrite(r.data, s))
    BY <1>3
  <1> HIDE DEF t
  <1>6. Fits(t)
    BY <1>4, <1>5 DEF Fits
  <1>7. QED
    BY <1>4, <1>6 DEF t

\* A chunk is at most SegSize bytes of the file.
LEMMA ChunkType ==
  ASSUME DaemonsTypeOK, NEW d \in Daemons, req[d].path \in Cached
  PROVE  Chunk(d) \in Seq(Byte) /\ Len(Chunk(d)) \in 0..SegSize
  <1> DEFINE file == File[req[d].path]
             last == Lesser(bytes_read[d] + SegSize, Len(file))
  <1>1. file \in Seq(Byte) /\ Len(file) \in Nat
    BY FileAssumption
  <1>2. bytes_read[d] \in Nat /\ SegSize \in Nat
    BY SizeAssumption DEF DaemonsTypeOK
  <1>3. last \in Nat /\ last <= Len(file) /\ last <= bytes_read[d] + SegSize
    BY <1>1, <1>2 DEF Lesser
  <1>4. Chunk(d) = SubSeq(file, bytes_read[d] + 1, last)
    BY DEF Chunk, Filsize
  <1> HIDE DEF file, last
  <1>5. SubSeq(file, bytes_read[d] + 1, last) \in Seq(Byte)
    BY <1>1, <1>2, <1>3
  <1>6. Len(SubSeq(file, bytes_read[d] + 1, last)) =
          IF bytes_read[d] + 1 <= last THEN last - bytes_read[d] ELSE 0
    BY <1>1, <1>2, <1>3
  <1>7. QED
    BY <1>2, <1>3, <1>4, <1>5, <1>6

\* The start of both processes is well typed.
LEMMA InitTypeOK == Init => TypeOK
  <1> SUFFICES ASSUME Init PROVE TypeOK
    OBVIOUS
  <1>1. AnyPath \in Paths
    BY FileAssumption DEF AnyPath
  <1>2. WorkersTypeOK
    BY <1>1, SizeAssumption
       DEF Init, WorkersTypeOK, Segments, NoSeg, ProxyStates, HoldingStates, Header
  <1>3. QueuesTypeOK
    BY SizeAssumption DEF Init, QueuesTypeOK, Segments, Request
  <1>4. SegmentsTypeOK
    <2>1. \A s \in Segments : /\ shm[s] \in Shared /\ shm[s].read_len = 0 /\ shm[s].data = <<>>
                              /\ sem[s] \in Semaphores
      BY SizeAssumption DEF Init, Segments, Semaphores, Shared
    <2>2. \A s \in Segments : Fits(shm[s])
      BY <2>1, SizeAssumption DEF Fits
    <2>3. QED
      BY <2>1, <2>2 DEF Init, SegmentsTypeOK
  <1>5. DaemonsTypeOK
    BY <1>1, SizeAssumption DEF Init, DaemonsTypeOK, Segments, Request, DaemonStates
  <1>6. QED
    BY <1>2, <1>3, <1>4, <1>5 DEF TypeOK

\* Every step of either process keeps the types.
LEMMA NextTypeOK == TypeOK /\ [Next]_vars => TypeOK'
  <1> SUFFICES ASSUME TypeOK, [Next]_vars PROVE TypeOK'
    OBVIOUS
  <1> USE DEF TypeOK
  <1> DEFINE WorkersSame == UNCHANGED workerVars
             QueuesSame == UNCHANGED <<shm_queue, mq>>
             SegmentsSame == UNCHANGED <<sem, shm>>
             DaemonsSame == UNCHANGED daemonVars
  <1>a. WorkersSame => WorkersTypeOK'
    BY DEF WorkersTypeOK, workerVars
  <1>b. QueuesSame => QueuesTypeOK'
    BY DEF QueuesTypeOK
  <1>c. SegmentsSame => SegmentsTypeOK'
    BY DEF SegmentsTypeOK
  <1>d. DaemonsSame => DaemonsTypeOK'
    BY DEF DaemonsTypeOK, daemonVars
  <1>1. ASSUME NEW w \in Workers, NEW p \in Paths, Ask(w, p) PROVE TypeOK'
    <2>1. WorkersTypeOK'
      BY <1>1 DEF WorkersTypeOK, Ask, Goto, ProxyStates, HoldingStates, Header
    <2>2. QED
      BY <1>1, <1>b, <1>c, <1>d, <2>1 DEF Ask
  <1>2. ASSUME NEW w \in Workers, SpuriousWakeup(w) PROVE TypeOK'
    <2>1. WorkersTypeOK'
      BY <1>2 DEF WorkersTypeOK, SpuriousWakeup, Goto, ProxyStates, HoldingStates
    <2>2. QED
      BY <1>2, <1>b, <1>c, <1>d, <2>1 DEF SpuriousWakeup
  <1>3. ASSUME NEW w \in Workers, AwaitSegment(w) PROVE TypeOK'
    <2>1. WorkersTypeOK'
      BY <1>3 DEF WorkersTypeOK, AwaitSegment, Goto, ProxyStates, HoldingStates
    <2>2. QED
      BY <1>3, <1>b, <1>c, <1>d, <2>1 DEF AwaitSegment
  <1>4. ASSUME NEW w \in Workers, GetSegment(w) PROVE TypeOK'
    <2>1. Head(shm_queue) \in Segments
      BY <1>4 DEF GetSegment, QueuesTypeOK
    <2>2. WorkersTypeOK'
      BY <1>4, <2>1
         DEF WorkersTypeOK, GetSegment, Goto, ProxyStates, HoldingStates, Segments, NoSeg
    <2>3. QueuesTypeOK'
      BY <1>4 DEF QueuesTypeOK, GetSegment
    <2>4. QED
      BY <1>4, <1>c, <1>d, <2>2, <2>3 DEF GetSegment
  <1>5. ASSUME NEW w \in Workers, Broadcast(w) PROVE TypeOK'
    <2>1. WorkersTypeOK'
      BY <1>5 DEF WorkersTypeOK, Broadcast, Broadcasting, AfterBroadcast, ProxyStates,
                  HoldingStates
    <2>2. QED
      BY <1>5, <1>b, <1>c, <1>d, <2>1 DEF Broadcast
  <1>6. ASSUME NEW w \in Workers, InitSems(w) PROVE TypeOK'
    <2>1. WorkersTypeOK'
      BY <1>6 DEF WorkersTypeOK, InitSems, Goto, ProxyStates, HoldingStates
    <2>2. FreshSems \in Semaphores
      BY DEF FreshSems, Semaphores
    <2>3. SegmentsTypeOK'
      BY <1>6, <2>2 DEF SegmentsTypeOK, InitSems
    <2>4. QED
      BY <1>6, <1>b, <1>d, <2>1, <2>3 DEF InitSems
  <1>7. ASSUME NEW w \in Workers, SendRequest(w) PROVE TypeOK'
    <2>1. WorkersTypeOK'
      BY <1>7 DEF WorkersTypeOK, SendRequest, Goto, ProxyStates, HoldingStates
    <2>2. seg[w] \in Segments
      BY <1>7, HeldSegment DEF SendRequest, Goto, HoldingStates
    <2>3. [path |-> path[w], seg |-> seg[w]] \in Request
      BY <2>2 DEF WorkersTypeOK, Request
    <2>4. QueuesTypeOK'
      BY <1>7, <2>3, SizeAssumption DEF QueuesTypeOK, SendRequest
    <2>5. QED
      BY <1>7, <1>c, <1>d, <2>1, <2>4 DEF SendRequest
  <1>8. ASSUME NEW w \in Workers, AwaitFileLen(w) PROVE TypeOK'
    <2>1. WorkersTypeOK'
      BY <1>8 DEF WorkersTypeOK, AwaitFileLen, ProxyStates, HoldingStates
    <2>2. seg[w] \in Segments
      BY <1>8, HeldSegment DEF AwaitFileLen, HoldingStates
    <2>3. [sem[seg[w]] EXCEPT !.filelen = @ - 1] \in Semaphores
      BY <1>8, <2>2, SemaphoreSteps DEF SegmentsTypeOK, AwaitFileLen
    <2>4. SegmentsTypeOK'
      BY <1>8, <2>2, <2>3 DEF SegmentsTypeOK, AwaitFileLen
    <2>5. QED
      BY <1>8, <1>b, <1>d, <2>1, <2>4 DEF AwaitFileLen
  <1>9. ASSUME NEW w \in Workers, SendHeader(w) PROVE TypeOK'
    <2>1. seg[w] \in Segments
      BY <1>9, HeldSegment DEF SendHeader, Goto, HoldingStates
    <2>2. <<GF_OK, shm[seg[w]].filesize>> \in Header
      BY <2>1, SizeAssumption DEF SegmentsTypeOK, Shared, Header
    <2>3. WorkersTypeOK'
      BY <1>9, <2>2, SizeAssumption
         DEF WorkersTypeOK, SendHeader, Goto, ProxyStates, HoldingStates
    <2>4. QED
      BY <1>9, <1>b, <1>c, <1>d, <2>3 DEF SendHeader
  <1>10. ASSUME NEW w \in Workers, LoopTest(w) PROVE TypeOK'
    <2>1. WorkersTypeOK'
      BY <1>10 DEF WorkersTypeOK, LoopTest, ProxyStates, HoldingStates
    <2>2. QED
      BY <1>10, <1>b, <1>c, <1>d, <2>1 DEF LoopTest
  <1>11. ASSUME NEW w \in Workers, AwaitChunk(w) PROVE TypeOK'
    <2>1. WorkersTypeOK'
      BY <1>11 DEF WorkersTypeOK, AwaitChunk, Goto, ProxyStates, HoldingStates
    <2>2. seg[w] \in Segments
      BY <1>11, HeldSegment DEF AwaitChunk, Goto, HoldingStates
    <2>3. [sem[seg[w]] EXCEPT !.proxy = @ - 1] \in Semaphores
      BY <1>11, <2>2, SemaphoreSteps DEF SegmentsTypeOK, AwaitChunk
    <2>4. SegmentsTypeOK'
      BY <1>11, <2>2, <2>3 DEF SegmentsTypeOK, AwaitChunk
    <2>5. QED
      BY <1>11, <1>b, <1>d, <2>1, <2>4 DEF AwaitChunk
  <1>12. ASSUME NEW w \in Workers, SendChunk(w) PROVE TypeOK'
    <2>1. seg[w] \in Segments
      BY <1>12, HeldSegment DEF SendChunk, HoldingStates
    <2>2. /\ shm[seg[w]].read_len \in 0..(SizeMod - 1)
          /\ shm[seg[w]].data \in Seq(Byte)
      BY <2>1 DEF SegmentsTypeOK, Shared
    <2>3. PICK r \in SendResults(shm[seg[w]].read_len, Len(shm[seg[w]].data)) :
            /\ Goto(w, "send", IF r = 0 THEN "finish" ELSE "post")
            /\ body' = IF r > 0
                       THEN [body EXCEPT ![w] = @ \o SubSeq(shm[seg[w]].data, 1, r)]
                       ELSE body
            /\ transferred' = [transferred EXCEPT ![w] = AddSize(@, ToSize(r))]
            /\ UNCHANGED <<shm_queue, path, seg, hdr, mq, sem, shm, daemonVars>>
      BY <1>12 DEF SendChunk
    <2>4. r \in Int /\ -1 <= r /\ r < SizeMod /\ r <= Len(shm[seg[w]].data)
      <3>1. CASE r = shm[seg[w]].read_len /\ r <= Len(shm[seg[w]].data)
        BY <2>2, <3>1, SizeAssumption
      <3>2. CASE r \in SendErrors /\ r < shm[seg[w]].read_len /\ r <= Len(shm[seg[w]].data)
        BY <2>2, <3>2, SendAssumption, SizeAssumption
      <3>3. QED
        BY <2>3, <3>1, <3>2 DEF SendResults
    <2>5. r > 0 => SubSeq(shm[seg[w]].data, 1, r) \in Seq(Byte)
      BY <2>2, <2>4
    <2>6. body' \in [Workers -> Seq(Byte)]
      BY <2>3, <2>5 DEF WorkersTypeOK
    <2>7. ToSize(r) \in 0..(SizeMod - 1)
      BY <2>2, <2>4, SizeAssumption DEF ToSize
    <2>8. AddSize(transferred[w], ToSize(r)) \in 0..(SizeMod - 1)
      BY <2>7, SizeAssumption DEF AddSize, WorkersTypeOK
    <2>9. WorkersTypeOK'
      BY <2>3, <2>6, <2>8 DEF WorkersTypeOK, Goto, ProxyStates, HoldingStates
    <2>10. QED
      BY <2>3, <1>b, <1>c, <1>d, <2>9
  <1>13. ASSUME NEW w \in Workers, PostCache(w) PROVE TypeOK'
    <2>1. WorkersTypeOK'
      BY <1>13 DEF WorkersTypeOK, PostCache, Goto, ProxyStates, HoldingStates
    <2>2. seg[w] \in Segments
      BY <1>13, HeldSegment DEF PostCache, Goto, HoldingStates
    <2>3. [sem[seg[w]] EXCEPT !.cache = @ + 1] \in Semaphores
      BY <2>2, SemaphoreSteps DEF SegmentsTypeOK
    <2>4. SegmentsTypeOK'
      BY <1>13, <2>2, <2>3 DEF SegmentsTypeOK, PostCache
    <2>5. QED
      BY <1>13, <1>b, <1>d, <2>1, <2>4 DEF PostCache
  <1>14. ASSUME NEW w \in Workers, QueueMemory(w) PROVE TypeOK'
    <2>1. seg[w] \in Segments
      BY <1>14, HeldSegment DEF QueueMemory, HoldingStates
    <2>2. WorkersTypeOK'
      BY <1>14 DEF WorkersTypeOK, QueueMemory, AfterQueue, ProxyStates, HoldingStates
    <2>3. QueuesTypeOK'
      BY <1>14, <2>1 DEF QueuesTypeOK, QueueMemory
    <2> DEFINE r == [shm[seg[w]] EXCEPT !.read_len = 0, !.filesize = 0]
    <2>4. r \in Shared /\ Fits(r)
      BY <2>1, ClearedSegment DEF SegmentsTypeOK
    <2>5. SegmentsTypeOK'
      BY <1>14, <2>1, <2>4 DEF SegmentsTypeOK, QueueMemory
    <2>6. QED
      BY <1>14, <1>d, <2>2, <2>3, <2>5 DEF QueueMemory
  <1>15. ASSUME NEW w \in Workers, SendNotFound(w) PROVE TypeOK'
    <2>1. WorkersTypeOK'
      BY <1>15 DEF WorkersTypeOK, SendNotFound, Goto, ProxyStates, HoldingStates, Header
    <2>2. QED
      BY <1>15, <1>b, <1>c, <1>d, <2>1 DEF SendNotFound
  <1>16. ASSUME NEW d \in Daemons, Receive(d) PROVE TypeOK'
    <2>1. Head(mq) \in Request
      BY <1>16 DEF Receive, QueuesTypeOK
    <2>2. DaemonsTypeOK'
      BY <1>16, <2>1 DEF DaemonsTypeOK, Receive, DGoto, DaemonStates
    <2>3. QueuesTypeOK'
      BY <1>16, SizeAssumption DEF QueuesTypeOK, Receive
    <2>4. QED
      BY <1>16, <1>a, <1>c, <2>2, <2>3 DEF Receive
  <1>17. ASSUME NEW d \in Daemons, Reply(d) PROVE TypeOK'
    <2>1. DaemonsTypeOK'
      BY <1>17 DEF DaemonsTypeOK, Reply, DGoto, DaemonStates
    <2>2. req[d].seg \in Segments
      BY RequestFields
    <2> DEFINE r == shm[req[d].seg]
    <2>3. /\ r \in Shared
          /\ Fits(r)
      BY <2>2 DEF SegmentsTypeOK
    <2>4. req[d].path \in Cached => Filsize(d) \in 0..(SizeMod - 1)
      BY FileAssumption, SizeAssumption DEF Filsize
    <2>5. ToSize(-1) \in 0..(SizeMod - 1)
      BY SizeAssumption DEF ToSize
    <2> DEFINE t == IF req[d].path \in Cached
                    THEN [r EXCEPT !.filesize = Filsize(d), !.status = 200]
                    ELSE [r EXCEPT !.filesize = ToSize(-1), !.status = 404]
    <2>6. t \in Shared /\ Fits(t)
      <3> HIDE DEF r
      <3>1. CASE req[d].path \in Cached
        <4>1. PICK n \in 0..(SizeMod - 1) : n = Filsize(d)
          BY <2>4, <3>1
        <4>2. t = [r EXCEPT !.filesize = n, !.status = 200]
          BY <3>1, <4>1
        <4> HIDE DEF t
        <4>3. t \in Shared
          <5>1. /\ t.status = 200 /\ t.filesize = n
                /\ t.read_len = r.read_len /\ t.data = r.data
            BY <2>3, <4>2 DEF Shared
          <5>2. t = [status |-> t.status, filesize |-> t.filesize,
                     read_len |-> t.read_len, data |-> t.data]
            BY <2>3, <4>2 DEF Shared
          <5>3. QED
            BY <2>3, <5>1, <5>2 DEF Shared
        <4>4. t.read_len = r.read_len /\ t.data = r.data
          BY <2>3, <4>2 DEF Shared
        <4>5. QED
          BY <2>3, <4>3, <4>4 DEF Fits
      <3>2. CASE req[d].path \notin Cached
        <4>1. PICK n \in 0..(SizeMod - 1) : n = ToSize(-1)
          BY <2>5
        <4>2. t = [r EXCEPT !.filesize = n, !.status = 404]
          BY <3>2, <4>1
        <4> HIDE DEF t
        <4>3. t \in Shared
          <5>1. /\ t.status = 404 /\ t.filesize = n
                /\ t.read_len = r.read_len /\ t.data = r.data
            BY <2>3, <4>2 DEF Shared
          <5>2. t = [status |-> t.status, filesize |-> t.filesize,
                     read_len |-> t.read_len, data |-> t.data]
            BY <2>3, <4>2 DEF Shared
          <5>3. QED
            BY <2>3, <5>1, <5>2 DEF Shared
        <4>4. t.read_len = r.read_len /\ t.data = r.data
          BY <2>3, <4>2 DEF Shared
        <4>5. QED
          BY <2>3, <4>3, <4>4 DEF Fits
      <3>3. QED
        BY <3>1, <3>2
    <2>7. SegmentsTypeOK'
      BY <1>17, <2>2, <2>6 DEF SegmentsTypeOK, Reply
    <2>8. QED
      BY <1>17, <1>a, <1>b, <2>1, <2>7 DEF Reply
  <1>18. ASSUME NEW d \in Daemons, PostFileLen(d) PROVE TypeOK'
    <2>1. DaemonsTypeOK'
      BY <1>18 DEF DaemonsTypeOK, PostFileLen, DGoto, NextCopy, DaemonStates
    <2>2. req[d].seg \in Segments
      BY RequestFields
    <2>3. [sem[req[d].seg] EXCEPT !.filelen = @ + 1] \in Semaphores
      BY <2>2, SemaphoreSteps DEF SegmentsTypeOK
    <2>4. SegmentsTypeOK'
      BY <1>18, <2>2, <2>3 DEF SegmentsTypeOK, PostFileLen
    <2>5. QED
      BY <1>18, <1>a, <1>b, <2>1, <2>4 DEF PostFileLen
  <1>19. ASSUME NEW d \in Daemons, AwaitCache(d) PROVE TypeOK'
    <2>1. DaemonsTypeOK'
      BY <1>19 DEF DaemonsTypeOK, AwaitCache, DGoto, DaemonStates
    <2>2. req[d].seg \in Segments
      BY RequestFields
    <2>3. [sem[req[d].seg] EXCEPT !.cache = @ - 1] \in Semaphores
      BY <1>19, <2>2, SemaphoreSteps DEF SegmentsTypeOK, AwaitCache
    <2>4. SegmentsTypeOK'
      BY <1>19, <2>2, <2>3 DEF SegmentsTypeOK, AwaitCache
    <2>5. QED
      BY <1>19, <1>a, <1>b, <2>1, <2>4 DEF AwaitCache
  <1>20. ASSUME NEW d \in Daemons, Copy(d) PROVE TypeOK'
    <2>1. req[d].path \in Cached
      BY <1>20 DEF DaemonsTypeOK, Copy, DGoto
    <2>2. Chunk(d) \in Seq(Byte) /\ Len(Chunk(d)) \in 0..SegSize
      BY <2>1, ChunkType
    <2>3. DaemonsTypeOK'
      BY <1>20, <2>1, <2>2, SizeAssumption DEF DaemonsTypeOK, Copy, DGoto, DaemonStates
    <2>4. req[d].seg \in Segments
      BY RequestFields
    <2> DEFINE t == [shm[req[d].seg] EXCEPT
                      !.read_len = Len(Chunk(d)),
                      !.data = Overwrite(shm[req[d].seg].data, Chunk(d))]
    <2>5. t \in Shared /\ Fits(t)
      <3>1. shm[req[d].seg] \in Shared
        BY <2>4 DEF SegmentsTypeOK
      <3>2. Len(Chunk(d)) <= SegSize
        BY <2>2, SizeAssumption
      <3>3. QED
        BY <2>2, <3>1, <3>2, CopiedSegment
    <2>6. SegmentsTypeOK'
      <3>1. shm' = [shm EXCEPT ![req[d].seg] = t] /\ sem' = sem
        BY <1>20 DEF Copy
      <3> HIDE DEF t
      <3>2. QED
        BY <2>4, <2>5, <3>1 DEF SegmentsTypeOK
    <2>7. QED
      BY <1>20, <1>a, <1>b, <2>3, <2>6 DEF Copy
  <1>21. ASSUME NEW d \in Daemons, PostProxy(d) PROVE TypeOK'
    <2>1. DaemonsTypeOK'
      BY <1>21 DEF DaemonsTypeOK, PostProxy, DGoto, NextCopy, DaemonStates
    <2>2. req[d].seg \in Segments
      BY RequestFields
    <2>3. [sem[req[d].seg] EXCEPT !.proxy = @ + 1] \in Semaphores
      BY <2>2, SemaphoreSteps DEF SegmentsTypeOK
    <2>4. SegmentsTypeOK'
      BY <1>21, <2>2, <2>3 DEF SegmentsTypeOK, PostProxy
    <2>5. QED
      BY <1>21, <1>a, <1>b, <2>1, <2>4 DEF PostProxy
  <1>22. ASSUME NEW d \in Daemons, ReadNothing(d) PROVE TypeOK'
    <2>1. DaemonsTypeOK'
      BY <1>22 DEF DaemonsTypeOK, ReadNothing, DGoto, DaemonStates
    <2>2. QED
      BY <1>22, <1>a, <1>b, <1>c, <2>1 DEF ReadNothing
  <1>23. ASSUME NEW d \in Daemons, ReadFails(d) PROVE TypeOK'
    <2>1. DaemonsTypeOK'
      BY <1>23 DEF DaemonsTypeOK, ReadFails, DaemonStates
    <2>2. req[d].seg \in Segments
      BY RequestFields
    <2> DEFINE r == shm[req[d].seg]
               n == ToSize(-1)
    <2>3. r \in Shared
      BY <2>2 DEF SegmentsTypeOK
    <2>4. n \in 0..(SizeMod - 1)
      BY SizeAssumption DEF ToSize
    <2>5. shm' = [shm EXCEPT ![req[d].seg] = [r EXCEPT !.read_len = n]] /\ sem' = sem
      BY <1>23 DEF ReadFails
    <2> HIDE DEF r, n
    <2>6. [r EXCEPT !.read_len = n] \in Shared /\ [r EXCEPT !.read_len = n].read_len = n
      BY <2>3, <2>4 DEF Shared
    <2>7. Fits([r EXCEPT !.read_len = n])
      BY <2>6 DEF Fits, n
    <2>8. SegmentsTypeOK'
      BY <2>2, <2>5, <2>6, <2>7 DEF SegmentsTypeOK
    <2>9. QED
      BY <1>23, <1>a, <1>b, <2>1, <2>8 DEF ReadFails
  <1>24. CASE UNCHANGED vars
    BY <1>24, <1>a, <1>b, <1>c, <1>d DEF vars, workerVars, daemonVars
  <1>25. QED
    BY <1>1, <1>2, <1>3, <1>4, <1>5, <1>6, <1>7, <1>8, <1>9, <1>10, <1>11, <1>12, <1>13,
       <1>14, <1>15, <1>16, <1>17, <1>18, <1>19, <1>20, <1>21, <1>22, <1>23,
       <1>24
       DEF Next, WorkerStep, DaemonStep

\* handle_with_cache.c:58-138 and simplecached.c:155-223.  Every field keeps its
\* type and its range; bytes_sent stays a size_t although -1 is added to it, and
\* a segment never announces more bytes than its buffer holds, unless pread has
\* failed, which no thread of the daemon survives.
THEOREM TypeCorrect == Spec => []TypeOK
  BY InitTypeOK, NextTypeOK, PTL DEF Spec

-----------------------------------------------------------------------------
(* Segments                                                                *)

\* Only two actions move a segment.
LEMMA SegmentMoves ==
  ASSUME [Next]_vars
  PROVE  \/ UNCHANGED <<shm_queue, seg>>
         \/ \E w \in Workers : GetSegment(w) \/ QueueMemory(w)
  <1>1. ASSUME NEW w \in Workers, NEW p \in Paths, Ask(w, p)
        PROVE  UNCHANGED <<shm_queue, seg>>
    BY <1>1 DEF Ask
  <1>2. ASSUME NEW w \in Workers, SpuriousWakeup(w) PROVE UNCHANGED <<shm_queue, seg>>
    BY <1>2 DEF SpuriousWakeup
  <1>3. ASSUME NEW w \in Workers, WorkerStep(w), ~GetSegment(w), ~QueueMemory(w)
        PROVE  UNCHANGED <<shm_queue, seg>>
    BY <1>3 DEF WorkerStep, AwaitSegment, Broadcast, InitSems, SendRequest, AwaitFileLen,
                SendHeader, LoopTest, AwaitChunk, SendChunk, PostCache, SendNotFound
  <1>4. ASSUME NEW d \in Daemons, DaemonStep(d) PROVE UNCHANGED <<shm_queue, seg>>
    BY <1>4 DEF DaemonStep, Receive, Reply, PostFileLen, AwaitCache, Copy, PostProxy,
                ReadNothing, ReadFails, workerVars
  <1>5. QED
    BY <1>1, <1>2, <1>3, <1>4 DEF Next, vars

\* initSharedMemory puts every segment into the FIFO once.
LEMMA InitOwnership == Init => SegmentOwnership
  BY SizeAssumption DEF Init, SegmentOwnership, Segments, NoSeg

\* Taking a segment and giving it back keep it in one place.
LEMMA NextOwnership == TypeOK /\ SegmentOwnership /\ [Next]_vars => SegmentOwnership'
  <1> SUFFICES ASSUME TypeOK, SegmentOwnership, [Next]_vars PROVE SegmentOwnership'
    OBVIOUS
  <1>1. ASSUME UNCHANGED <<shm_queue, seg>> PROVE SegmentOwnership'
    BY <1>1 DEF SegmentOwnership
  <1>2. ASSUME NEW w \in Workers, GetSegment(w) PROVE SegmentOwnership'
    <2>1. /\ shm_queue \in Seq(Segments)
          /\ shm_queue # <<>>
          /\ shm_queue' = Tail(shm_queue)
          /\ seg' = [seg EXCEPT ![w] = shm_queue[1]]
          /\ seg \in [Workers -> Segments \cup {NoSeg}]
      BY <1>2 DEF GetSegment, TypeOK, QueuesTypeOK, WorkersTypeOK
    <2>2. /\ Len(shm_queue') = Len(shm_queue) - 1
          /\ Len(shm_queue) \in Nat \ {0}
          /\ \A i \in 1..Len(shm_queue') : shm_queue'[i] = shm_queue[i + 1]
      BY <2>1
    <2>3. seg[w] = NoSeg
      BY <1>2 DEF GetSegment, Goto, TypeOK, WorkersTypeOK, HoldingStates
    <2>4. \A i, j \in 1..Len(shm_queue') : shm_queue'[i] = shm_queue'[j] => i = j
      BY <2>2 DEF SegmentOwnership
    <2>5. \A v, x \in Workers : seg'[v] = seg'[x] /\ seg'[v] # NoSeg => v = x
      BY <2>1, <2>2 DEF SegmentOwnership
    <2>6. \A v \in Workers, i \in 1..Len(shm_queue') : shm_queue'[i] # seg'[v]
      BY <2>1, <2>2 DEF SegmentOwnership
    <2>7. \A s \in Segments : \/ \E i \in 1..Len(shm_queue') : shm_queue'[i] = s
                              \/ \E v \in Workers : seg'[v] = s
      <3> TAKE s \in Segments
      <3>1. ASSUME NEW i \in 1..Len(shm_queue), shm_queue[i] = s, i # 1
            PROVE  shm_queue'[i - 1] = s /\ i - 1 \in 1..Len(shm_queue')
        BY <2>2, <3>1
      <3>2. ASSUME NEW v \in Workers, seg[v] = s PROVE seg'[v] = s
        <4>1. v # w
          BY <2>3, <3>2, SizeAssumption DEF Segments, NoSeg
        <4>2. QED
          BY <2>1, <3>2, <4>1
      <3>3. shm_queue[1] = s => seg'[w] = s
        BY <2>1
      <3>4. QED
        BY <3>1, <3>2, <3>3 DEF SegmentOwnership
    <2>8. Segments' = Segments /\ NoSeg' = NoSeg
      BY DEF Segments, NoSeg
    <2>9. QED
      BY <2>4, <2>5, <2>6, <2>7, <2>8 DEF SegmentOwnership
  <1>3. ASSUME NEW w \in Workers, QueueMemory(w) PROVE SegmentOwnership'
    <2>1. seg[w] \in Segments
      BY <1>3, HeldSegment DEF QueueMemory, HoldingStates, TypeOK
    <2>2. /\ shm_queue \in Seq(Segments)
          /\ shm_queue' = Append(shm_queue, seg[w])
          /\ seg' = [seg EXCEPT ![w] = NoSeg]
          /\ seg \in [Workers -> Segments \cup {NoSeg}]
      BY <1>3 DEF QueueMemory, TypeOK, QueuesTypeOK, WorkersTypeOK
    <2>3. /\ Len(shm_queue') = Len(shm_queue) + 1
          /\ Len(shm_queue) \in Nat
          /\ \A i \in 1..Len(shm_queue) : shm_queue'[i] = shm_queue[i]
          /\ shm_queue'[Len(shm_queue) + 1] = seg[w]
      BY <2>1, <2>2
    <2>4. seg[w] # NoSeg
      BY <2>1, SizeAssumption DEF Segments, NoSeg
    <2>5. \A i, j \in 1..Len(shm_queue') : shm_queue'[i] = shm_queue'[j] => i = j
      BY <2>3 DEF SegmentOwnership
    <2>6. \A v, x \in Workers : seg'[v] = seg'[x] /\ seg'[v] # NoSeg => v = x
      BY <2>2 DEF SegmentOwnership
    <2>7. \A v \in Workers, i \in 1..Len(shm_queue') : shm_queue'[i] # seg'[v]
      <3> TAKE v \in Workers, i \in 1..Len(shm_queue')
      <3>1. shm_queue'[i] \in Segments /\ shm_queue'[i] # NoSeg
        BY <2>1, <2>2, <2>3, SizeAssumption DEF Segments, NoSeg
      <3>2. CASE v = w
        BY <2>2, <3>1, <3>2
      <3>3. CASE v # w
        <4>1. seg'[v] = seg[v]
          BY <2>2, <3>3
        <4>2. CASE i = Len(shm_queue) + 1
          BY <2>3, <2>4, <3>3, <4>1, <4>2 DEF SegmentOwnership
        <4>3. CASE i # Len(shm_queue) + 1
          BY <2>3, <4>1, <4>3 DEF SegmentOwnership
        <4>4. QED
          BY <4>2, <4>3
      <3>4. QED
        BY <3>2, <3>3
    <2>8. \A s \in Segments : \/ \E i \in 1..Len(shm_queue') : shm_queue'[i] = s
                              \/ \E v \in Workers : seg'[v] = s
      <3> TAKE s \in Segments
      <3>1. ASSUME NEW i \in 1..Len(shm_queue), shm_queue[i] = s
            PROVE  shm_queue'[i] = s /\ i \in 1..Len(shm_queue')
        BY <2>3, <3>1
      <3>2. ASSUME NEW v \in Workers, seg[v] = s, v # w PROVE seg'[v] = s
        BY <2>2, <3>2
      <3>3. seg[w] = s => /\ Len(shm_queue) + 1 \in 1..Len(shm_queue')
                          /\ shm_queue'[Len(shm_queue) + 1] = s
        BY <2>3
      <3>4. QED
        BY <3>1, <3>2, <3>3 DEF SegmentOwnership
    <2>9. Segments' = Segments /\ NoSeg' = NoSeg
      BY DEF Segments, NoSeg
    <2>10. QED
      BY <2>5, <2>6, <2>7, <2>8, <2>9 DEF SegmentOwnership
  <1>4. QED
    BY <1>1, <1>2, <1>3, SegmentMoves

\* handle_with_cache.c:26-37, 129-137.  Whatever gfs_send returns, no segment
\* is lost, in the FIFO twice, or in the hands of two workers.
THEOREM SegmentsOwned == Spec => []SegmentOwnership
  <1>1. Init => SegmentOwnership
    BY InitOwnership
  <1>2. TypeOK /\ SegmentOwnership /\ [Next]_vars => SegmentOwnership'
    BY NextOwnership
  <1>3. QED
    BY <1>1, <1>2, TypeCorrect, PTL DEF Spec

-----------------------------------------------------------------------------
(* Wakeups                                                                 *)

\* Worker w, which owes no broadcast, goes to a new place: to sleep only if
\* the queue is empty, and to a broadcast if it makes the queue non-empty.
OtherMove(w, to) ==
  /\ pc' = [pc EXCEPT ![w] = to]
  /\ ~Broadcasting(w)
  /\ to = "cond_wait" => shm_queue' = <<>>
  /\ shm_queue = <<>> /\ shm_queue' # <<>> => to \in {"queued", "queued404"}

\* The ways in which workers move.
LEMMA WorkerMoves ==
  ASSUME TypeOK, [Next]_vars
  PROVE  \/ UNCHANGED <<pc, shm_queue>>
         \/ \E w \in Workers : Broadcast(w)
         \/ \E w \in Workers, to \in ProxyStates : OtherMove(w, to)
  <1> USE DEF Goto, ProxyStates, OtherMove, Broadcasting
  <1>1. ASSUME NEW w \in Workers, NEW p \in Paths, Ask(w, p)
        PROVE  OtherMove(w, "get")
    BY <1>1 DEF Ask
  <1>2. ASSUME NEW w \in Workers, SpuriousWakeup(w) PROVE OtherMove(w, "get")
    BY <1>2 DEF SpuriousWakeup
  <1>3. ASSUME NEW w \in Workers, AwaitSegment(w) PROVE OtherMove(w, "cond_wait")
    BY <1>3 DEF AwaitSegment
  <1>4. ASSUME NEW w \in Workers, GetSegment(w) PROVE OtherMove(w, "popped")
    BY <1>4 DEF GetSegment
  <1>5. ASSUME NEW w \in Workers, InitSems(w) PROVE OtherMove(w, "request")
    BY <1>5 DEF InitSems
  <1>6. ASSUME NEW w \in Workers, SendRequest(w) PROVE OtherMove(w, "filelen")
    BY <1>6 DEF SendRequest
  <1>7. ASSUME NEW w \in Workers, AwaitFileLen(w)
        PROVE  OtherMove(w, "header") \/ OtherMove(w, "finish404")
    BY <1>7 DEF AwaitFileLen
  <1>8. ASSUME NEW w \in Workers, SendHeader(w) PROVE OtherMove(w, "loop")
    BY <1>8 DEF SendHeader
  <1>9. ASSUME NEW w \in Workers, LoopTest(w)
        PROVE  OtherMove(w, "proxysem") \/ OtherMove(w, "finish")
    BY <1>9 DEF LoopTest
  <1>10. ASSUME NEW w \in Workers, AwaitChunk(w) PROVE OtherMove(w, "send")
    BY <1>10 DEF AwaitChunk
  <1>11. ASSUME NEW w \in Workers, SendChunk(w)
         PROVE  OtherMove(w, "post") \/ OtherMove(w, "finish")
    BY <1>11 DEF SendChunk
  <1>12. ASSUME NEW w \in Workers, PostCache(w) PROVE OtherMove(w, "loop")
    BY <1>12 DEF PostCache
  <1>13. ASSUME NEW w \in Workers, QueueMemory(w)
         PROVE  OtherMove(w, "queued") \/ OtherMove(w, "queued404")
    BY <1>13 DEF QueueMemory, AfterQueue
  <1>14. ASSUME NEW w \in Workers, SendNotFound(w) PROVE OtherMove(w, "idle")
    BY <1>14 DEF SendNotFound
  <1>15. ASSUME NEW d \in Daemons, DaemonStep(d) PROVE UNCHANGED <<pc, shm_queue>>
    BY <1>15 DEF DaemonStep, Receive, Reply, PostFileLen, AwaitCache, Copy, PostProxy,
                 ReadNothing, ReadFails,
                 workerVars
  <1> HIDE DEF OtherMove
  <1>16. QED
    BY <1>1, <1>2, <1>3, <1>4, <1>5, <1>6, <1>7, <1>8, <1>9, <1>10, <1>11, <1>12, <1>13,
       <1>14, <1>15 DEF Next, WorkerStep, vars

\* Whoever puts a segment back still owes a broadcast.
LEMMA NextNoLostWakeup == TypeOK /\ NoLostWakeup /\ [Next]_vars => NoLostWakeup'
  <1> SUFFICES ASSUME TypeOK, NoLostWakeup, [Next]_vars,
                      shm_queue' # <<>>, NEW u \in Workers, pc'[u] = "cond_wait"
               PROVE  \E v \in Workers : Broadcasting(v)'
    BY DEF NoLostWakeup
  <1>1. pc \in [Workers -> ProxyStates]
    BY DEF TypeOK, WorkersTypeOK
  <1>2. CASE UNCHANGED <<pc, shm_queue>>
    BY <1>2 DEF NoLostWakeup, Broadcasting
  <1>3. ASSUME NEW w \in Workers, Broadcast(w) PROVE FALSE
    BY <1>3 DEF Broadcast, Broadcasting, AfterBroadcast
  <1>4. ASSUME NEW w \in Workers, NEW to \in ProxyStates, OtherMove(w, to)
        PROVE  \E v \in Workers : Broadcasting(v)'
    <2>1. u # w /\ pc[u] = "cond_wait"
      BY <1>1, <1>4 DEF OtherMove
    <2>2. CASE shm_queue = <<>>
      <3>1. pc'[w] \in {"queued", "queued404"}
        BY <1>1, <1>4, <2>2 DEF OtherMove
      <3>2. QED
        BY <3>1 DEF Broadcasting
    <2>3. CASE shm_queue # <<>>
      <3>1. PICK v \in Workers : Broadcasting(v)
        BY <2>1, <2>3 DEF NoLostWakeup
      <3>2. v # w
        BY <1>4, <3>1 DEF OtherMove
      <3>3. pc'[v] = pc[v]
        BY <1>1, <1>4, <3>2 DEF OtherMove
      <3>4. QED
        BY <3>1, <3>3 DEF Broadcasting
    <2>4. QED
      BY <2>2, <2>3
  <1>5. QED
    BY <1>2, <1>3, <1>4, WorkerMoves

\* handle_with_cache.c:26-32, 134-137.  No worker sleeps for ever beside a
\* free segment, although the broadcasts come after the mutex is released.
THEOREM WakeupsReach == Spec => []NoLostWakeup
  <1>1. Init => NoLostWakeup
    BY DEF Init, NoLostWakeup
  <1>2. TypeOK /\ NoLostWakeup /\ [Next]_vars => NoLostWakeup'
    BY NextNoLostWakeup
  <1>3. QED
    BY <1>1, <1>2, TypeCorrect, PTL DEF Spec

-----------------------------------------------------------------------------
(* Leases.  A worker that gives its segment back while the daemon still    *)
(* works on it breaks them, and it does so only when gfs_send returned 0   *)
(* or -1; a call that sends less than it was given does no harm here.      *)

\* gfs_send may be short, but it does not fail.
NoFailure == \A e \in SendErrors : e > 0

\* How much of its file worker w has sent.
Sent(w) == IF pc[w] \in {"filelen", "header"} THEN 0 ELSE transferred[w]

\* The segment of w holds the status and the length that d has answered.
Answered(w, d) ==
  /\ shm[seg[w]].status = IF req[d].path \in Cached THEN 200 ELSE 404
  /\ req[d].path \in Cached => shm[seg[w]].filesize = Filsize(d)

\* The turn to use the data of the segment is with one side, or on its way
\* in one of two semaphores.
Turn(w, d) ==
  \/ /\ dpc[d] = "cachesem" /\ pc[w] \notin {"send", "post"}
     /\ sem[seg[w]].cache + sem[seg[w]].proxy = 1
  \/ /\ dpc[d] = "cachesem" /\ pc[w] \in {"send", "post"}
     /\ sem[seg[w]].cache = 0 /\ sem[seg[w]].proxy = 0
  \/ /\ dpc[d] \in {"copy", "postproxy"} /\ pc[w] \notin {"send", "post"}
     /\ sem[seg[w]].cache = 0 /\ sem[seg[w]].proxy = 0

\* The segment holds a chunk that has not been sent.
Filled(w, d) == dpc[d] = "postproxy" \/ pc[w] = "send" \/ sem[seg[w]].proxy = 1

\* The worker has sent no more than the daemon has read, and the daemon,
\* unless it is about to end, has more to read.
Progress(w, d) ==
  /\ bytes_read[d] <= Filsize(d)
  /\ dpc[d] # "postproxy" => bytes_read[d] < Filsize(d)
  /\ Sent(w) <= bytes_read[d]
  /\ Filled(w, d) => /\ shm[seg[w]].read_len > 0
                     /\ Sent(w) + shm[seg[w]].read_len <= bytes_read[d]

\* How far w and d, which share a segment, have come.
Talk(w, d) ==
  \/ dpc[d] = "reply" /\ pc[w] = "filelen" /\ sem[seg[w]] = FreshSems
  \/ dpc[d] = "postlen" /\ pc[w] = "filelen" /\ sem[seg[w]] = FreshSems /\ Answered(w, d)
  \/ /\ dpc[d] \in {"cachesem", "copy", "postproxy"} /\ Lent(w)
     /\ req[d].path \in Cached /\ Answered(w, d) /\ Turn(w, d) /\ Progress(w, d)

\* d serves the request of w, and w waits for the i-th message to be taken.
Partner(w, d) == req[d] = [path |-> path[w], seg |-> seg[w]] /\ Talk(w, d)
Waits(w, i) == /\ pc[w] = "filelen" /\ sem[seg[w]] = FreshSems
               /\ mq[i] = [path |-> path[w], seg |-> seg[w]]

\* The inductive invariant, in parts.
Prepared == \A w \in Workers : pc[w] = "request" => sem[seg[w]] = FreshSems
MessagesWait == \A i \in 1..Len(mq) : \E w \in Workers : Waits(w, i)
ServersTalk == \A d \in Daemons : Serving(d) => \E w \in Workers : Partner(w, d)
MessagesDiffer == \A i, j \in 1..Len(mq) : mq[i].seg = mq[j].seg => i = j
ServersDiffer ==
  \A d, e \in Daemons : Serving(d) /\ Serving(e) /\ req[d].seg = req[e].seg => d = e
NewRequests == \A d \in Daemons, i \in 1..Len(mq) : Serving(d) => req[d].seg # mq[i].seg
Leases == /\ Prepared /\ MessagesWait /\ ServersTalk
          /\ MessagesDiffer /\ ServersDiffer /\ NewRequests

\* The types of what two partners share.
LEMMA PairTypes ==
  ASSUME TypeOK, NEW w \in Workers, NEW d \in Daemons, Lent(w)
  PROVE  /\ seg[w] \in Segments /\ transferred[w] \in Nat /\ bytes_read[d] \in Nat
         /\ sem[seg[w]] \in Semaphores
         /\ sem[seg[w]].filelen \in Nat /\ sem[seg[w]].proxy \in Nat
         /\ sem[seg[w]].cache \in Nat
         /\ shm[seg[w]] \in Shared
         /\ shm[seg[w]].read_len \in Nat /\ shm[seg[w]].filesize \in Nat
         /\ req[d].path \in Cached => Filsize(d) \in Nat /\ Filsize(d) < SizeMod - 1
  <1> USE SizeAssumption
  <1>1. seg[w] \in Segments
    BY HeldSegment DEF TypeOK, Lent, HoldingStates
  <1>2. transferred[w] \in Nat /\ bytes_read[d] \in Nat
    BY DEF TypeOK, WorkersTypeOK, DaemonsTypeOK
  <1>3. sem[seg[w]] \in Semaphores /\ shm[seg[w]] \in Shared
    BY <1>1 DEF TypeOK, SegmentsTypeOK
  <1>4. /\ sem[seg[w]].filelen \in Nat /\ sem[seg[w]].proxy \in Nat
        /\ sem[seg[w]].cache \in Nat
    BY <1>3 DEF Semaphores
  <1>5. shm[seg[w]].read_len \in Nat /\ shm[seg[w]].filesize \in Nat
    BY <1>3 DEF Shared
  <1>6. req[d].path \in Cached => Filsize(d) \in Nat /\ Filsize(d) < SizeMod - 1
    BY FileAssumption DEF Filsize
  <1>7. QED
    BY <1>1, <1>2, <1>3, <1>4, <1>5, <1>6

\* Partners are both at work; a worker whose segment is with the daemon
\* has lent it.
LEMMA PartnersLend ==
  ASSUME NEW w \in Workers, NEW d \in Daemons, Partner(w, d)
  PROVE  Lent(w) /\ Serving(d) /\ req[d].path = path[w] /\ req[d].seg = seg[w]
  BY DEF Partner, Talk, Lent, Serving

LEMMA LeasesExclude == Leases => LeaseIsExclusive
  BY PartnersLend
  DEF Leases, LeaseIsExclusive, MessagesWait, ServersTalk, MessagesDiffer, ServersDiffer,
      NewRequests, Waits, Partner, Lent

LEMMA LeasesAlternate == TypeOK /\ SegmentOwnership /\ Leases => NoSegmentRace
  <1> SUFFICES ASSUME TypeOK, SegmentOwnership, Leases, NEW w \in Workers, NEW d \in Daemons,
                      seg[w] = req[d].seg, Serving(d)
               PROVE  /\ ~(pc[w] = "send" /\ dpc[d] = "copy")
                      /\ ~(/\ pc[w] \in {"header", "loop", "finish", "finish404"}
                           /\ dpc[d] = "reply")
                      /\ ~(pc[w] = "finish" /\ dpc[d] = "copy")
    BY DEF NoSegmentRace, Serving
  <1>1. PICK v \in Workers : Partner(v, d)
    BY DEF Leases, ServersTalk
  <1>2. seg[v] \in Segments /\ seg[w] = seg[v]
    BY <1>1, PartnersLend, PairTypes
  <1>3. v = w
    BY <1>2, SizeAssumption DEF SegmentOwnership, Segments, NoSeg
  <1>4. QED
    BY <1>1, <1>3 DEF Partner, Talk, Turn, Lent

\* Pair w, d has not been touched.
PairSame(w, d) ==
  /\ pc'[w] = pc[w] /\ path'[w] = path[w] /\ seg'[w] = seg[w]
  /\ transferred'[w] = transferred[w]
  /\ sem'[seg[w]] = sem[seg[w]] /\ shm'[seg[w]] = shm[seg[w]]
  /\ dpc'[d] = dpc[d] /\ req'[d] = req[d] /\ bytes_read'[d] = bytes_read[d]

LEMMA PartnerStays ==
  ASSUME NEW w \in Workers, NEW d \in Daemons, PairSame(w, d), Partner(w, d)
  PROVE  Partner(w, d)'
  <1> USE DEF PairSame
  <1>1. /\ Lent(w) <=> Lent(w)'
        /\ Answered(w, d) <=> Answered(w, d)'
        /\ Turn(w, d) <=> Turn(w, d)'
    BY DEF Lent, Answered, Turn, Filsize
  <1>2. Progress(w, d) <=> Progress(w, d)'
    BY DEF Progress, Sent, Filled, Filsize
  <1>3. QED
    BY <1>1, <1>2 DEF Partner, Talk, FreshSems

\* What a step of worker v leaves alone: the daemon, the other workers (who
\* may be woken up), and the segments it does not hold.
StepOf(v) == (\E p \in Paths : Ask(v, p)) \/ SpuriousWakeup(v) \/ WorkerStep(v)
AroundWorker(v) ==
  /\ UNCHANGED daemonVars
  /\ \A w \in Workers \ {v} :
       /\ path'[w] = path[w] /\ seg'[w] = seg[w] /\ transferred'[w] = transferred[w]
       /\ hdr'[w] = hdr[w] /\ body'[w] = body[w]
       /\ pc'[w] = pc[w] \/ (pc[w] = "cond_wait" /\ pc'[w] = "get")
  /\ \A s \in Segments \ {seg[v]} : sem'[s] = sem[s] /\ shm'[s] = shm[s]

LEMMA WorkerFrame ==
  ASSUME TypeOK, NEW v \in Workers, StepOf(v)
  PROVE  AroundWorker(v)
  <1>1. /\ pc \in [Workers -> ProxyStates] /\ path \in [Workers -> Paths]
        /\ seg \in [Workers -> Segments \cup {NoSeg}]
        /\ transferred \in [Workers -> 0..(SizeMod - 1)]
        /\ hdr \in [Workers -> Header] /\ body \in [Workers -> Seq(Byte)]
        /\ sem \in [Segments -> Semaphores] /\ shm \in [Segments -> Shared]
    BY DEF TypeOK, WorkersTypeOK, SegmentsTypeOK
  <1>2. ASSUME NEW p \in Paths, Ask(v, p) PROVE AroundWorker(v)
    BY <1>1, <1>2 DEF Ask, Goto, AroundWorker
  <1>3. CASE SpuriousWakeup(v)
    BY <1>1, <1>3 DEF SpuriousWakeup, Goto, AroundWorker
  <1>4. CASE AwaitSegment(v)
    BY <1>1, <1>4 DEF AwaitSegment, Goto, AroundWorker
  <1>5. CASE GetSegment(v)
    BY <1>1, <1>5 DEF GetSegment, Goto, AroundWorker
  <1>6. CASE Broadcast(v)
    BY <1>1, <1>6 DEF Broadcast, AroundWorker
  <1>7. CASE InitSems(v)
    BY <1>1, <1>7 DEF InitSems, Goto, AroundWorker
  <1>8. CASE SendRequest(v)
    BY <1>1, <1>8 DEF SendRequest, Goto, AroundWorker
  <1>9. CASE AwaitFileLen(v)
    BY <1>1, <1>9 DEF AwaitFileLen, AroundWorker
  <1>10. CASE SendHeader(v)
    BY <1>1, <1>10 DEF SendHeader, Goto, AroundWorker
  <1>11. CASE LoopTest(v)
    BY <1>1, <1>11 DEF LoopTest, AroundWorker
  <1>12. CASE AwaitChunk(v)
    BY <1>1, <1>12 DEF AwaitChunk, Goto, AroundWorker
  <1>13. CASE SendChunk(v)
    BY <1>1, <1>13 DEF SendChunk, Goto, AroundWorker
  <1>14. CASE PostCache(v)
    BY <1>1, <1>14 DEF PostCache, Goto, AroundWorker
  <1>15. CASE QueueMemory(v)
    BY <1>1, <1>15 DEF QueueMemory, AroundWorker
  <1>16. CASE SendNotFound(v)
    BY <1>1, <1>16 DEF SendNotFound, Goto, AroundWorker
  <1>17. QED
    BY <1>2, <1>3, <1>4, <1>5, <1>6, <1>7, <1>8, <1>9, <1>10, <1>11, <1>12, <1>13, <1>14,
       <1>15, <1>16 DEF StepOf, WorkerStep

\* What a step of daemon worker d leaves alone.
AroundDaemon(d) ==
  /\ UNCHANGED workerVars
  /\ \A e \in Daemons \ {d} :
       dpc'[e] = dpc[e] /\ req'[e] = req[e] /\ bytes_read'[e] = bytes_read[e]
  /\ \A s \in Segments \ {req[d].seg} : sem'[s] = sem[s] /\ shm'[s] = shm[s]

LEMMA DaemonFrame ==
  ASSUME TypeOK, NEW d \in Daemons, DaemonStep(d), ~ReadFails(d)
  PROVE  AroundDaemon(d)
  <1>1. /\ dpc \in [Daemons -> DaemonStates] /\ req \in [Daemons -> Request]
        /\ bytes_read \in [Daemons -> Nat]
        /\ sem \in [Segments -> Semaphores] /\ shm \in [Segments -> Shared]
    BY DEF TypeOK, DaemonsTypeOK, SegmentsTypeOK
  <1>2. CASE Receive(d)
    BY <1>1, <1>2 DEF Receive, DGoto, AroundDaemon
  <1>3. CASE Reply(d)
    BY <1>1, <1>3 DEF Reply, DGoto, AroundDaemon
  <1>4. CASE PostFileLen(d)
    BY <1>1, <1>4 DEF PostFileLen, DGoto, AroundDaemon
  <1>5. CASE AwaitCache(d)
    BY <1>1, <1>5 DEF AwaitCache, DGoto, AroundDaemon
  <1>6. CASE Copy(d)
    BY <1>1, <1>6 DEF Copy, DGoto, AroundDaemon
  <1>7. CASE PostProxy(d)
    BY <1>1, <1>7 DEF PostProxy, DGoto, AroundDaemon
  <1>8. CASE ReadNothing(d)
    BY <1>1, <1>8 DEF ReadNothing, DGoto, AroundDaemon
  <1>9. QED
    BY <1>2, <1>3, <1>4, <1>5, <1>6, <1>7, <1>8 DEF DaemonStep

\* A worker that has lent its segment takes one of six steps.
LEMMA LentSteps ==
  ASSUME NEW v \in Workers, StepOf(v), Lent(v)
  PROVE  \/ AwaitFileLen(v) \/ SendHeader(v) \/ LoopTest(v)
         \/ AwaitChunk(v) \/ SendChunk(v) \/ PostCache(v)
  BY DEF Lent, StepOf, WorkerStep, Ask, SpuriousWakeup, AwaitSegment, GetSegment, Broadcast,
         Broadcasting, InitSems, SendRequest, QueueMemory, SendNotFound, Goto

\* A worker does not get past filelen_sem before it is posted.
LEMMA NoAnswerYet ==
  ASSUME TypeOK, NEW v \in Workers, StepOf(v), pc[v] = "filelen", sem[seg[v]] = FreshSems
  PROVE  FALSE
  <1>1. AwaitFileLen(v)
    BY LentSteps DEF Lent, SendHeader, LoopTest, AwaitChunk, SendChunk, PostCache, Goto
  <1>2. QED
    BY <1>1 DEF AwaitFileLen, FreshSems

\* The worker's own steps keep the talk with its partner going.
LEMMA WorkerTalks ==
  ASSUME NoFailure, TypeOK, NEW v \in Workers, NEW d \in Daemons, StepOf(v), Partner(v, d)
  PROVE  Partner(v, d)'
  <1> DEFINE s == seg[v]
             n == shm[s].read_len
  <1>1. /\ Lent(v) /\ req[d].path \in Cached /\ Answered(v, d) /\ Turn(v, d) /\ Progress(v, d)
        /\ dpc[d] \in {"cachesem", "copy", "postproxy"}
        /\ req[d] = [path |-> path[v], seg |-> s]
    BY NoAnswerYet DEF Partner, Talk
  <1>2. /\ s \in Segments /\ transferred[v] \in Nat /\ bytes_read[d] \in Nat
        /\ sem[s] \in Semaphores /\ shm[s] \in Shared /\ n \in Nat
        /\ sem[s].filelen \in Nat /\ sem[s].proxy \in Nat /\ sem[s].cache \in Nat
        /\ Filsize(d) \in Nat /\ Filsize(d) < SizeMod - 1
    BY <1>1, PairTypes
  <1>3. /\ dpc'[d] = dpc[d] /\ req'[d] = req[d] /\ bytes_read'[d] = bytes_read[d]
        /\ Filsize(d)' = Filsize(d)
    BY WorkerFrame DEF AroundWorker, daemonVars, Filsize
  <1>4. /\ pc \in [Workers -> ProxyStates] /\ seg \in [Workers -> Segments \cup {NoSeg}]
        /\ transferred \in [Workers -> 0..(SizeMod - 1)]
        /\ sem \in [Segments -> Semaphores] /\ shm \in [Segments -> Shared]
    BY DEF TypeOK, WorkersTypeOK, SegmentsTypeOK
  <1>5. path'[v] = path[v] /\ seg'[v] = s /\ shm' = shm
    BY <1>1, LentSteps
       DEF AwaitFileLen, SendHeader, LoopTest, AwaitChunk, SendChunk, PostCache, Goto
  <1>6. Answered(v, d)'
    BY <1>1, <1>3, <1>5 DEF Answered
  <1>7. ASSUME Lent(v)', Turn(v, d)', Progress(v, d)' PROVE Partner(v, d)'
    BY <1>1, <1>3, <1>5, <1>6, <1>7 DEF Partner, Talk
  <1> HIDE DEF s
  <1>8. CASE AwaitFileLen(v)
    <2>1. pc[v] = "filelen" /\ pc'[v] = "header" /\ transferred' = transferred
          /\ sem'[s] = [sem[s] EXCEPT !.filelen = @ - 1]
      BY <1>1, <1>2, <1>4, <1>8 DEF AwaitFileLen, Answered, s
    <2>2. sem'[s].proxy = sem[s].proxy /\ sem'[s].cache = sem[s].cache
      BY <1>2, <2>1 DEF Semaphores
    <2>3. Lent(v)' /\ Turn(v, d)'
      BY <1>1, <1>3, <1>5, <2>1, <2>2 DEF Lent, Turn, s
    <2>4. Progress(v, d)'
      BY <1>1, <1>3, <1>5, <2>1, <2>2 DEF Progress, Sent, Filled, s
    <2>5. QED
      BY <1>7, <2>3, <2>4
  <1>9. CASE SendHeader(v)
    <2>1. /\ pc[v] = "header" /\ pc'[v] = "loop" /\ sem' = sem /\ transferred'[v] = 0
      BY <1>4, <1>9 DEF SendHeader, Goto
    <2>2. Lent(v)' /\ Turn(v, d)'
      BY <1>1, <1>3, <1>5, <2>1 DEF Lent, Turn, s
    <2>3. Progress(v, d)'
      BY <1>1, <1>3, <1>5, <2>1 DEF Progress, Sent, Filled, s
    <2>4. QED
      BY <1>7, <2>2, <2>3
  <1>10. CASE LoopTest(v)
    <2>1. pc[v] = "loop" /\ sem' = sem /\ transferred' = transferred
      BY <1>10 DEF LoopTest
    <2>2. shm[s].filesize = Filsize(d)
      BY <1>1 DEF Answered, s
    <2>3. transferred[v] < Filsize(d)
      BY <1>1, <1>2, <2>1 DEF Progress, Sent, Filled, s
    <2>4. pc'[v] = "proxysem"
      BY <1>4, <1>10, <2>2, <2>3 DEF LoopTest, MoreToSend, s
    <2>5. Lent(v)' /\ Turn(v, d)'
      BY <1>1, <1>3, <1>5, <2>1, <2>4 DEF Lent, Turn, s
    <2>6. Progress(v, d)'
      BY <1>1, <1>3, <1>5, <2>1, <2>4 DEF Progress, Sent, Filled, s
    <2>7. QED
      BY <1>7, <2>5, <2>6
  <1>11. CASE AwaitChunk(v)
    <2>1. /\ pc[v] = "proxysem" /\ pc'[v] = "send" /\ transferred' = transferred
          /\ sem[s].proxy > 0 /\ sem'[s] = [sem[s] EXCEPT !.proxy = @ - 1]
      BY <1>2, <1>4, <1>11 DEF AwaitChunk, Goto, s
    <2>2. sem'[s].proxy = sem[s].proxy - 1 /\ sem'[s].cache = sem[s].cache
      BY <1>2, <2>1 DEF Semaphores
    <2>3. dpc[d] = "cachesem" /\ sem[s].proxy = 1 /\ sem[s].cache = 0
      BY <1>1, <1>2, <2>1 DEF Turn, s
    <2>4. Lent(v)' /\ Turn(v, d)'
      BY <1>3, <1>5, <2>1, <2>2, <2>3 DEF Lent, Turn, s
    <2>5. Progress(v, d)'
      BY <1>1, <1>3, <1>5, <2>1, <2>3 DEF Progress, Sent, Filled, s
    <2>6. QED
      BY <1>7, <2>4, <2>5
  <1>12. CASE SendChunk(v)
    <2>1. pc[v] = "send" /\ sem' = sem
      BY <1>12 DEF SendChunk
    <2>2. PICK r \in SendResults(n, Len(shm[s].data)) :
            /\ Goto(v, "send", IF r = 0 THEN "finish" ELSE "post")
            /\ transferred' = [transferred EXCEPT ![v] = AddSize(@, ToSize(r))]
      BY <1>12 DEF SendChunk, s
    <2>3. n > 0 /\ transferred[v] + n <= bytes_read[d] /\ bytes_read[d] < SizeMod - 1
      BY <1>1, <1>2, <2>1, SizeAssumption DEF Progress, Sent, Filled, s
    <2>4. r \in Nat \ {0} /\ r <= n
      <3>1. r = n \/ (r \in SendErrors /\ r < n)
        BY <2>2 DEF SendResults
      <3>2. n \in Nat \ {0}
        BY <1>2, <2>3
      <3>3. r \in SendErrors => r \in Int /\ r > 0
        BY SendAssumption DEF NoFailure
      <3> HIDE DEF n
      <3>4. QED
        BY <3>1, <3>2, <3>3
    <2>5. AddSize(transferred[v], ToSize(r)) = transferred[v] + r
      <3> HIDE DEF n
      <3>1. ToSize(r) = r
        BY <2>4 DEF ToSize
      <3>2. transferred[v] + r < SizeMod
        BY <1>2, <2>3, <2>4, SizeAssumption
      <3>3. QED
        BY <3>1, <3>2 DEF AddSize
    <2>6. pc'[v] = "post" /\ transferred'[v] = transferred[v] + r
      BY <1>4, <2>2, <2>4, <2>5 DEF Goto
    <2>7. dpc[d] = "cachesem" /\ sem[s].proxy = 0 /\ sem[s].cache = 0
      BY <1>1, <2>1 DEF Turn, s
    <2>8. Lent(v)' /\ Turn(v, d)'
      BY <1>3, <1>5, <2>1, <2>6, <2>7 DEF Lent, Turn, s
    <2>9. transferred[v] + r <= bytes_read[d]
      <3> HIDE DEF n
      <3>1. QED
        BY <1>2, <2>3, <2>4
    <2>10. Progress(v, d)'
      BY <1>1, <1>3, <1>5, <2>1, <2>6, <2>7, <2>9 DEF Progress, Sent, Filled, s
    <2>11. QED
      BY <1>7, <2>8, <2>10
  <1>13. CASE PostCache(v)
    <2>1. /\ pc[v] = "post" /\ pc'[v] = "loop" /\ transferred' = transferred
          /\ sem'[s] = [sem[s] EXCEPT !.cache = @ + 1]
      BY <1>2, <1>4, <1>13 DEF PostCache, Goto, s
    <2>2. sem'[s].proxy = sem[s].proxy /\ sem'[s].cache = sem[s].cache + 1
      BY <1>2, <2>1 DEF Semaphores
    <2>3. dpc[d] = "cachesem" /\ sem[s].proxy = 0 /\ sem[s].cache = 0
      BY <1>1, <2>1 DEF Turn, s
    <2>4. Lent(v)' /\ Turn(v, d)'
      BY <1>3, <1>5, <2>1, <2>2, <2>3 DEF Lent, Turn, s
    <2>5. Progress(v, d)'
      BY <1>1, <1>3, <1>5, <2>1, <2>2, <2>3 DEF Progress, Sent, Filled, s
    <2>6. QED
      BY <1>7, <2>4, <2>5
  <1>14. QED
    BY <1>1, <1>8, <1>9, <1>10, <1>11, <1>12, <1>13, LentSteps

\* The bytes that pread returns are there, and at least one.
LEMMA ChunkLength ==
  ASSUME TypeOK, NEW d \in Daemons, req[d].path \in Cached, bytes_read[d] < Filsize(d)
  PROVE  /\ Len(Chunk(d)) \in Nat \ {0}
         /\ Len(Chunk(d)) <= SegSize
         /\ bytes_read[d] + Len(Chunk(d)) <= Filsize(d)
         /\ Chunk(d) = SubSeq(File[req[d].path], bytes_read[d] + 1, bytes_read[d] + Len(Chunk(d)))
  <1> DEFINE file == File[req[d].path]
             last == Lesser(bytes_read[d] + SegSize, Len(file))
  <1>1. file \in Seq(Byte) /\ Len(file) \in Nat /\ Len(file) = Filsize(d)
    BY FileAssumption DEF Filsize
  <1>2. bytes_read[d] \in Nat /\ SegSize \in Nat \ {0}
    BY SizeAssumption DEF TypeOK, DaemonsTypeOK
  <1>3. /\ last \in Nat /\ last <= Len(file) /\ last <= bytes_read[d] + SegSize
        /\ bytes_read[d] < last
    BY <1>1, <1>2 DEF Lesser
  <1>4. Chunk(d) = SubSeq(file, bytes_read[d] + 1, last)
    BY DEF Chunk, Filsize
  <1>5. Len(SubSeq(file, bytes_read[d] + 1, last)) = last - bytes_read[d]
    <2> HIDE DEF file, last
    <2>1. QED
      BY <1>1, <1>2, <1>3
  <1>6. Len(Chunk(d)) = last - bytes_read[d]
    BY <1>4, <1>5
  <1>7. last = bytes_read[d] + Len(Chunk(d))
    <2> HIDE DEF last
    <2>1. QED
      BY <1>2, <1>3, <1>6
  <1>8. /\ Len(Chunk(d)) \in Nat \ {0}
        /\ Len(Chunk(d)) <= SegSize
        /\ bytes_read[d] + Len(Chunk(d)) <= Filsize(d)
    <2> HIDE DEF last
    <2>1. QED
      BY <1>1, <1>2, <1>3, <1>6
  <1>9. Chunk(d) = SubSeq(File[req[d].path], bytes_read[d] + 1, bytes_read[d] + Len(Chunk(d)))
    BY <1>4, <1>7
  <1>10. QED
    BY <1>8, <1>9

\* The daemon's own steps keep the talk with its partner going, or end it.
LEMMA DaemonTalks ==
  ASSUME TypeOK, NEW w \in Workers, NEW d \in Daemons, DaemonStep(d), Partner(w, d),
         ~ReadFails(d)
  PROVE  /\ mq' = mq /\ req' = req
         /\ Serving(d)' => Partner(w, d)'
  <1> DEFINE s == seg[w]
  <1>1. /\ Lent(w) /\ Serving(d) /\ req[d] = [path |-> path[w], seg |-> s]
        /\ req[d].path = path[w] /\ req[d].seg = s
    BY PartnersLend DEF Partner
  <1>2. /\ s \in Segments /\ transferred[w] \in Nat /\ bytes_read[d] \in Nat
        /\ sem[s] \in Semaphores /\ shm[s] \in Shared /\ shm[s].read_len \in Nat
        /\ sem[s].filelen \in Nat /\ sem[s].proxy \in Nat /\ sem[s].cache \in Nat
        /\ req[d].path \in Cached => Filsize(d) \in Nat /\ Filsize(d) < SizeMod - 1
    BY <1>1, PairTypes
  <1>3. /\ pc'[w] = pc[w] /\ path'[w] = path[w] /\ seg'[w] = seg[w]
        /\ transferred'[w] = transferred[w]
    BY DaemonFrame DEF AroundDaemon, workerVars
  <1>4. /\ dpc \in [Daemons -> DaemonStates] /\ req \in [Daemons -> Request]
        /\ bytes_read \in [Daemons -> Nat]
        /\ sem \in [Segments -> Semaphores] /\ shm \in [Segments -> Shared]
    BY DEF TypeOK, DaemonsTypeOK, SegmentsTypeOK
  <1>5. mq' = mq /\ req' = req /\ Filsize(d)' = Filsize(d) /\ ~Receive(d)
    BY <1>1 DEF DaemonStep, Receive, Reply, PostFileLen, AwaitCache, Copy, PostProxy, DGoto,
                ReadNothing, Serving, Filsize
  <1>6. Lent(w)'
    BY <1>1, <1>3 DEF Lent
  <1>7. ASSUME Talk(w, d)' PROVE Partner(w, d)'
    BY <1>1, <1>3, <1>5, <1>7 DEF Partner
  <1> HIDE DEF s
  <1>8. CASE Reply(d)
    <2>1. dpc[d] = "reply" /\ dpc'[d] = "postlen" /\ sem' = sem
      BY <1>4, <1>8 DEF Reply, DGoto
    <2>2. /\ shm'[s].status = IF req[d].path \in Cached THEN 200 ELSE 404
          /\ req[d].path \in Cached => shm'[s].filesize = Filsize(d)
      BY <1>1, <1>2, <1>4, <1>8 DEF Reply, Shared
    <2>3. pc[w] = "filelen" /\ sem[s] = FreshSems
      BY <2>1 DEF Partner, Talk, s
    <2>4. Answered(w, d)'
      BY <1>3, <1>5, <2>2 DEF Answered, s
    <2>5. Talk(w, d)'
      BY <1>3, <2>1, <2>3, <2>4 DEF Talk, FreshSems, s
    <2>6. QED
      BY <1>5, <1>7, <2>5
  <1>9. CASE PostFileLen(d)
    <2>1. /\ dpc[d] = "postlen" /\ shm' = shm /\ bytes_read'[d] = 0
          /\ dpc'[d] = IF req[d].path \in Cached THEN NextCopy(d, 0) ELSE "receive"
          /\ sem'[s] = [sem[s] EXCEPT !.filelen = @ + 1]
      BY <1>1, <1>2, <1>4, <1>9 DEF PostFileLen, DGoto
    <2>2. pc[w] = "filelen" /\ sem[s] = FreshSems /\ Answered(w, d)
      BY <2>1 DEF Partner, Talk, s
    <2>3. sem'[s].proxy = 0 /\ sem'[s].cache = 1
      BY <2>1, <2>2 DEF FreshSems
    <2> SUFFICES ASSUME Serving(d)' PROVE Talk(w, d)'
      BY <1>5, <1>7
    <2>4. req[d].path \in Cached /\ 0 < Filsize(d) /\ dpc'[d] = "cachesem"
      BY <2>1 DEF Serving, NextCopy
    <2>5. Answered(w, d)'
      BY <1>3, <1>5, <2>1, <2>2 DEF Answered
    <2>6. Turn(w, d)'
      BY <1>3, <2>2, <2>3, <2>4 DEF Turn, s
    <2>7. Progress(w, d)'
      BY <1>2, <1>3, <1>5, <2>1, <2>2, <2>3, <2>4 DEF Progress, Sent, Filled, s
    <2>8. QED
      BY <1>5, <1>6, <2>4, <2>5, <2>6, <2>7 DEF Talk
  <1>10. ASSUME dpc[d] \in {"cachesem", "copy", "postproxy"}
         PROVE  req[d].path \in Cached /\ Answered(w, d) /\ Turn(w, d) /\ Progress(w, d)
    BY <1>10 DEF Partner, Talk
  <1>11. CASE AwaitCache(d)
    <2>1. /\ dpc[d] = "cachesem" /\ dpc'[d] = "copy" /\ shm' = shm /\ bytes_read' = bytes_read
          /\ sem[s].cache > 0 /\ sem'[s] = [sem[s] EXCEPT !.cache = @ - 1]
      BY <1>1, <1>2, <1>4, <1>11 DEF AwaitCache, DGoto
    <2>2. sem'[s].cache = sem[s].cache - 1 /\ sem'[s].proxy = sem[s].proxy
      BY <1>2, <2>1 DEF Semaphores
    <2>3. sem[s].cache = 1 /\ sem[s].proxy = 0 /\ pc[w] \notin {"send", "post"}
      BY <1>2, <1>10, <2>1 DEF Turn, s
    <2>4. Answered(w, d)'
      BY <1>3, <1>5, <1>10, <2>1 DEF Answered
    <2>5. Turn(w, d)'
      BY <1>3, <2>1, <2>2, <2>3 DEF Turn, s
    <2>6. Progress(w, d)'
      BY <1>3, <1>5, <1>10, <2>1, <2>2, <2>3 DEF Progress, Sent, Filled, s
    <2>7. QED
      BY <1>5, <1>6, <1>7, <1>10, <2>1, <2>4, <2>5, <2>6 DEF Talk
  <1>12. CASE Copy(d)
    <2> DEFINE n == Len(Chunk(d))
    <2>1. /\ dpc[d] = "copy" /\ dpc'[d] = "postproxy" /\ sem' = sem
          /\ bytes_read'[d] = bytes_read[d] + n
      BY <1>4, <1>12 DEF Copy, DGoto
    <2>2. shm'[s].read_len = n /\ shm'[s].status = shm[s].status
          /\ shm'[s].filesize = shm[s].filesize
      BY <1>1, <1>2, <1>4, <1>12 DEF Copy, Shared
    <2>3. req[d].path \in Cached /\ bytes_read[d] < Filsize(d)
      BY <1>10, <2>1 DEF Progress
    <2>4. n \in Nat \ {0} /\ bytes_read[d] + n <= Filsize(d)
      BY <2>3, ChunkLength
    <2> HIDE DEF n
    <2>5. /\ pc[w] \notin {"send", "post"} /\ sem[s].proxy = 0 /\ sem[s].cache = 0
          /\ Sent(w) <= bytes_read[d]
      BY <1>10, <2>1 DEF Turn, Progress, s
    <2>6. Sent(w) \in Nat /\ Sent(w)' = Sent(w)
      BY <1>2, <1>3 DEF Sent
    <2>7. Answered(w, d)'
      BY <1>3, <1>5, <1>10, <2>1, <2>2 DEF Answered, s
    <2>8. Turn(w, d)'
      BY <1>3, <2>1, <2>5 DEF Turn, s
    <2>9. Progress(w, d)'
      BY <1>2, <1>3, <1>5, <2>1, <2>2, <2>4, <2>5, <2>6 DEF Progress, s
    <2>10. QED
      BY <1>5, <1>6, <1>7, <1>10, <2>1, <2>7, <2>8, <2>9 DEF Talk
  <1>13. CASE PostProxy(d)
    <2>1. /\ dpc[d] = "postproxy" /\ dpc'[d] = NextCopy(d, bytes_read[d])
          /\ shm' = shm /\ bytes_read' = bytes_read
          /\ sem'[s] = [sem[s] EXCEPT !.proxy = @ + 1]
      BY <1>1, <1>2, <1>4, <1>13 DEF PostProxy, DGoto
    <2>2. sem'[s].cache = sem[s].cache /\ sem'[s].proxy = sem[s].proxy + 1
      BY <1>2, <2>1 DEF Semaphores
    <2>3. sem[s].cache = 0 /\ sem[s].proxy = 0 /\ pc[w] \notin {"send", "post"}
      BY <1>10, <2>1 DEF Turn, s
    <2> SUFFICES ASSUME Serving(d)' PROVE Talk(w, d)'
      BY <1>5, <1>7
    <2>4. bytes_read[d] < Filsize(d) /\ dpc'[d] = "cachesem"
      BY <2>1 DEF Serving, NextCopy
    <2>5. Answered(w, d)'
      BY <1>3, <1>5, <1>10, <2>1 DEF Answered
    <2>6. Turn(w, d)'
      BY <1>3, <2>2, <2>3, <2>4 DEF Turn, s
    <2>7. Progress(w, d)'
      BY <1>3, <1>5, <1>10, <2>1, <2>2, <2>3, <2>4 DEF Progress, Sent, Filled, s
    <2>8. QED
      BY <1>5, <1>6, <1>10, <2>1, <2>4, <2>5, <2>6, <2>7 DEF Talk
  <1>14. CASE ReadNothing(d)
    BY <1>4, <1>5, <1>14 DEF ReadNothing, DGoto, Serving
  <1>15. QED
    BY <1>5, <1>8, <1>9, <1>11, <1>12, <1>13, <1>14 DEF DaemonStep

\* Two workers that both have segments have different ones.
LEMMA OtherSegment ==
  ASSUME SegmentOwnership, NEW v \in Workers, NEW w \in Workers, w # v, seg[w] \in Segments
  PROVE  seg[w] \in Segments \ {seg[v]}
  BY SizeAssumption DEF SegmentOwnership, Segments, NoSeg

\* Only a worker that sends its request adds to the message queue.
LEMMA WorkerMessages ==
  ASSUME NEW v \in Workers, StepOf(v)
  PROVE  mq' = mq \/ SendRequest(v)
  BY DEF StepOf, WorkerStep, Ask, SpuriousWakeup, AwaitSegment, GetSegment, Broadcast,
         InitSems, AwaitFileLen, SendHeader, LoopTest, AwaitChunk, SendChunk, PostCache,
         QueueMemory, SendNotFound

\* A worker is ready to send its request when it has set up its semaphores.
LEMMA WorkerPrepares ==
  ASSUME TypeOK, NEW v \in Workers, StepOf(v), pc'[v] = "request"
  PROVE  sem'[seg'[v]] = FreshSems
  <1>1. pc \in [Workers -> ProxyStates] /\ sem \in [Segments -> Semaphores]
    BY DEF TypeOK, WorkersTypeOK, SegmentsTypeOK
  <1>2. InitSems(v)
    BY <1>1
    DEF StepOf, WorkerStep, Goto, Ask, SpuriousWakeup, AwaitSegment, GetSegment, Broadcast,
        AfterBroadcast, SendRequest, AwaitFileLen, SendHeader, LoopTest, AwaitChunk, SendChunk,
        PostCache, QueueMemory, AfterQueue, SendNotFound
  <1>3. seg[v] \in Segments
    BY <1>2, HeldSegment DEF InitSems, Goto, HoldingStates, TypeOK
  <1>4. QED
    BY <1>1, <1>2, <1>3 DEF InitSems

LEMMA WorkerLeases ==
  ASSUME NoFailure, TypeOK, SegmentOwnership, Leases, NEW v \in Workers, StepOf(v)
  PROVE  Leases'
  <1>1. AroundWorker(v)
    BY WorkerFrame
  <1>3. UNCHANGED <<dpc, req, bytes_read>>
    BY <1>1 DEF AroundWorker, daemonVars
  <1>4. ASSUME NEW w \in Workers, w # v, Lent(w), NEW d \in Daemons
        PROVE  PairSame(w, d)
    <2>1. seg[w] \in Segments /\ pc[w] # "cond_wait"
      BY <1>4, HeldSegment DEF TypeOK, Lent, HoldingStates
    <2>2. seg[w] \in Segments \ {seg[v]}
      BY <1>4, <2>1, OtherSegment
    <2>3. QED
      BY <1>1, <1>3, <1>4, <2>1, <2>2 DEF AroundWorker, PairSame
  <1>5. ASSUME NEW w \in Workers, NEW i \in 1..Len(mq), Waits(w, i), mq'[i] = mq[i]
        PROVE  w # v /\ Waits(w, i)'
    <2>1. w # v
      BY <1>5, NoAnswerYet DEF Waits
    <2>2. Lent(w) /\ pc[w] # "cond_wait"
      BY <1>5 DEF Waits, Lent
    <2>3. seg[w] \in Segments \ {seg[v]}
      BY <2>1, <2>2, HeldSegment, OtherSegment DEF TypeOK, Lent, HoldingStates
    <2>4. QED
      BY <1>1, <1>5, <2>1, <2>2, <2>3 DEF AroundWorker, Waits, FreshSems
  <1>6. Prepared'
    <2> SUFFICES ASSUME NEW w \in Workers, pc'[w] = "request"
                 PROVE  sem'[seg'[w]] = FreshSems
      BY DEF Prepared, FreshSems
    <2>1. CASE w = v
      BY <2>1, WorkerPrepares
    <2>2. CASE w # v
      <3>1. pc[w] = "request" /\ seg'[w] = seg[w]
        BY <1>1, <2>2 DEF AroundWorker
      <3>2. seg[w] \in Segments \ {seg[v]}
        BY <2>2, <3>1, HeldSegment, OtherSegment DEF TypeOK, HoldingStates
      <3>3. QED
        BY <1>1, <3>1, <3>2 DEF AroundWorker, Leases, Prepared
    <2>3. QED
      BY <2>1, <2>2
  <1>7. ServersTalk'
    <2> SUFFICES ASSUME NEW d \in Daemons, Serving(d)
                 PROVE  \E w \in Workers : Partner(w, d)'
      BY <1>3 DEF ServersTalk, Serving
    <2>1. PICK w \in Workers : Partner(w, d)
      BY DEF Leases, ServersTalk
    <2>2. CASE w = v
      BY <2>1, <2>2, WorkerTalks
    <2>3. CASE w # v
      <3>1. PairSame(w, d)
        BY <1>4, <2>1, <2>3, PartnersLend
      <3>2. QED
        BY <2>1, <3>1, PartnerStays
    <2>4. QED
      BY <2>2, <2>3
  <1>8. ServersDiffer'
    BY <1>3 DEF Leases, ServersDiffer, Serving
  <1>9. CASE mq' = mq
    <2>1. MessagesWait'
      BY <1>5, <1>9 DEF Leases, MessagesWait
    <2>2. MessagesDiffer' /\ NewRequests'
      BY <1>3, <1>9 DEF Leases, MessagesDiffer, NewRequests, Serving
    <2>3. QED
      BY <1>6, <1>7, <1>8, <2>1, <2>2 DEF Leases
  <1>10. CASE SendRequest(v)
    <2> DEFINE m == [path |-> path[v], seg |-> seg[v]]
    <2>1. /\ pc[v] = "request" /\ pc'[v] = "filelen" /\ mq' = Append(mq, m)
          /\ path' = path /\ seg' = seg /\ sem' = sem
      BY <1>10 DEF SendRequest, Goto, TypeOK, WorkersTypeOK
    <2>2. mq \in Seq(Request) /\ Len(mq) \in Nat
      BY DEF TypeOK, QueuesTypeOK
    <2>3. seg[v] \in Segments /\ path[v] \in Paths
      BY <2>1, HeldSegment DEF TypeOK, WorkersTypeOK, HoldingStates
    <2>4. m \in Request
      BY <2>3 DEF Request
    <2> HIDE DEF m
    <2>a. PICK k \in Nat : k = Len(mq) + 1
      BY <2>2
    <2>5. /\ Len(mq') = k /\ mq'[k] = m /\ \A i \in 1..Len(mq) : mq'[i] = mq[i]
          /\ \A i \in 1..Len(mq') : i \in 1..Len(mq) \/ i = k
      BY <2>1, <2>2, <2>4, <2>a
    <2>6. Waits(v, k)'
      BY <2>1, <2>5 DEF Waits, Leases, Prepared, FreshSems, m
    <2>7. MessagesWait'
      BY <1>5, <2>5, <2>6 DEF Leases, MessagesWait
    <2>8. \A i \in 1..Len(mq) : mq[i].seg # m.seg
      <3> SUFFICES ASSUME NEW i \in 1..Len(mq) PROVE mq[i].seg # m.seg
        OBVIOUS
      <3>1. PICK w \in Workers : Waits(w, i)
        BY DEF Leases, MessagesWait
      <3>2. seg[w] \in Segments \ {seg[v]}
        BY <2>1, <3>1, HeldSegment, OtherSegment DEF TypeOK, HoldingStates, Waits
      <3>3. QED
        BY <3>1, <3>2 DEF Waits, m
    <2>9. \A d \in Daemons : Serving(d) => req[d].seg # m.seg
      <3> SUFFICES ASSUME NEW d \in Daemons, Serving(d) PROVE req[d].seg # m.seg
        OBVIOUS
      <3>1. PICK w \in Workers : Partner(w, d)
        BY DEF Leases, ServersTalk
      <3>2. Lent(w) /\ req[d].seg = seg[w]
        BY <3>1, PartnersLend
      <3>3. seg[w] \in Segments \ {seg[v]}
        BY <2>1, <3>2, HeldSegment, OtherSegment DEF TypeOK, HoldingStates, Lent
      <3>4. QED
        BY <3>2, <3>3 DEF m
    <2>10. MessagesDiffer'
      BY <2>5, <2>8 DEF Leases, MessagesDiffer
    <2>11. NewRequests'
      BY <1>3, <2>5, <2>9 DEF Leases, NewRequests, Serving
    <2>12. QED
      BY <1>6, <1>7, <1>8, <2>7, <2>10, <2>11 DEF Leases
  <1>11. QED
    BY <1>9, <1>10, WorkerMessages

\* A daemon worker becomes the partner of the worker that sent the message.
LEMMA ReceiveLeases ==
  ASSUME TypeOK, Leases, NEW d \in Daemons, Receive(d)
  PROVE  Leases'
  <1>1. /\ mq \in Seq(Request) /\ mq # <<>> /\ mq' = Tail(mq)
        /\ req' = [req EXCEPT ![d] = mq[1]] /\ req \in [Daemons -> Request]
        /\ dpc[d] = "receive" /\ dpc' = [dpc EXCEPT ![d] = "reply"]
        /\ dpc \in [Daemons -> DaemonStates]
        /\ UNCHANGED <<pc, path, seg, transferred, sem, shm, bytes_read>>
    BY DEF Receive, DGoto, TypeOK, QueuesTypeOK, DaemonsTypeOK, workerVars
  <1>2. /\ Len(mq) \in Nat \ {0} /\ Len(mq') = Len(mq) - 1
        /\ \A i \in 1..Len(mq') : i + 1 \in 1..Len(mq) /\ mq'[i] = mq[i + 1] /\ i + 1 # 1
        /\ 1 \in 1..Len(mq)
    BY <1>1
  <1>3. /\ req'[d] = mq[1] /\ dpc'[d] = "reply"
        /\ \A e \in Daemons \ {d} : req'[e] = req[e] /\ dpc'[e] = dpc[e]
        /\ \A e \in Daemons : Serving(e)' <=> Serving(e) \/ e = d
    BY <1>1 DEF Serving
  <1>4. Prepared'
    BY <1>1 DEF Leases, Prepared, FreshSems
  <1>5. MessagesWait'
    <2> SUFFICES ASSUME NEW i \in 1..Len(mq') PROVE \E w \in Workers : Waits(w, i)'
      BY DEF MessagesWait
    <2>1. PICK w \in Workers : Waits(w, i + 1)
      BY <1>2 DEF Leases, MessagesWait
    <2>2. Waits(w, i)'
      BY <1>1, <1>2, <2>1 DEF Waits, FreshSems
    <2>3. QED
      BY <2>2
  <1>6. ServersTalk'
    <2> SUFFICES ASSUME NEW e \in Daemons, Serving(e)' PROVE \E w \in Workers : Partner(w, e)'
      BY DEF ServersTalk
    <2>1. CASE e = d
      <3>1. PICK w \in Workers : Waits(w, 1)
        BY <1>2 DEF Leases, MessagesWait
      <3>2. Partner(w, d)'
        BY <1>1, <1>3, <3>1 DEF Waits, Partner, Talk, FreshSems
      <3>3. QED
        BY <2>1, <3>2
    <2>2. CASE e # d
      <3>1. PICK w \in Workers : Partner(w, e)
        BY <1>3, <2>2 DEF Leases, ServersTalk
      <3>2. PairSame(w, e)
        BY <1>1, <1>3, <2>2 DEF PairSame
      <3>3. QED
        BY <3>1, <3>2, PartnerStays
    <2>3. QED
      BY <2>1, <2>2
  <1>7. MessagesDiffer'
    BY <1>2 DEF Leases, MessagesDiffer
  <1>8. ServersDiffer'
    BY <1>2, <1>3 DEF Leases, ServersDiffer, NewRequests
  <1>9. NewRequests'
    <2> SUFFICES ASSUME NEW e \in Daemons, NEW i \in 1..Len(mq'), Serving(e)'
                 PROVE  req'[e].seg # mq'[i].seg
      BY DEF NewRequests
    <2>1. CASE e = d
      BY <1>2, <1>3, <2>1 DEF Leases, MessagesDiffer
    <2>2. CASE e # d
      BY <1>2, <1>3, <2>2 DEF Leases, NewRequests
    <2>3. QED
      BY <2>1, <2>2
  <1>10. QED
    BY <1>4, <1>5, <1>6, <1>7, <1>8, <1>9 DEF Leases

\* A daemon worker that serves touches the segment of its partner only.
LEMMA ServeLeases ==
  ASSUME TypeOK, SegmentOwnership, Leases,
         NEW d \in Daemons, DaemonStep(d), ~Receive(d), ~ReadFails(d)
  PROVE  Leases'
  <1>1. AroundDaemon(d) /\ Serving(d)
    BY DaemonFrame
    DEF DaemonStep, Reply, PostFileLen, AwaitCache, Copy, ReadNothing, PostProxy, DGoto, Serving
  <1>2. UNCHANGED <<pc, path, seg, transferred>>
    BY <1>1 DEF AroundDaemon, workerVars
  <1>3. PICK v \in Workers : Partner(v, d)
    BY <1>1 DEF Leases, ServersTalk
  <1>4. /\ mq' = mq /\ req' = req /\ Lent(v) /\ req[d].seg = seg[v]
        /\ Serving(d)' => Partner(v, d)'
    BY <1>3, DaemonTalks, PartnersLend
  <1>5. ASSUME NEW w \in Workers, w # v, seg[w] \in Segments
        PROVE  sem'[seg[w]] = sem[seg[w]] /\ shm'[seg[w]] = shm[seg[w]]
    BY <1>1, <1>4, <1>5, OtherSegment DEF AroundDaemon
  <1>6. \A e \in Daemons : Serving(e)' => Serving(e)
    BY <1>1 DEF AroundDaemon, Serving
  <1>7. Prepared'
    <2> SUFFICES ASSUME NEW w \in Workers, pc[w] = "request" PROVE sem'[seg[w]] = FreshSems
      BY <1>2 DEF Prepared, FreshSems
    <2>1. w # v
      BY <1>4 DEF Lent
    <2>2. seg[w] \in Segments
      BY HeldSegment DEF TypeOK, HoldingStates
    <2>3. QED
      BY <1>5, <2>1, <2>2 DEF Leases, Prepared
  <1>8. MessagesWait'
    <2> SUFFICES ASSUME NEW i \in 1..Len(mq) PROVE \E w \in Workers : Waits(w, i)'
      BY <1>4 DEF MessagesWait
    <2>1. PICK w \in Workers : Waits(w, i)
      BY DEF Leases, MessagesWait
    <2>2. w # v
      BY <1>1, <1>4, <2>1 DEF Leases, NewRequests, Waits
    <2>3. seg[w] \in Segments
      BY <2>1, HeldSegment DEF TypeOK, HoldingStates, Waits
    <2>4. Waits(w, i)'
      BY <1>2, <1>4, <1>5, <2>1, <2>2, <2>3 DEF Waits, FreshSems
    <2>5. QED
      BY <2>4
  <1>9. ServersTalk'
    <2> SUFFICES ASSUME NEW e \in Daemons, Serving(e)', e # d
                 PROVE  \E w \in Workers : Partner(w, e)'
      BY <1>4 DEF ServersTalk
    <2>1. PICK w \in Workers : Partner(w, e)
      BY <1>6 DEF Leases, ServersTalk
    <2>2. Lent(w) /\ Serving(e) /\ req[e].seg = seg[w]
      BY <2>1, PartnersLend
    <2>3. w # v
      BY <1>1, <1>4, <2>2 DEF Leases, ServersDiffer
    <2>4. seg[w] \in Segments
      BY <2>2, HeldSegment DEF TypeOK, HoldingStates, Lent
    <2>5. PairSame(w, e)
      BY <1>1, <1>2, <1>5, <2>3, <2>4 DEF PairSame, AroundDaemon
    <2>6. QED
      BY <2>1, <2>5, PartnerStays
  <1>10. MessagesDiffer' /\ ServersDiffer' /\ NewRequests'
    BY <1>4, <1>6 DEF Leases, MessagesDiffer, ServersDiffer, NewRequests
  <1>11. QED
    BY <1>7, <1>8, <1>9, <1>10 DEF Leases

\* A daemon that has crashed serves nobody.
LEMMA CrashLeases ==
  ASSUME Leases, NEW d \in Daemons, ReadFails(d)
  PROVE  Leases'
  <1>1. /\ UNCHANGED <<pc, path, seg, mq, sem>>
        /\ \A e \in Daemons : ~Serving(e)'
    BY DEF ReadFails, workerVars, Serving
  <1>2. Prepared' /\ MessagesDiffer'
    BY <1>1 DEF Leases, Prepared, MessagesDiffer, FreshSems
  <1>3. MessagesWait'
    BY <1>1 DEF Leases, MessagesWait, Waits, FreshSems
  <1>4. ServersTalk' /\ ServersDiffer' /\ NewRequests'
    BY <1>1 DEF ServersTalk, ServersDiffer, NewRequests
  <1>5. QED
    BY <1>2, <1>3, <1>4 DEF Leases

\* The start, and every step.
LEMMA InitLeases == Init => Leases
  BY DEF Init, Leases, Prepared, MessagesWait, ServersTalk, MessagesDiffer, ServersDiffer,
         NewRequests, Serving

LEMMA NextLeases ==
  NoFailure /\ TypeOK /\ SegmentOwnership /\ Leases /\ [Next]_vars => Leases'
  <1> SUFFICES ASSUME NoFailure, TypeOK, SegmentOwnership, Leases, [Next]_vars PROVE Leases'
    OBVIOUS
  <1>1. CASE \E v \in Workers : StepOf(v)
    BY <1>1, WorkerLeases
  <1>2. CASE \E d \in Daemons : DaemonStep(d)
    BY <1>2, ReceiveLeases, ServeLeases, CrashLeases
  <1>3. CASE UNCHANGED vars
    <2> USE <1>3 DEF vars
    <2>1. Prepared' /\ MessagesDiffer' /\ ServersDiffer' /\ NewRequests'
      BY DEF Leases, Prepared, MessagesDiffer, ServersDiffer, NewRequests, Serving, FreshSems
    <2>2. MessagesWait'
      BY DEF Leases, MessagesWait, Waits, FreshSems
    <2>3. \A w \in Workers, d \in Daemons : PairSame(w, d)
      BY DEF PairSame
    <2>4. ServersTalk'
      BY <2>3, PartnerStays DEF Leases, ServersTalk, Serving
    <2>5. QED
      BY <2>1, <2>2, <2>4 DEF Leases
  <1>4. QED
    BY <1>1, <1>2, <1>3 DEF Next, StepOf

LEMMA LeasesHold == ASSUME NoFailure PROVE Spec => []Leases
  <1>1. Init => Leases
    BY InitLeases
  <1>2. TypeOK /\ SegmentOwnership /\ Leases /\ [Next]_vars => Leases'
    BY NextLeases
  <1>3. QED
    BY <1>1, <1>2, TypeCorrect, SegmentsOwned, PTL DEF Spec

\* handle_with_cache.c:78-124 and simplecached.c:155-223.  While gfs_send does
\* not fail, however short its writes are, whatever in the daemon still
\* touches a segment does so for the worker that holds it, and does it alone.
\* No result of pread disturbs that.
THEOREM LeasesExclusive == ASSUME NoFailure PROVE Spec => []LeaseIsExclusive
  <1>1. Leases => LeaseIsExclusive
    BY LeasesExclude
  <1>2. QED
    BY <1>1, LeasesHold, PTL

\* handle_with_cache.c:88-117, simplecached.c:180-217.  With that, no field of
\* a segment is written by one process while the other reads it.
THEOREM SegmentsRaceFree == ASSUME NoFailure PROVE Spec => []NoSegmentRace
  <1>1. TypeOK /\ SegmentOwnership /\ Leases => NoSegmentRace
    BY LeasesAlternate
  <1>2. QED
    BY <1>1, LeasesHold, TypeCorrect, SegmentsOwned, PTL

-----------------------------------------------------------------------------
(* The file service.  With whole sends, what a client has, what its        *)
(* segment holds and what the daemon has read are tied to the bytes of one *)
(* file.                                                                   *)

\* gfs_send sends all it is given.
WholeSends == SendErrors = {}

\* The bytes of the file that w was asked for.
Source(w) == File[path[w]]

\* The chunk in the segment of w is what the client has to get next.
Loaded(w) ==
  /\ path[w] \in Cached
  /\ shm[seg[w]].read_len > 0
  /\ Sent(w) + shm[seg[w]].read_len <= Len(Source(w))
  /\ SubSeq(shm[seg[w]].data, 1, shm[seg[w]].read_len)
       = SubSeq(Source(w), Sent(w) + 1, Sent(w) + shm[seg[w]].read_len)

\* The segment of w holds the answer to its request.
Told(w) ==
  /\ shm[seg[w]].status = IF path[w] \in Cached THEN 200 ELSE 404
  /\ path[w] \in Cached => shm[seg[w]].filesize = Len(Source(w))

\* The client of w has nothing yet, or the start of its file.
Silent(w) == hdr[w] = NoHeader /\ body[w] = <<>>
Served(w) ==
  /\ path[w] \in Cached /\ hdr[w] = <<GF_OK, Len(Source(w))>>
  /\ transferred[w] <= Len(Source(w))
  /\ body[w] = SubSeq(Source(w), 1, transferred[w])

Quiet == {"get", "cond_wait", "popped", "init", "request", "filelen", "header"}
Refusing == {"finish404", "queued404", "header404"}
Copied == {"finish", "queued"}
ClientSees(w) ==
  /\ pc[w] \in Quiet => Silent(w)
  /\ pc[w] \in Refusing => Silent(w) /\ path[w] \notin Cached
  /\ pc[w] \in {"loop", "proxysem", "send", "post"} \cup Copied => Served(w)
  /\ pc[w] \in Copied => transferred[w] = Len(Source(w))
  /\ pc[w] = "idle" => body[w] = <<>> \/ Served(w)

\* What a segment that is lent holds for its worker, whether the daemon is
\* still at work on it or has ended.
SegmentHas(w) ==
  /\ pc[w] = "filelen" /\ sem[seg[w]].filelen > 0 => Told(w)
  /\ pc[w] \in {"header", "loop", "proxysem", "send", "post"} => Told(w) /\ path[w] \in Cached
  /\ Lent(w) => /\ sem[seg[w]].proxy <= 1
                /\ pc[w] \in {"send", "post"} => sem[seg[w]].proxy = 0
                /\ sem[seg[w]].proxy = 1 \/ pc[w] = "send" => Loaded(w)

\* The daemon has read what has been sent, and the chunk that has not.
Exact(w, d) ==
  IF Filled(w, d) THEN Loaded(w) /\ bytes_read[d] = Sent(w) + shm[seg[w]].read_len
                  ELSE bytes_read[d] = Sent(w)

Copying(d) == dpc[d] \in {"cachesem", "copy", "postproxy"}
ClientsSee == \A w \in Workers : ClientSees(w)
SegmentsHave == \A w \in Workers : SegmentHas(w)
CopiesExact == \A d \in Daemons : Copying(d) => \E w \in Workers : Partner(w, d) /\ Exact(w, d)
Delivery == ClientsSee /\ SegmentsHave /\ CopiesExact

\* The client of w, and the segment of w while it is lent, are as they were.
WorkerSame(w) ==
  /\ path'[w] = path[w] /\ seg'[w] = seg[w] /\ transferred'[w] = transferred[w]
  /\ hdr'[w] = hdr[w] /\ body'[w] = body[w]
  /\ pc'[w] = pc[w] \/ (pc[w] = "cond_wait" /\ pc'[w] = "get")
  /\ Lent(w) => sem'[seg[w]] = sem[seg[w]] /\ shm'[seg[w]] = shm[seg[w]]

LEMMA WorkerStays ==
  ASSUME NEW w \in Workers, WorkerSame(w), ClientSees(w), SegmentHas(w)
  PROVE  ClientSees(w)' /\ SegmentHas(w)'
  <1>1. CASE pc'[w] = pc[w]
    <2>1. ClientSees(w)'
      BY <1>1 DEF WorkerSame, ClientSees, Silent, Served, Source
    <2>2. CASE Lent(w)
      <3>1. /\ path'[w] = path[w] /\ seg'[w] = seg[w] /\ Sent(w)' = Sent(w)
            /\ shm'[seg[w]] = shm[seg[w]] /\ sem'[seg[w]] = sem[seg[w]]
        BY <1>1, <2>2 DEF WorkerSame, Sent
      <3>2. Told(w)' <=> Told(w)
        BY <3>1 DEF Told, Source
      <3>3. Loaded(w)' <=> Loaded(w)
        BY <3>1 DEF Loaded, Source
      <3>4. QED
        BY <1>1, <2>1, <2>2, <3>1, <3>2, <3>3 DEF SegmentHas, Lent
    <2>3. CASE ~Lent(w)
      BY <1>1, <2>1, <2>3 DEF SegmentHas, Lent
    <2>4. QED
      BY <2>2, <2>3
  <1>2. CASE pc[w] = "cond_wait" /\ pc'[w] = "get"
    BY <1>2 DEF WorkerSame, ClientSees, Silent, Quiet, Refusing, Copied, SegmentHas, Lent
  <1>3. QED
    BY <1>1, <1>2 DEF WorkerSame

LEMMA PairStays ==
  ASSUME NEW w \in Workers, NEW d \in Daemons, PairSame(w, d), Exact(w, d)
  PROVE  Exact(w, d)'
  <1>1. (Filled(w, d)' <=> Filled(w, d)) /\ Sent(w)' = Sent(w)
    BY DEF PairSame, Filled, Sent
  <1>2. Loaded(w)' <=> Loaded(w)
    BY <1>1 DEF PairSame, Loaded, Source
  <1>3. QED
    BY <1>1, <1>2 DEF Exact, PairSame

\* The types of what a worker and its client have.
LEMMA ServedTypes ==
  ASSUME TypeOK, NEW w \in Workers
  PROVE  /\ transferred[w] \in Nat /\ body[w] \in Seq(Byte)
         /\ path[w] \in Cached =>
              /\ Source(w) \in Seq(Byte)
              /\ Len(Source(w)) \in Nat /\ Len(Source(w)) < SizeMod - 1
         /\ Lent(w) => /\ seg[w] \in Segments /\ sem[seg[w]] \in Semaphores
                       /\ sem[seg[w]].proxy \in Nat /\ shm[seg[w]] \in Shared
                       /\ shm[seg[w]].read_len \in Nat /\ shm[seg[w]].data \in Seq(Byte)
  <1> USE SizeAssumption
  <1>1. transferred[w] \in Nat /\ body[w] \in Seq(Byte)
    BY DEF TypeOK, WorkersTypeOK
  <1>2. path[w] \in Cached =>
          /\ Source(w) \in Seq(Byte)
          /\ Len(Source(w)) \in Nat /\ Len(Source(w)) < SizeMod - 1
    BY FileAssumption DEF Source
  <1>3. Lent(w) => seg[w] \in Segments
    BY HeldSegment DEF TypeOK, Lent, HoldingStates
  <1>4. Lent(w) => sem[seg[w]] \in Semaphores /\ shm[seg[w]] \in Shared
    BY <1>3 DEF TypeOK, SegmentsTypeOK
  <1>5. /\ Lent(w) => sem[seg[w]].proxy \in Nat
        /\ Lent(w) => shm[seg[w]].read_len \in Nat /\ shm[seg[w]].data \in Seq(Byte)
    BY <1>4 DEF Semaphores, Shared
  <1>6. QED
    BY <1>1, <1>2, <1>3, <1>4, <1>5

\* The next chunk, after what has been sent, makes a longer start of the file.
LEMMA ChunkAppended ==
  ASSUME WholeSends, TypeOK, NEW v \in Workers, SendChunk(v), ClientSees(v), SegmentHas(v)
  PROVE  LET n == shm[seg[v]].read_len
         IN  /\ Loaded(v) /\ n \in Nat \ {0} /\ Sent(v) = transferred[v]
             /\ pc' = [pc EXCEPT ![v] = "post"]
             /\ transferred'[v] = transferred[v] + n
             /\ transferred[v] + n <= Len(Source(v))
             /\ Len(body[v]) = transferred[v]
             /\ body' = [body EXCEPT ![v] = SubSeq(Source(v), 1, transferred[v] + n)]
             /\ UNCHANGED <<path, seg, hdr, sem, shm, mq, daemonVars>>
  <1> DEFINE n == shm[seg[v]].read_len
             t == transferred[v]
             chunk == SubSeq(shm[seg[v]].data, 1, n)
  <1>1. pc[v] = "send" /\ Lent(v) /\ Sent(v) = t
    BY DEF SendChunk, Lent, Sent
  <1>2. Loaded(v) /\ Served(v)
    BY <1>1 DEF SegmentHas, ClientSees
  <1>3. /\ t \in Nat /\ n \in Nat \ {0} /\ body[v] \in Seq(Byte)
        /\ Source(v) \in Seq(Byte) /\ Len(Source(v)) \in Nat /\ Len(Source(v)) < SizeMod - 1
        /\ t + n <= Len(Source(v)) /\ t <= Len(Source(v))
    BY <1>1, <1>2, ServedTypes DEF Loaded, Served
  <1>4. PICK r \in SendResults(n, Len(shm[seg[v]].data)) :
          /\ Goto(v, "send", IF r = 0 THEN "finish" ELSE "post")
          /\ body' = IF r > 0 THEN [body EXCEPT ![v] = @ \o SubSeq(shm[seg[v]].data, 1, r)]
                              ELSE body
          /\ transferred' = [transferred EXCEPT ![v] = AddSize(@, ToSize(r))]
          /\ UNCHANGED <<path, seg, hdr, sem, shm, mq, daemonVars>>
    BY DEF SendChunk
  <1>5. r = n
    BY <1>4 DEF SendResults, WholeSends
  <1>6. body[v] = SubSeq(Source(v), 1, t) /\ chunk = SubSeq(Source(v), t + 1, t + n)
    BY <1>1, <1>2 DEF Loaded, Served
  <1>7. body' = [body EXCEPT ![v] = body[v] \o chunk]
    BY <1>3, <1>4, <1>5
  <1>8. transferred' = [transferred EXCEPT ![v] = AddSize(t, ToSize(n))]
    BY <1>4, <1>5
  <1>9. pc' = [pc EXCEPT ![v] = "post"]
    BY <1>3, <1>4, <1>5 DEF Goto
  <1> HIDE DEF n, t, chunk
  <1>10. body[v] \o chunk = SubSeq(Source(v), 1, t + n)
    <2>1. /\ 1 \in 1..(Len(Source(v)) + 1) /\ t \in (1 - 1)..Len(Source(v))
          /\ t + n \in t..Len(Source(v))
      BY <1>3
    <2>2. QED
      BY <1>3, <1>6, <2>1, ConcatAdjacentSubSeq
  <1>11. Len(body[v]) = t
    BY <1>3, <1>6
  <1>12. AddSize(t, ToSize(n)) = t + n
    <2>1. ToSize(n) = n
      BY <1>3 DEF ToSize
    <2>2. t + n < SizeMod
      BY <1>3, SizeAssumption
    <2>3. QED
      BY <2>1, <2>2 DEF AddSize
  <1>13. transferred'[v] = t + n
    BY <1>8, <1>12 DEF TypeOK, WorkersTypeOK
  <1>14. QED
    BY <1>1, <1>2, <1>3, <1>4, <1>7, <1>9, <1>10, <1>11, <1>13 DEF n, t

\* The worker's own steps keep to the file, the ones in which it sends ...
LEMMA WorkerDelivers ==
  ASSUME WholeSends, TypeOK, NEW v \in Workers, StepOf(v), Lent(v),
         ClientSees(v), SegmentHas(v)
  PROVE  ClientSees(v)' /\ SegmentHas(v)'
  <1> DEFINE s == seg[v]
  <1> USE DEF Quiet, Refusing, Copied
  <1>1. /\ pc \in [Workers -> ProxyStates] /\ hdr \in [Workers -> Header]
        /\ transferred \in [Workers -> 0..(SizeMod - 1)] /\ body \in [Workers -> Seq(Byte)]
        /\ sem \in [Segments -> Semaphores] /\ shm \in [Segments -> Shared]
    BY DEF TypeOK, WorkersTypeOK, SegmentsTypeOK
  <1>2. /\ s \in Segments /\ sem[s] \in Semaphores /\ sem[s].proxy \in Nat
        /\ transferred[v] \in Nat
        /\ path[v] \in Cached => /\ Source(v) \in Seq(Byte) /\ Len(Source(v)) \in Nat
    BY ServedTypes
  <1>3. path'[v] = path[v] /\ seg'[v] = s /\ shm' = shm
    BY LentSteps
       DEF AwaitFileLen, SendHeader, LoopTest, AwaitChunk, SendChunk, PostCache, Goto
  <1>4. Source(v)' = Source(v) /\ (Told(v)' <=> Told(v))
    BY <1>3 DEF Source, Told
  <1>5. ASSUME Sent(v)' = Sent(v) PROVE Loaded(v)' <=> Loaded(v)
    BY <1>3, <1>4, <1>5 DEF Loaded
  <1>6. ASSUME UNCHANGED <<hdr, body>> PROVE Silent(v)' <=> Silent(v)
    BY <1>6 DEF Silent
  <1>7. ASSUME UNCHANGED <<hdr, body, transferred>> PROVE Served(v)' <=> Served(v)
    BY <1>3, <1>4, <1>7 DEF Served
  <1> HIDE DEF s
  <1>8. CASE AwaitFileLen(v)
    <2>1. /\ pc[v] = "filelen" /\ sem[s].filelen > 0
          /\ sem'[s] = [sem[s] EXCEPT !.filelen = @ - 1]
          /\ pc'[v] = IF shm[s].status = 200 THEN "header" ELSE "finish404"
          /\ UNCHANGED <<hdr, body, transferred>>
      BY <1>1, <1>2, <1>8 DEF AwaitFileLen, s
    <2>2. Told(v) /\ Silent(v)
      BY <2>1 DEF SegmentHas, ClientSees, s
    <2>3. path[v] \in Cached <=> pc'[v] = "header"
      BY <2>1, <2>2 DEF Told, s
    <2>4. sem'[s].proxy = sem[s].proxy
      BY <1>2, <2>1 DEF Semaphores
    <2>5. ClientSees(v)'
      BY <1>3, <1>6, <2>1, <2>2, <2>3 DEF ClientSees
    <2>6. pc'[v] = "header" => Sent(v)' = Sent(v)
      BY <2>1 DEF Sent
    <2>7. SegmentHas(v)'
      BY <1>3, <1>4, <1>5, <2>1, <2>2, <2>3, <2>4, <2>6 DEF SegmentHas, Lent, s
    <2>8. QED
      BY <2>5, <2>7
  <1>9. CASE SendHeader(v)
    <2>1. /\ pc[v] = "header" /\ pc'[v] = "loop" /\ sem' = sem /\ transferred'[v] = 0
          /\ hdr'[v] = <<GF_OK, shm[s].filesize>> /\ body'[v] = body[v]
      BY <1>1, <1>9 DEF SendHeader, Goto, s
    <2>2. Told(v) /\ path[v] \in Cached /\ Silent(v)
      BY <2>1 DEF SegmentHas, ClientSees
    <2>3. Served(v)'
      <3>1. SubSeq(Source(v), 1, 0) = <<>>
        BY SubSeqEmpty
      <3>2. hdr'[v] = <<GF_OK, Len(Source(v))>> /\ body'[v] = <<>>
        BY <2>1, <2>2 DEF Told, Silent, s
      <3>3. 0 <= Len(Source(v))
        BY <1>2, <2>2
      <3>4. QED
        BY <1>3, <1>4, <2>1, <2>2, <3>1, <3>2, <3>3 DEF Served
    <2>4. ClientSees(v)'
      BY <2>1, <2>3 DEF ClientSees
    <2>5. Sent(v)' = Sent(v)
      BY <2>1 DEF Sent
    <2>6. SegmentHas(v)'
      BY <1>3, <1>4, <1>5, <2>1, <2>2, <2>5 DEF SegmentHas, Lent, s
    <2>7. QED
      BY <2>4, <2>6
  <1>10. CASE LoopTest(v)
    <2>1. /\ pc[v] = "loop" /\ sem' = sem /\ UNCHANGED <<hdr, body, transferred>>
          /\ pc'[v] = IF transferred[v] < shm[s].filesize THEN "proxysem" ELSE "finish"
      BY <1>1, <1>10 DEF LoopTest, MoreToSend, s
    <2>2. Told(v) /\ path[v] \in Cached /\ Served(v)
      BY <2>1 DEF SegmentHas, ClientSees
    <2>3. pc'[v] = "finish" => transferred[v] = Len(Source(v))
      <3>1. shm[s].filesize = Len(Source(v)) /\ transferred[v] <= Len(Source(v))
        BY <2>2 DEF Told, Served, s
      <3>2. pc'[v] = "finish" => ~(transferred[v] < Len(Source(v)))
        BY <2>1, <3>1
      <3>3. QED
        BY <1>2, <2>2, <3>1, <3>2
    <2>4. ClientSees(v)'
      BY <1>3, <1>4, <1>7, <2>1, <2>2, <2>3 DEF ClientSees
    <2>5. Sent(v)' = Sent(v)
      BY <2>1 DEF Sent
    <2>6. SegmentHas(v)'
      BY <1>3, <1>4, <1>5, <2>1, <2>2, <2>5 DEF SegmentHas, Lent, s
    <2>7. QED
      BY <2>4, <2>6
  <1>11. CASE AwaitChunk(v)
    <2>1. /\ pc[v] = "proxysem" /\ pc'[v] = "send" /\ UNCHANGED <<hdr, body, transferred>>
          /\ sem[s].proxy > 0 /\ sem'[s] = [sem[s] EXCEPT !.proxy = @ - 1]
      BY <1>1, <1>2, <1>11 DEF AwaitChunk, Goto, s
    <2>2. Told(v) /\ path[v] \in Cached /\ Served(v) /\ sem[s].proxy = 1 /\ Loaded(v)
      BY <1>2, <2>1 DEF SegmentHas, ClientSees, s
    <2>3. sem'[s].proxy = 0
      BY <1>2, <2>1, <2>2 DEF Semaphores
    <2>4. ClientSees(v)'
      BY <1>7, <2>1, <2>2 DEF ClientSees
    <2>5. Sent(v)' = Sent(v)
      BY <2>1 DEF Sent
    <2>6. SegmentHas(v)'
      BY <1>3, <1>4, <1>5, <2>1, <2>2, <2>3, <2>5 DEF SegmentHas, Lent, s
    <2>7. QED
      BY <2>4, <2>6
  <1>12. CASE SendChunk(v)
    <2> DEFINE n == shm[seg[v]].read_len
    <2>1. /\ n \in Nat \ {0} /\ pc'[v] = "post" /\ transferred'[v] = transferred[v] + n
          /\ transferred[v] + n <= Len(Source(v)) /\ hdr' = hdr /\ sem' = sem
          /\ body'[v] = SubSeq(Source(v), 1, transferred[v] + n)
      BY <1>1, <1>12, ChunkAppended
    <2> HIDE DEF n
    <2>2. pc[v] = "send"
      BY <1>12 DEF SendChunk
    <2>3. Told(v) /\ path[v] \in Cached /\ Served(v) /\ sem[s].proxy = 0
      BY <2>2 DEF SegmentHas, ClientSees, s
    <2>4. Served(v)'
      BY <1>3, <1>4, <2>1, <2>3 DEF Served
    <2>5. ClientSees(v)'
      BY <2>1, <2>4 DEF ClientSees
    <2>6. SegmentHas(v)'
      BY <1>3, <1>4, <2>1, <2>3 DEF SegmentHas, s
    <2>7. QED
      BY <2>5, <2>6
  <1>13. CASE PostCache(v)
    <2>1. /\ pc[v] = "post" /\ pc'[v] = "loop" /\ UNCHANGED <<hdr, body, transferred>>
          /\ sem'[s] = [sem[s] EXCEPT !.cache = @ + 1]
      BY <1>1, <1>2, <1>13 DEF PostCache, Goto, s
    <2>2. Told(v) /\ path[v] \in Cached /\ Served(v) /\ sem[s].proxy = 0
      BY <2>1 DEF SegmentHas, ClientSees, Lent, s
    <2>3. sem'[s].proxy = sem[s].proxy
      BY <1>2, <2>1 DEF Semaphores
    <2>4. ClientSees(v)'
      BY <1>7, <2>1, <2>2 DEF ClientSees
    <2>5. SegmentHas(v)'
      BY <1>3, <1>4, <2>1, <2>2, <2>3 DEF SegmentHas, s
    <2>6. QED
      BY <2>4, <2>5
  <1>14. QED
    BY <1>8, <1>9, <1>10, <1>11, <1>12, <1>13, LentSteps

\* ... and the others, before it lends its segment and after it takes it back.
LEMMA WorkerTurns ==
  ASSUME TypeOK, Leases, NEW v \in Workers, StepOf(v), ~Lent(v), ClientSees(v)
  PROVE  ClientSees(v)' /\ SegmentHas(v)'
  <1> USE DEF Quiet, Refusing, Copied
  <1>1. pc \in [Workers -> ProxyStates] /\ hdr \in [Workers -> Header]
        /\ body \in [Workers -> Seq(Byte)]
    BY DEF TypeOK, WorkersTypeOK
  <1>2. ASSUME UNCHANGED <<hdr, body>> PROVE Silent(v)' <=> Silent(v)
    BY <1>2 DEF Silent
  <1>3. ASSUME NEW p \in Paths, Ask(v, p) PROVE ClientSees(v)' /\ SegmentHas(v)'
    <2>1. pc'[v] = "get" /\ Silent(v)'
      BY <1>1, <1>3 DEF Ask, Goto, Silent
    <2>2. QED
      BY <2>1 DEF ClientSees, SegmentHas, Lent
  <1>4. CASE SpuriousWakeup(v) \/ AwaitSegment(v) \/ GetSegment(v) \/ InitSems(v)
    <2>1. /\ pc'[v] \in {"get", "cond_wait", "popped", "request"} /\ Silent(v)
          /\ UNCHANGED <<hdr, body>>
      BY <1>1, <1>4
      DEF SpuriousWakeup, AwaitSegment, GetSegment, InitSems, Goto, ClientSees
    <2>2. QED
      BY <1>2, <2>1 DEF ClientSees, SegmentHas, Lent
  <1>5. CASE Broadcast(v)
    <2>1. /\ pc[v] \in {"popped", "queued", "queued404"} /\ pc'[v] = AfterBroadcast(pc[v])
          /\ UNCHANGED <<hdr, body, path>>
      BY <1>1, <1>5 DEF Broadcast, Broadcasting
    <2>2. Served(v)' <=> Served(v)
      BY <1>5 DEF Broadcast, Served, Source
    <2>3. QED
      BY <1>2, <2>1, <2>2 DEF AfterBroadcast, ClientSees, SegmentHas, Lent
  <1>6. CASE SendRequest(v)
    <2>1. /\ pc[v] = "request" /\ pc'[v] = "filelen" /\ UNCHANGED <<hdr, body, seg, sem>>
      BY <1>1, <1>6 DEF SendRequest, Goto
    <2>2. sem[seg[v]] = FreshSems
      BY <2>1 DEF Leases, Prepared
    <2>3. SegmentHas(v)'
      BY <2>1, <2>2 DEF SegmentHas, FreshSems
    <2>4. QED
      BY <1>2, <2>1, <2>3 DEF ClientSees
  <1>7. CASE QueueMemory(v)
    <2>1. /\ pc[v] \in {"finish", "finish404"} /\ pc'[v] = AfterQueue(pc[v])
          /\ UNCHANGED <<hdr, body, path, transferred>>
      BY <1>1, <1>7 DEF QueueMemory
    <2>2. Served(v)' <=> Served(v)
      BY <2>1 DEF Served, Source
    <2>3. QED
      BY <1>2, <2>1, <2>2 DEF AfterQueue, ClientSees, SegmentHas, Lent, Source
  <1>8. CASE SendNotFound(v)
    <2>1. pc[v] = "header404" /\ pc'[v] = "idle" /\ body' = body
      BY <1>1, <1>8 DEF SendNotFound, Goto
    <2>2. body'[v] = <<>>
      BY <2>1 DEF ClientSees, Silent
    <2>3. QED
      BY <2>1, <2>2 DEF ClientSees, SegmentHas, Lent
  <1>9. QED
    BY <1>3, <1>4, <1>5, <1>6, <1>7, <1>8
    DEF StepOf, WorkerStep, Lent, AwaitFileLen, SendHeader, LoopTest, AwaitChunk, SendChunk,
        PostCache, Goto

\* Only a chunk that is sent changes how far the two are apart.
LEMMA WorkerExact ==
  ASSUME WholeSends, TypeOK, NEW v \in Workers, NEW d \in Daemons, StepOf(v), Partner(v, d),
         Copying(d), ClientSees(v), SegmentHas(v), Exact(v, d)
  PROVE  Exact(v, d)'
  <1> DEFINE s == seg[v]
  <1>1. Lent(v) /\ Turn(v, d)
    BY PartnersLend DEF Partner, Talk, Copying
  <1>2. /\ s \in Segments /\ sem[s] \in Semaphores /\ sem[s].proxy \in Nat
        /\ sem[s].cache \in Nat
    BY <1>1, PairTypes
  <1>3. path'[v] = path[v] /\ seg'[v] = s /\ shm' = shm
    BY <1>1, LentSteps
       DEF AwaitFileLen, SendHeader, LoopTest, AwaitChunk, SendChunk, PostCache, Goto
  <1>4. dpc'[d] = dpc[d] /\ bytes_read'[d] = bytes_read[d]
    BY WorkerFrame DEF AroundWorker, daemonVars
  <1>5. /\ pc \in [Workers -> ProxyStates] /\ sem \in [Segments -> Semaphores]
        /\ transferred \in [Workers -> 0..(SizeMod - 1)]
    BY DEF TypeOK, WorkersTypeOK, SegmentsTypeOK
  <1>6. ASSUME Sent(v)' = Sent(v), Filled(v, d)' <=> Filled(v, d) PROVE Exact(v, d)'
    <2>1. Loaded(v)' <=> Loaded(v)
      BY <1>3, <1>6 DEF Loaded, Source
    <2>2. QED
      BY <1>3, <1>4, <1>6, <2>1 DEF Exact
  <1> HIDE DEF s
  <1>7. CASE AwaitFileLen(v)
    <2>1. /\ pc[v] = "filelen" /\ pc'[v] \in {"header", "finish404"} /\ transferred' = transferred
          /\ sem'[s] = [sem[s] EXCEPT !.filelen = @ - 1]
      BY <1>2, <1>5, <1>7 DEF AwaitFileLen, s
    <2>2. sem'[s].proxy = sem[s].proxy
      BY <1>2, <2>1 DEF Semaphores
    <2>3. Filled(v, d)' <=> Filled(v, d)
      BY <1>3, <1>4, <2>1, <2>2 DEF Filled, s
    <2>4. pc'[v] = "header"
      BY <2>1, <1>7, WorkerTalks, SendAssumption DEF WholeSends, NoFailure, Partner, Talk, Lent
    <2>5. Sent(v)' = Sent(v)
      BY <2>1, <2>4 DEF Sent
    <2>6. QED
      BY <1>6, <2>3, <2>5
  <1>8. CASE SendHeader(v)
    <2>1. pc[v] = "header" /\ pc'[v] = "loop" /\ sem' = sem /\ transferred'[v] = 0
      BY <1>5, <1>8 DEF SendHeader, Goto
    <2>2. QED
      BY <1>3, <1>4, <1>6, <2>1 DEF Filled, Sent, s
  <1>9. CASE LoopTest(v)
    <2>1. /\ pc[v] = "loop" /\ pc'[v] \in {"proxysem", "finish"}
          /\ sem' = sem /\ transferred' = transferred
      BY <1>5, <1>9 DEF LoopTest
    <2>2. QED
      BY <1>3, <1>4, <1>6, <2>1 DEF Filled, Sent, s
  <1>10. CASE AwaitChunk(v)
    <2>1. /\ pc[v] = "proxysem" /\ pc'[v] = "send" /\ transferred' = transferred
          /\ sem[s].proxy > 0
      BY <1>5, <1>10 DEF AwaitChunk, Goto, s
    <2>2. Filled(v, d) /\ Filled(v, d)'
      BY <1>1, <1>2, <2>1 DEF Filled, Turn, s
    <2>3. Sent(v)' = Sent(v)
      BY <2>1 DEF Sent
    <2>4. QED
      BY <1>6, <2>2, <2>3
  <1>11. CASE SendChunk(v)
    <2> DEFINE n == shm[seg[v]].read_len
    <2>1. /\ Sent(v) = transferred[v] /\ pc'[v] = "post" /\ transferred'[v] = transferred[v] + n
          /\ sem' = sem
      BY <1>5, <1>11, ChunkAppended
    <2>2. pc[v] = "send"
      BY <1>11 DEF SendChunk
    <2>3. dpc[d] = "cachesem" /\ sem[s].proxy = 0
      BY <1>1, <2>2 DEF Turn, s
    <2>4. bytes_read[d] = transferred[v] + n
      BY <2>1, <2>2 DEF Exact, Filled
    <2> HIDE DEF n
    <2>5. ~Filled(v, d)' /\ Sent(v)' = transferred[v] + n
      BY <1>3, <1>4, <2>1, <2>3 DEF Filled, Sent, s
    <2>6. QED
      BY <1>4, <2>4, <2>5 DEF Exact
  <1>12. CASE PostCache(v)
    <2>1. /\ pc[v] = "post" /\ pc'[v] = "loop" /\ transferred' = transferred
          /\ sem'[s] = [sem[s] EXCEPT !.cache = @ + 1]
      BY <1>2, <1>5, <1>12 DEF PostCache, Goto, s
    <2>2. sem'[s].proxy = sem[s].proxy
      BY <1>2, <2>1 DEF Semaphores
    <2>3. QED
      BY <1>3, <1>4, <1>6, <2>1, <2>2 DEF Filled, Sent, s
  <1>13. QED
    BY <1>1, <1>7, <1>8, <1>9, <1>10, <1>11, <1>12, LentSteps

\* Writing over the start of the data leaves what was written there.
LEMMA StartOverwritten ==
  ASSUME NEW t \in Seq(Byte), NEW s \in Seq(Byte)
  PROVE  SubSeq(Overwrite(t, s), 1, Len(s)) = s
  <1> DEFINE u == SubSeq(t, Len(s) + 1, Len(t))
  <1>1. u \in Seq(Byte) /\ Overwrite(t, s) = s \o u
    BY DEF Overwrite
  <1> HIDE DEF u
  <1>2. /\ s \o u \in Seq(Byte) /\ Len(s \o u) = Len(s) + Len(u)
        /\ \A i \in 1..Len(s) : (s \o u)[i] = s[i]
    BY <1>1, ConcatProperties
  <1>3. Len(s) \in Nat /\ Len(s) <= Len(s \o u)
    BY <1>1, <1>2
  <1>4. /\ SubSeq(s \o u, 1, Len(s)) \in Seq(Byte)
        /\ Len(SubSeq(s \o u, 1, Len(s))) = Len(s)
        /\ \A i \in 1..Len(s) : SubSeq(s \o u, 1, Len(s))[i] = (s \o u)[i]
    BY <1>2, <1>3
  <1>5. SubSeq(s \o u, 1, Len(s)) = s
    BY <1>2, <1>4, SeqEqual
  <1>6. QED
    BY <1>1, <1>5

\* The daemon's own steps keep to the file of its partner.
LEMMA DaemonDelivers ==
  ASSUME TypeOK, NEW w \in Workers, NEW d \in Daemons, DaemonStep(d), Partner(w, d),
         ~ReadFails(d), SegmentHas(w), Copying(d) => Exact(w, d)
  PROVE  SegmentHas(w)' /\ (Copying(d)' => Exact(w, d)')
  <1> DEFINE s == seg[w]
  <1>1. /\ Lent(w) /\ req[d].path = path[w] /\ req[d].seg = s /\ ~Receive(d)
        /\ Filsize(d) = Len(Source(w))
    BY PartnersLend DEF Receive, DGoto, Serving, Filsize, Source
  <1>2. /\ s \in Segments /\ transferred[w] \in Nat /\ bytes_read[d] \in Nat
        /\ sem[s] \in Semaphores /\ shm[s] \in Shared /\ shm[s].read_len \in Nat
        /\ sem[s].filelen \in Nat /\ sem[s].proxy \in Nat /\ sem[s].cache \in Nat
        /\ shm[s].data \in Seq(Byte)
    BY <1>1, PairTypes, ServedTypes
  <1>3. /\ pc'[w] = pc[w] /\ path'[w] = path[w] /\ seg'[w] = s /\ transferred'[w] = transferred[w]
        /\ Source(w)' = Source(w) /\ Sent(w)' = Sent(w) /\ Lent(w)'
    BY <1>1, DaemonFrame DEF AroundDaemon, workerVars, Source, Sent, Lent
  <1>4. /\ dpc \in [Daemons -> DaemonStates] /\ bytes_read \in [Daemons -> Nat]
        /\ sem \in [Segments -> Semaphores] /\ shm \in [Segments -> Shared]
    BY DEF TypeOK, DaemonsTypeOK, SegmentsTypeOK
  <1>5. ASSUME shm'[s] = shm[s] PROVE (Loaded(w)' <=> Loaded(w)) /\ (Told(w)' <=> Told(w))
    <2>1. Loaded(w)' <=> Loaded(w)
      BY <1>3, <1>5 DEF Loaded
    <2>2. Told(w)' <=> Told(w)
      BY <1>3, <1>5 DEF Told
    <2>3. QED
      BY <2>1, <2>2
  <1>6. Copying(d) => Turn(w, d) /\ Progress(w, d) /\ path[w] \in Cached
    BY <1>1 DEF Partner, Talk, Copying
  <1> HIDE DEF s
  <1>7. CASE Reply(d)
    <2>1. dpc[d] = "reply" /\ dpc'[d] = "postlen" /\ sem' = sem
      BY <1>4, <1>7 DEF Reply, DGoto
    <2>2. pc[w] = "filelen" /\ sem[s] = FreshSems
      BY <2>1 DEF Partner, Talk, s
    <2>3. SegmentHas(w)'
      BY <1>3, <2>1, <2>2 DEF SegmentHas, FreshSems, s
    <2>4. QED
      BY <2>1, <2>3 DEF Copying
  <1>8. CASE PostFileLen(d)
    <2>1. /\ dpc[d] = "postlen" /\ shm' = shm /\ bytes_read'[d] = 0
          /\ dpc'[d] \in {"cachesem", "receive"}
          /\ sem'[s] = [sem[s] EXCEPT !.filelen = @ + 1]
      BY <1>1, <1>2, <1>4, <1>8 DEF PostFileLen, DGoto, NextCopy
    <2>2. pc[w] = "filelen" /\ sem[s] = FreshSems /\ Told(w)
      BY <1>1, <2>1 DEF Partner, Talk, Answered, Told, s
    <2>3. sem'[s].proxy = 0
      BY <2>1, <2>2 DEF FreshSems
    <2>4. SegmentHas(w)'
      BY <1>3, <1>5, <2>1, <2>2, <2>3 DEF SegmentHas, s
    <2>5. Copying(d)' => Exact(w, d)'
      BY <1>3, <2>1, <2>2, <2>3 DEF Copying, Exact, Filled, Sent, s
    <2>6. QED
      BY <2>4, <2>5
  <1>9. CASE AwaitCache(d)
    <2>1. /\ dpc[d] = "cachesem" /\ dpc'[d] = "copy" /\ shm' = shm /\ bytes_read' = bytes_read
          /\ sem[s].cache > 0 /\ sem'[s] = [sem[s] EXCEPT !.cache = @ - 1]
      BY <1>1, <1>2, <1>4, <1>9 DEF AwaitCache, DGoto
    <2>2. sem'[s].proxy = sem[s].proxy /\ sem'[s].filelen = sem[s].filelen
      BY <1>2, <2>1 DEF Semaphores
    <2>3. SegmentHas(w)'
      BY <1>3, <1>5, <2>1, <2>2 DEF SegmentHas, Lent, s
    <2>4. Filled(w, d)' <=> Filled(w, d)
      BY <1>3, <2>1, <2>2 DEF Filled, s
    <2>5. Exact(w, d)'
      BY <1>3, <1>5, <2>1, <2>4 DEF Exact, Copying, s
    <2>6. QED
      BY <2>3, <2>5
  <1>10. CASE Copy(d)
    <2> DEFINE n == Len(Chunk(d))
               b == bytes_read[d]
    <2>1. /\ dpc[d] = "copy" /\ dpc'[d] = "postproxy" /\ sem' = sem /\ bytes_read'[d] = b + n
          /\ shm'[s] = [shm[s] EXCEPT !.read_len = n, !.data = Overwrite(shm[s].data, Chunk(d))]
      BY <1>1, <1>2, <1>4, <1>10 DEF Copy, DGoto
    <2>2. /\ shm'[s].read_len = n /\ shm'[s].data = Overwrite(shm[s].data, Chunk(d))
          /\ shm'[s].status = shm[s].status /\ shm'[s].filesize = shm[s].filesize
      BY <1>2, <2>1 DEF Shared
    <2>3. path[w] \in Cached /\ b < Filsize(d) /\ pc[w] \notin {"send", "post"}
          /\ sem[s].proxy = 0
      BY <1>6, <2>1 DEF Copying, Progress, Turn, s
    <2>4. b = Sent(w)
      BY <2>1, <2>3 DEF Copying, Exact, Filled, s
    <2>5. n \in Nat \ {0} /\ b + n <= Filsize(d) /\ Chunk(d) \in Seq(Byte)
      BY <1>1, <2>3, ChunkLength, ChunkType DEF TypeOK
    <2>6. SubSeq(shm'[s].data, 1, n) = Chunk(d)
      BY <1>2, <2>2, <2>5, StartOverwritten
    <2>7. Chunk(d) = SubSeq(Source(w), b + 1, b + n)
      BY <1>1, <2>3, ChunkLength DEF Source
    <2> HIDE DEF n, b
    <2>8. Loaded(w)'
      BY <1>1, <1>3, <2>2, <2>3, <2>4, <2>5, <2>6, <2>7 DEF Loaded, s
    <2>9. Told(w)' <=> Told(w)
      BY <1>3, <2>2 DEF Told, s
    <2>10. SegmentHas(w)'
      BY <1>3, <2>1, <2>3, <2>8, <2>9 DEF SegmentHas, Lent, s
    <2>11. Exact(w, d)'
      BY <1>3, <2>1, <2>2, <2>4, <2>8 DEF Exact, Filled, s
    <2>12. QED
      BY <2>10, <2>11
  <1>11. CASE PostProxy(d)
    <2>1. /\ dpc[d] = "postproxy" /\ dpc'[d] = NextCopy(d, bytes_read[d])
          /\ shm' = shm /\ bytes_read' = bytes_read
          /\ sem'[s] = [sem[s] EXCEPT !.proxy = @ + 1]
      BY <1>1, <1>2, <1>4, <1>11 DEF PostProxy, DGoto
    <2>2. sem'[s].filelen = sem[s].filelen /\ sem'[s].proxy = sem[s].proxy + 1
      BY <1>2, <2>1 DEF Semaphores
    <2>3. sem[s].proxy = 0 /\ pc[w] \notin {"send", "post"}
      BY <1>6, <2>1 DEF Copying, Turn, s
    <2>4. Loaded(w) /\ bytes_read[d] = Sent(w) + shm[s].read_len
      BY <2>1 DEF Copying, Exact, Filled, s
    <2>5. SegmentHas(w)'
      BY <1>3, <1>5, <2>1, <2>2, <2>3, <2>4 DEF SegmentHas, Lent, s
    <2>6. Filled(w, d)'
      BY <1>3, <2>2, <2>3 DEF Filled, s
    <2>7. Exact(w, d)'
      BY <1>3, <1>5, <2>1, <2>4, <2>6 DEF Exact, s
    <2>8. QED
      BY <2>5, <2>7
  <1>12. CASE ReadNothing(d)
    <2>1. sem' = sem /\ shm' = shm /\ ~Copying(d)'
      BY <1>4, <1>12 DEF ReadNothing, DGoto, Copying
    <2>2. QED
      BY <1>3, <1>5, <2>1 DEF SegmentHas, Lent, s
  <1>13. QED
    BY <1>1, <1>7, <1>8, <1>9, <1>10, <1>11, <1>12 DEF DaemonStep

\* Whole sends do not fail.
LEMMA WholeNoFailure == WholeSends => NoFailure
  BY DEF WholeSends, NoFailure

\* A worker's step leaves what others have and hold as it was ...
LEMMA WorkerDelivery ==
  ASSUME WholeSends, TypeOK, SegmentOwnership, Leases, Delivery, NEW v \in Workers, StepOf(v)
  PROVE  Delivery'
  <1>1. AroundWorker(v) /\ UNCHANGED <<dpc, req, bytes_read>>
    BY WorkerFrame DEF AroundWorker, daemonVars
  <1>2. ASSUME NEW w \in Workers, w # v PROVE WorkerSame(w)
    <2>1. Lent(w) => seg[w] \in Segments
      BY HeldSegment DEF TypeOK, Lent, HoldingStates
    <2>2. Lent(w) => sem'[seg[w]] = sem[seg[w]] /\ shm'[seg[w]] = shm[seg[w]]
      BY <1>1, <1>2, <2>1, OtherSegment DEF AroundWorker
    <2>3. QED
      BY <1>1, <1>2, <2>2 DEF AroundWorker, WorkerSame
  <1>3. ASSUME NEW w \in Workers PROVE ClientSees(w) /\ SegmentHas(w)
    BY DEF Delivery, ClientsSee, SegmentsHave
  <1>4. ASSUME NEW w \in Workers PROVE ClientSees(w)' /\ SegmentHas(w)'
    <2>1. CASE w = v
      BY <1>3, <2>1, WorkerDelivers, WorkerTurns
    <2>2. CASE w # v
      BY <1>2, <1>3, <2>2, WorkerStays
    <2>3. QED
      BY <2>1, <2>2
  <1>5. CopiesExact'
    <2> SUFFICES ASSUME NEW d \in Daemons, Copying(d)'
                 PROVE  \E w \in Workers : Partner(w, d)' /\ Exact(w, d)'
      BY DEF CopiesExact
    <2>1. Copying(d)
      BY <1>1 DEF Copying
    <2>2. PICK w \in Workers : Partner(w, d) /\ Exact(w, d)
      BY <2>1 DEF Delivery, CopiesExact
    <2>3. CASE w = v
      BY <1>3, <2>1, <2>2, <2>3, WholeNoFailure, WorkerTalks, WorkerExact
    <2>4. CASE w # v
      <3>1. Lent(w) /\ pc[w] # "cond_wait"
        BY <2>2, PartnersLend DEF Lent
      <3>2. PairSame(w, d)
        BY <1>1, <1>2, <2>4, <3>1 DEF WorkerSame, PairSame
      <3>3. QED
        BY <2>2, <3>2, PartnerStays, PairStays
    <2>5. QED
      BY <2>3, <2>4
  <1>6. QED
    BY <1>4, <1>5 DEF Delivery, ClientsSee, SegmentsHave

\* ... and a daemon's step what the clients of others than its partner have.
LEMMA ReceiveDelivery ==
  ASSUME TypeOK, Delivery, NEW d \in Daemons, Receive(d)
  PROVE  Delivery'
  <1>1. /\ UNCHANGED <<pc, path, seg, transferred, hdr, body, sem, shm, bytes_read>>
        /\ dpc'[d] = "reply"
        /\ \A e \in Daemons \ {d} : req'[e] = req[e] /\ dpc'[e] = dpc[e]
    BY DEF Receive, DGoto, TypeOK, DaemonsTypeOK, workerVars
  <1>2. ASSUME NEW w \in Workers PROVE ClientSees(w)' /\ SegmentHas(w)'
    <2>1. WorkerSame(w)
      BY <1>1 DEF WorkerSame
    <2>2. QED
      BY <2>1, WorkerStays DEF Delivery, ClientsSee, SegmentsHave
  <1>3. CopiesExact'
    <2> SUFFICES ASSUME NEW e \in Daemons, Copying(e)'
                 PROVE  \E w \in Workers : Partner(w, e)' /\ Exact(w, e)'
      BY DEF CopiesExact
    <2>1. e # d /\ Copying(e)
      BY <1>1 DEF Copying
    <2>2. PICK w \in Workers : Partner(w, e) /\ Exact(w, e)
      BY <2>1 DEF Delivery, CopiesExact
    <2>3. PairSame(w, e)
      BY <1>1, <2>1 DEF PairSame
    <2>4. QED
      BY <2>2, <2>3, PartnerStays, PairStays
  <1>4. QED
    BY <1>2, <1>3 DEF Delivery, ClientsSee, SegmentsHave

LEMMA ServeDelivery ==
  ASSUME TypeOK, SegmentOwnership, Leases, Delivery,
         NEW d \in Daemons, DaemonStep(d), ~Receive(d), ~ReadFails(d)
  PROVE  Delivery'
  <1>1. AroundDaemon(d) /\ Serving(d)
    BY DaemonFrame
    DEF DaemonStep, Reply, PostFileLen, AwaitCache, Copy, ReadNothing, PostProxy, DGoto, Serving
  <1>2. UNCHANGED <<pc, path, seg, transferred, hdr, body>>
    BY <1>1 DEF AroundDaemon, workerVars
  <1>3. PICK v \in Workers : Partner(v, d) /\ (Copying(d) => Exact(v, d))
    <2>1. CASE Copying(d)
      BY <2>1 DEF Delivery, CopiesExact
    <2>2. CASE ~Copying(d)
      BY <1>1, <2>2 DEF Leases, ServersTalk
    <2>3. QED
      BY <2>1, <2>2
  <1>4. req' = req /\ req[d].seg = seg[v] /\ (Serving(d)' => Partner(v, d)')
    BY <1>3, DaemonTalks, PartnersLend
  <1>5. ASSUME NEW w \in Workers PROVE ClientSees(w) /\ SegmentHas(w)
    BY DEF Delivery, ClientsSee, SegmentsHave
  <1>6. SegmentHas(v)' /\ (Copying(d)' => Exact(v, d)')
    BY <1>3, <1>5, DaemonDelivers
  <1>7. ASSUME NEW w \in Workers, w # v, Lent(w)
        PROVE  sem'[seg[w]] = sem[seg[w]] /\ shm'[seg[w]] = shm[seg[w]]
    <2>1. seg[w] \in Segments
      BY <1>7, HeldSegment DEF TypeOK, Lent, HoldingStates
    <2>2. QED
      BY <1>1, <1>4, <1>7, <2>1, OtherSegment DEF AroundDaemon
  <1>8. ASSUME NEW w \in Workers PROVE ClientSees(w)'
    BY <1>2, <1>5 DEF ClientSees, Silent, Served, Source
  <1>9. ASSUME NEW w \in Workers, w # v PROVE SegmentHas(w)'
    <2>1. WorkerSame(w)
      BY <1>2, <1>7, <1>9 DEF WorkerSame
    <2>2. QED
      BY <1>5, <2>1, WorkerStays
  <1>10. CopiesExact'
    <2> SUFFICES ASSUME NEW e \in Daemons, Copying(e)'
                 PROVE  \E w \in Workers : Partner(w, e)' /\ Exact(w, e)'
      BY DEF CopiesExact
    <2>1. CASE e = d
      BY <1>4, <1>6, <2>1 DEF Copying, Serving
    <2>2. CASE e # d
      <3>1. Copying(e)
        BY <1>1, <2>2 DEF AroundDaemon, Copying
      <3>2. PICK w \in Workers : Partner(w, e) /\ Exact(w, e)
        BY <3>1 DEF Delivery, CopiesExact
      <3>3. Lent(w) /\ Serving(e) /\ req[e].seg = seg[w]
        BY <3>2, PartnersLend
      <3>4. w # v
        BY <1>1, <1>4, <2>2, <3>3 DEF Leases, ServersDiffer
      <3>5. PairSame(w, e)
        BY <1>1, <1>2, <1>7, <2>2, <3>3, <3>4 DEF PairSame, AroundDaemon
      <3>6. QED
        BY <3>2, <3>5, PartnerStays, PairStays
    <2>3. QED
      BY <2>1, <2>2
  <1>11. QED
    BY <1>6, <1>8, <1>9, <1>10 DEF Delivery, ClientsSee, SegmentsHave

\* A segment that is no longer filled was not to be sent.
LEMMA CrashDelivery ==
  ASSUME TypeOK, SegmentOwnership, Leases, Delivery, NEW d \in Daemons, ReadFails(d)
  PROVE  Delivery'
  <1>1. /\ UNCHANGED <<pc, path, seg, transferred, hdr, body, sem>>
        /\ \A e \in Daemons : ~Copying(e)'
        /\ dpc[d] = "copy" /\ shm' = [shm EXCEPT ![req[d].seg].read_len = ToSize(-1)]
    BY DEF ReadFails, workerVars, Copying
  <1>2. PICK v \in Workers : Partner(v, d)
    BY <1>1 DEF Leases, ServersTalk, Serving
  <1>3. req[d].seg = seg[v] /\ Turn(v, d)
    BY <1>1, <1>2, PartnersLend DEF Partner, Talk
  <1>4. pc[v] \notin {"send", "post"} /\ sem[seg[v]].proxy = 0
    <2>1. Lent(v)
      BY <1>2, PartnersLend
    <2>2. QED
      BY <1>1, <1>3 DEF Turn
  <1>5. shm \in [Segments -> Shared]
    BY DEF TypeOK, SegmentsTypeOK
  <1>6. \A g \in Segments : /\ shm'[g].status = shm[g].status
                            /\ shm'[g].filesize = shm[g].filesize
                            /\ g # seg[v] => shm'[g] = shm[g]
    BY <1>1, <1>3, <1>5 DEF Shared
  <1>7. ASSUME NEW w \in Workers PROVE ClientSees(w)'
    BY <1>1 DEF Delivery, ClientsSee, ClientSees, Silent, Served, Source
  <1>8. ASSUME NEW w \in Workers PROVE SegmentHas(w)'
    <2>1. SegmentHas(w) /\ (Lent(w)' <=> Lent(w))
      BY <1>1 DEF Delivery, SegmentsHave, Lent
    <2>2. Lent(w) => seg[w] \in Segments
      BY HeldSegment DEF TypeOK, Lent, HoldingStates
    <2>3. Lent(w) => (Told(w)' <=> Told(w))
      BY <1>1, <1>6, <2>2 DEF Told, Source
    <2>4. CASE w = v
      BY <1>1, <1>4, <2>1, <2>3, <2>4 DEF SegmentHas, Lent
    <2>5. CASE w # v
      <3>1. Lent(w) => (Loaded(w)' <=> Loaded(w))
        <4>1. Lent(w) => shm'[seg[w]] = shm[seg[w]]
          <5>1. Lent(w) => seg[w] # seg[v]
            BY <2>2, <2>5, OtherSegment
          <5>2. QED
            BY <1>6, <2>2, <5>1
        <4>2. QED
          BY <1>1, <4>1 DEF Loaded, Source, Sent
      <3>2. QED
        BY <1>1, <2>1, <2>3, <3>1 DEF SegmentHas, Lent
    <2>6. QED
      BY <2>4, <2>5
  <1>9. CopiesExact'
    BY <1>1 DEF CopiesExact
  <1>10. QED
    BY <1>7, <1>8, <1>9 DEF Delivery, ClientsSee, SegmentsHave

LEMMA InitDelivery == Init => Delivery
  BY DEF Init, Delivery, ClientsSee, ClientSees, SegmentsHave, SegmentHas, CopiesExact,
         Quiet, Refusing, Copied, Lent, Copying

LEMMA NextDelivery ==
  WholeSends /\ TypeOK /\ SegmentOwnership /\ Leases /\ Delivery /\ [Next]_vars => Delivery'
  <1> SUFFICES ASSUME WholeSends, TypeOK, SegmentOwnership, Leases, Delivery, [Next]_vars
               PROVE  Delivery'
    OBVIOUS
  <1>1. CASE \E v \in Workers : StepOf(v)
    BY <1>1, WorkerDelivery
  <1>2. CASE \E d \in Daemons : DaemonStep(d)
    BY <1>2, ReceiveDelivery, ServeDelivery, CrashDelivery
  <1>3. CASE UNCHANGED vars
    <2>1. \A w \in Workers : WorkerSame(w)
      BY <1>3 DEF vars, WorkerSame
    <2>2. /\ \A w \in Workers, d \in Daemons : PairSame(w, d)
          /\ \A d \in Daemons : Copying(d)' <=> Copying(d)
      BY <1>3 DEF vars, PairSame, Copying
    <2>3. ClientsSee' /\ SegmentsHave'
      BY <2>1, WorkerStays DEF Delivery, ClientsSee, SegmentsHave
    <2>4. CopiesExact'
      <3> SUFFICES ASSUME NEW d \in Daemons, Copying(d)'
                   PROVE  \E w \in Workers : Partner(w, d)' /\ Exact(w, d)'
        BY DEF CopiesExact
      <3>1. PICK w \in Workers : Partner(w, d) /\ Exact(w, d)
        BY <2>2 DEF Delivery, CopiesExact
      <3>2. QED
        BY <2>2, <3>1, PartnerStays, PairStays
    <2>5. QED
      BY <2>3, <2>4 DEF Delivery
  <1>4. QED
    BY <1>1, <1>2, <1>3 DEF Next, StepOf

LEMMA DeliveryHolds == ASSUME WholeSends PROVE Spec => []Delivery
  <1>1. Init => Delivery
    BY InitDelivery
  <1>2. TypeOK /\ SegmentOwnership /\ Leases /\ Delivery /\ [Next]_vars => Delivery'
    BY NextDelivery
  <1>3. Spec => []Leases
    BY WholeNoFailure, LeasesHold
  <1>4. QED
    BY <1>1, <1>2, <1>3, TypeCorrect, SegmentsOwned, PTL DEF Spec

stages == [w \in Workers |-> Stage(w)]

\* Nothing that a client sees: its worker has the header it had, and does not
\* start or end.
LEMMA Unseen ==
  ASSUME \A w \in Workers : pc'[w] = "idle" <=> pc[w] = "idle",
         UNCHANGED <<path, hdr, body>>
  PROVE  UNCHANGED <<stages, path, hdr, body>>
  BY DEF stages, Stage

\* A header is not the mark that there is none.
LEMMA HeaderSeen ==
  ASSUME NEW n \in Nat
  PROVE  <<GF_OK, n>> # NoHeader /\ <<GF_FILE_NOT_FOUND, n>> # NoHeader
  BY HeaderAssumption DEF GF_OK, GF_FILE_NOT_FOUND

\* The steps in which a worker is called, sends, or returns ...
LEMMA AskImplements ==
  ASSUME TypeOK, NEW v \in Workers, NEW p \in Paths, Ask(v, p)
  PROVE  Service!Ask(v, p)
  <1>1. pc \in [Workers -> ProxyStates]
    BY DEF TypeOK, WorkersTypeOK
  <1>2. /\ stages[v] = "idle" /\ stages' = [stages EXCEPT ![v] = "asked"]
        /\ path' = [path EXCEPT ![v] = p] /\ hdr' = [hdr EXCEPT ![v] = NoHeader]
        /\ body' = [body EXCEPT ![v] = <<>>]
    <2>1. pc[v] = "idle" /\ pc' = [pc EXCEPT ![v] = "get"] /\ hdr' = [hdr EXCEPT ![v] = NoHeader]
      BY DEF Ask, Goto
    <2>2. Stage(v) = "idle" /\ Stage(v)' = "asked"
      BY <1>1, <2>1 DEF Stage, TypeOK, WorkersTypeOK
    <2>3. \A w \in Workers \ {v} : Stage(w)' = Stage(w)
      BY <1>1, <2>1 DEF Stage, TypeOK, WorkersTypeOK
    <2>4. QED
      BY <2>2, <2>3 DEF Ask, stages
  <1>3. QED
    BY <1>2 DEF Service!Ask, stages

LEMMA HeaderImplements ==
  ASSUME TypeOK, Delivery, NEW v \in Workers, SendHeader(v)
  PROVE  Service!AnswerOK(v)
  <1>1. pc \in [Workers -> ProxyStates] /\ hdr \in [Workers -> Header]
    BY DEF TypeOK, WorkersTypeOK
  <1>2. /\ pc[v] = "header" /\ pc' = [pc EXCEPT ![v] = "loop"]
        /\ hdr' = [hdr EXCEPT ![v] = <<GF_OK, shm[seg[v]].filesize>>]
        /\ UNCHANGED <<path, body>>
    BY DEF SendHeader, Goto
  <1>3. ClientSees(v) /\ SegmentHas(v)
    BY DEF Delivery, ClientsSee, SegmentsHave
  <1>4. hdr[v] = NoHeader /\ path[v] \in Cached /\ shm[seg[v]].filesize = Len(Source(v))
    BY <1>2, <1>3 DEF ClientSees, SegmentHas, Quiet, Silent, Told
  <1>5. Len(Source(v)) \in Nat
    BY <1>4, ServedTypes
  <1>6. hdr' = [hdr EXCEPT ![v] = <<GF_OK, Len(File[path[v]])>>] /\ hdr'[v] # NoHeader
    BY <1>1, <1>2, <1>4, <1>5, HeaderSeen DEF Source
  <1>7. Stage(v) = "asked" /\ Stage(v)' = "sending"
    BY <1>1, <1>2, <1>4, <1>6 DEF Stage
  <1>8. \A w \in Workers \ {v} : Stage(w)' = Stage(w)
    BY <1>1, <1>2 DEF Stage
  <1>9. stages[v] = "asked" /\ stages' = [stages EXCEPT ![v] = "sending"]
    BY <1>7, <1>8 DEF stages
  <1>10. QED
    BY <1>2, <1>4, <1>6, <1>9 DEF Service!AnswerOK, stages

LEMMA NotFoundImplements ==
  ASSUME TypeOK, Delivery, NEW v \in Workers, SendNotFound(v)
  PROVE  Service!AnswerNotFound(v)
  <1>1. pc \in [Workers -> ProxyStates] /\ hdr \in [Workers -> Header]
    BY DEF TypeOK, WorkersTypeOK
  <1>2. /\ pc[v] = "header404" /\ pc' = [pc EXCEPT ![v] = "idle"]
        /\ hdr' = [hdr EXCEPT ![v] = <<GF_FILE_NOT_FOUND, 0>>]
        /\ UNCHANGED <<path, body>>
    BY DEF SendNotFound, Goto
  <1>3. hdr[v] = NoHeader /\ path[v] \notin Cached
    BY <1>2 DEF Delivery, ClientsSee, ClientSees, Refusing, Silent
  <1>4. Stage(v) = "asked" /\ Stage(v)' = "idle"
    BY <1>1, <1>2, <1>3 DEF Stage
  <1>5. \A w \in Workers \ {v} : Stage(w)' = Stage(w)
    BY <1>1, <1>2 DEF Stage
  <1>6. stages[v] = "asked" /\ stages' = [stages EXCEPT ![v] = "idle"]
    BY <1>4, <1>5 DEF stages
  <1>7. QED
    BY <1>2, <1>3, <1>6 DEF Service!AnswerNotFound, stages

LEMMA ChunkImplements ==
  ASSUME WholeSends, TypeOK, Delivery, NEW v \in Workers, SendChunk(v)
  PROVE  Service!Deliver(v)
  <1> DEFINE n == shm[seg[v]].read_len
             t == transferred[v]
  <1>1. ClientSees(v) /\ SegmentHas(v)
    BY DEF Delivery, ClientsSee, SegmentsHave
  <1>2. /\ Loaded(v) /\ n \in Nat \ {0}
        /\ pc' = [pc EXCEPT ![v] = "post"] /\ UNCHANGED <<path, hdr>>
        /\ t + n <= Len(Source(v)) /\ Len(body[v]) = t
        /\ body' = [body EXCEPT ![v] = SubSeq(Source(v), 1, t + n)]
    BY <1>1, ChunkAppended
  <1>3. pc[v] = "send" /\ Served(v)
    BY <1>1 DEF SendChunk, ClientSees
  <1>4. t \in Nat /\ Len(Source(v)) \in Nat
    BY <1>3, ServedTypes DEF Served
  <1>5. hdr[v] # NoHeader
    BY <1>3, <1>4, HeaderSeen DEF Served
  <1>6. stages[v] = "sending" /\ stages' = stages
    <2>1. pc \in [Workers -> ProxyStates]
      BY DEF TypeOK, WorkersTypeOK
    <2>2. \A w \in Workers : Stage(w)' = Stage(w)
      BY <1>2, <1>3, <2>1 DEF Stage
    <2>3. QED
      BY <1>3, <1>5, <2>2 DEF stages, Stage
  <1> HIDE DEF n, t
  <1>7. t + n \in (Len(body[v]) + 1)..Len(File[path[v]])
    BY <1>2, <1>4 DEF Source
  <1>8. QED
    BY <1>2, <1>6, <1>7 DEF Service!Deliver, stages, Source

LEMMA BroadcastImplements ==
  ASSUME TypeOK, Delivery, NEW v \in Workers, Broadcast(v)
  PROVE  Service!Return(v) \/ UNCHANGED <<stages, path, hdr, body>>
  <1>1. pc \in [Workers -> ProxyStates]
    BY DEF TypeOK, WorkersTypeOK
  <1>2. /\ pc[v] \in {"popped", "queued", "queued404"}
        /\ pc'[v] = AfterBroadcast(pc[v])
        /\ \A w \in Workers \ {v} : pc'[w] = "idle" <=> pc[w] = "idle"
        /\ UNCHANGED <<path, hdr, body>>
    BY DEF Broadcast, Broadcasting
  <1>3. CASE pc[v] = "queued"
    <2>1. Served(v) /\ transferred[v] = Len(Source(v))
      BY <1>3 DEF Delivery, ClientsSee, ClientSees, Copied
    <2>2. Source(v) \in Seq(Byte) /\ Len(Source(v)) \in Nat
      BY <2>1, ServedTypes DEF Served
    <2>3. body[v] = File[path[v]]
      BY <2>1, <2>2, SubSeqFull DEF Served, Source
    <2>4. hdr[v] # NoHeader
      BY <2>1, <2>2, HeaderSeen DEF Served
    <2>5. Stage(v) = "sending" /\ Stage(v)' = "idle"
      BY <1>2, <1>3, <2>4 DEF Stage, AfterBroadcast
    <2>6. \A w \in Workers \ {v} : Stage(w)' = Stage(w)
      BY <1>2 DEF Stage
    <2>7. stages[v] = "sending" /\ stages' = [stages EXCEPT ![v] = "idle"]
      BY <2>5, <2>6 DEF stages
    <2>8. QED
      BY <1>2, <2>3, <2>7 DEF Service!Return, stages
  <1>4. CASE pc[v] # "queued"
    BY <1>2, <1>4, Unseen DEF AfterBroadcast
  <1>5. QED
    BY <1>3, <1>4

\* ... are steps of the service, and the others are not seen.
LEMMA StepImplements ==
  ASSUME WholeSends, TypeOK, Delivery, [Next]_vars
  PROVE  [Service!Next]_<<stages, path, hdr, body>>
  <1>1. pc \in [Workers -> ProxyStates]
    BY DEF TypeOK, WorkersTypeOK
  <1>2. ASSUME NEW v \in Workers,
               \/ SpuriousWakeup(v) \/ AwaitSegment(v) \/ GetSegment(v) \/ InitSems(v)
               \/ SendRequest(v) \/ AwaitFileLen(v) \/ LoopTest(v) \/ AwaitChunk(v)
               \/ PostCache(v) \/ QueueMemory(v)
        PROVE  UNCHANGED <<stages, path, hdr, body>>
    <2>1. UNCHANGED <<path, hdr, body>>
      BY <1>2 DEF SpuriousWakeup, AwaitSegment, GetSegment, InitSems, SendRequest, AwaitFileLen,
                  LoopTest, AwaitChunk, PostCache, QueueMemory
    <2>2. \A w \in Workers : pc'[w] = "idle" <=> pc[w] = "idle"
      BY <1>1, <1>2 DEF SpuriousWakeup, AwaitSegment, GetSegment, InitSems, SendRequest,
                  AwaitFileLen, LoopTest, AwaitChunk, PostCache, QueueMemory, AfterQueue, Goto
    <2>3. QED
      BY <2>1, <2>2, Unseen
  <1>3. ASSUME NEW v \in Workers, Broadcast(v)
        PROVE  [Service!Next]_<<stages, path, hdr, body>>
    BY <1>3, BroadcastImplements DEF Service!Next
  <1>4. ASSUME NEW v \in Workers,
               \/ \E p \in Paths : Ask(v, p)
               \/ SendHeader(v) \/ SendChunk(v) \/ SendNotFound(v)
        PROVE  Service!Next
    BY <1>4, AskImplements, HeaderImplements, ChunkImplements, NotFoundImplements
       DEF Service!Next
  <1>5. ASSUME NEW d \in Daemons, DaemonStep(d) PROVE UNCHANGED <<stages, path, hdr, body>>
    <2>1. UNCHANGED workerVars
      BY <1>5, DaemonFrame DEF AroundDaemon, ReadFails
    <2>2. QED
      BY <2>1, Unseen DEF workerVars
  <1>6. CASE UNCHANGED vars
    BY <1>6, Unseen DEF vars
  <1>7. QED
    BY <1>2, <1>3, <1>4, <1>5, <1>6 DEF Next, WorkerStep

\* handle_with_cache.c:78-124, simplecached.c:155-223.  While gfs_send takes
\* all it is given, the proxy, the message queue, the segments and the daemon
\* are a file service, for any numbers of threads and segments, any file and
\* any size of segment: each client gets the header and all the bytes of the
\* file it asked for, in order.
THEOREM CacheIsFileService == ASSUME WholeSends PROVE Spec => ImplementsFileService
  <1>1. Init => Service!Init
    <2>1. Init => path \in [Workers -> Paths]
      BY InitTypeOK DEF TypeOK, WorkersTypeOK
    <2>2. QED
      BY <2>1 DEF Init, Service!Init, Stage
  <1>2. TypeOK /\ Delivery /\ [Next]_vars => [Service!Next]_(Service!vars)
    BY StepImplements DEF Service!vars, stages
  <1>3. QED
    BY <1>1, <1>2, TypeCorrect, DeliveryHolds, PTL
       DEF Spec, ImplementsFileService, Service!Spec

\* gfserver.h:97-98.  The bytes that a client has are at all times the first
\* ones of its own file: only a send that is cut short or fails, as in the
\* violation of ClientGetsItsFile, gives it others.
THEOREM ClientsGetTheirFiles == ASSUME WholeSends PROVE Spec => []ClientGetsItsFile
  <1>1. TypeOK /\ Delivery => ClientGetsItsFile
    <2> SUFFICES ASSUME TypeOK, Delivery, NEW w \in Workers, body[w] # <<>>
                 PROVE  /\ path[w] \in Cached
                        /\ body[w] = SubSeq(File[path[w]], 1, Len(body[w]))
      BY DEF ClientGetsItsFile
    <2>1. Served(w)
      BY DEF Delivery, ClientsSee, ClientSees, Silent, Quiet, Refusing, Copied, TypeOK,
             WorkersTypeOK, ProxyStates
    <2>2. transferred[w] \in Nat /\ Source(w) \in Seq(Byte) /\ Len(Source(w)) \in Nat
      BY <2>1, ServedTypes DEF Served
    <2>3. Len(SubSeq(Source(w), 1, transferred[w])) = transferred[w]
      BY <2>1, <2>2 DEF Served
    <2>4. QED
      BY <2>1, <2>3 DEF Served, Source
  <1>2. QED
    BY <1>1, TypeCorrect, DeliveryHolds, PTL
=============================================================================
