# Specifications of CS6200-Operating-Systems

TLA+ modules beside the code of this repository: a file transfer and the Getfile
protocol (`pr1`), a caching proxy that talks to a cache daemon through shared
memory (`pr3`), and a distributed file service over gRPC (`pr4`). The modules
are translated from the C and C++ sources, checked by TLC on small instances,
and partly proved with TLAPS for every value of their constants. `PROJECT.json`
maps each definition to the lines it stands for and lists runs, hazards and
theorems.

## The system

| part | state it keeps | operations | hard because of |
|---|---|---|---|
| `pr3/cache` proxy workers (`handle_with_cache.c`) | FIFO of free segments, condition variable; per worker: segment, bytes transferred | take a segment, start its semaphores, send a request, await the length, send chunks, return the segment | two processes share memory with no lock but three semaphores; clients leave; more workers than segments |
| `pr3/cache` daemon (`simplecached.c`) | message queue; per worker: request, bytes read | receive, look up, answer length and status, copy chunks | a segment may be given to somebody else while it is used |
| content table (`pr1/mtgf/content.c`, `pr3/cache/simplecache.c`) | sorted array with capacity | load, grow, sort, search | boundaries; concurrent readers |
| steque (three copies of `steque.c`) | linked list, front, back, count | enqueue, push, pop, cycle, front, destroy | three fields that must agree |
| download client (`pr1/mtgf/gfclient_download.c`) | queue, count of finished requests, static counter | boss enqueues and waits, workers perform | one condition variable for two conditions; signals outside the mutex; an unprotected counter |
| Getfile server (`pr1/mtgf/gfserver_main.c`, `handler.c`) | queue, shared file descriptors | handler enqueues, workers answer | accept goes on while workers answer; clients leave; workers end |
| Getfile client library (`pr1/gflib/gfclient.c`) | status, lengths, whether the header has come | `gfc_perform` | messages cut anywhere; early close, reset |
| Getfile server library (`pr1/gflib/gfserver.c`) | current client, contexts, descriptors | accept, parse, answer, `gfs_send`, `gfs_abort` | requests cut anywhere; short sends; clients leave; limits |
| transfer (`pr1/transfer`) | one connection at a time, file offset | send the file, receive it | short sends and receives, no length on the wire |
| DFS handlers and client calls (`pr4`) | server directory, mount directories, streams | store, fetch, delete, list, stat | handlers without a lock on one directory; deadlines |
| DFS mounted client (`pr4/part2/dfs-client-p2.cpp`) | inotify queue and watch, buffer of the watcher thread, the files here and on the server | mount, read events, store or delete by the name of an event, unmount on a signal | events are merged, dropped, read in batches and handled when the file is another one; calls fail unseen |
| DFS asynchronous runner (`pr4/part2`) | completion queues | two loops around virtual methods | see "Not modelled" |
| echo, curl handler, options, logging | - | - | sequential; see "Not modelled" |

The parts interact by calls (handler and library), by one queue with a mutex and
a condition variable inside a process, by a POSIX message queue, semaphores and
shared memory between the two processes of `pr3/cache`, and by TCP or gRPC
between clients and servers.

## Modules

| module | what it models | instance |
|---|---|---|
| `FileService` | abstract: what a file server promises its clients | refined by `ShmCache` and `ServerPool` |
| `ShmCache` | proxy and daemon of `pr3/cache` | `MCShmCache`, proofs in `ShmCacheProofs` |
| `ClientPool` | boss and workers of the download client | itself, proofs in `ClientPoolProofs` |
| `ServerPool` | boss and workers of the Getfile server | `MCServerPool`, proofs in `ServerPoolProofs` |
| `ContentTable` | load, sort and search | `MCQueueAndTable`, proofs in `QueueAndTableProofs` |
| `Deque`, `Steque` | abstract sequence; linked list | `MCQueueAndTable`, proofs in `QueueAndTableProofs` |
| `GfClient` | `gfc_perform` against what gflib's server sends, and others | `MCGfClient`, proofs in `ClientPoolProofs` |
| `GfServer` | `gfserver_serve` against clients that cut, leave, reset | `MCGfServer`, proofs in `GfServerProofs` |
| `Transfer` | `transferserver` with several `transferclient`s | `MCTransfer`, proofs in `TransferProofs` |
| `Dfs` | handlers and client calls of `pr4` | `MCDfs`, proofs in `DfsProofs` |
| `DfsMount` | the mounted client of `pr4/part2` | itself, proofs in `DfsMountProofs` |

`ContentTable` and `GfClient` name their formulas `TableSpec` and `GetSpec` (and so
on) so that one module of proofs can extend them beside `Steque` and `ClientPool`.

How state and actions correspond to the code:

* **ShmCache.** `pc[w]` is where a thread is in `handle_with_cache`,
  `processResponse` or `queueMemory`; `dpc[d]` where one is in `workerRoutine` or
  `sendResponse`. Code under `shm_mutex` is one step; each semaphore operation,
  each access to a segment and each library call is a step of its own. `sem` and
  `shm` are what lies in shared memory, per segment. `size_t` arithmetic is
  modulo `SizeMod`. `gfs_send` returns the length or any of `SendErrors`; `pread`
  the next bytes of the file or any of `ReadErrors` (0, which ends the copy loop,
  or -1, which as a `size_t` is copied with and ends the daemon).
* **ClientPool, ServerPool.** Code under the mutex is one step, the signal that
  follows it another. `pthread_cond_signal` wakes any one sleeper,
  `pthread_cond_broadcast` all, and a wait may end for no reason. `counter++` of
  `localPath` is a load and a store; `raced` is history: such a store has undone
  another one. A path that is too long ends the process in the middle of
  whatever its threads do.
* **ContentTable.** `items` is the array, `lo`, `hi` the locals of each searching
  thread. `qsort` gives any order that is sorted, for equal keys in any order. A
  line is what one `fgets` gives, with or without a newline (`eol`); `StoredPath` is
  the path without the character that `content.c:36` takes out, newline or not.
  `atMost` is history: the size of the table, halved for each turn of a search.
  `simplecache.c` is the same algorithm; its `lseek` (line 95) is left out, for the
  daemon reads with `pread`.
* **Steque.** `next` is a function on nodes that holds garbage until assigned;
  `malloc` returns any free node. Calls happen in any order, as `Deque` allows.
* **GfClient, GfServer, Transfer.** A stream is cut at every place; a byte that
  matters keeps its identity, a header is a mark, a space if the server writes
  one, and the end of line. The responses of `GfClient` include `OwnResponses`,
  those of `gfserver.c`. A request is three words, and one `recv` of `GfServer` gives any
  start of it: some words, and of the next one a part (`CutTo`) that may or may
  not be a word that the server knows. In `Transfer` a send to a client that has
  left may succeed before one fails, and the local file keeps what it held.
* **Dfs.** `c[k]` is the client's side of call `k` with its locals, `h[k]` its
  handler. A file that is removed and created again is another file, as it is
  for an open stream. A stream holds `Window` chunks. A deadline passes at any
  time; the server is told of it later, or never gets the call. `listFiles` is
  one step for `opendir`, then one for each `readdir` with its `stat`, so that
  other handlers act in between; the directory may show an entry that is gone or
  one that has come since. The server cannot open the files `Unwritable`, a client
  not its `Locked` ones: what is then written is dropped, as by an `ofstream` that
  is not open. A handler may start when its client has given up.
* **DfsMount.** `queue` is the kernel's, `batch` the events of one `read` that
  the loop `while (index < len)` has not come to, `cur` the event whose call to
  the server runs, `sent` the contents that call has read. The user, inotify (a
  bounded queue that drops an event equal to its last one) and `Store` and
  `Delete` of `DFSClientNodeP2` are external. `Unmount` closes the descriptor
  while the watcher goes on, and `exit` comes later, as in the signal handler;
  what a call that is broken off leaves on the server is the old file, the new
  one, or neither. `missed` is history: names whose last change has no event any
  more.

## Runs

Every run that passes explores its whole state space. Bounds are the constants
of the `.cfg`; no state constraint cuts anything off.

| run | instance | shows |
|---|---|---|
| `ShmCache` | 2 proxy workers, 2 daemon workers, 2 segments of 2 bytes, a queue of one message; a file of two chunks and a missing one; 450 thousand states | only the owner of the current request touches a segment (`LeaseIsExclusive`); nobody writes a field while the other process reads it (`NoSegmentRace`); clients see a file service (`ImplementsFileService`); every request ends (`EveryRequestAnswered`) |
| `ShmCacheSendFails` | 2 workers for 1 segment, `gfs_send` returns -1, 0, 1 or all, `pread` also 0 or -1 | types hold, and the daemon only copies files it has (`TypeOK`); the segment is never lost or doubled (`SegmentOwnership`); no lost wakeup (`NoLostWakeup`) |
| `ShmCacheClientLeaves` | a client leaves, `gfs_send` returns 0 | **violated**: the next client gets bytes of another file (`ClientGetsItsFile`) |
| `ClientPool` | 3 workers, 3 requests of 2 paths, one of which may be too long; 870 thousand states | a request is in the queue, with one worker or done (`RequestsInOnePlace`); the boss ends last (`BossLeavesLast`); nobody sleeps for what has come (`NoNeedlessSleep`); who opens a local file that exists has a path requested twice, and the unlocked counter has lost an increment (`OwnFile`); all threads end (`Termination`) |
| `ServerPool` | 2 workers, 3 clients of which 2 may leave, a file and a missing one | a connection is with one worker at most (`EachRequestOnce`); clients see a file service (`ImplementsFileService`); each connection ends (`EveryRequestEnds`) |
| `QueueAndTable` | the queue: 3 nodes, 2 items, every sequence of calls; the table: 5 lines, one key twice, no newline at the end, capacity 2 that grows twice, 2 threads, a disk that has all files, lacks one, or lacks the one whose name is cut short; 590 thousand states | the fields describe one list (`WellLinked`, `TypeOK`), which is a sequence (`ImplementsDeque`); a line fits when it is read (`RoomForLine`); the window has the key (`KeyInWindow`) and has halved at each turn (`WindowHalves`); a search answers from the content file (`FindsListedFile`) |
| `GfClient` | gflib's own responses for a file of six bytes and an empty one; others with and without the space in the header, files announced as 4 or 0 bytes and bodies of 0 to 6, failures, no header; every cut; closed, open or reset | `bytes_received` is what the caller was given, and after a header without a space that is the file from its start (`GivenIsStart`); a file that is kept has the announced length, and so on (`KeptIsWhole`); the call returns unless the server sends too much or keeps the connection and sends too little (`Returns`) |
| `GfClientOwnServer` | gflib's own responses only | **violated**: the file that the client keeps is not the one that was sent (`KeptIsServersFile`) |
| `GfServer` | 3 clients, 2 descriptors, a right request, a wrong path and a wrong method, cut between words and inside each, one client may leave | who is turned away has the whole answer to what was received (`AnswerIsWhole`); every client has its turn (`EveryClientServed`) |
| `Transfer` | 3 clients which may all leave, a file of 3 bytes, buffer and window of 2, local files new, shorter, longer, a `read` that may fail | nothing is lost, doubled or moved between the server's file and the client's, and behind the file there is only the end of a longer old one (`FileArrives`) |
| `Dfs` | 2 clients with a call each, of every kind, one file in three versions, chunks of 2, a window of 1, a file that the server cannot open, one that a client cannot, a user who shortens his file; 305 thousand states | no byte leaves its place (`ByteInPlace`); one deletion returns OK (`DeletedOnce`); an OK is true, but for files that could not be opened (`OkStoreIsThere`, `OkFetchIsWhole`); a listing has all that stays (`ListsWhatStays`); no handler runs for ever (`HandlersEnd`) |
| `DfsMount` | 2 watched files and one with a dot, 2 new contents, a queue of 3 events read 2 at a time, failing calls, any number of restarts; 254 thousand states | no change is forgotten (`NoChangeForgotten`), and each one arrives (`ChangeArrives`), but for events that were never queued, dropped or used up by a failed call |

Why these bounds are enough to meet the hard cases: two of each kind of thread
is what a race, a double hand-out or a stolen wakeup needs; files of one and a
half chunks make the loops take a full turn, a short one and none; one segment
for two workers, one message in the queue and one chunk in the stream make every
wait happen; `SizeMod` = 16 lets the counter wrap after few steps, while file
lengths stay below it as the code's do below 2^64; a queue of three events for
three names overflows, and two contents make a file differ from what an event
meant; three requests for two paths make the race on the counter of names matter.
Bytes are named by where they come from, so that a byte of the wrong file
or from the wrong place shows. The queue and the table of a server share nothing,
so that one run moves each while the other rests.

`CHECK_DEADLOCK FALSE` stands where the system may really stop: a server that
waits for clients for ever (`ServerPool`), programs that end (`GfClient`,
`GfClientOwnServer`, `GfServer`, `Transfer`, `QueueAndTable`), calls that are made
once (`Dfs`), and `ShmCacheSendFails`, where after a -1 both processes can wait for
each other and after a failing `pread` the daemon is gone. `ShmCache`, `ClientPool` and `DfsMount` are free of deadlock
(`ClientPool` stutters when all threads have ended). `EveryRequestAnswered` is
checked where `pread` and `gfs_send` do not fail, for it is false where they do.

### Fairness

Weak fairness of each thread: the scheduler runs a thread that can run. In
`ShmCache` also strong fairness of `mq_send`, which serves the threads it has
blocked in the order in which they came. Nothing makes clients come, leave, or
waits end for no reason. In `Dfs` time passes and gRPC tells a live handler of a
dead call; in `GfServer` a client that has connected sends its request. In
`DfsMount` the watcher runs and a process that has begun to exit does so;
nothing makes the user stop, the process start, or a call succeed.
`EveryRequestAnswered` holds with a segment for each worker: a condition
variable gives no order, so that with fewer segments one worker may lose to the
others for ever. `EveryRequestEnds` and `EveryClientServed` say "unless all
workers have ended" and "unless the process has ended", for both happen (below).

## Proofs

Proved for every value of the constants that the named assumptions allow. Every
invariant, action property and refinement of the runs that pass has its theorem;
only liveness has none.

* `ShmCacheProofs`, from `FileAssumption`, `SizeAssumption`, `SendAssumption`,
  `HeaderAssumption`:
  `TypeCorrect` (`TypeOK`), `SegmentsOwned` (`SegmentOwnership`) and
  `WakeupsReach` (`NoLostWakeup`). `TypeOK` is inductive because it ties `seg` to
  `pc` (a worker holds a segment exactly in `HoldingStates`) and lets only
  requests for cached files reach the copy loop. Ownership is inductive given
  types: the step that takes a segment removes the head, which occurs once, and the one
  that returns it appends what no one else holds. For wakeups, a segment can
  only become free in `QueueMemory`, whose worker must then broadcast, and
  broadcasting leaves nobody asleep.

  `LeasesExclusive` (`LeaseIsExclusive`) and `SegmentsRaceFree` (`NoSegmentRace`) need
  `NoFailure`: sends may be short, but none returns 0 or less (then the worker frees the
  segment too early, which is what `ShmCacheClientLeaves` shows). The invariant
  `Leases` gives the values of the three semaphores of a segment by the places of
  its two threads (`Talk`, `Turn`), says in which step of the copy loop they are
  to each other (`Progress`), and that no two messages or daemon workers are about
  one segment. `CacheIsFileService` (`ImplementsFileService`) and
  `ClientsGetTheirFiles` (`ClientGetsItsFile`) need `WholeSends`: each send takes
  all it is given. There `Delivery` says byte by byte what the daemon has copied, the
  segment holds, and the client has got.
* `QueueAndTableProofs`. About `Steque`: `ListIsSound` (`WellLinked`) and
  `TypesHold` (`TypeOK`). The invariant says that some injective sequence of
  nodes is the list: `front` and `back` are its ends, `next` leads from each to
  its successor, and exactly its nodes are allocated; each operation gives the
  witness for the list after it. `IsDeque` (`ImplementsDeque`) maps the list to
  what one meets on the way from `front`. That this is the list takes an
  induction over its places; the library's induction theorems cannot be used
  here (they take an operator), so `EveryPlace` derives what is needed from the
  pigeonhole principle: were a place outside a set that contains the first place
  and with each one the next, then the places before it that are outside would
  fit into one place less.

  About `ContentTable`, from `ContentAssumption`: `AlwaysRoom`,
  `KeyStaysInWindow`, `SearchHalves` and `FindsWhatIsListed`. The strengthening
  says that each item comes from a line and, once all are read, the key of each
  line is in the table (`TableHoldsLines`), that a table in service is sorted, and
  that the window encloses every occurrence of the key; a result then names a line.
* `ClientPoolProofs`, from `PoolAssumption`: `TypesHold`, `OneWorkerEach`
  (`RequestsInOnePlace`), `BossIsLast` (`BossLeavesLast`), `NobodyOversleeps`
  (`NoNeedlessSleep`). The invariants of the run are inductive once they are joined
  with two more: the boss is in its loop only while a request is left
  (`BossInLoop`), and `nrequests_done` is the number of counted requests
  (`DoneIsCounted`), which is why the boss can only leave after the last one.
  Each step is first reduced to what a signal or a broadcast may wake.
  `OneWriterEach` (`OwnFile`) needs no more than that: whatever the numbers, a
  file that a worker opens is new, unless its path is requested more than once and
  `raced`, which TLC finds with two workers and two requests for one path. The
  invariant adds that files on disk are of requests that have left the queue
  (which is all there is to say of a path requested once), and that without a race
  their numbers are below the counter.

  About `GfClient`, from `GfClientAssumption`, which lets a server send any header that
  begins and ends as one, and any body: `GivenFromStart` (`GivenIsStart`),
  `WholeIsKept` (`KeptIsWhole`) and `GetTypes` (`GetTypeOK`, which no run checks). The
  invariant `Got` says that the place in the stream is the number of bytes given
  plus the length of the header, once that has come; that a header of a file starts
  with its words is what keeps `bytes_received` from falling below 0 when the header
  is taken off.
* `ServerPoolProofs`, from `ServerAssumption`: `TypesHold`, `OnePlaceEach`
  (`EachRequestOnce`, whose quantifiers are first taken apart into `Parts`: an
  open connection has a place, what has a place is open, and no place has it
  twice) and `PoolIsFileService`: every step is one of `FileService` or a
  stutter. For the refinement `Progress` says of each point of a worker what its
  client has got: nothing before the header, after it the first `total` bytes of
  its file.
* `DfsMountProofs`, from `MountAssumption`: `TypesHold` (which no run checks) and `NothingForgotten`
  (`NoChangeForgotten`). The property says that something will bring the server in
  line; the invariant `InLine` says what, and in which order it is asked: the last
  event in the queue, else the last in the batch, else the call in progress,
  else the two files are equal.
* `DfsProofs`, from `DfsAssumption`: `TypesHold` (needs `Roles`: a handler runs a
  call of its own kind); `OneDeletion` (`DeletedOnce`) and `ListingIsComplete`
  (`ListsWhatStays`), from `Inodes`: a name stands for its first file or for one
  that a store of that name has made, so that what was removed does not come back; and
  `BytesStay` (`ByteInPlace`), from an invariant of the streams (`InFlight`): the
  chunks on their way follow one another from the offset of the receiver to that
  of the sender (`Chain`), unless the call is dead, when it may lack some at its end.
  `StoreArrives` (`OkStoreIsThere`) and `FetchArrives` (`OkFetchIsWhole`), from
  `WInv`: a client makes one call at a time (`OneCall`), a store writes to the
  file of its name (`Writers`), and of each call that nobody has disturbed
  (`Goes`) the chunks on their way are the pieces of the file between the two
  offsets (`Pieces`), what the handler has written is the file up to its offset,
  and what the client has is the server's file up to its own. Calls whose file
  could not be opened are exempt in both (below); they are answered OK all the same.
* `TransferProofs`, from `TransferAssumption`: `WholeFile` (`FileArrives`) and
  `TypesHold`. The property puts sequences together; the invariant says the same byte
  by byte (`Streamed`, `Serving`) and adds whose turn it is (`Turn`): a client waits
  once, has got nothing before it is served and the whole file after it.
* `GfServerProofs`, from `GfServerAssumption` and `FilesHoldBytes` (the handler
  finds files, which are bytes, or none): `WholeAnswer` (`AnswerIsWhole`) and
  `ServedWithContext`, the types of that module, which no run checks. The
  invariant `SInv` follows a client from the backlog through its turn (`Told`):
  nothing, then what makes an answer together with what is left to send, then
  the answer.

Only model-checked, because the provers at hand do not do liveness under fairness:
`EveryRequestAnswered`, `Termination`, `EveryRequestEnds`, `HandlersEnd`,
`ChangeArrives`, `Returns`, `EveryClientServed`.

## Disagreements seen while modelling

The first two have a run. The others were seen in the code while it was translated;
the models contain those of the code they cover, and the properties are stated so
that they say what still holds, and in which case it does not.

* `handle_with_cache.c:108` frees a segment that the daemon still fills when a
  client leaves (`ShmCacheClientLeaves`).
* `gflib/gfserver.c:59` writes a space before the end of the header, which
  `pr1/README.md:231-234` forbids; the client, which computes the header's
  length without it (`gfclient.c:213`), then shifts the file by one byte
  (`GfClientOwnServer`; `GivenIsStart` and `KeptIsWhole` except such a header where
  they speak of the start of the file) and stops with its last byte unread.
* `handle_with_cache.c:112` counts the -1 of `gfs_send` into a `size_t`, and
  `simplecached.c:210` lets the -1 of `pread` pass, which ends the daemon in `memcpy`;
  where `pread` gives 0, the daemon leaves and the proxy waits. `EveryRequestAnswered` is
  checked without these, `ShmCacheSendFails` with them.
* `mtgf/gfclient_download.c:34` increments a shared counter without a lock:
  two downloads of one path may get the same local file, against "no race
  conditions" (`pr1/README.md:490-492`); `OwnFile` says that this takes both, and
  nothing less. `:238` tests
  `returncode`, a global, after other workers may have written it.
* `mtgf/gfserver_main.c:167`: a missing file ends the worker, although
  `pr1/README.md:333-334` has connections "fully handled by worker threads".
* `content.c:36` chops the last character also when it is no newline ("Taking
  out EOL character", line 35); the table then has the file of that other name, which
  `FindsListedFile` excepts, for a line without a newline only.
* `gflib/gfclient.c:167` calls a header that comes in two pieces invalid
  (`pr1/README.md:474-478`, which tests with "response header or data sent in multiple
  messages"); `:228` never ends when more bytes come than announced; `:162` with `:27` returns 0 for a connection that closed
  before the header (`gfclient.h:90-93`); `:154` uses the -1 of `recv` as a size;
  `:133` sends the request from its start again after a short send.
* `gflib/gfserver.c:127` exits when accept fails, and no socket is closed;
  `:42` may raise SIGPIPE; `:132` receives a request once only, so that a right
  request cut inside a word is answered INVALID, and `/file` cut behind the slash by
  the file of `/` (`AnswerIsWhole` takes the words as received); `:141` compares a null
  pointer when a request is cut, and refuses every path but `/`; `:143` does not free the context
  (line 119, `pr1/README.md:207, 219, 480-482`).
* `transferclient.c:80` opens without O_TRUNC, so that the end of a longer old file
  stays behind the new one, against "File size and contents on the client should
  match" (`pr1/README.md:457-459`); `FileArrives` says exactly that;
  `transferserver.c:47, 133` exit for one bad client or when descriptors run out
  (`pr1/README.md:177-178`).
* `dfs-clientnode-p1.cpp:81-87` never ends when the file gets shorter meanwhile;
  `:122` leaves the old local file when the fetched one is empty, and when it cannot be
  opened `Fetch` returns OK; `dfslib-servernode-p1.cpp:167` answers OK when it could not
  open the file (`OkFetchIsWhole` and `OkStoreIsThere` except these);
  `:176` lets two stores mix; `:270` lists `.` and `..`, and `:265` leaves the
  directory open when the call is cancelled.
* `part2/dfs-client-p2.cpp:122` gives `inotify_rm_watch` its arguments in the
  wrong order; `:154` does not test `read`, which after the close returns -1 for
  ever; `:88` does not ask for renames; `:212-227` drops the status of `Store`
  and `Delete`, so that a change is lost when the server is away; `:121`
  destroys a thread that was moved or detached.
* `part2/dfslibx-service-runner.h:79-82` goes on after the queue was shut down,
  so that a runner never ends, and does not free the call of an event that is
  not `ok`.
* `pr3/server/handle_with_curl.c:47` goes back from the start of the buffer after a
  short send; when curl fails, it returns 0 without a header, although
  `gfserver.h:105-109` takes that for "performed all the necessary communication";
  `:67, 79` clean up curl for all threads after one request.

## Not modelled

* The asynchronous runner of `pr4/part2`: its two loops call virtual methods of
  `DFSCallData`, and the service that implements them is not in the repository;
  neither are `HandleCallbackList` and `DFSClientNodeP2`, whose calls are external in
  `DfsMount`.
* The curl and file handlers of `pr3/server`: sequential, around libcurl or one
  file, with the send loop that `ServerPool` has; the proxy's `gfserver.o` is
  prebuilt, as are the `gfclient.o` and `handler.o` of other parts, which are
  environment.
* The signal handlers of `pr3/cache`, which end the process from the middle of
  anything, and the restart of one of its processes; the descriptors and mappings
  that it never gives back.
* `fstat` returning -1 in a worker of `mtgf` (`gfserver_main.c:172-176`): the worker
  then closes a descriptor that stays in the content table, so that a later `accept`
  may give its number to a connection, and `pread` of that file reads a socket.
  `ServerPool` names a descriptor by its key and has no such table of numbers; `fstat`
  of a descriptor that was opened at the start does not fail there.
* Buffers of `ofstream` in `Dfs`: a chunk is on the disk when it is written, where the
  code may keep it until the file is closed; another handler may then read less than
  the model shows.
* The echo programs (one message each way), options, usage and logging.

## Plan

1. Done: `ShmCache` first, as the part where most goes on between processes; then the
   pools, the table and the queue, the Getfile libraries, transfer, the file
   service with all of its five calls, and its mounted client. Proofs for all of
   these.
2. Next in the models: restart and signal handlers in `ShmCache`; `GfClient` and
   `GfServer` composed into one module (now the responses of the one are an input of
   the other); the table of descriptors in `ServerPool`; the curl handler as a
   refinement of `FileService`; `returncode` in `ClientPool`.
3. Next in the proofs: what short sends leave of `ImplementsFileService` (a service
   that may stop in the middle of a file); what a client gets from the composed
   Getfile libraries; `FileService` itself, for which each client's bytes are the
   start of its file.
