------------------------------ MODULE DfsMount ------------------------------
(***************************************************************************)
(* The mounted client of pr4/part2, dfs-client-p2.cpp: the kernel queues   *)
(* an event for each change of the mount directory, a watcher thread reads *)
(* them in batches and stores or deletes the file of each on the server,   *)
(* by its name and as it is by then, and a signal ends the process, after  *)
(* which it may be started again.                                          *)
(*                                                                         *)
(* External: the user; inotify(7), whose queue is bounded and which drops  *)
(* an event that is equal to the last in the queue; and Store and Delete   *)
(* of DFSClientNodeP2, which read the file, may fail, and return.  The     *)
(* thread of HandleCallbackList is left out: its code is not there.        *)
(*                                                                         *)
(* Abstractions: each content that the user gives to a file is a version   *)
(* of its own; a name that begins with a dot, or whose type the callback   *)
(* does not know, is one that is not Watched; what happens between close   *)
(* and exit is read only as far as it has been read before.                *)
(***************************************************************************)
EXTENDS Integers, Sequences

CONSTANTS
  Names,      \* of the files in the mount directory
  Watched,    \* those that the filters let pass
  NoFile,     \* there is no file of a name
  Torn,       \* what a store that failed may leave on the server
  NoEvent,    \* the watcher handles none
  MaxVersion, \* how many changes the user makes
  QueueLimit, \* max_queued_events
  BatchLimit  \* how many events fit in DFS_I_BUFFER_SIZE

Versions == 0..MaxVersion
Masks == {"create", "modify", "delete"}
Event == [mask : Masks, name : Names]

ASSUME MountAssumption ==
  /\ Watched \subseteq Names
  /\ MaxVersion \in Nat /\ QueueLimit \in Nat /\ BatchLimit \in Nat \ {0}
  /\ NoFile \notin Versions /\ Torn \notin Versions \cup {NoFile}
  /\ NoEvent \notin Event

VARIABLES
  mount,   \* the version of each file in the mount directory
  server,  \* and on the server
  version, \* the last one that was made
  process, \* "up", "closing" or "down"
  queue,   \* the events in the kernel
  pc,      \* where the watcher is: "read", "events", "store", "sent", "delete"
  batch,   \* the events in its buffer that it has not come to
  cur,     \* the event of its call to the server
  sent,    \* what that call has read
  missed   \* history: names whose last change has no event to come

files == <<mount, version>>
watcher == <<pc, batch, cur, sent>>
vars == <<files, server, process, queue, watcher, missed>>

Init ==
  /\ \E M \in [Names -> {0, NoFile}] : mount = M /\ server = M
  /\ version = 0 /\ missed = {}
  /\ process = "down" /\ queue = <<>>
  /\ pc = "read" /\ batch = <<>> /\ cur = NoEvent /\ sent = NoFile

-----------------------------------------------------------------------------
(* The user and the kernel                                                 *)

\* The kernel notes a change of n, unless nobody watches or its queue is full.
Notify(m, n) ==
  LET e == [mask |-> m, name |-> n]
      same == queue # <<>> /\ queue[Len(queue)] = e IN
    IF process = "up" /\ (same \/ Len(queue) < QueueLimit)
    THEN /\ queue' = IF same THEN queue ELSE Append(queue, e)
         /\ missed' = missed \ {n}
    ELSE missed' = missed \cup {n} /\ UNCHANGED queue

Change(n, v) ==
  /\ mount' = [mount EXCEPT ![n] = v]
  /\ version' = IF v = NoFile THEN version ELSE v
  /\ UNCHANGED <<server, process, watcher>>

Create(n) ==
  /\ mount[n] = NoFile /\ version < MaxVersion
  /\ Change(n, version + 1) /\ Notify("create", n)

Modify(n) ==
  /\ mount[n] # NoFile /\ version < MaxVersion
  /\ Change(n, version + 1) /\ Notify("modify", n)

Unlink(n) ==
  /\ mount[n] # NoFile
  /\ Change(n, NoFile) /\ Notify("delete", n)

\* A file is renamed, to or from n: the flags of the watch do not ask for it.
Move(n) ==
  /\ \/ mount[n] # NoFile /\ Change(n, NoFile)
     \/ version < MaxVersion /\ Change(n, version + 1)
  /\ missed' = missed \cup {n} /\ UNCHANGED queue

User == \E n \in Names : Create(n) \/ Modify(n) \/ Unlink(n) \/ Move(n)

-----------------------------------------------------------------------------
(* Mount, Unmount and the signal                                           *)

Idle == pc' = "read" /\ batch' = <<>> /\ cur' = NoEvent /\ sent' = NoFile

\* inotify_init, inotify_add_watch and the watcher thread.
Mount ==
  /\ process = "down" /\ process' = "up"
  /\ UNCHANGED <<files, server, queue, watcher, missed>>

NamesIn(q) == {q[i].name : i \in 1..Len(q)}

\* The descriptor is closed, and with it the queue goes; the watcher, which
\* nobody tells, goes on with the events it has.
Unmount ==
  /\ process = "up" /\ process' = "closing"
  /\ queue' = <<>> /\ missed' = missed \cup NamesIn(queue)
  /\ UNCHANGED <<files, server, watcher>>

\* What a call that is broken off may leave on the server.
Broken(n) ==
  IF pc = "store" THEN {server[n]}
  ELSE IF pc = "sent" THEN {server[n], sent, Torn} ELSE {server[n], NoFile}

\* exit(0), in the middle of whatever the watcher does.
Exit ==
  /\ process = "closing" /\ process' = "down"
  /\ IF cur = NoEvent THEN UNCHANGED server
     ELSE \E v \in Broken(cur.name) : server' = [server EXCEPT ![cur.name] = v]
  /\ missed' = missed \cup NamesIn(batch) \cup (IF cur = NoEvent THEN {} ELSE {cur.name})
  /\ Idle
  /\ UNCHANGED <<files, queue>>

-----------------------------------------------------------------------------
(* InotifyWatcher and InotifyEventCallback                                 *)

Running == process # "down"

\* read returns some of the events, as many as fit.
ReadEvents ==
  /\ Running /\ pc = "read" /\ queue # <<>>
  /\ \E l \in 1..BatchLimit :
       /\ l <= Len(queue)
       /\ batch' = SubSeq(queue, 1, l)
       /\ queue' = SubSeq(queue, l + 1, Len(queue))
  /\ pc' = "events"
  /\ UNCHANGED <<files, server, process, cur, sent, missed>>

Finished_Never == FALSE  \* mutant: no way back to read
Finished == batch = <<>>

\* index < len is false.
BatchDone ==
  /\ Running /\ pc = "events" /\ Finished
  /\ pc' = "read"
  /\ UNCHANGED <<files, server, process, queue, batch, cur, sent, missed>>

Rest_First == <<>>  \* mutant: a batch is taken for one event
\* index += used.
Rest == Tail(batch)

\* An event that the filters stop.
SkipEvent ==
  /\ Running /\ pc = "events" /\ batch # <<>>
  /\ Head(batch).name \notin Watched
  /\ batch' = Rest
  /\ UNCHANGED <<files, server, process, queue, pc, cur, sent, missed>>

\* One that calls Store, for IN_CREATE and IN_MODIFY, or Delete.
HandleEvent ==
  /\ Running /\ pc = "events" /\ batch # <<>>
  /\ Head(batch).name \in Watched
  /\ cur' = Head(batch) /\ batch' = Rest
  /\ pc' = IF Head(batch).mask = "delete" THEN "delete" ELSE "store"
  /\ UNCHANGED <<files, server, process, queue, sent, missed>>

\* The call returns, with a status that nobody looks at.
Return == pc' = "events" /\ cur' = NoEvent /\ sent' = NoFile

\* There is an event to come for the file n.
Expected(n) == n \in NamesIn(batch) \cup NamesIn(queue)

\* Store finds no file of the name any more.
StoreNothing ==
  /\ Running /\ pc = "store" /\ mount[cur.name] = NoFile
  /\ Return
  /\ UNCHANGED <<files, server, process, queue, batch, missed>>

\* It reads the file as it is now,
StoreReads ==
  /\ Running /\ pc = "store" /\ mount[cur.name] # NoFile
  /\ sent' = mount[cur.name] /\ pc' = "sent"
  /\ UNCHANGED <<files, server, process, queue, batch, cur, missed>>

\* and has it written,
StoreReturns ==
  /\ Running /\ pc = "sent"
  /\ server' = [server EXCEPT ![cur.name] = sent]
  /\ Return
  /\ UNCHANGED <<files, process, queue, batch, missed>>

DeleteReturns ==
  /\ Running /\ pc = "delete"
  /\ server' = [server EXCEPT ![cur.name] = NoFile]
  /\ Return
  /\ UNCHANGED <<files, process, queue, batch, missed>>

\* unless it fails, which nobody notices: no call is made again.
CallFails ==
  /\ Running /\ pc \in {"store", "sent", "delete"}
  /\ \E v \in Broken(cur.name) : server' = [server EXCEPT ![cur.name] = v]
  /\ missed' = IF Expected(cur.name) THEN missed ELSE missed \cup {cur.name}
  /\ Return
  /\ UNCHANGED <<files, process, queue, batch>>

Watcher ==
  \/ ReadEvents \/ BatchDone \/ SkipEvent \/ HandleEvent
  \/ StoreNothing \/ StoreReads \/ StoreReturns \/ DeleteReturns \/ CallFails

Next == User \/ Mount \/ Unmount \/ Exit \/ Watcher

Spec == Init /\ [][Next]_vars

\* The watcher runs, and exit ends the process.
FairSpec == Spec /\ WF_vars(Watcher) /\ WF_vars(Exit)

-----------------------------------------------------------------------------
Contents == Versions \cup {NoFile}

\* The values each variable takes; a call is for an event of a watched file.
TypeOK ==
  /\ mount \in [Names -> Contents] /\ version \in Versions
  /\ server \in [Names -> Contents \cup {Torn}]
  /\ process \in {"up", "closing", "down"}
  /\ queue \in Seq(Event) /\ batch \in Seq(Event)
  /\ pc \in {"read", "events", "store", "sent", "delete"}
  /\ cur \in Event \cup {NoEvent} /\ sent \in Contents
  /\ cur # NoEvent <=> pc \in {"store", "sent", "delete"}
  /\ cur # NoEvent => cur.name \in Watched /\ (cur.mask = "delete" <=> pc = "delete")
  /\ missed \subseteq Names

\* The last event to come for n, which is what decides.
LastFor(q, n, i) == q[i].name = n /\ \A j \in (i + 1)..Len(q) : q[j].name # n
Decides(q, n) ==
  \E i \in 1..Len(q) : LastFor(q, n, i) /\ (q[i].mask = "delete" <=> mount[n] = NoFile)

\* The call in progress will make the server's file the one in the mount.
CallAgrees(n) ==
  /\ cur # NoEvent /\ cur.name = n
  /\ \/ pc = "store" /\ mount[n] # NoFile
     \/ pc = "sent" /\ sent = mount[n]
     \/ pc = "delete" /\ mount[n] = NoFile

(* dfs-client-p2.cpp:143-181, 207-227.  Events are handled late, in        *)
(* batches, and by the name of a file that may have changed since, be gone *)
(* or be another.  Still no change is forgotten: where the server differs  *)
(* from the mount directory, a call or the last event to come for the file *)
(* will bring it in line, unless that event was never queued, was dropped  *)
(* or was used up by a call that failed.                                   *)
NoChangeForgotten ==
  \A n \in Watched \ missed :
    \/ server[n] = mount[n]
    \/ Decides(queue, n)
    \/ n \notin NamesIn(queue) /\ Decides(batch, n)
    \/ ~Expected(n) /\ CallAgrees(n)

(* dfs-client-p2.cpp:143-227.  A change reaches the server in the end, or  *)
(* is one of those of which the watcher is not told, as long as the        *)
(* directory is not changed again and again.                               *)
ChangeArrives ==
  \A n \in Watched : (server[n] # mount[n]) ~> (server[n] = mount[n] \/ n \in missed)
=============================================================================
