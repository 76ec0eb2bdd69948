------------------------------ MODULE Watcher ------------------------------
(***************************************************************************)
(* The file watcher of one location: the debouncer of                      *)
(* internal/indexer/watch.go, and the bounded queue and the single         *)
(* consumer of internal/pipeline/watcher.go.  An event of the file system  *)
(* arms a timer for its path; when the timer fires the path is looked at,  *)
(* looked at again one debounce later, and queued; the consumer hashes and *)
(* commits one item at a time.                                             *)
(*                                                                         *)
(* owed is what the properties except: the paths whose news the code gave  *)
(* up, each time for a later full scan to find.                            *)
(***************************************************************************)
EXTENDS Library

CONSTANTS
    Watched,     \* the paths of the files in the watched tree
    Folder,      \* a directory of the tree
    InFolder,    \* the files of the folder
    WatchCap     \* watchQueueCapacity

ASSUME WatcherAssumption ==
    /\ Watched \subseteq Path
    /\ Folder \notin Path /\ InFolder \subseteq Watched
    /\ WatchCap \in Nat \ {0}

VARIABLES
    timers,    \* debouncer.timers: the paths armed
    settling,  \* callbacks between their two samples, <<path, version>>
    backlog,   \* watchWork.items
    consumer,  \* the item being handled
    watching,  \* "on", "stopping" (context cancelled), "off", or "never": watch is opt-in
    watchJob,  \* the state of its WATCH row in scan_jobs
    owed       \* paths whose last event came to nothing

watcherVars == <<timers, settling, backlog, consumer, watching, watchJob, owed>>

Key == Watched \cup {Folder}

\* A removal, or a file as the callback last saw it.
WatchItem == [path : Key, seen : File]

\* look: the row at the path is to be read; rebase and mark: the rows were read
\* and are to be written; commit: the result is.
Consumer == [step   : {"idle", "process", "look", "rebase", "commit", "remove", "mark"},
             item   : {<<>>} \cup {<<i>> : i \in WatchItem},
             result : {<<>>} \cup {<<r>> : r \in FileResult},
             rows   : SUBSET Node]

Waiting == [step |-> "idle", item |-> <<>>, result |-> <<>>, rows |-> {}]

WatcherInit(optedIn) ==
    /\ timers = {} /\ settling = {} /\ backlog = <<>>
    /\ consumer = Waiting
    /\ watching = IF optedIn THEN "on" ELSE "never"
    /\ watchJob = "RUNNING"
    /\ owed = {}

\* The process runs.
Up == watching \in {"on", "never"}

----------------------------------------------------------------------------
\* The debouncer.

\* The paths an event of the key p stands for.
Covered(p) == IF p = Folder THEN InFolder ELSE {p}

AllCovered(S) == UNION {Covered(p) : p \in S}

\* handleEvent on the paths S: each is armed anew.  Of the paths G there is
\* news that makes no event.
Notice(S, G) ==
    /\ timers' = IF watching = "on" THEN timers \cup (S \cap Key) ELSE timers
    /\ owed' = CASE watching = "on"    -> owed \cup (Watched \cap G)
                 [] watching = "never" -> owed
                 [] OTHER              -> owed \cup (Watched \cap (G \cup AllCovered(S)))
    /\ UNCHANGED <<settling, backlog, consumer, watching, watchJob>>

\* ErrEventOverflow: the kernel lost an event.
Overflow(p) ==
    /\ p \in timers \ {Folder} /\ Mishap
    /\ timers' = timers \ {p}
    /\ owed' = owed \cup {p}
    /\ UNCHANGED <<nodes, stat, disk, settling, backlog, consumer, watching, watchJob>>

\* watchWork.enqueue: drops the oldest item of a full queue.
Enqueue(i) ==
    IF Len(backlog) < WatchCap THEN backlog' = Append(backlog, i) /\ UNCHANGED owed
    ELSE /\ backlog' = Append(Tail(backlog), i)
         /\ owed' = owed \cup Covered(Head(backlog).path)

Removed(p) == [path |-> p, seen |-> NoFile]

\* The first sample of triggerPath.  A folder that is there is not reported.
Fire(p) ==
    /\ p \in timers /\ watching = "on"
    /\ timers' = timers \ {p}
    /\ IF p = Folder
         THEN /\ UNCHANGED settling
              /\ IF \A q \in InFolder : disk[q] = NoFile
                   THEN Enqueue(Removed(p)) ELSE UNCHANGED <<backlog, owed>>
         ELSE IF disk[p] = NoFile
                THEN Enqueue(Removed(p)) /\ UNCHANGED settling
                ELSE /\ settling' = settling \cup {<<p, disk[p]>>}
                     /\ UNCHANGED <<backlog, owed>>
    /\ UNCHANGED <<library, consumer, watching, watchJob>>

\* Mutant: any file that is there counts as still being written.
UnsettledWhileThere(p, v) == disk[p] # NoFile

\* The second sample differs from the first: the file is still being written.
Unsettled(p, v) == disk[p] \notin {v, NoFile}

\* The second sample.  While the watcher stops, an item reported before the
\* queue closes is abandoned by the consumer; after that it is dropped.
Settle(p, v) ==
    /\ <<p, v>> \in settling
    /\ settling' = settling \ {<<p, v>>}
    /\ IF Unsettled(p, v)
         THEN /\ timers' = IF watching = "on" THEN timers \cup {p} ELSE timers
              /\ owed' = IF watching = "on" THEN owed ELSE owed \cup {p}
              /\ UNCHANGED backlog
         ELSE /\ UNCHANGED timers
              /\ IF p \in timers THEN UNCHANGED <<backlog, owed>>
                 ELSE IF watching = "off"
                        THEN owed' = owed \cup {p} /\ UNCHANGED backlog
                        ELSE Enqueue([path |-> p, seen |-> disk[p]])
    /\ UNCHANGED <<library, consumer, watching, watchJob>>

DebouncerStep(p) == Fire(p) \/ \E v \in Content : Settle(p, v)

----------------------------------------------------------------------------
\* The consumer.

Item == consumer.item[1]
Found == consumer.result[1]

Done == consumer' = Waiting
GiveUp(S) == Done /\ owed' = owed \cup (S \cap Watched)

\* consumeOne: once the context is cancelled, items are only counted.
Take ==
    /\ consumer.step = "idle" /\ backlog # <<>>
    /\ backlog' = Tail(backlog)
    /\ IF watching = "on"
         THEN /\ consumer' = [Waiting EXCEPT
                    !.step = IF Head(backlog).seen = NoFile THEN "remove" ELSE "process",
                    !.item = <<Head(backlog)>>]
              /\ UNCHANGED owed
         ELSE GiveUp(Covered(Head(backlog).path))
    /\ UNCHANGED <<library, timers, settling, watching, watchJob>>

\* processFile.  A file that changed since it was sampled has armed its path
\* again; any other failure is counted and left.
ProcessItem ==
    LET p == Item.path
    IN  /\ consumer.step = "process"
        /\ \/ /\ disk[p] = Item.seen
              /\ consumer' = [consumer EXCEPT !.step = "look",
                                              !.result = <<Processed(p, disk[p])>>]
              /\ UNCHANGED <<mishaps, owed>>
           \/ /\ disk[p] # Item.seen
              /\ Done /\ UNCHANGED <<mishaps, owed>>
           \/ /\ disk[p] = Item.seen /\ Mishap
              /\ GiveUp({p})
        /\ UNCHANGED <<nodes, stat, disk, timers, settling, backlog, watching, watchJob>>

\* Mutant: a row whose file is still there counts as moved.
MovedFromAny(r) ==
    {n \in Node : /\ Live(nodes[n]) /\ nodes[n].fast = r.fast /\ nodes[n].path # r.path
                  /\ MovePlausible(nodes[n], r)}

\* The rows rebaseIfMoved takes for the file's old place.
MovedFrom(r) ==
    {n \in Node : /\ Live(nodes[n]) /\ nodes[n].fast = r.fast /\ nodes[n].path # r.path
                  /\ disk[nodes[n].path] = NoFile
                  /\ MovePlausible(nodes[n], r)}

\* rebaseIfMoved reads, outside any transaction ...
Look ==
    /\ consumer.step = "look"
    /\ consumer' =
         IF LiveAt(nodes, Found.path) = {} /\ MovedFrom(Found) # {}
           THEN [consumer EXCEPT !.step = "rebase", !.rows = {Oldest(MovedFrom(Found))}]
           ELSE [consumer EXCEPT !.step = "commit"]
    /\ UNCHANGED <<library, timers, settling, backlog, watching, watchJob, owed>>

\* ... and writes the row it read.  A row retired meanwhile is not moved, and
\* the file goes without one.
Rebase ==
    LET n       == Oldest(consumer.rows)
        moved   == RebaseMissingNodePath(nodes, n, Found.path)
        hashed  == IF Found.full = NoHash THEN moved
                   ELSE RecordFullHashSource(
                            UpdateMediaNodeFullHash(moved, n, Found.full),
                            n, Found.full, "SERVER")
        ok      == Schema(moved) /\ Schema(hashed)
    IN  /\ consumer.step = "rebase"
        /\ \/ /\ ok
              /\ nodes' = hashed
              /\ stat' = IF Live(nodes[n]) THEN [stat EXCEPT ![n] = Found.stat] ELSE stat
              /\ Done
              /\ owed' = IF Live(nodes[n]) THEN owed ELSE owed \cup {Found.path}
              /\ UNCHANGED mishaps
           \/ /\ IF ok THEN Mishap ELSE UNCHANGED mishaps
              /\ GiveUp({Found.path})
              /\ UNCHANGED <<nodes, stat>>
        /\ UNCHANGED <<disk, timers, settling, backlog, watching, watchJob>>

\* Commit of the single result.
CommitItem ==
    LET out == CommitBatch(<<Found>>)
    IN  /\ consumer.step = "commit" /\ FreeIds(nodes) # {}
        /\ \/ /\ out.ok
              /\ nodes' = out.nodes /\ stat' = out.stat
              /\ Done /\ UNCHANGED <<mishaps, owed>>
           \/ /\ IF out.ok THEN Mishap ELSE UNCHANGED mishaps
              /\ GiveUp({Found.path})
              /\ UNCHANGED <<nodes, stat>>
        /\ UNCHANGED <<disk, timers, settling, backlog, watching, watchJob>>

\* handleRemoval reads the row at the path; without one, handleDirectoryRemoval
\* reads the rows below it.
Under(p) == IF p = Folder THEN UNION {LiveAt(nodes, q) : q \in InFolder} ELSE {}

LookRemoved ==
    LET rows == IF Item.path \in Path THEN LiveAt(nodes, Item.path) ELSE {}
        gone == IF rows = {} THEN Under(Item.path)
                ELSE {n \in rows : nodes[n].state # "MISSING"}
    IN  /\ consumer.step = "remove"
        /\ consumer' = IF gone = {} THEN Waiting
                       ELSE [consumer EXCEPT !.step = "mark", !.rows = gone]
        /\ UNCHANGED <<library, timers, settling, backlog, watching, watchJob, owed>>

\* MarkNodeMissing by the ids read, wherever the rows are now.
Marked(S) == [n \in Node |-> IF n \in S THEN MarkNodeMissing(nodes, n)[n] ELSE nodes[n]]

Astray == {nodes[n].path : n \in consumer.rows} \ Covered(Item.path)

MarkRemoved ==
    /\ consumer.step = "mark"
    /\ \/ /\ nodes' = Marked(consumer.rows)
          /\ GiveUp(Astray) /\ UNCHANGED mishaps
       \/ /\ Mishap /\ GiveUp(Covered(Item.path)) /\ UNCHANGED nodes
    /\ UNCHANGED <<stat, disk, timers, settling, backlog, watching, watchJob>>

ConsumerStep ==
    \/ Take \/ ProcessItem \/ Look \/ Rebase \/ CommitItem \/ LookRemoved \/ MarkRemoved

----------------------------------------------------------------------------
\* Start and stop.

Pending == timers \cup {x[1] : x \in settling} \cup {i.path : i \in Elements(backlog)}
           \cup (IF consumer.step = "idle" THEN {} ELSE {Item.path})

PendingPaths == AllCovered(Pending)

\* The context is cancelled: stopAll drops the timers.
Stop ==
    /\ watching = "on"
    /\ watching' = "stopping"
    /\ timers' = {}
    /\ owed' = owed \cup AllCovered(timers)
    /\ UNCHANGED <<nodes, stat, disk, settling, backlog, consumer, watchJob>>

\* work.close, consumerWG.Wait
Drained == backlog = <<>> /\ consumer.step = "idle"

\* The job row is finalized after the last item.
Finalize ==
    /\ watching = "stopping" /\ Drained
    /\ watching' = "off"
    /\ watchJob' = "CANCELLED"
    /\ UNCHANGED <<library, timers, settling, backlog, consumer, owed>>

\* The process dies, or has stopped and starts again.  The watcher does not
\* walk the tree when it starts.
WatcherRestarts ==
    /\ timers' = {} /\ settling' = {} /\ backlog' = <<>> /\ consumer' = Waiting
    /\ watching' = IF watching = "never" THEN "never" ELSE "on"
    /\ watchJob' = "RUNNING"
    /\ owed' = owed \cup PendingPaths

WatcherStep ==
    \/ \E p \in Key : DebouncerStep(p)
    \/ ConsumerStep
    \/ Finalize

----------------------------------------------------------------------------
Quiet == watching = "on" /\ Pending = {}

\* What is known of a file that is there: a live row with its fast hash, a row a
\* person retired, or another row that owned its content when it was seen.
Known(p) ==
    \/ \E n \in LiveAt(nodes, p) : nodes[n].state = "ACTIVE" /\ nodes[n].fast = FastOf[disk[p]]
    \/ \E n \in Node : Exists(nodes[n]) /\ nodes[n].full = disk[p]
    \/ \E n \in LatestAt(nodes, p) : nodes[n].state \in {"ARCHIVED", "TRASHED"}

Settled(p) ==
    IF disk[p] = NoFile THEN \A n \in LiveAt(nodes, p) : nodes[n].state # "ACTIVE"
    ELSE Known(p)
=============================================================================
