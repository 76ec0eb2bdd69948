------------------------------ MODULE Arrivals ------------------------------
(***************************************************************************)
(* The ways a file enters the index together: uploads write master         *)
(* archives and link exports, the watcher follows the exports, scans read  *)
(* and commit anything, other programs and a person's trash change the     *)
(* files under all of them, and the process stops, dies and starts again.  *)
(***************************************************************************)
EXTENDS Upload, Watcher

CONSTANTS
    Foreign,     \* bound: the writes of other programs, <<path, file>>
    Mixes        \* bound: which uploads come, and whether the exports are watched

ASSUME ArrivalsAssumption ==
    /\ Foreign \subseteq Path \X File
    /\ Mixes \subseteq [uploads : SUBSET Uploader, watched : BOOLEAN, rows : Table]

VARIABLES
    scanned,     \* the file a scan has hashed and not yet committed
    foreign      \* history: the paths whose file another program put there

vars == <<library, uploadVars, watcherVars, scanned, foreign>>

Init ==
    /\ \E mix \in Mixes :
          LibraryStarts(mix.rows, InitDisk) /\ UploadInit(mix.uploads) /\ WatcherInit(mix.watched)
    /\ mishaps = 0 /\ scanned = <<>> /\ foreign = {}

Changed == {p \in Path : disk'[p] # disk[p]}

\* Another program puts files at the paths S, and whoever else changed a file
\* made it theirs.
Foreigners(S) == foreign' = (foreign \ Changed) \cup S

\* The export an upload has just made a row for, though the file it linked is
\* no longer there.
LateRow(u) ==
    IF nodes' # nodes /\ Export(u) # NoPath THEN
        {p \in {Export(u)} : disk[p] # Sent[u]} ELSE {}

\* A request; the exports it makes or unlinks are events for the watcher.
UploadSteps(u) ==
    /\ UploadStep(u)
    /\ Notice(Changed, LateRow(u))
    /\ Foreigners({})
    /\ UNCHANGED scanned

WatcherSteps == WatcherStep /\ UNCHANGED <<uploadVars, scanned, foreign>>

Lost == \E p \in Watched : Overflow(p) /\ UNCHANGED <<uploadVars, scanned, foreign>>

----------------------------------------------------------------------------
\* A scan makes good what the watcher owed a path it is not busy with.
Healed(p) ==
    IF p \in PendingPaths \cup {nodes[n].path : n \in consumer.rows} THEN owed
    ELSE owed \ {p}

\* A scan, one file at a time: hashed by a worker ...
ScanHash(p) ==
    /\ Up /\ scanned = <<>> /\ disk[p] # NoFile
    /\ scanned' = <<Processed(p, disk[p])>>
    /\ UNCHANGED <<library, uploadVars, watcherVars, foreign>>

\* ... and committed later, whatever became of the file.
ScanCommit ==
    LET r   == scanned[1]
        out == CommitBatch(<<r>>)
    IN  /\ scanned # <<>> /\ FreeIds(nodes) # {}
        /\ scanned' = <<>>
        /\ IF out.ok
             THEN /\ nodes' = out.nodes /\ stat' = out.stat
                  /\ owed' = CASE disk[r.path] # r.stat -> (owed \cup {r.path}) \cap Watched
                               [] LiveAt(out.nodes, r.path) # {} -> Healed(r.path)
                               [] OTHER -> owed
             ELSE UNCHANGED <<nodes, stat, owed>>
        /\ UNCHANGED <<disk, mishaps, uploadVars, timers, settling, backlog, consumer,
                       watching, watchJob, foreign>>

\* A sweep marks a row whose file is gone.
Sweep(n) ==
    /\ Up /\ nodes[n].state = "ACTIVE" /\ disk[nodes[n].path] = NoFile
    /\ nodes' = MarkNodeMissing(nodes, n)
    /\ owed' = Healed(nodes[n].path)
    /\ UNCHANGED <<stat, disk, mishaps, uploadVars, timers, settling, backlog, consumer,
                   watching, watchJob, scanned, foreign>>

\* A row goes to the trash, and its file with it if there is one, unless it is
\* a master archive's.
Trash(n) ==
    LET p    == nodes[n].path
        gone == IF LocOf[p] \in Tier3 THEN {} ELSE {p}
    IN  /\ Up /\ Live(nodes[n]) /\ Mishap
        /\ nodes' = MarkNodeTrashed(nodes, n)
        /\ disk' = [q \in Path |-> IF q \in gone THEN NoFile ELSE disk[q]]
        /\ excused' = excused \cup Taken(gone)
        /\ Notice(Changed, {})
        /\ Foreigners({})
        /\ UNCHANGED <<stat, upload, acked, stuck, scanned>>

\* Another program writes or removes one file ...
Write(p, f) ==
    /\ <<p, f>> \in Foreign /\ disk[p] # f /\ Mishap
    /\ disk' = [disk EXCEPT ![p] = f]
    /\ excused' = excused \cup Taken({p})
    /\ Notice(Changed, {})
    /\ Foreigners(IF f = NoFile THEN {} ELSE {p})
    /\ UNCHANGED <<nodes, stat, upload, acked, stuck, scanned>>

\* ... renames one, onto a free name ...
Rename(p, q) ==
    /\ {p, q} \subseteq Watched /\ disk[p] # NoFile /\ disk[q] = NoFile /\ Mishap
    /\ disk' = [disk EXCEPT ![q] = disk[p], ![p] = NoFile]
    /\ Notice(Changed, {})
    /\ Foreigners({q})
    /\ UNCHANGED <<nodes, stat, uploadVars, scanned>>

\* ... or moves the folder out of the tree: one event, for the folder.
MoveOut ==
    /\ \E q \in InFolder : disk[q] # NoFile
    /\ Mishap
    /\ disk' = [p \in Path |-> IF p \in InFolder THEN NoFile ELSE disk[p]]
    /\ excused' = excused \cup Taken(InFolder)
    /\ Notice({Folder}, {})
    /\ Foreigners({})
    /\ UNCHANGED <<nodes, stat, upload, acked, stuck, scanned>>

World ==
    \/ \E p \in Path : ScanHash(p)
    \/ ScanCommit
    \/ \E n \in Node : Sweep(n) \/ Trash(n)
    \/ \E p \in Path, f \in File : Write(p, f)
    \/ \E p, q \in Watched : Rename(p, q)
    \/ MoveOut

----------------------------------------------------------------------------
Shutdown == Stop /\ Mishap /\ UNCHANGED <<uploadVars, scanned, foreign>>

\* After an orderly stop, or a crash at any moment.
Restart ==
    /\ WatcherRestarts /\ UploadsDie
    /\ scanned' = <<>>
    /\ \/ watching = "off" /\ UNCHANGED mishaps
       \/ Mishap
    /\ UNCHANGED <<nodes, stat, disk, acked, excused, stuck, foreign>>

Next ==
    \/ \E u \in Uploader : UploadSteps(u)
    \/ WatcherSteps
    \/ Lost
    \/ World
    \/ Shutdown
    \/ Restart

Spec == Init /\ [][Next]_vars

\* The timers of a path fire and its callbacks return from their sleep; the
\* consumer keeps going.
Fairness ==
    /\ \A p \in Key : WF_vars(DebouncerStep(p) /\ UNCHANGED <<uploadVars, scanned, foreign>>)
    /\ WF_vars((ConsumerStep \/ Finalize) /\ UNCHANGED <<uploadVars, scanned, foreign>>)

FairSpec == Spec /\ Fairness

----------------------------------------------------------------------------
\* Every variable holds a value of its kind.
TypeOK ==
    /\ nodes \in Table /\ stat \in [Node -> File]
    /\ disk \in [Path -> File] /\ mishaps \in 0..MaxMishap
    /\ upload \in [Uploader -> Request]
    /\ acked \subseteq Content /\ excused \subseteq Content /\ stuck \subseteq Path
    /\ timers \subseteq Key /\ settling \subseteq Watched \X Content
    /\ backlog \in Seq(WatchItem) /\ Len(backlog) <= WatchCap
    /\ consumer \in Consumer
    /\ watching \in {"on", "stopping", "off", "never"}
    /\ watchJob \in {"RUNNING", "CANCELLED"}
    /\ owed \subseteq Watched
    /\ scanned \in {<<>>} \cup {<<r>> : r \in FileResult}
    /\ foreign \subseteq Path

\* Once nothing is pending, the rows agree with every watched path whose news
\* was not given up on the way: no ACTIVE row for a file that is gone, and a
\* file that is there is known (the hand-off of watchWork, rebaseIfMoved and
\* handleRemoval, in whatever order events, scans, uploads and the trash come).
EventsSettle ==
    Quiet /\ scanned = <<>> /\ ~(\E u \in Uploader : InDoubt(u))
    => \A p \in Watched \ owed : Settled(p)

\* However a request ends, it leaves no file behind that no row tells of, not
\* the master and not the export, but one it has tried and failed to unlink
\* (removeFile's error is dropped, and nothing tries again) or a crash has left.
\* A file that another program put at the same path is that program's.
NoOrphans ==
    (\A u \in Uploader : upload[u].step \in {"begin", "done"})
    => \A u \in Uploader : upload[u].step = "done"
         => \A p \in Held(u) \ (foreign \cup stuck) : disk[p] = Sent[u]
              => \E n \in Node : Exists(nodes[n]) /\ nodes[n].path = p

\* Whatever is pending is handled or given up: re-arming, the bounded queue and
\* the settle sample put nothing off for ever.  (A model out of rows stops.)
EventsHandled == Pending # {} ~> Pending = {} \/ FreeIds(nodes) = {}
=============================================================================
