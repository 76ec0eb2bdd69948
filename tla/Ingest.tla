------------------------------- MODULE Ingest -------------------------------
(***************************************************************************)
(* The scan job: internal/pipeline/scan.go and sweep.go, with the worker   *)
(* pool of internal/workers/pool.go.  A scan is two goroutines.  One walks *)
(* the location and submits files to the pool, the other commits what the  *)
(* pool's workers send it, batch by batch; when both are through, rows not *)
(* seen since the scan began are swept to MISSING and the job row is       *)
(* closed.  Scans of the two kinds may overlap and share the pool.         *)
(*                                                                         *)
(* last_seen_at is only ever compared with the start of a scan.  The rows  *)
(* older than that are scan[k].stale; the rows seen in the current second  *)
(* are fresh, which a scan starting in that second does not call stale.    *)
(***************************************************************************)
EXTENDS Library

CONSTANTS
    ScanKind,        \* a subset of {"FULL_SCAN", "INCREMENTAL"}
    Scanned,         \* the storage location being scanned
    Workers, QueueCap, ResultsCap, BatchSize,
    Foreign,         \* bound: the writes of other programs, <<path, file>>
    Uploads,         \* bound: the uploads, <<path, content>>
    Unreadable       \* paths whose directory entry may be unreadable

ASSUME IngestAssumption ==
    /\ ScanKind \subseteq {"FULL_SCAN", "INCREMENTAL"}
    /\ Scanned \in Loc
    /\ {Workers, QueueCap, ResultsCap, BatchSize} \subseteq Nat \ {0}
    /\ Foreign \subseteq Path \X File /\ Uploads \subseteq Path \X Content
    /\ Unreadable \subseteq Path

VARIABLES
    fresh,     \* rows whose last_seen_at is the current second
    jobs,      \* the state of the latest scan_jobs row of each kind
    scan,      \* the two goroutines of each kind's scan
    queue,     \* Pool.jobs
    busy,      \* the tasks workers are executing
    dropped,   \* tasks drained at shutdown whose OnAbandon has still to run
    released,  \* whether the first of them has already called wg.Done
    pool,      \* "open", "cancelled" (its context) or "closed" (drained)
    history    \* what the properties need to know of a scan's past

dbVars   == <<nodes, stat, fresh>>
poolVars == <<queue, busy, dropped, released, pool>>
vars == <<dbVars, disk, jobs, scan, poolVars, history, mishaps>>

\* out is empty while the file is being hashed.
Task == [kind : ScanKind, path : Path, ver : Content,
         out : {<<>>} \cup {<<r>> : r \in FileResult}]

\* phase walk: the walk goroutine visits paths; wait: it waits for its tasks;
\* closed: it has closed results; end: swept, the job row is still RUNNING.
Scan == [phase       : {"idle", "walk", "wait", "closed", "end"},
         todo        : SUBSET Path,                 \* still to be visited
         seen        : BOOLEAN,                     \* filesSeen > 0
         touch       : SUBSET (Node \X Path \X Content),
         uncertain   : SUBSET Path,
         failed      : BOOLEAN,                     \* walkErr
         interrupted : BOOLEAN,
         cancelled   : BOOLEAN,                     \* the scan's own context
         results     : Seq(FileResult),
         buf         : Seq(FileResult),
         stale       : SUBSET Node]                 \* last_seen_at < startedAt

Idle == [phase |-> "idle", todo |-> {}, seen |-> FALSE, touch |-> {},
         uncertain |-> {}, failed |-> FALSE, interrupted |-> FALSE,
         cancelled |-> FALSE, results |-> <<>>, buf |-> <<>>, stale |-> {}]

\* steady: paths not written since the scan began; blind: paths the walk could
\* not read; alone: no other scan has run meanwhile; unswept: the sweep
\* failed; stuck: this process could not write the end of the scan.
History == [steady : SUBSET Path, blind : SUBSET Path,
            alone : BOOLEAN, unswept : BOOLEAN, stuck : BOOLEAN]

Here == {p \in Path : LocOf[p] = Scanned}

Init ==
    /\ LibraryInit
    /\ fresh = {}
    /\ jobs = [k \in ScanKind |-> "NONE"]
    /\ scan = [k \in ScanKind |-> Idle]
    /\ queue = <<>> /\ busy = {} /\ dropped = <<>> /\ released = FALSE
    /\ pool = "open"
    /\ history = [k \in ScanKind |-> [steady |-> {}, blind |-> {}, alone |-> FALSE,
                                   unswept |-> FALSE, stuck |-> FALSE]]

\* InTx under the scan's context: it fails if that is cancelled, or by a fault.
TxRuns(k)  == ~scan[k].cancelled /\ UNCHANGED mishaps
TxFails(k) == IF scan[k].cancelled THEN UNCHANGED mishaps ELSE Mishap

\* last_seen_at = unixepoch() for the rows S.
Bump(s, S) == [k \in ScanKind |-> [s[k] EXCEPT !.stale = @ \ S]]

Uncertain(s, k, S) == [s EXCEPT ![k].uncertain = @ \cup S]

Interrupt(s, k, b) == [s EXCEPT ![k].interrupted = @ \/ b]

----------------------------------------------------------------------------
\* The walk goroutine.

\* CountRunningScansForLocationByKind
AlreadyRunning(k) == jobs[k] = "RUNNING"

\* createScanJob and startScanAsync
Start(k) ==
    /\ pool = "open"
    /\ ~AlreadyRunning(k)
    /\ jobs' = [jobs EXCEPT ![k] = "RUNNING"]
    /\ scan' = [scan EXCEPT ![k] =
         [Idle EXCEPT !.phase = "walk", !.todo = Here,
                      !.stale = {n \in Node : Exists(nodes[n])} \ fresh]]
    /\ LET others == {j \in ScanKind \ {k} : scan[j].phase # "idle"}
       IN  history' = [j \in ScanKind |->
              IF j = k THEN [steady |-> Path, blind |-> {}, alone |-> others = {},
                              unswept |-> FALSE, stuck |-> FALSE]
              ELSE [history[j] EXCEPT !.alone = FALSE]]
    /\ UNCHANGED <<dbVars, disk, poolVars, mishaps>>

\* The walk is at p; the touch batch has room.
At(k, p) ==
    /\ scan[k].phase = "walk" /\ p \in scan[k].todo
    /\ Cardinality(scan[k].touch) < BatchSize

Visited(k, p) == [scan EXCEPT ![k].todo = @ \ {p}, ![k].seen = TRUE]

VisitAbsent(k, p) ==
    /\ At(k, p) /\ ~scan[k].cancelled
    /\ disk[p] = NoFile
    /\ scan' = [scan EXCEPT ![k].todo = @ \ {p}]
    /\ UNCHANGED <<dbVars, disk, jobs, poolVars, history, mishaps>>

\* indexer.Walk logs an entry it cannot read and goes on without it.
VisitUnreadable(k, p) ==
    /\ At(k, p) /\ ~scan[k].cancelled
    /\ p \in Unreadable /\ disk[p] # NoFile /\ Mishap
    /\ scan' = [scan EXCEPT ![k].todo = @ \ {p}]
    /\ history' = [history EXCEPT ![k].blind = @ \cup {p}]
    /\ UNCHANGED <<dbVars, disk, jobs, poolVars>>

\* sweepUnchanged: the rows a differential scan may touch without hashing.
SweepUnchanged(k, p) ==
    IF k = "INCREMENTAL"
      THEN {n \in LiveAt(nodes, p) : nodes[n].state = "ACTIVE" /\ stat[n] = disk[p]}
      ELSE {}

VisitUnchanged(k, p) ==
    /\ At(k, p) /\ ~scan[k].cancelled
    /\ disk[p] # NoFile
    /\ \E n \in SweepUnchanged(k, p) :
         scan' = [Visited(k, p) EXCEPT ![k].touch = @ \cup {<<n, p, disk[p]>>}]
    /\ UNCHANGED <<dbVars, disk, jobs, poolVars, history, mishaps>>

\* Keys of the pool that are in flight; a drained task has given its key back.
InFlight == {t.path : t \in Elements(queue) \cup busy}

\* SubmitWait: waits for room; refuses a key in flight, a dead context and a
\* pool that is shutting down.
Submit(k, p) ==
    /\ At(k, p) /\ ~scan[k].cancelled
    /\ disk[p] # NoFile /\ SweepUnchanged(k, p) = {}
    /\ pool = "open" /\ p \notin InFlight /\ Len(queue) < QueueCap
    /\ queue' = Append(queue, [kind |-> k, path |-> p, ver |-> disk[p], out |-> <<>>])
    /\ scan' = Visited(k, p)
    /\ UNCHANGED <<dbVars, disk, jobs, busy, dropped, released, pool, history, mishaps>>

\* Mutant: a refused path is only counted.
CountRefused(k, p) == Interrupt(Visited(k, p), k, pool # "open")

SubmitRefused(k, p) ==
    Uncertain(Interrupt(Visited(k, p), k, pool # "open"), k, {p})

Refuse(k, p) ==
    /\ At(k, p)
    /\ disk[p] # NoFile /\ SweepUnchanged(k, p) = {}
    /\ pool # "open" \/ p \in InFlight \/ scan[k].cancelled
    /\ scan' = SubmitRefused(k, p)
    /\ UNCHANGED <<dbVars, disk, jobs, poolVars, history, mishaps>>

\* The walk stops: its context is cancelled, or the root cannot be read.
WalkFails(k) ==
    /\ scan[k].phase = "walk" /\ scan[k].todo # {}
    /\ \/ scan[k].cancelled /\ UNCHANGED mishaps
       \/ ~scan[k].cancelled /\ Mishap
    /\ scan' = [scan EXCEPT ![k].todo = {}, ![k].failed = TRUE,
                            ![k].interrupted = @ \/ scan[k].cancelled]
    /\ UNCHANGED <<dbVars, disk, jobs, poolVars, history>>

\* touchBatcher.flush, when the batch is full and once after the walk.
FlushTouches(k) ==
    LET rows    == {x \in scan[k].touch : Live(nodes[x[1]])}
        touched == {x[1] : x \in rows}
        after   == [n \in Node |-> IF n \in touched THEN TouchMediaNode(nodes, n)[n]
                                   ELSE nodes[n]]
        flushed == [scan EXCEPT ![k].touch = {}]
    IN  /\ scan[k].phase = "walk" /\ scan[k].touch # {}
        /\ Cardinality(scan[k].touch) = BatchSize \/ scan[k].todo = {}
        /\ \/ /\ TxRuns(k) /\ Schema(after)
              /\ nodes' = after
              /\ stat' = [n \in Node |-> IF n \in touched
                                         THEN (CHOOSE x \in rows : x[1] = n)[3]
                                         ELSE stat[n]]
              /\ fresh' = fresh \cup touched
              /\ scan' = Bump(flushed, touched)
           \/ /\ (TxRuns(k) /\ ~Schema(after)) \/ TxFails(k)
              /\ scan' = Uncertain(flushed, k, {x[2] : x \in scan[k].touch})
              /\ UNCHANGED dbVars
        /\ UNCHANGED <<disk, jobs, poolVars, history>>

WalkDone(k) ==
    /\ scan[k].phase = "walk" /\ scan[k].todo = {} /\ scan[k].touch = {}
    /\ scan' = [scan EXCEPT ![k].phase = "wait"]
    /\ UNCHANGED <<dbVars, disk, jobs, poolVars, history, mishaps>>

\* The tasks that still hold a token of their scan's wait group.
Tokens ==
    Elements(queue) \cup busy
    \cup Elements(IF released THEN Tail(dropped) ELSE dropped)

\* wg.Wait, then close(results).
CloseResults(k) ==
    /\ scan[k].phase = "wait"
    /\ \A t \in Tokens : t.kind # k
    /\ scan' = [scan EXCEPT ![k].phase = "closed"]
    /\ UNCHANGED <<dbVars, disk, jobs, poolVars, history, mishaps>>

WalkStep(k) ==
    \/ \E p \in Path : VisitAbsent(k, p) \/ VisitUnchanged(k, p)
                       \/ Submit(k, p) \/ Refuse(k, p)
    \/ FlushTouches(k)
    \/ WalkDone(k)
    \/ CloseResults(k)
    \/ scan[k].cancelled /\ WalkFails(k)

----------------------------------------------------------------------------
\* The worker pool.

Dequeue ==
    /\ queue # <<>> /\ Cardinality(busy) < Workers /\ pool # "closed"
    /\ busy' = busy \cup {Head(queue)}
    /\ queue' = Tail(queue)
    /\ UNCHANGED <<dbVars, disk, jobs, scan, dropped, released, pool, history, mishaps>>

\* processFile on a file that is still the one the walk saw.  A worker whose
\* context is dead can look up neither a collision nor the row at the path.
ProcessedTask(t) ==
    IF pool = "open" THEN Processed(t.path, t.ver)
    ELSE HashedAs(t.path, t.ver, NeedsFullHash(t.path, FALSE))

\* A task ends without a result.
Lose(t, interrupted) ==
    /\ busy' = busy \ {t}
    /\ scan' = Uncertain(Interrupt(scan, t.kind, interrupted), t.kind, {t.path})

\* The file is hashed; or it changed or vanished since the walk saw it, or
\* cannot be read.
Hash(t) ==
    /\ t \in busy /\ t.out = <<>>
    /\ \/ /\ disk[t.path] = t.ver
          /\ busy' = (busy \ {t}) \cup {[t EXCEPT !.out = <<ProcessedTask(t)>>]}
          /\ UNCHANGED <<scan, mishaps>>
       \/ /\ disk[t.path] # t.ver
          /\ Lose(t, disk[t.path] = NoFile /\ pool # "open")
          /\ UNCHANGED mishaps
       \/ /\ disk[t.path] = t.ver /\ Mishap
          /\ Lose(t, pool # "open")
    /\ UNCHANGED <<dbVars, disk, jobs, queue, dropped, released, pool, history>>

\* results <- *result, unless the pool shuts down first.
Send(t) ==
    /\ t \in busy /\ t.out # <<>>
    /\ \/ /\ Len(scan[t.kind].results) < ResultsCap
          /\ busy' = busy \ {t}
          /\ scan' = [scan EXCEPT ![t.kind].results = Append(@, t.out[1])]
       \/ /\ pool # "open"
          /\ Lose(t, TRUE)
    /\ UNCHANGED <<dbVars, disk, jobs, queue, dropped, released, pool, history, mishaps>>

\* Mutant: the queue is not drained when the pool closes.
LeftInQueue == dropped' = <<>> /\ queue' = queue

\* drainLocked
Drained == dropped' = queue /\ queue' = <<>>

ClosePool ==
    /\ pool = "cancelled"
    /\ pool' = "closed"
    /\ Drained
    /\ UNCHANGED <<dbVars, disk, jobs, scan, busy, released, history, mishaps>>

\* OnAbandon of the next drained task: wg.Done comes first ...
AbandonDone ==
    /\ dropped # <<>> /\ ~released
    /\ released' = TRUE
    /\ UNCHANGED <<dbVars, disk, jobs, scan, queue, busy, dropped, pool, history, mishaps>>

\* ... and the path is recorded only then.
AbandonRecord ==
    LET t == Head(dropped)
    IN  /\ released
        /\ released' = FALSE
        /\ dropped' = Tail(dropped)
        /\ scan' = IF scan[t.kind].phase = "idle" THEN scan
                   ELSE Uncertain(Interrupt(scan, t.kind, TRUE), t.kind, {t.path})
        /\ UNCHANGED <<dbVars, disk, jobs, queue, busy, pool, history, mishaps>>

PoolStep == Dequeue \/ ClosePool \/ AbandonDone \/ AbandonRecord

----------------------------------------------------------------------------
\* The commit goroutine.

Receive(k) ==
    /\ scan[k].results # <<>> /\ Len(scan[k].buf) < BatchSize
    /\ scan' = [scan EXCEPT ![k].results = Tail(@),
                            ![k].buf = Append(@, Head(scan[k].results))]
    /\ UNCHANGED <<dbVars, disk, jobs, poolVars, history, mishaps>>

\* The flush of drainAndCommit: when the buffer is full, on a tick, at the end.
FlushBatch(k) ==
    LET buf     == scan[k].buf
        out     == CommitBatch(buf)
        flushed == [scan EXCEPT ![k].buf = <<>>]
    IN  /\ buf # <<>> /\ Len(buf) <= Cardinality(FreeIds(nodes))
        /\ \/ /\ TxRuns(k) /\ out.ok
              /\ nodes' = out.nodes
              /\ stat' = out.stat
              /\ fresh' = fresh \cup out.seen
              /\ scan' = Bump(flushed, out.seen)
           \/ /\ (TxRuns(k) /\ ~out.ok) \/ TxFails(k)
              /\ scan' = Uncertain(flushed, k, {r.path : r \in Elements(buf)})
              /\ UNCHANGED dbVars
        /\ UNCHANGED <<disk, jobs, poolVars, history>>

AllCommitted(k) ==
    /\ scan[k].phase = "closed" /\ scan[k].results = <<>> /\ scan[k].buf = <<>>

\* A failed walk proves nothing about the files it did not reach, nor does one
\* that saw no file at all.
SkipSweep(k) ==
    /\ AllCommitted(k)
    /\ scan[k].failed \/ ~scan[k].seen
    /\ scan' = [scan EXCEPT ![k].phase = "end"]
    /\ UNCHANGED <<dbVars, disk, jobs, poolVars, history, mishaps>>

\* Mutant: only a full scan sweeps.
FullScanUnseen(k) ==
    {n \in scan[k].stale : /\ k = "FULL_SCAN" /\ nodes[n].state = "ACTIVE"
                           /\ LocOf[nodes[n].path] = Scanned
                           /\ nodes[n].path \notin scan[k].uncertain}

\* MarkUnseenNodesMissing
Unseen(k) ==
    {n \in scan[k].stale : /\ nodes[n].state = "ACTIVE"
                           /\ LocOf[nodes[n].path] = Scanned
                           /\ nodes[n].path \notin scan[k].uncertain}

\* A failed sweep is only logged.
Sweep(k) ==
    /\ AllCommitted(k)
    /\ ~scan[k].failed /\ scan[k].seen
    /\ \/ /\ TxRuns(k)
          /\ nodes' = [n \in Node |-> IF n \in Unseen(k)
                                      THEN MarkNodeMissing(nodes, n)[n] ELSE nodes[n]]
          /\ UNCHANGED history
       \/ /\ TxFails(k)
          /\ history' = [history EXCEPT ![k].unswept = TRUE]
          /\ UNCHANGED nodes
    /\ scan' = [scan EXCEPT ![k].phase = "end"]
    /\ UNCHANGED <<stat, fresh, disk, jobs, poolVars>>

\* A walk that failed for its own reasons is FAILED even if cancelled since.
JobState(s) ==
    IF s.interrupted \/ (s.cancelled /\ ~s.failed) THEN "CANCELLED"
    ELSE IF s.failed THEN "FAILED" ELSE "COMPLETED"

\* The terminal write of the job row; if it fails the row stays RUNNING.
End(k) ==
    /\ scan[k].phase = "end"
    /\ \/ /\ jobs' = [jobs EXCEPT ![k] = JobState(scan[k])]
          /\ UNCHANGED <<history, mishaps>>
       \/ /\ Mishap
          /\ history' = [history EXCEPT ![k].stuck = TRUE]
          /\ UNCHANGED jobs
    /\ scan' = [scan EXCEPT ![k] = Idle]
    /\ UNCHANGED <<dbVars, disk, poolVars>>

CommitStep(k) == Receive(k) \/ FlushBatch(k) \/ SkipSweep(k) \/ Sweep(k) \/ End(k)

----------------------------------------------------------------------------
\* The rest of the world.

\* ScanTracker.Cancel
Cancel(k) ==
    /\ scan[k].phase # "idle" /\ ~scan[k].cancelled /\ Mishap
    /\ scan' = [scan EXCEPT ![k].cancelled = TRUE]
    /\ UNCHANGED <<dbVars, disk, jobs, poolVars, history>>

Written(p) == [k \in ScanKind |-> [history[k] EXCEPT !.steady = @ \ {p}]]

ExternalWrite(p, f) ==
    /\ <<p, f>> \in Foreign /\ disk[p] # f /\ Mishap
    /\ disk' = [disk EXCEPT ![p] = f]
    /\ history' = Written(p)
    /\ UNCHANGED <<dbVars, jobs, scan, poolVars>>

\* An upload, as one step: a new file and its row, unless the content is
\* indexed.  The row gets the time of the insert for an mtime.
Upload(p, x) ==
    LET inserted == InsertNewNode(nodes, [path |-> p, fast |-> FastOf[x], full |-> x])
    IN  /\ <<p, x>> \in Uploads /\ disk[p] = NoFile
        /\ Owners(nodes, x) = {} /\ FreeIds(nodes) # {}
        /\ Schema(inserted) /\ Mishap
        /\ disk' = [disk EXCEPT ![p] = x]
        /\ nodes' = inserted
        /\ stat' = [stat EXCEPT ![NextId(nodes)] = NoFile]
        /\ fresh' = fresh \cup {NextId(nodes)}
        /\ history' = Written(p)
        /\ UNCHANGED <<jobs, scan, poolVars>>

\* A second passes.
Tick ==
    /\ fresh # {}
    /\ fresh' = {}
    /\ UNCHANGED <<nodes, stat, disk, jobs, scan, poolVars, history, mishaps>>

\* The signal context is cancelled: it is the pool's context.  A shutdown that
\* interrupts a scan counts as a mishap.
Shutdown ==
    /\ pool = "open"
    /\ pool' = "cancelled"
    /\ IF \A k \in ScanKind : scan[k].phase = "idle" THEN UNCHANGED mishaps ELSE Mishap
    /\ UNCHANGED <<dbVars, disk, jobs, scan, queue, busy, dropped, released, history>>

\* Mutant: orphaned jobs stay as they are.
Orphaned(state) == state

\* reconcileOrphanedScanJobs
Reconciled(state) == IF state = "RUNNING" THEN "FAILED" ELSE state

\* Start-up: no scan of the last process is running.
Boot ==
    /\ jobs' = [k \in ScanKind |-> Reconciled(jobs[k])]
    /\ history' = [k \in ScanKind |-> [history[k] EXCEPT !.stuck = FALSE]]
    /\ scan' = [k \in ScanKind |-> Idle]
    /\ queue' = <<>> /\ busy' = {} /\ dropped' = <<>> /\ released' = FALSE
    /\ pool' = "open"
    /\ UNCHANGED <<dbVars, disk>>

\* After an orderly shutdown, or a crash at any moment.
Restart ==
    /\ Boot
    /\ \/ /\ pool = "closed" /\ busy = {} /\ dropped = <<>>
          /\ \A k \in ScanKind : scan[k].phase = "idle"
          /\ UNCHANGED mishaps
       \/ Mishap

Next ==
    \/ \E k \in ScanKind :
         \/ Start(k) \/ WalkStep(k) \/ CommitStep(k) \/ Cancel(k)
         \/ \E p \in Path : VisitUnreadable(k, p)
         \/ ~scan[k].cancelled /\ WalkFails(k)
    \/ \E t \in busy : Hash(t) \/ Send(t)
    \/ PoolStep
    \/ \E p \in Path, f \in File : ExternalWrite(p, f)
    \/ \E p \in Path, x \in Content : Upload(p, x)
    \/ Tick
    \/ Shutdown
    \/ Restart

\* Every goroutine keeps running.  A walk that waits for room in the queue
\* polls, and finds room in the end.
Fairness ==
    /\ \A k \in ScanKind : SF_vars(WalkStep(k)) /\ WF_vars(CommitStep(k))
    /\ \A p \in Path : WF_vars(\E t \in busy : t.path = p /\ (Hash(t) \/ Send(t)))
    /\ WF_vars(PoolStep)

Spec == Init /\ [][Next]_vars
FairSpec == Spec /\ Fairness

----------------------------------------------------------------------------
\* Every variable holds a value of its kind.
TypeOK ==
    /\ nodes \in Table
    /\ stat \in [Node -> File]
    /\ fresh \subseteq Node
    /\ disk \in [Path -> File]
    /\ jobs \in [ScanKind -> {"NONE", "RUNNING", "COMPLETED", "CANCELLED", "FAILED"}]
    /\ scan \in [ScanKind -> Scan]
    /\ queue \in Seq(Task) /\ busy \subseteq Task
    /\ dropped \in Seq(Task) /\ released \in BOOLEAN
    /\ pool \in {"open", "cancelled", "closed"}
    /\ history \in [ScanKind -> History]
    /\ mishaps \in 0..MaxMishap

\* The path of a task whose token is released but not yet its uncertainty recorded.
Losing == IF released THEN {Head(dropped).path} ELSE {}

\* The paths that have held the same file since the scan began.
Present(k) == {p \in history[k].steady : disk[p] # NoFile}

Swept(k) ==
    {n \in Node : /\ scan[k].phase = "closed" /\ scan'[k].phase = "end"
                  /\ nodes[n].state = "ACTIVE" /\ nodes'[n].state = "MISSING"}

\* A sweep marks a row only if its file was gone at some time of the scan,
\* whatever failed, was refused or was overtaken by the other scan; the two
\* gaps the code has are excepted: an entry the walk could not read, and a
\* task being abandoned.
SweepSparesFiles ==
    [][\A k \in ScanKind : \A n \in Swept(k) :
         \/ nodes[n].path \notin Present(k)
         \/ nodes[n].path \in history[k].blind \cup Losing]_vars

\* A scan that ran alone, completed, left nothing uncertain and whose sweep
\* went through (one that failed is "delayed-not-wrong, swept next pass") has
\* made the live rows agree with every file that did not change meanwhile: a
\* row whose file is there is ACTIVE with the file's fast hash, a row seen in
\* an earlier second whose file is not there is MISSING.
Agrees(k, p) ==
    \A n \in LiveAt(nodes, p) :
        IF disk[p] = NoFile
          THEN nodes[n].state = "MISSING" \/ n \notin scan[k].stale
          ELSE nodes[n].state = "ACTIVE" /\ nodes[n].fast = FastOf[disk[p]]

CompletedScanAgrees ==
    [][\A k \in ScanKind :
         /\ scan[k].phase = "end" /\ jobs'[k] = "COMPLETED"
         /\ scan[k].uncertain = {} /\ scan[k].seen
         /\ history[k].alone /\ ~history[k].unswept
         => \A p \in (Here \cap history[k].steady) \ (history[k].blind \cup Losing) :
              Agrees(k, p)]_vars

\* A job row is RUNNING exactly while a scan of its kind is under way in this
\* process, so the guard of createScanJob refuses no location for good; only a
\* terminal write that failed leaves one RUNNING, and the next start ends that
\* (ErrScanAlreadyRunning: a crash "can never permanently strand a location").
ScanHasJob ==
    \A k \in ScanKind :
        jobs[k] = "RUNNING" <=> scan[k].phase # "idle" \/ history[k].stuck

\* No batch is refused by the schema (skipDuplicateContent: the violation "used
\* to roll back every other file in the batch").
NoPoisonedBatch ==
    \A k \in ScanKind :
        LET buf == scan[k].buf
        IN  buf # <<>> /\ Len(buf) <= Cardinality(FreeIds(nodes)) => CommitBatch(buf).ok

\* Every scan comes to an end, also when the pool shuts down with its queue and
\* the results channel full (runScan: the walk's wg.Wait "always terminates").
ScanEnds ==
    \A k \in ScanKind : scan[k].phase # "idle" ~> scan[k].phase = "idle"
=============================================================================
