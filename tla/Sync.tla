-------------------------------- MODULE Sync --------------------------------
(***************************************************************************)
(* Remote sync: internal/sync (manager, worker, supervisor) with           *)
(* remote_sync_state, the settings store that swaps its worker, and what   *)
(* scans and the trash do to the exports it pushes.  One remote.           *)
(*                                                                         *)
(* last_attempt_at is compared only with five minutes ago and for order:   *)
(* old[n] says that row n is on the far side, and a claim takes old rows   *)
(* before the others, in any order among themselves.                       *)
(***************************************************************************)
EXTENDS Settings, FiniteSets, Integers

CONSTANTS
    Node,             \* ids of the exports, integers
    Under,            \* Under[c]: the nodes below the export path of c
    Off,              \* configurations startLocked does not start a worker for
    BatchSize,
    Multiplier,       \* maxSubBatchesPerTick = enqueueDiscoveryMultiplier
    MaxRetries,       \* DefaultMaxSyncRetries
    TriggerAttempts,  \* attempts of one TriggerScan
    InitConfig,
    MaxMishap         \* bound: requests, crashes, faults, absent files

ASSUME SyncAssumption ==
    /\ Node \subseteq Int /\ IsFiniteSet(Node)
    /\ Off \subseteq Config /\ InitConfig \in Config
    /\ Under \in [Config -> SUBSET Node]
    /\ {BatchSize, Multiplier, MaxRetries, TriggerAttempts} \subseteq Nat \ {0}
    /\ MaxMishap \in Nat

VARIABLES
    life,     \* lifecycle_state; "NONE": not indexed yet
    there,    \* nodes whose file is at its path
    row,      \* sync_status and retry_count; "NONE": no row
    old,      \* rows whose last_attempt_at is over five minutes ago
    worker,   \* the goroutine of Worker.run
    running,  \* Supervisor.running
    process,  \* "up", "stopping" (root context cancelled) or "down"
    asked,    \* rows older than the latest scan request the remote accepted
    struck,   \* a crash or a failed write has left claimed rows behind
    unheard,  \* a reload of the settings has failed since the last good one
    mishaps   \* bounded events so far

rowVars == <<row, old, asked>>
nodeVars == <<life, there>>
swapVars == <<settingsVars, running>>
vars == <<nodeVars, rowVars, worker, swapVars, process, struck, unheard, mishaps>>

NoRow == [st |-> "NONE", retry |-> 0]

Status == {"NONE", "PENDING", "PUSHING", "PUSHED", "FAILED"}

Phase == {"none", "recover", "list", "enqueue", "claim", "push", "settle", "sleep"}

NoWorker == [phase |-> "none", todo |-> {}, batch |-> {}, round |-> 0,
             triggered |-> FALSE, tries |-> 0, ok |-> FALSE, cancelled |-> FALSE]

Worker == [NoWorker EXCEPT !.phase = "recover"]

Live(n) == life[n] = "ACTIVE"

Rows(s) == {n \in Node : row[n].st = s}

\* Of the set S, the k members that come first, ties in any order.
FirstOf(S, k, Before(_, _)) ==
    {T \in SUBSET S :
        /\ Cardinality(T) = IF Cardinality(S) < k THEN Cardinality(S) ELSE k
        /\ \A a \in T, b \in S \ T : ~Before(b, a)}

TypeOK ==
    /\ SettingsType
    /\ life \in [Node -> {"NONE", "ACTIVE", "TRASHED", "MISSING"}]
    /\ there \subseteq Node
    /\ row \in [Node -> [st : Status, retry : Nat]]
    /\ old \subseteq Node /\ asked \subseteq Node
    /\ worker \in [phase : Phase, todo : SUBSET Node, batch : SUBSET Node,
                   round : 0..Multiplier - 1, triggered : BOOLEAN,
                   tries : 0..TriggerAttempts - 1, ok : BOOLEAN, cancelled : BOOLEAN]
    /\ running \in Config
    /\ process \in {"up", "stopping", "down"}
    /\ struck \in BOOLEAN /\ unheard \in BOOLEAN
    /\ mishaps \in 0..MaxMishap

Mishap == mishaps < MaxMishap /\ mishaps' = mishaps + 1

Init ==
    /\ stored = InitConfig /\ effective = InitConfig /\ apply = "idle"
    /\ life = [n \in Node |-> "NONE"] /\ there = {}
    /\ row = [n \in Node |-> NoRow] /\ old = {} /\ asked = {}
    /\ worker = IF InitConfig \in Off THEN NoWorker ELSE Worker
    /\ running = InitConfig
    /\ process = "up"
    /\ struck = FALSE /\ unheard = FALSE
    /\ mishaps = 0

----------------------------------------------------------------------------
\* The statements of remote_sync_state.sql.

\* UpsertRemoteSyncState: S gets status s and a new last_attempt_at.
Upsert(S, s) ==
    /\ row' = [n \in Node |-> IF n \in S THEN [row[n] EXCEPT !.st = s] ELSE row[n]]
    /\ old' = old \ S

\* MarkRemoteSyncStatePushed; a row deleted meanwhile stays deleted.
MarkPushed(S) ==
    LET hit == S \ Rows("NONE")
    IN  /\ row' = [n \in Node |-> IF n \in hit THEN [st |-> "PUSHED", retry |-> 0]
                                  ELSE row[n]]
        /\ old' = old \ hit

\* MarkRemoteSyncStateFailed
MarkFailed(S) ==
    LET hit == S \ Rows("NONE")
    IN  /\ row' = [n \in Node |-> IF n \in hit
                     THEN [st |-> "FAILED", retry |-> row[n].retry + 1] ELSE row[n]]
        /\ old' = old \ hit

\* ResetRemoteSyncStateStale and ResetRemoteSyncStateFailed leave last_attempt_at.
Requeue(S) ==
    row' = [n \in Node |-> IF n \in S THEN [row[n] EXCEPT !.st = "PENDING"] ELSE row[n]]

Stale == Rows("PUSHING") \cap old

\* PUSH_FAILED long enough ago and not yet given up
Retryable == {n \in Rows("FAILED") \cap old : row[n].retry < MaxRetries}

\* ListLiveNodesForSync without its LIMIT
Untracked == {n \in Under[running] : Live(n) /\ row[n].st = "NONE"}

----------------------------------------------------------------------------
\* Worker.drain, one transaction or request at a time.

At(phase) == worker.phase = phase /\ process # "down"

Go(phase) == worker' = [worker EXCEPT !.phase = phase]

Quit == worker' = NoWorker

\* Worker.drain returns.
Return == worker' = [Worker EXCEPT !.phase = "sleep", !.cancelled = worker.cancelled]

\* The statement runs under the worker's context.
InCtx == ~worker.cancelled /\ UNCHANGED mishaps
CtxFails == IF worker.cancelled THEN UNCHANGED mishaps ELSE Mishap

\* RecoverFailedPushes; an error is only logged.
Recover ==
    /\ At("recover")
    /\ \/ InCtx /\ Requeue(Retryable)
       \/ CtxFails /\ UNCHANGED row
    /\ Go("list")
    /\ UNCHANGED <<nodeVars, old, asked, swapVars, process, struck, unheard>>

\* enqueueUntracked reads its list on the reader pool.
List ==
    /\ At("list")
    /\ \/ /\ InCtx
          /\ \E T \in FirstOf(Untracked, BatchSize * Multiplier, LAMBDA a, b : a < b) :
                worker' = [worker EXCEPT !.phase = "enqueue", !.todo = T]
       \/ CtxFails /\ Go("claim")
    /\ UNCHANGED <<nodeVars, rowVars, swapVars, process, struck, unheard>>

\* Enqueue, one transaction per listed node, whatever became of it since.
Enqueue(n) ==
    \/ /\ InCtx
       /\ IF row[n].st \in {"NONE", "FAILED"}
          THEN Upsert({n}, "PENDING") ELSE UNCHANGED <<row, old>>
    \/ CtxFails /\ UNCHANGED <<row, old>>

EnqueueNext ==
    /\ At("enqueue")
    /\ IF worker.todo = {}
       THEN Go("claim") /\ UNCHANGED <<row, old, mishaps>>
       ELSE \E n \in worker.todo :
              /\ \A k \in worker.todo : n <= k
              /\ Enqueue(n)
              /\ worker' = [worker EXCEPT !.todo = @ \ {n}]
    /\ UNCHANGED <<nodeVars, asked, swapVars, process, struck, unheard>>

\* The claiming transaction of ProcessPending
Claim ==
    /\ At("claim")
    /\ \/ /\ InCtx
          /\ \E T \in FirstOf(Rows("PENDING"), BatchSize,
                              LAMBDA a, b : a \in old /\ b \notin old) :
                /\ Upsert(T, "PUSHING")
                /\ IF T = {} THEN Return
                   ELSE worker' = [worker EXCEPT !.phase = "push", !.batch = T,
                                                 !.tries = 0]
       \/ CtxFails /\ Return /\ UNCHANGED <<row, old>>
    /\ UNCHANGED <<nodeVars, asked, swapVars, process, struck, unheard>>

PushEnds(ok) == worker' = [worker EXCEPT !.phase = "settle", !.ok = ok]

\* The remote has accepted a scan request.
Ask == asked' = Node \ Rows("NONE")

AttemptForever ==
    \/ ~worker.cancelled /\ Ask /\ PushEnds(TRUE)
    \/ /\ Ask \/ UNCHANGED asked
       /\ worker' = [worker EXCEPT !.tries = (@ + 1) % TriggerAttempts]

\* One attempt of TriggerScan: accepted; accepted but the answer is lost, or
\* not accepted, and tried again up to TriggerAttempts times; refused for good,
\* or cancelled.
Attempt ==
    \/ ~worker.cancelled /\ Ask /\ PushEnds(TRUE)
    \/ /\ Ask \/ UNCHANGED asked
       /\ IF worker.tries + 1 < TriggerAttempts /\ ~worker.cancelled
          THEN worker' = [worker EXCEPT !.tries = @ + 1]
          ELSE PushEnds(FALSE)
    \/ UNCHANGED asked /\ PushEnds(FALSE)

\* The first batch of a drain triggers a scan, later ones use noopPush.
Push ==
    /\ At("push")
    /\ IF worker.triggered THEN PushEnds(TRUE) /\ UNCHANGED asked ELSE Attempt
    /\ UNCHANGED <<nodeVars, row, old, swapVars, process, struck, unheard, mishaps>>

\* The context of the outcome write is detached from the worker's.
OutcomeWritten == UNCHANGED <<mishaps, struck>>
OutcomeCancelled ==
    \/ Mishap /\ struck' = TRUE
    \/ worker.cancelled /\ UNCHANGED <<mishaps, struck>>
OutcomeLost == Mishap /\ struck' = TRUE

\* drain's loop: a partial batch or the cap ends it.
NextBatch ==
    IF Cardinality(worker.batch) < BatchSize \/ worker.round + 1 = Multiplier
    THEN Return
    ELSE worker' = [worker EXCEPT !.phase = "claim", !.batch = {}, !.triggered = TRUE,
                                  !.round = @ + 1, !.ok = FALSE]

SettleOn ==
    /\ At("settle")
    /\ \/ /\ OutcomeWritten
          /\ IF worker.ok THEN MarkPushed(worker.batch) ELSE MarkFailed(worker.batch)
          /\ NextBatch
       \/ OutcomeLost /\ Return /\ UNCHANGED <<row, old>>
    /\ UNCHANGED <<nodeVars, asked, swapVars, process, unheard>>

\* setBatchStatus, and what drain does next
Settle ==
    /\ At("settle")
    /\ \/ /\ OutcomeWritten
          /\ IF worker.ok THEN MarkPushed(worker.batch) /\ NextBatch
                          ELSE MarkFailed(worker.batch) /\ Return
       \/ OutcomeLost /\ Return /\ UNCHANGED <<row, old>>
    /\ UNCHANGED <<nodeVars, asked, swapVars, process, unheard>>

\* Worker.run between two drains: a tick, or the end of its context.
Wake ==
    /\ At("sleep")
    /\ IF worker.cancelled THEN worker' = NoWorker ELSE worker' = Worker
    /\ UNCHANGED <<nodeVars, rowVars, swapVars, process, struck, unheard, mishaps>>

\* Supervisor.TriggerScan, which the agent drainer calls after a deletion
Rescan ==
    /\ worker.phase # "none" /\ process # "down"
    /\ Ask /\ asked' # asked
    /\ UNCHANGED <<nodeVars, row, old, worker, swapVars, process, struck, unheard, mishaps>>

WorkerStep == Recover \/ List \/ EnqueueNext \/ Claim \/ Push \/ Settle \/ Wake

----------------------------------------------------------------------------
\* Settings and the supervisor.

\* PUT /api/v1/settings
ChangeSettings ==
    /\ process = "up" /\ Mishap
    /\ \E c \in Config : CommitOverrides(c)
    /\ UNCHANGED <<nodeVars, rowVars, worker, running, process, struck, unheard>>

PublishSettings ==
    /\ process # "down"
    /\ \/ Publish /\ unheard' = FALSE /\ UNCHANGED mishaps
       \/ ReloadFails /\ unheard' = TRUE /\ Mishap
    /\ UNCHANGED <<nodeVars, rowVars, worker, running, process, struck>>

\* Supervisor.Reload: nothing to do, or cancel the worker and wait for it
Reload ==
    /\ process # "down" /\ apply = "notify"
    /\ IF effective = running
       THEN apply' = "idle" /\ UNCHANGED worker
       ELSE /\ apply' = "join"
            /\ worker' = IF worker.phase = "none" THEN worker
                         ELSE [worker EXCEPT !.cancelled = TRUE]
    /\ UNCHANGED <<nodeVars, rowVars, stored, effective, running, process, struck,
                   unheard, mishaps>>

StartAlways(c) == worker' = Worker /\ Requeue(Stale) /\ UNCHANGED mishaps

\* RecoverStalePushing and the start of a worker; an error is only logged.
StartWorker(c) ==
    IF c \in Off
    THEN worker' = NoWorker /\ UNCHANGED <<row, mishaps>>
    ELSE /\ worker' = Worker
         /\ \/ Requeue(Stale) /\ UNCHANGED mishaps
            \/ Mishap /\ UNCHANGED row

\* Worker.Wait has returned: startLocked
Restart ==
    /\ process # "down" /\ apply = "join" /\ worker.phase = "none"
    /\ running' = effective
    /\ apply' = "idle"
    /\ IF process = "stopping"
       THEN UNCHANGED <<worker, row, mishaps>> ELSE StartWorker(effective)
    /\ UNCHANGED <<nodeVars, old, asked, stored, effective, process, struck, unheard>>

SettingsStep == PublishSettings \/ Reload \/ Restart

\* The process is told to stop; the root context cancels the worker's.
Shutdown ==
    /\ process = "up" /\ Mishap
    /\ process' = "stopping"
    /\ worker' = IF worker.phase = "none" THEN worker
                 ELSE [worker EXCEPT !.cancelled = TRUE]
    /\ UNCHANGED <<nodeVars, rowVars, swapVars, struck, unheard>>

\* Supervisor.Wait has returned and the database is closed.
Exit ==
    /\ process = "stopping" /\ worker.phase = "none"
    /\ process' = "down"
    /\ UNCHANGED <<nodeVars, rowVars, worker, swapVars, struck, unheard, mishaps>>

Crash ==
    /\ process # "down" /\ Mishap
    /\ process' = "down"
    /\ worker' = NoWorker
    /\ struck' = TRUE
    /\ UNCHANGED <<nodeVars, rowVars, swapVars, unheard>>

\* main: the store is loaded and Supervisor.Start called.
Boot ==
    /\ process = "down"
    /\ process' = "up"
    /\ LoadSettings /\ unheard' = FALSE
    /\ running' = stored
    /\ StartWorker(stored)
    /\ UNCHANGED <<nodeVars, old, asked, struck>>

----------------------------------------------------------------------------
\* What else happens to exports and their rows.

\* A new export is written and indexed.
Index(n) ==
    /\ life[n] = "NONE" /\ process # "down"
    /\ life' = [life EXCEPT ![n] = "ACTIVE"] /\ there' = there \cup {n}
    /\ UNCHANGED <<rowVars, worker, swapVars, process, struck, unheard, mishaps>>

\* TrashAsset and DeleteRemoteSyncStateForNode, in its transaction
Trash(n) ==
    /\ Live(n) /\ process # "down" /\ Mishap
    /\ life' = [life EXCEPT ![n] = "TRASHED"] /\ there' = there \ {n}
    /\ row' = [row EXCEPT ![n] = NoRow]
    /\ old' = old \ {n} /\ asked' = asked \ {n}
    /\ UNCHANGED <<worker, swapVars, process, struck, unheard>>

\* RestoreTrashedAsset
Untrash(n) ==
    /\ life[n] = "TRASHED" /\ process # "down"
    /\ life' = [life EXCEPT ![n] = "ACTIVE"] /\ there' = there \cup {n}
    /\ UNCHANGED <<rowVars, worker, swapVars, process, struck, unheard, mishaps>>

\* The file goes, or comes back, and the scans that notice.
Absent(n) ==
    /\ \/ Live(n) /\ n \in there /\ Mishap /\ there' = there \ {n} /\ UNCHANGED life
       \/ /\ life[n] = "MISSING" /\ n \notin there
          /\ there' = there \cup {n} /\ UNCHANGED <<life, mishaps>>
       \/ /\ Live(n) /\ n \notin there /\ process # "down"
          /\ life' = [life EXCEPT ![n] = "MISSING"] /\ UNCHANGED <<there, mishaps>>
       \/ /\ life[n] = "MISSING" /\ n \in there /\ process # "down"
          /\ life' = [life EXCEPT ![n] = "ACTIVE"] /\ UNCHANGED <<there, mishaps>>
    /\ UNCHANGED <<rowVars, worker, swapVars, process, struck, unheard>>

\* handleSyncRetry with ManualRetryRemoteSyncState
Retry(n) ==
    /\ process # "down" /\ Mishap
    /\ row[n].st = "FAILED"
    /\ row' = [row EXCEPT ![n] = [st |-> "PENDING", retry |-> 0]]
    /\ UNCHANGED <<nodeVars, old, asked, worker, swapVars, process, struck, unheard>>

\* Five minutes pass.
Age ==
    /\ old' = Node \ Rows("NONE") /\ old' # old
    /\ UNCHANGED <<nodeVars, row, asked, worker, swapVars, process, struck, unheard, mishaps>>

Next ==
    \/ WorkerStep \/ ChangeSettings \/ SettingsStep
    \/ Rescan \/ Shutdown \/ Exit \/ Crash \/ Boot \/ Age
    \/ \E n \in Node : Index(n) \/ Trash(n) \/ Untrash(n) \/ Absent(n) \/ Retry(n)

\* Goroutines keep running and time passes.
Fairness == WF_vars(WorkerStep) /\ WF_vars(SettingsStep) /\ WF_vars(Age)

Spec == Init /\ [][Next]_vars /\ Fairness

----------------------------------------------------------------------------
\* Properties.

\* PUSHING rows no worker holds: nothing but a later start, five minutes on,
\* requeues them.
Orphaned(n) == row[n].st = "PUSHING" /\ n \notin worker.batch

\* The status of a row as PushQueue knows it.
QueueStatus(st) ==
    CASE st = "NONE" -> "none"
      [] st \in {"PENDING", "PUSHING"} -> "queued"
      [] st = "PUSHED" -> "pushed"
      [] st = "FAILED" -> "failed"

\* The sync implements PushQueue: a row is PUSHED only after the remote accepted
\* a scan requested since the row was made, across sub-batches that skip the
\* request, lost answers, cancelled workers, trash, crashes and restarts
\* (worker.go:21, manager.go:85).
Queue == INSTANCE PushQueue WITH status <- [n \in Node |-> QueueStatus(row[n].st)]

PushesImplementQueue == Queue!Spec

\* A reload or a shutdown in the middle of a push strands nothing: a PUSHING row
\* without a worker that will settle it means a crash or a lost outcome write
\* (manager.go:181).
CancelStrandsNothing == (\E n \in Node : Orphaned(n)) => struck

\* Between two settings requests the worker runs what is stored, and runs only if
\* that is on, unless a reload failed after its commit (supervisor.go:73).
WorkerFollowsSettings ==
    apply = "idle" /\ process = "up" /\ ~unheard =>
        running = stored /\ (worker.phase = "none" <=> stored \in Off)

\* Every queued node is settled or forgotten in the end, unless it is orphaned,
\* the sync is switched off or the process stops.
QueueDrains ==
    \A n \in Node :
        row[n].st \in {"PENDING", "PUSHING"} ~>
            \/ row[n].st \in {"NONE", "PUSHED", "FAILED"} \/ Orphaned(n)
            \/ running \in Off \/ process # "up"

\* Every indexed export below the export path is entered in the end, likewise.
ExportsEntered ==
    \A n \in Node :
        Live(n) ~> ~Live(n) \/ row[n].st # "NONE" \/ n \notin Under[running]
                   \/ running \in Off \/ process # "up"
=============================================================================
