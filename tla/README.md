# branchDAM in TLA+

A TLA+ model of [branchDAM](../src/README.md): a Go server that indexes media
files on several storage tiers into SQLite, keeps the lineage between masters
and their exports, and moves files only to trash, restore and prune them. This
directory holds the modules, the TLC configurations that check them on small
instances, and the TLAPS proofs that hold for every instance.

## The system

One process. SQLite in WAL mode has two pools: many readers, each seeing a
committed snapshot, and **one writer connection**. `db.InTx` holds the writer
from BEGIN to COMMIT, so write transactions never interleave with each other;
everything else does: HTTP handlers, scans and their worker pool, the file
watcher, the agent drainer, the purge, prune, re-hash, thumbnail and sync
workers, and other programs that write the same files. Rows of `media_nodes`
are never deleted; their `lifecycle_state` says what became of the file. What
is hard is nearly always the same: something is read on the reader pool or on
the disk, time passes, and a transaction or an unlink is based on it.

| Component | State | Operations | What is hard, and what must hold |
|---|---|---|---|
| Media index `db/queries` | one row per file version: lifecycle, path, fast and full hash, `superseded_by`; hash provenance | some 40 statements | unique live path and unique live full hash; a violated index fails the whole transaction |
| Scan commit `pipeline/commit.go` | the index | `Commit` of a batch of results | touch, content change, collision, move or insert; never resurrects what a person retired |
| Trash `pipeline/trash.go`, `httpapi/routes.go` | rows, trash times, cascade rows, the files and `.trash/` | trash, restore, unarchive, with linked exports | renames are not transactional; rows and files agree after every failure; a restore brings back what its trash took and loses no bytes |
| Trash purge `prune/trash.go` | `.trash/` | look a copy's age up, unlink it | never before the retention has passed |
| Scan job `pipeline/scan.go`, `workers/pool.go` | `scan_jobs`, in-flight paths, uncertain paths, batches | start, walk, hash, commit batches, resolve edges, sweep, finish, cancel | marks only absent files MISSING; one job of a kind per location; always ends; survives restarts |
| Watcher `pipeline/watcher.go`, `indexer/watch.go` | debounce timers, a bounded queue | write, rename and remove events | moves adopted, not duplicated; stale reads; dropped events healed by a scan |
| Uploads `httpapi/upload_engine.go` | a file being written, its row | create, stream, de-duplicate, insert, clean up | an acknowledged upload is on disk, also if a scan saw it first |
| Lineage `graph/`, `pipeline/inherit.go` | `media_edges`, `graph_status`, tags in files | resolve, confirm, reject, draw, inherit | acyclic; status follows the edges; directions do not depend on the order files arrive in; a person's decision stands |
| Drainer `agent/drainer.go` and the device endpoints | `event_queue`, ownership, aliases, Resolve scopes | post, claim, apply, retry, fail | order, duplicates and crashes; a device changes only its own; every event ends |
| Prune `prune/engine.go` | cache files | plan, verify on disk, re-read, unlink, mark | never removes a cache copy whose master is not there, verified |
| Re-hash `rehash/worker.go` | provenance, attempts | claim, read, record | a vouched hash is the hash of the bytes the row names |
| Thumbnails `thumbs/` | `thumb_state`, cached pictures | generate, retry, give up, heal | results of old bytes; every picture is made or given up |
| Settings and sync `settings/`, `sync/` | overrides, `remote_sync_state`, the running worker | apply and publish; enqueue, claim, push, recover | every live export is pushed at least once after it exists; a crash strands nothing; the worker runs what is stored |
| Pairing `pairing/` | pairings, keys, stored QR code | pair, rotate, adopt, revoke | the device is never locked out; the stored code shows the newest key |
| Accounts `auth/` | users, sessions, reset tokens, second factor, limiters, access tokens | sign in, reset, enrol, challenge, administer, bootstrap | codes and tokens used once, revocation wins, an administrator remains |
| Live updates, probing, parsing, mail, QR, web client | little or none | I/O and pure functions | outside the model |

`PROJECT.json` lists every component with its sources and status, and every
hazard with its line and the property that covers it.

## Modules

| Module | Models | On top of |
|---|---|---|
| `NodeStore` | `media_nodes` with `full_hash_provenance`, the indexes and CHECKs, and the statements as functions from table to table | |
| `Commit` | `pipeline/commit.go`: `CommitOne(table, result)` is the transaction of one scan result | `NodeStore` |
| `Library` | what every component shares: rows, what they record of files, files, `processFile`, the transaction of a batch | `Commit` |
| `Trash` | trash, restore, unarchive and trash purge, with scans, sweeps, crashes and other programs | `Commit` |
| `Ingest` | the scan job of both kinds, its batches and its sweep, with the worker pool | `Library` |
| `Upload`, `Watcher` | one upload per uploader; the debouncer, queue and consumer of one watched location | `Library` |
| `Arrivals` | uploads, watcher, scans, trash, other programs, stops and crashes together | `Upload`, `Watcher` |
| `EdgeStore`, `Lineage` | `media_edges` and its statements; `ResolveAndCommit`, reviews and manual edges | `Library` |
| `Resolvers` | the four resolvers and `mergeCandidates`, as functions of the index | `NodeStore` |
| `Families` | the resolution of edges during scans, its reverse pass and its retry, with uploads and people | `Lineage`, `Resolvers` |
| `Agent` | `event_queue`, the drainer and its six kinds of event, the synchronous rebase, Resolve snapshots | `Lineage` |
| `Prune`, `Rehash`, `Thumbs`, `Inherit` | cache purge; re-hash worker; thumbnails; inheritance of tags | `Lineage` or `Library` |
| `Upkeep` | the four of them together, with scans, devices, people, other programs and restarts | those four |
| `Settings` | `settings.Store.Apply`: write, reload, publish, notify | |
| `PushQueue` | abstract: what the sync promises | |
| `Sync` | manager, worker and supervisor of the remote sync; implements `PushQueue` | `Settings`, `PushQueue` |
| `Pairing` | keys, rotation, adoption, the stored code, the device | |
| `Limiter`, `Accounts`, `Tokens` | the rate limiter as functions; users, sessions, resets, second factor; access tokens and the bootstrap | each other |
| `MC*` with `*.cfg` | instances for TLC | |
| `Commit_proofs`, `Trash_proofs`, `Ingest_proofs`, `Lineage_proofs`, `Upkeep_proofs`, `Sync_proofs`, `Pairing_proofs`, `Accounts_proofs` | theorems and proofs | the module each is named after (`Lineage_proofs`: `Agent` and `Families` too; `Accounts_proofs`: `Tokens` and `Limiter` too) |

### Data

A *content* stands for the bytes of a file and is its own BLAKE3 hash; `FastOf`
gives its fast hash, which contents may share. A path is a model value;
`LocOf` gives its location. A statement that would leave a table the schema
forbids (`Schema`) fails its transaction, which then changes nothing. Row ids
are handed out in increasing order up to `MaxNode`. A file's size and mtime
stand for its version (`stat`): two versions that share both are not told
apart by the code either. HIDDEN rows are left out: HIDDEN is live like ACTIVE
and only a curator sets it. What comes from outside (another program's write,
a fault, a crash) is a `Mishap`, and a run bounds their number, not their place.

A transaction is one step wherever the code runs it as one, because the
single writer connection makes it so for everybody else; `Trash` splits it
where renames happen inside. Every read before it, and every look at the disk,
is a step of its own unless the paragraphs below say otherwise.

### Trash and the code

| State | Code |
|---|---|
| `nodes`, `trashedAt`, `cascades` | `media_nodes`, `node_trash_times`, open rows of `trash_cascades`, as last committed |
| `disk[p]`, `bin[p][n]`, `stamp[p][n]` | the file at a path; the file `trashPathFor(p, n)` names, and its mtime |
| `req[c]` | the Go stack of one request: what it has still to visit, the rows its open transaction has flipped, its move log |
| `purger` | the copy the purge worker has looked up and not yet unlinked |
| `arrived`, `late` in `purger` | history: where files came between a restore's look and its rename; whether a trash was committed since the purge's look |

A transaction is a sequence of steps, `BeginTrash`, `TrashMaster`, one
`TrashExport` per export, `CommitTrash` (restore alike), between which other
actors run. Renames take effect at once; rows change together at the commit. A
row's trash time is that of the step that marks it, so the rows of one cascade
may have different ones. A restore looks at a path and at the copy in one step
(`RestoreFromTrash`) and renames in the next (`RenameBack`); `os.Rename`
replaces what has come to the path in between. A failing step or `Fault` rolls
back and moves to the `undo` phase, where `Undo`
puts one file back per step, newest first, **without** the writer lock, as
`TrashAsset` does after `InTx` has returned. `Unarchive` takes the row that
`ReadArchived` read on the reader pool and does not look at its state again.
`PurgeLookup` and `PurgeRemove` are the two halves of `PurgeTrash` for one file.
`Scan` commits one file through `CommitOne`, with or without a full hash, and
`Sweep` marks one absent file MISSING. `Crash` drops every stack and the open
transaction; no undo runs and nothing inspects `.trash` at the next start,
because no code does.

### Ingest and the code

| State | Code |
|---|---|
| `nodes`, `stat`, `fresh` | `media_nodes` as last committed; the size and mtime a row records; the rows with the current second as `last_seen_at` |
| `jobs[k]` | the state of the latest `scan_jobs` row of a kind for the location |
| `scan[k]` | the two goroutines of `runScan`: the walk (`todo`, `touch`) and the commits (`results`, `buf`), and what they share (`uncertain`, `interrupted`, `walkErr`) |
| `queue`, `busy`, `pool` | the pool's channel, the tasks its workers run, open, cancelled or drained |
| `dropped`, `released` | the drained tasks whose `OnAbandon` has still to run, and whether the first has already called `wg.Done` |

One action is one critical section or one channel operation. `WalkStep` is the
walk goroutine (a file is touched, submitted or refused; touches are flushed;
`wg.Wait`, `close(results)`), `Hash` and `Send` the task a worker runs,
`PoolStep` the pool, `CommitStep` the goroutine that drains `results`, sweeps
and closes the job. The two kinds may overlap for one location, as
`createScanJob` allows; they share the pool and its in-flight keys. `last_seen_at`
is compared only with the start of a scan, so the model keeps the comparison
(`stale`) and not the clock; `Tick` ends the second in which rows are `fresh`.
`OnAbandon` is two steps because its `wg.Done` comes first. Scans are started
only while the pool is open.

### Uploads, the watcher and the code

`upload[u]` is `processUploadedStream` of one request: name and first
duplicate check, exclusive creation with suffixes, the copy, the second
duplicate check, the export link, the transaction, and on an error the
clean-up **by name**, in which each unlink may fail unnoticed, and the second
look for a duplicate. `stuck` (history) is what such an unlink left. `acked` is
what a client was told is stored; `excused` the contents the code itself may
lose (below). `timers` and `settling` are the debouncer with its two samples,
`backlog` the bounded queue, `consumer` the one item being handled with what
it has read, `watching` the life of the watcher ("never" for a location that
is not watched, which is the default), `watchJob` its row. `owed` collects the
paths whose news the code gave up, each for a later scan to find: the oldest
item dropped at capacity, kernel overflow, a stop with items left, a failed
transaction, a rebase of a row retired meanwhile, a removal that marks a row
rebased elsewhere, a stale scan result, an export row inserted after its file
was gone. There is no walk at a restart.

### Lineage, families and the code

`edges` and `status` are `media_edges` and `graph_status`. `Resolved(cs)` is
the transaction of `ResolveAndCommit` for the candidates `cs`, in their order:
each is skipped below `Floor`, refused if it closes a cycle of active edges, and
otherwise merged by `UpsertMediaEdge`, a reviewed edge staying as it is; the
targets then get the status their persisted edges make. `Resolvers` says what
the candidates are.
A row's names, ids and times are `About[path]`: numbers, 0 for unknown, since
the resolvers only compare them; confidences are hundredths, as in the source.
`StemPair` is the body of `FilenameStemResolver`'s loop (index gate, telemetry
`.srt`, the three ways a pair is turned round, the score); `Referred` is
`resolveReference`; `Rank` is `betterThanBest`.

`scan` in `Families` is `drainAndCommit` with `resolveEdgesForBatch`: a batch
commits, then each of its paths goes `fetch` (re-read the live row and ask the
resolvers), `apply` (the transaction), `list` (its unlinked siblings of the
same location, each once per batch), and `look`/`apply` for each sibling;
after the walk, `EndWalk` hands the project files to the same steps once more,
without the memory of visited siblings. The row and what the resolvers read
for it are one step. An upload resolves only its own row, after its insertion.
No file disappears in this module: a row goes only when a person archives it.

### Devices and the code

`queue` is `event_queue`; `drainer` the pass of `ProcessPending` over one
batch, `posted` the position of each device in its `Script`; `node_uuid`,
`creator`, `alias`, `scopes` are the tables of ownership. An event is applied
in one transaction; its failure is recorded in another, which may itself be
lost (`lost`). An edge `refreshed` by a snapshot is one that
`RefreshResolveEdge` switched on again. `author` is not in the database: it
remembers which device's event wrote an edge, so that `DevicesKeepOut` can ask
whether an edge an event acts on is vouched for by somebody else. In this module the resolvers'
candidates are a constant list (`Guesses`) filtered by the rows that are live.

### Upkeep and the code

`purge` is one run of `execute`: candidate, masters read, masters verified on
disk, re-read, unlink, mark, one step each. `rehash` is the claimed batch with
what was read of its first row, `tried` the last attempt per row. `thumb`,
`cached` and `making` are `thumb_state`, the pictures on disk and the pass.
`heir[i]` is `InheritMetadata` of one request. `found` is a scan result that
is hashed and not committed. `calm` and `clean` record whether something
changed within a window the properties name; `except` the rows excused.

Simplified: the cheap pre-check a purge makes before its masters are read is
merged with the read, all masters of a candidate are looked at in one step,
and a back-off is a time that comes.

### Sync, settings and the code

`row` is `remote_sync_state`; `old` the rows whose `last_attempt_at` is more
than five minutes ago, which is all the code compares it with; `worker` the
goroutine, `running` what the supervisor runs, `stored`/`effective`/`apply`
the steps of `Store.Apply`. `struck` records a crash or failed outcome write,
`unheard` a reload that failed after its commit. The refinement
`PushesImplementQueue` maps a row's status to *none*, *queued*, *pushed* or
*failed*; in `PushQueue` a node may be settled as pushed only if the remote
has accepted a scan request since it was entered, which is what makes marking
the sub-batches after the first without a request of their own correct.

### Pairing, accounts and the code

`keys` are the rows of `device_pairing_keys` in the order of their ids, `qr`
the key the stored code shows, `task[a]` an administrator's rotation between
its two transactions, `request` a device's request between the look-up of its
key and the adoption. A request in `Accounts` reads, works a while, and writes
in a transaction of its own; `req[c]` is that gap. `limiter` holds the state
of the four limiters as `Limiter`'s functions leave it. `Tokens` adds the
bootstrap: lock, empty file, row, file contents, sync, each a step at which the
server can stop or which can fail. A failure is undone in two more steps, the
revocation of the row and the removal of the file (`BootRevoke`, `BootRemove`),
and either can fail or be the last; `abandoned` (history) marks the token of a
file that was then not removed. What reaches the disk before a write or sync
fails, or the machine dies, may be nothing, a part (`Torn`) or all of the token.

## What the runs check

| Run | Question | Result |
|---|---|---|
| `trash` | Do rows, cascades, trash times and files stay in step through every order of trash, restore, re-trash, unarchive, purge, scan and sweep, with failures anywhere? | 3,180,244 states, holds |
| `ingest` | Does a sweep spare the files that are there, does a completed scan leave rows and files in agreement, and is the job row RUNNING exactly while a scan runs, with overlapping scans, faults, cancellation, shutdown and crashes? | 1,440,767 states, holds |
| `ingest_ends` | Does every scan end, with everything full and the pool shutting down? | 88,325 states, holds under fairness |
| `ingest_poisoned` | Is one row never the ruin of its batch? | No: `NoPoisonedBatch` fails |
| `arrivals` | Does an acknowledged upload keep its bytes on disk, does a refused one leave nothing behind that it could unlink, and does the watcher bring rows and files into agreement, and come to rest, with uploads, scans, other programs, the trash and crashes among each other? | 345,128 states, holds |
| `families` | In whatever order files of one family are committed and resolved, does every edge have the direction and the acceptance its names allow, is nothing left unresolved, and does resolving again change nothing? | 169,944 states, holds |
| `agent` | Do devices change only what is theirs, in order, does a person's decision stand, are statuses true, and does every event end? | 560,172 states, holds |
| `upkeep` | Does a purge leave a verified master, does a tag write keep its row, and do the workers finish? | 737,564 states, holds |
| `upkeep_unread` | Has the server read the master a purge relies on? | No: `PurgeReadsMaster` fails |
| `sync` | Does the sync implement at-least-once pushes, strand nothing at a cancellation, follow the settings, and drain? | 480,503 states, holds |
| `pairing` | Do old keys stop, does the code follow, does the device end on the newest key? | 567,894 states, holds |
| `accounts` | Do resets end sessions, are codes used once, are attempts bounded, is the bootstrap file true, does an administrator remain? | 703,441 states, holds |

The two violations are disagreements between the code and what its comments
and documents say; `PROJECT.json` quotes both sides under `findings`. They are
kept as runs so that a fix shows up as a run that no longer fails.

### Properties

`trash`

- `CascadesMatch`: every open cascade row names a master and an export still in
  the trash, the export since no later than the master (the transaction marks
  its exports first), one open row per export.
- `TrashClock`: a row has a trash time exactly while it is TRASHED.
- `RowsMatchDisk`: once no transaction or undo is under way (and no crash,
  foreign write or failed undo has happened), an ACTIVE row has nothing in
  `.trash` and a TRASHED row nothing at its path.
- `RestoreKeepsBytes`: a step of a restore destroys the last copy of a content
  only if its file came to the path between the restore's look and its rename.
  What crashes and other programs had left before the look is kept.
- `PurgeSparesFresh`: of the two steps of a purge, the unlink takes the copy of a
  TRASHED row within its retention only if that trash was committed between
  them; restores, scans, sweeps, faults and misleading mtimes do not bring it
  about.

`ingest`, `ingest_ends`

- `SweepSparesFiles`: a sweep marks a row MISSING only if its path was written
  or empty at some time since the scan began. Two gaps are excepted: an entry
  the walk could not read (`indexer.Walk` logs it and goes on, and the sweep
  then takes what is below it for gone) and the instant of `OnAbandon` between
  its `wg.Done` and its recording of the path.
- `CompletedScanAgrees`: a scan that ran alone, completed, left nothing
  uncertain and whose sweep went through has every live row of an unwritten
  path ACTIVE with the file's fast hash, or MISSING if there is no file and the
  row is older than the scan. A sweep that fails is only logged and the job
  still ends COMPLETED ("delayed-not-wrong", `scan.go`); `history` remembers it
  as `unswept`. *Alone* is needed: the batch of one kind of scan may hold an older reading of
  a path than the one the other kind commits.
- `ScanHasJob`: a job row is RUNNING exactly while its scan is under way, except
  that a terminal write which fails leaves it RUNNING until the next start.
- `ScanEnds`: every scan ends.

`arrivals`

- `AckedContentKept`: a content a client was told is stored has a file with
  its bytes, unless somebody else took it away or the code did: the row a
  duplicate check found had no file any more, or its file was that of an upload
  still in doubt, which unlinks it.
- `NoOrphans`: however a request ends, no file is left that no row tells of, but
  one it tried and failed to unlink (`stuck`). A crash leaves one, and a file
  that another program put at the same path is that program's (the history
  variable `foreign`).
- `EventsSettle`, `EventsHandled`: once the watcher is quiet, rows agree with
  every watched path that is not `owed`; and it gets quiet.

`families`

- `NamesKeepRoles`: among edges only names speak for, a proxy is never the
  parent of its original, an export never of its raw (unless the raw is marked
  as edited), a numbered copy never of anything, and no numbered copy is
  accepted without a person or another resolver. Telemetry (`.srt`) always hangs
  on its video, also on one named as a proxy; and the two rules for copies spare
  what the heuristic takes for a raw and its export.
- `ScanLeavesNoneBehind`: after a scan that nothing disturbed, however its
  files fell into batches, every project file it read has an edge for all it
  refers to, and an unlinked sibling of a row it read has no match left to
  record, but for edges that would close a cycle.
- `ResolvedAgain`: after a full scan that found no new file, resolving any of
  its rows once more changes no edge and no status. This is what makes the
  unconditional retry safe, also where the two ends of an edge, or two
  resolvers, score it differently.

`agent`

- `StatusAgrees`: `graph_status` is what the row's edges make of it, whoever
  touched them last. `NoOtherCycle`: no cycle arises, except through an edge a
  snapshot switched on again, which nothing checks. `HumanDecides`: CONFIRMED
  and REJECTED edges are changed by people only.
- `DevicesKeepOut`: an event changes live rows its own device created and the
  exports trashed along with them; nothing late brings back what was retired,
  nothing reaches through an alias. `AppliedInOrder`: an event is applied
  after a later one only if it failed before, or its outcome was lost.
  `EventsSettle`: every event is applied or given up.

`upkeep`

- `PurgeLeavesMaster`: what a purge unlinks is the version it planned, and a
  live master holds the bytes its verified hash names, if nothing changed in
  the instant between the last look and the unlink. Excepted is a master a
  device re-pointed and nobody has read since (`upkeep_unread`).
- `InheritKeepsIdentity`: the server's own rewrite of a file never costs its
  row the identity its edges hang on. Excepted are a scan that read before the
  write, or between the write and the refresh, and commits afterwards, and a
  refresh that failed.
- `UpkeepSettles`: a good master does not stay unverified, and every thumbnail
  is made, given up or no longer wanted.

`sync`: `PushesImplementQueue` (the refinement), `CancelStrandsNothing`,
`WorkerFollowsSettings`, `QueueDrains`, `ExportsEntered`; `pairing`:
`OldKeysStop`, `QRFollows`, `DeviceCatchesUp`; `accounts`:
`PasswordEndsSessions`, `CodesSpendOnce`, `CodesMatch`, `BurstBounded`,
`BootstrapTrue`, `LastAdminStays`. Each is stated in words where it is defined,
with the exceptions the code makes.

### Bounds

- **trash**: a master *raw* with an export *jpg*, and a second master *tif*, in
  a protected location, of both, so cascades overlap and nest. `MaxNode = 4`
  leaves one insertion, enough for a supersession or a duplicate. `Retention = 1`
  and `MaxTime = 2` let a copy be both fresh and expired. The mtime can be
  set on *raw*'s location only (`Stamped`). One mishap; faults of
  a transaction are unbounded. One client: what breaks with two is listed
  below, what holds with any number is proved.
- **ingest**: two paths, both kinds of scan, batches of two, one worker, one
  place in the queue and one in `results`: everything can be full at once, and
  one scan can refuse what the other has in flight. One mishap. `ingest_ends`
  has three paths, so that the walk waits for a place in the queue while the
  worker waits for one in `results`, two mishaps, and one kind of scan.
- **arrivals**: two masters' paths and two exports'. Two mixes (`Mixes`), so
  that they add up instead of multiplying: two uploads of the same bytes with
  nobody watching, and one upload with the watcher. A backlog of one is enough
  to drop. Two mishaps, four rows (one less with the watcher; `EventsHandled`
  excepts a model that has run out of rows). With three mishaps the first 6.7
  million states, as far as they were explored, hold the safety properties too.
- **families**: a shot with raw, export, numbered copy and the next frame; a
  drone clip with proxy, telemetry and an edit; a cut list, and an `.xmp`, with
  a clip (the list names it by path) and a raw (by name); and prints that name
  their originals, one on another location. Batches of two, so each family
  needs two and every member can come before every other; a batch is committed
  only while there are rows for its new files (`RoomFor`). In each of these one
  file may come late, by another program or an upload; in a shot of three
  files a person or a fault interferes once instead. Scans are not bounded.
- **agent**: two devices with `Script`s of two or three events out of several,
  batches of two, two retries, one mishap, five rows: enough for an event to be
  overtaken by a later one of its node, to meet a row a person has retired, and
  to be replayed. A transaction needs a row left to insert (`Room`).
- **upkeep**: a raw on the archive whose hash a device asserted, and an uploaded
  proxy made from it; three mishaps. Six mixes (`Duties`): purge and re-hash
  with scans, with a device, with a person; inheritance with scans, with
  thumbnails; thumbnails with scans.
- **sync**: two exports, batches of one, two sub-batches per drain, two retries
  of a row and of a request, two mishaps.
- **pairing**: one pairing, two administrators, three keys, a grace period of
  two ticks of three, two mishaps.
- **accounts**: two users, two clients, two servers that boot; five families of
  operations (`MCMixes`), five or six requests each, up to three ticks and two
  mishaps; one recovery code per enrolment instead of eight.

### Fairness, and runs that may stop

Goroutines keep running: weak fairness of the pool, of each task and of the
goroutine that commits (`ingest_ends`); of each path's timer and the consumer
(`arrivals`); of the re-hash and thumbnail workers (`upkeep`); of the sync
worker and the steps of `Apply` (`sync`); of the steps of a rotation and of the
device's requests (`pairing`). A tick or a back-off comes: weak fairness of the
clock's step in `sync`, `agent` and `upkeep`. The walk of a scan gets strong
fairness because `SubmitWait` polls every 5 ms for a place another submitter
may take in between. The drainer of `agent` either takes steps for ever or is
idle with nothing due again and again, because its ticker wakes it. Nothing is
assumed of people, other programs, faults, cancellations or restarts.

Deadlock is checked where the system always has something to do. `arrivals`,
`agent`, `upkeep`, `sync`, `pairing` and `accounts` bound what comes from
outside (requests, events, mishaps), and a server to which nothing more comes
may rest, so they do not check it.

## Where the code and its comments part

Two are runs. `ingest_poisoned`: a MISSING row touched back with a full hash
that another row has taken fails the unique index, and rolls back its whole
batch, on every scan. `upkeep_unread`: `applyPathRebased` re-points a row and
takes the device's mtime, but leaves the provenance SERVER, so a purge trusts
an mtime nobody has verified.

The model shows more, which the properties except by name or a run with other
bounds finds. Trash:

- A failed trash is undone after its rollback and outside the writer lock;
  another request can act on the row in between, and the undo then moves a file
  under it.
- The archived branch of the restore handler reads the row before its
  transaction; a row trashed in between becomes ACTIVE with an open cascade.
- The trash purge looks a copy's age up and unlinks it later; a copy whose trash
  is committed in between, also after a restore, goes before its retention.
- `restoreFromTrash` refuses "to silently clobber" (`trash.go:624-626`), but a
  file put at the path after its look is replaced by the rename.
- The cascade of a trash takes ARCHIVED exports along.

Scans: `OnAbandon` releases the wait group before it records its path, so the
sweep can run in between. Arrivals: the gaps of `excused` and `owed` above; a
crash between creating a file and its row leaves the file, and so does a
clean-up whose unlink fails, because nobody looks at its error. Lineage:

- When a stem match reaches its cap of 0.89 and the heuristic also scores 0.89,
  `mergeCandidates` keeps the first, of tier 2, and the numbered copy stays in
  review; `resolvers.go:147-156` says that such corroboration accepts it (it
  does when the stem match scores less).
- "Only the single best-scoring match" of a burst holds for one look: a raw
  that comes later adds a second accepted parent.
- Three directions still depend on what is resolved first: an export against an
  edited raw of the same stem, a raw against another non-export, and two files
  of the same kind.
- The reverse pass covers unlinked siblings of the same stem and location. A
  child that names its parent by document id and is committed first stays
  unlinked until a later full scan, and uploads and the drainer make no
  reverse pass.
- A review that is reset is accepted again by the next full scan.
- A snapshot switches an edge on again without the cycle check which
  `docs/schema.md` says every insertion makes.

Devices: a deferred rebase is applied after a later one; an event whose insert
meets the live-path index fails at once; the drainer's edge events do not refuse
ARCHIVED ends as `handleCreateEdge` does; the resolution after an event is not
retried; the synchronous rebase records no alias; a timeline a snapshot inserts
has no creator.

Upkeep: a scan that read a file before a tag write supersedes its row, contrary
to `inherit.go:258-270`; a thumbnail made of old bytes is marked READY over an
invalidation; a purge marks by id, also a row re-pointed since; a row whose
`Mark` failed stays ACTIVE without a file until a later purge or sweep;
`docs/operations.md` puts the second look at the disk inside the transaction,
where the code does not have it.

Sync: a restart within five minutes of a crash, or a lost outcome write,
strands PUSHING rows until later; a stale list can enqueue a trashed node; a
file that is absent when its turn comes is marked PUSHED. Pairing: overlapping
rotations leave the stored code with whichever writer was last, and the newest
key by time may have lost its copy. Accounts: a login that had verified the old
password opens a session after the reset; an `Enable` that overlaps another
leaves its codes, and makes a used code good again; a bootstrap token can create
a user before set-up, after which set-up is closed; when the file of a bootstrap
that failed cannot be removed, or the server dies before it is, it holds a
revoked token, and every later start takes it for a valid one
(`ErrBootstrapAlreadyMinted`).

## What is proved

What follows holds for every value of the constants that the named assumptions
of the modules allow (`NodeStoreAssumption`, `TrashAssumption`,
`IngestAssumption`, `SyncAssumption`, `PairingAssumption`, ...: finite sets of
rows, positive sizes and limits, locations of paths; TLC evaluates them in
every run): any number of rows, paths, contents, clients, devices, mishaps, any
batch size. Each argument is an inductive invariant that TLC first checked on
the instances above.

**Commit and scan job** (`Commit_proofs`, `Ingest_proofs`)

- `CommitKeepsRetired`: `CommitOne` never moves a row into or out of the trash
  or out of the archive, nor a TRASHED row to another path. It goes branch by branch, each statement by a lemma on
  what it does to the rows it does not name.
- `BatchSettles`: the contract between committer and sweep. A committed batch
  of any length leaves a legal table in which every ACTIVE row at the path of
  one of its results has been seen, and makes no unseen row ACTIVE. The
  recursion over the batch is unfolded by the least index at which the claim
  would fail.
- `ScansKeepSchema`, `IngestType`: the indexes hold and every variable keeps
  its type.
- `JobsFollowScans`: `ScanHasJob`, with `StuckIdle`: a row left RUNNING by a
  failed write belongs to a scan that is over, so the next terminal write cannot
  be taken for it.
- `SweepSpares`: `SweepSparesFiles`. `SweepSparesFiles` speaks of one step; what
  must be carried through the whole scan is `FilesFollowed`: until scan *k* has
  swept, every file that stayed where it was is still to be visited, uncertain,
  in the touch batch, with the pool, with the committer, or its row has been
  seen since. `WalkOver` (after the walk nothing is left to visit, and once the
  results are closed no task holds a token), `PoolInOrder` (what is dropped was
  drained, and released one by one), `StaleExist` and `Schema` (one live row per
  path) are what the steps need. At the sweep every alternative but one is
  empty; the one left is the task between `wg.Done` and its record, the gap
  `Losing` names.

**Trash** (`Trash_proofs`)

- `TypeCorrect`, `TrashTimeRecorded`, `PurgeHonoursRetention`
  (`PurgeSparesFresh`), `RestoreLosesNothing` (`RestoreKeepsBytes`): with any
  number of clients. The purge needs that from its look to its unlink no other
  step than a commit of a trash makes a row TRASHED, gives one another time or
  moves one to another path; the restore, that from its look to its rename
  whatever comes to the free path is in `arrived`, while the copy it renames
  stays in `disk`.
- `SequentialCascades` (`CascadesMatch`), `SequentialClock` (`TrashClock`): with
  at most one client. The strengthening adds what the open transaction read
  when it began (`Running`), that an unarchive's row is not in the trash
  (`Pending`), and that no export of an open cascade is the master of another
  (`NoCascadeChain`). `Pending` is what a second client breaks, so the
  assumption cannot be dropped.
- `SequentialRowsMatchDisk` (`RowsMatchDisk`): with one client, over an index
  that described the storage at the start (`Settled`: with two rows at one path
  of which neither superseded the other it is false). The invariant `Tidy` says
  that the move log, replayed backwards, always leads to files that fit the rows
  as committed, and played to its end to files that fit the rows as flipped; so
  whichever way the transaction ends, rows and files meet again.

**Lineage, families and devices** (`Lineage_proofs`)

- `NoCycleByOne`: the set the recursive query of `WouldCreateCycle` computes is
  closed and the least such set, in as many rounds as there are parents; hence
  an edge written after it said no closes no cycle.
- `ResolveAndCommitKeeps`: a whole transaction of the resolvers, for every list
  of candidates in every order.
- `StatusFollowsEdges` (`StatusAgrees`), `NoCycle` (`NoOtherCycle`),
  `DecisionsStand` (`HumanDecides`), `EventsKeepOut` (`DevicesKeepOut`),
  `EventsInOrder` (`AppliedInOrder`), from `Inv == Rows /\ Owned /\ Lined /\
  QueueType /\ Batch /\ InTurn`: `Owned` ties every alias, scope and edge of a
  device to rows it created, `Batch` and `InTurn` say that what the drainer has
  claimed is in the order of arrival and that nothing before its position waits
  untried.

- `NamesKept` (`NamesKeepRoles`), from `FamiliesInv == FilesStay /\ EdgesRight /\
  ScanRight /\ UploadRight`. `Fits` says that an edge is in its role (`InRole`)
  unless a document id or a project file speaks for it. Each resolver proposes
  only what fits: the matches by id and by project file are exempt, `StemPair`
  by its swaps and its clamp, whatever side it was asked about, and the
  heuristic because its parents are raws and its children exports. The merge
  keeps members of the list; a transaction or a review keeps what fits. What a
  scan or an upload holds in its gap (`scan.found`, `upload.found`) still fits
  when it is written, because no step of the module moves a row to another path
  (`KeepsRows`). For a batch that is the work: every file is what it always was
  (`FilesStay`), so `CommitOne` finds each path's row as described, or inserts
  it, and never mistakes it for another version or a move (`GoneWell`).
  `EdgesRight` also says there that the edges have no cycle and every status is
  true. `NamesKept` takes two facts about the instance: `SoundLibrary`, that
  the rows at the start describe the files of the instance and the edges at the
  start fit, and `PlainRaws`, that no raw is itself named as a proxy. Without
  the latter a raw `X_proxy.dng` is the heuristic's parent for an export of the
  same shot, and the name says the opposite.

**Upkeep** (`Upkeep_proofs`)

- `MastersDescribed`: no two live rows name one path, and a hashed master on
  tier 3 that no device has re-pointed records the mtime of the version its
  hash is of. A commit that sees a row either describes it anew (touch, move,
  supersession) or leaves its place and hash; it may leave the hash unread only
  where `FullHashStillValid` held, and `ScanSound` carries that from the reading
  of a file to its commit.
- `PurgesLeaveMaster` (`PurgeLeavesMaster`): from `Described` and `PurgeSound`,
  which says of each point of a purge what its list of masters still means if
  nothing has changed since it was read (`calm`).
- `PurgesReadMaster` (`PurgeReadsMaster`): where no device re-points rows no
  master is excepted, so the violation of `upkeep_unread` has no other cause.
- All three assume `Apart`: masters are hashed, and no device or person acts
  beside a scan. With them beside it, a scan may have skipped a hash because of
  a row that they then move or archive, and its result, which carries the stat
  of the new version and no hash, can reach another row by an equal fast hash.
  The mixes of the run keep `Apart` too.

**Sync** (`Sync_proofs`)

- `StrandsNothing` (`CancelStrandsNothing`), `FollowsSettings`
  (`WorkerFollowsSettings`): from `Published` (how far `Apply` has got),
  `WorkerRuns`, and `BatchRows` (nobody else touches a claimed row, but for the
  trashing of its node).
- `ImplementsQueue`: `PushesImplementQueue`. Every step of `Sync` is a step of
  `PushQueue` or a stutter. The step that needs an argument is the settling of
  a sub-batch without a request of its own: `AskedCovers` says the drain's first
  request covers it, because only the worker enters rows, before it claims.

**Pairing and accounts** (`Pairing_proofs`, `Accounts_proofs`)

- `AdoptionStopsOldKeys` (`OldKeysStop`), `CodeFollowsKeys` (`QRFollows`),
  `KeysNeverReturn`: the last is an action property of every step, which the
  first needs; `OneRotation` says that two rotations of one pairing leave a
  trace in `disturbed`.
- `BurstsBounded` (`BurstBounded`), from `SlotsHeld`: every slot of a limiter
  is held by one request under way, whose outcome frees it, and slots and
  failures of one key together never exceed a limit, because a slot becomes a
  failure or nothing.
- `LastAdmin`, `ResetEndsSessions`, `RecoveryCodesMatch`, `SpendsOnce`,
  `OneBootstrap`. The second factor needs to know of each request in its gap
  which secret, salt and code it read (`Requests`), and that secrets and salts
  are never handed out twice; the bootstrap that the lock has at most one
  holder, and what the holder knows of its token and of the file at each of its
  steps (`Filed`), up to the one at which a revoked token may be in the file.

### What is only model-checked

- `CompletedScanAgrees` (it needs an index whose hashes were right at the start,
  and the reading of every result), `AckedContentKept`, `NoOrphans`,
  `EventsSettle` of the watcher.
- `InheritKeepsIdentity`: beyond the bounds of the run it has more exceptions
  than it names: a row that a scan moves between the load of a request and its
  refresh is given the old path's hash, and two files that share a fast hash,
  or an index that disagreed with the files at the start, archive a row that
  no tag write is to blame for.
- `ScanLeavesNoneBehind`, `ResolvedAgain`: that what is proposed is well placed
  holds step by step; these need that a whole scan has proposed all there is,
  whatever the order of its batches, and that the two ends of an edge, or two
  resolvers, in the end agree about it. For the first, `SelectSeq`, which yields
  the retried project files, would have to be unfolded, which the provers cannot.
- Liveness under fairness (`ScanEnds`, `EventsHandled`, `QueueDrains`,
  `DeviceCatchesUp`, `UpkeepSettles`, ...) and ENABLED are out of the prover's
  reach, and so is what a recursive definition computes for every input, unless
  a least counterexample suffices as in `BatchSettles` and `NoCycleByOne`.

## Not modelled

- **Storage guard**: path canonicalisation and symlinks are string handling;
  the kinds of location it tells apart are modelled.
- **Trash**: directories under `.trash`, legacy names, audit rows.
- **Scans**: progress counters, pruning of metadata, the sweeper's ticker.
- **Watcher**: a folder moved into the tree, symlinks.
- **Uploads**: limits, names, probes; which location is chosen is a constant.
- **Devices**: batches of telemetry, legacy and retired Resolve scopes, the
  handshake's reports, the Immich rescan hook.
- **Pairing**: labels, request signatures and nonces, a server without a
  sealing key, the sealing of old codes at start-up.
- **Accounts**: users of a forward-auth proxy, mail delivery, scopes and ends of
  tokens, signatures of cookies.
- **Settings**: validation, the registry of fields, storage-location overrides.
- **Live updates**: a nudge carries no data, and every payload is read after the
  generation it is cached under.
- **Probing, parsing, naming, mail, QR, audit log, web client**: pure functions
  and I/O.

## Plan

What remains are proofs.

1. `Ingest`: `CompletedScanAgrees`, by following for each path not only where
   its file is but which version of it, over an index whose fast and full hashes
   agree at the start.
2. `Upload` and `Arrivals`: a type invariant; what a request in doubt may
   unlink; then `NoOrphans`.
3. `Families`: `ScanLeavesNoneBehind`, by an invariant that says of every pair
   of matching rows which of the steps still to come will look at it; then
   `ResolvedAgain`, from the symmetry of `StemPair`.
4. `Upkeep`: what becomes of `PurgeLeavesMaster` with people beside a scan, and
   the exceptions under which `InheritKeepsIdentity` holds for every instance.
