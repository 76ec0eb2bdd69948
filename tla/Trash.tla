------------------------------- MODULE Trash -------------------------------
(***************************************************************************)
(* Trash and restore: internal/pipeline/trash.go, the two HTTP handlers in *)
(* internal/httpapi/routes.go that drive it, and the purge worker of       *)
(* internal/prune/trash.go.                                                *)
(*                                                                         *)
(* A trash or restore renames files inside a database transaction: the     *)
(* renames happen one by one and at once, the rows change together at the  *)
(* commit, and a failed transaction renames the files back after it has    *)
(* been rolled back.  Clients (HTTP requests and the agent drainer) run    *)
(* concurrently; the single writer connection admits one transaction at a  *)
(* time, but neither the undo of a failed one nor the purge worker nor     *)
(* other programs writing the storage take part in that exclusion.         *)
(***************************************************************************)
EXTENDS Commit, Sequences

CONSTANTS
    Client,        \* concurrent callers of trash and restore
    Kind,          \* [Path -> PathKind]: how a path's location may be written
    CascadeEdges,  \* reviewed FINAL_EXPORT / immich_export edges <<master, export>>
    Stamped,       \* paths whose storage location supports Chtimes
    InitNodes,     \* media_nodes when the process starts
    InitDisk,      \* the files of the storage locations when it starts
    NoFile,        \* no file at this path
    Retention,     \* trash retention, in ticks
    MaxTime,       \* bound: last tick of the clock
    Foreign,       \* bound: the writes of other programs, <<path, file>>
    MaxMishap,     \* bound: crashes, writes by other programs, failed undos
    TxFaults       \* whether a step of a transaction, or its commit, may fail

PathKind == {"local", "protected", "virtual"}
Time == 0..MaxTime
NoTime == -1
OldTime == -1 - Retention   \* the mtime of a file written long ago
File == Content \cup {NoFile}

ASSUME TrashAssumption ==
    /\ Kind \in [Path -> PathKind]
    /\ CascadeEdges \in SUBSET (Node \X Node)
    /\ \A x \in CascadeEdges : x[1] # x[2]
    /\ Stamped \in SUBSET Path
    /\ InitNodes \in Table
    /\ Schema(InitNodes)
    /\ \A n \in Node : InitNodes[n].state # "TRASHED"
    /\ NoFile \notin Content
    /\ InitDisk \in [Path -> File]
    /\ \A p \in Path : Kind[p] = "virtual" => InitDisk[p] = NoFile
    /\ Foreign \in SUBSET (Path \X File)
    /\ Retention \in Nat /\ MaxTime \in Nat /\ MaxMishap \in Nat
    /\ TxFaults \in BOOLEAN

VARIABLES
    nodes,      \* media_nodes, as last committed
    trashedAt,  \* node_trash_times.trashed_at, NoTime for NULL
    cascades,   \* the open rows of trash_cascades: <<parent, export>>
    disk,       \* the file at each path
    bin,        \* bin[p][n]: the file trashPathFor names for path p, node n
    stamp,      \* stamp[p][n]: the mtime of that file
    req,        \* the request each client is executing
    arrived,    \* history: paths that got a file since the open restore looked
    purger,     \* the copy the purge worker has decided to unlink, if any
    now,        \* wall clock
    mishaps     \* events outside the program's control so far

dbVars   == <<nodes, trashedAt, cascades>>
fileVars == <<disk, bin, stamp, arrived>>
vars == <<nodes, trashedAt, cascades, disk, bin, stamp, arrived, req, purger, now,
          mishaps>>

\* A rename a transaction has made: into .trash or back out of it; at is the
\* mtime the copy has, or had, in .trash.
Move == [path : Path, node : Node, dir : {"in", "out"},
         at : Time \cup {OldTime}]

\* phase run: inside the write transaction; undo: rolled back, files being put
\* back; pending: an ARCHIVED row was read, its transaction has not begun.
Request ==
    [phase  : {"idle", "run", "undo", "pending"},
     op     : {"none", "trash", "restore", "unarchive"},
     node   : 0..MaxNode,
     read   : SUBSET Path,      \* file_path of the row read before the transaction
     begun  : BOOLEAN,          \* the node's own file has been dealt with
     aim    : SUBSET Node,      \* the node whose copy is about to be renamed back
     todo   : SUBSET Node,      \* exports still to visit
     marked : SUBSET Node,      \* rows this transaction has flipped
     times  : [Node -> Time \cup {NoTime}],  \* trash times it has recorded
     closed : SUBSET Node,      \* exports whose cascade rows it closes
     moves  : Seq(Move)]        \* moveLog

Idle == [phase |-> "idle", op |-> "none", node |-> 0, read |-> {},
         begun |-> FALSE, aim |-> {}, todo |-> {}, marked |-> {},
         times |-> [n \in Node |-> NoTime], closed |-> {}, moves |-> <<>>]

\* A copy the purge worker has found expired.  late (history): a trash of its
\* node has been committed since.
Lookup == [path : Path, node : Node, late : BOOLEAN]

Init ==
    /\ nodes = InitNodes
    /\ trashedAt = [n \in Node |-> NoTime]
    /\ cascades = {}
    /\ disk = InitDisk
    /\ bin = [p \in Path |-> [n \in Node |-> NoFile]]
    /\ stamp = [p \in Path |-> [n \in Node |-> 0]]
    /\ arrived = {}
    /\ req = [c \in Client |-> Idle]
    /\ purger = {}
    /\ now = 0
    /\ mishaps = 0

----------------------------------------------------------------------------
\* The writer pool has one connection: db.InTx holds it from begin to end.
WriterFree == \A c \in Client : req[c].phase # "run"

\* The rows S in state s; the rows as the transaction r sees them.
Flip(t, S, s) == [n \in Node |-> IF n \in S THEN [t[n] EXCEPT !.state = s] ELSE t[n]]

Target(op) == IF op = "trash" THEN "TRASHED" ELSE "ACTIVE"

View(r) == Flip(nodes, r.marked, Target(r.op))

\* markTrashed / markUntrashed succeed if the schema allows the row they make.
MarkAllowed(r, n) == Schema(Flip(nodes, r.marked \cup {n}, Target(r.op)))

\* Mutant: a failed transaction forgets its move log.
NoUndo(r) == Idle

\* A rollback: the rows are as they were, the renames are still to be undone.
RolledBack(r) ==
    IF r.moves = <<>> THEN Idle ELSE [Idle EXCEPT !.phase = "undo", !.moves = r.moves]

Proceed(c, ok, next) ==
    req' = [req EXCEPT ![c] = IF ok THEN next ELSE RolledBack(next)]

\* moveLog.record
Moved(r, p, n, dir, at) ==
    [r EXCEPT !.moves = Append(@, [path |-> p, node |-> n, dir |-> dir, at |-> at])]

\* moveToTrashLogged: the file, if there is one, goes to its name in .trash.
\* Until Chtimes, and for good if it fails, the copy has the file's old mtime.
MoveToTrash(c, n, ok, next) ==
    LET p == nodes[n].path
    IN  IF disk[p] = NoFile
          THEN Proceed(c, ok, next) /\ UNCHANGED fileVars
          ELSE \E mtime \in IF p \in Stamped THEN {OldTime, now} ELSE {OldTime} :
                 /\ disk' = [disk EXCEPT ![p] = NoFile]
                 /\ bin' = [bin EXCEPT ![p][n] = disk[p]]
                 /\ stamp' = [stamp EXCEPT ![p][n] = mtime]
                 /\ Proceed(c, ok, Moved(next, p, n, "in", mtime))
                 /\ UNCHANGED arrived

\* Mutant: os.Rename without the check that the original path is free.
RenamesOver(p, n) == Kind[p] # "virtual" /\ bin[p][n] # NoFile

\* A rename back is only decided on when the path is free.
Renames(p, n) == Kind[p] # "virtual" /\ bin[p][n] # NoFile /\ disk[p] = NoFile

\* restoreFromTrash looks at the path and at the copy: with a copy and a free
\* path it goes on to rename (RenameBack).  A node without a copy must have its
\* file in place, unless the caller tolerates the loss; with both, it fails.
RestoreFromTrash(c, n, tolerant, ok, next) ==
    LET p       == nodes[n].path
        inPlace == \/ Kind[p] = "virtual"
                   \/ bin[p][n] = NoFile /\ (disk[p] # NoFile \/ tolerant)
    IN  IF Renames(p, n)
          THEN /\ req' = [req EXCEPT ![c].aim = {n}]
               /\ arrived' = {}
               /\ UNCHANGED <<disk, bin, stamp>>
          ELSE Proceed(c, inPlace /\ ok, next) /\ UNCHANGED fileVars

Exports(n) == {x[2] : x \in {y \in CascadeEdges : y[1] = n}}

\* TrashAsset: already TRASHED returns the row, ARCHIVED is refused.
BeginTrash(c, n, keepExports) ==
    /\ req[c].phase = "idle" /\ WriterFree
    /\ nodes[n].state \in {"ACTIVE", "MISSING"}
    /\ req' = [req EXCEPT ![c] =
         [Idle EXCEPT !.phase = "run", !.op = "trash", !.node = n,
                      !.todo = IF keepExports THEN {} ELSE Exports(n)]]
    /\ UNCHANGED <<dbVars, fileVars, purger, now, mishaps>>

\* The master's own file; a protected or virtual location is left alone.
TrashMaster(c) ==
    LET r    == req[c]
        next == [r EXCEPT !.begun = TRUE]
    IN  /\ r.phase = "run" /\ r.op = "trash" /\ ~r.begun
        /\ IF Kind[nodes[r.node].path] = "local"
             THEN MoveToTrash(c, r.node, TRUE, next)
             ELSE Proceed(c, TRUE, next) /\ UNCHANGED fileVars
        /\ UNCHANGED <<dbVars, purger, now, mishaps>>

\* purgeLinkedExports skips these; note that it does not skip ARCHIVED rows.
SkipExport(r, e) ==
    \/ View(r)[e].state \in {"TRASHED", "MISSING", "NONE"}
    \/ Kind[nodes[e].path] # "local"

\* Mutant: the time recorded is the expiry.
RecordExpiry(times, n) == [times EXCEPT ![n] = now + Retention + 1]

\* RecordNodeTrashed: unixepoch() as the row is marked, one row at a time.
RecordNodeTrashed(times, n) == [times EXCEPT ![n] = now]

\* One export of purgeLinkedExports.
TrashExport(c, e) ==
    LET r    == req[c]
        skip == [r EXCEPT !.todo = @ \ {e}]
        next == [r EXCEPT !.todo = @ \ {e}, !.marked = @ \cup {e},
                          !.times = RecordNodeTrashed(@, e)]
    IN  /\ r.phase = "run" /\ r.op = "trash" /\ r.begun /\ e \in r.todo
        /\ IF SkipExport(r, e)
             THEN Proceed(c, TRUE, skip) /\ UNCHANGED fileVars
             ELSE MoveToTrash(c, e, MarkAllowed(r, e), next)
        /\ UNCHANGED <<dbVars, purger, now, mishaps>>

\* Mutant: a restore keeps the trash time.
KeepTrashTime(S)  == trashedAt

\* ClearNodeTrashed
ClearNodeTrashed(S)  == [n \in Node |-> IF n \in S THEN NoTime ELSE trashedAt[n]]

\* Every export visited: the master's row, then the commit.
CommitTrash(c) ==
    LET r      == req[c]
        marked == r.marked \cup {r.node}
        times  == RecordNodeTrashed(r.times, r.node)
    IN  /\ r.phase = "run" /\ r.op = "trash" /\ r.begun /\ r.todo = {}
        /\ nodes' = Flip(nodes, marked, "TRASHED")
        /\ trashedAt' = [n \in Node |-> IF n \in marked THEN times[n] ELSE trashedAt[n]]
        /\ cascades' = cascades \cup {<<r.node, e>> : e \in r.marked}
        /\ req' = [req EXCEPT ![c] = Idle]
        /\ purger' = {[x EXCEPT !.late = @ \/ x.node \in marked] : x \in purger}
        /\ UNCHANGED <<fileVars, now, mishaps>>

\* ListOpenTrashCascadeExports and CloseTrashCascadesForExport
OpenExports(n) == {x[2] : x \in {y \in cascades : y[1] = n}}
\* Mutant: the rows are closed by parent.
CloseByParent(S) == {x \in cascades : x[1] \notin S}
CloseCascades(S) == {x \in cascades : x[2] \notin S}

\* RestoreTrashedAsset: refused unless TRASHED, not superseded, path free.
BeginRestore(c, n) ==
    /\ req[c].phase = "idle" /\ WriterFree
    /\ nodes[n].state = "TRASHED"
    /\ nodes[n].sup = 0
    /\ LiveAt(nodes, nodes[n].path) \ {n} = {}
    /\ req' = [req EXCEPT ![c] =
         [Idle EXCEPT !.phase = "run", !.op = "restore", !.node = n,
                      !.todo = OpenExports(n) \ {n},
                      !.closed = OpenExports(n) \cup {n}]]
    /\ UNCHANGED <<dbVars, fileVars, purger, now, mishaps>>

RestoreMaster(c) ==
    LET r == req[c]
    IN  /\ r.phase = "run" /\ r.op = "restore" /\ ~r.begun /\ r.aim = {}
        /\ RestoreFromTrash(c, r.node, FALSE, MarkAllowed(r, r.node),
                            [r EXCEPT !.begun = TRUE, !.marked = {r.node}])
        /\ UNCHANGED <<dbVars, purger, now, mishaps>>

\* One export of restoreLinkedExports.
RestoreExport(c, e) ==
    LET r    == req[c]
        skip == [r EXCEPT !.todo = @ \ {e}]
        next == [r EXCEPT !.todo = @ \ {e}, !.marked = @ \cup {e}]
    IN  /\ r.phase = "run" /\ r.op = "restore" /\ r.begun /\ r.aim = {} /\ e \in r.todo
        /\ IF View(r)[e].state = "TRASHED"
             THEN RestoreFromTrash(c, e, TRUE, MarkAllowed(r, e), next)
             ELSE Proceed(c, TRUE, skip) /\ UNCHANGED fileVars
        /\ UNCHANGED <<dbVars, purger, now, mishaps>>

\* The rename restoreFromTrash has decided on.  os.Rename replaces whatever is
\* at the path by now, and fails, with the transaction, if the copy has gone.
RenameBack(c) ==
    LET r == req[c]
    IN  /\ r.phase = "run" /\ r.op = "restore"
        /\ \E n \in r.aim :
             LET p    == nodes[n].path
                 next == [r EXCEPT !.begun = TRUE, !.aim = {}, !.todo = @ \ {n},
                                   !.marked = @ \cup {n}]
             IN  IF bin[p][n] = NoFile
                   THEN Proceed(c, FALSE, r) /\ UNCHANGED fileVars
                   ELSE /\ disk' = [disk EXCEPT ![p] = bin[p][n]]
                        /\ bin' = [bin EXCEPT ![p][n] = NoFile]
                        /\ stamp' = [stamp EXCEPT ![p][n] = 0]
                        /\ Proceed(c, MarkAllowed(r, n),
                                   Moved(next, p, n, "out", stamp[p][n]))
                        /\ UNCHANGED arrived
        /\ UNCHANGED <<dbVars, purger, now, mishaps>>

CommitRestore(c) ==
    LET r == req[c]
    IN  /\ r.phase = "run" /\ r.op = "restore" /\ r.begun /\ r.aim = {} /\ r.todo = {}
        /\ nodes' = Flip(nodes, r.marked, "ACTIVE")
        /\ trashedAt' = ClearNodeTrashed(r.marked)
        /\ cascades' = CloseCascades(r.closed)
        /\ req' = [req EXCEPT ![c] = Idle]
        /\ UNCHANGED <<fileVars, purger, now, mishaps>>

\* A file or database error anywhere in the transaction, its commit included.
Fault(c) ==
    /\ TxFaults
    /\ req[c].phase = "run"
    /\ Proceed(c, FALSE, req[c])
    /\ UNCHANGED <<dbVars, fileVars, purger, now, mishaps>>

\* A file comes to p while a restore is between its look and its rename.
Arrive(p) == IF \E c \in Client : req[c].aim # {} THEN arrived \cup {p} ELSE arrived

\* moveLog.undo: newest first, best effort; os.Rename replaces its target.
Undo(c) ==
    LET r    == req[c]
        m    == r.moves[Len(r.moves)]
        p    == m.path
        n    == m.node
        file == IF m.dir = "in" THEN bin[p][n] ELSE disk[p]
        rest == [r EXCEPT !.moves = SubSeq(@, 1, Len(@) - 1)]
    IN  /\ r.phase = "undo" /\ r.moves # <<>>
        /\ Proceed(c, FALSE, rest)
        /\ \/ /\ file # NoFile
              /\ disk' = [disk EXCEPT ![p] = IF m.dir = "in" THEN file ELSE NoFile]
              /\ bin' = [bin EXCEPT ![p][n] = IF m.dir = "in" THEN NoFile ELSE file]
              /\ stamp' = [stamp EXCEPT ![p][n] = IF m.dir = "in" THEN 0 ELSE m.at]
              /\ arrived' = IF m.dir = "in" THEN Arrive(p) ELSE arrived
              /\ UNCHANGED mishaps
           \/ /\ file # NoFile /\ mishaps < MaxMishap
              /\ mishaps' = mishaps + 1
              /\ UNCHANGED fileVars
           \/ /\ file = NoFile
              /\ UNCHANGED <<fileVars, mishaps>>
        /\ UNCHANGED <<dbVars, purger, now>>

\* handleRestoreAsset on an ARCHIVED row: the row is read before the
\* transaction, and the transaction does not look at its state again.
ReadArchived(c, n) ==
    /\ req[c].phase = "idle"
    /\ nodes[n].state = "ARCHIVED"
    /\ nodes[n].sup = 0
    /\ disk[nodes[n].path] # NoFile
    /\ req' = [req EXCEPT ![c] =
         [Idle EXCEPT !.phase = "pending", !.op = "unarchive", !.node = n,
                      !.read = {nodes[n].path}]]
    /\ UNCHANGED <<dbVars, fileVars, purger, now, mishaps>>

Unarchive(c) ==
    LET n        == req[c].node
        occupied == \E p \in req[c].read : LiveAt(nodes, p) \ {n} # {}
        restored == UnarchiveMediaNode(nodes, n)
    IN  /\ req[c].phase = "pending" /\ WriterFree
        /\ nodes' = IF ~occupied /\ Schema(restored) THEN restored ELSE nodes
        /\ req' = [req EXCEPT ![c] = Idle]
        /\ UNCHANGED <<trashedAt, cascades, fileVars, purger, now, mishaps>>

----------------------------------------------------------------------------
\* Mutant: every copy is aged by its mtime.
FileTime(p, n) == stamp[p][n]

\* TrashTimeLookup: the copy of a TRASHED node has its recorded trash time;
\* any other file in .trash has its mtime.
CopyTime(p, n) ==
    IF nodes[n].state = "TRASHED" /\ trashedAt[n] # NoTime /\ nodes[n].path = p
      THEN trashedAt[n]
      ELSE stamp[p][n]

Expired(t) == t + Retention < now

\* PurgeTrash, unless retention is off, walks .trash: it looks a copy's age
\* up ...
PurgeLookup(p, n) ==
    /\ purger = {} /\ Retention > 0
    /\ Kind[p] = "local"
    /\ bin[p][n] # NoFile
    /\ Expired(CopyTime(p, n))
    /\ purger' = {[path |-> p, node |-> n, late |-> FALSE]}
    /\ UNCHANGED <<dbVars, fileVars, req, now, mishaps>>

\* ... and unlinks it in a separate step, which fails if it has gone.
PurgeRemove ==
    \E x \in purger :
        /\ bin' = [bin EXCEPT ![x.path][x.node] = NoFile]
        /\ stamp' = [stamp EXCEPT ![x.path][x.node] = 0]
        /\ purger' = {}
        /\ UNCHANGED <<dbVars, disk, arrived, req, now, mishaps>>

\* A scan indexes the file at p (see Commit); the hash policy may or may not
\* ask for the full hash.
Scan(p) ==
    /\ WriterFree
    /\ disk[p] # NoFile
    /\ FreeIds(nodes) # {}
    /\ \E full \in {NoHash, disk[p]} :
         LET out == CommitOne(nodes, [path |-> p, fast |-> FastOf[disk[p]], full |-> full])
         IN  out.ok /\ nodes' = out.nodes
    /\ UNCHANGED <<trashedAt, cascades, fileVars, req, purger, now, mishaps>>

\* The MISSING sweep of a scan that found no file at p.
Sweep(p) ==
    /\ WriterFree
    /\ Kind[p] # "virtual"
    /\ disk[p] = NoFile
    /\ \E n \in LiveAt(nodes, p) : nodes' = MarkNodeMissing(nodes, n)
    /\ UNCHANGED <<trashedAt, cascades, fileVars, req, purger, now, mishaps>>

\* Another program replaces, creates or deletes a file.
ExternalWrite(p, f) ==
    /\ mishaps < MaxMishap
    /\ <<p, f>> \in Foreign
    /\ Kind[p] # "virtual"
    /\ disk[p] # f
    /\ disk' = [disk EXCEPT ![p] = f]
    /\ arrived' = IF f = NoFile THEN arrived ELSE Arrive(p)
    /\ mishaps' = mishaps + 1
    /\ UNCHANGED <<dbVars, bin, stamp, req, purger, now>>

Tick ==
    /\ now < MaxTime
    /\ now' = now + 1
    /\ UNCHANGED <<dbVars, fileVars, req, purger, mishaps>>

\* The process dies: the open transaction is rolled back, no undo runs, and
\* nothing looks at .trash on the next start.
Crash ==
    /\ mishaps < MaxMishap
    /\ mishaps' = mishaps + 1
    /\ req' = [c \in Client |-> Idle]
    /\ purger' = {}
    /\ UNCHANGED <<dbVars, fileVars, now>>

ClientStep(c) ==
    \/ \E n \in Node, keepExports \in BOOLEAN : BeginTrash(c, n, keepExports)
    \/ TrashMaster(c)
    \/ \E e \in Node : TrashExport(c, e)
    \/ CommitTrash(c)
    \/ \E n \in Node : BeginRestore(c, n)
    \/ RestoreMaster(c)
    \/ \E e \in Node : RestoreExport(c, e)
    \/ RenameBack(c)
    \/ CommitRestore(c)
    \/ Fault(c)
    \/ Undo(c)
    \/ \E n \in Node : ReadArchived(c, n)
    \/ Unarchive(c)

OtherStep ==
    \/ \E p \in Path, n \in Node : PurgeLookup(p, n)
    \/ PurgeRemove
    \/ \E p \in Path : Scan(p)
    \/ \E p \in Path : Sweep(p)
    \/ \E p \in Path, f \in File : ExternalWrite(p, f)
    \/ Tick
    \/ Crash

Next == (\E c \in Client : ClientStep(c)) \/ OtherStep

Spec == Init /\ [][Next]_vars

----------------------------------------------------------------------------
\* Every variable holds a value of its kind.
TypeOK ==
    /\ nodes \in Table
    /\ trashedAt \in [Node -> Time \cup {NoTime}]
    /\ cascades \in SUBSET (Node \X Node)
    /\ disk \in [Path -> File]
    /\ bin \in [Path -> [Node -> File]]
    /\ stamp \in [Path -> [Node -> Time \cup {OldTime}]]
    /\ arrived \in SUBSET Path
    /\ req \in [Client -> Request]
    /\ purger \in SUBSET Lookup
    /\ now \in Time
    /\ mishaps \in 0..MaxMishap

\* An open trash_cascades row (trash_cascades.sql) stands for one trash: its
\* master and its export are both TRASHED, the export no later than the master,
\* whose row the transaction marks last, and no other open row names the export.
\* So restoring the master brings back exactly the exports it took with it,
\* never one the user has restored and trashed on its own since.
CascadesMatch ==
    \A x \in cascades :
        /\ nodes[x[1]].state = "TRASHED" /\ nodes[x[2]].state = "TRASHED"
        /\ trashedAt[x[2]] <= trashedAt[x[1]]
        /\ \A y \in cascades : y[2] = x[2] => y = x

\* A TRASHED row has a recorded trash time, whichever of trash, cascade,
\* restore, scan and sweep wrote it last, so the purge worker never ages the
\* copy of a row in the trash by its mtime.
TrashedHasTime == \A n \in Node : nodes[n].state = "TRASHED" => trashedAt[n] # NoTime

\* And only a TRASHED row has one: a restore clears it (ClearNodeTrashed).
TimeOnlyTrashed == \A n \in Node : trashedAt[n] # NoTime => nodes[n].state = "TRASHED"

TrashClock == TrashedHasTime /\ TimeOnlyTrashed

\* What makes CascadesMatch and TrashClock inductive for sequential requests.
\* The rows a transaction read when it began have not changed since, the row an
\* unarchive has read is not in the trash, and no export of an open cascade is
\* the master of another.
NodeKnown ==
    \A c \in Client : req[c].phase \in {"run", "pending"} => req[c].node \in Node

TrashRuns(r) ==
    /\ nodes[r.node].state \in {"ACTIVE", "MISSING"}
    /\ \A n \in r.marked : nodes[n].state # "TRASHED" /\ r.times[n] \in 0..now
    /\ r.node \notin r.todo \cup r.marked

RestoreRuns(r) ==
    /\ r.closed = OpenExports(r.node) \cup {r.node}
    /\ r.marked \cup r.todo \cup r.aim \subseteq r.closed

Running ==
    \A c \in Client : req[c].phase = "run" =>
        /\ req[c].op = "trash" => TrashRuns(req[c])
        /\ req[c].op = "restore" => RestoreRuns(req[c])

Pending ==
    \A c \in Client : req[c].phase = "pending" => nodes[req[c].node].state # "TRASHED"

NoCascadeChain == \A x, y \in cascades : x[2] # y[1]

\* When no transaction or undo is under way, the rows say where the bytes are:
\* an ACTIVE row has none in .trash and a TRASHED row of a local path none at
\* the path (TrashAsset: "so DB and disk agree again").
RowsMatchDisk ==
    (mishaps = 0 /\ \A c \in Client : req[c].phase \in {"idle", "pending"})
    => \A n \in Node :
         LET p == nodes[n].path
         IN  /\ nodes[n].state = "ACTIVE" => bin[p][n] = NoFile
             /\ nodes[n].state = "TRASHED" /\ Kind[p] = "local" => disk[p] = NoFile

Held == {disk[p] : p \in Path} \cup {bin[p][n] : p \in Path, n \in Node}

\* A restore destroys the last copy of a file's bytes only if the file was put
\* at the path between its look and its rename (restoreFromTrash: "refusing to
\* silently clobber", but os.Rename replaces its target).  Whatever other
\* clients, crashes and other programs had left there or in .trash before it
\* looked is kept, whichever of its steps commits or fails.
RestoreKeepsBytes ==
    [][\A c \in Client :
         req[c].phase = "run" /\ req[c].op = "restore" /\ req'[c] # req[c]
         => \A x \in Held \ {NoFile} :
              \/ x \in Held'
              \/ \E n \in req[c].aim :
                   nodes[n].path \in arrived /\ disk[nodes[n].path] = x]_vars

\* PurgeTrash unlinks the copy of a TRASHED row before the retention is over only
\* if the trash was committed after it had looked the copy up: the restores,
\* scans, sweeps and failed transactions between its look and its unlink, and a
\* Chtimes that failed, bring no fresh copy within its reach.
PurgeSparesFresh ==
    [][\A x \in purger \ purger' :
         /\ bin[x.path][x.node] # NoFile /\ bin'[x.path][x.node] = NoFile
         /\ nodes[x.node].state = "TRASHED" /\ nodes[x.node].path = x.path
         => x.late \/ Expired(trashedAt[x.node])]_vars
=============================================================================
