----------------------------- MODULE NodeStore -----------------------------
(***************************************************************************)
(* The media_nodes table (internal/db/migrations/00032) together with the  *)
(* full_hash_provenance row of each node, and the statements of            *)
(* internal/db/queries that write them.  Every operator takes a table and  *)
(* returns the table the statement leaves, so a transaction is a           *)
(* composition of statements and a rollback is the table it began with.    *)
(*                                                                         *)
(* Data is abstracted to what the statements compare.  A content stands    *)
(* for the bytes of a file, and is its own BLAKE3 full hash; FastOf gives  *)
(* its 64-bit fast hash, which two contents may share.                     *)
(***************************************************************************)
EXTENDS Integers, FiniteSets

CONSTANTS
    MaxNode,    \* bound on the rows ever inserted (rows are never deleted)
    Path,       \* absolute file paths
    Loc,        \* storage locations
    LocOf,      \* [Path -> Loc]: the location a path resolves to
    Content,    \* the byte sequences a file may hold
    FastHash,   \* values of the 64-bit fast hash
    FastOf,     \* [Content -> FastHash]
    NoHash      \* a NULL full_hash

Node == 1..MaxNode

ASSUME NodeStoreAssumption ==
    /\ MaxNode \in Nat
    /\ LocOf \in [Path -> Loc]
    /\ FastOf \in [Content -> FastHash]
    /\ NoHash \notin Content

FullHash == Content \cup {NoHash}

\* lifecycle_state; "NONE" marks an id no row has been inserted under.
LifecycleState == {"NONE", "ACTIVE", "MISSING", "ARCHIVED", "TRASHED"}

Source == {"NONE", "SERVER", "AGENT"}

Row == [state : LifecycleState,
        path  : Path,
        fast  : FastHash,
        full  : FullHash,
        sup   : 0..MaxNode,                             \* superseded_by, 0 = NULL
        prov  : [src : Source, hash : FullHash]]        \* full_hash_provenance

Table == [Node -> Row]

NoProvenance == [src |-> "NONE", hash |-> NoHash]

----------------------------------------------------------------------------
\* The predicates the queries and the indexes of the schema are written with.

Exists(row) == row.state # "NONE"

\* lifecycle_state NOT IN ('ARCHIVED','TRASHED')
Live(row) == row.state \notin {"NONE", "ARCHIVED", "TRASHED"}

LiveAt(t, p) == {n \in Node : Live(t[n]) /\ t[n].path = p}

\* GetLatestNodeByPath: the row with the greatest id at the path, as a set of
\* at most one id.
LatestAt(t, p) ==
    {n \in Node : /\ Exists(t[n]) /\ t[n].path = p
                  /\ \A m \in Node : Exists(t[m]) /\ t[m].path = p => m <= n}

\* GetMediaNodeByFullHash: the ACTIVE rows that own a full hash.
Owners(t, h) == {n \in Node : t[n].state = "ACTIVE" /\ t[n].full = h}

\* ListMissingNodesByFastHash
MissingWithFast(t, f) == {n \in Node : t[n].state = "MISSING" /\ t[n].fast = f}

\* ux_media_nodes_live_path
LivePathUnique(t) ==
    \A m, n \in Node : Live(t[m]) /\ Live(t[n]) /\ t[m].path = t[n].path => m = n

\* ux_media_nodes_live_full_hash
LiveFullHashUnique(t) ==
    \A m, n \in Node :
        /\ t[m].state = "ACTIVE" /\ t[n].state = "ACTIVE"
        /\ t[m].full # NoHash /\ t[m].full = t[n].full
        => m = n

\* CHECK (superseded_by IS NULL OR lifecycle_state = 'ARCHIVED'), and <> id.
SupersededIsArchived(t) ==
    \A n \in Node : t[n].sup # 0 => t[n].state = "ARCHIVED" /\ t[n].sup # n

\* A statement whose result breaks the schema fails and aborts its transaction.
Schema(t) == LivePathUnique(t) /\ LiveFullHashUnique(t) /\ SupersededIsArchived(t)

\* A full_hash the server itself computed from the bytes of this row.
Vouched(row) ==
    row.full # NoHash /\ row.prov = [src |-> "SERVER", hash |-> row.full]

----------------------------------------------------------------------------
\* The statements.

FreeIds(t) == {n \in Node : ~Exists(t[n])}

\* INTEGER PRIMARY KEY: ids are handed out in increasing order.
NextId(t) == CHOOSE n \in FreeIds(t) : \A m \in FreeIds(t) : n <= m

InsertMediaNode(t, p, f, h, prov) ==
    [t EXCEPT ![NextId(t)] = [state |-> "ACTIVE", path |-> p, fast |-> f,
                              full |-> h, sup |-> 0, prov |-> prov]]

SetState(t, n, s) == [t EXCEPT ![n].state = s]

ArchiveMediaNode(t, n) == SetState(t, n, "ARCHIVED")

UnarchiveMediaNode(t, n) == SetState(t, n, "ACTIVE")

SetSupersededBy(t, n, m) == [t EXCEPT ![n].sup = m]

\* Only a MISSING row changes state; ARCHIVED and TRASHED rows are not touched.
TouchMediaNode(t, n) ==
    IF t[n].state = "MISSING" THEN SetState(t, n, "ACTIVE") ELSE t

RebaseMissingNodePath(t, n, p) ==
    IF Live(t[n]) THEN [t EXCEPT ![n].state = "ACTIVE", ![n].path = p] ELSE t

\* MarkNodeMissing: only live rows go MISSING.
MarkNodeMissing(t, n) ==
    IF t[n].state = "ACTIVE" THEN SetState(t, n, "MISSING") ELSE t

MarkNodeTrashed(t, n) == SetState(t, n, "TRASHED")

UntrashNode(t, n) == SetState(t, n, "ACTIVE")

UpdateMediaNodeFullHash(t, n, h) == [t EXCEPT ![n].full = h]

\* RecordFullHashSource: a no-op without a hash, never a downgrade of the hash
\* a SERVER row already vouches for.
RecordFullHashSource(t, n, h, src) ==
    IF h = NoHash THEN t
    ELSE LET keeps == t[n].prov = [src |-> "SERVER", hash |-> h]
         IN  [t EXCEPT ![n].prov =
                 [src |-> IF keeps THEN "SERVER" ELSE src, hash |-> h]]

\* ClearMediaNodeFullHash and DeleteFullHashProvenance, as
\* clearDisprovedFullHash pairs them.
ClearDisprovedFullHash(t, n) ==
    LET h == t[n].full
    IN  IF h = NoHash THEN t
        ELSE [t EXCEPT ![n].full = NoHash,
                       ![n].prov = IF @.hash = h THEN NoProvenance ELSE @]
=============================================================================
