---------------------------- MODULE Ingest_proofs ----------------------------
(***************************************************************************)
(* The scan job, for every location, pool, batch size and number of        *)
(* mishaps: a job row is RUNNING exactly while its scan runs, and the      *)
(* sweep marks no row MISSING whose file was there throughout the scan,    *)
(* whatever failed, was refused, abandoned or overtaken meanwhile.         *)
(***************************************************************************)
EXTENDS Ingest, Commit_proofs, FiniteSetTheorems, SequenceTheorems

----------------------------------------------------------------------------
\* The inductive invariant.  Until scan k has swept, it can say of every file
\* that stayed where it was what became of it: the walk has still to visit it,
\* its path is uncertain, it is in the touch batch, with the pool or with the
\* committer, or the row at its path has been seen.

\* The rows at path p that a sweep of scan k would mark.
Unswept(k, p) ==
    {n \in scan[k].stale : nodes[n].state = "ACTIVE" /\ nodes[n].path = p}

Pending == Elements(queue) \cup busy \cup Elements(dropped)

\* The results of scan k that are not yet committed.
Uncommitted(k) == Elements(scan[k].results) \cup Elements(scan[k].buf)

Followed(k, p) ==
    \/ p \in scan[k].todo
    \/ p \in scan[k].uncertain
    \/ \E x \in scan[k].touch : x[2] = p /\ Unswept(k, p) \subseteq {x[1]}
    \/ \E t \in Pending : t.kind = k /\ t.path = p
    \/ \E r \in Uncommitted(k) : r.path = p
    \/ Unswept(k, p) = {}

Sweeping(k) == scan[k].phase \in {"walk", "wait", "closed"} /\ ~scan[k].failed

Tracked(k, p) ==
    Sweeping(k) /\ p \in (Here \cap Present(k)) \ history[k].blind => Followed(k, p)

FilesFollowed == \A k \in ScanKind, p \in Path : Tracked(k, p)

\* Outside the walk nothing is left to visit or to touch, and once the results
\* are closed no task holds a token of the scan.
Over(k) ==
    /\ scan[k].phase # "walk" => scan[k].todo = {} /\ scan[k].touch = {}
    /\ scan[k].phase = "closed" => \A t \in Tokens : t.kind # k

WalkOver == \A k \in ScanKind : Over(k)

\* Tasks are dropped only when the pool is closed, and have then been released
\* one by one; what a worker made of a task is about the task's path.
PoolInOrder ==
    /\ pool # "closed" => dropped = <<>>
    /\ released => dropped # <<>>
    /\ \A t \in Pending : t.out # <<>> => t.out[1].path = t.path

StaleExist == \A k \in ScanKind : \A n \in scan[k].stale : Exists(nodes[n])

\* A job row left RUNNING by a failed write belongs to a scan that is over.
StuckIdle == \A k \in ScanKind : history[k].stuck => scan[k].phase = "idle"

JobInv == ScanHasJob /\ StuckIdle

SweepInv ==
    Schema(nodes) /\ StaleExist /\ PoolInOrder /\ WalkOver /\ FilesFollowed

----------------------------------------------------------------------------
\* What a commit does to the rows a sweep looks for.  A row it has not seen is
\* ACTIVE only where it was ACTIVE before, no ACTIVE row it has not seen is
\* left at the path of the result, and at most the next id is taken.

SameRows(t, u) == \A m \in Node : u[m].state = t[m].state /\ u[m].path = t[m].path

ActiveOnlySeen(t, u, seen) ==
    \A m \in Node \ seen :
        u[m].state = "ACTIVE" => t[m].state = "ACTIVE" /\ u[m].path = t[m].path

SeenAt(u, seen, p) ==
    \A m \in Node : u[m].state = "ACTIVE" /\ u[m].path = p => m \in seen

TakesNext(t, u) == \A m \in FreeIds(t) \ {NextId(t)} : m \in FreeIds(u)

Settles(t, out, p) ==
    /\ out.seen \subseteq Node
    /\ ActiveOnlySeen(t, out.nodes, out.seen)
    /\ SeenAt(out.nodes, out.seen, p)
    /\ TakesNext(t, out.nodes)

LEMMA SameRowsTransitive ==
    ASSUME NEW t, NEW u, NEW v, SameRows(t, u), SameRows(u, v)
    PROVE  SameRows(t, v)
BY DEF SameRows

LEMMA RecordSame ==
    ASSUME NEW t \in Table, NEW n \in Node, NEW h
    PROVE  SameRows(t, RecordFullHashSource(t, n, h, "SERVER"))
BY DEF SameRows, RecordFullHashSource, Table, Row

LEMMA UpdateSame ==
    ASSUME NEW t \in Table, NEW n \in Node, NEW h
    PROVE  SameRows(t, UpdateMediaNodeFullHash(t, n, h))
BY DEF SameRows, UpdateMediaNodeFullHash, Table, Row

LEMMA ClearSame ==
    ASSUME NEW t \in Table, NEW n \in Node
    PROVE  SameRows(t, ClearDisprovedFullHash(t, n))
BY DEF SameRows, ClearDisprovedFullHash, Table, Row

LEMMA LinkSame ==
    ASSUME NEW t \in Table, NEW n \in Node, NEW m
    PROVE  SameRows(t, SetSupersededBy(t, n, m))
BY DEF SameRows, SetSupersededBy, Table, Row

\* The new row is the only one an insert changes.
LEMMA InsertRows ==
    ASSUME NEW t \in Table, FreeIds(t) # {}, NEW r, Hashed(r)
    PROVE  /\ NextId(t) \in Node
           /\ InsertNewNode(t, r)[NextId(t)].state = "ACTIVE"
           /\ InsertNewNode(t, r)[NextId(t)].path = r.path
           /\ \A m \in Node \ {NextId(t)} :
                /\ InsertNewNode(t, r)[m].state = t[m].state
                /\ InsertNewNode(t, r)[m].path = t[m].path
<1> DEFINE bare == InsertMediaNode(t, r.path, r.fast, r.full, NoProvenance)
<1>1. NextId(t) \in Node
    BY NextIdFree DEF FreeIds
<1>2. r.path \in Path /\ r.fast \in FastHash /\ r.full \in FullHash
    BY DEF Hashed
<1>3. bare \in Table
    BY <1>2, InsertKeeps
<1>4. /\ bare[NextId(t)].state = "ACTIVE" /\ bare[NextId(t)].path = r.path
      /\ \A m \in Node \ {NextId(t)} :
           bare[m].state = t[m].state /\ bare[m].path = t[m].path
    BY <1>1 DEF InsertMediaNode, Table
<1>5. SameRows(bare, InsertNewNode(t, r))
    BY <1>1, <1>3, RecordSame DEF InsertNewNode
<1>6. QED
    BY <1>1, <1>4, <1>5 DEF SameRows

\* With one live row at a path, Oldest is that row.
LEMMA LiveRow ==
    ASSUME NEW t \in Table, LivePathUnique(t), NEW p \in Path, LiveAt(t, p) # {}
    PROVE  /\ Oldest(LiveAt(t, p)) \in LiveAt(t, p)
           /\ LiveAt(t, p) = {Oldest(LiveAt(t, p))}
<1>1. LiveAt(t, p) \in SUBSET Node
    BY DEF LiveAt
<1>2. Oldest(LiveAt(t, p)) \in LiveAt(t, p)
    BY <1>1, OldestIn
<1>3. \A m \in LiveAt(t, p), n \in LiveAt(t, p) : m = n
    BY DEF LiveAt, LivePathUnique
<1>4. QED
    BY <1>2, <1>3

----------------------------------------------------------------------------
\* The branches of commitOne.

LEMMA TouchSeenSettles ==
    ASSUME NEW t \in Table, NEW n \in Node, NEW r, Hashed(r),
           LiveAt(t, r.path) = {n}
    PROVE  Settles(t, TouchSeen(t, n, r), r.path)
<1> DEFINE touched == TouchMediaNode(t, n)
           hashed  == UpdateMediaNodeFullHash(touched, n, r.full)
           last    == TouchSeen(t, n, r).nodes
<1>1. touched \in Table
    BY TouchKeeps
<1>2. r.full \in FullHash
    BY DEF Hashed
<1>3. hashed \in Table
    BY <1>1, <1>2, UpdateFullHashKeeps
<1>4. \/ last = touched
      \/ last = RecordFullHashSource(touched, n, r.full, "SERVER")
      \/ last = ClearDisprovedFullHash(touched, n)
      \/ last = RecordFullHashSource(hashed, n, r.full, "SERVER")
    BY DEF TouchSeen, Outcome
<1>5. SameRows(touched, last)
    BY <1>1, <1>3, <1>4, RecordSame, UpdateSame, ClearSame, SameRowsTransitive
    DEF SameRows
<1>6. TouchSeen(t, n, r).seen = {n}
    BY DEF TouchSeen, Outcome
<1>7. Live(t[n]) /\ t[n].path = r.path
    BY DEF LiveAt
<1>8. \A m \in Node \ {n} : last[m].state = t[m].state /\ last[m].path = t[m].path
    BY <1>5 DEF SameRows, TouchMediaNode, SetState, Table
<1>9. Exists(last[n])
    BY <1>5, <1>7 DEF SameRows, TouchMediaNode, SetState, Table, Exists, Live
<1>10. \A m \in Node \ {n} : ~ (t[m].state = "ACTIVE" /\ t[m].path = r.path)
    BY DEF LiveAt, Live
<1>11. SeenAt(last, {n}, r.path) /\ ActiveOnlySeen(t, last, {n})
    BY <1>8, <1>10 DEF SeenAt, ActiveOnlySeen
<1>12. TakesNext(t, last)
    BY <1>7, <1>8 DEF TakesNext, FreeIds, Exists, Live
<1>13. QED
    BY <1>6, <1>11, <1>12 DEF Settles

LEMMA SupersedeSettles ==
    ASSUME NEW t \in Table, NEW n \in Node, FreeIds(t) # {}, NEW r, Hashed(r),
           LiveAt(t, r.path) = {n}
    PROVE  Settles(t, Supersede(t, n, r), r.path)
<1> DEFINE archived == ArchiveMediaNode(t, n)
           inserted == InsertNewNode(archived, r)
           new      == NextId(archived)
           linked   == SetSupersededBy(inserted, n, new)
<1>1. Live(t[n]) /\ t[n].path = r.path
    BY DEF LiveAt
<1>2. archived \in Table
    BY <1>1, SetStateKeeps DEF ArchiveMediaNode, Live, LifecycleState
<1>3. FreeIds(archived) = FreeIds(t)
    BY <1>1 DEF FreeIds, Exists, ArchiveMediaNode, SetState, Live, Table
<1>4. new = NextId(t)
    BY <1>3 DEF NextId
<1>5. archived[n].state = "ARCHIVED"
    BY DEF ArchiveMediaNode, SetState, Table
<1>6. \A m \in Node \ {n} :
        archived[m].state = t[m].state /\ archived[m].path = t[m].path
    BY DEF ArchiveMediaNode, SetState, Table
<1>7. \A m \in Node \ {n} : ~ (t[m].state = "ACTIVE" /\ t[m].path = r.path)
    BY DEF LiveAt, Live
<1>8. CASE Supersede(t, n, r) = Outcome({}, archived, {})
  <2>1. Supersede(t, n, r).nodes = archived /\ Supersede(t, n, r).seen = {}
      BY <1>8 DEF Outcome
  <2>2. SeenAt(archived, {}, r.path)
      BY <1>5, <1>6, <1>7 DEF SeenAt
  <2>3. ActiveOnlySeen(t, archived, {})
      BY <1>5, <1>6 DEF ActiveOnlySeen
  <2>4. TakesNext(t, archived)
      BY <1>3 DEF TakesNext
  <2>5. QED
      BY <2>1, <2>2, <2>3, <2>4 DEF Settles
<1>9. CASE Supersede(t, n, r) = Outcome({archived, inserted}, linked, {new})
  <2>1. Supersede(t, n, r).nodes = linked /\ Supersede(t, n, r).seen = {new}
      BY <1>9 DEF Outcome
  <2>2. inserted \in Table /\ new \in Node
      BY <1>2, <1>3, InsertNewNodeKeeps
  <2>3. \A m \in Node \ {new} :
          inserted[m].state = archived[m].state /\ inserted[m].path = archived[m].path
      BY <1>2, <1>3, InsertRows
  <2>4. SameRows(inserted, linked)
      BY <2>2, LinkSame
  <2>5. \A m \in Node \ {new} :
          linked[m].state = archived[m].state /\ linked[m].path = archived[m].path
      BY <2>3, <2>4 DEF SameRows
  <2>6. SeenAt(linked, {new}, r.path) /\ ActiveOnlySeen(t, linked, {new})
      BY <1>5, <1>6, <1>7, <2>5 DEF SeenAt, ActiveOnlySeen
  <2>7. TakesNext(t, linked)
      BY <1>3, <1>4, <2>5 DEF TakesNext, FreeIds, Exists
  <2>8. QED
      BY <2>1, <2>2, <2>6, <2>7 DEF Settles
<1>10. QED
    BY <1>8, <1>9 DEF Supersede

\* A branch that leaves the table as it is, where no row is live at the path.
LEMMA UnchangedSettles ==
    ASSUME NEW t \in Table, NEW p, LiveAt(t, p) = {}
    PROVE  Settles(t, Unchanged(t), p)
<1>1. Unchanged(t).nodes = t /\ Unchanged(t).seen = {}
    BY DEF Unchanged, Outcome
<1>2. SeenAt(t, {}, p)
    BY DEF SeenAt, LiveAt, Live
<1>3. ActiveOnlySeen(t, t, {}) /\ TakesNext(t, t)
    BY DEF ActiveOnlySeen, TakesNext
<1>4. QED
    BY <1>1, <1>2, <1>3 DEF Settles

LEMMA ArchivedSuccessorSettles ==
    ASSUME NEW t \in Table, NEW n \in Node, FreeIds(t) # {}, NEW r, Hashed(r),
           LiveAt(t, r.path) = {}
    PROVE  Settles(t, ArchivedSuccessor(t, n, r), r.path)
<1> DEFINE inserted == InsertNewNode(t, r)
           archived == ArchiveMediaNode(inserted, NextId(t))
           linked   == SetSupersededBy(archived, n, NextId(t))
<1>1. CASE ArchivedSuccessor(t, n, r) = Unchanged(t)
    BY <1>1, UnchangedSettles
<1>2. CASE ArchivedSuccessor(t, n, r)
             = Outcome({inserted, archived}, linked, {NextId(t)})
  <2>1. /\ ArchivedSuccessor(t, n, r).nodes = linked
        /\ ArchivedSuccessor(t, n, r).seen = {NextId(t)}
      BY <1>2 DEF Outcome
  <2>2. inserted \in Table /\ NextId(t) \in Node
        /\ inserted[NextId(t)].state = "ACTIVE"
      BY InsertNewNodeKeeps
  <2>3. \A m \in Node \ {NextId(t)} :
          inserted[m].state = t[m].state /\ inserted[m].path = t[m].path
      BY InsertRows
  <2>4. archived \in Table
      BY <2>2, SetStateKeeps DEF ArchiveMediaNode, LifecycleState
  <2>5. \A m \in Node \ {NextId(t)} :
          archived[m].state = t[m].state /\ archived[m].path = t[m].path
      BY <2>2, <2>3 DEF ArchiveMediaNode, SetState, Table
  <2>6. SameRows(archived, linked)
      BY <2>2, <2>4, LinkSame
  <2>7. \A m \in Node \ {NextId(t)} :
          linked[m].state = t[m].state /\ linked[m].path = t[m].path
      BY <2>5, <2>6 DEF SameRows
  <2>8. \A m \in Node : ~ (t[m].state = "ACTIVE" /\ t[m].path = r.path)
      BY DEF LiveAt, Live
  <2>9. SeenAt(linked, {NextId(t)}, r.path) /\ ActiveOnlySeen(t, linked, {NextId(t)})
      BY <2>7, <2>8 DEF SeenAt, ActiveOnlySeen
  <2>10. TakesNext(t, linked)
      BY <2>7 DEF TakesNext, FreeIds, Exists
  <2>11. QED
      BY <2>1, <2>2, <2>9, <2>10 DEF Settles
<1>3. QED
    BY <1>1, <1>2 DEF ArchivedSuccessor

LEMMA RebaseMovedSettles ==
    ASSUME NEW t \in Table, NEW n \in Node, Live(t[n]), NEW r, Hashed(r),
           LiveAt(t, r.path) = {}
    PROVE  Settles(t, RebaseMoved(t, n, r), r.path)
<1> DEFINE rebased == RebaseMissingNodePath(t, n, r.path)
           updated == UpdateMediaNodeFullHash(rebased, n, r.full)
           last    == RebaseMoved(t, n, r).nodes
<1>1. CASE RebaseMoved(t, n, r) = Unchanged(t)
    BY <1>1, UnchangedSettles
<1>2. CASE RebaseMoved(t, n, r) # Unchanged(t)
  <2>1. r.path \in Path /\ r.full \in FullHash
      BY DEF Hashed
  <2>2. rebased \in Table
      BY <2>1, RebaseKeeps
  <2>3. updated \in Table
      BY <2>1, <2>2, UpdateFullHashKeeps
  <2>4. \/ last = rebased
        \/ last = RecordFullHashSource(updated, n, r.full, "SERVER")
      BY <1>2 DEF RebaseMoved, Outcome
  <2>5. SameRows(rebased, last)
      BY <2>2, <2>3, <2>4, RecordSame, UpdateSame, SameRowsTransitive DEF SameRows
  <2>6. RebaseMoved(t, n, r).seen = {n}
      BY <1>2 DEF RebaseMoved, Outcome
  <2>7. \A m \in Node \ {n} : last[m].state = t[m].state /\ last[m].path = t[m].path
      BY <2>5 DEF SameRows, RebaseMissingNodePath, Table
  <2>8. \A m \in Node : ~ (t[m].state = "ACTIVE" /\ t[m].path = r.path)
      BY DEF LiveAt, Live
  <2>9. SeenAt(last, {n}, r.path) /\ ActiveOnlySeen(t, last, {n})
      BY <2>7, <2>8 DEF SeenAt, ActiveOnlySeen
  <2>10. TakesNext(t, last)
      BY <2>7 DEF TakesNext, FreeIds, Exists, Live
  <2>11. QED
      BY <2>6, <2>9, <2>10 DEF Settles
<1>3. QED
    BY <1>1, <1>2

LEMMA CommitNoLiveNodeSettles ==
    ASSUME NEW t \in Table, FreeIds(t) # {}, NEW r, Hashed(r),
           LiveAt(t, r.path) = {}
    PROVE  Settles(t, CommitNoLiveNode(t, r), r.path)
<1>1. \/ /\ LatestAt(t, r.path) # {}
         /\ CommitNoLiveNode(t, r) = ArchivedSuccessor(t, Oldest(LatestAt(t, r.path)), r)
      \/ CommitNoLiveNode(t, r) = Unchanged(t)
      \/ /\ MoveCandidates(t, r) # {}
         /\ CommitNoLiveNode(t, r) = RebaseMoved(t, Oldest(MoveCandidates(t, r)), r)
      \/ CommitNoLiveNode(t, r) = Outcome({}, InsertNewNode(t, r), {NextId(t)})
    BY DEF CommitNoLiveNode
<1>2. /\ LatestAt(t, r.path) \in SUBSET Node
      /\ MoveCandidates(t, r) \in SUBSET Node
      /\ \A n \in MoveCandidates(t, r) : Live(t[n])
    BY DEF LatestAt, MoveCandidates, MissingWithFast, Live
<1>3. CASE /\ LatestAt(t, r.path) # {}
           /\ CommitNoLiveNode(t, r)
                = ArchivedSuccessor(t, Oldest(LatestAt(t, r.path)), r)
  <2>1. Oldest(LatestAt(t, r.path)) \in Node
      BY <1>2, <1>3, OldestIn
  <2>2. QED
      BY <1>3, <2>1, ArchivedSuccessorSettles
<1>4. CASE CommitNoLiveNode(t, r) = Unchanged(t)
    BY <1>4, UnchangedSettles
<1>5. CASE /\ MoveCandidates(t, r) # {}
           /\ CommitNoLiveNode(t, r) = RebaseMoved(t, Oldest(MoveCandidates(t, r)), r)
  <2>1. Oldest(MoveCandidates(t, r)) \in MoveCandidates(t, r)
      BY <1>2, <1>5, OldestIn
  <2>2. Oldest(MoveCandidates(t, r)) \in Node /\ Live(t[Oldest(MoveCandidates(t, r))])
      BY <1>2, <2>1
  <2>3. QED
      BY <1>5, <2>2, RebaseMovedSettles
<1>6. CASE CommitNoLiveNode(t, r) = Outcome({}, InsertNewNode(t, r), {NextId(t)})
  <2> DEFINE inserted == InsertNewNode(t, r)
  <2>1. CommitNoLiveNode(t, r).nodes = inserted /\ CommitNoLiveNode(t, r).seen = {NextId(t)}
      BY <1>6 DEF Outcome
  <2>2. /\ NextId(t) \in Node
        /\ \A m \in Node \ {NextId(t)} :
             inserted[m].state = t[m].state /\ inserted[m].path = t[m].path
      BY InsertRows
  <2>3. \A m \in Node : ~ (t[m].state = "ACTIVE" /\ t[m].path = r.path)
      BY DEF LiveAt, Live
  <2> HIDE DEF inserted
  <2>4. SeenAt(inserted, {NextId(t)}, r.path) /\ ActiveOnlySeen(t, inserted, {NextId(t)})
      BY <2>2, <2>3 DEF SeenAt, ActiveOnlySeen
  <2>5. TakesNext(t, inserted)
      BY <2>2 DEF TakesNext, FreeIds, Exists
  <2>6. QED
      BY <2>1, <2>2, <2>4, <2>5 DEF Settles
<1>7. QED
    BY <1>1, <1>3, <1>4, <1>5, <1>6

\* commitOne.
LEMMA CommitSettles ==
    ASSUME NEW t \in Table, LivePathUnique(t), FreeIds(t) # {}, NEW r, Hashed(r)
    PROVE  Settles(t, CommitOne(t, r), r.path)
<1> DEFINE n == Oldest(LiveAt(t, r.path))
<1>0. r.path \in Path
    BY DEF Hashed
<1>1. CASE LiveAt(t, r.path) = {}
  <2>1. CommitOne(t, r) = CommitNoLiveNode(t, r)
      BY <1>1 DEF CommitOne
  <2>2. QED
      BY <1>1, <2>1, CommitNoLiveNodeSettles
<1>2. CASE LiveAt(t, r.path) # {}
  <2>1. n \in LiveAt(t, r.path) /\ LiveAt(t, r.path) = {n}
      BY <1>0, <1>2, LiveRow
  <2>2. n \in Node
      BY <2>1 DEF LiveAt
  <2>3. CommitOne(t, r) = TouchSeen(t, n, r) \/ CommitOne(t, r) = Supersede(t, n, r)
      BY <1>2 DEF CommitOne
  <2> HIDE DEF n
  <2>4. QED
      BY <2>1, <2>2, <2>3, TouchSeenSettles, SupersedeSettles
<1>3. QED
    BY <1>1, <1>2

\* A batch goes on only from a table the schema accepts.
LEMMA OutcomeOk ==
    ASSUME NEW steps, NEW last, NEW seen, Outcome(steps, last, seen).ok
    PROVE  Schema(Outcome(steps, last, seen).nodes)
BY DEF Outcome

LEMMA CommitOk ==
    ASSUME NEW t, NEW r, CommitOne(t, r).ok
    PROVE  Schema(CommitOne(t, r).nodes)
<1>1. \A u : Unchanged(u).ok => Schema(Unchanged(u).nodes)
    BY DEF Unchanged, Outcome
<1>2. \A u, n : TouchSeen(u, n, r).ok => Schema(TouchSeen(u, n, r).nodes)
    BY OutcomeOk DEF TouchSeen
<1>3. \A u, n : Supersede(u, n, r).ok => Schema(Supersede(u, n, r).nodes)
    BY OutcomeOk DEF Supersede
<1>4. \A u, n : ArchivedSuccessor(u, n, r).ok => Schema(ArchivedSuccessor(u, n, r).nodes)
    BY <1>1, OutcomeOk DEF ArchivedSuccessor
<1>5. \A u, n : RebaseMoved(u, n, r).ok => Schema(RebaseMoved(u, n, r).nodes)
    BY <1>1, OutcomeOk DEF RebaseMoved
<1>6. \A u : CommitNoLiveNode(u, r).ok => Schema(CommitNoLiveNode(u, r).nodes)
    BY <1>1, <1>4, <1>5, OutcomeOk DEF CommitNoLiveNode
<1>7. QED
    BY <1>2, <1>3, <1>6 DEF CommitOne

\* The free ids are finitely many, and a commit takes at most one of them.
LEMMA FreeIdsFinite ==
    ASSUME NEW t
    PROVE  IsFiniteSet(FreeIds(t)) /\ Cardinality(FreeIds(t)) \in Nat
<1>1. IsFiniteSet(Node)
    BY NodeStoreAssumption, FS_Interval DEF Node
<1>2. IsFiniteSet(FreeIds(t))
    BY <1>1, FS_Subset DEF FreeIds
<1>3. QED
    BY <1>2, FS_CardinalityType

LEMMA TakesOne ==
    ASSUME NEW t, NEW u, TakesNext(t, u)
    PROVE  Cardinality(FreeIds(t)) <= Cardinality(FreeIds(u)) + 1
<1>1. /\ IsFiniteSet(FreeIds(t)) /\ Cardinality(FreeIds(t)) \in Nat
      /\ IsFiniteSet(FreeIds(u)) /\ Cardinality(FreeIds(u)) \in Nat
    BY FreeIdsFinite
<1>2. FreeIds(t) \ {NextId(t)} \subseteq FreeIds(u)
    BY DEF TakesNext
<1>3. Cardinality(FreeIds(t) \ {NextId(t)}) <= Cardinality(FreeIds(u))
    BY <1>1, <1>2, FS_Subset
<1>4. /\ IsFiniteSet(FreeIds(t) \ {NextId(t)})
      /\ Cardinality(FreeIds(t) \ {NextId(t)}) =
           IF NextId(t) \in FreeIds(t) THEN Cardinality(FreeIds(t)) - 1
           ELSE Cardinality(FreeIds(t))
    BY <1>1, FS_RemoveElement
<1>5. QED
    BY <1>1, <1>3, <1>4

----------------------------------------------------------------------------
\* The recursion of CommitBatch.

Begun == [ok |-> TRUE, nodes |-> nodes, stat |-> stat, seen |-> {}]

Further(before, r) ==
    LET out == CommitOne(before.nodes, r)
    IN  IF ~before.ok THEN before
        ELSE [ok    |-> out.ok,
              nodes |-> out.nodes,
              stat  |-> [n \in Node |-> IF n \in out.seen THEN r.stat ELSE before.stat[n]],
              seen  |-> before.seen \cup out.seen]

Commits(f, rs, m) ==
    f = [i \in 0..m |-> IF i = 0 THEN Begun ELSE Further(f[i - 1], rs[i])]

LEMMA CommitsExist ==
    ASSUME NEW rs, NEW m \in Nat
    PROVE  \E f : Commits(f, rs, m)
<1> DEFINE Bad == {i \in Nat : ~ \E f : Commits(f, rs, i)}
<1>1. SUFFICES ASSUME Bad # {} PROVE FALSE
    OBVIOUS
<1>2. PICK b \in Bad : \A y \in Bad : b <= y
  <2>1. Bad \in SUBSET Nat
      OBVIOUS
  <2> HIDE DEF Bad
  <2> QED BY <1>1, <2>1, LeastExists
<1>3. CASE b = 0
  <2>1. Commits([i \in 0..0 |-> Begun], rs, 0)
      BY DEF Commits
  <2> QED BY <1>3, <2>1
<1>4. CASE b # 0
  <2>1. b - 1 \in Nat /\ b - 1 \notin Bad
      BY <1>2, <1>4
  <2>2. PICK f : Commits(f, rs, b - 1)
      BY <2>1
  <2> DEFINE g == [i \in 0..b |-> IF i = b THEN Further(f[b - 1], rs[b]) ELSE f[i]]
  <2>3. \A i \in 0..b : g[i] = IF i = 0 THEN Begun ELSE Further(g[i - 1], rs[i])
    <3>1. TAKE i \in 0..b
    <3>2. CASE i = b
        BY <3>2, <1>4
    <3>3. CASE i # b
      <4>1. i \in 0..(b - 1) /\ g[i] = f[i]
          BY <3>3
      <4>2. f[i] = IF i = 0 THEN Begun ELSE Further(f[i - 1], rs[i])
          BY <2>2, <4>1 DEF Commits
      <4>3. i # 0 => g[i - 1] = f[i - 1]
          BY <3>3
      <4> QED BY <4>1, <4>2, <4>3
    <3> QED BY <3>2, <3>3
  <2>4. g = [i \in 0..b |-> g[i]]
      OBVIOUS
  <2>5. Commits(g, rs, b)
    <3> HIDE DEF g
    <3> QED BY <2>3, <2>4 DEF Commits
  <2> QED BY <2>5
<1> QED BY <1>3, <1>4

LEMMA BatchCommits ==
    ASSUME NEW rs, Len(rs) \in Nat
    PROVE  \E f : Commits(f, rs, Len(rs)) /\ CommitBatch(rs) = f[Len(rs)]
<1> DEFINE f == CHOOSE g : Commits(g, rs, Len(rs))
<1>1. Commits(f, rs, Len(rs))
    BY CommitsExist
<1>2. CommitBatch(rs) = (CHOOSE g : g = [i \in 0..Len(rs) |->
                          IF i = 0 THEN Begun ELSE Further(g[i - 1], rs[i])])[Len(rs)]
    BY DEF CommitBatch, Begun, Further
<1>3. CommitBatch(rs) = f[Len(rs)]
    BY <1>2 DEF Commits
<1> HIDE DEF f
<1> QED BY <1>1, <1>3

LEMMA ActiveOnlySeenTransitive ==
    ASSUME NEW t, NEW u, NEW v, NEW S, NEW T,
           ActiveOnlySeen(t, u, S), ActiveOnlySeen(u, v, T)
    PROVE  ActiveOnlySeen(t, v, S \cup T)
BY DEF ActiveOnlySeen

LEMMA SeenAtLater ==
    ASSUME NEW u, NEW v, NEW S, NEW T, NEW p, SeenAt(u, S, p), ActiveOnlySeen(u, v, T)
    PROVE  SeenAt(v, S \cup T, p)
BY DEF ActiveOnlySeen, SeenAt

\* What the first i results of a batch have done to the table.
BatchOf(o, rs, i) ==
    /\ o.nodes \in Table /\ o.stat \in [Node -> File] /\ o.seen \subseteq Node
    /\ Schema(o.nodes)
    /\ KeepsRetired(nodes, o.nodes)
    /\ ActiveOnlySeen(nodes, o.nodes, o.seen)
    /\ \A j \in 1..i : SeenAt(o.nodes, o.seen, rs[j].path)
    /\ Cardinality(FreeIds(nodes)) <= Cardinality(FreeIds(o.nodes)) + i

LEMMA BatchStep ==
    ASSUME NEW o, NEW rs, NEW i \in Nat, BatchOf(o, rs, i), rs[i + 1] \in FileResult,
           i + 1 <= Cardinality(FreeIds(nodes)),
           o.ok, Further(o, rs[i + 1]).ok
    PROVE  BatchOf(Further(o, rs[i + 1]), rs, i + 1)
<1> DEFINE r   == rs[i + 1]
           out == CommitOne(o.nodes, r)
           new == Further(o, r)
<1>1. /\ new.ok = out.ok /\ new.nodes = out.nodes
      /\ new.stat = [n \in Node |-> IF n \in out.seen THEN r.stat ELSE o.stat[n]]
      /\ new.seen = o.seen \cup out.seen
    BY DEF Further
<1>2. Hashed(r) /\ r.stat \in File
    BY DEF Hashed, FileResult, File
<1>3. Cardinality(FreeIds(nodes)) \in Nat /\ Cardinality(FreeIds(o.nodes)) \in Nat
    BY FreeIdsFinite
<1>4. FreeIds(o.nodes) # {}
  <2>1. Cardinality(FreeIds(o.nodes)) # 0
      BY <1>3 DEF BatchOf
  <2>2. QED
      BY <2>1, FreeIdsFinite, FS_EmptySet
<1>5. o.nodes \in Table /\ LivePathUnique(o.nodes)
    BY DEF BatchOf, Schema
<1>6. out.nodes \in Table /\ KeepsRetired(o.nodes, out.nodes)
    BY <1>2, <1>4, <1>5, CommitKeepsRetired
<1>7. Settles(o.nodes, out, r.path)
    BY <1>2, <1>4, <1>5, CommitSettles
<1>8. Schema(out.nodes)
    BY <1>1, CommitOk
<1> HIDE DEF out, new
<1>9. new.nodes \in Table /\ new.stat \in [Node -> File] /\ new.seen \subseteq Node
  <2>1. o.stat \in [Node -> File] /\ o.seen \subseteq Node
      BY DEF BatchOf
  <2>2. out.seen \subseteq Node
      BY <1>7 DEF Settles
  <2>3. QED
      BY <1>1, <1>2, <1>6, <2>1, <2>2
<1>10. KeepsRetired(nodes, new.nodes)
    BY <1>1, <1>6, KeepsTransitive DEF BatchOf
<1>11. ActiveOnlySeen(nodes, new.nodes, new.seen)
    BY <1>1, <1>7, ActiveOnlySeenTransitive DEF BatchOf, Settles
<1>12. \A j \in 1..(i + 1) : SeenAt(new.nodes, new.seen, rs[j].path)
  <2>1. TAKE j \in 1..(i + 1)
  <2>2. CASE j = i + 1
    <3>1. SeenAt(out.nodes, out.seen, rs[j].path)
        BY <1>7, <2>2 DEF Settles
    <3>2. QED
        BY <1>1, <3>1 DEF SeenAt
  <2>3. CASE j # i + 1
    <3>1. SeenAt(o.nodes, o.seen, rs[j].path)
        BY <2>3 DEF BatchOf
    <3>2. ActiveOnlySeen(o.nodes, out.nodes, out.seen)
        BY <1>7 DEF Settles
    <3>3. QED
        BY <1>1, <3>1, <3>2, SeenAtLater
  <2>4. QED
      BY <2>2, <2>3
<1>13. Cardinality(FreeIds(nodes)) <= Cardinality(FreeIds(new.nodes)) + (i + 1)
  <2>1. Cardinality(FreeIds(o.nodes)) <= Cardinality(FreeIds(out.nodes)) + 1
      BY <1>7, TakesOne DEF Settles
  <2>2. Cardinality(FreeIds(nodes)) <= Cardinality(FreeIds(o.nodes)) + i
      BY DEF BatchOf
  <2>3. Cardinality(FreeIds(out.nodes)) \in Nat
      BY FreeIdsFinite
  <2>4. QED
      BY <1>1, <1>3, <2>1, <2>2, <2>3
<1>14. BatchOf(new, rs, i + 1)
    BY <1>1, <1>8, <1>9, <1>10, <1>11, <1>12, <1>13 DEF BatchOf
<1>15. QED
    BY <1>14 DEF new

\* A batch that Commit commits leaves a table the schema allows, in which every
\* ACTIVE row at the path of one of its results has just been seen, no row it has
\* not seen has become ACTIVE or moved, and none has entered or left the trash.
THEOREM BatchSettles ==
    ASSUME nodes \in Table, stat \in [Node -> File], Schema(nodes),
           NEW rs \in Seq(FileResult), Len(rs) <= Cardinality(FreeIds(nodes)),
           CommitBatch(rs).ok
    PROVE  BatchOf(CommitBatch(rs), rs, Len(rs))
<1>1. PICK f : Commits(f, rs, Len(rs)) /\ CommitBatch(rs) = f[Len(rs)]
    BY BatchCommits
<1>2. f[0] = Begun
    BY <1>1 DEF Commits
<1>3. \A i \in 1..Len(rs) : f[i] = Further(f[i - 1], rs[i])
    BY <1>1 DEF Commits
<1> DEFINE Bad == {i \in Nat : i <= Len(rs) /\ f[i].ok /\ ~ BatchOf(f[i], rs, i)}
<1>4. Bad = {}
  <2>1. SUFFICES ASSUME Bad # {} PROVE FALSE
      OBVIOUS
  <2>2. PICK b \in Bad : \A y \in Bad : b <= y
    <3>1. Bad \in SUBSET Nat
        OBVIOUS
    <3> HIDE DEF Bad
    <3> QED BY <2>1, <3>1, LeastExists
  <2>3. CASE b = 0
    <3>1. KeepsRetired(nodes, nodes) /\ ActiveOnlySeen(nodes, nodes, {})
        BY DEF KeepsRetired, ActiveOnlySeen
    <3>2. Cardinality(FreeIds(nodes)) <= Cardinality(FreeIds(nodes)) + 0
        BY FreeIdsFinite
    <3>3. BatchOf(Begun, rs, 0)
        BY <3>1, <3>2 DEF BatchOf, Begun
    <3>4. QED
        BY <1>2, <2>3, <3>3
  <2>4. CASE b # 0
    <3>1. b - 1 \in Nat /\ b \in 1..Len(rs) /\ b = (b - 1) + 1 /\ b - 1 <= Len(rs)
        BY <2>4
    <3>2. f[b] = Further(f[b - 1], rs[b])
        BY <1>3, <3>1
    <3>3. f[b - 1].ok
        BY <3>2 DEF Further
    <3>4. BatchOf(f[b - 1], rs, b - 1)
        BY <2>2, <3>1, <3>3
    <3>5. rs[b] \in FileResult
        BY <3>1
    <3>6. b <= Cardinality(FreeIds(nodes))
        BY <3>1, FreeIdsFinite
    <3>7. BatchOf(Further(f[b - 1], rs[b]), rs, b)
      <4>1. Further(f[b - 1], rs[b]).ok
          BY <3>2
      <4> DEFINE i == b - 1
      <4>2. i \in Nat /\ rs[i + 1] \in FileResult /\ i + 1 <= Cardinality(FreeIds(nodes))
            /\ i + 1 = b
          BY <3>1, <3>5, <3>6
      <4>3. BatchOf(f[i], rs, i) /\ f[i].ok /\ Further(f[i], rs[i + 1]).ok
          BY <3>3, <3>4, <4>1, <4>2
      <4> HIDE DEF i
      <4>4. BatchOf(Further(f[i], rs[i + 1]), rs, i + 1)
          BY <4>2, <4>3, BatchStep
      <4>5. QED
          BY <4>2, <4>4 DEF i
    <3>8. QED
        BY <3>2, <3>7
  <2>5. QED
      BY <2>3, <2>4
<1>5. QED
    BY <1>1, <1>4

----------------------------------------------------------------------------
\* Types.

LEMMA MishapType ==
    ASSUME TypeOK, Mishap \/ UNCHANGED mishaps
    PROVE  mishaps' \in 0..MaxMishap
BY LibraryAssumption DEF TypeOK, Mishap

LEMMA InterruptType ==
    ASSUME NEW s \in [ScanKind -> Scan], NEW k \in ScanKind, NEW b \in BOOLEAN
    PROVE  Interrupt(s, k, b) \in [ScanKind -> Scan]
<1>1. [s[k] EXCEPT !.interrupted = s[k].interrupted \/ b] \in Scan
    BY ZenonT(60) DEF Scan
<1>2. QED
    BY <1>1 DEF Interrupt

LEMMA UncertainType ==
    ASSUME NEW s \in [ScanKind -> Scan], NEW k \in ScanKind, NEW S \in SUBSET Path
    PROVE  Uncertain(s, k, S) \in [ScanKind -> Scan]
BY ZenonT(60) DEF Uncertain, Scan

LEMMA VisitedType ==
    ASSUME scan \in [ScanKind -> Scan], NEW k \in ScanKind, NEW p
    PROVE  Visited(k, p) \in [ScanKind -> Scan]
<1>1. [scan[k] EXCEPT !.todo = scan[k].todo \ {p}, !.seen = TRUE] \in Scan
    BY DEF Scan
<1>2. QED
    BY <1>1 DEF Visited

LEMMA InitType == Init => TypeOK /\ Schema(nodes)
<1> SUFFICES ASSUME Init PROVE TypeOK /\ Schema(nodes)
    OBVIOUS
<1>1. nodes \in Table /\ Schema(nodes)
    BY LibraryAssumption DEF Init, LibraryInit, LibraryStarts
<1>2. stat \in [Node -> File] /\ disk \in [Path -> File] /\ mishaps \in 0..MaxMishap
    BY LibraryAssumption DEF Init, LibraryInit, LibraryStarts, File
<1>3. Idle \in Scan
    BY DEF Idle, Scan
<1>4. [steady |-> {}, blind |-> {}, alone |-> FALSE, unswept |-> FALSE,
       stuck |-> FALSE] \in History
    BY DEF History
<1>5. scan \in [ScanKind -> Scan] /\ history \in [ScanKind -> History]
    BY <1>3, <1>4 DEF Init
<1>6. queue \in Seq(Task) /\ dropped \in Seq(Task) /\ busy \subseteq Task
    BY DEF Init
<1>7. /\ released \in BOOLEAN /\ pool \in {"open", "cancelled", "closed"}
      /\ fresh \subseteq Node
      /\ jobs \in [ScanKind -> {"NONE", "RUNNING", "COMPLETED", "CANCELLED", "FAILED"}]
    BY DEF Init
<1>8. QED
    BY <1>1, <1>2, <1>5, <1>6, <1>7 DEF TypeOK

LEMMA StartType ==
    ASSUME TypeOK, NEW k \in ScanKind, Start(k)
    PROVE  TypeOK'
<1>0. /\ scan \in [ScanKind -> Scan] /\ history \in [ScanKind -> History]
      /\ jobs \in [ScanKind -> {"NONE", "RUNNING", "COMPLETED", "CANCELLED", "FAILED"}]
    BY DEF TypeOK
<1>1. [Idle EXCEPT !.phase = "walk", !.todo = Here,
                   !.stale = {n \in Node : Exists(nodes[n])} \ fresh] \in Scan
  <2>1. Idle \in Scan /\ Here \subseteq Path
      BY DEF Idle, Scan, Here
  <2>2. QED
      BY <2>1 DEF Scan
<1>2. scan' \in [ScanKind -> Scan]
    BY <1>0, <1>1 DEF Start
<1>3. history' \in [ScanKind -> History]
    BY <1>0, ZenonT(60) DEF Start, History
<1>4. jobs' \in [ScanKind -> {"NONE", "RUNNING", "COMPLETED", "CANCELLED", "FAILED"}]
    BY <1>0 DEF Start
<1>5. QED
    BY <1>2, <1>3, <1>4 DEF TypeOK, Start, dbVars, poolVars

LEMMA VisitType ==
    ASSUME TypeOK, NEW k \in ScanKind, NEW p \in Path,
           \/ VisitAbsent(k, p) \/ VisitUnreadable(k, p) \/ VisitUnchanged(k, p)
           \/ Submit(k, p) \/ Refuse(k, p)
    PROVE  TypeOK'
<1>0. scan \in [ScanKind -> Scan] /\ history \in [ScanKind -> History]
    BY DEF TypeOK
<1>1. CASE VisitAbsent(k, p)
  <2>0. scan' = [scan EXCEPT ![k].todo = @ \ {p}]
      BY <1>1 DEF VisitAbsent
  <2>1. scan' \in [ScanKind -> Scan]
      BY <1>0, <2>0, ZenonT(60) DEF Scan
  <2>2. QED
      BY <1>1, <2>1 DEF TypeOK, VisitAbsent, dbVars, poolVars
<1>2. CASE VisitUnreadable(k, p)
  <2>0. scan' = [scan EXCEPT ![k].todo = @ \ {p}]
      BY <1>2 DEF VisitUnreadable
  <2>1. scan' \in [ScanKind -> Scan]
      BY <1>0, <2>0, ZenonT(60) DEF Scan
  <2>2. history' \in [ScanKind -> History]
      BY <1>0, <1>2 DEF VisitUnreadable, History
  <2>3. mishaps' \in 0..MaxMishap
      BY <1>2, MishapType DEF VisitUnreadable
  <2>4. QED
      BY <1>2, <2>1, <2>2, <2>3 DEF TypeOK, VisitUnreadable, dbVars, poolVars
<1>3. CASE VisitUnchanged(k, p)
  <2>1. PICK n \in SweepUnchanged(k, p) :
          scan' = [Visited(k, p) EXCEPT ![k].touch = @ \cup {<<n, p, disk[p]>>}]
      BY <1>3 DEF VisitUnchanged
  <2>2. <<n, p, disk[p]>> \in Node \X Path \X Content
    <3>1. disk[p] \in Content
        BY <1>3 DEF TypeOK, VisitUnchanged, File
    <3>2. n \in Node
        BY DEF SweepUnchanged, LiveAt
    <3>3. QED
        BY <3>1, <3>2
  <2>3. Visited(k, p) \in [ScanKind -> Scan]
      BY <1>0, VisitedType
  <2> HIDE DEF Visited
  <2>4. scan' \in [ScanKind -> Scan]
      BY <2>1, <2>2, <2>3, SMTT(30) DEF Scan
  <2>5. QED
      BY <1>3, <2>4 DEF TypeOK, VisitUnchanged, dbVars, poolVars
<1>4. CASE Submit(k, p)
  <2>1. scan' \in [ScanKind -> Scan]
      BY <1>0, <1>4, VisitedType DEF Submit
  <2>2. disk[p] \in Content
      BY <1>4 DEF TypeOK, Submit, File
  <2>3. [kind |-> k, path |-> p, ver |-> disk[p], out |-> <<>>] \in Task
      BY <2>2 DEF Task
  <2>4. queue' \in Seq(Task)
      BY <1>4, <2>3 DEF TypeOK, Submit
  <2>5. QED
      BY <1>4, <2>1, <2>4 DEF TypeOK, Submit, dbVars
<1>5. CASE Refuse(k, p)
  <2>1. Visited(k, p) \in [ScanKind -> Scan]
      BY <1>0, VisitedType
  <2> DEFINE v == Visited(k, p)
             i == Interrupt(v, k, pool # "open")
  <2>2. i \in [ScanKind -> Scan]
    <3>1. (pool # "open") \in BOOLEAN
        OBVIOUS
    <3>2. QED
        BY <2>1, <3>1, InterruptType
  <2>3. scan' = Uncertain(i, k, {p})
      BY <1>5 DEF Refuse, SubmitRefused
  <2> HIDE DEF i
  <2>4. scan' \in [ScanKind -> Scan]
      BY <2>2, <2>3, UncertainType
  <2>5. QED
      BY <1>5, <2>4 DEF TypeOK, Refuse, dbVars, poolVars
<1>6. QED
    BY <1>1, <1>2, <1>3, <1>4, <1>5

LEMMA ElementsAppend ==
    ASSUME NEW S, NEW s \in Seq(S), NEW x \in S
    PROVE  Elements(Append(s, x)) = Elements(s) \cup {x}
<1>1. DOMAIN s = 1..Len(s) /\ Len(s) \in Nat
    OBVIOUS
<1>2. DOMAIN Append(s, x) = 1..(Len(s) + 1)
    OBVIOUS
<1>3. /\ \A i \in 1..Len(s) : Append(s, x)[i] = s[i]
      /\ Append(s, x)[Len(s) + 1] = x
    OBVIOUS
<1>4. Len(s) + 1 \in DOMAIN Append(s, x)
    BY <1>1, <1>2
<1>5. Elements(s) \subseteq Elements(Append(s, x))
    BY <1>1, <1>2, <1>3 DEF Elements
<1>6. x \in Elements(Append(s, x))
    BY <1>3, <1>4 DEF Elements
<1>7. \A y \in Elements(Append(s, x)) : y \in Elements(s) \cup {x}
  <2>1. TAKE y \in Elements(Append(s, x))
  <2>2. PICK i \in 1..(Len(s) + 1) : y = Append(s, x)[i]
      BY <1>2 DEF Elements
  <2>3. CASE i \in 1..Len(s)
      BY <1>1, <1>3, <2>2, <2>3 DEF Elements
  <2>4. CASE i = Len(s) + 1
      BY <1>3, <2>2, <2>4
  <2>5. QED
      BY <1>1, <2>3, <2>4
<1>8. QED
    BY <1>5, <1>6, <1>7

LEMMA ElementsHeadTail ==
    ASSUME NEW S, NEW s \in Seq(S), s # <<>>
    PROVE  Elements(s) = {Head(s)} \cup Elements(Tail(s))
<1>1. DOMAIN s = 1..Len(s) /\ Len(s) \in Nat \ {0} /\ Head(s) = s[1]
    OBVIOUS
<1>2. DOMAIN Tail(s) = 1..(Len(s) - 1) /\ \A i \in 1..(Len(s) - 1) : Tail(s)[i] = s[i + 1]
    OBVIOUS
<1>3. \A y \in Elements(s) : y \in {Head(s)} \cup Elements(Tail(s))
  <2>1. TAKE y \in Elements(s)
  <2>2. PICK i \in 1..Len(s) : y = s[i]
      BY <1>1 DEF Elements
  <2>3. CASE i = 1
      BY <1>1, <2>2, <2>3
  <2>4. CASE i # 1
    <3>1. i - 1 \in 1..(Len(s) - 1) /\ (i - 1) + 1 = i
        BY <1>1, <2>4
    <3>2. Tail(s)[i - 1] = s[i]
        BY <1>2, <3>1
    <3>3. QED
        BY <1>2, <2>2, <3>1, <3>2 DEF Elements
  <2>5. QED
      BY <2>3, <2>4
<1>4. Head(s) \in Elements(s)
    BY <1>1 DEF Elements
<1>5. \A y \in Elements(Tail(s)) : y \in Elements(s)
  <2>1. TAKE y \in Elements(Tail(s))
  <2>2. PICK i \in 1..(Len(s) - 1) : y = Tail(s)[i]
      BY <1>2 DEF Elements
  <2>3. i + 1 \in 1..Len(s) /\ y = s[i + 1]
      BY <1>1, <1>2, <2>2
  <2>4. QED
      BY <1>1, <2>3 DEF Elements
<1>6. QED
    BY <1>3, <1>4, <1>5

LEMMA ElementsIn ==
    ASSUME NEW S, NEW s \in Seq(S)
    PROVE  Elements(s) \subseteq S
BY DEF Elements

LEMMA NoElements == Elements(<<>>) = {}
BY DEF Elements

LEMMA StepOfWalkType ==
    ASSUME TypeOK, NEW k \in ScanKind,
           WalkFails(k) \/ WalkDone(k) \/ CloseResults(k)
    PROVE  TypeOK'
<1>0. scan \in [ScanKind -> Scan] /\ scan[k] \in Scan
    BY DEF TypeOK
<1>1. CASE WalkFails(k)
  <2>1. scan' = [scan EXCEPT ![k] = [scan[k] EXCEPT !.todo = {}, !.failed = TRUE,
                    !.interrupted = scan[k].interrupted \/ scan[k].cancelled]]
      BY <1>1 DEF WalkFails
  <2>2. [scan[k] EXCEPT !.todo = {}, !.failed = TRUE,
                        !.interrupted = scan[k].interrupted \/ scan[k].cancelled] \in Scan
      BY <1>0 DEF Scan
  <2>3. scan' \in [ScanKind -> Scan]
      BY <1>0, <2>1, <2>2
  <2>4. mishaps' \in 0..MaxMishap
      BY <1>1, MishapType DEF WalkFails
  <2>5. QED
      BY <1>1, <2>3, <2>4 DEF TypeOK, WalkFails, dbVars, poolVars
<1>2. CASE WalkDone(k)
  <2>1. scan' = [scan EXCEPT ![k].phase = "wait"]
      BY <1>2 DEF WalkDone
  <2>2. scan' \in [ScanKind -> Scan]
      BY <1>0, <2>1 DEF Scan
  <2>3. QED
      BY <1>2, <2>2 DEF TypeOK, WalkDone, dbVars, poolVars
<1>3. CASE CloseResults(k)
  <2>1. scan' = [scan EXCEPT ![k].phase = "closed"]
      BY <1>3 DEF CloseResults
  <2>2. scan' \in [ScanKind -> Scan]
      BY <1>0, <2>1 DEF Scan
  <2>3. QED
      BY <1>3, <2>2 DEF TypeOK, CloseResults, dbVars, poolVars
<1>4. QED
    BY <1>1, <1>2, <1>3

LEMMA HashedAsType ==
    ASSUME NEW p \in Path, NEW c \in Content, NEW full
    PROVE  HashedAs(p, c, full) \in FileResult /\ HashedAs(p, c, full).path = p
<1>1. FastOf[c] \in FastHash
    BY NodeStoreAssumption
<1>2. (IF full THEN c ELSE NoHash) \in FullHash
    BY DEF FullHash
<1>3. QED
    BY <1>1, <1>2 DEF HashedAs, FileResult

LEMMA ProcessedTaskType ==
    ASSUME NEW t \in Task
    PROVE  ProcessedTask(t) \in FileResult /\ ProcessedTask(t).path = t.path
<1>1. t.path \in Path /\ t.ver \in Content
    BY DEF Task
<1>2. QED
    BY <1>1, HashedAsType DEF ProcessedTask, Processed

\* What losing a task does to the scans.
LostFrom(t, b) == Uncertain(Interrupt(scan, t.kind, b), t.kind, {t.path})

LEMMA LostFromType ==
    ASSUME scan \in [ScanKind -> Scan], NEW t \in Task, NEW b \in BOOLEAN
    PROVE  LostFrom(t, b) \in [ScanKind -> Scan]
<1>1. t.kind \in ScanKind /\ {t.path} \in SUBSET Path
    BY DEF Task
<1>2. Interrupt(scan, t.kind, b) \in [ScanKind -> Scan]
    BY <1>1, InterruptType
<1>3. QED
    BY <1>1, <1>2, UncertainType DEF LostFrom

\* A step of a worker: a task is hashed, its result sent, or it is lost.
HashOne(t) ==
    /\ busy' = (busy \ {t}) \cup {[t EXCEPT !.out = <<ProcessedTask(t)>>]}
    /\ UNCHANGED scan

SendOne(t) ==
    /\ t.out # <<>>
    /\ busy' = busy \ {t}
    /\ scan' = [scan EXCEPT ![t.kind].results = Append(@, t.out[1])]

LEMMA WorkerStep ==
    ASSUME NEW t \in busy, Hash(t) \/ Send(t)
    PROVE  /\ UNCHANGED <<dbVars, disk, jobs, queue, dropped, released, pool, history>>
           /\ Mishap \/ UNCHANGED mishaps
           /\ \/ HashOne(t) \/ SendOne(t)
              \/ \E b \in BOOLEAN : busy' = busy \ {t} /\ scan' = LostFrom(t, b)
<1>1. CASE Hash(t)
    BY <1>1 DEF Hash, HashOne, Lose, LostFrom
<1>2. CASE Send(t)
    BY <1>2 DEF Send, SendOne, Lose, LostFrom
<1>3. QED
    BY <1>1, <1>2

LEMMA WorkerType ==
    ASSUME TypeOK, NEW t \in busy, Hash(t) \/ Send(t)
    PROVE  TypeOK'
<1>0. scan \in [ScanKind -> Scan] /\ busy \subseteq Task /\ t \in Task /\ t.kind \in ScanKind
    BY DEF TypeOK, Task
<1>1. scan' \in [ScanKind -> Scan] /\ busy' \subseteq Task
  <2>1. CASE HashOne(t)
    <3>1. <<ProcessedTask(t)>> \in {<<r>> : r \in FileResult}
        BY <1>0, ProcessedTaskType
    <3>2. [t EXCEPT !.out = <<ProcessedTask(t)>>] \in Task
        BY <1>0, <3>1 DEF Task
    <3>3. QED
        BY <1>0, <2>1, <3>2 DEF HashOne
  <2>2. CASE SendOne(t)
    <3>1. t.out[1] \in FileResult
        BY <1>0, <2>2 DEF SendOne, Task
    <3>2. scan[t.kind].results \in Seq(FileResult)
        BY <1>0 DEF Scan
    <3>3. Append(scan[t.kind].results, t.out[1]) \in Seq(FileResult)
        BY <3>1, <3>2
    <3>4. [scan[t.kind] EXCEPT !.results = Append(scan[t.kind].results, t.out[1])] \in Scan
        BY <1>0, <3>3, ZenonT(60) DEF Scan
    <3>5. scan' = [scan EXCEPT ![t.kind] =
                     [scan[t.kind] EXCEPT !.results = Append(scan[t.kind].results, t.out[1])]]
        BY <2>2 DEF SendOne
    <3>6. QED
        BY <1>0, <2>2, <3>4, <3>5 DEF SendOne
  <2>3. CASE \E b \in BOOLEAN : busy' = busy \ {t} /\ scan' = LostFrom(t, b)
      BY <1>0, <2>3, LostFromType
  <2>4. QED
      BY <2>1, <2>2, <2>3, WorkerStep
<1>2. mishaps' \in 0..MaxMishap
    BY MishapType, WorkerStep
<1>3. QED
    BY <1>1, <1>2, WorkerStep DEF TypeOK, dbVars

LEMMA PoolType ==
    ASSUME TypeOK, PoolInOrder, PoolStep
    PROVE  TypeOK'
<1>0. /\ scan \in [ScanKind -> Scan] /\ busy \subseteq Task
      /\ queue \in Seq(Task) /\ dropped \in Seq(Task)
    BY DEF TypeOK
<1>1. CASE Dequeue
  <2>1. Head(queue) \in Task /\ Tail(queue) \in Seq(Task)
      BY <1>0, <1>1 DEF Dequeue
  <2>2. queue' \in Seq(Task) /\ busy' \subseteq Task
      BY <1>0, <1>1, <2>1 DEF Dequeue
  <2>3. QED
      BY <1>1, <2>2 DEF TypeOK, Dequeue, dbVars
<1>2. CASE ClosePool
  <2>1. queue' \in Seq(Task) /\ dropped' \in Seq(Task)
      BY <1>0, <1>2 DEF ClosePool, Drained
  <2>2. QED
      BY <1>2, <2>1 DEF TypeOK, ClosePool, dbVars
<1>3. CASE AbandonDone
    BY <1>3 DEF TypeOK, AbandonDone, dbVars
<1>4. CASE AbandonRecord
  <2>1. dropped # <<>>
      BY <1>4 DEF AbandonRecord, PoolInOrder
  <2>2. Head(dropped) \in Task /\ Tail(dropped) \in Seq(Task)
      BY <1>0, <2>1
  <2>3. scan' \in [ScanKind -> Scan]
    <3>1. scan' = scan \/ scan' = LostFrom(Head(dropped), TRUE)
        BY <1>4 DEF AbandonRecord, LostFrom
    <3>2. QED
        BY <1>0, <2>2, <3>1, LostFromType
  <2>4. dropped' \in Seq(Task) /\ released' \in BOOLEAN
      BY <1>4, <2>2 DEF AbandonRecord
  <2>5. QED
      BY <1>4, <2>3, <2>4 DEF TypeOK, AbandonRecord, dbVars
<1>5. QED
    BY <1>1, <1>2, <1>3, <1>4 DEF PoolStep

LEMMA BumpType ==
    ASSUME NEW s \in [ScanKind -> Scan], NEW S
    PROVE  Bump(s, S) \in [ScanKind -> Scan]
<1>1. \A j \in ScanKind : [s[j] EXCEPT !.stale = s[j].stale \ S] \in Scan
    BY ZenonT(60) DEF Scan
<1>2. Bump(s, S) = [j \in ScanKind |-> [s[j] EXCEPT !.stale = s[j].stale \ S]]
    BY DEF Bump
<1>3. QED
    BY <1>1, <1>2

\* The rows a batch of touches still finds live, and the table they leave.
TouchRows(k) == {x \in scan[k].touch : Live(nodes[x[1]])}

Touched(k) == {x[1] : x \in TouchRows(k)}

TouchedTable(k) ==
    [n \in Node |-> IF n \in Touched(k) THEN TouchMediaNode(nodes, n)[n] ELSE nodes[n]]

TouchesFlushed(k) == [scan EXCEPT ![k].touch = {}]

LEMMA FlushTouchesCases ==
    ASSUME NEW k, FlushTouches(k)
    PROVE  /\ scan[k].phase = "walk"
           /\ UNCHANGED <<disk, jobs, poolVars, history>>
           /\ Mishap \/ UNCHANGED mishaps
           /\ \/ /\ Schema(TouchedTable(k)) /\ nodes' = TouchedTable(k)
                 /\ stat' = [n \in Node |-> IF n \in Touched(k)
                                THEN (CHOOSE x \in TouchRows(k) : x[1] = n)[3]
                                ELSE stat[n]]
                 /\ fresh' = fresh \cup Touched(k)
                 /\ scan' = Bump(TouchesFlushed(k), Touched(k))
              \/ /\ UNCHANGED dbVars
                 /\ scan' = Uncertain(TouchesFlushed(k), k, {x[2] : x \in scan[k].touch})
<1> DEFINE F == /\ UNCHANGED dbVars
                /\ scan' = Uncertain(TouchesFlushed(k), k, {x[2] : x \in scan[k].touch})
<1>1. /\ scan[k].phase = "walk" /\ UNCHANGED <<disk, jobs, poolVars, history>>
    BY DEF FlushTouches
<1>2. \/ /\ TxRuns(k) /\ Schema(TouchedTable(k))
         /\ nodes' = TouchedTable(k)
         /\ stat' = [n \in Node |-> IF n \in Touched(k)
                        THEN (CHOOSE x \in TouchRows(k) : x[1] = n)[3]
                        ELSE stat[n]]
         /\ fresh' = fresh \cup Touched(k)
         /\ scan' = Bump(TouchesFlushed(k), Touched(k))
      \/ /\ (TxRuns(k) /\ ~Schema(TouchedTable(k))) \/ TxFails(k)
         /\ F
    BY DEF FlushTouches, TouchedTable, Touched, TouchRows, TouchesFlushed
<1>3. TxRuns(k) \/ TxFails(k) => Mishap \/ UNCHANGED mishaps
    BY DEF TxRuns, TxFails
<1>4. QED
    BY <1>1, <1>2, <1>3

LEMMA TouchedTableType ==
    ASSUME TypeOK, NEW k \in ScanKind
    PROVE  /\ TouchedTable(k) \in Table /\ Touched(k) \subseteq Node
           /\ \A n \in Node : /\ TouchedTable(k)[n].path = nodes[n].path
                              /\ n \notin Touched(k) => TouchedTable(k)[n] = nodes[n]
                              /\ Exists(nodes[n]) => Exists(TouchedTable(k)[n])
<1>1. nodes \in Table /\ scan[k] \in Scan
    BY DEF TypeOK
<1>2. Touched(k) \subseteq Node
    BY <1>1 DEF Touched, TouchRows, Scan
<1>3. \A n \in Node : TouchMediaNode(nodes, n) \in Table
    BY <1>1, TouchKeeps
<1>4. \A n \in Node : TouchMediaNode(nodes, n)[n] \in Row
    BY <1>3 DEF Table
<1>5. \A n \in Node : nodes[n] \in Row
    BY <1>1 DEF Table
<1>6. TouchedTable(k) \in Table
    BY <1>4, <1>5 DEF TouchedTable, Table
<1>7. \A n \in Node : /\ TouchMediaNode(nodes, n)[n].path = nodes[n].path
                      /\ Exists(nodes[n]) => Exists(TouchMediaNode(nodes, n)[n])
    BY <1>1 DEF TouchMediaNode, SetState, Table, Row, Exists
<1>8. QED
    BY <1>2, <1>6, <1>7 DEF TouchedTable

LEMMA FlushTouchesType ==
    ASSUME TypeOK, Schema(nodes), NEW k \in ScanKind, FlushTouches(k)
    PROVE  TypeOK' /\ Schema(nodes)'
<1>0. /\ scan \in [ScanKind -> Scan] /\ scan[k] \in Scan
      /\ fresh \subseteq Node /\ stat \in [Node -> File]
    BY DEF TypeOK
<1>1. TouchesFlushed(k) \in [ScanKind -> Scan]
    BY <1>0 DEF TouchesFlushed, Scan
<1>2. mishaps' \in 0..MaxMishap
    BY FlushTouchesCases, MishapType
<1>3. CASE /\ Schema(TouchedTable(k)) /\ nodes' = TouchedTable(k)
           /\ stat' = [n \in Node |-> IF n \in Touched(k)
                          THEN (CHOOSE x \in TouchRows(k) : x[1] = n)[3]
                          ELSE stat[n]]
           /\ fresh' = fresh \cup Touched(k)
           /\ scan' = Bump(TouchesFlushed(k), Touched(k))
  <2>1. \A n \in Touched(k) : (CHOOSE x \in TouchRows(k) : x[1] = n)[3] \in File
    <3>1. TAKE n \in Touched(k)
    <3>2. \E x \in TouchRows(k) : x[1] = n
        BY DEF Touched
    <3>3. (CHOOSE x \in TouchRows(k) : x[1] = n) \in TouchRows(k)
        BY <3>2
    <3>4. TouchRows(k) \subseteq Node \X Path \X Content
        BY <1>0 DEF TouchRows, Scan
    <3>5. QED
        BY <3>3, <3>4 DEF File
  <2>2. stat' \in [Node -> File]
      BY <1>0, <1>3, <2>1
  <2>3. nodes' \in Table /\ fresh' \subseteq Node
      BY <1>0, <1>3, TouchedTableType
  <2>4. scan' \in [ScanKind -> Scan]
      BY <1>1, <1>3, BumpType
  <2>5. Schema(nodes)'
      BY <1>3
  <2>6. QED
      BY <1>2, <2>2, <2>3, <2>4, <2>5, FlushTouchesCases DEF TypeOK, poolVars
<1>4. CASE /\ UNCHANGED dbVars
           /\ scan' = Uncertain(TouchesFlushed(k), k, {x[2] : x \in scan[k].touch})
  <2>1. {x[2] : x \in scan[k].touch} \in SUBSET Path
      BY <1>0 DEF Scan
  <2>2. scan' \in [ScanKind -> Scan]
      BY <1>1, <1>4, <2>1, UncertainType
  <2>3. Schema(nodes)'
      BY <1>4 DEF dbVars
  <2>4. QED
      BY <1>2, <1>4, <2>2, <2>3, FlushTouchesCases DEF TypeOK, dbVars, poolVars
<1>5. QED
    BY <1>3, <1>4, FlushTouchesCases

LEMMA ReceiveType ==
    ASSUME TypeOK, NEW k \in ScanKind, Receive(k)
    PROVE  TypeOK'
<1>0. scan \in [ScanKind -> Scan] /\ scan[k] \in Scan
    BY DEF TypeOK
<1>1. scan[k].results \in Seq(FileResult) /\ scan[k].buf \in Seq(FileResult)
    BY <1>0 DEF Scan
<1>2. scan[k].results # <<>>
    BY DEF Receive
<1>3. Tail(scan[k].results) \in Seq(FileResult) /\ Head(scan[k].results) \in FileResult
    BY <1>1, <1>2
<1>4. Append(scan[k].buf, Head(scan[k].results)) \in Seq(FileResult)
    BY <1>1, <1>3
<1>5. scan' = [scan EXCEPT ![k] =
                 [scan[k] EXCEPT !.results = Tail(scan[k].results),
                                 !.buf = Append(scan[k].buf, Head(scan[k].results))]]
    BY DEF Receive
<1>6. [scan[k] EXCEPT !.results = Tail(scan[k].results),
                      !.buf = Append(scan[k].buf, Head(scan[k].results))] \in Scan
    BY <1>0, <1>3, <1>4 DEF Scan
<1>7. scan' \in [ScanKind -> Scan]
    BY <1>0, <1>5, <1>6
<1>8. QED
    BY <1>7 DEF TypeOK, Receive, dbVars, poolVars

BatchFlushed(k) == [scan EXCEPT ![k].buf = <<>>]

LEMMA FlushBatchCases ==
    ASSUME NEW k, FlushBatch(k)
    PROVE  /\ Len(scan[k].buf) <= Cardinality(FreeIds(nodes))
           /\ UNCHANGED <<disk, jobs, poolVars, history>>
           /\ Mishap \/ UNCHANGED mishaps
           /\ \/ /\ CommitBatch(scan[k].buf).ok
                 /\ nodes' = CommitBatch(scan[k].buf).nodes
                 /\ stat' = CommitBatch(scan[k].buf).stat
                 /\ fresh' = fresh \cup CommitBatch(scan[k].buf).seen
                 /\ scan' = Bump(BatchFlushed(k), CommitBatch(scan[k].buf).seen)
              \/ /\ UNCHANGED dbVars
                 /\ scan' = Uncertain(BatchFlushed(k), k,
                                      {r.path : r \in Elements(scan[k].buf)})
<1> DEFINE F == /\ UNCHANGED dbVars
                /\ scan' = Uncertain(BatchFlushed(k), k,
                                     {r.path : r \in Elements(scan[k].buf)})
           out == CommitBatch(scan[k].buf)
<1> HIDE DEF out
<1>1. /\ Len(scan[k].buf) <= Cardinality(FreeIds(nodes))
      /\ UNCHANGED <<disk, jobs, poolVars, history>>
    BY DEF FlushBatch
<1>2. \/ /\ TxRuns(k) /\ out.ok
         /\ nodes' = out.nodes /\ stat' = out.stat /\ fresh' = fresh \cup out.seen
         /\ scan' = Bump(BatchFlushed(k), out.seen)
      \/ /\ (TxRuns(k) /\ ~out.ok) \/ TxFails(k)
         /\ F
    BY DEF FlushBatch, BatchFlushed, out
<1>3. TxRuns(k) \/ TxFails(k) => Mishap \/ UNCHANGED mishaps
    BY DEF TxRuns, TxFails
<1>4. QED
    BY <1>1, <1>2, <1>3 DEF out

\* A batch that is committed, seen from the scans.
LEMMA BatchOfBuf ==
    ASSUME TypeOK, Schema(nodes), NEW k \in ScanKind,
           Len(scan[k].buf) <= Cardinality(FreeIds(nodes)), CommitBatch(scan[k].buf).ok
    PROVE  BatchOf(CommitBatch(scan[k].buf), scan[k].buf, Len(scan[k].buf))
<1>1. scan[k] \in Scan /\ nodes \in Table /\ stat \in [Node -> File]
    BY DEF TypeOK
<1>2. scan[k].buf \in Seq(FileResult)
    BY <1>1 DEF Scan
<1>3. QED
    BY <1>1, <1>2, BatchSettles

LEMMA FlushBatchType ==
    ASSUME TypeOK, Schema(nodes), NEW k \in ScanKind, FlushBatch(k)
    PROVE  TypeOK' /\ Schema(nodes)'
<1>0. scan \in [ScanKind -> Scan] /\ scan[k] \in Scan /\ fresh \subseteq Node
    BY DEF TypeOK
<1>1. BatchFlushed(k) \in [ScanKind -> Scan]
  <2>1. <<>> \in Seq(FileResult)
      OBVIOUS
  <2>2. QED
      BY <1>0, <2>1 DEF BatchFlushed, Scan
<1>2. mishaps' \in 0..MaxMishap
    BY FlushBatchCases, MishapType
<1> DEFINE out == CommitBatch(scan[k].buf)
<1> HIDE DEF out
<1>3. CASE /\ out.ok /\ nodes' = out.nodes /\ stat' = out.stat
           /\ fresh' = fresh \cup out.seen
           /\ scan' = Bump(BatchFlushed(k), out.seen)
  <2>1. BatchOf(out, scan[k].buf, Len(scan[k].buf))
      BY <1>3, FlushBatchCases, BatchOfBuf DEF out
  <2>2. /\ nodes' \in Table /\ stat' \in [Node -> File] /\ fresh' \subseteq Node
        /\ Schema(nodes)'
      BY <1>0, <1>3, <2>1 DEF BatchOf
  <2>3. scan' \in [ScanKind -> Scan]
      BY <1>1, <1>3, BumpType
  <2>4. QED
      BY <1>2, <2>2, <2>3, FlushBatchCases DEF TypeOK, poolVars
<1>4. CASE /\ UNCHANGED dbVars
           /\ scan' = Uncertain(BatchFlushed(k), k, {r.path : r \in Elements(scan[k].buf)})
  <2>1. Elements(scan[k].buf) \subseteq FileResult
    <3>1. scan[k].buf \in Seq(FileResult)
        BY <1>0 DEF Scan
    <3>2. QED
        BY <3>1, ElementsIn
  <2>2. {r.path : r \in Elements(scan[k].buf)} \in SUBSET Path
      BY <2>1 DEF FileResult
  <2>3. scan' \in [ScanKind -> Scan]
      BY <1>1, <1>4, <2>2, UncertainType
  <2>4. Schema(nodes)'
      BY <1>4 DEF dbVars
  <2>5. QED
      BY <1>2, <1>4, <2>3, <2>4, FlushBatchCases DEF TypeOK, dbVars, poolVars
<1>5. QED
    BY <1>3, <1>4, FlushBatchCases DEF out

\* A sweep only takes ACTIVE rows to MISSING.
SweptTable(k) ==
    [n \in Node |-> IF n \in Unseen(k) THEN MarkNodeMissing(nodes, n)[n] ELSE nodes[n]]

LEMMA SweptRows ==
    ASSUME nodes \in Table, NEW k
    PROVE  /\ SweptTable(k) \in Table
           /\ \A n \in Node :
                /\ SweptTable(k)[n].path = nodes[n].path
                /\ SweptTable(k)[n].full = nodes[n].full
                /\ SweptTable(k)[n].sup = nodes[n].sup
                /\ \/ SweptTable(k)[n].state = nodes[n].state
                   \/ /\ nodes[n].state = "ACTIVE" /\ SweptTable(k)[n].state = "MISSING"
                      /\ n \in Unseen(k)
<1>1. \A n \in Node : nodes[n] \in Row
    BY DEF Table
<1>2. \A n \in Node : \/ SweptTable(k)[n] = nodes[n]
                      \/ /\ n \in Unseen(k) /\ nodes[n].state = "ACTIVE"
                         /\ SweptTable(k)[n] = [nodes[n] EXCEPT !.state = "MISSING"]
    BY DEF SweptTable, MarkNodeMissing, SetState, Table
<1>3. \A n \in Node : SweptTable(k)[n] \in Row
  <2>1. TAKE n \in Node
  <2>2. nodes[n] \in Row /\ [nodes[n] EXCEPT !.state = "MISSING"] \in Row
      BY <1>1 DEF Row, LifecycleState
  <2>3. QED
      BY <1>2, <2>2
<1>4. SweptTable(k) \in Table
    BY <1>3 DEF SweptTable, Table
<1>5. QED
    BY <1>1, <1>2, <1>4, ZenonT(60) DEF Row

LEMMA SweptSchema ==
    ASSUME nodes \in Table, Schema(nodes), NEW k
    PROVE  Schema(SweptTable(k))
<1> DEFINE u == SweptTable(k)
<1>1. \A n \in Node :
        /\ u[n].path = nodes[n].path /\ u[n].full = nodes[n].full
        /\ u[n].sup = nodes[n].sup
        /\ \/ u[n].state = nodes[n].state
           \/ nodes[n].state = "ACTIVE" /\ u[n].state = "MISSING"
    BY SweptRows
<1> HIDE DEF u
<1>2. \A n \in Node : /\ Live(u[n]) => Live(nodes[n])
                      /\ u[n].state = "ACTIVE" => nodes[n].state = "ACTIVE"
                      /\ nodes[n].state = "ARCHIVED" => u[n].state = "ARCHIVED"
    BY <1>1 DEF Live
<1>3. LivePathUnique(u)
    BY <1>1, <1>2 DEF Schema, LivePathUnique
<1>4. LiveFullHashUnique(u)
    BY <1>1, <1>2 DEF Schema, LiveFullHashUnique
<1>5. SupersededIsArchived(u)
    BY <1>1, <1>2 DEF Schema, SupersededIsArchived
<1>6. QED
    BY <1>3, <1>4, <1>5 DEF Schema, u

LEMMA SweepCases ==
    ASSUME NEW k, Sweep(k)
    PROVE  /\ AllCommitted(k) /\ ~scan[k].failed
           /\ UNCHANGED <<stat, fresh, disk, jobs, poolVars>>
           /\ Mishap \/ UNCHANGED mishaps
           /\ scan' = [scan EXCEPT ![k].phase = "end"]
           /\ \/ nodes' = SweptTable(k) /\ UNCHANGED history
              \/ UNCHANGED nodes /\ history' = [history EXCEPT ![k].unswept = TRUE]
BY DEF Sweep, SweptTable, TxRuns, TxFails

LEMMA SweepType ==
    ASSUME TypeOK, Schema(nodes), NEW k \in ScanKind, Sweep(k)
    PROVE  TypeOK' /\ Schema(nodes)'
<1>0. nodes \in Table /\ scan \in [ScanKind -> Scan] /\ history \in [ScanKind -> History]
    BY DEF TypeOK
<1>1. nodes' \in Table /\ Schema(nodes)'
  <2>1. CASE nodes' = SweptTable(k)
      BY <1>0, <2>1, SweptRows, SweptSchema
  <2>2. CASE UNCHANGED nodes
      BY <1>0, <2>2
  <2>3. QED
      BY <2>1, <2>2, SweepCases
<1>2. scan' \in [ScanKind -> Scan]
  <2>1. scan' = [scan EXCEPT ![k].phase = "end"]
      BY SweepCases
  <2>2. QED
      BY <1>0, <2>1, ZenonT(60) DEF Scan
<1>3. history' \in [ScanKind -> History]
  <2>1. \/ history' = history
        \/ history' = [history EXCEPT ![k].unswept = TRUE]
      BY SweepCases
  <2>2. QED
      BY <1>0, <2>1, ZenonT(60) DEF History
<1>4. mishaps' \in 0..MaxMishap
    BY MishapType, SweepCases
<1>5. QED
    BY <1>1, <1>2, <1>3, <1>4, SweepCases DEF TypeOK, poolVars

LEMMA EndType ==
    ASSUME TypeOK, NEW k \in ScanKind, SkipSweep(k) \/ End(k) \/ Cancel(k)
    PROVE  TypeOK'
<1>0. /\ scan \in [ScanKind -> Scan] /\ history \in [ScanKind -> History]
      /\ jobs \in [ScanKind -> {"NONE", "RUNNING", "COMPLETED", "CANCELLED", "FAILED"}]
    BY DEF TypeOK
<1>1. CASE SkipSweep(k)
  <2>1. scan' = [scan EXCEPT ![k].phase = "end"]
      BY <1>1 DEF SkipSweep
  <2>2. [scan[k] EXCEPT !.phase = "end"] \in Scan
      BY <1>0, ZenonT(60) DEF Scan
  <2>3. scan' \in [ScanKind -> Scan]
      BY <1>0, <2>1, <2>2
  <2>4. QED
      BY <1>1, <2>3 DEF TypeOK, SkipSweep, dbVars, poolVars
<1>2. CASE End(k)
  <2>1. Idle \in Scan
      BY DEF Idle, Scan
  <2>2. scan' \in [ScanKind -> Scan]
      BY <1>0, <1>2, <2>1 DEF End
  <2>3. jobs' \in [ScanKind -> {"NONE", "RUNNING", "COMPLETED", "CANCELLED", "FAILED"}]
      BY <1>0, <1>2 DEF End, JobState
  <2>4. history' \in [ScanKind -> History]
    <3>1. \/ history' = history
          \/ history' = [history EXCEPT ![k].stuck = TRUE]
        BY <1>2 DEF End
    <3>2. QED
        BY <1>0, <3>1, ZenonT(60) DEF History
  <2>5. mishaps' \in 0..MaxMishap
      BY <1>2, MishapType DEF End
  <2>6. QED
      BY <1>2, <2>2, <2>3, <2>4, <2>5 DEF TypeOK, End, dbVars, poolVars
<1>3. CASE Cancel(k)
  <2>1. scan' = [scan EXCEPT ![k].cancelled = TRUE]
      BY <1>3 DEF Cancel
  <2>2. [scan[k] EXCEPT !.cancelled = TRUE] \in Scan
      BY <1>0, ZenonT(60) DEF Scan
  <2>3. scan' \in [ScanKind -> Scan]
      BY <1>0, <2>1, <2>2
  <2>4. mishaps' \in 0..MaxMishap
      BY <1>3, MishapType DEF Cancel
  <2>5. QED
      BY <1>3, <2>3, <2>4 DEF TypeOK, Cancel, dbVars, poolVars
<1>4. QED
    BY <1>1, <1>2, <1>3

LEMMA WrittenType ==
    ASSUME history \in [ScanKind -> History], NEW p
    PROVE  Written(p) \in [ScanKind -> History]
<1>1. \A j \in ScanKind :
        [history[j] EXCEPT !.steady = history[j].steady \ {p}] \in History
    BY DEF History
<1>2. Written(p) = [j \in ScanKind |->
                      [history[j] EXCEPT !.steady = history[j].steady \ {p}]]
    BY DEF Written
<1>3. QED
    BY <1>1, <1>2

\* The row an upload adds: all that its step does to the table.
LEMMA UploadRows ==
    ASSUME TypeOK, NEW p \in Path, NEW x \in Content, Upload(p, x)
    PROVE  /\ nodes' \in Table /\ Schema(nodes)' /\ NextId(nodes) \in Node
           /\ NextId(nodes) \in FreeIds(nodes) /\ nodes'[NextId(nodes)].path = p
           /\ nodes'[NextId(nodes)].state = "ACTIVE"
           /\ \A m \in Node \ {NextId(nodes)} :
                nodes'[m].state = nodes[m].state /\ nodes'[m].path = nodes[m].path
<1> DEFINE r == [path |-> p, fast |-> FastOf[x], full |-> x]
<1>1. Hashed(r)
    BY NodeStoreAssumption DEF Hashed, FullHash
<1>2. nodes \in Table /\ FreeIds(nodes) # {} /\ nodes' = InsertNewNode(nodes, r)
      /\ Schema(InsertNewNode(nodes, r))
    BY DEF Upload, TypeOK
<1>3. r.path = p
    OBVIOUS
<1> HIDE DEF r
<1>4. NextId(nodes) \in FreeIds(nodes)
    BY <1>2, NextIdFree
<1>5. QED
    BY <1>1, <1>2, <1>3, <1>4, InsertRows, InsertNewNodeKeeps

LEMMA OutsideType ==
    ASSUME TypeOK, Schema(nodes),
           \/ \E p \in Path, f \in File : ExternalWrite(p, f)
           \/ \E p \in Path, x \in Content : Upload(p, x)
    PROVE  TypeOK' /\ Schema(nodes)'
<1>0. history \in [ScanKind -> History] /\ disk \in [Path -> File]
      /\ stat \in [Node -> File] /\ fresh \subseteq Node
    BY DEF TypeOK
<1>1. ASSUME NEW p \in Path, NEW f \in File, ExternalWrite(p, f)
      PROVE  TypeOK' /\ Schema(nodes)'
  <2>1. history' \in [ScanKind -> History]
      BY <1>0, <1>1, WrittenType DEF ExternalWrite
  <2>2. disk' \in [Path -> File]
      BY <1>0, <1>1 DEF ExternalWrite
  <2>3. mishaps' \in 0..MaxMishap
      BY <1>1, MishapType DEF ExternalWrite
  <2>4. Schema(nodes)'
      BY <1>1 DEF ExternalWrite, dbVars
  <2>5. QED
      BY <1>1, <2>1, <2>2, <2>3, <2>4 DEF TypeOK, ExternalWrite, dbVars, poolVars
<1>2. ASSUME NEW p \in Path, NEW x \in Content, Upload(p, x)
      PROVE  TypeOK' /\ Schema(nodes)'
  <2>1. nodes' \in Table /\ Schema(nodes)' /\ NextId(nodes) \in Node
      BY <1>2, UploadRows
  <2>2. history' \in [ScanKind -> History]
      BY <1>0, <1>2, WrittenType DEF Upload
  <2>3. disk' \in [Path -> File] /\ stat' \in [Node -> File] /\ fresh' \subseteq Node
      BY <1>0, <1>2, <2>1 DEF Upload, File
  <2>4. mishaps' \in 0..MaxMishap
      BY <1>2, MishapType DEF Upload
  <2>5. QED
      BY <1>2, <2>1, <2>2, <2>3, <2>4 DEF TypeOK, Upload, poolVars
<1>3. QED
    BY <1>1, <1>2

LEMMA ProcessType ==
    ASSUME TypeOK, Tick \/ Shutdown \/ Restart
    PROVE  TypeOK'
<1>0. history \in [ScanKind -> History]
      /\ jobs \in [ScanKind -> {"NONE", "RUNNING", "COMPLETED", "CANCELLED", "FAILED"}]
    BY DEF TypeOK
<1>1. CASE Tick
    BY <1>1 DEF TypeOK, Tick, poolVars
<1>2. CASE Shutdown
  <2>1. mishaps' \in 0..MaxMishap
      BY <1>2, MishapType DEF Shutdown
  <2>2. QED
      BY <1>2, <2>1 DEF TypeOK, Shutdown, dbVars
<1>3. CASE Restart
  <2>1. Idle \in Scan
      BY DEF Idle, Scan
  <2>2. scan' \in [ScanKind -> Scan]
      BY <1>3, <2>1 DEF Restart, Boot
  <2>3. jobs' \in [ScanKind -> {"NONE", "RUNNING", "COMPLETED", "CANCELLED", "FAILED"}]
      BY <1>0, <1>3 DEF Restart, Boot, Reconciled
  <2>4. history' \in [ScanKind -> History]
      BY <1>0, <1>3, ZenonT(60) DEF Restart, Boot, History
  <2>5. mishaps' \in 0..MaxMishap
      BY <1>3, MishapType DEF Restart
  <2>6. queue' \in Seq(Task) /\ dropped' \in Seq(Task) /\ busy' \subseteq Task
      BY <1>3 DEF Restart, Boot
  <2>7. QED
      BY <1>3, <2>2, <2>3, <2>4, <2>5, <2>6 DEF TypeOK, Restart, Boot, dbVars
<1>4. QED
    BY <1>1, <1>2, <1>3

----------------------------------------------------------------------------
\* The pool.

\* The steps that leave the pool alone.
AwayFromPool ==
    \/ \E k \in ScanKind :
         \/ Start(k) \/ WalkFails(k) \/ FlushTouches(k) \/ WalkDone(k) \/ CloseResults(k)
         \/ CommitStep(k) \/ Cancel(k)
         \/ \E p \in Path : \/ VisitAbsent(k, p) \/ VisitUnreadable(k, p)
                            \/ VisitUnchanged(k, p) \/ Refuse(k, p)
    \/ \E p \in Path, f \in File : ExternalWrite(p, f)
    \/ \E p \in Path, x \in Content : Upload(p, x)
    \/ Tick

LEMMA PoolUnchanged ==
    ASSUME AwayFromPool
    PROVE  UNCHANGED poolVars
<1>1. ASSUME NEW k \in ScanKind, Start(k) \/ WalkFails(k) \/ WalkDone(k) \/ CloseResults(k)
                                 \/ Cancel(k)
      PROVE  UNCHANGED poolVars
    BY <1>1 DEF Start, WalkFails, WalkDone, CloseResults, Cancel
<1>2. ASSUME NEW k \in ScanKind, CommitStep(k) PROVE UNCHANGED poolVars
    BY <1>2, FlushBatchCases DEF CommitStep, Receive, SkipSweep, Sweep, End
<1>3. ASSUME NEW k \in ScanKind, FlushTouches(k) PROVE UNCHANGED poolVars
    BY <1>3, FlushTouchesCases
<1>4. ASSUME NEW k \in ScanKind, NEW p \in Path,
             \/ VisitAbsent(k, p) \/ VisitUnreadable(k, p)
             \/ VisitUnchanged(k, p) \/ Refuse(k, p)
      PROVE  UNCHANGED poolVars
    BY <1>4 DEF VisitAbsent, VisitUnreadable, VisitUnchanged, Refuse
<1>5. ASSUME NEW p \in Path, NEW f \in File, ExternalWrite(p, f) PROVE UNCHANGED poolVars
    BY <1>5 DEF ExternalWrite
<1>6. ASSUME NEW p \in Path, NEW x \in Content, Upload(p, x) PROVE UNCHANGED poolVars
    BY <1>6 DEF Upload
<1>7. QED
    BY <1>1, <1>2, <1>3, <1>4, <1>5, <1>6 DEF AwayFromPool, Tick

LEMMA SamePool ==
    ASSUME PoolInOrder, UNCHANGED poolVars
    PROVE  /\ PoolInOrder'
           /\ UNCHANGED Pending /\ UNCHANGED Tokens
<1>1. UNCHANGED <<queue, busy, dropped, released, pool>>
    BY DEF poolVars
<1>2. UNCHANGED Pending
    BY <1>1 DEF Pending, Elements
<1>3. UNCHANGED Tokens
    BY <1>1 DEF Tokens, Elements
<1>4. QED
    BY <1>1, <1>2, <1>3 DEF PoolInOrder

\* What each step of the pool does to the tasks in it.
LEMMA SubmitPool ==
    ASSUME TypeOK, NEW k \in ScanKind, NEW p \in Path, Submit(k, p)
    PROVE  /\ Pending' = Pending \cup {[kind |-> k, path |-> p, ver |-> disk[p],
                                        out |-> <<>>]}
           /\ Tokens' = Tokens \cup {[kind |-> k, path |-> p, ver |-> disk[p],
                                      out |-> <<>>]}
           /\ UNCHANGED <<dropped, released, pool>>
<1> DEFINE t == [kind |-> k, path |-> p, ver |-> disk[p], out |-> <<>>]
<1>1. t \in Task
    BY DEF Submit, TypeOK, File, Task
<1>2. queue' = Append(queue, t) /\ queue \in Seq(Task)
    BY DEF Submit, TypeOK
<1>3. UNCHANGED <<busy, dropped, released, pool>>
    BY DEF Submit
<1> HIDE DEF t
<1>4. Elements(queue)' = Elements(queue) \cup {t}
  <2>1. Elements(Append(queue, t)) = Elements(queue) \cup {t}
      BY <1>1, <1>2, ElementsAppend
  <2>2. Elements(queue)' = Elements(Append(queue, t))
      BY <1>2 DEF Elements
  <2>3. QED
      BY <2>1, <2>2
<1>5. UNCHANGED Elements(dropped) /\ UNCHANGED Elements(Tail(dropped))
    BY <1>3 DEF Elements
<1>6. Pending' = Pending \cup {t}
    BY <1>3, <1>4, <1>5 DEF Pending
<1>7. Tokens' = Tokens \cup {t}
    BY <1>3, <1>4, <1>5 DEF Tokens
<1>8. QED
    BY <1>3, <1>6, <1>7 DEF t

LEMMA DequeuePool ==
    ASSUME TypeOK, Dequeue
    PROVE  /\ UNCHANGED Pending /\ UNCHANGED Tokens
           /\ UNCHANGED <<dropped, released, pool>>
<1>1. /\ queue # <<>> /\ queue \in Seq(Task)
      /\ busy' = busy \cup {Head(queue)} /\ queue' = Tail(queue)
      /\ UNCHANGED <<dropped, released, pool>>
    BY DEF Dequeue, TypeOK
<1>2. Elements(queue) = {Head(queue)} \cup Elements(Tail(queue))
    BY <1>1, ElementsHeadTail
<1>3. Elements(queue)' = Elements(Tail(queue))
    BY <1>1 DEF Elements
<1>4. UNCHANGED Elements(dropped) /\ UNCHANGED Elements(Tail(dropped))
    BY <1>1 DEF Elements
<1>5. UNCHANGED Pending
    BY <1>1, <1>2, <1>3, <1>4 DEF Pending
<1>6. UNCHANGED Tokens
    BY <1>1, <1>2, <1>3, <1>4 DEF Tokens
<1>7. QED
    BY <1>1, <1>5, <1>6

LEMMA ClosePoolPool ==
    ASSUME PoolInOrder, ClosePool
    PROVE  /\ UNCHANGED Pending /\ UNCHANGED Tokens
           /\ UNCHANGED released /\ ~released /\ pool' = "closed"
<1>1. /\ dropped = <<>> /\ ~released /\ UNCHANGED <<busy, released>>
      /\ dropped' = queue /\ queue' = <<>> /\ pool' = "closed"
    BY DEF ClosePool, Drained, PoolInOrder
<1>2. Elements(dropped) = {} /\ Elements(queue)' = {}
    BY <1>1, NoElements DEF Elements
<1>3. Elements(dropped)' = Elements(queue)
    BY <1>1 DEF Elements
<1>4. UNCHANGED Pending
    BY <1>1, <1>2, <1>3 DEF Pending
<1>5. UNCHANGED Tokens
    BY <1>1, <1>2, <1>3 DEF Tokens
<1>6. QED
    BY <1>1, <1>4, <1>5

LEMMA AbandonDonePool ==
    ASSUME TypeOK, AbandonDone
    PROVE  /\ UNCHANGED Pending /\ Tokens' \subseteq Tokens
           /\ dropped # <<>> /\ UNCHANGED <<dropped, pool>>
<1>1. /\ dropped # <<>> /\ ~released /\ released' = TRUE /\ dropped \in Seq(Task)
      /\ UNCHANGED <<queue, busy, dropped, pool>>
    BY DEF AbandonDone, TypeOK
<1>2. Elements(Tail(dropped)) \subseteq Elements(dropped)
    BY <1>1, ElementsHeadTail
<1>3. /\ UNCHANGED Elements(dropped) /\ UNCHANGED Elements(queue)
      /\ UNCHANGED Elements(Tail(dropped))
    BY <1>1 DEF Elements
<1>4. UNCHANGED Pending
    BY <1>1, <1>3 DEF Pending
<1>5. Tokens' \subseteq Tokens
    BY <1>1, <1>2, <1>3 DEF Tokens
<1>6. QED
    BY <1>1, <1>4, <1>5

LEMMA AbandonRecordPool ==
    ASSUME TypeOK, PoolInOrder, AbandonRecord
    PROVE  /\ Pending \subseteq Pending' \cup {Head(dropped)} /\ Pending' \subseteq Pending
           /\ UNCHANGED Tokens /\ Head(dropped) \in Task
           /\ pool = "closed" /\ UNCHANGED pool /\ released' = FALSE
<1>1. /\ released /\ released' = FALSE /\ dropped # <<>> /\ dropped \in Seq(Task)
      /\ dropped' = Tail(dropped) /\ pool = "closed" /\ UNCHANGED <<queue, busy, pool>>
    BY DEF AbandonRecord, TypeOK, PoolInOrder
<1>2. Elements(dropped) = {Head(dropped)} \cup Elements(Tail(dropped))
    BY <1>1, ElementsHeadTail
<1>3. UNCHANGED Elements(queue) /\ Elements(dropped)' = Elements(Tail(dropped))
    BY <1>1 DEF Elements
<1>4. Pending \subseteq Pending' \cup {Head(dropped)} /\ Pending' \subseteq Pending
    BY <1>1, <1>2, <1>3 DEF Pending
<1>5. UNCHANGED Tokens
    BY <1>1, <1>2, <1>3 DEF Tokens
<1>6. Head(dropped) \in Task
    BY <1>1
<1>7. QED
    BY <1>1, <1>4, <1>5, <1>6

LEMMA NextCases ==
    ASSUME Next
    PROVE  \/ AwayFromPool
           \/ \E k \in ScanKind, p \in Path : Submit(k, p)
           \/ \E t \in busy : Hash(t) \/ Send(t)
           \/ Dequeue \/ ClosePool \/ AbandonDone \/ AbandonRecord
           \/ Shutdown \/ Restart
<1>1. ASSUME NEW k \in ScanKind, WalkStep(k)
      PROVE  AwayFromPool \/ \E p \in Path : Submit(k, p)
    BY <1>1 DEF WalkStep, AwayFromPool
<1>2. QED
    BY <1>1 DEF Next, PoolStep, AwayFromPool

\* A worker leaves every other task alone, and keeps what its task is about.
LEMMA WorkerPool ==
    ASSUME TypeOK, NEW t \in busy, Hash(t) \/ Send(t)
    PROVE  /\ \A u \in Pending' : \/ u \in Pending
                                  \/ u = [t EXCEPT !.out = <<ProcessedTask(t)>>]
           /\ \A u \in Tokens' : \/ u \in Tokens
                                 \/ u = [t EXCEPT !.out = <<ProcessedTask(t)>>]
           /\ Pending \subseteq Pending' \cup {t}
           /\ UNCHANGED <<dropped, released, pool>>
<1>1. UNCHANGED <<queue, dropped, released, pool>>
    BY WorkerStep
<1>2. UNCHANGED Elements(queue) /\ UNCHANGED Elements(dropped)
      /\ UNCHANGED Elements(Tail(dropped))
    BY <1>1 DEF Elements
<1>3. \/ busy' = (busy \ {t}) \cup {[t EXCEPT !.out = <<ProcessedTask(t)>>]}
      \/ busy' = busy \ {t}
    BY WorkerStep DEF HashOne, SendOne
<1>4. /\ \A u \in Pending' : \/ u \in Pending
                             \/ u = [t EXCEPT !.out = <<ProcessedTask(t)>>]
      /\ Pending \subseteq Pending' \cup {t}
    BY <1>2, <1>3 DEF Pending
<1>5. \A u \in Tokens' : \/ u \in Tokens
                         \/ u = [t EXCEPT !.out = <<ProcessedTask(t)>>]
    BY <1>1, <1>2, <1>3 DEF Tokens
<1>6. QED
    BY <1>1, <1>4, <1>5

LEMMA PoolStaysInOrder ==
    ASSUME TypeOK, PoolInOrder, Next
    PROVE  PoolInOrder'
<1>1. CASE AwayFromPool
    BY <1>1, PoolUnchanged, SamePool
<1>2. ASSUME NEW k \in ScanKind, NEW p \in Path, Submit(k, p) PROVE PoolInOrder'
  <2>1. \A t \in Pending' : t.out # <<>> => t.out[1].path = t.path
      BY <1>2, SubmitPool DEF PoolInOrder
  <2>2. UNCHANGED <<dropped, released, pool>>
      BY <1>2, SubmitPool
  <2>3. QED
      BY <2>1, <2>2 DEF PoolInOrder
<1>3. ASSUME NEW t \in busy, Hash(t) \/ Send(t) PROVE PoolInOrder'
  <2>1. t \in Task
      BY DEF TypeOK
  <2> DEFINE v == [t EXCEPT !.out = <<ProcessedTask(t)>>]
  <2>2. v.out # <<>> => v.out[1].path = v.path
    <3>1. v.out = <<ProcessedTask(t)>> /\ v.path = t.path
        BY <2>1 DEF Task
    <3>2. QED
        BY <2>1, <3>1, ProcessedTaskType
  <2> HIDE DEF v
  <2>3. \A u \in Pending' : u \in Pending \/ u = v
      BY <1>3, WorkerPool DEF v
  <2>4. \A u \in Pending' : u.out # <<>> => u.out[1].path = u.path
      BY <2>2, <2>3 DEF PoolInOrder
  <2>5. UNCHANGED <<dropped, released, pool>>
      BY <1>3, WorkerPool
  <2>6. QED
      BY <2>4, <2>5 DEF PoolInOrder
<1>4. CASE Dequeue
  <2>1. UNCHANGED Pending /\ UNCHANGED <<dropped, released, pool>>
      BY <1>4, DequeuePool
  <2>2. \A t \in Pending' : t.out # <<>> => t.out[1].path = t.path
      BY <2>1 DEF PoolInOrder
  <2>3. QED
      BY <2>1, <2>2 DEF PoolInOrder
<1>5. CASE ClosePool
  <2>1. UNCHANGED Pending /\ UNCHANGED released /\ ~released /\ pool' = "closed"
      BY <1>5, ClosePoolPool
  <2>2. \A t \in Pending' : t.out # <<>> => t.out[1].path = t.path
      BY <2>1 DEF PoolInOrder
  <2>3. QED
      BY <2>1, <2>2 DEF PoolInOrder
<1>6. CASE AbandonDone
  <2>1. UNCHANGED Pending /\ dropped # <<>> /\ UNCHANGED <<dropped, pool>>
      BY <1>6, AbandonDonePool
  <2>2. \A t \in Pending' : t.out # <<>> => t.out[1].path = t.path
      BY <2>1 DEF PoolInOrder
  <2>3. QED
      BY <2>1, <2>2 DEF PoolInOrder
<1>7. CASE AbandonRecord
  <2>1. Pending' \subseteq Pending /\ pool = "closed" /\ UNCHANGED pool /\ released' = FALSE
      BY <1>7, AbandonRecordPool
  <2>2. \A t \in Pending' : t.out # <<>> => t.out[1].path = t.path
      BY <2>1 DEF PoolInOrder
  <2>3. QED
      BY <2>1, <2>2 DEF PoolInOrder
<1>8. CASE Shutdown
  <2>1. UNCHANGED <<queue, busy, dropped, released>> /\ pool = "open"
      BY <1>8 DEF Shutdown
  <2>2. UNCHANGED Pending
      BY <2>1 DEF Pending, Elements
  <2>3. \A t \in Pending' : t.out # <<>> => t.out[1].path = t.path
      BY <2>2 DEF PoolInOrder
  <2>4. QED
      BY <2>1, <2>3 DEF PoolInOrder
<1>9. CASE Restart
  <2>1. queue' = <<>> /\ busy' = {} /\ dropped' = <<>> /\ released' = FALSE
      BY <1>9 DEF Restart, Boot
  <2>2. Pending' = {}
      BY <2>1 DEF Pending, Elements
  <2>3. QED
      BY <2>1, <2>2 DEF PoolInOrder
<1>10. QED
    BY <1>1, <1>2, <1>3, <1>4, <1>5, <1>6, <1>7, <1>8, <1>9, NextCases

----------------------------------------------------------------------------
\* What the helpers leave alone in a scan.

\* u is s but for what the sweep spares and which rows it has not seen.
SameWork(s, u) ==
    /\ u.phase = s.phase /\ u.todo = s.todo /\ u.touch = s.touch /\ u.failed = s.failed
    /\ u.results = s.results /\ u.buf = s.buf
    /\ s.uncertain \subseteq u.uncertain /\ u.stale \subseteq s.stale

LEMMA SameWorkTransitive ==
    ASSUME NEW s, NEW u, NEW v, SameWork(s, u), SameWork(u, v)
    PROVE  SameWork(s, v)
BY DEF SameWork

LEMMA BumpWork ==
    ASSUME NEW s \in [ScanKind -> Scan], NEW S, NEW j \in ScanKind
    PROVE  SameWork(s[j], Bump(s, S)[j]) /\ Bump(s, S)[j].stale = s[j].stale \ S
<1>1. s[j] \in Scan
    OBVIOUS
<1>2. Bump(s, S)[j] = [s[j] EXCEPT !.stale = s[j].stale \ S]
    BY DEF Bump
<1>3. QED
    BY <1>1, <1>2 DEF SameWork, Scan

LEMMA UncertainWork ==
    ASSUME NEW s \in [ScanKind -> Scan], NEW k \in ScanKind, NEW S, NEW j \in ScanKind
    PROVE  /\ SameWork(s[j], Uncertain(s, k, S)[j])
           /\ S \subseteq Uncertain(s, k, S)[k].uncertain
<1>1. s[j] \in Scan /\ s[k] \in Scan
    OBVIOUS
<1>2. Uncertain(s, k, S)[j] = IF j = k THEN [s[k] EXCEPT !.uncertain = s[k].uncertain \cup S]
                              ELSE s[j]
    BY DEF Uncertain
<1>3. Uncertain(s, k, S)[k] = [s[k] EXCEPT !.uncertain = s[k].uncertain \cup S]
    BY DEF Uncertain
<1>4. QED
    BY <1>1, <1>2, <1>3 DEF SameWork, Scan

LEMMA InterruptWork ==
    ASSUME NEW s \in [ScanKind -> Scan], NEW k \in ScanKind, NEW b, NEW j \in ScanKind
    PROVE  SameWork(s[j], Interrupt(s, k, b)[j])
<1>1. s[j] \in Scan /\ s[k] \in Scan
    OBVIOUS
<1>2. Interrupt(s, k, b)[j] =
        IF j = k THEN [s[k] EXCEPT !.interrupted = s[k].interrupted \/ b] ELSE s[j]
    BY DEF Interrupt
<1>3. QED
    BY <1>1, <1>2 DEF SameWork, Scan

LEMMA LostFromWork ==
    ASSUME scan \in [ScanKind -> Scan], NEW t \in Task, NEW b \in BOOLEAN,
           NEW j \in ScanKind
    PROVE  /\ SameWork(scan[j], LostFrom(t, b)[j])
           /\ t.path \in LostFrom(t, b)[t.kind].uncertain
<1>1. t.kind \in ScanKind
    BY DEF Task
<1> DEFINE i == Interrupt(scan, t.kind, b)
<1>2. i \in [ScanKind -> Scan] /\ SameWork(scan[j], i[j])
    BY <1>1, InterruptType, InterruptWork
<1>3. LostFrom(t, b) = Uncertain(i, t.kind, {t.path})
    BY DEF LostFrom
<1> HIDE DEF i
<1>4. /\ SameWork(i[j], LostFrom(t, b)[j])
      /\ {t.path} \subseteq LostFrom(t, b)[t.kind].uncertain
    BY <1>1, <1>2, <1>3, UncertainWork
<1>5. QED
    BY <1>2, <1>4, SameWorkTransitive

\* The walk's counting of a path.
LEMMA VisitedWork ==
    ASSUME scan \in [ScanKind -> Scan], NEW k \in ScanKind, NEW p
    PROVE  /\ \A j \in ScanKind \ {k} : Visited(k, p)[j] = scan[j]
           /\ Visited(k, p)[k].todo = scan[k].todo \ {p}
           /\ SameWork([scan[k] EXCEPT !.todo = scan[k].todo \ {p}], Visited(k, p)[k])
<1> DEFINE v == [scan[k] EXCEPT !.todo = scan[k].todo \ {p}, !.seen = TRUE]
           w == [scan[k] EXCEPT !.todo = scan[k].todo \ {p}]
<1>1. Visited(k, p) = [scan EXCEPT ![k] = v]
    BY DEF Visited
<1>2. scan[k] \in Scan
    OBVIOUS
<1>3. v.todo = scan[k].todo \ {p} /\ SameWork(w, v)
    BY <1>2 DEF SameWork, Scan
<1> HIDE DEF v, w
<1>4. QED
    BY <1>1, <1>3 DEF w

\* What the steps do to the scan that takes them, and to no other.
LEMMA TouchesFlushedWork ==
    ASSUME scan \in [ScanKind -> Scan], NEW k \in ScanKind, NEW j \in ScanKind
    PROVE  /\ TouchesFlushed(k) \in [ScanKind -> Scan]
           /\ TouchesFlushed(k)[j] = IF j = k THEN [scan[k] EXCEPT !.touch = {}]
                                     ELSE scan[j]
<1>1. [scan[k] EXCEPT !.touch = {}] \in Scan
    BY ZenonT(60) DEF Scan
<1>2. QED
    BY <1>1 DEF TouchesFlushed

LEMMA BatchFlushedWork ==
    ASSUME scan \in [ScanKind -> Scan], NEW k \in ScanKind, NEW j \in ScanKind
    PROVE  /\ BatchFlushed(k) \in [ScanKind -> Scan]
           /\ BatchFlushed(k)[j] = IF j = k THEN [scan[k] EXCEPT !.buf = <<>>]
                                   ELSE scan[j]
<1>1. [scan[k] EXCEPT !.buf = <<>>] \in Scan
  <2>1. <<>> \in Seq(FileResult)
      OBVIOUS
  <2>2. QED
      BY <2>1, ZenonT(60) DEF Scan
<1>2. QED
    BY <1>1 DEF BatchFlushed

----------------------------------------------------------------------------
\* The walk and the closing of the results.

\* No task of a scan comes into being.
NoNewTokens == \A u \in Tokens' : \E t \in Tokens : t.kind = u.kind

LEMMA StillOver ==
    ASSUME NEW j \in ScanKind, Over(j), SameWork(scan[j], scan'[j]), NoNewTokens
    PROVE  Over(j)'
BY DEF Over, SameWork, NoNewTokens

LEMMA SameTokens ==
    ASSUME Tokens' \subseteq Tokens
    PROVE  NoNewTokens
BY DEF NoNewTokens

LEMMA UntouchedWork ==
    ASSUME NEW s
    PROVE  SameWork(s, s)
BY DEF SameWork

\* The steps of one scan that are not of the pool.
LEMMA ScanStepOver ==
    ASSUME TypeOK, PoolInOrder, WalkOver, AwayFromPool
    PROVE  WalkOver'
<1> SUFFICES ASSUME NEW j \in ScanKind PROVE Over(j)'
    BY DEF WalkOver
<1>0. scan \in [ScanKind -> Scan] /\ scan[j] \in Scan /\ Over(j)
    BY DEF TypeOK, WalkOver
<1>a. UNCHANGED Tokens /\ NoNewTokens
    BY PoolUnchanged, SamePool, SameTokens
<1>b. SameWork(scan[j], scan'[j]) => Over(j)'
    BY <1>0, <1>a, StillOver
<1>c. scan'[j] = scan[j] => Over(j)'
    BY <1>b, UntouchedWork
<1>1. ASSUME NEW k \in ScanKind, Start(k) PROVE Over(j)'
  <2>1. \/ j # k /\ scan'[j] = scan[j]
        \/ j = k /\ scan'[j].phase = "walk"
      BY <1>0, <1>1 DEF Start, Idle
  <2>2. QED
      BY <1>c, <2>1 DEF Over
<1>2. ASSUME NEW k \in ScanKind, NEW p \in Path,
             VisitAbsent(k, p) \/ VisitUnreadable(k, p)
      PROVE  Over(j)'
  <2>1. scan' = [scan EXCEPT ![k].todo = @ \ {p}] /\ scan[k].phase = "walk"
      BY <1>2 DEF VisitAbsent, VisitUnreadable, At
  <2>2. \/ j # k /\ scan'[j] = scan[j]
        \/ j = k /\ scan'[j].phase = "walk"
      BY <1>0, <2>1 DEF Scan
  <2>3. QED
      BY <1>c, <2>2 DEF Over
<1>3. ASSUME NEW k \in ScanKind, NEW p \in Path, VisitUnchanged(k, p)
      PROVE  Over(j)'
  <2>1. PICK n : scan' = [Visited(k, p) EXCEPT ![k].touch = @ \cup {<<n, p, disk[p]>>}]
      BY <1>3 DEF VisitUnchanged
  <2>2. scan[k].phase = "walk" /\ scan[k] \in Scan
      BY <1>0, <1>3 DEF VisitUnchanged, At
  <2>3. Visited(k, p) \in [ScanKind -> Scan]
      BY <1>0, VisitedType
  <2> DEFINE v == Visited(k, p)
             w == [scan[k] EXCEPT !.todo = scan[k].todo \ {p}]
  <2>a. /\ \A i \in ScanKind \ {k} : v[i] = scan[i]
        /\ SameWork(w, v[k])
      BY <1>0, VisitedWork
  <2>b. w.phase = "walk"
      BY <2>2 DEF Scan
  <2>5. Visited(k, p)[k].phase = "walk"
      BY <2>a, <2>b DEF SameWork
  <2> HIDE DEF v, w
  <2>4. \/ j # k /\ scan'[j] = scan[j]
        \/ j = k /\ scan'[j].phase = Visited(k, p)[k].phase
    <3>1. v \in [ScanKind -> Scan] /\ v[k] \in Scan
        BY <2>3 DEF v
    <3>2. scan' = [v EXCEPT ![k] = [v[k] EXCEPT !.touch = v[k].touch \cup {<<n, p, disk[p]>>}]]
        BY <2>1 DEF v
    <3>3. [v[k] EXCEPT !.touch = v[k].touch \cup {<<n, p, disk[p]>>}].phase = v[k].phase
        BY <3>1 DEF Scan
    <3>4. QED
        BY <2>a, <3>1, <3>2, <3>3 DEF v
  <2>6. QED
      BY <1>c, <2>4, <2>5 DEF Over
<1>4. ASSUME NEW k \in ScanKind, NEW p \in Path, Refuse(k, p)
      PROVE  Over(j)'
  <2> DEFINE v == Visited(k, p)
             i == Interrupt(v, k, pool # "open")
  <2>1. v \in [ScanKind -> Scan]
      BY <1>0, VisitedType
  <2>2. scan' = Uncertain(i, k, {p}) /\ scan[k].phase = "walk" /\ scan[k] \in Scan
      BY <1>0, <1>4 DEF Refuse, SubmitRefused, At
  <2>a. /\ \A m \in ScanKind \ {k} : v[m] = scan[m]
        /\ SameWork([scan[k] EXCEPT !.todo = scan[k].todo \ {p}], v[k])
      BY <1>0, VisitedWork
  <2>b. [scan[k] EXCEPT !.todo = scan[k].todo \ {p}].phase = "walk"
      BY <2>2 DEF Scan
  <2>3. \/ j # k /\ v[j] = scan[j]
        \/ j = k /\ v[j].phase = "walk"
      BY <2>a, <2>b DEF SameWork
  <2> HIDE DEF v
  <2>4. i \in [ScanKind -> Scan] /\ SameWork(v[j], i[j])
    <3>1. (pool # "open") \in BOOLEAN
        OBVIOUS
    <3>2. QED
        BY <2>1, <3>1, InterruptType, InterruptWork
  <2> HIDE DEF i
  <2>5. SameWork(v[j], scan'[j])
      BY <2>2, <2>4, UncertainWork, SameWorkTransitive
  <2>6. CASE j # k
      BY <1>b, <2>3, <2>5, <2>6
  <2>7. CASE j = k
      BY <2>3, <2>5, <2>7 DEF Over, SameWork
  <2>8. QED
      BY <2>6, <2>7
<1>5. ASSUME NEW k \in ScanKind, WalkFails(k) PROVE Over(j)'
  <2>1. scan' = [scan EXCEPT ![k] = [scan[k] EXCEPT !.todo = {}, !.failed = TRUE,
                    !.interrupted = scan[k].interrupted \/ scan[k].cancelled]]
        /\ scan[k].phase = "walk"
      BY <1>5 DEF WalkFails
  <2>2. \/ j # k /\ scan'[j] = scan[j]
        \/ j = k /\ scan'[j].phase = "walk"
      BY <1>0, <2>1 DEF Scan
  <2>3. QED
      BY <1>c, <2>2 DEF Over
<1>6. ASSUME NEW k \in ScanKind, FlushTouches(k) PROVE Over(j)'
  <2>1. /\ TouchesFlushed(k) \in [ScanKind -> Scan]
        /\ TouchesFlushed(k)[j] = IF j = k THEN [scan[k] EXCEPT !.touch = {}] ELSE scan[j]
      BY <1>0, TouchesFlushedWork
  <2>2. SameWork(TouchesFlushed(k)[j], scan'[j])
    <3>1. \/ scan' = Bump(TouchesFlushed(k), Touched(k))
          \/ scan' = Uncertain(TouchesFlushed(k), k, {x[2] : x \in scan[k].touch})
        BY <1>6, FlushTouchesCases
    <3>2. QED
      <4> DEFINE s == TouchesFlushed(k)
                 S == {x[2] : x \in scan[k].touch}
      <4>1. s \in [ScanKind -> Scan]
          BY <2>1
      <4>2. scan' = Bump(s, Touched(k)) \/ scan' = Uncertain(s, k, S)
          BY <3>1
      <4> HIDE DEF s, S
      <4>3. SameWork(s[j], scan'[j])
          BY <4>1, <4>2, BumpWork, UncertainWork
      <4>4. QED
          BY <4>3 DEF s
  <2>3. scan[k].phase = "walk" /\ scan[k] \in Scan
      BY <1>0, <1>6, FlushTouchesCases
  <2>4. CASE j # k
      BY <1>b, <2>1, <2>2, <2>4
  <2>5. CASE j = k
    <3>1. TouchesFlushed(k)[j].phase = "walk"
        BY <2>1, <2>3, <2>5 DEF Scan
    <3>2. QED
        BY <2>2, <3>1 DEF Over, SameWork
  <2>6. QED
      BY <2>4, <2>5
<1>7. ASSUME NEW k \in ScanKind, WalkDone(k) PROVE Over(j)'
  <2>1. scan' = [scan EXCEPT ![k].phase = "wait"] /\ scan[k].todo = {} /\ scan[k].touch = {}
      BY <1>7 DEF WalkDone
  <2>2. \/ j # k /\ scan'[j] = scan[j]
        \/ /\ j = k /\ scan'[j].phase = "wait"
           /\ scan'[j].todo = {} /\ scan'[j].touch = {}
      BY <1>0, <2>1 DEF Scan
  <2>3. QED
      BY <1>c, <2>2 DEF Over
<1>8. ASSUME NEW k \in ScanKind, CloseResults(k) PROVE Over(j)'
  <2>1. scan' = [scan EXCEPT ![k].phase = "closed"] /\ scan[k].phase = "wait"
        /\ \A t \in Tokens : t.kind # k
      BY <1>8 DEF CloseResults
  <2>2. \/ j # k /\ scan'[j] = scan[j]
        \/ j = k /\ scan'[j].todo = scan[j].todo /\ scan'[j].touch = scan[j].touch
      BY <1>0, <2>1 DEF Scan
  <2>3. QED
      BY <1>0, <1>a, <1>c, <2>1, <2>2 DEF Over
<1>9. ASSUME NEW k \in ScanKind, CommitStep(k) PROVE Over(j)'
  <2>1. CASE Receive(k)
    <3>1. \/ j # k /\ scan'[j] = scan[j]
          \/ /\ j = k /\ scan'[j].phase = scan[j].phase
             /\ scan'[j].todo = scan[j].todo /\ scan'[j].touch = scan[j].touch
        BY <1>0, <2>1 DEF Receive, Scan
    <3>2. QED
        BY <1>0, <1>a, <1>c, <3>1 DEF Over
  <2>2. CASE FlushBatch(k)
    <3>1. /\ BatchFlushed(k) \in [ScanKind -> Scan]
          /\ BatchFlushed(k)[j] = IF j = k THEN [scan[k] EXCEPT !.buf = <<>>] ELSE scan[j]
        BY <1>0, BatchFlushedWork
    <3>2. SameWork(BatchFlushed(k)[j], scan'[j])
      <4>1. \/ scan' = Bump(BatchFlushed(k), CommitBatch(scan[k].buf).seen)
            \/ scan' = Uncertain(BatchFlushed(k), k, {r.path : r \in Elements(scan[k].buf)})
          BY <2>2, FlushBatchCases
      <4>2. QED
          BY <3>1, <4>1, BumpWork, UncertainWork
    <3>3. /\ BatchFlushed(k)[j].phase = scan[j].phase
          /\ BatchFlushed(k)[j].todo = scan[j].todo
          /\ BatchFlushed(k)[j].touch = scan[j].touch
        BY <1>0, <3>1 DEF Scan
    <3>4. QED
        BY <1>0, <1>a, <3>2, <3>3 DEF Over, SameWork
  <2>3. CASE SkipSweep(k) \/ Sweep(k)
    <3>1. scan' = [scan EXCEPT ![k].phase = "end"] /\ scan[k].phase = "closed"
        BY <2>3 DEF SkipSweep, Sweep, AllCommitted
    <3>2. \/ j # k /\ scan'[j] = scan[j]
          \/ /\ j = k /\ scan'[j].phase = "end"
             /\ scan'[j].todo = scan[j].todo /\ scan'[j].touch = scan[j].touch
        BY <1>0, <3>1 DEF Scan
    <3>3. QED
        BY <1>0, <1>c, <3>1, <3>2 DEF Over
  <2>4. CASE End(k)
    <3>1. \/ j # k /\ scan'[j] = scan[j]
          \/ j = k /\ scan'[j] = Idle
        BY <1>0, <2>4 DEF End
    <3>2. QED
        BY <1>c, <3>1 DEF Over, Idle
  <2>5. QED
      BY <1>9, <2>1, <2>2, <2>3, <2>4 DEF CommitStep
<1>10. ASSUME NEW k \in ScanKind, Cancel(k) PROVE Over(j)'
  <2>1. scan' = [scan EXCEPT ![k].cancelled = TRUE]
      BY <1>10 DEF Cancel
  <2>2. \/ j # k /\ scan'[j] = scan[j]
        \/ /\ j = k /\ scan'[j].phase = scan[j].phase
           /\ scan'[j].todo = scan[j].todo /\ scan'[j].touch = scan[j].touch
      BY <1>0, <2>1 DEF Scan
  <2>3. QED
      BY <1>0, <1>a, <1>c, <2>2 DEF Over
<1>11. ASSUME \/ \E p \in Path, f \in File : ExternalWrite(p, f)
              \/ \E p \in Path, x \in Content : Upload(p, x)
              \/ Tick
       PROVE  Over(j)'
  <2>1. UNCHANGED scan
      BY <1>11 DEF ExternalWrite, Upload, Tick
  <2>2. QED
      BY <1>c, <2>1
<1>12. QED
    BY <1>1, <1>2, <1>3, <1>4, <1>5, <1>6, <1>7, <1>8, <1>9, <1>10, <1>11
    DEF AwayFromPool

\* What a pool step does to the scans.
LEMMA WorkerWork ==
    ASSUME TypeOK, PoolInOrder, NEW t \in busy, Hash(t) \/ Send(t), NEW j \in ScanKind
    PROVE  /\ scan'[j].phase = scan[j].phase /\ scan'[j].failed = scan[j].failed
           /\ scan'[j].todo = scan[j].todo /\ scan'[j].touch = scan[j].touch
           /\ scan[j].uncertain \subseteq scan'[j].uncertain
           /\ scan'[j].stale \subseteq scan[j].stale
           /\ Uncommitted(j) \subseteq Uncommitted(j)'
           /\ \/ [t EXCEPT !.out = <<ProcessedTask(t)>>] \in Pending'
              \/ t.path \in scan'[t.kind].uncertain
              \/ \E r \in Uncommitted(t.kind)' : r.path = t.path
<1>0. /\ scan \in [ScanKind -> Scan] /\ scan[j] \in Scan
      /\ t \in Task /\ t.kind \in ScanKind /\ scan[t.kind] \in Scan
    BY DEF TypeOK, Task
<1>1. CASE HashOne(t)
  <2>1. UNCHANGED scan /\ [t EXCEPT !.out = <<ProcessedTask(t)>>] \in Pending'
      BY <1>1 DEF HashOne, Pending
  <2>2. QED
      BY <2>1 DEF Uncommitted, Elements
<1>2. CASE SendOne(t)
  <2> DEFINE r == t.out[1]
  <2>1. r \in FileResult /\ r.path = t.path
    <3>1. t \in Pending /\ t.out # <<>>
        BY <1>2 DEF SendOne, Pending
    <3>2. QED
        BY <1>0, <3>1 DEF PoolInOrder, Task
  <2>2. scan' = [scan EXCEPT ![t.kind] =
                   [scan[t.kind] EXCEPT !.results = Append(scan[t.kind].results, r)]]
      BY <1>2 DEF SendOne
  <2> HIDE DEF r
  <2>3. scan[t.kind].results \in Seq(FileResult)
      BY <1>0 DEF Scan
  <2>4. Elements(Append(scan[t.kind].results, r)) = Elements(scan[t.kind].results) \cup {r}
      BY <2>1, <2>3, ElementsAppend
  <2> DEFINE s == [scan[t.kind] EXCEPT !.results = Append(scan[t.kind].results, r)]
  <2>5. /\ s.phase = scan[t.kind].phase /\ s.failed = scan[t.kind].failed
        /\ s.todo = scan[t.kind].todo /\ s.touch = scan[t.kind].touch
        /\ s.uncertain = scan[t.kind].uncertain /\ s.stale = scan[t.kind].stale
        /\ s.buf = scan[t.kind].buf
        /\ s.results = Append(scan[t.kind].results, r)
      BY <1>0 DEF Scan
  <2> HIDE DEF s
  <2>6. \A i \in ScanKind : scan'[i] = IF i = t.kind THEN s ELSE scan[i]
      BY <1>0, <2>2 DEF s
  <2>7. Uncommitted(t.kind)' = Uncommitted(t.kind) \cup {r}
    <3>1. Uncommitted(t.kind)' = Elements(s.results) \cup Elements(s.buf)
        BY <1>0, <2>6 DEF Uncommitted, Elements
    <3>2. QED
        BY <2>4, <2>5, <3>1 DEF Uncommitted
  <2>8. \E x \in Uncommitted(t.kind)' : x.path = t.path
      BY <2>1, <2>7
  <2>9. Uncommitted(j) \subseteq Uncommitted(j)'
    <3>1. CASE j = t.kind
        BY <2>7, <3>1
    <3>2. CASE j # t.kind
      <4>1. scan'[j] = scan[j]
          BY <2>6, <3>2
      <4>2. QED
          BY <4>1 DEF Uncommitted, Elements
    <3>3. QED
        BY <3>1, <3>2
  <2>10. QED
      BY <2>5, <2>6, <2>8, <2>9
<1>3. CASE \E b \in BOOLEAN : busy' = busy \ {t} /\ scan' = LostFrom(t, b)
  <2>1. PICK b \in BOOLEAN : scan' = LostFrom(t, b)
      BY <1>3
  <2>2. SameWork(scan[j], scan'[j]) /\ t.path \in scan'[t.kind].uncertain
      BY <1>0, <2>1, LostFromWork
  <2>3. Uncommitted(j)' = Uncommitted(j)
      BY <2>2 DEF Uncommitted, Elements, SameWork
  <2>4. QED
      BY <2>2, <2>3 DEF SameWork
<1>4. QED
    BY <1>1, <1>2, <1>3, WorkerStep

LEMMA AbandonRecordWork ==
    ASSUME TypeOK, PoolInOrder, AbandonRecord, NEW j \in ScanKind
    PROVE  /\ SameWork(scan[j], scan'[j])
           /\ \/ scan[Head(dropped).kind].phase = "idle"
              \/ Head(dropped).path \in scan'[Head(dropped).kind].uncertain
<1>1. scan \in [ScanKind -> Scan] /\ Head(dropped) \in Task
    BY AbandonRecordPool DEF TypeOK
<1>2. \/ scan[Head(dropped).kind].phase = "idle" /\ scan' = scan
      \/ scan' = LostFrom(Head(dropped), TRUE)
    BY DEF AbandonRecord, LostFrom
<1>3. QED
    BY <1>1, <1>2, LostFromWork, UntouchedWork

LEMMA SubmitWork ==
    ASSUME TypeOK, NEW k \in ScanKind, NEW p \in Path, Submit(k, p)
    PROVE  /\ \A j \in ScanKind \ {k} : scan'[j] = scan[j]
           /\ scan[k].phase = "walk" /\ scan'[k].todo = scan[k].todo \ {p}
           /\ SameWork([scan[k] EXCEPT !.todo = scan[k].todo \ {p}], scan'[k])
<1>1. scan' = Visited(k, p) /\ scan[k].phase = "walk" /\ scan \in [ScanKind -> Scan]
    BY DEF Submit, At, TypeOK
<1>2. QED
    BY <1>1, VisitedWork

LEMMA WalkStaysOver ==
    ASSUME TypeOK, PoolInOrder, WalkOver, Next
    PROVE  WalkOver'
<1>0. scan \in [ScanKind -> Scan]
    BY DEF TypeOK
<1>1. CASE AwayFromPool
    BY <1>1, ScanStepOver
<1>2. ASSUME NEW k \in ScanKind, NEW p \in Path, Submit(k, p) PROVE WalkOver'
  <2> DEFINE t == [kind |-> k, path |-> p, ver |-> disk[p], out |-> <<>>]
  <2>1. Tokens' = Tokens \cup {t} /\ t.kind = k
      BY <1>2, SubmitPool
  <2> HIDE DEF t
  <2>2. [scan[k] EXCEPT !.todo = scan[k].todo \ {p}].phase = scan[k].phase
      BY <1>0 DEF Scan
  <2>3. /\ \A j \in ScanKind \ {k} : scan'[j] = scan[j]
        /\ scan'[k].phase = "walk"
      BY <1>2, <2>2, SubmitWork DEF SameWork
  <2>4. \A j \in ScanKind : Over(j)'
      BY <2>1, <2>3 DEF Over, WalkOver
  <2>5. QED
      BY <2>4 DEF WalkOver
<1>3. ASSUME NEW t \in busy, Hash(t) \/ Send(t) PROVE WalkOver'
  <2>1. t \in Task /\ t \in Tokens
      BY DEF TypeOK, Tokens
  <2> DEFINE v == [t EXCEPT !.out = <<ProcessedTask(t)>>]
  <2>2. v.kind = t.kind
      BY <2>1 DEF Task
  <2> HIDE DEF v
  <2>3. \A u \in Tokens' : u \in Tokens \/ u = v
      BY <1>3, WorkerPool DEF v
  <2>4. NoNewTokens
      BY <2>1, <2>2, <2>3 DEF NoNewTokens
  <2>5. \A j \in ScanKind : /\ scan'[j].phase = scan[j].phase
                            /\ scan'[j].todo = scan[j].todo
                            /\ scan'[j].touch = scan[j].touch
      BY <1>3, WorkerWork
  <2>6. \A j \in ScanKind : Over(j)'
      BY <2>4, <2>5 DEF Over, WalkOver, NoNewTokens
  <2>7. QED
      BY <2>6 DEF WalkOver
<1>4. CASE Dequeue \/ ClosePool \/ AbandonDone \/ Shutdown
  <2>1. UNCHANGED scan
      BY <1>4 DEF Dequeue, ClosePool, AbandonDone, Shutdown
  <2>2. CASE Shutdown
    <3>1. UNCHANGED Tokens
        BY <2>2 DEF Shutdown, Tokens, Elements
    <3>2. QED
        BY <2>1, <3>1 DEF WalkOver, Over
  <2>3. CASE ~ Shutdown
    <3>1. Tokens' \subseteq Tokens
        BY <1>4, <2>3, DequeuePool, ClosePoolPool, AbandonDonePool
    <3>2. QED
        BY <2>1, <3>1 DEF WalkOver, Over
  <2>4. QED
      BY <2>2, <2>3
<1>5. CASE AbandonRecord
  <2>1. UNCHANGED Tokens
      BY <1>5, AbandonRecordPool
  <2>2. NoNewTokens
      BY <2>1, SameTokens
  <2>3. \A j \in ScanKind : Over(j)'
      BY <1>5, <2>2, AbandonRecordWork, StillOver DEF WalkOver
  <2>4. QED
      BY <2>3 DEF WalkOver
<1>6. CASE Restart
  <2>1. \A j \in ScanKind : scan'[j] = Idle
      BY <1>6 DEF Restart, Boot
  <2>2. QED
      BY <2>1 DEF WalkOver, Over, Idle
<1>7. QED
    BY <1>1, <1>2, <1>3, <1>4, <1>5, <1>6, NextCases

----------------------------------------------------------------------------
\* The rows.

\* Scan j has no more rows to look for than before, and none of them has become
\* ACTIVE or moved.
RowsCarried(j) ==
    /\ scan'[j].stale \subseteq scan[j].stale
    /\ \A n \in scan'[j].stale :
         nodes'[n].state = "ACTIVE" =>
             nodes[n].state = "ACTIVE" /\ nodes'[n].path = nodes[n].path

RowsKept == \A n \in Node : Exists(nodes[n]) => Exists(nodes'[n])

LEMMA SameRowsCarried ==
    ASSUME NEW j, UNCHANGED nodes, scan'[j].stale \subseteq scan[j].stale
    PROVE  RowsCarried(j) /\ RowsKept
BY DEF RowsCarried, RowsKept

LEMMA CarriedUnswept ==
    ASSUME NEW j, RowsCarried(j), NEW p
    PROVE  Unswept(j, p)' \subseteq Unswept(j, p)
BY DEF RowsCarried, Unswept

LEMMA FlushTouchesRows ==
    ASSUME TypeOK, NEW k \in ScanKind, FlushTouches(k), NEW j \in ScanKind
    PROVE  /\ RowsCarried(j) /\ RowsKept
           /\ \/ UNCHANGED dbVars
              \/ scan'[j].stale \cap Touched(k) = {}
<1>0. scan \in [ScanKind -> Scan] /\ scan[j] \in Scan /\ scan[k] \in Scan
    BY DEF TypeOK
<1> DEFINE s == TouchesFlushed(k)
           S == {x[2] : x \in scan[k].touch}
<1>1. s \in [ScanKind -> Scan] /\ s[j].stale = scan[j].stale
  <2>1. s \in [ScanKind -> Scan]
        /\ s[j] = IF j = k THEN [scan[k] EXCEPT !.touch = {}] ELSE scan[j]
      BY <1>0, TouchesFlushedWork
  <2>2. [scan[k] EXCEPT !.touch = {}].stale = scan[k].stale
      BY <1>0 DEF Scan
  <2>3. QED
      BY <2>1, <2>2
<1>2. \/ nodes' = TouchedTable(k) /\ scan' = Bump(s, Touched(k))
      \/ UNCHANGED dbVars /\ scan' = Uncertain(s, k, S)
    BY FlushTouchesCases
<1> HIDE DEF s, S
<1>3. CASE nodes' = TouchedTable(k) /\ scan' = Bump(s, Touched(k))
  <2>1. scan'[j].stale = scan[j].stale \ Touched(k)
      BY <1>1, <1>3, BumpWork
  <2>2. \A n \in Node : /\ nodes'[n].path = nodes[n].path
                        /\ n \notin Touched(k) => nodes'[n] = nodes[n]
                        /\ Exists(nodes[n]) => Exists(nodes'[n])
      BY <1>3, TouchedTableType
  <2>3. scan[j].stale \subseteq Node
      BY <1>0 DEF Scan
  <2>4. QED
      BY <2>1, <2>2, <2>3 DEF RowsCarried, RowsKept
<1>4. CASE UNCHANGED dbVars /\ scan' = Uncertain(s, k, S)
  <2>1. scan'[j].stale \subseteq scan[j].stale /\ UNCHANGED nodes
      BY <1>1, <1>4, UncertainWork DEF SameWork, dbVars
  <2>2. QED
      BY <1>4, <2>1, SameRowsCarried
<1>5. QED
    BY <1>2, <1>3, <1>4

LEMMA FlushBatchRows ==
    ASSUME TypeOK, Schema(nodes), NEW k \in ScanKind, FlushBatch(k), NEW j \in ScanKind
    PROVE  /\ RowsCarried(j) /\ RowsKept
           /\ \/ /\ UNCHANGED dbVars
                 /\ {r.path : r \in Elements(scan[k].buf)} \subseteq scan'[k].uncertain
              \/ \A r \in Elements(scan[k].buf) : Unswept(j, r.path)' = {}
<1>0. scan \in [ScanKind -> Scan] /\ scan[j] \in Scan /\ scan[k] \in Scan
    BY DEF TypeOK
<1> DEFINE s   == BatchFlushed(k)
           S   == {r.path : r \in Elements(scan[k].buf)}
           out == CommitBatch(scan[k].buf)
<1>1. s \in [ScanKind -> Scan] /\ s[j].stale = scan[j].stale
  <2>1. s \in [ScanKind -> Scan]
        /\ s[j] = IF j = k THEN [scan[k] EXCEPT !.buf = <<>>] ELSE scan[j]
      BY <1>0, BatchFlushedWork
  <2>2. [scan[k] EXCEPT !.buf = <<>>].stale = scan[k].stale
      BY <1>0 DEF Scan
  <2>3. QED
      BY <2>1, <2>2
<1> HIDE DEF out
<1>2. \/ out.ok /\ nodes' = out.nodes /\ scan' = Bump(s, out.seen)
      \/ UNCHANGED dbVars /\ scan' = Uncertain(s, k, S)
    BY FlushBatchCases DEF out
<1> HIDE DEF s
<1>3. CASE out.ok /\ nodes' = out.nodes /\ scan' = Bump(s, out.seen)
  <2>1. BatchOf(out, scan[k].buf, Len(scan[k].buf))
      BY <1>3, FlushBatchCases, BatchOfBuf DEF out
  <2>2. scan'[j].stale = scan[j].stale \ out.seen
      BY <1>1, <1>3, BumpWork
  <2>3. scan[j].stale \subseteq Node
      BY <1>0 DEF Scan
  <2>4. RowsCarried(j)
      BY <1>3, <2>1, <2>2, <2>3 DEF BatchOf, ActiveOnlySeen, RowsCarried
  <2>5. RowsKept
      BY <1>3, <2>1 DEF BatchOf, KeepsRetired, RowsKept, Exists
  <2>6. \A r \in Elements(scan[k].buf) : Unswept(j, r.path)' = {}
    <3>1. TAKE r \in Elements(scan[k].buf)
    <3>2. PICK i \in 1..Len(scan[k].buf) : r = scan[k].buf[i]
      <4>1. scan[k].buf \in Seq(FileResult)
          BY <1>0 DEF Scan
      <4>2. QED
          BY <4>1 DEF Elements
    <3>3. SeenAt(out.nodes, out.seen, r.path)
        BY <2>1, <3>2 DEF BatchOf
    <3>4. QED
        BY <1>3, <2>2, <2>3, <3>3 DEF SeenAt, Unswept
  <2>7. QED
      BY <2>4, <2>5, <2>6
<1>4. CASE UNCHANGED dbVars /\ scan' = Uncertain(s, k, S)
  <2> HIDE DEF S
  <2>1. /\ scan'[j].stale \subseteq scan[j].stale /\ UNCHANGED nodes
        /\ S \subseteq scan'[k].uncertain
      BY <1>1, <1>4, UncertainWork DEF SameWork, dbVars
  <2>2. QED
      BY <1>4, <2>1, SameRowsCarried DEF S
<1>5. QED
    BY <1>2, <1>3, <1>4

LEMMA SweepRows ==
    ASSUME TypeOK, NEW k \in ScanKind, Sweep(k), NEW j \in ScanKind
    PROVE  RowsCarried(j) /\ RowsKept
<1>0. nodes \in Table /\ scan \in [ScanKind -> Scan] /\ scan[j] \in Scan /\ scan[k] \in Scan
    BY DEF TypeOK
<1>1. scan'[j].stale = scan[j].stale
  <2>1. scan' = [scan EXCEPT ![k] = [scan[k] EXCEPT !.phase = "end"]]
      BY SweepCases
  <2>2. [scan[k] EXCEPT !.phase = "end"].stale = scan[k].stale
      BY <1>0 DEF Scan
  <2>3. QED
      BY <1>0, <2>1, <2>2
<1>2. scan[j].stale \subseteq Node
    BY <1>0 DEF Scan
<1>3. \A n \in Node : /\ nodes'[n].path = nodes[n].path
                      /\ nodes'[n].state = "ACTIVE" => nodes[n].state = "ACTIVE"
                      /\ Exists(nodes[n]) => Exists(nodes'[n])
  <2>1. CASE nodes' = SweptTable(k)
      BY <1>0, <2>1, SweptRows DEF Exists
  <2>2. CASE UNCHANGED nodes
      BY <2>2
  <2>3. QED
      BY <2>1, <2>2, SweepCases
<1>4. QED
    BY <1>1, <1>2, <1>3 DEF RowsCarried, RowsKept

LEMMA UploadCarries ==
    ASSUME TypeOK, StaleExist, NEW p \in Path, NEW x \in Content, Upload(p, x),
           NEW j \in ScanKind
    PROVE  RowsCarried(j) /\ RowsKept
<1>1. scan[j] \in Scan /\ UNCHANGED scan
    BY DEF TypeOK, Upload
<1>2. scan[j].stale \subseteq Node
    BY <1>1 DEF Scan
<1>3. /\ NextId(nodes) \in FreeIds(nodes)
      /\ \A m \in Node \ {NextId(nodes)} :
           nodes'[m].state = nodes[m].state /\ nodes'[m].path = nodes[m].path
    BY UploadRows
<1>4. NextId(nodes) \notin scan[j].stale
    BY <1>3 DEF StaleExist, FreeIds
<1>5. RowsKept
    BY <1>3 DEF RowsKept, FreeIds, Exists
<1>6. QED
    BY <1>1, <1>2, <1>3, <1>4, <1>5 DEF RowsCarried

----------------------------------------------------------------------------
\* The files.

\* Whatever was known of path p in scan j is still known.
Carried(j, p) ==
    /\ Sweeping(j)' => Sweeping(j)
    /\ p \in Present(j)' /\ p \notin history'[j].blind =>
         p \in Present(j) /\ p \notin history[j].blind
    /\ p \in scan[j].todo => p \in scan'[j].todo
    /\ scan[j].uncertain \subseteq scan'[j].uncertain
    /\ scan[j].touch \subseteq scan'[j].touch
    /\ Unswept(j, p)' \subseteq Unswept(j, p)
    /\ \A t \in Pending : t.kind = j /\ t.path = p =>
         \E u \in Pending' : u.kind = j /\ u.path = p
    /\ \A r \in Uncommitted(j) : r.path = p => r \in Uncommitted(j)'

LEMMA CarriedTracked ==
    ASSUME NEW j \in ScanKind, NEW p \in Path, Tracked(j, p), Carried(j, p)
    PROVE  Tracked(j, p)'
<1> SUFFICES ASSUME Sweeping(j)', p \in Here', p \in Present(j)', p \notin history'[j].blind
             PROVE  Followed(j, p)'
    BY DEF Tracked
<1>1. p \in Here
    BY DEF Here
<1>2. Followed(j, p)
    BY <1>1 DEF Tracked, Carried
<1>3. CASE p \in scan[j].todo \/ p \in scan[j].uncertain
    BY <1>3 DEF Carried, Followed
<1>4. CASE \E x \in scan[j].touch : x[2] = p /\ Unswept(j, p) \subseteq {x[1]}
  <2>1. \E x \in scan'[j].touch : x[2] = p /\ Unswept(j, p)' \subseteq {x[1]}
      BY <1>4 DEF Carried
  <2>2. QED
      BY <2>1 DEF Followed
<1>5. CASE \E t \in Pending : t.kind = j /\ t.path = p
  <2>1. \E t \in Pending' : t.kind = j /\ t.path = p
      BY <1>5 DEF Carried
  <2>2. QED
      BY <2>1 DEF Followed
<1>6. CASE \E r \in Uncommitted(j) : r.path = p
  <2>1. \E r \in Uncommitted(j)' : r.path = p
      BY <1>6 DEF Carried
  <2>2. QED
      BY <2>1 DEF Followed
<1>7. CASE Unswept(j, p) = {}
  <2>1. Unswept(j, p)' = {}
      BY <1>7 DEF Carried
  <2>2. QED
      BY <2>1 DEF Followed
<1>8. QED
    BY <1>2, <1>3, <1>4, <1>5, <1>6, <1>7 DEF Followed

\* A path a step has written is followed no further.
LEMMA GoneTracked ==
    ASSUME NEW j \in ScanKind, NEW p \in Path,
           ~Sweeping(j)' \/ p \notin Present(j)' \/ p \in history'[j].blind
    PROVE  Tracked(j, p)'
BY DEF Tracked

LEMMA FollowedTracked ==
    ASSUME NEW j \in ScanKind, NEW p \in Path, Followed(j, p)'
    PROVE  Tracked(j, p)'
BY DEF Tracked

\* The disk and the history of scan j, as far as it is followed, are the same.
SameView(j) ==
    /\ UNCHANGED disk
    /\ history'[j].steady = history[j].steady /\ history'[j].blind = history[j].blind

LEMMA SameViewPresent ==
    ASSUME NEW j, SameView(j)
    PROVE  Present(j)' = Present(j)
BY DEF SameView, Present

LEMMA SameWorkCarried ==
    ASSUME NEW j \in ScanKind, SameWork(scan[j], scan'[j]), SameView(j), RowsCarried(j),
           Pending \subseteq Pending', NEW p \in Path
    PROVE  Carried(j, p)
<1>1. Sweeping(j)' = Sweeping(j)
    BY DEF SameWork, Sweeping
<1>2. Uncommitted(j)' = Uncommitted(j)
    BY DEF SameWork, Uncommitted, Elements
<1>3. Unswept(j, p)' \subseteq Unswept(j, p)
    BY CarriedUnswept
<1>4. Present(j)' = Present(j) /\ history'[j].blind = history[j].blind
    BY SameViewPresent DEF SameView
<1>5. QED
    BY <1>1, <1>2, <1>3, <1>4 DEF Carried, SameWork

\* Another scan's step.
LEMMA OtherCarried ==
    ASSUME NEW j \in ScanKind, scan'[j] = scan[j], SameView(j), UNCHANGED nodes,
           Pending \subseteq Pending', NEW p \in Path
    PROVE  Carried(j, p)
<1>1. SameWork(scan[j], scan'[j]) /\ scan'[j].stale \subseteq scan[j].stale
    BY UntouchedWork
<1>2. RowsCarried(j)
    BY <1>1, SameRowsCarried
<1>3. QED
    BY <1>1, <1>2, SameWorkCarried

\* What a visit leaves of scan k: the path alone is no longer to be visited.
LEMMA VisitCarried ==
    ASSUME TypeOK, NEW k \in ScanKind, NEW q,
           SameWork([scan[k] EXCEPT !.todo = scan[k].todo \ {q}], scan'[k]),
           UNCHANGED <<disk, nodes>>, history'[k].steady = history[k].steady,
           history[k].blind \subseteq history'[k].blind,
           Pending \subseteq Pending', NEW p \in Path, p # q
    PROVE  Carried(k, p)
<1> DEFINE s == [scan[k] EXCEPT !.todo = scan[k].todo \ {q}]
<1>0. scan[k] \in Scan
    BY DEF TypeOK
<1>1. /\ s.phase = scan[k].phase /\ s.touch = scan[k].touch /\ s.failed = scan[k].failed
      /\ s.results = scan[k].results /\ s.buf = scan[k].buf
      /\ s.uncertain = scan[k].uncertain /\ s.stale = scan[k].stale
      /\ s.todo = scan[k].todo \ {q}
    BY <1>0 DEF Scan
<1> HIDE DEF s
<1>2. /\ scan'[k].phase = scan[k].phase /\ scan'[k].touch = scan[k].touch
      /\ scan'[k].failed = scan[k].failed
      /\ scan'[k].results = scan[k].results /\ scan'[k].buf = scan[k].buf
      /\ scan[k].uncertain \subseteq scan'[k].uncertain
      /\ scan'[k].stale \subseteq scan[k].stale
      /\ scan'[k].todo = scan[k].todo \ {q}
    BY <1>1 DEF s, SameWork
<1>3. Sweeping(k)' = Sweeping(k)
    BY <1>2 DEF Sweeping
<1>4. Uncommitted(k)' = Uncommitted(k)
    BY <1>2 DEF Uncommitted, Elements
<1>5. Unswept(k, p)' \subseteq Unswept(k, p)
    BY <1>2, SameRowsCarried, CarriedUnswept
<1>6. Present(k)' = Present(k)
    BY DEF Present
<1>7. QED
    BY <1>2, <1>3, <1>4, <1>5, <1>6 DEF Carried

LEMMA StartFollowed ==
    ASSUME TypeOK, PoolInOrder, FilesFollowed, NEW k \in ScanKind, Start(k)
    PROVE  FilesFollowed'
<1> SUFFICES ASSUME NEW j \in ScanKind, NEW p \in Path PROVE Tracked(j, p)'
    BY DEF FilesFollowed
<1>0. /\ scan \in [ScanKind -> Scan] /\ history[j] \in History
      /\ Tracked(j, p) /\ UNCHANGED <<nodes, disk>>
    BY DEF TypeOK, FilesFollowed, Start, dbVars
<1>1. Pending \subseteq Pending'
    BY SamePool DEF Start
<1>2. CASE j = k
  <2>1. scan'[k].todo = Here
      BY <1>0 DEF Start, Idle
  <2>2. p \in Here => Followed(j, p)'
      BY <1>2, <2>1 DEF Followed
  <2>3. QED
      BY <2>2 DEF Tracked, Here
<1>3. CASE j # k
  <2>1. scan'[j] = scan[j]
      BY <1>0, <1>3 DEF Start
  <2>2. history'[j] = [history[j] EXCEPT !.alone = FALSE]
      BY <1>3 DEF Start
  <2>3. SameView(j)
      BY <1>0, <2>2 DEF SameView, History
  <2>4. QED
      BY <1>0, <1>1, <2>1, <2>3, OtherCarried, CarriedTracked
<1>4. QED
    BY <1>2, <1>3

LEMMA VisitFollowed ==
    ASSUME TypeOK, PoolInOrder, FilesFollowed, NEW k \in ScanKind, NEW q \in Path,
           VisitAbsent(k, q) \/ VisitUnreadable(k, q)
    PROVE  FilesFollowed'
<1> SUFFICES ASSUME NEW j \in ScanKind, NEW p \in Path PROVE Tracked(j, p)'
    BY DEF FilesFollowed
<1>0. /\ scan \in [ScanKind -> Scan] /\ history \in [ScanKind -> History]
      /\ Tracked(j, p) /\ scan[k] \in Scan
    BY DEF TypeOK, FilesFollowed
<1>1. /\ scan' = [scan EXCEPT ![k].todo = @ \ {q}] /\ UNCHANGED <<nodes, disk>>
      /\ UNCHANGED poolVars
    BY DEF VisitAbsent, VisitUnreadable, dbVars
<1>2. Pending \subseteq Pending'
    BY <1>1, SamePool
<1>3. /\ \A i \in ScanKind \ {k} : scan'[i] = scan[i]
      /\ scan'[k] = [scan[k] EXCEPT !.todo = scan[k].todo \ {q}]
    BY <1>0, <1>1
<1>4. SameWork([scan[k] EXCEPT !.todo = scan[k].todo \ {q}], scan'[k])
    BY <1>3, UntouchedWork
<1>5. /\ history'[j].steady = history[j].steady
      /\ history[j].blind \subseteq history'[j].blind
      /\ j # k => history'[j].blind = history[j].blind
      /\ VisitUnreadable(k, q) => q \in history'[k].blind
  <2>1. CASE VisitAbsent(k, q) /\ ~VisitUnreadable(k, q)
      BY <2>1 DEF VisitAbsent
  <2>2. CASE VisitUnreadable(k, q)
    <3>1. history' = [history EXCEPT ![k] =
                        [history[k] EXCEPT !.blind = history[k].blind \cup {q}]]
        BY <2>2 DEF VisitUnreadable
    <3> DEFINE h == [history[k] EXCEPT !.blind = history[k].blind \cup {q}]
    <3>2. h.steady = history[k].steady /\ h.blind = history[k].blind \cup {q}
        BY <1>0 DEF History
    <3> HIDE DEF h
    <3>3. \A i \in ScanKind : history'[i] = IF i = k THEN h ELSE history[i]
        BY <1>0, <3>1 DEF h
    <3>4. QED
        BY <3>2, <3>3
  <2>3. QED
      BY <2>1, <2>2
<1>6. CASE j # k
  <2>1. SameView(j)
      BY <1>1, <1>5, <1>6 DEF SameView
  <2>2. QED
      BY <1>0, <1>1, <1>2, <1>3, <1>6, <2>1, OtherCarried, CarriedTracked
<1>7. CASE j = k /\ p # q
  <2>1. Carried(k, p)
      BY <1>1, <1>2, <1>4, <1>5, <1>7, VisitCarried
  <2>2. QED
      BY <1>0, <1>7, <2>1, CarriedTracked
<1>8. CASE j = k /\ p = q
  <2>1. p \notin Present(j)' \/ p \in history'[j].blind
      BY <1>1, <1>5, <1>8 DEF VisitAbsent, Present
  <2>2. QED
      BY <2>1, GoneTracked
<1>9. QED
    BY <1>6, <1>7, <1>8

LEMMA VisitUnchangedFollowed ==
    ASSUME TypeOK, Schema(nodes), PoolInOrder, FilesFollowed,
           NEW k \in ScanKind, NEW q \in Path, VisitUnchanged(k, q)
    PROVE  FilesFollowed'
<1> SUFFICES ASSUME NEW j \in ScanKind, NEW p \in Path PROVE Tracked(j, p)'
    BY DEF FilesFollowed
<1>0. /\ scan \in [ScanKind -> Scan] /\ Tracked(j, p) /\ scan[k] \in Scan
      /\ nodes \in Table
    BY DEF TypeOK, FilesFollowed
<1>1. UNCHANGED <<nodes, disk, history>> /\ UNCHANGED poolVars
    BY DEF VisitUnchanged, dbVars
<1>2. Pending \subseteq Pending'
    BY <1>1, SamePool
<1>3. PICK n \in SweepUnchanged(k, q) :
        scan' = [Visited(k, q) EXCEPT ![k].touch = @ \cup {<<n, q, disk[q]>>}]
    BY DEF VisitUnchanged
<1> DEFINE v == Visited(k, q)
           w == [scan[k] EXCEPT !.todo = scan[k].todo \ {q}]
           u == [v[k] EXCEPT !.touch = v[k].touch \cup {<<n, q, disk[q]>>}]
<1>4. /\ v \in [ScanKind -> Scan] /\ v[k].todo = scan[k].todo \ {q}
      /\ \A i \in ScanKind \ {k} : v[i] = scan[i]
      /\ SameWork(w, v[k])
    BY <1>0, VisitedType, VisitedWork
<1>5. /\ w.phase = scan[k].phase /\ w.touch = scan[k].touch /\ w.failed = scan[k].failed
      /\ w.results = scan[k].results /\ w.buf = scan[k].buf
      /\ w.uncertain = scan[k].uncertain /\ w.stale = scan[k].stale
    BY <1>0 DEF Scan
<1> HIDE DEF v, w
<1>6. /\ u.phase = v[k].phase /\ u.touch = v[k].touch \cup {<<n, q, disk[q]>>}
      /\ u.failed = v[k].failed /\ u.todo = v[k].todo
      /\ u.results = v[k].results /\ u.buf = v[k].buf
      /\ u.uncertain = v[k].uncertain /\ u.stale = v[k].stale
    BY <1>4 DEF Scan
<1> HIDE DEF u
<1>7. \A i \in ScanKind : scan'[i] = IF i = k THEN u ELSE scan[i]
    BY <1>3, <1>4 DEF u, v
<1>8. CASE j # k
  <2>1. scan'[j] = scan[j] /\ SameView(j)
      BY <1>1, <1>7, <1>8 DEF SameView
  <2>2. QED
      BY <1>0, <1>1, <1>2, <2>1, OtherCarried, CarriedTracked
<1>9. CASE j = k
  <2>1. /\ scan'[k].phase = scan[k].phase /\ scan'[k].failed = scan[k].failed
        /\ scan'[k].todo = scan[k].todo \ {q}
        /\ scan'[k].touch = scan[k].touch \cup {<<n, q, disk[q]>>}
        /\ scan'[k].results = scan[k].results /\ scan'[k].buf = scan[k].buf
        /\ scan[k].uncertain \subseteq scan'[k].uncertain
        /\ scan'[k].stale \subseteq scan[k].stale
      BY <1>4, <1>5, <1>6, <1>7 DEF SameWork
  <2>2. Unswept(k, p)' \subseteq Unswept(k, p)
      BY <1>1, <2>1, SameRowsCarried, CarriedUnswept
  <2>3. CASE p # q
    <3>1. Sweeping(k)' = Sweeping(k)
        BY <2>1 DEF Sweeping
    <3>2. Uncommitted(k)' = Uncommitted(k)
        BY <2>1 DEF Uncommitted, Elements
    <3>3. Present(k)' = Present(k)
        BY <1>1 DEF Present
    <3>4. Carried(k, p)
        BY <1>1, <1>2, <2>1, <2>2, <2>3, <3>1, <3>2, <3>3 DEF Carried
    <3>5. QED
        BY <1>0, <1>9, <3>4, CarriedTracked
  <2>4. CASE p = q
    <3>1. n \in LiveAt(nodes, p)
        BY <2>4 DEF SweepUnchanged
    <3>2. \A m \in Unswept(k, p) : m = n
      <4>1. scan[k].stale \subseteq Node
          BY <1>0 DEF Scan
      <4>2. QED
          BY <3>1, <4>1 DEF Unswept, LiveAt, Live, Schema, LivePathUnique
    <3>3. Unswept(k, p)' \subseteq {n}
        BY <2>2, <3>2
    <3> DEFINE x == <<n, q, disk[q]>>
    <3>4. x \in scan'[k].touch /\ x[2] = p /\ x[1] = n
        BY <2>1, <2>4
    <3> HIDE DEF x
    <3>5. Followed(k, p)'
        BY <3>3, <3>4 DEF Followed
    <3>6. QED
        BY <1>9, <3>5, FollowedTracked
  <2>5. QED
      BY <2>3, <2>4
<1>10. QED
    BY <1>8, <1>9

LEMMA SubmitFollowed ==
    ASSUME TypeOK, FilesFollowed, NEW k \in ScanKind, NEW q \in Path, Submit(k, q)
    PROVE  FilesFollowed'
<1> SUFFICES ASSUME NEW j \in ScanKind, NEW p \in Path PROVE Tracked(j, p)'
    BY DEF FilesFollowed
<1>0. Tracked(j, p)
    BY DEF FilesFollowed
<1>1. UNCHANGED <<nodes, disk, history>>
    BY DEF Submit, dbVars
<1> DEFINE t == [kind |-> k, path |-> q, ver |-> disk[q], out |-> <<>>]
<1>2. Pending' = Pending \cup {t} /\ t.kind = k /\ t.path = q
    BY SubmitPool
<1> HIDE DEF t
<1>3. /\ \A i \in ScanKind \ {k} : scan'[i] = scan[i]
      /\ SameWork([scan[k] EXCEPT !.todo = scan[k].todo \ {q}], scan'[k])
    BY SubmitWork
<1>4. CASE j # k
  <2>1. scan'[j] = scan[j] /\ SameView(j)
      BY <1>1, <1>3, <1>4 DEF SameView
  <2>2. QED
      BY <1>0, <1>1, <1>2, <2>1, OtherCarried, CarriedTracked
<1>5. CASE j = k /\ p # q
  <2>1. Carried(k, p)
      BY <1>1, <1>2, <1>3, <1>5, VisitCarried
  <2>2. QED
      BY <1>0, <1>5, <2>1, CarriedTracked
<1>6. CASE j = k /\ p = q
  <2>1. \E u \in Pending' : u.kind = j /\ u.path = p
      BY <1>2, <1>6
  <2>2. Followed(j, p)'
      BY <2>1 DEF Followed
  <2>3. QED
      BY <2>2, FollowedTracked
<1>7. QED
    BY <1>4, <1>5, <1>6

LEMMA RefuseFollowed ==
    ASSUME TypeOK, PoolInOrder, FilesFollowed, NEW k \in ScanKind, NEW q \in Path,
           Refuse(k, q)
    PROVE  FilesFollowed'
<1> SUFFICES ASSUME NEW j \in ScanKind, NEW p \in Path PROVE Tracked(j, p)'
    BY DEF FilesFollowed
<1>0. Tracked(j, p) /\ scan \in [ScanKind -> Scan]
    BY DEF TypeOK, FilesFollowed
<1>1. UNCHANGED <<nodes, disk, history>> /\ UNCHANGED poolVars
    BY DEF Refuse, dbVars
<1>2. Pending \subseteq Pending'
    BY <1>1, SamePool
<1> DEFINE v == Visited(k, q)
           b == pool # "open"
           i == Interrupt(v, k, b)
           w == [scan[k] EXCEPT !.todo = scan[k].todo \ {q}]
<1>3. /\ v \in [ScanKind -> Scan] /\ SameWork(w, v[k])
      /\ \A m \in ScanKind \ {k} : v[m] = scan[m]
    BY <1>0, VisitedType, VisitedWork
<1>4. scan' = Uncertain(i, k, {q}) /\ b \in BOOLEAN
    BY DEF Refuse, SubmitRefused
<1> HIDE DEF v, b
<1>5. i \in [ScanKind -> Scan] /\ SameWork(v[k], i[k])
      /\ \A m \in ScanKind \ {k} : i[m] = v[m]
    BY <1>3, <1>4, InterruptType, InterruptWork DEF Interrupt
<1> HIDE DEF i
<1>6. /\ SameWork(i[k], scan'[k]) /\ {q} \subseteq scan'[k].uncertain
      /\ \A m \in ScanKind \ {k} : scan'[m] = i[m]
    BY <1>4, <1>5, UncertainWork DEF Uncertain
<1> HIDE DEF w
<1>7. SameWork(w, scan'[k])
    BY <1>3, <1>5, <1>6, SameWorkTransitive
<1>8. CASE j # k
  <2>1. scan'[j] = scan[j] /\ SameView(j)
      BY <1>1, <1>3, <1>5, <1>6, <1>8 DEF SameView
  <2>2. QED
      BY <1>0, <1>1, <1>2, <2>1, OtherCarried, CarriedTracked
<1>9. CASE j = k /\ p # q
  <2>1. Carried(k, p)
      BY <1>1, <1>2, <1>7, <1>9, VisitCarried DEF w
  <2>2. QED
      BY <1>0, <1>9, <2>1, CarriedTracked
<1>10. CASE j = k /\ p = q
  <2>1. Followed(j, p)'
      BY <1>6, <1>10 DEF Followed
  <2>2. QED
      BY <2>1, FollowedTracked
<1>11. QED
    BY <1>8, <1>9, <1>10

LEMMA FlushTouchesFollowed ==
    ASSUME TypeOK, PoolInOrder, FilesFollowed, NEW k \in ScanKind, FlushTouches(k)
    PROVE  FilesFollowed'
<1> SUFFICES ASSUME NEW j \in ScanKind, NEW p \in Path PROVE Tracked(j, p)'
    BY DEF FilesFollowed
<1>0. /\ Tracked(j, p) /\ scan \in [ScanKind -> Scan] /\ scan[k] \in Scan
    BY DEF TypeOK, FilesFollowed
<1>1. UNCHANGED <<disk, history>> /\ UNCHANGED poolVars
    BY FlushTouchesCases
<1>2. Pending \subseteq Pending'
    BY <1>1, SamePool
<1>3. RowsCarried(j) /\ SameView(j)
    BY <1>1, FlushTouchesRows DEF SameView
<1> DEFINE s == TouchesFlushed(k)
           S == {x[2] : x \in scan[k].touch}
<1>4. /\ s \in [ScanKind -> Scan]
      /\ s[j] = IF j = k THEN [scan[k] EXCEPT !.touch = {}] ELSE scan[j]
    BY <1>0, TouchesFlushedWork
<1>5. \/ /\ scan' = Bump(s, Touched(k)) /\ nodes' = TouchedTable(k)
      \/ /\ scan' = Uncertain(s, k, S) /\ UNCHANGED dbVars
    BY FlushTouchesCases
<1> HIDE DEF s, S
<1>6. SameWork(s[j], scan'[j])
  <2>1. s \in [ScanKind -> Scan]
      BY <1>4
  <2>2. scan' = Bump(s, Touched(k)) \/ scan' = Uncertain(s, k, S)
      BY <1>5
  <2>3. QED
      BY <2>1, <2>2, BumpWork, UncertainWork
<1>7. CASE j # k
  <2>1. SameWork(scan[j], scan'[j])
      BY <1>4, <1>6, <1>7
  <2>2. QED
      BY <1>0, <1>2, <1>3, <2>1, SameWorkCarried, CarriedTracked
<1>8. CASE j = k
  <2> DEFINE z == [scan[k] EXCEPT !.touch = {}]
  <2>1. /\ z.phase = scan[k].phase /\ z.failed = scan[k].failed /\ z.todo = scan[k].todo
        /\ z.results = scan[k].results /\ z.buf = scan[k].buf
        /\ z.uncertain = scan[k].uncertain /\ z.stale = scan[k].stale
      BY <1>0 DEF Scan
  <2> HIDE DEF z
  <2>2. SameWork(z, scan'[k])
      BY <1>4, <1>6, <1>8 DEF z
  <2>3. /\ scan'[k].phase = scan[k].phase /\ scan'[k].failed = scan[k].failed
        /\ scan'[k].todo = scan[k].todo /\ scan'[k].results = scan[k].results
        /\ scan'[k].buf = scan[k].buf /\ scan[k].uncertain \subseteq scan'[k].uncertain
      BY <2>1, <2>2 DEF SameWork
  <2>4. SUFFICES ASSUME Sweeping(k)', p \in Here, p \in Present(k)', p \notin history'[k].blind
                 PROVE  Followed(k, p)'
      BY <1>8 DEF Tracked, Here
  <2>5. Followed(k, p)
    <3>1. Sweeping(k)
        BY <2>3, <2>4 DEF Sweeping
    <3>2. Present(k)' = Present(k)
        BY <1>3, <1>8, SameViewPresent
    <3>3. QED
        BY <1>0, <1>1, <1>8, <2>4, <3>1, <3>2 DEF Tracked
  <2>6. Unswept(k, p)' \subseteq Unswept(k, p)
      BY <1>3, <1>8, CarriedUnswept
  <2>7. Uncommitted(k)' = Uncommitted(k)
      BY <2>3 DEF Uncommitted, Elements
  <2>8. CASE \E x \in scan[k].touch : x[2] = p /\ Unswept(k, p) \subseteq {x[1]}
    <3>1. PICK x \in scan[k].touch : x[2] = p /\ Unswept(k, p) \subseteq {x[1]}
        BY <2>8
    <3>2. CASE scan' = Bump(s, Touched(k))
      <4>1. scan'[k].stale \cap Touched(k) = {}
          BY <1>4, <3>2, BumpWork
      <4>2. \A n \in Unswept(k, p)' : FALSE
        <5>1. TAKE n \in Unswept(k, p)'
        <5>2. n = x[1] /\ nodes[n].state = "ACTIVE" /\ n \in scan'[k].stale
            BY <2>6, <3>1 DEF Unswept
        <5>3. x \in TouchRows(k)
            BY <3>1, <5>2 DEF TouchRows, Live
        <5>4. n \in Touched(k)
            BY <5>2, <5>3 DEF Touched
        <5>5. QED
            BY <4>1, <5>2, <5>4
      <4>3. Unswept(k, p)' = {}
          BY <4>2
      <4>4. QED
          BY <4>3 DEF Followed
    <3>3. CASE scan' = Uncertain(s, k, S)
      <4>1. S \subseteq scan'[k].uncertain
          BY <1>4, <3>3, UncertainWork
      <4>2. p \in S
          BY <3>1 DEF S
      <4>3. QED
          BY <4>1, <4>2 DEF Followed
    <3>4. QED
        BY <1>5, <3>2, <3>3
  <2>9. CASE p \in scan[k].todo \/ p \in scan[k].uncertain
      BY <2>3, <2>9 DEF Followed
  <2>10. CASE \E t \in Pending : t.kind = k /\ t.path = p
    <3>1. \E t \in Pending' : t.kind = k /\ t.path = p
        BY <1>2, <2>10
    <3>2. QED
        BY <3>1 DEF Followed
  <2>11. CASE \E r \in Uncommitted(k) : r.path = p
    <3>1. \E r \in Uncommitted(k)' : r.path = p
        BY <2>7, <2>11
    <3>2. QED
        BY <3>1 DEF Followed
  <2>12. CASE Unswept(k, p) = {}
    <3>1. Unswept(k, p)' = {}
        BY <2>6, <2>12
    <3>2. QED
        BY <3>1 DEF Followed
  <2>13. QED
      BY <2>5, <2>8, <2>9, <2>10, <2>11, <2>12 DEF Followed
<1>9. QED
    BY <1>7, <1>8

\* The steps of the walk's goroutine that visit nothing.
LEMMA WalkFailsFollowed ==
    ASSUME TypeOK, PoolInOrder, FilesFollowed, NEW k \in ScanKind, WalkFails(k)
    PROVE  FilesFollowed'
<1> SUFFICES ASSUME NEW j \in ScanKind, NEW p \in Path PROVE Tracked(j, p)'
    BY DEF FilesFollowed
<1>0. /\ scan \in [ScanKind -> Scan] /\ scan[k] \in Scan /\ Tracked(j, p)
      /\ UNCHANGED <<nodes, disk, history>>
    BY DEF TypeOK, FilesFollowed, WalkFails, dbVars
<1>1. Pending \subseteq Pending' /\ SameView(j)
    BY <1>0, SamePool DEF WalkFails, SameView
<1>2. scan' = [scan EXCEPT ![k] = [scan[k] EXCEPT !.todo = {}, !.failed = TRUE,
                  !.interrupted = scan[k].interrupted \/ scan[k].cancelled]]
    BY DEF WalkFails
<1>3. CASE j = k
  <2>1. scan'[k].failed
      BY <1>0, <1>2 DEF Scan
  <2>2. QED
      BY <1>3, <2>1, GoneTracked DEF Sweeping
<1>4. CASE j # k
  <2>1. scan'[j] = scan[j]
      BY <1>0, <1>2, <1>4
  <2>2. QED
      BY <1>0, <1>1, <2>1, OtherCarried, CarriedTracked
<1>5. QED
    BY <1>3, <1>4

\* A change of phase, while the files are followed or for good.
LEMMA PhaseFollowed ==
    ASSUME TypeOK, PoolInOrder, FilesFollowed, UNCHANGED <<disk, nodes, history>>,
           UNCHANGED poolVars, NEW k \in ScanKind, NEW ph,
           Sweeping(k) \/ ph \notin {"walk", "wait", "closed"},
           scan' = [scan EXCEPT ![k].phase = ph]
    PROVE  FilesFollowed'
<1> SUFFICES ASSUME NEW j \in ScanKind, NEW p \in Path PROVE Tracked(j, p)'
    BY DEF FilesFollowed
<1>0. scan \in [ScanKind -> Scan] /\ scan[k] \in Scan /\ Tracked(j, p)
    BY DEF TypeOK, FilesFollowed
<1>1. Pending \subseteq Pending' /\ SameView(j)
    BY SamePool DEF SameView
<1>2. CASE j # k
  <2>1. scan'[j] = scan[j]
      BY <1>0, <1>2
  <2>2. QED
      BY <1>0, <1>1, <2>1, OtherCarried, CarriedTracked
<1>3. CASE j = k
  <2>1. scan'[k] = [scan[k] EXCEPT !.phase = ph]
      BY <1>0
  <2>2. /\ scan'[k].phase = ph /\ scan'[k].todo = scan[k].todo
        /\ scan'[k].touch = scan[k].touch /\ scan'[k].uncertain = scan[k].uncertain
        /\ scan'[k].results = scan[k].results /\ scan'[k].buf = scan[k].buf
        /\ scan'[k].stale = scan[k].stale
      BY <1>0, <2>1 DEF Scan
  <2>3. CASE ph \notin {"walk", "wait", "closed"}
      BY <1>3, <2>2, <2>3, GoneTracked DEF Sweeping
  <2>4. CASE Sweeping(k)
    <3>1. Uncommitted(k)' = Uncommitted(k)
        BY <2>2 DEF Uncommitted, Elements
    <3>2. RowsCarried(k)
        BY <2>2, SameRowsCarried
    <3>3. Unswept(k, p)' \subseteq Unswept(k, p)
        BY <3>2, CarriedUnswept
    <3>4. Present(k)' = Present(k)
        BY DEF Present
    <3>5. Carried(k, p)
        BY <1>1, <2>2, <2>4, <3>1, <3>3, <3>4 DEF Carried
    <3>6. QED
        BY <1>0, <1>3, <3>5, CarriedTracked
  <2>5. QED
      BY <2>3, <2>4
<1>4. QED
    BY <1>2, <1>3

LEMMA PhasesFollowed ==
    ASSUME TypeOK, PoolInOrder, FilesFollowed, NEW k \in ScanKind,
           WalkDone(k) \/ CloseResults(k) \/ SkipSweep(k)
    PROVE  FilesFollowed'
<1>0. scan[k] \in Scan /\ scan \in [ScanKind -> Scan]
    BY DEF TypeOK
<1>1. /\ UNCHANGED <<disk, nodes, history>> /\ UNCHANGED poolVars
      /\ \E ph \in {"wait", "closed", "end"} :
            /\ scan' = [scan EXCEPT ![k].phase = ph]
            /\ ph = "end" \/ scan[k].phase \in {"walk", "wait"}
    BY DEF WalkDone, CloseResults, SkipSweep, dbVars
<1>2. PICK ph \in {"wait", "closed", "end"} :
            /\ scan' = [scan EXCEPT ![k].phase = ph]
            /\ ph = "end" \/ scan[k].phase \in {"walk", "wait"}
    BY <1>1
<1>3. CASE Sweeping(k) \/ ph = "end"
    BY <1>1, <1>2, <1>3, PhaseFollowed
<1>4. CASE ~Sweeping(k) /\ ph # "end"
  <2> SUFFICES ASSUME NEW j \in ScanKind, NEW p \in Path PROVE Tracked(j, p)'
      BY DEF FilesFollowed
  <2>1. scan[k].failed
      BY <1>2, <1>4 DEF Sweeping
  <2>2. CASE j = k
    <3>1. scan'[k].failed
        BY <1>0, <1>2, <2>1 DEF Scan
    <3>2. QED
        BY <2>2, <3>1, GoneTracked DEF Sweeping
  <2>3. CASE j # k
    <3>1. scan'[j] = scan[j] /\ SameView(j) /\ Tracked(j, p)
        BY <1>0, <1>1, <1>2, <2>3 DEF SameView, FilesFollowed
    <3>2. Pending \subseteq Pending'
        BY <1>1, SamePool
    <3>3. QED
        BY <1>1, <3>1, <3>2, OtherCarried, CarriedTracked
  <2>4. QED
      BY <2>2, <2>3
<1>5. QED
    BY <1>3, <1>4

----------------------------------------------------------------------------
\* The files and the committer.

LEMMA ReceiveFollowed ==
    ASSUME TypeOK, PoolInOrder, FilesFollowed, NEW k \in ScanKind, Receive(k)
    PROVE  FilesFollowed'
<1> SUFFICES ASSUME NEW j \in ScanKind, NEW p \in Path PROVE Tracked(j, p)'
    BY DEF FilesFollowed
<1>0. /\ scan \in [ScanKind -> Scan] /\ scan[k] \in Scan /\ Tracked(j, p)
      /\ UNCHANGED <<nodes, disk, history>>
    BY DEF TypeOK, FilesFollowed, Receive, dbVars
<1>1. Pending \subseteq Pending' /\ SameView(j)
    BY <1>0, SamePool DEF Receive, SameView
<1> DEFINE s == [scan[k] EXCEPT !.results = Tail(scan[k].results),
                                !.buf = Append(scan[k].buf, Head(scan[k].results))]
<1>2. scan' = [scan EXCEPT ![k] = s] /\ scan[k].results # <<>>
    BY DEF Receive
<1>3. /\ s.phase = scan[k].phase /\ s.failed = scan[k].failed /\ s.todo = scan[k].todo
      /\ s.touch = scan[k].touch /\ s.uncertain = scan[k].uncertain
      /\ s.stale = scan[k].stale /\ s.results = Tail(scan[k].results)
      /\ s.buf = Append(scan[k].buf, Head(scan[k].results))
    BY <1>0 DEF Scan
<1> HIDE DEF s
<1>4. CASE j # k
  <2>1. scan'[j] = scan[j]
      BY <1>0, <1>2, <1>4
  <2>2. QED
      BY <1>0, <1>1, <2>1, OtherCarried, CarriedTracked
<1>5. CASE j = k
  <2>1. scan'[k] = s
      BY <1>0, <1>2
  <2>2. scan[k].results \in Seq(FileResult) /\ scan[k].buf \in Seq(FileResult)
      BY <1>0 DEF Scan
  <2>3. Head(scan[k].results) \in FileResult
      BY <1>2, <2>2
  <2>4. Elements(scan[k].results) = {Head(scan[k].results)} \cup Elements(s.results)
      BY <1>2, <1>3, <2>2, ElementsHeadTail
  <2>5. Elements(s.buf) = Elements(scan[k].buf) \cup {Head(scan[k].results)}
      BY <1>3, <2>2, <2>3, ElementsAppend
  <2>6. Elements(scan'[k].results) = Elements(s.results)
        /\ Elements(scan'[k].buf) = Elements(s.buf)
      BY <2>1
  <2>7. Uncommitted(k)' = Elements(scan'[k].results) \cup Elements(scan'[k].buf)
      BY DEF Uncommitted, Elements
  <2>8. Uncommitted(k) \subseteq Uncommitted(k)'
      BY <2>4, <2>5, <2>6, <2>7 DEF Uncommitted
  <2>9. Unswept(k, p)' \subseteq Unswept(k, p)
      BY <1>0, <1>3, <2>1, SameRowsCarried, CarriedUnswept
  <2>10. Present(k)' = Present(k) /\ history'[k].blind = history[k].blind
      BY <1>0 DEF Present
  <2>11. Carried(k, p)
      BY <1>1, <1>3, <2>1, <2>8, <2>9, <2>10 DEF Carried, Sweeping
  <2>12. QED
      BY <1>0, <1>5, <2>11, CarriedTracked
<1>6. QED
    BY <1>4, <1>5

\* A file of the batch is committed, and its row seen, or its path uncertain.
LEMMA FlushBatchFollowed ==
    ASSUME TypeOK, Schema(nodes), PoolInOrder, FilesFollowed,
           NEW k \in ScanKind, FlushBatch(k)
    PROVE  FilesFollowed'
<1> SUFFICES ASSUME NEW j \in ScanKind, NEW p \in Path PROVE Tracked(j, p)'
    BY DEF FilesFollowed
<1>0. scan \in [ScanKind -> Scan] /\ scan[k] \in Scan /\ Tracked(j, p)
    BY DEF TypeOK, FilesFollowed
<1>1. UNCHANGED <<disk, history>> /\ UNCHANGED poolVars
    BY FlushBatchCases
<1>2. Pending \subseteq Pending' /\ SameView(j)
    BY <1>1, SamePool DEF SameView
<1>3. /\ RowsCarried(j)
      /\ \/ {r.path : r \in Elements(scan[k].buf)} \subseteq scan'[k].uncertain
         \/ \A r \in Elements(scan[k].buf) : Unswept(j, r.path)' = {}
    BY FlushBatchRows
<1> DEFINE s == BatchFlushed(k)
           S == {r.path : r \in Elements(scan[k].buf)}
           T == CommitBatch(scan[k].buf).seen
<1>4. /\ s \in [ScanKind -> Scan]
      /\ s[j] = IF j = k THEN [scan[k] EXCEPT !.buf = <<>>] ELSE scan[j]
    BY <1>0, BatchFlushedWork
<1>5. scan' = Bump(s, T) \/ scan' = Uncertain(s, k, S)
    BY FlushBatchCases
<1> HIDE DEF s, S, T
<1>6. SameWork(s[j], scan'[j])
  <2>1. s \in [ScanKind -> Scan]
      BY <1>4
  <2>2. QED
      BY <1>5, <2>1, BumpWork, UncertainWork
<1>7. CASE j # k
  <2>1. SameWork(scan[j], scan'[j])
      BY <1>4, <1>6, <1>7
  <2>2. QED
      BY <1>0, <1>2, <1>3, <2>1, SameWorkCarried, CarriedTracked
<1>8. CASE j = k
  <2> DEFINE z == [scan[k] EXCEPT !.buf = <<>>]
  <2>1. /\ z.phase = scan[k].phase /\ z.failed = scan[k].failed /\ z.todo = scan[k].todo
        /\ z.results = scan[k].results /\ z.touch = scan[k].touch
        /\ z.uncertain = scan[k].uncertain /\ z.stale = scan[k].stale
      BY <1>0 DEF Scan
  <2> HIDE DEF z
  <2>2. SameWork(z, scan'[k])
      BY <1>4, <1>6, <1>8 DEF z
  <2>3. /\ scan'[k].phase = scan[k].phase /\ scan'[k].failed = scan[k].failed
        /\ scan'[k].todo = scan[k].todo /\ scan'[k].touch = scan[k].touch
        /\ scan'[k].results = scan[k].results
        /\ scan[k].uncertain \subseteq scan'[k].uncertain
      BY <2>1, <2>2 DEF SameWork
  <2>4. CASE \E r \in Elements(scan[k].buf) : r.path = p
    <3>1. PICK r \in Elements(scan[k].buf) : r.path = p
        BY <2>4
    <3>2. p \in scan'[k].uncertain \/ Unswept(k, p)' = {}
        BY <1>3, <1>8, <3>1
    <3>3. Followed(k, p)'
        BY <3>2 DEF Followed
    <3>4. QED
        BY <1>8, <3>3, FollowedTracked
  <2>5. CASE \A r \in Elements(scan[k].buf) : r.path # p
    <3>1. \A r \in Uncommitted(k) : r.path = p => r \in Elements(scan[k].results)
        BY <2>5 DEF Uncommitted
    <3>2. Elements(scan'[k].results) = Elements(scan[k].results)
        BY <2>3
    <3>3. Uncommitted(k)' = Elements(scan'[k].results) \cup Elements(scan'[k].buf)
        BY DEF Uncommitted, Elements
    <3>4. \A r \in Uncommitted(k) : r.path = p => r \in Uncommitted(k)'
        BY <3>1, <3>2, <3>3
    <3>5. Unswept(k, p)' \subseteq Unswept(k, p)
        BY <1>3, <1>8, CarriedUnswept
    <3>6. Present(k)' = Present(k) /\ history'[k].blind = history[k].blind
        BY <1>1 DEF Present
    <3>7. Carried(k, p)
        BY <1>2, <2>3, <3>4, <3>5, <3>6 DEF Carried, Sweeping
    <3>8. QED
        BY <1>0, <1>8, <3>7, CarriedTracked
  <2>6. QED
      BY <2>4, <2>5
<1>9. QED
    BY <1>7, <1>8

LEMMA SweepFollowed ==
    ASSUME TypeOK, PoolInOrder, FilesFollowed, NEW k \in ScanKind, Sweep(k)
    PROVE  FilesFollowed'
<1> SUFFICES ASSUME NEW j \in ScanKind, NEW p \in Path PROVE Tracked(j, p)'
    BY DEF FilesFollowed
<1>0. /\ scan \in [ScanKind -> Scan] /\ scan[k] \in Scan /\ Tracked(j, p)
      /\ history \in [ScanKind -> History] /\ history[k] \in History
    BY DEF TypeOK, FilesFollowed
<1>1. scan' = [scan EXCEPT ![k].phase = "end"] /\ UNCHANGED disk /\ UNCHANGED poolVars
    BY SweepCases
<1>2. CASE j = k
  <2>1. scan'[k].phase = "end"
      BY <1>0, <1>1 DEF Scan
  <2>2. QED
      BY <1>2, <2>1, GoneTracked DEF Sweeping
<1>3. CASE j # k
  <2>1. SameWork(scan[j], scan'[j])
      BY <1>0, <1>1, <1>3, UntouchedWork
  <2>2. history'[j] = history[j]
      BY <1>0, <1>3, SweepCases
  <2>3. SameView(j) /\ Pending \subseteq Pending'
      BY <1>1, <2>2, SamePool DEF SameView
  <2>4. RowsCarried(j)
      BY SweepRows
  <2>5. QED
      BY <1>0, <2>1, <2>3, <2>4, SameWorkCarried, CarriedTracked
<1>4. QED
    BY <1>2, <1>3

LEMMA EndFollowed ==
    ASSUME TypeOK, PoolInOrder, FilesFollowed, NEW k \in ScanKind, End(k)
    PROVE  FilesFollowed'
<1> SUFFICES ASSUME NEW j \in ScanKind, NEW p \in Path PROVE Tracked(j, p)'
    BY DEF FilesFollowed
<1>0. /\ scan \in [ScanKind -> Scan] /\ Tracked(j, p)
      /\ history \in [ScanKind -> History]
    BY DEF TypeOK, FilesFollowed
<1>1. scan' = [scan EXCEPT ![k] = Idle] /\ UNCHANGED <<disk, nodes>> /\ UNCHANGED poolVars
    BY DEF End, dbVars
<1>2. CASE j = k
  <2>1. scan'[k].phase = "idle"
      BY <1>0, <1>1 DEF Idle
  <2>2. QED
      BY <1>2, <2>1, GoneTracked DEF Sweeping
<1>3. CASE j # k
  <2>1. scan'[j] = scan[j]
      BY <1>0, <1>1, <1>3
  <2>2. history'[j] = history[j]
      BY <1>0, <1>3 DEF End
  <2>3. SameView(j) /\ Pending \subseteq Pending'
      BY <1>1, <2>2, SamePool DEF SameView
  <2>4. QED
      BY <1>0, <1>1, <2>1, <2>3, OtherCarried, CarriedTracked
<1>4. QED
    BY <1>2, <1>3

LEMMA CancelFollowed ==
    ASSUME TypeOK, PoolInOrder, FilesFollowed, NEW k \in ScanKind, Cancel(k)
    PROVE  FilesFollowed'
<1> SUFFICES ASSUME NEW j \in ScanKind, NEW p \in Path PROVE Tracked(j, p)'
    BY DEF FilesFollowed
<1>0. scan \in [ScanKind -> Scan] /\ scan[k] \in Scan /\ Tracked(j, p)
    BY DEF TypeOK, FilesFollowed
<1>1. /\ scan' = [scan EXCEPT ![k] = [scan[k] EXCEPT !.cancelled = TRUE]]
      /\ UNCHANGED <<disk, nodes, history>> /\ UNCHANGED poolVars
    BY DEF Cancel, dbVars
<1>2. SameWork(scan[j], scan'[j])
  <2>1. SameWork(scan[k], [scan[k] EXCEPT !.cancelled = TRUE])
      BY <1>0 DEF SameWork, Scan
  <2>2. CASE j = k
    <3>1. scan'[k] = [scan[k] EXCEPT !.cancelled = TRUE]
        BY <1>0, <1>1
    <3>2. QED
        BY <2>1, <2>2, <3>1
  <2>3. CASE j # k
      BY <1>0, <1>1, <2>3, UntouchedWork
  <2>4. QED
      BY <2>2, <2>3
<1>3. SameView(j) /\ Pending \subseteq Pending'
    BY <1>1, SamePool DEF SameView
<1>4. RowsCarried(j)
    BY <1>1, <1>2, SameRowsCarried DEF SameWork
<1>5. QED
    BY <1>0, <1>2, <1>3, <1>4, SameWorkCarried, CarriedTracked

----------------------------------------------------------------------------
\* The files and the pool.

\* A worker's task goes on, is answered, or its path is uncertain.
LEMMA WorkerFollowed ==
    ASSUME TypeOK, PoolInOrder, FilesFollowed, NEW t \in busy, Hash(t) \/ Send(t)
    PROVE  FilesFollowed'
<1> SUFFICES ASSUME NEW j \in ScanKind, NEW p \in Path PROVE Tracked(j, p)'
    BY DEF FilesFollowed
<1>0. t \in Task /\ t \in Pending /\ Tracked(j, p)
    BY DEF TypeOK, FilesFollowed, Pending
<1>1. UNCHANGED <<disk, nodes, history>>
    BY WorkerStep DEF dbVars
<1> DEFINE v == [t EXCEPT !.out = <<ProcessedTask(t)>>]
<1>2. v.kind = t.kind /\ v.path = t.path
    BY <1>0 DEF Task
<1> HIDE DEF v
<1>3. /\ scan'[j].phase = scan[j].phase /\ scan'[j].failed = scan[j].failed
      /\ scan'[j].todo = scan[j].todo /\ scan'[j].touch = scan[j].touch
      /\ scan[j].uncertain \subseteq scan'[j].uncertain
      /\ scan'[j].stale \subseteq scan[j].stale
      /\ Uncommitted(j) \subseteq Uncommitted(j)'
    BY WorkerWork
<1>4. \/ v \in Pending'
      \/ t.path \in scan'[t.kind].uncertain
      \/ \E r \in Uncommitted(t.kind)' : r.path = t.path
  <2>1. t.kind \in ScanKind
      BY <1>0 DEF Task
  <2>2. QED
      BY <2>1, WorkerWork DEF v
<1>5. Pending \subseteq Pending' \cup {t}
    BY WorkerPool
<1>6. CASE t.kind = j /\ t.path = p /\ v \notin Pending'
  <2>1. CASE p \in scan'[j].uncertain
      BY <2>1, FollowedTracked DEF Followed
  <2>2. CASE \E r \in Uncommitted(j)' : r.path = p
    <3>1. Followed(j, p)'
        BY <2>2 DEF Followed
    <3>2. QED
        BY <3>1, FollowedTracked
  <2>3. QED
      BY <1>4, <1>6, <2>1, <2>2
<1>7. CASE ~(t.kind = j /\ t.path = p /\ v \notin Pending')
  <2>1. ASSUME NEW u \in Pending, u.kind = j, u.path = p
        PROVE  \E w \in Pending' : w.kind = j /\ w.path = p
    <3>1. CASE u \in Pending'
        BY <2>1, <3>1
    <3>2. CASE u = t
        BY <1>2, <1>7, <2>1, <3>2
    <3>3. QED
        BY <1>5, <3>1, <3>2
  <2>2. Unswept(j, p)' \subseteq Unswept(j, p)
      BY <1>1, <1>3, SameRowsCarried, CarriedUnswept
  <2>3. Present(j)' = Present(j) /\ history'[j].blind = history[j].blind
      BY <1>1 DEF Present
  <2>4. Carried(j, p)
      BY <1>3, <2>1, <2>2, <2>3 DEF Carried, Sweeping
  <2>5. QED
      BY <1>0, <2>4, CarriedTracked
<1>8. QED
    BY <1>6, <1>7

\* Steps of the pool and of the process that touch no scan.
LEMMA IdleStepFollowed ==
    ASSUME FilesFollowed, UNCHANGED <<nodes, disk, scan, history>>,
           Pending \subseteq Pending'
    PROVE  FilesFollowed'
<1> SUFFICES ASSUME NEW j \in ScanKind, NEW p \in Path PROVE Tracked(j, p)'
    BY DEF FilesFollowed
<1>1. scan'[j] = scan[j] /\ SameView(j) /\ Tracked(j, p)
    BY DEF SameView, FilesFollowed
<1>2. QED
    BY <1>1, OtherCarried, CarriedTracked

LEMMA PoolFollowed ==
    ASSUME TypeOK, PoolInOrder, FilesFollowed,
           Dequeue \/ ClosePool \/ AbandonDone \/ Shutdown \/ Tick
    PROVE  FilesFollowed'
<1>1. UNCHANGED <<nodes, disk, scan, history>>
    BY DEF Dequeue, ClosePool, AbandonDone, Shutdown, Tick, dbVars
<1>2. Pending \subseteq Pending'
  <2>1. CASE Shutdown \/ Tick
    <3>1. UNCHANGED <<queue, busy, dropped>>
        BY <2>1 DEF Shutdown, Tick, poolVars
    <3>2. QED
        BY <3>1 DEF Pending, Elements
  <2>2. QED
      BY <2>1, DequeuePool, ClosePoolPool, AbandonDonePool
<1>3. QED
    BY <1>1, <1>2, IdleStepFollowed

\* The path of an abandoned task is recorded before the task is forgotten.
LEMMA AbandonRecordFollowed ==
    ASSUME TypeOK, PoolInOrder, FilesFollowed, AbandonRecord
    PROVE  FilesFollowed'
<1> SUFFICES ASSUME NEW j \in ScanKind, NEW p \in Path PROVE Tracked(j, p)'
    BY DEF FilesFollowed
<1> DEFINE t == Head(dropped)
<1>1. UNCHANGED <<nodes, disk, history>> /\ Tracked(j, p)
    BY DEF AbandonRecord, dbVars, FilesFollowed
<1>2. Pending \subseteq Pending' \cup {t}
    BY AbandonRecordPool
<1>3. SameWork(scan[j], scan'[j])
    BY AbandonRecordWork
<1>4. scan[t.kind].phase = "idle" \/ t.path \in scan'[t.kind].uncertain
    BY AbandonRecordWork
<1> HIDE DEF t
<1>5. CASE t.kind = j /\ t.path = p
  <2>1. CASE scan[j].phase = "idle"
    <3>1. scan'[j].phase = "idle"
        BY <1>3, <2>1 DEF SameWork
    <3>2. QED
        BY <3>1, GoneTracked DEF Sweeping
  <2>2. CASE p \in scan'[j].uncertain
      BY <2>2, FollowedTracked DEF Followed
  <2>3. QED
      BY <1>4, <1>5, <2>1, <2>2
<1>6. CASE ~(t.kind = j /\ t.path = p)
  <2>1. \A u \in Pending : u.kind = j /\ u.path = p =>
           \E w \in Pending' : w.kind = j /\ w.path = p
      BY <1>2, <1>6
  <2>2. Sweeping(j)' = Sweeping(j) /\ Uncommitted(j)' = Uncommitted(j)
      BY <1>3 DEF SameWork, Sweeping, Uncommitted, Elements
  <2>3. Unswept(j, p)' \subseteq Unswept(j, p)
      BY <1>1, <1>3, SameRowsCarried, CarriedUnswept DEF SameWork
  <2>4. Present(j)' = Present(j) /\ history'[j].blind = history[j].blind
      BY <1>1 DEF Present
  <2>5. Carried(j, p)
      BY <1>3, <2>1, <2>2, <2>3, <2>4 DEF Carried, SameWork
  <2>6. QED
      BY <1>1, <2>5, CarriedTracked
<1>7. QED
    BY <1>5, <1>6

----------------------------------------------------------------------------
\* The files and the rest of the world: what is written is followed no further.

LEMMA WrittenFollowed ==
    ASSUME TypeOK, FilesFollowed, UNCHANGED scan, Pending \subseteq Pending',
           NEW q \in Path, history' = Written(q),
           \A p \in Path \ {q} : disk'[p] = disk[p],
           \A j \in ScanKind : RowsCarried(j)
    PROVE  FilesFollowed'
<1> SUFFICES ASSUME NEW j \in ScanKind, NEW p \in Path PROVE Tracked(j, p)'
    BY DEF FilesFollowed
<1>0. history[j] \in History /\ Tracked(j, p)
    BY DEF TypeOK, FilesFollowed
<1>1. /\ history'[j].steady = history[j].steady \ {q}
      /\ history'[j].blind = history[j].blind
    BY <1>0 DEF Written, History
<1>2. CASE p = q
  <2>1. p \notin Present(j)'
      BY <1>1, <1>2 DEF Present
  <2>2. QED
      BY <2>1, GoneTracked
<1>3. CASE p # q
  <2>1. p \in Present(j)' => p \in Present(j)
      BY <1>1, <1>3 DEF Present
  <2>2. Sweeping(j)' = Sweeping(j) /\ Uncommitted(j)' = Uncommitted(j)
      BY DEF Sweeping, Uncommitted, Elements
  <2>3. Unswept(j, p)' \subseteq Unswept(j, p)
      BY CarriedUnswept
  <2>4. Carried(j, p)
      BY <1>1, <2>1, <2>2, <2>3 DEF Carried
  <2>5. QED
      BY <1>0, <2>4, CarriedTracked
<1>4. QED
    BY <1>2, <1>3

LEMMA OutsideFollowed ==
    ASSUME TypeOK, PoolInOrder, StaleExist, FilesFollowed,
           \/ \E p \in Path, f \in File : ExternalWrite(p, f)
           \/ \E p \in Path, x \in Content : Upload(p, x)
    PROVE  FilesFollowed'
<1>0. disk \in [Path -> File]
    BY DEF TypeOK
<1>1. ASSUME NEW p \in Path, NEW f \in File, ExternalWrite(p, f) PROVE FilesFollowed'
  <2>1. /\ UNCHANGED <<nodes, scan>> /\ UNCHANGED poolVars /\ history' = Written(p)
        /\ \A q \in Path \ {p} : disk'[q] = disk[q]
      BY <1>0, <1>1 DEF ExternalWrite, dbVars
  <2>2. Pending \subseteq Pending'
      BY <2>1, SamePool
  <2>3. \A j \in ScanKind : RowsCarried(j)
      BY <2>1, SameRowsCarried
  <2>4. QED
      BY <2>1, <2>2, <2>3, WrittenFollowed
<1>2. ASSUME NEW p \in Path, NEW x \in Content, Upload(p, x) PROVE FilesFollowed'
  <2>1. /\ UNCHANGED scan /\ UNCHANGED poolVars /\ history' = Written(p)
        /\ \A q \in Path \ {p} : disk'[q] = disk[q]
      BY <1>0, <1>2 DEF Upload
  <2>2. Pending \subseteq Pending'
      BY <2>1, SamePool
  <2>3. \A j \in ScanKind : RowsCarried(j)
      BY <1>2, UploadCarries
  <2>4. QED
      BY <2>1, <2>2, <2>3, WrittenFollowed
<1>3. QED
    BY <1>1, <1>2

LEMMA RestartFollowed ==
    ASSUME Restart
    PROVE  FilesFollowed'
<1>1. \A j \in ScanKind : scan'[j].phase = "idle"
    BY DEF Restart, Boot, Idle
<1>2. \A j \in ScanKind, p \in Path : Tracked(j, p)'
    BY <1>1, GoneTracked DEF Sweeping
<1>3. QED
    BY <1>2 DEF FilesFollowed

LEMMA FilesStayFollowed ==
    ASSUME TypeOK, Schema(nodes), PoolInOrder, StaleExist, FilesFollowed, Next
    PROVE  FilesFollowed'
<1>1. ASSUME NEW k \in ScanKind, NEW p \in Path,
             \/ VisitAbsent(k, p) \/ VisitUnreadable(k, p) \/ VisitUnchanged(k, p)
             \/ Submit(k, p) \/ Refuse(k, p)
      PROVE  FilesFollowed'
    BY <1>1, VisitFollowed, VisitUnchangedFollowed, SubmitFollowed, RefuseFollowed
<1>2. ASSUME NEW k \in ScanKind, Start(k) \/ FlushTouches(k) \/ WalkDone(k) \/ CloseResults(k)
                                 \/ WalkFails(k)
      PROVE  FilesFollowed'
    BY <1>2, StartFollowed, FlushTouchesFollowed, PhasesFollowed, WalkFailsFollowed
<1>3. ASSUME NEW k \in ScanKind, CommitStep(k) \/ Cancel(k) PROVE FilesFollowed'
    BY <1>3, ReceiveFollowed, FlushBatchFollowed, PhasesFollowed, SweepFollowed,
       EndFollowed, CancelFollowed DEF CommitStep
<1>4. ASSUME NEW k \in ScanKind, WalkStep(k) PROVE FilesFollowed'
    BY <1>1, <1>2, <1>4 DEF WalkStep
<1>5. CASE PoolStep \/ Shutdown \/ Tick
    BY <1>5, PoolFollowed, AbandonRecordFollowed DEF PoolStep
<1>6. QED
    BY <1>1, <1>2, <1>3, <1>4, <1>5, WorkerFollowed, OutsideFollowed, RestartFollowed
    DEF Next

----------------------------------------------------------------------------
\* The rows a sweep looks for, and the job rows.

\* Scan j is as much under way as before, and looks for no new row.
Ongoing(j) ==
    /\ scan'[j].phase = "idle" <=> scan[j].phase = "idle"
    /\ scan'[j].stale \subseteq scan[j].stale

SameJobs == UNCHANGED jobs /\ \A j \in ScanKind : history'[j].stuck = history[j].stuck

LEMMA SameWorkOngoing ==
    ASSUME NEW j, SameWork(scan[j], scan'[j])
    PROVE  Ongoing(j)
BY DEF Ongoing, SameWork

\* A step of scan k that gives it the record u.
LEMMA RecordOngoing ==
    ASSUME scan \in [ScanKind -> Scan], NEW k \in ScanKind, NEW u,
           scan' = [scan EXCEPT ![k] = u],
           u.phase = "idle" <=> scan[k].phase = "idle", u.stale \subseteq scan[k].stale
    PROVE  \A j \in ScanKind : Ongoing(j)
BY DEF Ongoing

LEMMA VisitOngoing ==
    ASSUME TypeOK, NEW k \in ScanKind, NEW p \in Path,
           \/ VisitAbsent(k, p) \/ VisitUnreadable(k, p)
           \/ VisitUnchanged(k, p) \/ Submit(k, p) \/ Refuse(k, p)
    PROVE  SameJobs /\ UNCHANGED nodes /\ \A j \in ScanKind : Ongoing(j)
<1>0. scan \in [ScanKind -> Scan] /\ scan[k] \in Scan /\ history \in [ScanKind -> History]
    BY DEF TypeOK
<1>1. UNCHANGED nodes /\ UNCHANGED jobs
    BY DEF VisitAbsent, VisitUnreadable, VisitUnchanged, Submit, Refuse, dbVars
<1>2. \A j \in ScanKind : history'[j].stuck = history[j].stuck
  <2>1. CASE VisitUnreadable(k, p)
    <3>1. history' = [history EXCEPT ![k] =
                        [history[k] EXCEPT !.blind = history[k].blind \cup {p}]]
        BY <2>1 DEF VisitUnreadable
    <3>2. history[k] \in History
        BY <1>0
    <3>3. [history[k] EXCEPT !.blind = history[k].blind \cup {p}].stuck = history[k].stuck
        BY <3>2 DEF History
    <3>4. QED
        BY <1>0, <3>1, <3>3
  <2>2. CASE ~VisitUnreadable(k, p)
      BY <2>2 DEF VisitAbsent, VisitUnchanged, Submit, Refuse
  <2>3. QED
      BY <2>1, <2>2
<1>3. CASE VisitAbsent(k, p) \/ VisitUnreadable(k, p)
  <2>1. scan' = [scan EXCEPT ![k] = [scan[k] EXCEPT !.todo = scan[k].todo \ {p}]]
      BY <1>3 DEF VisitAbsent, VisitUnreadable
  <2>2. /\ [scan[k] EXCEPT !.todo = scan[k].todo \ {p}].phase = scan[k].phase
        /\ [scan[k] EXCEPT !.todo = scan[k].todo \ {p}].stale = scan[k].stale
      BY <1>0 DEF Scan
  <2> DEFINE u == [scan[k] EXCEPT !.todo = scan[k].todo \ {p}]
  <2>3. scan' = [scan EXCEPT ![k] = u] /\ u.phase = scan[k].phase /\ u.stale = scan[k].stale
      BY <2>1, <2>2
  <2> HIDE DEF u
  <2>4. QED
      BY <1>0, <1>1, <1>2, <2>3, RecordOngoing DEF SameJobs
<1> DEFINE v == Visited(k, p)
           w == [scan[k] EXCEPT !.todo = scan[k].todo \ {p}]
<1>4. /\ v \in [ScanKind -> Scan] /\ v[k] \in Scan
      /\ \A j \in ScanKind \ {k} : v[j] = scan[j]
      /\ SameWork(w, v[k])
    BY <1>0, VisitedType, VisitedWork
<1>5. w.phase = scan[k].phase /\ w.stale = scan[k].stale
    BY <1>0 DEF Scan
<1>6. CASE VisitUnchanged(k, p)
  <2>1. PICK n : scan' = [v EXCEPT ![k].touch = @ \cup {<<n, p, disk[p]>>}]
      BY <1>6 DEF VisitUnchanged
  <2> HIDE DEF v, w
  <2>2. scan' = [v EXCEPT ![k] = [v[k] EXCEPT !.touch = v[k].touch \cup {<<n, p, disk[p]>>}]]
      BY <2>1
  <2>3. /\ [v[k] EXCEPT !.touch = v[k].touch \cup {<<n, p, disk[p]>>}].phase = v[k].phase
        /\ [v[k] EXCEPT !.touch = v[k].touch \cup {<<n, p, disk[p]>>}].stale = v[k].stale
      BY <1>4 DEF Scan
  <2>4. \A j \in ScanKind \ {k} : scan'[j] = scan[j]
      BY <1>4, <2>2
  <2>5. scan'[k].phase = scan[k].phase /\ scan'[k].stale \subseteq scan[k].stale
      BY <1>4, <1>5, <2>2, <2>3 DEF SameWork
  <2>6. QED
      BY <1>1, <1>2, <2>4, <2>5 DEF Ongoing, SameJobs
<1>7. CASE Submit(k, p)
  <2>1. /\ \A j \in ScanKind \ {k} : scan'[j] = scan[j]
        /\ SameWork(w, scan'[k])
      BY <1>7, SubmitWork
  <2> HIDE DEF v, w
  <2>2. QED
      BY <1>1, <1>2, <1>5, <2>1 DEF Ongoing, SameJobs, SameWork
<1>8. CASE Refuse(k, p)
  <2> DEFINE i == Interrupt(v, k, pool # "open")
  <2>1. scan' = Uncertain(i, k, {p})
      BY <1>8 DEF Refuse, SubmitRefused
  <2> HIDE DEF v, w
  <2>2. i \in [ScanKind -> Scan] /\ \A j \in ScanKind : SameWork(v[j], i[j])
    <3>1. (pool # "open") \in BOOLEAN
        OBVIOUS
    <3>2. QED
        BY <1>4, <3>1, InterruptType, InterruptWork
  <2> HIDE DEF i
  <2>3. \A j \in ScanKind : SameWork(v[j], scan'[j])
      BY <2>1, <2>2, UncertainWork, SameWorkTransitive
  <2>4. QED
      BY <1>1, <1>2, <1>4, <1>5, <2>3 DEF Ongoing, SameJobs, SameWork
<1>9. QED
    BY <1>3, <1>6, <1>7, <1>8

LEMMA WalkOngoing ==
    ASSUME TypeOK, NEW k \in ScanKind,
           \/ WalkFails(k) \/ WalkDone(k) \/ CloseResults(k)
           \/ Receive(k) \/ SkipSweep(k) \/ Cancel(k)
    PROVE  SameJobs /\ UNCHANGED nodes /\ \A j \in ScanKind : Ongoing(j)
<1>0. scan \in [ScanKind -> Scan] /\ scan[k] \in Scan
    BY DEF TypeOK
<1>1. SameJobs /\ UNCHANGED nodes
    BY DEF WalkFails, WalkDone, CloseResults, Receive, SkipSweep, Cancel, dbVars, SameJobs
<1>2. \E u : /\ scan' = [scan EXCEPT ![k] = u]
             /\ u.phase = "idle" <=> scan[k].phase = "idle"
             /\ u.stale = scan[k].stale
  <2>1. CASE WalkFails(k)
    <3> DEFINE u == [scan[k] EXCEPT !.todo = {}, !.failed = TRUE,
                       !.interrupted = scan[k].interrupted \/ scan[k].cancelled]
    <3>1. scan' = [scan EXCEPT ![k] = u]
        BY <2>1 DEF WalkFails
    <3>2. u.phase = scan[k].phase /\ u.stale = scan[k].stale
        BY <1>0 DEF Scan
    <3> HIDE DEF u
    <3>3. QED
        BY <3>1, <3>2
  <2>2. CASE WalkDone(k) \/ CloseResults(k) \/ SkipSweep(k)
    <3>1. PICK ph \in {"wait", "closed", "end"} :
             scan' = [scan EXCEPT ![k] = [scan[k] EXCEPT !.phase = ph]]
        BY <2>2 DEF WalkDone, CloseResults, SkipSweep
    <3>2. scan[k].phase # "idle"
        BY <2>2 DEF WalkDone, CloseResults, SkipSweep, AllCommitted
    <3> DEFINE u == [scan[k] EXCEPT !.phase = ph]
    <3>3. u.phase = ph /\ u.stale = scan[k].stale /\ scan' = [scan EXCEPT ![k] = u]
        BY <1>0, <3>1 DEF Scan
    <3> HIDE DEF u
    <3>4. QED
        BY <3>1, <3>2, <3>3
  <2>3. CASE Receive(k)
    <3> DEFINE u == [scan[k] EXCEPT !.results = Tail(scan[k].results),
                                    !.buf = Append(scan[k].buf, Head(scan[k].results))]
    <3>1. scan' = [scan EXCEPT ![k] = u]
        BY <2>3 DEF Receive
    <3>2. u.phase = scan[k].phase /\ u.stale = scan[k].stale
        BY <1>0 DEF Scan
    <3> HIDE DEF u
    <3>3. QED
        BY <3>1, <3>2
  <2>4. CASE Cancel(k)
    <3> DEFINE u == [scan[k] EXCEPT !.cancelled = TRUE]
    <3>1. scan' = [scan EXCEPT ![k] = u]
        BY <2>4 DEF Cancel
    <3>2. u.phase = scan[k].phase /\ u.stale = scan[k].stale
        BY <1>0 DEF Scan
    <3> HIDE DEF u
    <3>3. QED
        BY <3>1, <3>2
  <2>5. QED
      BY <2>1, <2>2, <2>3, <2>4
<1>3. QED
    BY <1>0, <1>1, <1>2, RecordOngoing

LEMMA FlushScan ==
    ASSUME TypeOK, NEW k \in ScanKind, FlushTouches(k) \/ FlushBatch(k)
    PROVE  \A j \in ScanKind : /\ scan'[j].phase = scan[j].phase
                               /\ scan'[j].stale \subseteq scan[j].stale
<1>0. scan \in [ScanKind -> Scan] /\ scan[k] \in Scan
    BY DEF TypeOK
<1>1. PICK s, S :
        /\ s \in [ScanKind -> Scan]
        /\ scan' = Bump(s, S) \/ scan' = Uncertain(s, k, S)
        /\ \A j \in ScanKind : s[j].phase = scan[j].phase /\ s[j].stale = scan[j].stale
  <2>1. CASE FlushTouches(k)
    <3> DEFINE s == TouchesFlushed(k)
               S == {x[2] : x \in scan[k].touch}
    <3>1. scan' = Bump(s, Touched(k)) \/ scan' = Uncertain(s, k, S)
        BY <2>1, FlushTouchesCases
    <3>2. /\ s \in [ScanKind -> Scan]
          /\ \A j \in ScanKind : s[j] = IF j = k THEN [scan[k] EXCEPT !.touch = {}]
                                        ELSE scan[j]
        BY <1>0, TouchesFlushedWork
    <3>3. /\ [scan[k] EXCEPT !.touch = {}].phase = scan[k].phase
          /\ [scan[k] EXCEPT !.touch = {}].stale = scan[k].stale
        BY <1>0 DEF Scan
    <3> HIDE DEF s, S
    <3>4. QED
        BY <3>1, <3>2, <3>3
  <2>2. CASE FlushBatch(k)
    <3> DEFINE s == BatchFlushed(k)
               S == {r.path : r \in Elements(scan[k].buf)}
               T == CommitBatch(scan[k].buf).seen
    <3>1. scan' = Bump(s, T) \/ scan' = Uncertain(s, k, S)
        BY <2>2, FlushBatchCases
    <3>2. /\ s \in [ScanKind -> Scan]
          /\ \A j \in ScanKind : s[j] = IF j = k THEN [scan[k] EXCEPT !.buf = <<>>]
                                        ELSE scan[j]
        BY <1>0, BatchFlushedWork
    <3>3. /\ [scan[k] EXCEPT !.buf = <<>>].phase = scan[k].phase
          /\ [scan[k] EXCEPT !.buf = <<>>].stale = scan[k].stale
        BY <1>0 DEF Scan
    <3> HIDE DEF s, S, T
    <3>4. QED
        BY <3>1, <3>2, <3>3
  <2>3. QED
      BY <2>1, <2>2
<1>2. \A j \in ScanKind : SameWork(s[j], scan'[j])
    BY <1>1, BumpWork, UncertainWork
<1>3. QED
    BY <1>1, <1>2 DEF SameWork

LEMMA FlushOngoing ==
    ASSUME TypeOK, Schema(nodes), NEW k \in ScanKind,
           FlushTouches(k) \/ FlushBatch(k) \/ Sweep(k)
    PROVE  SameJobs /\ RowsKept /\ \A j \in ScanKind : Ongoing(j)
<1>0. /\ scan \in [ScanKind -> Scan] /\ scan[k] \in Scan
      /\ history \in [ScanKind -> History]
    BY DEF TypeOK
<1>1. RowsKept
    BY FlushTouchesRows, FlushBatchRows, SweepRows
<1>2. CASE FlushTouches(k) \/ FlushBatch(k)
  <2>1. SameJobs
      BY <1>2, FlushTouchesCases, FlushBatchCases DEF SameJobs
  <2>2. QED
      BY <1>1, <1>2, <2>1, FlushScan DEF Ongoing
<1>4. CASE Sweep(k)
  <2>1. scan' = [scan EXCEPT ![k] = [scan[k] EXCEPT !.phase = "end"]]
      BY <1>4, SweepCases
  <2> DEFINE u == [scan[k] EXCEPT !.phase = "end"]
  <2>2. u.phase = "end" /\ u.stale = scan[k].stale /\ scan' = [scan EXCEPT ![k] = u]
      BY <1>0, <2>1 DEF Scan
  <2> HIDE DEF u
  <2>3. scan[k].phase = "closed" /\ UNCHANGED jobs
      BY <1>4, SweepCases DEF AllCommitted
  <2>4. \A j \in ScanKind : Ongoing(j)
      BY <1>0, <2>2, <2>3, RecordOngoing
  <2>5. \A j \in ScanKind : history'[j].stuck = history[j].stuck
    <3>1. \/ history' = history
          \/ history' = [history EXCEPT ![k] = [history[k] EXCEPT !.unswept = TRUE]]
        BY <1>4, SweepCases
    <3>2. history[k] \in History
        BY <1>0
    <3>3. [history[k] EXCEPT !.unswept = TRUE].stuck = history[k].stuck
        BY <3>2 DEF History
    <3>4. QED
        BY <1>0, <3>1, <3>3
  <2>6. QED
      BY <1>1, <2>3, <2>4, <2>5 DEF SameJobs
<1>5. QED
    BY <1>2, <1>4

LEMMA PoolOngoing ==
    ASSUME TypeOK, PoolInOrder,
           PoolStep \/ Shutdown \/ Tick \/ \E t \in busy : Hash(t) \/ Send(t)
    PROVE  SameJobs /\ UNCHANGED nodes /\ \A j \in ScanKind : Ongoing(j)
<1>1. CASE Dequeue \/ ClosePool \/ AbandonDone \/ Shutdown \/ Tick
    BY <1>1 DEF Dequeue, ClosePool, AbandonDone, Shutdown, Tick, dbVars, SameJobs, Ongoing
<1>2. CASE AbandonRecord
  <2>1. SameJobs /\ UNCHANGED nodes
      BY <1>2 DEF AbandonRecord, dbVars, SameJobs
  <2>2. \A j \in ScanKind : Ongoing(j)
      BY <1>2, AbandonRecordWork, SameWorkOngoing
  <2>3. QED
      BY <2>1, <2>2
<1>3. ASSUME NEW t \in busy, Hash(t) \/ Send(t)
      PROVE  SameJobs /\ UNCHANGED nodes /\ \A j \in ScanKind : Ongoing(j)
  <2>1. SameJobs /\ UNCHANGED nodes
      BY <1>3, WorkerStep DEF dbVars, SameJobs
  <2>2. \A j \in ScanKind : Ongoing(j)
      BY <1>3, WorkerWork DEF Ongoing
  <2>3. QED
      BY <2>1, <2>2
<1>4. QED
    BY <1>1, <1>2, <1>3 DEF PoolStep

LEMMA OutsideOngoing ==
    ASSUME TypeOK, StaleExist,
           \/ \E p \in Path, f \in File : ExternalWrite(p, f)
           \/ \E p \in Path, x \in Content : Upload(p, x)
    PROVE  SameJobs /\ RowsKept /\ \A j \in ScanKind : Ongoing(j)
<1>1. \E p : history' = Written(p)
    BY DEF ExternalWrite, Upload
<1>2. UNCHANGED <<jobs, scan>>
    BY DEF ExternalWrite, Upload
<1>3. \A j \in ScanKind : history[j] \in History
    BY DEF TypeOK
<1>4. SameJobs
    BY <1>1, <1>2, <1>3 DEF SameJobs, Written, History
<1>5. RowsKept
  <2>1. ASSUME NEW p \in Path, NEW f \in File, ExternalWrite(p, f) PROVE RowsKept
      BY <2>1 DEF ExternalWrite, dbVars, RowsKept
  <2>2. ASSUME NEW p \in Path, NEW x \in Content, Upload(p, x) PROVE RowsKept
    <3>1. \A m \in Node \ {NextId(nodes)} : nodes'[m].state = nodes[m].state
        BY <2>2, UploadRows
    <3>2. NextId(nodes) \in FreeIds(nodes)
        BY <2>2, UploadRows
    <3>3. QED
        BY <3>1, <3>2 DEF RowsKept, FreeIds, Exists
  <2>3. QED
      BY <2>1, <2>2
<1>6. QED
    BY <1>2, <1>4, <1>5 DEF Ongoing

\* Every step but the beginning and the end of a scan, and a start of the
\* program.
LEMMA OtherwiseOngoing ==
    ASSUME TypeOK, Schema(nodes), PoolInOrder, StaleExist, Next,
           \A k \in ScanKind : ~Start(k) /\ ~End(k), ~Restart
    PROVE  SameJobs /\ RowsKept /\ \A j \in ScanKind : Ongoing(j)
<1>0. UNCHANGED nodes => RowsKept
    BY DEF RowsKept
<1>1. ASSUME NEW k \in ScanKind, NEW p \in Path,
             \/ VisitAbsent(k, p) \/ VisitUnreadable(k, p)
             \/ VisitUnchanged(k, p) \/ Submit(k, p) \/ Refuse(k, p)
      PROVE  SameJobs /\ RowsKept /\ \A j \in ScanKind : Ongoing(j)
    BY <1>0, <1>1, VisitOngoing
<1>2. ASSUME NEW k \in ScanKind,
             \/ WalkFails(k) \/ WalkDone(k) \/ CloseResults(k)
             \/ Receive(k) \/ SkipSweep(k) \/ Cancel(k)
      PROVE  SameJobs /\ RowsKept /\ \A j \in ScanKind : Ongoing(j)
    BY <1>0, <1>2, WalkOngoing
<1>3. ASSUME NEW k \in ScanKind, FlushTouches(k) \/ FlushBatch(k) \/ Sweep(k)
      PROVE  SameJobs /\ RowsKept /\ \A j \in ScanKind : Ongoing(j)
    BY <1>3, FlushOngoing
<1>4. ASSUME NEW k \in ScanKind, WalkStep(k) \/ CommitStep(k)
      PROVE  SameJobs /\ RowsKept /\ \A j \in ScanKind : Ongoing(j)
    BY <1>1, <1>2, <1>3, <1>4 DEF WalkStep, CommitStep
<1>5. CASE PoolStep \/ Shutdown \/ Tick \/ \E t \in busy : Hash(t) \/ Send(t)
    BY <1>0, <1>5, PoolOngoing
<1>6. CASE \/ \E p \in Path, f \in File : ExternalWrite(p, f)
           \/ \E p \in Path, x \in Content : Upload(p, x)
    BY <1>6, OutsideOngoing
<1>7. QED
    BY <1>1, <1>2, <1>4, <1>5, <1>6 DEF Next

LEMMA StartEffect ==
    ASSUME TypeOK, NEW k \in ScanKind, Start(k)
    PROVE  /\ UNCHANGED nodes
           /\ scan'[k].phase = "walk" /\ \A n \in scan'[k].stale : Exists(nodes[n])
           /\ jobs'[k] = "RUNNING" /\ ~history'[k].stuck
           /\ \A j \in ScanKind \ {k} : /\ scan'[j] = scan[j] /\ jobs'[j] = jobs[j]
                                        /\ history'[j].stuck = history[j].stuck
<1>0. /\ scan \in [ScanKind -> Scan] /\ history \in [ScanKind -> History]
      /\ jobs \in [ScanKind -> {"NONE", "RUNNING", "COMPLETED", "CANCELLED", "FAILED"}]
    BY DEF TypeOK
<1>1. UNCHANGED nodes /\ jobs' = [jobs EXCEPT ![k] = "RUNNING"]
    BY DEF Start, dbVars
<1> DEFINE S == {n \in Node : Exists(nodes[n])} \ fresh
<1>2. scan' = [scan EXCEPT ![k] =
                 [Idle EXCEPT !.phase = "walk", !.todo = Here, !.stale = S]]
    BY DEF Start
<1> HIDE DEF S
<1>3. scan'[k].phase = "walk" /\ scan'[k].stale = S
    BY <1>0, <1>2 DEF Idle
<1>4. \A j \in ScanKind \ {k} : scan'[j] = scan[j]
    BY <1>0, <1>2
<1>5. \A j \in ScanKind \ {k} : history'[j] = [history[j] EXCEPT !.alone = FALSE]
    BY DEF Start
<1>6. \A j \in ScanKind \ {k} : history'[j].stuck = history[j].stuck
    BY <1>0, <1>5, ZenonT(60) DEF History
<1>7. ~history'[k].stuck
    BY DEF Start
<1>8. \A n \in S : Exists(nodes[n])
    BY DEF S
<1>9. QED
    BY <1>0, <1>1, <1>3, <1>4, <1>6, <1>7, <1>8

LEMMA EndEffect ==
    ASSUME TypeOK, NEW k \in ScanKind, End(k)
    PROVE  /\ UNCHANGED nodes
           /\ scan' = [scan EXCEPT ![k] = Idle]
           /\ \/ jobs'[k] # "RUNNING" /\ history'[k].stuck = history[k].stuck
              \/ jobs'[k] = jobs[k] /\ history'[k].stuck
           /\ scan[k].phase = "end"
           /\ \A j \in ScanKind \ {k} : /\ jobs'[j] = jobs[j]
                                        /\ history'[j].stuck = history[j].stuck
<1>0. /\ history \in [ScanKind -> History] /\ history[k] \in History
      /\ jobs \in [ScanKind -> {"NONE", "RUNNING", "COMPLETED", "CANCELLED", "FAILED"}]
    BY DEF TypeOK
<1>1. UNCHANGED nodes /\ scan' = [scan EXCEPT ![k] = Idle] /\ scan[k].phase = "end"
    BY DEF End, dbVars
<1>2. \/ /\ jobs' = [jobs EXCEPT ![k] = JobState(scan[k])] /\ UNCHANGED history
      \/ /\ history' = [history EXCEPT ![k] = [history[k] EXCEPT !.stuck = TRUE]]
         /\ UNCHANGED jobs
    BY DEF End
<1>3. JobState(scan[k]) # "RUNNING"
    BY DEF JobState
<1> DEFINE h == [history[k] EXCEPT !.stuck = TRUE]
<1>4. h.stuck
    BY <1>0 DEF History
<1> HIDE DEF h
<1>5. CASE jobs' = [jobs EXCEPT ![k] = JobState(scan[k])] /\ UNCHANGED history
  <2>1. jobs'[k] # "RUNNING" /\ \A j \in ScanKind \ {k} : jobs'[j] = jobs[j]
      BY <1>0, <1>3, <1>5
  <2>2. QED
      BY <1>1, <1>5, <2>1
<1>6. CASE history' = [history EXCEPT ![k] = h] /\ UNCHANGED jobs
  <2>1. history'[k].stuck /\ \A j \in ScanKind \ {k} : history'[j] = history[j]
      BY <1>0, <1>4, <1>6
  <2>2. QED
      BY <1>1, <1>6, <2>1
<1>7. QED
    BY <1>2, <1>5, <1>6 DEF h

LEMMA StaleStillExist ==
    ASSUME TypeOK, Schema(nodes), PoolInOrder, StaleExist, Next
    PROVE  StaleExist'
<1>0. /\ scan \in [ScanKind -> Scan]
      /\ \A j \in ScanKind : scan[j].stale \subseteq Node
    BY DEF TypeOK, Scan
<1>1. ASSUME NEW k \in ScanKind, Start(k) PROVE StaleExist'
  <2>1. /\ UNCHANGED nodes /\ \A n \in scan'[k].stale : Exists(nodes[n])
        /\ \A j \in ScanKind \ {k} : scan'[j] = scan[j]
      BY <1>1, StartEffect
  <2>2. QED
      BY <2>1 DEF StaleExist
<1>2. ASSUME NEW k \in ScanKind, End(k) PROVE StaleExist'
  <2>1. UNCHANGED nodes /\ scan' = [scan EXCEPT ![k] = Idle] /\ Idle.stale = {}
      BY <1>2, EndEffect DEF Idle
  <2>2. \A j \in ScanKind : scan'[j].stale = {} \/ scan'[j].stale = scan[j].stale
      BY <1>0, <2>1
  <2>3. QED
      BY <2>1, <2>2 DEF StaleExist
<1>3. CASE Restart
  <2>1. \A j \in ScanKind : scan'[j].stale = {}
      BY <1>3 DEF Restart, Boot, Idle
  <2>2. QED
      BY <2>1 DEF StaleExist
<1>4. CASE (\A k \in ScanKind : ~Start(k) /\ ~End(k)) /\ ~Restart
  <2>1. RowsKept /\ \A j \in ScanKind : Ongoing(j)
      BY <1>4, OtherwiseOngoing
  <2>2. QED
      BY <1>0, <2>1 DEF StaleExist, RowsKept, Ongoing
<1>5. QED
    BY <1>1, <1>2, <1>3, <1>4

LEMMA JobsStayTrue ==
    ASSUME TypeOK, SweepInv, JobInv, Next
    PROVE  JobInv'
<1> SUFFICES ASSUME NEW j \in ScanKind
             PROVE  /\ jobs'[j] = "RUNNING"
                         <=> scan'[j].phase # "idle" \/ history'[j].stuck
                    /\ history'[j].stuck => scan'[j].phase = "idle"
    BY DEF JobInv, ScanHasJob, StuckIdle
<1>0. /\ scan \in [ScanKind -> Scan]
      /\ jobs[j] = "RUNNING" <=> scan[j].phase # "idle" \/ history[j].stuck
      /\ history[j].stuck => scan[j].phase = "idle"
    BY DEF TypeOK, JobInv, ScanHasJob, StuckIdle
<1>1. ASSUME NEW k \in ScanKind, Start(k)
      PROVE  /\ jobs'[j] = "RUNNING"
                  <=> scan'[j].phase # "idle" \/ history'[j].stuck
             /\ history'[j].stuck => scan'[j].phase = "idle"
  <2>1. CASE j = k
      BY <1>1, <2>1, StartEffect
  <2>2. CASE j # k
    <3>1. /\ scan'[j] = scan[j] /\ jobs'[j] = jobs[j]
          /\ history'[j].stuck = history[j].stuck
        BY <1>1, <2>2, StartEffect
    <3>2. QED
        BY <1>0, <3>1
  <2>3. QED
      BY <2>1, <2>2
<1>2. ASSUME NEW k \in ScanKind, End(k)
      PROVE  /\ jobs'[j] = "RUNNING"
                  <=> scan'[j].phase # "idle" \/ history'[j].stuck
             /\ history'[j].stuck => scan'[j].phase = "idle"
  <2>1. scan' = [scan EXCEPT ![k] = Idle] /\ Idle.phase = "idle"
      BY <1>2, EndEffect DEF Idle
  <2>2. CASE j = k
    <3>1. scan'[k].phase = "idle" /\ scan[k].phase = "end"
        BY <1>0, <1>2, <2>1, EndEffect
    <3>2. jobs[k] = "RUNNING" /\ ~history[k].stuck
        BY <1>0, <2>2, <3>1
    <3>3. \/ jobs'[k] # "RUNNING" /\ history'[k].stuck = history[k].stuck
          \/ jobs'[k] = jobs[k] /\ history'[k].stuck
        BY <1>2, EndEffect
    <3>4. QED
        BY <2>2, <3>1, <3>2, <3>3
  <2>3. CASE j # k
    <3>1. scan'[j] = scan[j]
        BY <1>0, <2>1, <2>3
    <3>2. jobs'[j] = jobs[j] /\ history'[j].stuck = history[j].stuck
        BY <1>2, <2>3, EndEffect
    <3>3. QED
        BY <1>0, <3>1, <3>2
  <2>4. QED
      BY <2>2, <2>3
<1>3. CASE Restart
  <2>1. /\ scan'[j].phase = "idle" /\ jobs'[j] = Reconciled(jobs[j])
        /\ history'[j] = [history[j] EXCEPT !.stuck = FALSE]
      BY <1>3 DEF Restart, Boot, Idle
  <2>2. jobs'[j] # "RUNNING"
      BY <2>1 DEF Reconciled
  <2>3. ~history'[j].stuck
      BY <2>1 DEF TypeOK, History
  <2>4. QED
      BY <2>1, <2>2, <2>3
<1>4. CASE (\A k \in ScanKind : ~Start(k) /\ ~End(k)) /\ ~Restart
  <2>1. SameJobs /\ Ongoing(j)
      BY <1>4, OtherwiseOngoing DEF SweepInv
  <2>2. QED
      BY <1>0, <2>1 DEF SameJobs, Ongoing
<1>5. QED
    BY <1>1, <1>2, <1>3, <1>4

----------------------------------------------------------------------------
\* The invariants of the scan job.

LEMMA TypeSteps ==
    ASSUME TypeOK, Schema(nodes), PoolInOrder, Next
    PROVE  TypeOK' /\ Schema(nodes)'
<1>0. UNCHANGED nodes => Schema(nodes)'
    BY DEF Schema, LivePathUnique, LiveFullHashUnique, SupersededIsArchived
<1>1. ASSUME NEW k \in ScanKind, NEW p \in Path,
             \/ VisitAbsent(k, p) \/ VisitUnreadable(k, p)
             \/ VisitUnchanged(k, p) \/ Submit(k, p) \/ Refuse(k, p)
      PROVE  TypeOK' /\ Schema(nodes)'
    BY <1>0, <1>1, VisitType, VisitOngoing
<1>2. ASSUME NEW k \in ScanKind,
             \/ WalkFails(k) \/ WalkDone(k) \/ CloseResults(k)
             \/ Receive(k) \/ SkipSweep(k) \/ Cancel(k)
      PROVE  TypeOK' /\ Schema(nodes)'
    BY <1>0, <1>2, StepOfWalkType, ReceiveType, EndType, WalkOngoing
<1>3. ASSUME NEW k \in ScanKind, FlushTouches(k) \/ FlushBatch(k) \/ Sweep(k)
      PROVE  TypeOK' /\ Schema(nodes)'
    BY <1>3, FlushTouchesType, FlushBatchType, SweepType
<1>4. ASSUME NEW k \in ScanKind, Start(k) \/ End(k)
      PROVE  TypeOK' /\ Schema(nodes)'
    BY <1>0, <1>4, StartType, EndType, StartEffect, EndEffect
<1>5. ASSUME NEW k \in ScanKind, WalkStep(k) \/ CommitStep(k)
      PROVE  TypeOK' /\ Schema(nodes)'
    BY <1>1, <1>2, <1>3, <1>4, <1>5 DEF WalkStep, CommitStep
<1>6. CASE PoolStep \/ \E t \in busy : Hash(t) \/ Send(t)
    BY <1>0, <1>6, PoolType, WorkerType, PoolOngoing
<1>7. CASE Tick \/ Shutdown \/ Restart
  <2>1. UNCHANGED nodes
      BY <1>7 DEF Tick, Shutdown, Restart, Boot, dbVars
  <2>2. QED
      BY <1>0, <1>7, <2>1, ProcessType
<1>8. CASE \/ \E p \in Path, f \in File : ExternalWrite(p, f)
           \/ \E p \in Path, x \in Content : Upload(p, x)
    BY <1>8, OutsideType
<1>9. QED
    BY <1>1, <1>2, <1>4, <1>5, <1>6, <1>7, <1>8 DEF Next

LEMMA InvInit == Init => TypeOK /\ SweepInv /\ JobInv
<1> SUFFICES ASSUME Init PROVE TypeOK /\ SweepInv /\ JobInv
    OBVIOUS
<1>1. TypeOK /\ Schema(nodes)
    BY InitType
<1>2. /\ scan = [k \in ScanKind |-> Idle]
      /\ \A k \in ScanKind : jobs[k] = "NONE" /\ ~history[k].stuck
      /\ queue = <<>> /\ busy = {} /\ dropped = <<>> /\ released = FALSE
    BY DEF Init
<1>3. \A k \in ScanKind :
        /\ scan[k].phase = "idle" /\ scan[k].todo = {} /\ scan[k].touch = {}
        /\ scan[k].stale = {}
    BY <1>2 DEF Idle
<1>4. Pending = {}
    BY <1>2, NoElements DEF Pending
<1>5. PoolInOrder
    BY <1>2, <1>4 DEF PoolInOrder
<1>6. StaleExist /\ WalkOver /\ FilesFollowed
    BY <1>3 DEF StaleExist, WalkOver, Over, FilesFollowed, Tracked, Sweeping
<1>7. JobInv
    BY <1>2, <1>3 DEF JobInv, ScanHasJob, StuckIdle
<1>8. QED
    BY <1>1, <1>5, <1>6, <1>7 DEF SweepInv

LEMMA InvStep == TypeOK /\ SweepInv /\ JobInv /\ [Next]_vars => (TypeOK /\ SweepInv /\ JobInv)'
<1> SUFFICES ASSUME TypeOK, SweepInv, JobInv, [Next]_vars
             PROVE  (TypeOK /\ SweepInv /\ JobInv)'
    OBVIOUS
<1>0. Schema(nodes) /\ StaleExist /\ PoolInOrder /\ WalkOver /\ FilesFollowed
    BY DEF SweepInv
<1>1. CASE Next
  <2>1. TypeOK' /\ Schema(nodes)'
      BY <1>0, <1>1, TypeSteps
  <2>2. StaleExist' /\ PoolInOrder' /\ WalkOver'
      BY <1>0, <1>1, StaleStillExist, PoolStaysInOrder, WalkStaysOver
  <2>3. FilesFollowed'
      BY <1>0, <1>1, FilesStayFollowed
  <2>4. JobInv'
      BY <1>1, JobsStayTrue
  <2>5. QED
      BY <2>1, <2>2, <2>3, <2>4 DEF SweepInv
<1>2. CASE UNCHANGED vars
  <2>1. UNCHANGED <<nodes, stat, fresh, disk, jobs, scan, queue, busy, dropped, released,
                    pool, history, mishaps>>
      BY <1>2 DEF vars, dbVars, poolVars
  <2>2. TypeOK'
      BY <2>1 DEF TypeOK
  <2>3. Schema(nodes)'
      BY <1>0, <2>1 DEF Schema, LivePathUnique, LiveFullHashUnique, SupersededIsArchived
  <2>4. PoolInOrder' /\ UNCHANGED Pending /\ UNCHANGED Tokens
      BY <1>0, <1>2, SamePool DEF vars
  <2>5. StaleExist' /\ JobInv'
      BY <1>0, <2>1 DEF StaleExist, JobInv, ScanHasJob, StuckIdle
  <2>6. WalkOver'
      BY <1>0, <2>1, <2>4 DEF WalkOver, Over
  <2>7. FilesFollowed'
      BY <1>0, <2>1, <2>4, IdleStepFollowed
  <2>8. QED
      BY <2>2, <2>3, <2>4, <2>5, <2>6, <2>7 DEF SweepInv
<1>3. QED
    BY <1>1, <1>2

\* Only scan k's own sweep ends it in a step that marks a row MISSING.
LEMMA SweptIsUnseen ==
    ASSUME TypeOK, SweepInv, [Next]_vars, NEW k \in ScanKind, NEW n \in Swept(k)
    PROVE  Sweep(k) /\ n \in Unseen(k)
<1>0. /\ scan \in [ScanKind -> Scan] /\ Schema(nodes) /\ PoolInOrder
      /\ nodes \in Table
    BY DEF TypeOK, SweepInv
<1>1. /\ n \in Node /\ scan[k].phase = "closed" /\ scan'[k].phase = "end"
      /\ nodes[n].state = "ACTIVE" /\ nodes'[n].state = "MISSING"
    BY DEF Swept
<1>2. nodes' # nodes /\ scan' # scan
    BY <1>1
<1>3. Next
    BY <1>2 DEF vars, dbVars
<1>4. ASSUME NEW j \in ScanKind, NEW p \in Path,
             \/ VisitAbsent(j, p) \/ VisitUnreadable(j, p)
             \/ VisitUnchanged(j, p) \/ Submit(j, p) \/ Refuse(j, p)
      PROVE  FALSE
    BY <1>2, <1>4, VisitOngoing
<1>5. ASSUME NEW j \in ScanKind,
             \/ WalkFails(j) \/ WalkDone(j) \/ CloseResults(j)
             \/ Receive(j) \/ SkipSweep(j) \/ Cancel(j) \/ Start(j) \/ End(j)
      PROVE  FALSE
    BY <1>2, <1>5, WalkOngoing, StartEffect, EndEffect
<1>6. ASSUME NEW j \in ScanKind, FlushTouches(j) \/ FlushBatch(j)
      PROVE  FALSE
    BY <1>1, <1>6, FlushScan
<1>7. CASE PoolStep \/ \E t \in busy : Hash(t) \/ Send(t)
    BY <1>0, <1>2, <1>7, PoolOngoing
<1>8. CASE Tick \/ Shutdown \/ Restart
    BY <1>2, <1>8 DEF Tick, Shutdown, Restart, Boot, dbVars
<1>9. CASE \/ \E p \in Path, f \in File : ExternalWrite(p, f)
           \/ \E p \in Path, x \in Content : Upload(p, x)
    BY <1>2, <1>9 DEF ExternalWrite, Upload
<1>10. PICK j \in ScanKind : Sweep(j)
    BY <1>3, <1>4, <1>5, <1>6, <1>7, <1>8, <1>9 DEF Next, WalkStep, CommitStep
<1>11. scan' = [scan EXCEPT ![j].phase = "end"] /\ nodes' = SweptTable(j)
    BY <1>2, <1>10, SweepCases
<1>12. j = k
    BY <1>0, <1>1, <1>11
<1>13. n \in Unseen(k)
    BY <1>0, <1>1, <1>11, <1>12, SweptRows
<1>14. QED
    BY <1>10, <1>12, <1>13

\* A row the sweep marks is at a path that was written, could not be read, or
\* whose task is just being abandoned: every other path is still followed.
LEMMA SweepSparesStep ==
    ASSUME TypeOK, SweepInv, [Next]_vars, NEW k \in ScanKind, NEW n \in Swept(k)
    PROVE  \/ nodes[n].path \notin Present(k)
           \/ nodes[n].path \in history[k].blind \cup Losing
<1> DEFINE p == nodes[n].path
<1> SUFFICES ASSUME p \in Present(k), p \notin history[k].blind
             PROVE  p \in Losing
    OBVIOUS
<1>0. /\ scan[k] \in Scan /\ dropped \in Seq(Task) /\ PoolInOrder /\ Over(k)
      /\ history[k].steady \subseteq Path
    BY DEF TypeOK, SweepInv, WalkOver, History
<1>1. Sweep(k) /\ n \in Unseen(k)
    BY SweptIsUnseen
<1>2. /\ AllCommitted(k) /\ ~scan[k].failed
    BY <1>1, SweepCases
<1>3. /\ n \in Unswept(k, p) /\ p \notin scan[k].uncertain /\ p \in Here
    BY <1>0, <1>1 DEF Unseen, Unswept, Here, Present
<1>4. Followed(k, p)
  <2>1. Tracked(k, p)
      BY <1>0 DEF SweepInv, FilesFollowed, Present
  <2>2. QED
      BY <1>2, <1>3, <2>1 DEF Tracked, Sweeping, AllCommitted
<1>5. scan[k].todo = {} /\ scan[k].touch = {} /\ \A t \in Tokens : t.kind # k
    BY <1>0, <1>2 DEF Over, AllCommitted
<1>6. Uncommitted(k) = {}
    BY <1>2, NoElements DEF Uncommitted, AllCommitted
<1> HIDE DEF p
<1>7. PICK t \in Pending : t.kind = k /\ t.path = p
    BY <1>3, <1>4, <1>5, <1>6 DEF Followed
<1>8. t \notin Tokens
    BY <1>5, <1>7
<1>9. released /\ dropped # <<>>
    BY <1>0, <1>7, <1>8 DEF PoolInOrder, Pending, Tokens
<1>10. Elements(dropped) = {Head(dropped)} \cup Elements(Tail(dropped))
    BY <1>0, <1>9, ElementsHeadTail
<1>11. t = Head(dropped)
    BY <1>7, <1>8, <1>9, <1>10 DEF Pending, Tokens
<1>12. QED
    BY <1>7, <1>9, <1>11 DEF Losing

----------------------------------------------------------------------------
\* Every variable holds a value of its kind, however the steps of the two
\* scans, the pool and the rest of the program interleave.
THEOREM IngestType == Spec => []TypeOK
<1>1. TypeOK /\ SweepInv /\ JobInv => TypeOK
    OBVIOUS
<1>2. QED
    BY <1>1, InvInit, InvStep, PTL DEF Spec

\* A location is refused a scan (AlreadyRunning) exactly while one runs, or
\* while this process could not write how the last one ended.
THEOREM JobsFollowScans == Spec => []ScanHasJob
<1>1. TypeOK /\ SweepInv /\ JobInv => ScanHasJob
    BY DEF JobInv
<1>2. QED
    BY <1>1, InvInit, InvStep, PTL DEF Spec

\* The partial unique indexes and the check of media_nodes hold of every table
\* that scans, uploads and sweeps leave behind.
THEOREM ScansKeepSchema == Spec => []Schema(nodes)
<1>1. TypeOK /\ SweepInv /\ JobInv => Schema(nodes)
    BY DEF SweepInv
<1>2. QED
    BY <1>1, InvInit, InvStep, PTL DEF Spec

\* MarkUnseenNodesMissing marks no row whose file was there throughout the
\* scan, whatever failed, was refused, abandoned or cancelled meanwhile, but at
\* an entry the walk could not read and at the task being abandoned just then.
THEOREM SweepSpares == Spec => SweepSparesFiles
<1>1. TypeOK /\ SweepInv /\ [Next]_vars =>
        \A k \in ScanKind : \A n \in Swept(k) :
           \/ nodes[n].path \notin Present(k)
           \/ nodes[n].path \in history[k].blind \cup Losing
    BY SweepSparesStep
<1>2. TypeOK /\ SweepInv /\ JobInv /\ [Next]_vars =>
        [\A k \in ScanKind : \A n \in Swept(k) :
           \/ nodes[n].path \notin Present(k)
           \/ nodes[n].path \in history[k].blind \cup Losing]_vars
    BY <1>1
<1>3. QED
    BY <1>2, InvInit, InvStep, PTL DEF Spec, SweepSparesFiles
=============================================================================
