---------------------------- MODULE Commit_proofs ----------------------------
(***************************************************************************)
(* What a scan result may and may not do to a row, for every table, every  *)
(* result and every value of the constants: the branches of CommitOne keep *)
(* the table's type, and no row enters or leaves the trash, leaves the     *)
(* archive or is deleted, because a file was scanned.                      *)
(***************************************************************************)
EXTENDS Commit, TLAPS, WellFoundedInduction

\* A result, whatever else it records (FileResult).
Hashed(r) == r.path \in Path /\ r.fast \in FastHash /\ r.full \in FullHash

\* A nonempty set of ids has a least one: NextId and Oldest are defined.
LEMMA LeastExists ==
    ASSUME NEW S \in SUBSET Nat, S # {}
    PROVE  \E x \in S : \A y \in S : x <= y
<1> DEFINE R == {ss \in Nat \X Nat : ss[1] < ss[2]}
<1>1. IsWellFoundedOn(R, Nat)
    BY NatLessThanWellFounded DEF OpToRel
<1>2. PICK x \in S : \A y \in S : ~ (<<y, x>> \in R)
  <2> HIDE DEF R
  <2> QED BY <1>1, WFMin
<1>3. \A y \in S : ~ (y < x)
    BY <1>2
<1>4. QED
    BY <1>3

LEMMA NextIdFree ==
    ASSUME NEW t \in Table, FreeIds(t) # {}
    PROVE  NextId(t) \in FreeIds(t)
<1>1. FreeIds(t) \in SUBSET Nat
    BY NodeStoreAssumption DEF FreeIds, Node
<1>2. \E x \in FreeIds(t) : \A y \in FreeIds(t) : x <= y
    BY <1>1, LeastExists
<1>3. QED
    BY <1>2 DEF NextId

LEMMA OldestIn ==
    ASSUME NEW S \in SUBSET Node, S # {}
    PROVE  Oldest(S) \in S
<1>1. S \in SUBSET Nat
    BY NodeStoreAssumption DEF Node
<1>2. \E x \in S : \A y \in S : x <= y
    BY <1>1, LeastExists
<1>3. QED
    BY <1>2 DEF Oldest

----------------------------------------------------------------------------
\* The statements, one by one.

LEMMA NoProvenanceType == NoProvenance \in [src : Source, hash : FullHash]
BY DEF NoProvenance, Source, FullHash

LEMMA InsertKeeps ==
    ASSUME NEW t \in Table, FreeIds(t) # {}, NEW p \in Path, NEW f \in FastHash,
           NEW h \in FullHash
    PROVE  /\ InsertMediaNode(t, p, f, h, NoProvenance) \in Table
           /\ KeepsRetired(t, InsertMediaNode(t, p, f, h, NoProvenance))
           /\ InsertMediaNode(t, p, f, h, NoProvenance)[NextId(t)].state = "ACTIVE"
<1>1. NextId(t) \in Node /\ t[NextId(t)].state = "NONE"
    BY NextIdFree DEF FreeIds, Exists
<1>2. 0 \in 0..MaxNode
    BY NodeStoreAssumption
<1>3. QED
    BY <1>1, <1>2, NoProvenanceType
    DEF InsertMediaNode, Table, Row, LifecycleState, KeepsRetired

\* A row may be given any live state unless it is retired, and archived unless
\* it is in the trash.
LEMMA SetStateKeeps ==
    ASSUME NEW t \in Table, NEW n \in Node, NEW s \in LifecycleState,
           s \notin {"TRASHED", "NONE"}, t[n].state # "TRASHED",
           t[n].state = "ARCHIVED" => s = "ARCHIVED"
    PROVE  SetState(t, n, s) \in Table /\ KeepsRetired(t, SetState(t, n, s))
BY DEF SetState, Table, Row, KeepsRetired

LEMMA SetSupersededByKeeps ==
    ASSUME NEW t \in Table, NEW n \in Node, NEW m \in Node
    PROVE  /\ SetSupersededBy(t, n, m) \in Table
           /\ KeepsRetired(t, SetSupersededBy(t, n, m))
<1>1. m \in 0..MaxNode
    BY NodeStoreAssumption DEF Node
<1>2. QED
    BY <1>1 DEF SetSupersededBy, Table, Row, KeepsRetired

LEMMA TouchKeeps ==
    ASSUME NEW t \in Table, NEW n \in Node
    PROVE  TouchMediaNode(t, n) \in Table /\ KeepsRetired(t, TouchMediaNode(t, n))
BY SetStateKeeps DEF TouchMediaNode, LifecycleState, KeepsRetired

LEMMA RebaseKeeps ==
    ASSUME NEW t \in Table, NEW n \in Node, NEW p \in Path
    PROVE  /\ RebaseMissingNodePath(t, n, p) \in Table
           /\ KeepsRetired(t, RebaseMissingNodePath(t, n, p))
BY ZenonT(60) DEF RebaseMissingNodePath, Live, Table, Row, LifecycleState, KeepsRetired

LEMMA UpdateFullHashKeeps ==
    ASSUME NEW t \in Table, NEW n \in Node, NEW h \in FullHash
    PROVE  /\ UpdateMediaNodeFullHash(t, n, h) \in Table
           /\ KeepsRetired(t, UpdateMediaNodeFullHash(t, n, h))
BY DEF UpdateMediaNodeFullHash, Table, Row, KeepsRetired

LEMMA RecordSourceKeeps ==
    ASSUME NEW t \in Table, NEW n \in Node, NEW h \in FullHash
    PROVE  /\ RecordFullHashSource(t, n, h, "SERVER") \in Table
           /\ KeepsRetired(t, RecordFullHashSource(t, n, h, "SERVER"))
           /\ \A m \in Node :
                RecordFullHashSource(t, n, h, "SERVER")[m].state = t[m].state
BY DEF RecordFullHashSource, Table, Row, Source, KeepsRetired

LEMMA ClearKeeps ==
    ASSUME NEW t \in Table, NEW n \in Node
    PROVE  /\ ClearDisprovedFullHash(t, n) \in Table
           /\ KeepsRetired(t, ClearDisprovedFullHash(t, n))
<1>1. NoHash \in FullHash /\ t[n] \in Row
    BY DEF FullHash, Table
<1>2. QED
    BY <1>1, NoProvenanceType DEF ClearDisprovedFullHash, Table, Row, KeepsRetired

LEMMA KeepsTransitive ==
    ASSUME NEW t, NEW u, NEW v, KeepsRetired(t, u), KeepsRetired(u, v)
    PROVE  KeepsRetired(t, v)
BY DEF KeepsRetired

----------------------------------------------------------------------------
\* The branches of commitOne.

LEMMA InsertNewNodeKeeps ==
    ASSUME NEW t \in Table, FreeIds(t) # {}, NEW r, Hashed(r)
    PROVE  /\ InsertNewNode(t, r) \in Table
           /\ KeepsRetired(t, InsertNewNode(t, r))
           /\ NextId(t) \in Node
           /\ InsertNewNode(t, r)[NextId(t)].state = "ACTIVE"
<1> DEFINE u == InsertMediaNode(t, r.path, r.fast, r.full, NoProvenance)
<1>1. NextId(t) \in Node
    BY NextIdFree DEF FreeIds
<1>2. r.path \in Path /\ r.fast \in FastHash /\ r.full \in FullHash
    BY DEF Hashed
<1>3. u \in Table /\ KeepsRetired(t, u) /\ u[NextId(t)].state = "ACTIVE"
    BY <1>2, InsertKeeps
<1>4. InsertNewNode(t, r) = RecordFullHashSource(u, NextId(t), r.full, "SERVER")
    BY DEF InsertNewNode
<1> HIDE DEF u
<1>5. QED
    BY <1>1, <1>2, <1>3, <1>4, RecordSourceKeeps, KeepsTransitive

LEMMA TouchSeenKeeps ==
    ASSUME NEW t \in Table, NEW n \in Node, NEW r, Hashed(r)
    PROVE  TouchSeen(t, n, r).nodes \in Table /\ KeepsRetired(t, TouchSeen(t, n, r).nodes)
<1> DEFINE touched == TouchMediaNode(t, n)
           hashed  == UpdateMediaNodeFullHash(touched, n, r.full)
<1>1. r.full \in FullHash
    BY DEF Hashed
<1>2. touched \in Table /\ KeepsRetired(t, touched)
    BY TouchKeeps
<1>3. hashed \in Table /\ KeepsRetired(t, hashed)
  <2> HIDE DEF touched
  <2> QED BY <1>1, <1>2, UpdateFullHashKeeps, KeepsTransitive
<1>4. \/ TouchSeen(t, n, r).nodes = touched
      \/ TouchSeen(t, n, r).nodes = RecordFullHashSource(touched, n, r.full, "SERVER")
      \/ TouchSeen(t, n, r).nodes = ClearDisprovedFullHash(touched, n)
      \/ TouchSeen(t, n, r).nodes = RecordFullHashSource(hashed, n, r.full, "SERVER")
    BY DEF TouchSeen, Outcome
<1> HIDE DEF touched, hashed
<1>5. QED
    BY <1>1, <1>2, <1>3, <1>4, RecordSourceKeeps, ClearKeeps, KeepsTransitive

LEMMA SupersedeKeeps ==
    ASSUME NEW t \in Table, NEW n \in Node, Live(t[n]), FreeIds(t) # {},
           NEW r, Hashed(r)
    PROVE  Supersede(t, n, r).nodes \in Table /\ KeepsRetired(t, Supersede(t, n, r).nodes)
<1> DEFINE archived == ArchiveMediaNode(t, n)
           inserted == InsertNewNode(archived, r)
           linked   == SetSupersededBy(inserted, n, NextId(archived))
<1>1. archived \in Table /\ KeepsRetired(t, archived)
    BY SetStateKeeps DEF ArchiveMediaNode, Live, LifecycleState
<1>2. FreeIds(archived) # {}
    BY DEF FreeIds, Exists, ArchiveMediaNode, SetState, Live, Table
<1>3. \/ Supersede(t, n, r).nodes = archived
      \/ Supersede(t, n, r).nodes = linked
    BY DEF Supersede, Outcome
<1>4. /\ inserted \in Table /\ KeepsRetired(t, inserted)
      /\ NextId(archived) \in Node
  <2> HIDE DEF archived
  <2> QED BY <1>1, <1>2, InsertNewNodeKeeps, KeepsTransitive
<1>5. linked \in Table /\ KeepsRetired(t, linked)
  <2> HIDE DEF archived, inserted
  <2> QED BY <1>4, SetSupersededByKeeps, KeepsTransitive
<1>6. QED
    BY <1>1, <1>3, <1>5

LEMMA ArchivedSuccessorKeeps ==
    ASSUME NEW t \in Table, NEW n \in Node, FreeIds(t) # {}, NEW r, Hashed(r)
    PROVE  /\ ArchivedSuccessor(t, n, r).nodes \in Table
           /\ KeepsRetired(t, ArchivedSuccessor(t, n, r).nodes)
<1> DEFINE inserted == InsertNewNode(t, r)
           archived == ArchiveMediaNode(inserted, NextId(t))
           linked   == SetSupersededBy(archived, n, NextId(t))
<1>1. /\ inserted \in Table /\ KeepsRetired(t, inserted)
      /\ NextId(t) \in Node /\ inserted[NextId(t)].state = "ACTIVE"
    BY InsertNewNodeKeeps
<1>2. archived \in Table /\ KeepsRetired(t, archived)
  <2> HIDE DEF inserted
  <2> QED BY <1>1, SetStateKeeps, KeepsTransitive DEF ArchiveMediaNode, LifecycleState
<1>3. linked \in Table /\ KeepsRetired(t, linked)
  <2> HIDE DEF archived
  <2> QED BY <1>1, <1>2, SetSupersededByKeeps, KeepsTransitive
<1>4. \/ ArchivedSuccessor(t, n, r).nodes = t
      \/ ArchivedSuccessor(t, n, r).nodes = linked
    BY DEF ArchivedSuccessor, Outcome, Unchanged
<1>5. QED
    BY <1>3, <1>4 DEF KeepsRetired

LEMMA RebaseMovedKeeps ==
    ASSUME NEW t \in Table, NEW n \in Node, NEW r, Hashed(r)
    PROVE  RebaseMoved(t, n, r).nodes \in Table /\ KeepsRetired(t, RebaseMoved(t, n, r).nodes)
<1> DEFINE rebased == RebaseMissingNodePath(t, n, r.path)
           hashed  == UpdateMediaNodeFullHash(rebased, n, r.full)
<1>1. r.full \in FullHash /\ r.path \in Path
    BY DEF Hashed
<1>2. rebased \in Table /\ KeepsRetired(t, rebased)
    BY <1>1, RebaseKeeps
<1>3. hashed \in Table /\ KeepsRetired(t, hashed)
  <2> HIDE DEF rebased
  <2> QED BY <1>1, <1>2, UpdateFullHashKeeps, KeepsTransitive
<1>4. \/ RebaseMoved(t, n, r).nodes = t
      \/ RebaseMoved(t, n, r).nodes = rebased
      \/ RebaseMoved(t, n, r).nodes = RecordFullHashSource(hashed, n, r.full, "SERVER")
    BY DEF RebaseMoved, Outcome, Unchanged
<1>5. KeepsRetired(t, t)
    BY DEF KeepsRetired
<1> HIDE DEF rebased, hashed
<1>6. QED
    BY <1>1, <1>2, <1>3, <1>4, <1>5, RecordSourceKeeps, KeepsTransitive

LEMMA CommitNoLiveNodeKeeps ==
    ASSUME NEW t \in Table, FreeIds(t) # {}, NEW r, Hashed(r)
    PROVE  /\ CommitNoLiveNode(t, r).nodes \in Table
           /\ KeepsRetired(t, CommitNoLiveNode(t, r).nodes)
<1>1. \/ /\ LatestAt(t, r.path) # {}
         /\ CommitNoLiveNode(t, r) = ArchivedSuccessor(t, Oldest(LatestAt(t, r.path)), r)
      \/ CommitNoLiveNode(t, r) = Unchanged(t)
      \/ /\ MoveCandidates(t, r) # {}
         /\ CommitNoLiveNode(t, r) = RebaseMoved(t, Oldest(MoveCandidates(t, r)), r)
      \/ CommitNoLiveNode(t, r) = Outcome({}, InsertNewNode(t, r), {NextId(t)})
    BY DEF CommitNoLiveNode
<1>2. /\ LatestAt(t, r.path) \in SUBSET Node
      /\ MoveCandidates(t, r) \in SUBSET Node
    BY DEF LatestAt, MoveCandidates, MissingWithFast
<1>3. KeepsRetired(t, t)
    BY DEF KeepsRetired
<1>4. /\ Unchanged(t).nodes = t
      /\ Outcome({}, InsertNewNode(t, r), {NextId(t)}).nodes = InsertNewNode(t, r)
    BY DEF Unchanged, Outcome
<1>5. QED
    BY <1>1, <1>2, <1>3, <1>4, OldestIn, ArchivedSuccessorKeeps, RebaseMovedKeeps,
       InsertNewNodeKeeps

\* Whatever a scan finds at a path (commitOne), no row enters or leaves the
\* trash, none in it moves to another path, no row leaves the archive and none is
\* deleted.
THEOREM CommitKeepsRetired ==
    ASSUME NEW t \in Table, FreeIds(t) # {}, NEW r, Hashed(r)
    PROVE  /\ CommitOne(t, r).nodes \in Table
           /\ KeepsRetired(t, CommitOne(t, r).nodes)
<1> DEFINE n == Oldest(LiveAt(t, r.path))
<1>1. \/ CommitOne(t, r) = CommitNoLiveNode(t, r)
      \/ LiveAt(t, r.path) # {} /\ CommitOne(t, r) = TouchSeen(t, n, r)
      \/ LiveAt(t, r.path) # {} /\ CommitOne(t, r) = Supersede(t, n, r)
    BY DEF CommitOne
<1>2. LiveAt(t, r.path) # {} => n \in Node /\ Live(t[n])
  <2>1. LiveAt(t, r.path) \in SUBSET Node
    BY DEF LiveAt
  <2>2. LiveAt(t, r.path) # {} => n \in LiveAt(t, r.path)
    BY <2>1, OldestIn
  <2>3. QED
    BY <2>2 DEF LiveAt
<1> HIDE DEF n
<1>3. QED
    BY <1>1, <1>2, CommitNoLiveNodeKeeps, TouchSeenKeeps, SupersedeKeeps
=============================================================================
