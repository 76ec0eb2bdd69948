---------------------------- MODULE Upkeep_proofs ----------------------------
(***************************************************************************)
(* Theorems about Upkeep, for every library, lineage, set of duties and    *)
(* bounds its assumptions allow: a purge that nothing changes a file       *)
(* beside unlinks what it planned, and leaves a master of it whose file is *)
(* the version its verified hash names.                                    *)
(***************************************************************************)
EXTENDS Upkeep, Commit_proofs, FiniteSetTheorems

\* Masters are hashed; devices and people do nothing beside a scan.
Apart ==
    /\ FullHashPolicy # "never"
    /\ \A d \in Duties : "scan" \in d => "device" \notin d /\ "person" \notin d

----------------------------------------------------------------------------
\* What a commit leaves of a table t is u, with the rows seen described anew by
\* the result r: no other row gains a place or a hash.
Sees(t, u, seen, r) ==
    \A m \in Node :
       IF m \in seen
         THEN Live(u[m]) /\ LocOf[u[m].path] \in Tier3 => u[m].full \in {NoHash, r.stat}
         ELSE Live(u[m]) => Live(t[m]) /\ u[m].path = t[m].path /\ u[m].full = t[m].full

\* A result of a scan.
Scanned(r) == Hashed(r) /\ r.full \in {NoHash, r.stat} /\ r.stat \in Content

\* One that carries no hash and is of a master repeats what the live row at its
\* path says.
Covered(t, r) ==
    r.full = NoHash /\ LocOf[r.path] \in Tier3 =>
       /\ LiveAt(t, r.path) # {}
       /\ \A m \in LiveAt(t, r.path) : t[m].full \in {NoHash, r.stat}

LEMMA RecordSame ==
    ASSUME NEW t \in Table, NEW n \in Node, NEW h, NEW src
    PROVE  \A m \in Node :
              /\ RecordFullHashSource(t, n, h, src)[m].state = t[m].state
              /\ RecordFullHashSource(t, n, h, src)[m].path = t[m].path
              /\ RecordFullHashSource(t, n, h, src)[m].full = t[m].full
BY DEF RecordFullHashSource, Table, Row

LEMMA InsertedRow ==
    ASSUME NEW t \in Table, FreeIds(t) # {}, NEW r, Hashed(r)
    PROVE  /\ NextId(t) \in Node
           /\ InsertNewNode(t, r)[NextId(t)].path = r.path
           /\ InsertNewNode(t, r)[NextId(t)].full = r.full
           /\ \A m \in Node \ {NextId(t)} :
                 /\ InsertNewNode(t, r)[m].state = t[m].state
                 /\ InsertNewNode(t, r)[m].path = t[m].path
                 /\ InsertNewNode(t, r)[m].full = t[m].full
<1> DEFINE k == NextId(t)
           u == InsertMediaNode(t, r.path, r.fast, r.full, NoProvenance)
<1>1. k \in Node
    BY NextIdFree DEF FreeIds
<1>2. u \in Table
    BY InsertKeeps DEF Hashed
<1>3. /\ u[k].path = r.path /\ u[k].full = r.full
      /\ \A m \in Node \ {k} : u[m] = t[m]
    BY <1>1 DEF InsertMediaNode, Table
<1>4. InsertNewNode(t, r) = RecordFullHashSource(u, k, r.full, "SERVER")
    BY DEF InsertNewNode
<1> HIDE DEF u, k
<1>5. \A m \in Node : /\ InsertNewNode(t, r)[m].state = u[m].state
                      /\ InsertNewNode(t, r)[m].path = u[m].path
                      /\ InsertNewNode(t, r)[m].full = u[m].full
    BY <1>1, <1>2, <1>4, RecordSame
<1>6. \A m \in Node \ {k} : /\ InsertNewNode(t, r)[m].state = t[m].state
                            /\ InsertNewNode(t, r)[m].path = t[m].path
                            /\ InsertNewNode(t, r)[m].full = t[m].full
    BY <1>3, <1>5
<1>7. InsertNewNode(t, r)[k].path = r.path /\ InsertNewNode(t, r)[k].full = r.full
    BY <1>1, <1>3, <1>5
<1> QED BY <1>1, <1>6, <1>7 DEF k

LEMMA TouchSees ==
    ASSUME NEW t \in Table, NEW n \in Node, NEW r, Scanned(r), Covered(t, r),
           n \in LiveAt(t, r.path)
    PROVE  TouchSeen(t, n, r).seen = {n} /\ Sees(t, TouchSeen(t, n, r).nodes, {n}, r)
<1> DEFINE touched == TouchMediaNode(t, n)
           hashed  == UpdateMediaNodeFullHash(touched, n, r.full)
           u == TouchSeen(t, n, r).nodes
<1>1. /\ touched \in Table
      /\ \A m \in Node : touched[m].path = t[m].path /\ touched[m].full = t[m].full
      /\ \A m \in Node \ {n} : touched[m].state = t[m].state
    BY ZenonT(60), TouchKeeps DEF TouchMediaNode, SetState, Table, Row
<1>2. TouchSeen(t, n, r).seen = {n}
    BY DEF TouchSeen, Outcome
<1>3. r.full \in FullHash
    BY DEF Scanned, Hashed
<1>4. CASE r.full = NoHash
  <2>1. u = touched
      BY <1>4 DEF TouchSeen, Outcome
  <2>2. LocOf[u[n].path] \in Tier3 => u[n].full \in {NoHash, r.stat}
      BY <1>1, <1>4, <2>1 DEF Covered, LiveAt
  <2> QED BY <1>1, <1>2, <2>1, <2>2 DEF Sees, Live
<1>5. CASE r.full # NoHash
  <2>1. hashed \in Table /\ hashed[n].full = r.full
        /\ \A m \in Node \ {n} : hashed[m] = touched[m]
    <3> HIDE DEF touched
    <3> QED BY <1>1, <1>3, UpdateFullHashKeeps DEF UpdateMediaNodeFullHash, Table, Row
  <2>2. r.full = r.stat
      BY <1>5 DEF Scanned
  <2>3. \/ u = RecordFullHashSource(touched, n, r.full, "SERVER") /\ t[n].full = r.full
        \/ u = ClearDisprovedFullHash(touched, n)
        \/ u = RecordFullHashSource(hashed, n, r.full, "SERVER")
      BY <1>5 DEF TouchSeen, Outcome
  <2>4. ClearDisprovedFullHash(touched, n)[n].full = NoHash
        /\ \A m \in Node \ {n} : ClearDisprovedFullHash(touched, n)[m] = touched[m]
    <3> HIDE DEF touched
    <3> QED BY <1>1 DEF ClearDisprovedFullHash, Table, Row
  <2> HIDE DEF touched, hashed, u
  <2>5. u[n].full \in {NoHash, r.stat}
      BY <1>1, <2>1, <2>2, <2>3, <2>4, RecordSame
  <2>6. \A m \in Node \ {n} : u[m].state = t[m].state /\ u[m].path = t[m].path /\ u[m].full = t[m].full
      BY <1>1, <2>1, <2>3, <2>4, RecordSame
  <2>7. Sees(t, u, {n}, r)
      BY <2>5, <2>6 DEF Sees, Live
  <2> QED BY <1>2, <2>7 DEF u
<1> QED BY <1>4, <1>5

LEMMA SupersedeSees ==
    ASSUME NEW t \in Table, NEW n \in Node, Live(t[n]), FreeIds(t) # {}, NEW r, Scanned(r)
    PROVE  Sees(t, Supersede(t, n, r).nodes, Supersede(t, n, r).seen, r)
<1> DEFINE archived == ArchiveMediaNode(t, n)
           inserted == InsertNewNode(archived, r)
           k        == NextId(archived)
           linked   == SetSupersededBy(inserted, n, k)
<1>1. /\ archived \in Table /\ archived[n].state = "ARCHIVED"
      /\ \A m \in Node \ {n} : archived[m] = t[m]
    BY SetStateKeeps DEF ArchiveMediaNode, SetState, Live, LifecycleState, Table, Row
<1>2. FreeIds(archived) # {}
    BY DEF FreeIds, Exists, ArchiveMediaNode, SetState, Live, Table
<1>3. \/ Supersede(t, n, r).nodes = archived /\ Supersede(t, n, r).seen = {}
      \/ Supersede(t, n, r).nodes = linked /\ Supersede(t, n, r).seen = {k}
    BY DEF Supersede, Outcome
<1>4. Sees(t, archived, {}, r)
  <2> HIDE DEF archived
  <2> QED BY <1>1 DEF Sees, Live
<1>5. Sees(t, linked, {k}, r)
  <2> HIDE DEF archived
  <2>1. /\ inserted \in Table /\ k \in Node
        /\ inserted[k].full = r.full
        /\ \A m \in Node \ {k} : /\ inserted[m].state = archived[m].state
                                 /\ inserted[m].path = archived[m].path
                                 /\ inserted[m].full = archived[m].full
      BY <1>1, <1>2, InsertedRow, InsertNewNodeKeeps DEF Scanned
  <2> HIDE DEF inserted, k
  <2>2. \A m \in Node : /\ linked[m].state = inserted[m].state
                        /\ linked[m].path = inserted[m].path
                        /\ linked[m].full = inserted[m].full
      BY <2>1 DEF SetSupersededBy, Table, Row
  <2> HIDE DEF linked
  <2>3. linked[k].full \in {NoHash, r.stat}
      BY <2>1, <2>2 DEF Scanned
  <2>4. \A m \in Node \ {k} : Live(linked[m]) =>
           Live(t[m]) /\ linked[m].path = t[m].path /\ linked[m].full = t[m].full
      BY <1>1, <2>1, <2>2 DEF Live
  <2> QED BY <2>3, <2>4 DEF Sees
<1> QED BY <1>3, <1>4, <1>5

LEMMA SuccessorSees ==
    ASSUME NEW t \in Table, NEW n \in Node, FreeIds(t) # {}, NEW r, Scanned(r)
    PROVE  Sees(t, ArchivedSuccessor(t, n, r).nodes, ArchivedSuccessor(t, n, r).seen, r)
<1> DEFINE k        == NextId(t)
           inserted == InsertNewNode(t, r)
           archived == ArchiveMediaNode(inserted, k)
           linked   == SetSupersededBy(archived, n, k)
<1>1. /\ inserted \in Table /\ k \in Node
      /\ \A m \in Node \ {k} : /\ inserted[m].state = t[m].state
                               /\ inserted[m].path = t[m].path
                               /\ inserted[m].full = t[m].full
    BY InsertedRow, InsertNewNodeKeeps DEF Scanned
<1>2. \/ ArchivedSuccessor(t, n, r).nodes = t /\ ArchivedSuccessor(t, n, r).seen = {}
      \/ ArchivedSuccessor(t, n, r).nodes = linked /\ ArchivedSuccessor(t, n, r).seen = {k}
    BY DEF ArchivedSuccessor, Outcome, Unchanged
<1>3. Sees(t, t, {}, r)
    BY DEF Sees
<1>4. Sees(t, linked, {k}, r)
  <2> HIDE DEF inserted, k
  <2>1. /\ archived \in [Node -> [state : LifecycleState, path : Path, fast : FastHash,
                                  full : FullHash, sup : 0..MaxNode,
                                  prov : [src : Source, hash : FullHash]]]
        /\ archived[k].state = "ARCHIVED" /\ \A m \in Node \ {k} : archived[m] = inserted[m]
      BY <1>1 DEF ArchiveMediaNode, SetState, Table, Row, LifecycleState
  <2> HIDE DEF archived
  <2>2. \A m \in Node : /\ linked[m].state = archived[m].state
                        /\ linked[m].path = archived[m].path
                        /\ linked[m].full = archived[m].full
      BY <2>1 DEF SetSupersededBy
  <2> HIDE DEF linked
  <2>3. ~Live(linked[k])
      BY <1>1, <2>1, <2>2 DEF Live
  <2>4. \A m \in Node \ {k} : Live(linked[m]) =>
           Live(t[m]) /\ linked[m].path = t[m].path /\ linked[m].full = t[m].full
      BY <1>1, <2>1, <2>2 DEF Live
  <2> QED BY <2>3, <2>4 DEF Sees
<1> QED BY <1>2, <1>3, <1>4

LEMMA RebaseSees ==
    ASSUME NEW t \in Table, NEW n \in Node, NEW r, Scanned(r),
           r.full # NoHash \/ LocOf[r.path] \notin Tier3, t[n].state = "MISSING"
    PROVE  Sees(t, RebaseMoved(t, n, r).nodes, RebaseMoved(t, n, r).seen, r)
<1> DEFINE rebased == RebaseMissingNodePath(t, n, r.path)
           hashed  == UpdateMediaNodeFullHash(rebased, n, r.full)
           u       == RebaseMoved(t, n, r).nodes
<1>1. r.path \in Path /\ r.full \in FullHash
    BY DEF Scanned, Hashed
<1>2. /\ rebased \in Table /\ rebased[n].path = r.path
      /\ \A m \in Node \ {n} : rebased[m] = t[m]
  <2>1. rebased \in Table
      BY <1>1, RebaseKeeps
  <2>2. rebased = [t EXCEPT ![n].state = "ACTIVE", ![n].path = r.path]
      BY DEF RebaseMissingNodePath, Live
  <2> QED BY <2>1, <2>2 DEF Table, Row
<1>3. /\ hashed \in Table /\ hashed[n].full = r.full /\ hashed[n].path = rebased[n].path
      /\ \A m \in Node \ {n} : hashed[m] = rebased[m]
  <2> HIDE DEF rebased
  <2> QED BY <1>1, <1>2, UpdateFullHashKeeps DEF UpdateMediaNodeFullHash, Table, Row
<1>4. \/ u = t /\ RebaseMoved(t, n, r).seen = {}
      \/ u = rebased /\ r.full = NoHash /\ RebaseMoved(t, n, r).seen = {n}
      \/ /\ u = RecordFullHashSource(hashed, n, r.full, "SERVER") /\ r.full # NoHash
         /\ RebaseMoved(t, n, r).seen = {n}
    BY DEF RebaseMoved, Outcome, Unchanged
<1> HIDE DEF rebased, hashed, u
<1>5. Sees(t, t, {}, r)
    BY DEF Sees
<1>6. u = rebased /\ r.full = NoHash => Sees(t, u, {n}, r)
    BY <1>2 DEF Sees
<1>7. ASSUME u = RecordFullHashSource(hashed, n, r.full, "SERVER"), r.full # NoHash
      PROVE  Sees(t, u, {n}, r)
  <2>1. u[n].full = r.full
      BY <1>3, <1>7, RecordSame
  <2>2. \A m \in Node \ {n} : u[m].state = t[m].state /\ u[m].path = t[m].path /\ u[m].full = t[m].full
      BY <1>2, <1>3, <1>7, RecordSame
  <2>3. u[n].full \in {NoHash, r.stat}
      BY <1>7, <2>1 DEF Scanned
  <2> QED BY <2>2, <2>3 DEF Sees, Live
<1> QED BY <1>4, <1>5, <1>6, <1>7 DEF u

LEMMA InsertSees ==
    ASSUME NEW t \in Table, FreeIds(t) # {}, NEW r, Scanned(r)
    PROVE  Sees(t, InsertNewNode(t, r), {NextId(t)}, r)
BY InsertedRow DEF Sees, Live, Scanned

LEMMA CommitSees ==
    ASSUME NEW t \in Table, FreeIds(t) # {}, NEW r, Scanned(r), Covered(t, r)
    PROVE  Sees(t, CommitOne(t, r).nodes, CommitOne(t, r).seen, r)
<1> DEFINE n == Oldest(LiveAt(t, r.path))
           latest == LatestAt(t, r.path)
           moved  == MoveCandidates(t, r)
<1>1. CASE LiveAt(t, r.path) = {}
  <2>1. r.full # NoHash \/ LocOf[r.path] \notin Tier3
      BY <1>1 DEF Covered
  <2>2. \/ /\ latest # {}
           /\ CommitOne(t, r) = ArchivedSuccessor(t, Oldest(latest), r)
        \/ CommitOne(t, r) = Unchanged(t)
        \/ /\ moved # {}
           /\ CommitOne(t, r) = RebaseMoved(t, Oldest(moved), r)
        \/ CommitOne(t, r) = Outcome({}, InsertNewNode(t, r), {NextId(t)})
      BY <1>1 DEF CommitOne, CommitNoLiveNode
  <2>3. /\ latest # {} => Oldest(latest) \in Node
        /\ moved # {} => Oldest(moved) \in Node /\ t[Oldest(moved)].state = "MISSING"
    <3>1. latest \in SUBSET Node /\ moved \in SUBSET Node
          /\ \A m \in moved : t[m].state = "MISSING"
        BY DEF LatestAt, MoveCandidates, MissingWithFast
    <3> HIDE DEF latest, moved
    <3> QED BY <3>1, OldestIn
  <2>4. CASE CommitOne(t, r) = Unchanged(t)
      BY <2>4 DEF Unchanged, Outcome, Sees
  <2>5. CASE CommitOne(t, r) = Outcome({}, InsertNewNode(t, r), {NextId(t)})
    <3>1. CommitOne(t, r).nodes = InsertNewNode(t, r) /\ CommitOne(t, r).seen = {NextId(t)}
        BY <2>5 DEF Outcome
    <3> QED BY <3>1, InsertSees
  <2> HIDE DEF latest, moved
  <2> QED BY <2>1, <2>2, <2>3, <2>4, <2>5, SuccessorSees, RebaseSees
<1>2. CASE LiveAt(t, r.path) # {}
  <2>1. n \in LiveAt(t, r.path) /\ n \in Node /\ Live(t[n])
    <3>1. LiveAt(t, r.path) \in SUBSET Node
        BY DEF LiveAt
    <3>2. n \in LiveAt(t, r.path)
        BY <1>2, <3>1, OldestIn
    <3> QED BY <3>2 DEF LiveAt
  <2>2. CommitOne(t, r) = TouchSeen(t, n, r) \/ CommitOne(t, r) = Supersede(t, n, r)
      BY <1>2 DEF CommitOne
  <2> HIDE DEF n
  <2>3. CASE CommitOne(t, r) = TouchSeen(t, n, r)
    <3>1. /\ TouchSeen(t, n, r).seen = {n}
          /\ Sees(t, TouchSeen(t, n, r).nodes, {n}, r)
        BY <2>1, TouchSees
    <3> QED BY <2>3, <3>1
  <2>4. CASE CommitOne(t, r) = Supersede(t, n, r)
      BY <2>1, <2>4, SupersedeSees
  <2> QED BY <2>2, <2>3, <2>4
<1> QED BY <1>1, <1>2

\* A commit that goes through leaves a legal table.
LEMMA CommitLegal ==
    ASSUME NEW t, NEW r, CommitOne(t, r).ok
    PROVE  Schema(CommitOne(t, r).nodes)
<1>1. \A S, u, seen : Outcome(S, u, seen).ok => Schema(Outcome(S, u, seen).nodes)
    BY DEF Outcome
<1>2. \A n : TouchSeen(t, n, r).ok => Schema(TouchSeen(t, n, r).nodes)
    BY <1>1 DEF TouchSeen
<1>3. \A n : Supersede(t, n, r).ok => Schema(Supersede(t, n, r).nodes)
    BY <1>1 DEF Supersede
<1>4. \A n : ArchivedSuccessor(t, n, r).ok => Schema(ArchivedSuccessor(t, n, r).nodes)
    BY <1>1 DEF ArchivedSuccessor, Unchanged
<1>5. \A n : RebaseMoved(t, n, r).ok => Schema(RebaseMoved(t, n, r).nodes)
    BY <1>1 DEF RebaseMoved, Unchanged
<1>6. CommitNoLiveNode(t, r).ok => Schema(CommitNoLiveNode(t, r).nodes)
    BY <1>1, <1>4, <1>5 DEF CommitNoLiveNode, Unchanged
<1> QED BY <1>2, <1>3, <1>6 DEF CommitOne

\* A batch of one result.
LEMMA BatchOfOne ==
    ASSUME NEW x
    PROVE  LET out == CommitOne(nodes, x)
           IN  /\ CommitBatch(<<x>>).ok = out.ok
               /\ CommitBatch(<<x>>).nodes = out.nodes
               /\ CommitBatch(<<x>>).seen = out.seen
               /\ CommitBatch(<<x>>).stat =
                     [n \in Node |-> IF n \in out.seen THEN x.stat ELSE stat[n]]
<1> DEFINE first == [ok |-> TRUE, nodes |-> nodes, stat |-> stat, seen |-> {}]
           Next1(before, r) ==
               LET out == CommitOne(before.nodes, r)
               IN  IF ~before.ok THEN before
                   ELSE [ok    |-> out.ok,
                         nodes |-> out.nodes,
                         stat  |-> [n \in Node |-> IF n \in out.seen THEN r.stat
                                                   ELSE before.stat[n]],
                         seen  |-> before.seen \cup out.seen]
           F(g) == [i \in 0..Len(<<x>>) |-> IF i = 0 THEN first ELSE Next1(g[i - 1], <<x>>[i])]
<1>1. CommitBatch(<<x>>) = (CHOOSE g : g = F(g))[Len(<<x>>)]
    BY DEF CommitBatch
<1>2. Len(<<x>>) = 1 /\ <<x>>[1] = x
    OBVIOUS
<1>3. first.ok /\ first.nodes = nodes /\ first.stat = stat /\ first.seen = {}
    OBVIOUS
<1> HIDE DEF first
<1>4. /\ Next1(first, x).ok = CommitOne(nodes, x).ok
      /\ Next1(first, x).nodes = CommitOne(nodes, x).nodes
      /\ Next1(first, x).seen = CommitOne(nodes, x).seen
      /\ Next1(first, x).stat = [n \in Node |-> IF n \in CommitOne(nodes, x).seen THEN x.stat
                                                ELSE stat[n]]
    BY <1>3
<1> HIDE DEF Next1
<1> DEFINE w == [i \in 0..1 |-> IF i = 0 THEN first ELSE Next1(first, x)]
<1>5. w = F(w)
  <2>1. w[0] = first
      OBVIOUS
  <2>2. \A i \in 0..1 : i = 0 \/ i = 1
      OBVIOUS
  <2>3. \A i \in 0..1 : (IF i = 0 THEN first ELSE Next1(w[i - 1], <<x>>[i]))
                        = IF i = 0 THEN first ELSE Next1(first, x)
      BY <1>2, <2>1, <2>2
  <2> QED BY <1>2, <2>3
<1> HIDE DEF w
<1> DEFINE g == CHOOSE h : h = F(h)
<1>6. g = F(g)
    BY <1>5
<1>7. g[1] = Next1(first, x)
  <2> HIDE DEF g
  <2>1. 0 \in 0..1 /\ 1 \in 0..1
      OBVIOUS
  <2>2. g[0] = first
      BY <1>2, <1>6, <2>1
  <2>3. g[1] = Next1(g[0], x)
      BY <1>2, <1>6, <2>1
  <2> QED BY <2>2, <2>3
<1>8. CommitBatch(<<x>>) = Next1(first, x)
  <2> HIDE DEF F
  <2> QED BY <1>1, <1>2, <1>7
<1> HIDE DEF F, g
<1> QED BY <1>4, <1>8

----------------------------------------------------------------------------
\* The masters of a node, as a function of the rows and the edges.
Up(t, e, S) ==
    {k.src : k \in {x \in EdgeKey : /\ x.dst \in S /\ x.rel \in CacheRelationship
                                    /\ Accepted(e[x]) /\ t[x.src].state = "ACTIVE"}}

Climb(f, t, e, n, m) ==
    f = [i \in 0..m |-> IF i = 0 THEN {n} ELSE f[i - 1] \cup Up(t, e, f[i - 1])]

Lines(t, e, n) == (CHOOSE f : Climb(f, t, e, n, Cardinality(Node)))[Cardinality(Node)]

MasterIds(t, e, n) ==
    {x \in Lines(t, e, n) \ {n} :
        /\ LocOf[t[x].path] \in Tier3
        /\ t[x].state = "ACTIVE" /\ Vouched(t[x])}

LEMMA MastersById ==
    ASSUME NEW n
    PROVE  VerifiedMasters(n) = {[id |-> a, path |-> nodes[a].path, stat |-> stat[a]] :
                                    a \in MasterIds(nodes, edges, n)}
<1>1. CacheLineage(n) = Lines(nodes, edges, n)
    BY DEF CacheLineage, Lines, Climb, Up
<1>2. {x \in CacheLineage(n) \ {n} :
          /\ LocOf[nodes[x].path] \in Tier3
          /\ nodes[x].state = "ACTIVE" /\ Vouched(nodes[x])} = MasterIds(nodes, edges, n)
    BY <1>1 DEF MasterIds
<1> QED BY <1>2 DEF VerifiedMasters

LEMMA ClimbExists ==
    ASSUME NEW t, NEW e, NEW n, NEW m \in Nat
    PROVE  \E f : Climb(f, t, e, n, m)
<1> DEFINE Bad == {i \in Nat : ~ \E f : Climb(f, t, e, n, i)}
<1>1. SUFFICES ASSUME Bad # {} PROVE FALSE
    OBVIOUS
<1>2. PICK b \in Bad : \A y \in Bad : b <= y
  <2>1. Bad \in SUBSET Nat
      OBVIOUS
  <2> HIDE DEF Bad
  <2> QED BY <1>1, <2>1, LeastExists
<1>3. CASE b = 0
  <2>1. Climb([i \in 0..0 |-> {n}], t, e, n, 0)
      BY DEF Climb
  <2> QED BY <1>3, <2>1
<1>4. CASE b # 0
  <2>1. b - 1 \in Nat /\ b - 1 \notin Bad
      BY <1>2, <1>4
  <2>2. PICK f : Climb(f, t, e, n, b - 1)
      BY <2>1
  <2> DEFINE further(S) == S \cup Up(t, e, S)
             g == [i \in 0..b |-> IF i = b THEN further(f[b - 1]) ELSE f[i]]
  <2>3. \A i \in 0..(b - 1) : f[i] = IF i = 0 THEN {n} ELSE further(f[i - 1])
      BY <2>2 DEF Climb
  <2> HIDE DEF further
  <2>4. \A i \in 0..b : g[i] = IF i = 0 THEN {n} ELSE further(g[i - 1])
    <3>1. TAKE i \in 0..b
    <3>2. CASE i = b
        BY <3>2, <1>4
    <3>3. CASE i # b
      <4>1. i \in 0..(b - 1) /\ g[i] = f[i]
          BY <3>3
      <4>2. i # 0 => g[i - 1] = f[i - 1]
          BY <3>3
      <4> QED BY <2>3, <4>1, <4>2
    <3> QED BY <3>2, <3>3
  <2>5. g = [i \in 0..b |-> g[i]]
      OBVIOUS
  <2>6. Climb(g, t, e, n, b)
    <3> HIDE DEF g
    <3> QED BY <2>4, <2>5 DEF Climb, further
  <2> QED BY <2>6
<1> QED BY <1>3, <1>4

\* A master is a row: the walk goes along edges, and edges join rows.
LEMMA MastersAreRows ==
    ASSUME NEW t, NEW e, NEW n
    PROVE  MasterIds(t, e, n) \subseteq Node
<1> DEFINE c == Cardinality(Node)
           f == CHOOSE g : Climb(g, t, e, n, c)
           Bad == {i \in 0..c : ~ (f[i] \subseteq Node \cup {n})}
<1>1. c \in Nat
  <2>1. 1 \in Int /\ MaxNode \in Int
      BY NodeStoreAssumption
  <2> QED BY ONLY <2>1, FS_Interval, FS_CardinalityType DEF Node
<1>2. Climb(f, t, e, n, c)
    BY <1>1, ClimbExists
<1>3. Lines(t, e, n) = f[c]
    BY DEF Lines
<1> HIDE DEF c, f
<1>4. \A i \in 0..c : f[i] = IF i = 0 THEN {n} ELSE f[i - 1] \cup Up(t, e, f[i - 1])
    BY <1>2 DEF Climb
<1>5. \A S : Up(t, e, S) \subseteq Node
    BY LineageAssumption DEF Up
<1>6. Bad = {}
  <2>1. SUFFICES ASSUME Bad # {} PROVE FALSE
      OBVIOUS
  <2>2. PICK b \in Bad : \A y \in Bad : b <= y
    <3>1. Bad \in SUBSET Nat
        BY <1>1
    <3> HIDE DEF Bad
    <3> QED BY <2>1, <3>1, LeastExists
  <2>3. b \in 0..c /\ b # 0 /\ b - 1 \in 0..c /\ b - 1 \notin Bad
    <3>1. b \in 0..c /\ ~ (f[b] \subseteq Node \cup {n}) /\ \A y \in Bad : b <= y
        BY <2>2
    <3>2. b # 0
        BY <1>4, <3>1
    <3>3. b - 1 \in 0..c
        BY <1>1, <3>1, <3>2
    <3>4. ~ (b <= b - 1)
        BY <1>1, <3>1
    <3> HIDE DEF Bad
    <3> QED BY <3>1, <3>2, <3>3, <3>4
  <2>4. f[b - 1] \subseteq Node \cup {n}
      BY <2>3
  <2>5. f[b] \subseteq Node \cup {n}
      BY <1>4, <1>5, <2>3, <2>4
  <2> QED BY <2>2, <2>5
<1>7. Lines(t, e, n) \subseteq Node \cup {n}
    BY <1>1, <1>3, <1>6
<1> QED BY <1>7 DEF MasterIds

----------------------------------------------------------------------------
\* The invariant.

Unread(n) == <<"unread", n>> \in except

\* The hash of a master is that of the version its mtime stands for.
Described(n) ==
    /\ Live(nodes[n]) /\ LocOf[nodes[n].path] \in Tier3 /\ nodes[n].full # NoHash
    => stat[n] = nodes[n].full \/ Unread(n)

ScanSound ==
    "scan" \in duty =>
       /\ \A n \in Node : ~Unread(n)
       /\ found # <<>> => Covered(nodes, found[1])

\* A row whose file holds what its hash says.
Intact(n) == disk[nodes[n].path] = nodes[n].full \/ Unread(n)

\* The purge has masters and, if nothing has changed the disk, their files are
\* the ones it read of, so are those of the plan, and a master is intact.
PurgeSound ==
    /\ purge.at \in {"looking", "rereading"} => purge.masters # {}
    /\ purge.at = "rereading" /\ calm =>
          /\ \A a \in purge.masters : disk[a.path] = a.stat
          /\ purge.gone \/ disk[purge.todo[1].path] = purge.todo[1].stat
    /\ purge.at = "unlinking" /\ calm =>
          /\ disk[purge.todo[1].path] = purge.todo[1].stat
          /\ \E a \in MasterIds(nodes, edges, purge.todo[1].id) : Intact(a)

PurgeShape ==
    purge = [at |-> purge.at, todo |-> purge.todo, masters |-> purge.masters, gone |-> purge.gone]

FoundShape ==
    found # <<>> => found = <<found[1]>> /\ Scanned(found[1]) /\ "scan" \in duty

HeirRow ==
    [at : {"idle", "loaded", "writing", "written", "retry", "refreshed", "done"},
     child : 0..MaxNode, path : Path \cup {NoHeir.path}, from : 0..MaxNode, parent : 0..MaxNode]

HeirShape ==
    /\ heir \in [Inheritor -> HeirRow] /\ derived \in [Node -> 0..MaxNode]
    /\ \A i \in Inheritor : heir[i].at \notin {"idle", "done"} =>
          heir[i].child \in Node /\ heir[i].path \in Path

LibraryShape == nodes \in Table /\ stat \in [Node -> File] /\ disk \in [Path -> File]

Rows == LivePathUnique(nodes) /\ \A n \in Node : Described(n)

Inv ==
    /\ LibraryShape /\ PurgeShape /\ FoundShape /\ HeirShape /\ duty \in Duties
    /\ Rows /\ ScanSound /\ PurgeSound

\* What is said of a library that the steps of a job take from (t, s) to (u, v).
Wanes(t, u) ==
    \A n \in Node : Live(u[n]) =>
        Live(t[n]) /\ u[n].path = t[n].path /\ u[n].full \in {t[n].full, NoHash}

Stays(t, u) ==
    \A n \in Node : (Live(u[n]) <=> Live(t[n])) /\ u[n].path = t[n].path

LEMMA RowsFrame ==
    ASSUME Inv, Wanes(nodes, nodes'),
           \A n \in Node : nodes'[n].full # NoHash => stat'[n] = stat[n],
           \A n \in Node : Unread(n) => Unread(n)' \/ stat[n] = nodes[n].full
    PROVE  Rows'
<1>1. LivePathUnique(nodes')
    BY DEF Inv, Rows, LivePathUnique, Wanes
<1>2. ASSUME NEW n \in Node PROVE Described(n)'
    BY DEF Inv, Rows, Described, Wanes
<1> QED BY <1>1, <1>2 DEF Rows

LEMMA ScanFrame ==
    ASSUME Inv, duty' = duty, found' = found,
           "scan" \in duty => Wanes(nodes, nodes') /\ Stays(nodes, nodes')
                              /\ \A n \in Node : Unread(n)' => Unread(n)
    PROVE  ScanSound' /\ FoundShape'
<1>1. FoundShape'
    BY DEF Inv, FoundShape
<1>2. ASSUME "scan" \in duty, found # <<>>
      PROVE  Covered(nodes', found[1])
  <2>1. Covered(nodes, found[1])
      BY <1>2 DEF Inv, ScanSound
  <2>2. \A p : LiveAt(nodes', p) = LiveAt(nodes, p)
      BY <1>2 DEF Stays, LiveAt
  <2>3. \A p : \A m \in LiveAt(nodes, p) : nodes'[m].full \in {nodes[m].full, NoHash}
      BY <1>2, <2>2 DEF Wanes, LiveAt
  <2> QED BY <2>1, <2>2, <2>3 DEF Covered
<1> QED BY <1>1, <1>2 DEF Inv, ScanSound

\* Nothing happens to the library or to the exceptions.
LEMMA SameFrame ==
    ASSUME Inv, UNCHANGED <<nodes, stat, duty, found>>, except \subseteq except',
           \A n \in Node : Unread(n)' => Unread(n)
    PROVE  Rows' /\ ScanSound' /\ FoundShape'
<1>1. Wanes(nodes, nodes') /\ Stays(nodes, nodes')
    BY DEF Wanes, Stays
<1>2. \A n \in Node : Unread(n) => Unread(n)'
    BY DEF Unread
<1> QED BY <1>1, <1>2, RowsFrame, ScanFrame

\* What goes on beside a purge.
LEMMA BesideFrame ==
    ASSUME Inv, Beside, \A n \in Node : Unread(n) => Unread(n)' \/ disk[nodes[n].path] = nodes[n].full
    PROVE  PurgeShape' /\ PurgeSound'
<1>1. purge' = purge /\ (calm' => calm /\ disk' = disk)
      /\ (calm' /\ purge.at = "unlinking" => nodes' = nodes /\ edges' = edges)
    BY DEF Beside
<1>2. PurgeShape'
    BY <1>1 DEF Inv, PurgeShape
<1>3. ASSUME purge.at = "unlinking", calm'
      PROVE  \E a \in MasterIds(nodes', edges', purge.todo[1].id) : Intact(a)'
  <2>1. PICK a \in MasterIds(nodes, edges, purge.todo[1].id) : Intact(a)
      BY <1>1, <1>3 DEF Inv, PurgeSound
  <2>2. a \in Node
      BY <2>1, MastersAreRows
  <2>3. a \in MasterIds(nodes', edges', purge.todo[1].id)
      BY <1>1, <1>3, <2>1
  <2>4. Intact(a)'
      BY <1>1, <1>3, <2>1, <2>2 DEF Intact
  <2> QED BY <2>3, <2>4
<1>4. PurgeSound'
    BY <1>1, <1>3 DEF Inv, PurgeSound
<1> QED BY <1>2, <1>4

----------------------------------------------------------------------------
\* The purge.

\* NextCandidate leaves a purge that has not begun to look.
LEMMA NextSound ==
    ASSUME purge' = NextCandidate \/ purge' = NoPurge
    PROVE  /\ purge'.at \in {"idle", "next"}
           /\ PurgeShape' /\ PurgeSound'
<1>1. purge' = NoPurge \/ purge' = [NoPurge EXCEPT !.at = "next", !.todo = Tail(purge.todo)]
    BY DEF NextCandidate
<1>2. purge'.at \in {"idle", "next"} /\ PurgeShape'
  <2>1. CASE purge' = NoPurge
      BY <2>1 DEF NoPurge, PurgeShape
  <2>2. CASE purge' = [NoPurge EXCEPT !.at = "next", !.todo = Tail(purge.todo)]
    <3>1. PICK rest : purge' = [at |-> "next", todo |-> rest, masters |-> {}, gone |-> FALSE]
        BY <2>2 DEF NoPurge
    <3> QED BY <3>1 DEF PurgeShape
  <2> QED BY <1>1, <2>1, <2>2
<1> QED BY <1>2 DEF PurgeSound

LEMMA MarkWanes ==
    ASSUME NEW t \in Table, NEW n
    PROVE  /\ MarkNodeMissing(t, n) \in Table
           /\ Wanes(t, MarkNodeMissing(t, n)) /\ Stays(t, MarkNodeMissing(t, n))
           /\ \A m \in Node : MarkNodeMissing(t, n)[m].full = t[m].full
<1> DEFINE u == MarkNodeMissing(t, n)
<1>1. CASE n \in Node /\ t[n].state = "ACTIVE"
  <2>1. u = [t EXCEPT ![n].state = "MISSING"]
      BY <1>1 DEF MarkNodeMissing, SetState
  <2>2. u \in Table
      BY <1>1, <2>1 DEF Table, Row, LifecycleState
  <2>3. \A m \in Node : /\ u[m].path = t[m].path /\ u[m].full = t[m].full
                        /\ u[m].state = IF m = n THEN "MISSING" ELSE t[m].state
      BY <1>1, <2>1 DEF Table, Row
  <2> HIDE DEF u
  <2>4. Wanes(t, u) /\ Stays(t, u)
      BY <1>1, <2>3 DEF Wanes, Stays, Live
  <2> QED BY <2>2, <2>3, <2>4 DEF u
<1>2. CASE ~ (n \in Node /\ t[n].state = "ACTIVE")
  <2>1. u = t
      BY <1>2 DEF MarkNodeMissing, SetState, Table
  <2> QED BY <2>1 DEF Wanes, Stays
<1> QED BY <1>1, <1>2

LEMMA PurgeKeeps ==
    ASSUME Inv, Purges
    PROVE  Inv'
<1>1. /\ duty' = duty /\ found' = found /\ except' = except
      /\ UNCHANGED <<rehashing, thumbs, inheriting>> /\ stat' = stat /\ edges' = edges
    BY DEF Purges, On, NotScan, PruneStep, RequestPurge, Eligible, ReadMasters, Look, Reread,
           Unlink, Mark, library, lineage
<1>2. HeirShape' /\ duty' \in Duties
    BY <1>1 DEF Inv, HeirShape, inheriting
<1>3. \A n \in Node : Unread(n)' = Unread(n)
    BY <1>1 DEF Unread
<1>4. ASSUME UNCHANGED nodes PROVE Rows' /\ ScanSound' /\ FoundShape'
    BY <1>1, <1>3, <1>4, SameFrame
<1>5. ASSUME UNCHANGED <<nodes, disk>> PROVE LibraryShape'
    BY <1>1, <1>5 DEF Inv, LibraryShape
<1>6. CASE \E loc \in Loc, want \in SUBSET Node : RequestPurge(loc, want)
  <2>1. PICK loc \in Loc, want \in SUBSET Node : RequestPurge(loc, want)
      BY <1>6
  <2>2. PurgeShape' /\ purge'.at = "planned" /\ UNCHANGED <<nodes, disk>>
      BY <2>1 DEF RequestPurge, NoPurge, PurgeShape
  <2>3. PurgeSound'
      BY <2>2 DEF PurgeSound
  <2> QED BY <1>2, <1>4, <1>5, <2>2, <2>3 DEF Inv
<1>7. CASE Eligible
  <2>1. UNCHANGED <<nodes, disk>>
      BY <1>7 DEF Eligible, library
  <2>2. CASE purge' = NoPurge
      BY <1>2, <1>4, <1>5, <2>1, <2>2, NextSound DEF Inv
  <2>3. CASE purge' # NoPurge
    <3>1. PICK left : purge' = [purge EXCEPT !.at = "next", !.todo = left]
        BY <1>7, <2>3 DEF Eligible
    <3>2. PurgeShape' /\ purge'.at = "next"
        BY <3>1 DEF Inv, PurgeShape
    <3>3. PurgeSound'
        BY <3>2 DEF PurgeSound
    <3> QED BY <1>2, <1>4, <1>5, <2>1, <3>2, <3>3 DEF Inv
  <2> QED BY <2>2, <2>3
<1>8. CASE ReadMasters
  <2>1. UNCHANGED <<nodes, disk>>
      BY <1>8 DEF ReadMasters, library
  <2>2. CASE purge' = NextCandidate
      BY <1>2, <1>4, <1>5, <2>1, <2>2, NextSound DEF Inv
  <2>3. CASE purge' # NextCandidate
    <3>1. PICK ms : ms # {} /\ purge' = [purge EXCEPT !.at = "looking", !.masters = ms]
        BY <1>8, <2>3 DEF ReadMasters
    <3>2. PurgeShape' /\ purge'.at = "looking" /\ purge'.masters # {}
        BY <3>1 DEF Inv, PurgeShape
    <3>3. PurgeSound'
        BY <3>2 DEF PurgeSound
    <3> QED BY <1>2, <1>4, <1>5, <2>1, <3>2, <3>3 DEF Inv
  <2> QED BY <2>2, <2>3
<1>9. CASE Look
  <2>1. UNCHANGED <<nodes, disk>>
      BY <1>9 DEF Look, library
  <2>2. CASE purge' = NextCandidate
      BY <1>2, <1>4, <1>5, <2>1, <2>2, NextSound DEF Inv
  <2>3. CASE purge' # NextCandidate
    <3> DEFINE c == purge.todo[1]
               gone == disk[c.path] = NoFile
    <3>1. /\ VerifyOnDisk(c, purge.masters) /\ purge.at = "looking"
          /\ purge' = [purge EXCEPT !.at = "rereading", !.gone = gone]
        BY <1>9, <2>3 DEF Look
    <3> HIDE DEF gone
    <3>2. /\ PurgeShape' /\ purge'.at = "rereading" /\ purge'.masters = purge.masters
          /\ purge'.todo = purge.todo /\ purge'.gone = gone
        BY <3>1 DEF Inv, PurgeShape
    <3>3. /\ purge.masters # {}
          /\ \A a \in purge.masters : disk'[a.path] = a.stat
          /\ gone \/ disk'[c.path] = c.stat
        BY <2>1, <3>1 DEF Inv, PurgeSound, VerifyOnDisk, gone
    <3>4. PurgeSound'
        BY <3>2, <3>3 DEF PurgeSound
    <3> QED BY <1>2, <1>4, <1>5, <2>1, <3>2, <3>4 DEF Inv
  <2> QED BY <2>2, <2>3
<1>10. CASE Reread
  <2>1. UNCHANGED <<nodes, disk, calm>>
      BY <1>10 DEF Reread, library
  <2>2. CASE purge' = NextCandidate
      BY <1>2, <1>4, <1>5, <2>1, <2>2, NextSound DEF Inv
  <2>3. CASE purge' # NextCandidate
    <3> DEFINE c == purge.todo[1]
               next == IF purge.gone THEN "marking" ELSE "unlinking"
    <3>1. /\ VerifiedMasters(c.id) = purge.masters /\ purge.at = "rereading"
          /\ purge' = [purge EXCEPT !.at = next]
        BY <1>10, <2>3 DEF Reread
    <3>2. PurgeShape' /\ purge'.at = next /\ purge'.todo = purge.todo
        BY <3>1 DEF Inv, PurgeShape
    <3>3. ASSUME purge'.at = "unlinking", calm'
          PROVE  /\ disk[c.path] = c.stat
                 /\ \E a \in MasterIds(nodes, edges, c.id) : Intact(a)
      <4>1. ~purge.gone
          BY <3>2, <3>3
      <4>2. /\ disk[c.path] = c.stat /\ purge.masters # {}
            /\ \A a \in purge.masters : disk[a.path] = a.stat
          BY <2>1, <3>1, <3>3, <4>1 DEF Inv, PurgeSound
      <4>3. PICK x \in MasterIds(nodes, edges, c.id) :
                    [id |-> x, path |-> nodes[x].path, stat |-> stat[x]] \in purge.masters
          BY <3>1, <4>2, MastersById
      <4>4. x \in Node
          BY <4>3, MastersAreRows
      <4>5. disk[nodes[x].path] = stat[x]
          BY <4>2, <4>3
      <4>6. /\ Live(nodes[x]) /\ LocOf[nodes[x].path] \in Tier3 /\ nodes[x].full # NoHash
          BY <4>3 DEF MasterIds, Live, Vouched
      <4>7. Intact(x)
          BY <4>4, <4>5, <4>6 DEF Inv, Rows, Described, Intact
      <4> QED BY <4>2, <4>3, <4>7
    <3>4. \A a : Intact(a)' = Intact(a)
        BY <1>1, <2>1 DEF Intact, Unread
    <3>5. PurgeSound'
        BY <1>1, <2>1, <3>2, <3>3, <3>4 DEF PurgeSound
    <3> QED BY <1>2, <1>4, <1>5, <2>1, <3>2, <3>5 DEF Inv
  <2> QED BY <2>2, <2>3
<1>11. CASE Unlink
  <2>1. UNCHANGED nodes /\ LibraryShape'
      BY <1>1, <1>11 DEF Unlink, Inv, LibraryShape, File
  <2>2. CASE purge' = NextCandidate
      BY <1>2, <1>4, <2>1, <2>2, NextSound DEF Inv
  <2>3. CASE purge' # NextCandidate
    <3>1. purge' = [purge EXCEPT !.at = "marking"]
        BY <1>11, <2>3 DEF Unlink
    <3>2. PurgeShape' /\ purge'.at = "marking"
        BY <3>1 DEF Inv, PurgeShape
    <3>3. PurgeSound'
        BY <3>2 DEF PurgeSound
    <3> QED BY <1>2, <1>4, <2>1, <3>2, <3>3 DEF Inv
  <2> QED BY <2>2, <2>3
<1>12. CASE Mark
  <2>1. nodes' = MarkNodeMissing(nodes, purge.todo[1].id) \/ nodes' = nodes
      BY <1>12 DEF Mark
  <2>2. /\ nodes' \in Table /\ Wanes(nodes, nodes') /\ Stays(nodes, nodes')
        /\ \A m \in Node : nodes'[m].full = nodes[m].full
    <3>1. nodes \in Table /\ Wanes(nodes, nodes) /\ Stays(nodes, nodes)
        BY DEF Inv, LibraryShape, Wanes, Stays
    <3> QED BY <2>1, <3>1, MarkWanes
  <2>3. LibraryShape'
      BY <1>1, <1>12, <2>2 DEF Mark, Inv, LibraryShape
  <2>4. Rows'
      BY <1>1, <1>3, <2>2, RowsFrame
  <2>5. ScanSound' /\ FoundShape'
      BY <1>1, <1>3, <2>2, ScanFrame
  <2>6. PurgeShape' /\ PurgeSound'
      BY <1>12, NextSound DEF Mark
  <2> QED BY <1>2, <2>3, <2>4, <2>5, <2>6 DEF Inv
<1> QED BY <1>6, <1>7, <1>8, <1>9, <1>10, <1>11, <1>12 DEF Purges, PruneStep

----------------------------------------------------------------------------
\* The workers that write no file.

\* A job that leaves the library and the inheritances alone.
LEMMA QuietKeeps ==
    ASSUME Inv, Beside, NotScan, UNCHANGED <<nodes, stat, disk, inheriting, duty, except>>
    PROVE  Inv'
<1>1. HeirShape' /\ LibraryShape' /\ duty' \in Duties
    BY DEF Inv, HeirShape, LibraryShape, inheriting
<1>2. \A n \in Node : Unread(n)' = Unread(n)
    BY DEF Unread
<1>3. Rows' /\ ScanSound' /\ FoundShape'
    BY <1>2, SameFrame DEF NotScan
<1>4. PurgeShape' /\ PurgeSound'
    BY <1>2, BesideFrame
<1> QED BY <1>1, <1>3, <1>4 DEF Inv

\* What the worker records changes no more than where a hash is from.
LEMMA MarkMatchedSame ==
    ASSUME NEW t \in Table, NEW c
    PROVE  LET u == MarkRehashMatched(t, c)
           IN  u \in Table /\ Wanes(t, u) /\ Stays(t, u) /\ \A n \in Node : u[n].full = t[n].full
<1> DEFINE u == MarkRehashMatched(t, c)
           marked == [t EXCEPT ![c.id].prov.src = "SERVER"]
<1>1. u = t \/ u = marked
    BY DEF MarkRehashMatched
<1>2. /\ marked \in Table
      /\ \A n \in Node : /\ marked[n].state = t[n].state /\ marked[n].path = t[n].path
                         /\ marked[n].full = t[n].full
    BY ZenonT(60) DEF Table, Row, Source
<1> HIDE DEF marked, u
<1>3. /\ u \in Table
      /\ \A n \in Node : u[n].state = t[n].state /\ u[n].path = t[n].path /\ u[n].full = t[n].full
    BY <1>1, <1>2
<1>4. Wanes(t, u) /\ Stays(t, u)
    BY <1>3 DEF Wanes, Stays, Live
<1> QED BY <1>3, <1>4 DEF u

LEMMA RehashKeeps ==
    ASSUME Inv, Rehashes
    PROVE  Inv'
<1>1. /\ UNCHANGED <<stat, disk, duty, inheriting>> /\ Beside /\ NotScan
      /\ nodes' = nodes \/ nodes' = MarkRehashMatched(nodes, rehash.batch[1])
    BY DEF Rehashes, On, RehashStep, ClaimBatch, ReadBytes, Record, library
<1>2. /\ nodes' \in Table /\ Wanes(nodes, nodes') /\ Stays(nodes, nodes')
      /\ \A n \in Node : nodes'[n].full = nodes[n].full
  <2>1. nodes \in Table /\ Wanes(nodes, nodes) /\ Stays(nodes, nodes)
      BY DEF Inv, LibraryShape, Wanes, Stays
  <2> QED BY <1>1, <2>1, MarkMatchedSame
<1>3. except' = except \/ except' = except \ {<<"unread", n>> : n \in Verified}
    BY DEF Rehashes
<1>4. \A n \in Node : /\ Unread(n)' => Unread(n)
                      /\ Unread(n) => Unread(n)' \/ n \in Verified
    BY <1>3 DEF Unread
<1>5. \A n \in Verified : n \in Node /\ stat[n] = nodes[n].full /\ disk[nodes[n].path] = nodes[n].full
  <2>1. TAKE n \in Verified
  <2>2. PICK c : /\ n \in Node /\ nodes[n].path = c.path
                 /\ {nodes[n].full, stat[n], disk[c.path]} = {c.hash}
      BY DEF Verified
  <2> QED BY <2>2
<1>6. HeirShape' /\ LibraryShape' /\ duty' \in Duties
    BY <1>1, <1>2 DEF Inv, HeirShape, LibraryShape, inheriting
<1>7. Rows'
    BY <1>1, <1>2, <1>4, <1>5, RowsFrame
<1>8. ScanSound' /\ FoundShape'
    BY <1>1, <1>2, <1>4, ScanFrame DEF NotScan
<1>9. PurgeShape' /\ PurgeSound'
    BY <1>1, <1>4, <1>5, BesideFrame
<1> QED BY <1>6, <1>7, <1>8, <1>9 DEF Inv

LEMMA WorkersKeep ==
    ASSUME Inv, RehashWaits \/ RehashFault \/ Thumbnails \/ CacheFaults
    PROVE  Inv'
<1>1. UNCHANGED <<nodes, stat, disk, inheriting, duty, except>> /\ Beside /\ NotScan
  <2>1. CASE RehashWaits
      BY <2>1 DEF RehashWaits, On, RetryTime, library
  <2>2. CASE RehashFault
      BY <2>2 DEF RehashFault, On, RecordFails
  <2>3. CASE Thumbnails
      BY <2>3 DEF Thumbnails, On, ThumbStep, ClaimThumbs, Generate, SetThumbState, library
  <2>4. CASE CacheFaults
      BY <2>4 DEF CacheFaults, On, SetThumbFails, HealThumb, CacheLost, library
  <2> QED BY <2>1, <2>2, <2>3, <2>4
<1> QED BY <1>1, QuietKeeps

----------------------------------------------------------------------------
\* Inheritance.

LEMMA GoneHeir ==
    /\ NoHeir \in HeirRow /\ NoHeir.at = "idle"
    /\ [NoHeir EXCEPT !.at = "done"] \in HeirRow
    /\ [NoHeir EXCEPT !.at = "done"].at = "done"
<1>1. 0 \in 0..MaxNode
    BY NodeStoreAssumption
<1>2. NoHeir.path = CHOOSE p \in Path : TRUE
    BY DEF NoHeir
<1>3. NoHeir \in HeirRow /\ NoHeir.at = "idle"
    BY <1>1, <1>2 DEF NoHeir, HeirRow
<1> QED BY <1>3 DEF HeirRow

\* One request's inheritance moves to h.
LEMMA HeirMoves ==
    ASSUME Inv, NEW i \in Inheritor, NEW h \in HeirRow, heir' = [heir EXCEPT ![i] = h],
           h.at \notin {"idle", "done"} => h.child \in Node /\ h.path \in Path,
           derived' \in [Node -> 0..MaxNode]
    PROVE  HeirShape'
<1>1. heir \in [Inheritor -> HeirRow]
    BY DEF Inv, HeirShape
<1>2. heir' \in [Inheritor -> HeirRow]
    BY <1>1
<1>3. \A j \in Inheritor : heir'[j].at \notin {"idle", "done"} =>
          heir'[j].child \in Node /\ heir'[j].path \in Path
    BY <1>1 DEF Inv, HeirShape
<1> QED BY <1>2, <1>3 DEF HeirShape

LEMMA InheritMoves ==
    ASSUME Inv, NEW i \in Inheritor, InheritStep(i)
    PROVE  HeirShape'
<1> DEFINE H == heir[i]
<1>1. /\ heir \in [Inheritor -> HeirRow] /\ H \in HeirRow
      /\ derived \in [Node -> 0..MaxNode]
      /\ H.at \notin {"idle", "done"} => H.child \in Node /\ H.path \in Path
    BY DEF Inv, HeirShape
<1>2. nodes \in Table /\ 0 \in 0..MaxNode /\ Node \subseteq 0..MaxNode
    BY NodeStoreAssumption DEF Inv, LibraryShape, Node
<1>3. ASSUME Away(i), derived' \in [Node -> 0..MaxNode] PROVE HeirShape'
  <2> QED BY <1>3, GoneHeir, HeirMoves DEF Away
<1>4. ASSUME NEW s \in {"written", "retry", "refreshed"}, heir' = [heir EXCEPT ![i].at = s],
             H.at \notin {"idle", "done"}, derived' = derived
      PROVE  HeirShape'
  <2>1. PICK h : h = [H EXCEPT !.at = s]
      OBVIOUS
  <2>2. h \in HeirRow /\ h.child = H.child /\ h.path = H.path
      BY <1>1, <2>1 DEF HeirRow
  <2>3. heir' = [heir EXCEPT ![i] = h]
      BY <1>4, <2>1
  <2> QED BY <1>1, <1>4, <2>2, <2>3, HeirMoves
<1>5. CASE \E n \in Node : LoadChild(i, n)
  <2>1. PICK n \in Node : LoadChild(i, n)
      BY <1>5
  <2> DEFINE h == [at |-> "loaded", child |-> n, path |-> nodes[n].path,
                   from |-> derived[n], parent |-> 0]
  <2>2. h \in HeirRow /\ h.child \in Node /\ h.path \in Path
      BY <1>1, <1>2 DEF HeirRow, Table, Row
  <2>3. heir' = [heir EXCEPT ![i] = h] /\ derived' = derived
      BY <2>1 DEF LoadChild
  <2> HIDE DEF h
  <2> QED BY <1>1, <2>2, <2>3, HeirMoves
<1>6. CASE PlanInherit(i)
  <2>1. derived' = derived /\ H.at = "loaded"
      BY <1>6 DEF PlanInherit
  <2>2. CASE Away(i)
      BY <1>1, <1>3, <2>1, <2>2
  <2>3. CASE ~Away(i)
    <3> DEFINE wins == WinningParents(H.child)
               from == (CHOOSE k \in wins : TRUE).src
    <3>1. wins # {} /\ heir' = [heir EXCEPT ![i].at = "writing", ![i].parent = from]
        BY <1>6, <2>3 DEF PlanInherit
    <3>2. from \in 0..MaxNode
      <4>1. wins \subseteq EdgeKey
          BY DEF WinningParents
      <4>2. (CHOOSE k \in wins : TRUE) \in EdgeKey
          BY <3>1, <4>1
      <4> QED BY <1>2, <4>2, LineageAssumption
    <3> HIDE DEF wins, from
    <3>3. PICK h : h = [H EXCEPT !.at = "writing", !.parent = from]
        OBVIOUS
    <3>4. h \in HeirRow /\ h.child = H.child /\ h.path = H.path
        BY <1>1, <3>2, <3>3 DEF HeirRow
    <3>5. heir' = [heir EXCEPT ![i] = h]
        BY <1>1, <3>1, <3>3
    <3> QED BY <1>1, <2>1, <3>4, <3>5, HeirMoves
  <2> QED BY <2>2, <2>3
<1>7. CASE WriteTags(i) \/ Refresh(i) \/ RefreshFails(i)
  <2>1. derived' = derived /\ H.at \in {"writing", "written"}
      BY <1>7 DEF WriteTags, Refresh, RefreshFails, RefreshNode
  <2>2. Away(i) \/ \E s \in {"written", "retry", "refreshed"} : heir' = [heir EXCEPT ![i].at = s]
      BY <1>7 DEF WriteTags, Refresh, RefreshFails, At
  <2> QED BY <1>1, <1>3, <1>4, <2>1, <2>2
<1>8. CASE RetryRefresh(i) \/ RetryFails(i)
  <2>1. derived' = derived /\ Away(i)
      BY <1>8 DEF RetryRefresh, RetryFails, RefreshNode
  <2> QED BY <1>1, <1>3, <2>1
<1>9. CASE Backfill(i)
  <2>1. H.parent \in 0..MaxNode
      BY <1>1 DEF HeirRow
  <2>2. derived' \in [Node -> 0..MaxNode]
      BY <1>1, <1>9, <2>1 DEF Backfill
  <2>3. Away(i)
      BY <1>9 DEF Backfill
  <2> QED BY <1>3, <2>2, <2>3
<1> QED BY <1>5, <1>6, <1>7, <1>8, <1>9 DEF InheritStep

\* A refresh takes the row's hash away.
LEMMA RefreshWanes ==
    ASSUME NEW t \in Table, NEW n \in Node, NEW c \in Content
    PROVE  LET u == RefreshMediaNodeAfterInPlaceWrite(t, n, c)
           IN  /\ u \in Table /\ Wanes(t, u) /\ Stays(t, u)
               /\ u[n].full = NoHash
<1> DEFINE u == RefreshMediaNodeAfterInPlaceWrite(t, n, c)
<1>1. FastOf[c] \in FastHash /\ NoHash \in FullHash
    BY NodeStoreAssumption DEF FullHash
<1>2. u \in Table
    BY <1>1 DEF RefreshMediaNodeAfterInPlaceWrite, Table, Row
<1>3. /\ u[n].full = NoHash /\ u[n].state = t[n].state /\ u[n].path = t[n].path
      /\ \A m \in Node \ {n} : u[m] = t[m]
    BY DEF RefreshMediaNodeAfterInPlaceWrite, Table, Row
<1> HIDE DEF u
<1>4. Wanes(t, u) /\ Stays(t, u)
    BY <1>3 DEF Wanes, Stays, Live
<1> QED BY <1>2, <1>3, <1>4 DEF u

LEMMA InheritKeeps ==
    ASSUME Inv, NEW i \in Inheritor, Inherits(i)
    PROVE  Inv'
<1>1. InheritStep(i) /\ Beside /\ NotScan /\ duty' = duty
    BY DEF Inherits, On
<1>2. \A n \in Node : Unread(n)' = Unread(n)
    BY DEF Inherits, Unread
<1>3. PurgeShape' /\ PurgeSound'
    BY <1>1, <1>2, BesideFrame
<1>4. HeirShape'
    BY <1>1, InheritMoves
<1>5. /\ heir[i].at \notin {"idle", "done"} => heir[i].child \in Node /\ heir[i].path \in Path
      /\ nodes \in Table /\ disk \in [Path -> File] /\ stat \in [Node -> File]
    BY DEF Inv, HeirShape, LibraryShape
<1> DEFINE Moved == /\ nodes' \in Table /\ Wanes(nodes, nodes') /\ Stays(nodes, nodes')
                    /\ \A n \in Node : nodes'[n].full # NoHash => stat'[n] = stat[n]
                    /\ stat' \in [Node -> File] /\ disk' \in [Path -> File]
<1>6. Moved
  <2>1. ASSUME NEW n \in Node, NEW p \in Path, RefreshNode(n, p)
        PROVE  Moved
      BY <1>5, <2>1, RefreshWanes DEF RefreshNode, File
  <2>2. ASSUME UNCHANGED <<nodes, stat>>, disk' \in [Path -> File]
        PROVE  Moved
      BY <1>5, <2>2 DEF Wanes, Stays
  <2>3. CASE (\E n \in Node : LoadChild(i, n)) \/ PlanInherit(i) \/ RefreshFails(i) \/ RetryFails(i)
             \/ Backfill(i)
    <3>1. UNCHANGED <<nodes, stat, disk>>
        BY <2>3 DEF LoadChild, PlanInherit, RefreshFails, RetryFails, Backfill, library
    <3> QED BY <1>5, <2>2, <3>1
  <2>4. CASE WriteTags(i)
    <3>1. \A c \in Content : Tagged[c] \in Content
        BY InheritAssumption
    <3>2. UNCHANGED <<nodes, stat>> /\ disk' \in [Path -> File]
        BY <1>5, <2>4, <3>1 DEF WriteTags, File
    <3> QED BY <2>2, <3>2
  <2>5. CASE Refresh(i)
      BY <1>5, <2>1, <2>5 DEF Refresh
  <2>6. CASE RetryRefresh(i)
    <3>1. heir[i].child \in Node
        BY <1>5, <2>6 DEF RetryRefresh
    <3>2. nodes[heir[i].child].path \in Path
        BY <1>5, <3>1 DEF Table, Row
    <3> QED BY <2>1, <2>6, <3>1, <3>2 DEF RetryRefresh
  <2> QED BY <1>1, <2>3, <2>4, <2>5, <2>6 DEF InheritStep
<1>7. Rows'
    BY <1>2, <1>6, RowsFrame
<1>8. ScanSound' /\ FoundShape'
    BY <1>1, <1>2, <1>6, ScanFrame DEF NotScan
<1> QED BY <1>1, <1>3, <1>4, <1>6, <1>7, <1>8 DEF Inv, LibraryShape

----------------------------------------------------------------------------
\* Scans.

LEMMA ScanReadsKeeps ==
    ASSUME Inv, Apart, NEW p \in Path, ScanReads(p), Beside, duty' = duty, "scan" \in duty
    PROVE  Inv'
<1> DEFINE c == disk[p]
           r == Processed(p, c)
<1>1. /\ c \in Content /\ found' = <<r>>
      /\ UNCHANGED <<nodes, stat, disk, inheriting, except>>
    BY DEF ScanReads, Inv, LibraryShape, File, library
<1>2. /\ Scanned(r) /\ r.path = p /\ r.stat = c
      /\ r.full = NoHash => ~ NeedsFullHash(p, FastHashCollides(p, c)) \/ FullHashStillValid(p, c)
    BY <1>1, NodeStoreAssumption DEF Scanned, Hashed, Processed, HashedAs, FullHash
<1> HIDE DEF r, c
<1>3. FoundShape'
    BY <1>1, <1>2 DEF FoundShape
<1>4. Covered(nodes, r)
  <2>1. SUFFICES ASSUME r.full = NoHash, LocOf[p] \in Tier3
                 PROVE  /\ LiveAt(nodes, p) # {}
                        /\ \A m \in LiveAt(nodes, p) : nodes[m].full \in {NoHash, c}
      BY <1>2 DEF Covered
  <2>2. FullHashStillValid(p, c)
      BY <1>2, <2>1, LibraryAssumption DEF Apart, NeedsFullHash
  <2>3. PICK n \in LiveAt(nodes, p) : nodes[n].full # NoHash /\ stat[n] = c
      BY <2>2 DEF FullHashStillValid
  <2>4. nodes[n].full = c
      BY <2>1, <2>3 DEF Inv, Rows, Described, ScanSound, LiveAt
  <2>5. \A m \in LiveAt(nodes, p) : m = n
      BY <2>3 DEF Inv, Rows, LivePathUnique, LiveAt
  <2> QED BY <2>3, <2>4, <2>5
<1>5. \A n \in Node : Unread(n)' = Unread(n)
    BY <1>1 DEF Unread
<1>6. ScanSound'
    BY <1>1, <1>4, <1>5 DEF Inv, ScanSound
<1>7. Rows'
    BY <1>1, <1>5 DEF Inv, Rows, Described
<1>8. PurgeShape' /\ PurgeSound'
    BY <1>5, BesideFrame
<1>9. HeirShape' /\ LibraryShape' /\ duty' \in Duties
    BY <1>1 DEF Inv, HeirShape, LibraryShape, inheriting
<1> QED BY <1>3, <1>6, <1>7, <1>8, <1>9 DEF Inv

LEMMA ScanCommitsKeeps ==
    ASSUME Inv, ScanCommits, Beside, duty' = duty, "scan" \in duty
    PROVE  Inv'
<1> DEFINE r == found[1]
           out == CommitOne(nodes, r)
<1>1. /\ found = <<r>> /\ Scanned(r) /\ Covered(nodes, r) /\ FreeIds(nodes) # {}
      /\ nodes \in Table /\ stat \in [Node -> File] /\ found' = <<>>
      /\ disk' = disk /\ UNCHANGED inheriting
    BY DEF ScanCommits, Inv, FoundShape, ScanSound, LibraryShape
<1>2. /\ nodes' = IF out.ok THEN out.nodes ELSE nodes
      /\ stat' = IF out.ok THEN [n \in Node |-> IF n \in out.seen THEN r.stat ELSE stat[n]]
                 ELSE stat
  <2> HIDE DEF r
  <2>1. found = <<r>>
      BY <1>1
  <2> QED BY <2>1, BatchOfOne DEF ScanCommits
<1>3. \A n \in Node : ~ Unread(n) /\ ~ Unread(n)'
  <2>1. \A n \in Node : ~ Unread(n)
      BY DEF Inv, ScanSound
  <2>2. \A x \in except' : x \in except \/ x[1] = "rewritten"
      BY DEF ScanCommits
  <2> QED BY <2>1, <2>2 DEF Unread
<1>4. /\ out.nodes \in Table /\ Sees(nodes, out.nodes, out.seen, r)
      /\ out.ok => LivePathUnique(out.nodes)
  <2>1. Hashed(r)
      BY <1>1 DEF Scanned
  <2>2. out.nodes \in Table
      BY <1>1, <2>1, CommitKeepsRetired
  <2>3. Sees(nodes, out.nodes, out.seen, r)
      BY <1>1, CommitSees
  <2>4. out.ok => LivePathUnique(out.nodes)
    <3>1. out.ok => Schema(out.nodes)
        BY CommitLegal
    <3> QED BY <3>1 DEF Schema
  <2> QED BY <2>2, <2>3, <2>4
<1> HIDE DEF out, r
<1>5. LibraryShape'
    BY <1>1, <1>2, <1>4 DEF Inv, LibraryShape, Scanned, File
<1>6. Rows'
  <2>1. LivePathUnique(nodes')
      BY <1>2, <1>4 DEF Inv, Rows
  <2>2. ASSUME NEW n \in Node PROVE Described(n)'
    <3>1. CASE ~out.ok
        BY <1>2, <1>3, <3>1 DEF Inv, Rows, Described
    <3>2. CASE out.ok /\ n \in out.seen
      <4>1. stat'[n] = r.stat
          BY <1>2, <3>2
      <4> QED BY <1>2, <1>4, <3>2, <4>1 DEF Sees, Described
    <3>3. CASE out.ok /\ n \notin out.seen
      <4>1. stat'[n] = stat[n]
          BY <1>2, <3>3
      <4>2. Live(nodes'[n]) =>
               Live(nodes[n]) /\ nodes'[n].path = nodes[n].path /\ nodes'[n].full = nodes[n].full
          BY <1>2, <1>4, <3>3 DEF Sees
      <4> QED BY <1>3, <4>1, <4>2 DEF Inv, Rows, Described
    <3> QED BY <3>1, <3>2, <3>3
  <2> QED BY <2>1, <2>2 DEF Rows
<1>7. ScanSound' /\ FoundShape'
    BY <1>1, <1>3 DEF ScanSound, FoundShape
<1>8. PurgeShape' /\ PurgeSound'
    BY <1>3, BesideFrame
<1>9. HeirShape' /\ duty' \in Duties
    BY <1>1 DEF Inv, HeirShape, inheriting
<1> QED BY <1>5, <1>6, <1>7, <1>8, <1>9 DEF Inv

----------------------------------------------------------------------------
\* What comes from outside.

LEMMA RecordTyped ==
    ASSUME NEW t \in Table, NEW n \in Node, NEW h \in FullHash, NEW src \in Source
    PROVE  /\ RecordFullHashSource(t, n, h, src) \in Table
           /\ \A m \in Node \ {n} : RecordFullHashSource(t, n, h, src)[m] = t[m]
<1>1. CASE h = NoHash
    BY <1>1 DEF RecordFullHashSource
<1>2. CASE h # NoHash
  <2>1. PICK from \in Source :
            RecordFullHashSource(t, n, h, src) = [t EXCEPT ![n].prov = [src |-> from, hash |-> h]]
      BY <1>2 DEF RecordFullHashSource, Source
  <2>2. [src |-> from, hash |-> h] \in [src : Source, hash : FullHash]
      OBVIOUS
  <2> QED BY <2>1, <2>2 DEF Table, Row
<1> QED BY <1>1, <1>2

LEMMA RebaseKeepsInv ==
    ASSUME Inv, Apart, NEW n \in Owned, NEW p \in Path, NEW h \in FullHash,
           NEW s \in {stat[n], disk[p]}, "device" \in duty, duty' = duty,
           DeviceRebases(n, p, h, s), Beside, NotScan
    PROVE  Inv'
<1> DEFINE moved  == [nodes EXCEPT ![n].path = p, ![n].state = "ACTIVE"]
           filled == UpdateMediaNodeFullHash(moved, n, h)
           hashed == RecordFullHashSource(filled, n, h, "AGENT")
<1>1. /\ "scan" \notin duty /\ found = <<>> /\ found' = found
      /\ n \in Node /\ nodes \in Table /\ stat \in [Node -> File] /\ s \in File
      /\ disk' = disk /\ UNCHANGED inheriting
      /\ stat' = [stat EXCEPT ![n] = s] /\ except' = except \cup {<<"unread", n>>}
    BY UpkeepAssumption
    DEF Apart, Inv, FoundShape, LibraryShape, NotScan, DeviceRebases, lineage
<1>2. /\ nodes' = moved \/ nodes' = hashed
      /\ LivePathUnique(nodes')
    BY DEF DeviceRebases, Schema
<1>3. /\ moved \in Table /\ \A m \in Node \ {n} : moved[m] = nodes[m]
    BY ZenonT(60), <1>1 DEF Table, Row, LifecycleState
<1> HIDE DEF moved
<1>4. /\ filled \in Table /\ \A m \in Node \ {n} : filled[m] = nodes[m]
    BY ZenonT(60), <1>1, <1>3 DEF UpdateMediaNodeFullHash, Table, Row
<1> HIDE DEF filled
<1>5. /\ hashed \in Table /\ \A m \in Node \ {n} : hashed[m] = nodes[m]
    BY <1>1, <1>4, RecordTyped DEF Source
<1> HIDE DEF hashed
<1>6. /\ nodes' \in Table /\ \A m \in Node \ {n} : nodes'[m] = nodes[m]
    BY <1>2, <1>3, <1>5
<1>7. \A m \in Node : Unread(m)' <=> Unread(m) \/ m = n
    BY <1>1 DEF Unread
<1>8. Rows'
  <2>1. ASSUME NEW m \in Node PROVE Described(m)'
      BY <1>1, <1>6, <1>7 DEF Inv, Rows, Described
  <2> QED BY <1>2, <2>1 DEF Rows
<1>9. LibraryShape'
    BY <1>1, <1>6 DEF Inv, LibraryShape
<1>10. ScanSound' /\ FoundShape' /\ HeirShape' /\ duty' \in Duties
    BY <1>1 DEF Inv, ScanSound, FoundShape, HeirShape, inheriting
<1>11. PurgeShape' /\ PurgeSound'
    BY <1>7, BesideFrame
<1> QED BY <1>8, <1>9, <1>10, <1>11 DEF Inv

LEMMA OutsideKeeps ==
    ASSUME Inv, Apart, Outside
    PROVE  Inv'
<1>1. Beside /\ NotScan /\ duty' = duty
    BY DEF Outside, On
<1>2. CASE On("scan") /\ \E n \in Node : Sweep(n)
  <2>1. PICK n \in Node : Sweep(n)
      BY <1>2
  <2>2. /\ nodes' = MarkNodeMissing(nodes, n) /\ nodes \in Table
        /\ UNCHANGED <<stat, disk, inheriting, except>>
      BY <2>1 DEF Sweep, Inv, LibraryShape
  <2>3. /\ nodes' \in Table /\ Wanes(nodes, nodes') /\ Stays(nodes, nodes')
      BY <2>2, MarkWanes
  <2>4. \A m \in Node : Unread(m)' = Unread(m)
      BY <2>2 DEF Unread
  <2>5. Rows'
      BY <2>2, <2>3, <2>4, RowsFrame
  <2>6. ScanSound' /\ FoundShape'
      BY <1>1, <2>3, <2>4, ScanFrame DEF NotScan
  <2>7. PurgeShape' /\ PurgeSound'
      BY <1>1, <2>4, BesideFrame
  <2>8. HeirShape' /\ LibraryShape' /\ duty' \in Duties
      BY <1>1, <2>2, <2>3 DEF Inv, HeirShape, LibraryShape, inheriting
  <2> QED BY <2>5, <2>6, <2>7, <2>8 DEF Inv
<1>3. CASE On("person") /\ \E n \in Node : Archive(n)
  <2>1. PICK n \in Node : Archive(n)
      BY <1>3
  <2>2. /\ nodes' = ArchiveMediaNode(nodes, n) /\ nodes \in Table
        /\ UNCHANGED <<stat, disk, inheriting, except>>
      BY <2>1 DEF Archive, Inv, LibraryShape
  <2>3. nodes' \in Table /\ Wanes(nodes, nodes')
    <3>1. nodes' \in Table
        BY <2>2 DEF ArchiveMediaNode, SetState, Table, Row, LifecycleState
    <3>2. \A m \in Node : /\ nodes'[m].path = nodes[m].path /\ nodes'[m].full = nodes[m].full
                          /\ nodes'[m].state = IF m = n THEN "ARCHIVED" ELSE nodes[m].state
        BY <2>2 DEF ArchiveMediaNode, SetState, Table, Row
    <3> QED BY <3>1, <3>2 DEF Wanes, Live
  <2>4. \A m \in Node : Unread(m)' = Unread(m)
      BY <2>2 DEF Unread
  <2>5. "scan" \notin duty
      BY <1>3 DEF On, Apart, Inv
  <2>6. Rows'
      BY <2>2, <2>3, <2>4, RowsFrame
  <2>7. ScanSound' /\ FoundShape'
      BY <1>1, <2>5, ScanFrame DEF NotScan
  <2>8. PurgeShape' /\ PurgeSound'
      BY <1>1, <2>4, BesideFrame
  <2>9. HeirShape' /\ LibraryShape' /\ duty' \in Duties
      BY <1>1, <2>2, <2>3 DEF Inv, HeirShape, LibraryShape, inheriting
  <2> QED BY <2>6, <2>7, <2>8, <2>9 DEF Inv
<1>4. CASE On("person") /\ PersonReviews /\ UNCHANGED <<rehashing, thumbs, inheriting, except>>
    BY <1>1, <1>4, QuietKeeps DEF PersonReviews
<1>5. CASE /\ On("device")
           /\ \E n \in Owned, p \in Path, h \in FullHash :
                 DeviceRebases(n, p, h, stat[n]) \/ DeviceRebases(n, p, h, disk[p])
  <2>1. PICK n \in Owned, p \in Path, h \in FullHash :
                DeviceRebases(n, p, h, stat[n]) \/ DeviceRebases(n, p, h, disk[p])
      BY <1>5
  <2>2. PICK s \in {stat[n], disk[p]} : DeviceRebases(n, p, h, s)
      BY <2>1
  <2> QED BY <1>1, <1>5, <2>2, RebaseKeepsInv DEF On
<1>6. CASE \E p \in Path, c \in File : Write(p, c)
  <2>1. PICK p \in Path, c \in File : Write(p, c)
      BY <1>6
  <2>2. /\ UNCHANGED <<nodes, stat, inheriting>> /\ disk' = [disk EXCEPT ![p] = c]
        /\ except' = except \cup {<<"rewritten", n>> : n \in LiveAt(nodes, p)}
      BY <2>1 DEF Write
  <2>3. \A m \in Node : Unread(m)' = Unread(m)
      BY <2>2 DEF Unread
  <2>4. HeirShape' /\ LibraryShape' /\ duty' \in Duties
      BY <1>1, <2>2 DEF Inv, HeirShape, LibraryShape, inheriting
  <2>5. Rows' /\ ScanSound' /\ FoundShape'
      BY <1>1, <2>2, <2>3, SameFrame DEF NotScan
  <2>6. PurgeShape' /\ PurgeSound'
      BY <1>1, <2>3, BesideFrame
  <2> QED BY <2>4, <2>5, <2>6 DEF Inv
<1> QED BY <1>2, <1>3, <1>4, <1>5, <1>6 DEF Outside

LEMMA RestartKeeps ==
    ASSUME Inv, Restart, duty' = duty
    PROVE  Inv'
<1>1. /\ UNCHANGED <<nodes, stat, disk, derived>> /\ purge' = NoPurge /\ found' = <<>>
      /\ \A n \in Node : Unread(n)' = Unread(n)
    BY DEF Restart, lineage, Unread
<1>2. PurgeShape' /\ PurgeSound'
    BY <1>1, NextSound
<1>3. HeirShape'
  <2>1. heir \in [Inheritor -> HeirRow] /\ derived \in [Node -> 0..MaxNode]
      BY DEF Inv, HeirShape
  <2>2. heir' = [i \in Inheritor |-> IF heir[i].at = "idle" THEN heir[i]
                                     ELSE [NoHeir EXCEPT !.at = "done"]]
      BY DEF Restart
  <2>3. \A i \in Inheritor : heir'[i] \in HeirRow /\ heir'[i].at \in {"idle", "done"}
      BY <2>1, <2>2, GoneHeir
  <2>4. heir' \in [Inheritor -> HeirRow]
      BY <2>2, <2>3
  <2> QED BY <1>1, <2>1, <2>3, <2>4 DEF HeirShape
<1>4. LibraryShape' /\ FoundShape' /\ duty' \in Duties
    BY <1>1 DEF Inv, LibraryShape, FoundShape
<1>5. Rows' /\ ScanSound'
    BY <1>1 DEF Inv, Rows, Described, ScanSound
<1> QED BY <1>2, <1>3, <1>4, <1>5 DEF Inv

----------------------------------------------------------------------------
\* The theorems.

LEMMA InitInv ==
    ASSUME Init
    PROVE  Inv
<1>1. /\ nodes = InitNodes /\ disk = InitDisk /\ InitNodes \in Table /\ LivePathUnique(InitNodes)
      /\ stat = [n \in Node |-> IF InitNodes[n].full \in Content THEN InitNodes[n].full ELSE NoFile]
    BY LibraryAssumption DEF Init, LibraryInit, LibraryStarts, Schema
<1>2. LibraryShape
    BY <1>1, LibraryAssumption DEF LibraryShape, File
<1>3. \A n \in Node : Described(n)
  <2>1. \A n \in Node : nodes[n].full \in FullHash
      BY <1>1 DEF Table, Row
  <2> QED BY <1>1, <2>1 DEF Described, FullHash
<1>4. PurgeShape /\ PurgeSound
    BY DEF Init, PruneInit, NoPurge, PurgeShape, PurgeSound
<1>5. FoundShape /\ ScanSound
    BY DEF Init, FoundShape, ScanSound, Unread
<1>6. HeirShape
  <2>1. 0 \in 0..MaxNode
      BY NodeStoreAssumption
  <2>2. heir = [i \in Inheritor |-> NoHeir] /\ derived = [n \in Node |-> 0]
      BY DEF Init, InheritInit
  <2> HIDE DEF NoHeir
  <2> QED BY <2>1, <2>2, GoneHeir DEF HeirShape
<1>7. duty \in Duties
    BY DEF Init
<1> QED BY <1>1, <1>2, <1>3, <1>4, <1>5, <1>6, <1>7 DEF Inv, Rows

LEMMA NextInv ==
    ASSUME Inv, Apart, [Next]_vars
    PROVE  Inv'
<1>1. CASE Purges
    BY <1>1, PurgeKeeps
<1>2. CASE Rehashes
    BY <1>2, RehashKeeps
<1>3. CASE RehashWaits \/ RehashFault \/ Thumbnails \/ CacheFaults
    BY <1>3, WorkersKeep
<1>4. CASE \E i \in Inheritor : Inherits(i)
    BY <1>4, InheritKeeps
<1>5. CASE Scans
    BY <1>5, ScanReadsKeeps, ScanCommitsKeeps DEF Scans, On
<1>6. CASE Outside
    BY <1>6, OutsideKeeps
<1>7. CASE UNCHANGED duty /\ Restart
    BY <1>7, RestartKeeps
<1>8. CASE UNCHANGED vars
  <2>1. UNCHANGED <<nodes, stat, disk, edges, purge, calm, heir, derived, found, except, duty>>
      BY <1>8 DEF vars, library, lineage, pruning, inheriting
  <2>2. LibraryShape' /\ PurgeShape' /\ FoundShape' /\ HeirShape' /\ duty' \in Duties
      BY <2>1 DEF Inv, LibraryShape, PurgeShape, FoundShape, HeirShape
  <2>3. \A n : Unread(n)' = Unread(n) /\ Intact(n)' = Intact(n)
      BY <2>1 DEF Unread, Intact
  <2>4. Rows' /\ ScanSound'
      BY <2>1, <2>3 DEF Inv, Rows, Described, ScanSound
  <2>5. PurgeSound'
      BY <2>1, <2>3 DEF Inv, PurgeSound
  <2> QED BY <2>2, <2>4, <2>5 DEF Inv
<1> QED BY <1>1, <1>2, <1>3, <1>4, <1>5, <1>6, <1>7, <1>8 DEF Next

\* An unlink is of what the purge planned, and leaves an intact master.
LEMMA UnlinkSound ==
    ASSUME Inv, Unlinks, calm
    PROVE  /\ disk[purge.todo[1].path] = purge.todo[1].stat
           /\ \E a \in VerifiedMasters(purge.todo[1].id) :
                 disk[a.path] = nodes[a.id].full \/ <<"unread", a.id>> \in except
<1>1. /\ disk[purge.todo[1].path] = purge.todo[1].stat
      /\ \E x \in MasterIds(nodes, edges, purge.todo[1].id) : Intact(x)
    BY DEF Inv, PurgeSound, Unlinks
<1>2. PICK x \in MasterIds(nodes, edges, purge.todo[1].id) : Intact(x)
    BY <1>1
<1>3. [id |-> x, path |-> nodes[x].path, stat |-> stat[x]] \in VerifiedMasters(purge.todo[1].id)
    BY MastersById
<1> QED BY <1>1, <1>2, <1>3 DEF Intact, Unread

\* No two live rows are of one path, and a master that a device has not
\* re-pointed describes one version of its file: its verified hash is that of
\* the version whose mtime it records, whatever scans, the re-hash worker,
\* inheritance and people do to it meanwhile.
THEOREM MastersDescribed ==
    ASSUME Apart
    PROVE  Spec => []Rows
<1>1. Init => Inv
    BY InitInv
<1>2. Inv /\ [Next]_vars => Inv'
    BY NextInv
<1>3. Inv => Rows
    BY DEF Inv
<1> QED BY <1>1, <1>2, <1>3, PTL DEF Spec

\* A purge (prune.execute) unlinks the version it planned, and only while a
\* master of it is live whose file is what its verified hash says.
THEOREM PurgesLeaveMaster ==
    ASSUME Apart
    PROVE  Spec => PurgeLeavesMaster
<1>1. Init => Inv
    BY InitInv
<1>2. Inv /\ [Next]_vars => Inv'
    BY NextInv
<1>3. Inv => (Unlinks /\ calm =>
                /\ disk[purge.todo[1].path] = purge.todo[1].stat
                /\ \E a \in VerifiedMasters(purge.todo[1].id) :
                      \/ disk[a.path] = nodes[a.id].full
                      \/ <<"unread", a.id>> \in except)
    BY UnlinkSound
<1> QED BY <1>1, <1>2, <1>3, PTL DEF Spec, PurgeLeavesMaster

\* Only a device makes a row one that no one has read.
LEMMA UnreadByDevice ==
    ASSUME [Next]_vars, "device" \notin duty, NEW n, Unread(n)'
    PROVE  Unread(n)
<1>1. CASE Purges
    BY <1>1 DEF Purges, Unread
<1>2. CASE Rehashes
    BY <1>2 DEF Rehashes, Unread
<1>3. CASE RehashWaits \/ RehashFault \/ Thumbnails \/ CacheFaults
    BY <1>3 DEF RehashWaits, RehashFault, Thumbnails, CacheFaults, Unread
<1>4. CASE \E i \in Inheritor : Inherits(i)
    BY <1>4 DEF Inherits, Unread
<1>5. CASE Scans
  <2>1. CASE \E p \in Path : ScanReads(p)
      BY <2>1 DEF ScanReads, Unread
  <2>2. CASE ScanCommits
    <3>1. \A x \in except' : x \in except \/ x[1] = "rewritten"
        BY <2>2 DEF ScanCommits
    <3> QED BY <3>1 DEF Unread
  <2> QED BY <1>5, <2>1, <2>2 DEF Scans
<1>6. CASE Outside
  <2>1. except' = except \/ \E p \in Path, c \in File : Write(p, c)
      BY <1>6 DEF Outside, On, Sweep, Archive
  <2>2. ASSUME NEW p \in Path, NEW c \in File, Write(p, c) PROVE Unread(n)
      BY <2>2 DEF Write, Unread
  <2> QED BY <2>1, <2>2 DEF Unread
<1>7. CASE UNCHANGED duty /\ Restart
    BY <1>7 DEF Restart, Unread
<1>8. CASE UNCHANGED vars
    BY <1>8 DEF vars, Unread
<1> QED BY <1>1, <1>2, <1>3, <1>4, <1>5, <1>6, <1>7, <1>8 DEF Next

\* Where no device re-points rows, no master is excepted: what a purge leaves is
\* a master that the server has read at its path.
THEOREM PurgesReadMaster ==
    ASSUME Apart, \A d \in Duties : "device" \notin d
    PROVE  Spec => PurgeReadsMaster
<1> DEFINE AllRead == Inv /\ \A n \in Node : ~ Unread(n)
<1>1. Init => AllRead
    BY InitInv DEF Init, Unread
<1>2. AllRead /\ [Next]_vars => AllRead'
    BY NextInv, UnreadByDevice DEF Inv
<1>3. AllRead => (Unlinks /\ calm =>
                    \E a \in VerifiedMasters(purge.todo[1].id) : disk[a.path] = nodes[a.id].full)
  <2>1. SUFFICES ASSUME AllRead, Unlinks, calm
                 PROVE  \E a \in VerifiedMasters(purge.todo[1].id) : disk[a.path] = nodes[a.id].full
      OBVIOUS
  <2>2. PICK a \in VerifiedMasters(purge.todo[1].id) :
                disk[a.path] = nodes[a.id].full \/ Unread(a.id)
      BY <2>1, UnlinkSound DEF Unread
  <2>3. a.id \in Node
      BY MastersById, MastersAreRows
  <2> QED BY <2>1, <2>2, <2>3
<1> HIDE DEF AllRead
<1> QED BY <1>1, <1>2, <1>3, PTL DEF Spec, PurgeReadsMaster
=============================================================================
