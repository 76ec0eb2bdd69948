-------------------------- MODULE Lineage_proofs ---------------------------
(***************************************************************************)
(* Theorems about Lineage, Agent and Families.  First what the cycle check *)
(* of internal/graph buys, for every set of rows and edges, and what the   *)
(* resolvers' transaction does to the edges, for every list of candidates: *)
(* both are recursions, unfolded here by the least index at which a claim  *)
(* about them fails.  Then, for every set of devices, scripts of events,   *)
(* library and lineage the assumptions allow: devices keep to what is      *)
(* theirs, events take effect in order, and what people, resolvers,        *)
(* snapshots and devices do to the lineage fits together.  Last, for every *)
(* set of files, whatever they record of themselves: what the resolvers    *)
(* propose, the batches, the second looks and the uploads beside them      *)
(* leave every file in its role.                                           *)
(***************************************************************************)
EXTENDS Agent, Families, Commit_proofs, FiniteSetTheorems, SequenceTheorems

LEMMA RangeFinite ==
    ASSUME NEW n \in Nat
    PROVE  IsFiniteSet(1..n)
BY FS_Interval

USE NodeStoreAssumption, EdgeStoreAssumption, LineageAssumption

----------------------------------------------------------------------------
\* The recursive walk of WouldCreateCycle.

On(t) == {k \in EdgeKey : t[k].on}

Levels(t) == Cardinality({k.src : k \in On(t)})

\* One more generation.
Wider(t, found) == found \cup {k.dst : k \in {x \in On(t) : x.src \in found}}

\* f walks m generations down from n.
Walks(f, t, n, m) == f = [i \in 0..m |-> IF i = 0 THEN {n} ELSE Wider(t, f[i - 1])]

\* S has all its children.
Closed(t, S) == \A k \in On(t) : k.src \in S => k.dst \in S

LEMMA WalkExists ==
    ASSUME NEW t, NEW n, NEW m \in Nat
    PROVE  \E f : Walks(f, t, n, m)
<1> DEFINE Bad == {i \in Nat : ~ \E f : Walks(f, t, n, i)}
<1>1. SUFFICES ASSUME Bad # {} PROVE FALSE
    OBVIOUS
<1>2. PICK b \in Bad : \A y \in Bad : b <= y
  <2>1. Bad \in SUBSET Nat
      OBVIOUS
  <2> HIDE DEF Bad
  <2> QED BY <1>1, <2>1, LeastExists
<1>3. CASE b = 0
  <2>1. Walks([i \in 0..0 |-> {n}], t, n, 0)
      BY DEF Walks
  <2> QED BY <1>3, <2>1
<1>4. CASE b # 0
  <2>1. b - 1 \in Nat /\ b - 1 \notin Bad
      BY <1>2, <1>4
  <2>2. PICK f : Walks(f, t, n, b - 1)
      BY <2>1
  <2> DEFINE g == [i \in 0..b |-> IF i = b THEN Wider(t, f[b - 1]) ELSE f[i]]
  <2>3. \A i \in 0..b : g[i] = IF i = 0 THEN {n} ELSE Wider(t, g[i - 1])
    <3>1. TAKE i \in 0..b
    <3>2. CASE i = b
        BY <3>2, <1>4
    <3>3. CASE i # b
      <4>1. i \in 0..(b - 1) /\ g[i] = f[i]
          BY <3>3
      <4>2. f[i] = IF i = 0 THEN {n} ELSE Wider(t, f[i - 1])
          BY <2>2, <4>1 DEF Walks
      <4>3. i # 0 => g[i - 1] = f[i - 1]
          BY <3>3
      <4> QED BY <4>1, <4>2, <4>3
    <3> QED BY <3>2, <3>3
  <2>4. g = [i \in 0..b |-> g[i]]
      OBVIOUS
  <2>5. Walks(g, t, n, b)
    <3> HIDE DEF g
    <3> QED BY <2>3, <2>4 DEF Walks
  <2> QED BY <2>5
<1> QED BY <1>3, <1>4

LEMMA DescendantsWalk ==
    ASSUME NEW t, NEW n, Levels(t) \in Nat
    PROVE  \E f : Walks(f, t, n, Levels(t)) /\ Descendants(t, n) = f[Levels(t)]
<1> DEFINE f == CHOOSE g : Walks(g, t, n, Levels(t))
<1>1. Walks(f, t, n, Levels(t))
    BY WalkExists
<1>2. Descendants(t, n) = (CHOOSE g : g = [i \in 0..Levels(t) |->
                                IF i = 0 THEN {n} ELSE Wider(t, g[i - 1])])[Levels(t)]
    BY DEF Descendants, Levels, Wider, On
<1>3. Descendants(t, n) = f[Levels(t)]
    BY <1>2 DEF Walks
<1> HIDE DEF f
<1> QED BY <1>1, <1>3

\* The sources of edges are rows, so there are finitely many.
LEMMA LevelsNat ==
    ASSUME NEW t
    PROVE  /\ IsFiniteSet({k.src : k \in On(t)})
           /\ Levels(t) \in Nat
<1>1. {k.src : k \in On(t)} \subseteq Node
    BY DEF On
<1>2. IsFiniteSet(Node)
  <2>1. 1 \in Int /\ MaxNode \in Int
      OBVIOUS
  <2> QED BY ONLY <2>1, FS_Interval DEF Node
<1>3. IsFiniteSet({k.src : k \in On(t)})
    BY <1>1, <1>2, FS_Subset
<1> QED BY <1>3, FS_CardinalityType DEF Levels

\* A walk that still finds something new has at every level met a source that is
\* new to it, so it has no more levels than there are sources.
LEMMA WalkGrows ==
    ASSUME NEW t, NEW n, NEW f, NEW L \in Nat, Walks(f, t, n, L),
           NEW j \in 0..L, ~ Closed(t, f[j])
    PROVE  Cardinality(f[j] \cap {k.src : k \in On(t)}) >= j + 1
<1> DEFINE Src == {k.src : k \in On(t)}
           Bad == {i \in 0..L : ~ Closed(t, f[i]) /\ ~ (Cardinality(f[i] \cap Src) >= i + 1)}
<1>0. IsFiniteSet(Src)
    BY LevelsNat
<1>1. \A i \in 0..L : f[i] = IF i = 0 THEN {n} ELSE Wider(t, f[i - 1])
    BY DEF Walks
<1>2. \A S : IsFiniteSet(S \cap Src) /\ Cardinality(S \cap Src) \in Nat
    BY <1>0, FS_Intersection, FS_CardinalityType
<1>3. SUFFICES ASSUME Bad # {} PROVE FALSE
    OBVIOUS
<1>4. PICK b \in Bad : \A y \in Bad : b <= y
  <2>1. Bad \in SUBSET Nat
      OBVIOUS
  <2> HIDE DEF Bad
  <2> QED BY <1>3, <2>1, LeastExists
<1>5. PICK k \in On(t) : k.src \in f[b] /\ k.dst \notin f[b]
    BY <1>4 DEF Closed
<1>6. k.src \in f[b] \cap Src
    BY <1>5
<1>7. CASE b = 0
  <2>1. Cardinality(f[b] \cap Src) # 0
      BY <1>2, <1>6, FS_EmptySet
  <2>2. Cardinality(f[b] \cap Src) \in Nat
      BY <1>2
  <2>3. ~ (Cardinality(f[b] \cap Src) >= b + 1)
      BY <1>4
  <2> HIDE DEF Src
  <2> QED BY <1>7, <2>1, <2>2, <2>3
<1>8. CASE b # 0
  <2>1. b - 1 \in 0..L /\ b - 1 \notin Bad
      BY <1>4, <1>8
  <2>2. f[b] = Wider(t, f[b - 1])
      BY <1>1, <1>4, <1>8
  <2>3. ~ Closed(t, f[b - 1])
    <3>1. SUFFICES ASSUME Closed(t, f[b - 1]) PROVE FALSE
        OBVIOUS
    <3>2. Wider(t, f[b - 1]) = f[b - 1]
        BY <3>1 DEF Wider, Closed
    <3> QED BY <2>2, <3>1, <3>2, <1>5 DEF Closed
  <2>4. Cardinality(f[b - 1] \cap Src) >= b
      BY <2>1, <2>3, <1>4
  <2>5. k.src \notin f[b - 1]
      BY <2>2, <1>5 DEF Wider
  <2> DEFINE Met == f[b - 1] \cap Src
  <2>6. Cardinality(Met \cup {k.src}) = Cardinality(Met) + 1
      BY <1>2, <2>5, FS_AddElement
  <2>7. Met \cup {k.src} \subseteq f[b] \cap Src
      BY <1>6, <2>2 DEF Wider
  <2>8. Cardinality(Met \cup {k.src}) <= Cardinality(f[b] \cap Src)
      BY <1>2, <2>7, FS_Subset
  <2>9. Cardinality(Met) \in Nat /\ Cardinality(f[b] \cap Src) \in Nat
      BY <1>2
  <2>10. b \in Nat /\ ~ (Cardinality(f[b] \cap Src) >= b + 1)
      BY <1>4
  <2> HIDE DEF Met, Src
  <2> QED BY <2>4, <2>6, <2>8, <2>9, <2>10 DEF Met
<1> QED BY <1>7, <1>8

\* What WouldCreateCycle walks is everything active edges lead to: n itself, ...
LEMMA DescendantsSelf ==
    ASSUME NEW t, NEW n
    PROVE  n \in Descendants(t, n)
<1> DEFINE L == Levels(t)
<1>1. PICK f : Walks(f, t, n, L) /\ Descendants(t, n) = f[L]
    BY LevelsNat, DescendantsWalk
<1>2. L \in Nat /\ \A i \in 0..L : f[i] = IF i = 0 THEN {n} ELSE Wider(t, f[i - 1])
    BY <1>1, LevelsNat DEF Walks
<1> DEFINE Bad == {i \in 0..L : n \notin f[i]}
<1> HIDE DEF L
<1>3. SUFFICES ASSUME Bad # {} PROVE FALSE
    BY <1>1, <1>2
<1>4. PICK b \in Bad : \A y \in Bad : b <= y
  <2>1. Bad \in SUBSET Nat
      BY <1>2
  <2> HIDE DEF Bad
  <2> QED BY <1>3, <2>1, LeastExists
<1>5. b # 0
    BY <1>2, <1>4
<1>6. b - 1 \in 0..L /\ b - 1 \notin Bad
    BY <1>2, <1>4, <1>5
<1>7. n \in f[b - 1]
    BY <1>6
<1> QED BY <1>2, <1>4, <1>5, <1>7 DEF Wider

\* ... the children of whatever is in it, ...
LEMMA DescendantsClosed ==
    ASSUME NEW t, NEW n
    PROVE  Closed(t, Descendants(t, n))
<1> DEFINE Src == {k.src : k \in On(t)}
<1>1. PICK f : Walks(f, t, n, Levels(t)) /\ Descendants(t, n) = f[Levels(t)]
    BY LevelsNat, DescendantsWalk
<1>2. SUFFICES ASSUME ~ Closed(t, f[Levels(t)]) PROVE FALSE
    BY <1>1
<1>3. Levels(t) \in Nat /\ Levels(t) \in 0..Levels(t)
  <2>1. Levels(t) \in Nat
      BY LevelsNat
  <2> QED BY <2>1
<1>4. Cardinality(f[Levels(t)] \cap Src) >= Levels(t) + 1
    BY <1>1, <1>2, <1>3, WalkGrows
<1>5. f[Levels(t)] \cap Src \in SUBSET Src /\ IsFiniteSet(Src)
    BY LevelsNat
<1>6. Cardinality(f[Levels(t)] \cap Src) <= Cardinality(Src)
    BY <1>5, FS_Subset
<1>7. Cardinality(f[Levels(t)] \cap Src) \in Nat
    BY <1>5, FS_Subset, FS_CardinalityType
<1>8. Cardinality(Src) = Levels(t)
    BY DEF Levels
<1> HIDE DEF Src
<1> QED BY <1>3, <1>4, <1>6, <1>7, <1>8

\* ... and nothing else.
LEMMA DescendantsLeast ==
    ASSUME NEW t, NEW n, NEW S, n \in S, Closed(t, S)
    PROVE  Descendants(t, n) \subseteq S
<1> DEFINE L == Levels(t)
<1>1. PICK f : Walks(f, t, n, L) /\ Descendants(t, n) = f[L]
    BY LevelsNat, DescendantsWalk
<1>2. L \in Nat /\ \A i \in 0..L : f[i] = IF i = 0 THEN {n} ELSE Wider(t, f[i - 1])
    BY <1>1, LevelsNat DEF Walks
<1> DEFINE Bad == {i \in 0..L : ~ (f[i] \subseteq S)}
<1> HIDE DEF L
<1>3. SUFFICES ASSUME Bad # {} PROVE FALSE
    BY <1>1, <1>2
<1>4. PICK b \in Bad : \A y \in Bad : b <= y
  <2>1. Bad \in SUBSET Nat
      BY <1>2
  <2> HIDE DEF Bad
  <2> QED BY <1>3, <2>1, LeastExists
<1>5. b # 0
    BY <1>2, <1>4
<1>6. b - 1 \in 0..L /\ b - 1 \notin Bad
    BY <1>2, <1>4, <1>5
<1>7. f[b - 1] \subseteq S
    BY <1>6
<1>8. Wider(t, f[b - 1]) \subseteq S
    BY <1>7 DEF Wider, Closed
<1> QED BY <1>2, <1>4, <1>5, <1>8

----------------------------------------------------------------------------
\* Cycles.

\* Edges that go, or go inactive, make none.
LEMMA FewerEdges ==
    ASSUME NEW t, NEW u, On(u) \subseteq On(t), ~ Cyclic(t)
    PROVE  ~ Cyclic(u)
<1>1. SUFFICES ASSUME NEW k \in On(u), k.src \in Descendants(u, k.dst) PROVE FALSE
    BY DEF Cyclic, On
<1>2. Closed(u, Descendants(t, k.dst))
    BY DescendantsClosed DEF Closed
<1>3. Descendants(u, k.dst) \subseteq Descendants(t, k.dst)
    BY <1>2, DescendantsSelf, DescendantsLeast
<1> QED BY <1>1, <1>3 DEF Cyclic, On

\* Any number of new edges into one row d, each from a row that WouldCreateCycle
\* does not find below d, make none: it is enough to ask it of the table the
\* transaction began with.
LEMMA NoCycleMade ==
    ASSUME NEW t, NEW u, NEW d, ~ Cyclic(t),
           \A k \in On(u) : k \in On(t) \/ (k.dst = d /\ k.src \notin Descendants(t, d))
    PROVE  ~ Cyclic(u)
<1>1. SUFFICES ASSUME NEW k \in On(u), k.src \in Descendants(u, k.dst) PROVE FALSE
    BY DEF Cyclic, On
<1> DEFINE below == Descendants(t, d)
<1>2. Closed(t, below) /\ d \in below
    BY DescendantsClosed, DescendantsSelf
<1>3. CASE k.dst \in below
  <2>1. CASE k \in On(t)
    <3>1. Descendants(t, k.dst) \subseteq below
        BY <1>2, <1>3, DescendantsLeast
    <3>2. Closed(u, Descendants(t, k.dst))
        BY <3>1, DescendantsClosed DEF Closed
    <3>3. Descendants(u, k.dst) \subseteq Descendants(t, k.dst)
        BY <3>2, DescendantsSelf, DescendantsLeast
    <3> QED BY <2>1, <3>3, <1>1 DEF Cyclic, On
  <2>2. CASE k \notin On(t)
    <3>1. Closed(u, below)
        BY <1>2 DEF Closed
    <3>2. Descendants(u, k.dst) \subseteq below
        BY <3>1, <1>3, DescendantsLeast
    <3> QED BY <2>2, <3>2, <1>1
  <2> QED BY <2>1, <2>2
<1>4. CASE k.dst \notin below
  <2>1. k \in On(t)
      BY <1>2, <1>4
  <2> DEFINE reach == Descendants(t, k.dst) \cup below
  <2>2. Closed(t, Descendants(t, k.dst)) /\ k.dst \in Descendants(t, k.dst)
      BY DescendantsClosed, DescendantsSelf
  <2>3. Closed(u, reach)
      BY <1>2, <2>2 DEF Closed
  <2>4. Descendants(u, k.dst) \subseteq reach
      BY <2>2, <2>3, DescendantsLeast
  <2>5. k.src \notin Descendants(t, k.dst)
      BY <2>1 DEF Cyclic, On
  <2>6. k.src \notin below
      BY <2>1, <1>2, <1>4 DEF Closed
  <2> QED BY <1>1, <2>4, <2>5, <2>6
<1> QED BY <1>3, <1>4

\* One statement on the edge k, written after WouldCreateCycle said no in the
\* same transaction, closes no cycle of active edges: what the recursive query
\* reaches is enough to ask.
THEOREM NoCycleByOne ==
    ASSUME NEW t, NEW u, NEW k, ~ Cyclic(t), ~ WouldCreateCycle(t, k.src, k.dst),
           \A x \in EdgeKey : x # k => u[x] = t[x]
    PROVE  ~ Cyclic(u)
<1>1. \A x \in On(u) : x \in On(t) \/ (x.dst = k.dst /\ x.src \notin Descendants(t, k.dst))
    BY DEF On, WouldCreateCycle
<1> QED BY <1>1, NoCycleMade

----------------------------------------------------------------------------
\* The statements on media_edges.

LEMMA NewEdgeType ==
    ASSUME NEW st \in ReviewState, NEW conf \in 0..Certain, NEW by \in Origin
    PROVE  NewEdge(st, conf, by) \in Edge
BY DEF NewEdge, Edge

LEMMA UpsertType ==
    ASSUME NEW t \in EdgeTable, NEW k, NEW e \in Edge
    PROVE  /\ UpsertMediaEdge(t, k, e) \in EdgeTable
           /\ \A x \in EdgeKey : x # k => UpsertMediaEdge(t, k, e)[x] = t[x]
           /\ \A x \in EdgeKey : Reviewed(t[x]) => UpsertMediaEdge(t, k, e)[x] = t[x]
<1>1. CASE k \in EdgeKey
    BY <1>1, ZenonT(60) DEF UpsertMediaEdge, EdgeTable, Edge
<1>2. CASE k \notin EdgeKey
  <2>1. \A e2 : [t EXCEPT ![k] = e2] = t
      BY <1>2 DEF EdgeTable
  <2>2. UpsertMediaEdge(t, k, e) = t
      BY <2>1 DEF UpsertMediaEdge
  <2> QED BY <2>2
<1> QED BY <1>1, <1>2

LEMMA CreateType ==
    ASSUME NEW t \in EdgeTable, NEW k, NEW e \in Edge
    PROVE  /\ CreateMediaEdge(t, k, e) \in EdgeTable
           /\ \A x \in EdgeKey : x # k => CreateMediaEdge(t, k, e)[x] = t[x]
           /\ \A x \in EdgeKey : t[x].st # "NONE" => CreateMediaEdge(t, k, e)[x] = t[x]
<1>1. CASE k \in EdgeKey
    BY <1>1 DEF CreateMediaEdge, EdgeTable, Edge
<1>2. CASE k \notin EdgeKey
  <2>1. \A e2 : [t EXCEPT ![k] = e2] = t
      BY <1>2 DEF EdgeTable
  <2>2. CreateMediaEdge(t, k, e) = t
      BY <2>1 DEF CreateMediaEdge
  <2> QED BY <2>2
<1> QED BY <1>1, <1>2

\* A row's status follows from the edges into it.
LEMMA StatusFollows ==
    ASSUME NEW t \in EdgeTable, NEW u \in EdgeTable, NEW n \in Node,
           \A k \in EdgeKey : k.dst = n => t[k] = u[k]
    PROVE  StatusOf(t, n) = StatusOf(u, n)
<1>1. {x \in EdgeKey : x.dst = n /\ t[x].on} = {x \in EdgeKey : x.dst = n /\ u[x].on}
    OBVIOUS
<1>2. {t[k] : k \in {x \in EdgeKey : x.dst = n /\ t[x].on}}
          = {u[k] : k \in {x \in EdgeKey : x.dst = n /\ u[x].on}}
    BY <1>1
<1> QED BY <1>2 DEF StatusOf

LEMMA StatusType ==
    ASSUME NEW t, NEW n
    PROVE  StatusOf(t, n) \in GraphStatus
BY DEF StatusOf, GraphStatus

----------------------------------------------------------------------------
\* The transaction of ResolveAndCommit.

Start == [edges |-> edges, touched |-> {}]

\* One candidate after another.
Merge(before, c) ==
    LET edge  == NewEdge(Verdict(c.tier, c.conf), c.conf, "resolver")
        after == UpsertMediaEdge(before.edges, c.key, edge)
    IN  IF c.conf < Floor \/ WouldCreateCycle(before.edges, c.key.src, c.key.dst) THEN before
        ELSE [edges   |-> after,
              touched |-> before.touched \cup
                          IF after[c.key].st = "REJECTED" THEN {} ELSE {c.key.dst}]

Merges(f, cs, m) == f = [i \in 0..m |-> IF i = 0 THEN Start ELSE Merge(f[i - 1], cs[i])]

LEMMA MergesExists ==
    ASSUME NEW cs, NEW m \in Nat
    PROVE  \E f : Merges(f, cs, m)
<1> DEFINE Bad == {i \in Nat : ~ \E f : Merges(f, cs, i)}
<1>1. SUFFICES ASSUME Bad # {} PROVE FALSE
    OBVIOUS
<1>2. PICK b \in Bad : \A y \in Bad : b <= y
  <2>1. Bad \in SUBSET Nat
      OBVIOUS
  <2> HIDE DEF Bad
  <2> QED BY <1>1, <2>1, LeastExists
<1>3. CASE b = 0
  <2>1. Merges([i \in 0..0 |-> Start], cs, 0)
      BY DEF Merges
  <2> QED BY <1>3, <2>1
<1>4. CASE b # 0
  <2>1. b - 1 \in Nat /\ b - 1 \notin Bad
      BY <1>2, <1>4
  <2>2. PICK f : Merges(f, cs, b - 1)
      BY <2>1
  <2> DEFINE g == [i \in 0..b |-> IF i = b THEN Merge(f[b - 1], cs[b]) ELSE f[i]]
  <2>3. \A i \in 0..b : g[i] = IF i = 0 THEN Start ELSE Merge(g[i - 1], cs[i])
    <3>1. TAKE i \in 0..b
    <3>2. CASE i = b
        BY <3>2, <1>4
    <3>3. CASE i # b
      <4>1. i \in 0..(b - 1) /\ g[i] = f[i]
          BY <3>3
      <4>2. f[i] = IF i = 0 THEN Start ELSE Merge(f[i - 1], cs[i])
          BY <2>2, <4>1 DEF Merges
      <4>3. i # 0 => g[i - 1] = f[i - 1]
          BY <3>3
      <4> QED BY <4>1, <4>2, <4>3
    <3> QED BY <3>2, <3>3
  <2>4. g = [i \in 0..b |-> g[i]]
      OBVIOUS
  <2>5. Merges(g, cs, b)
    <3> HIDE DEF g
    <3> QED BY <2>3, <2>4 DEF Merges
  <2> QED BY <2>5
<1> QED BY <1>3, <1>4

LEMMA ResolvedMerges ==
    ASSUME NEW cs, Len(cs) \in Nat
    PROVE  \E f : Merges(f, cs, Len(cs)) /\ Resolved(cs) = f[Len(cs)]
<1> DEFINE f == CHOOSE g : Merges(g, cs, Len(cs))
<1>1. Merges(f, cs, Len(cs))
    BY MergesExists
<1>2. Resolved(cs) = (CHOOSE g : g = [i \in 0..Len(cs) |->
                          IF i = 0 THEN Start ELSE Merge(g[i - 1], cs[i])])[Len(cs)]
    BY DEF Resolved, Start, Merge
<1>3. Resolved(cs) = f[Len(cs)]
    BY <1>2 DEF Merges
<1> HIDE DEF f
<1> QED BY <1>1, <1>3

\* What a transaction on edges may make of table t, if S are the rows it gives a
\* status: reviews stay, only edges into S change, and no cycle is closed.
KeepsLineage(t, u, S) ==
    /\ u \in EdgeTable
    /\ \A k \in EdgeKey : Reviewed(t[k]) => u[k] = t[k]
    /\ \A k \in EdgeKey : u[k] # t[k] => k.dst \in S
    /\ ~ Cyclic(t) => ~ Cyclic(u)

\* An edge that counts on the word of the device that attached it; none becomes
\* one by what resolvers and people do.
OnItsWord(e) == e.by = "device" /\ e.st = "AUTO_ACCEPTED"

KeepsOrigin(t, u) == \A k \in EdgeKey : OnItsWord(u[k]) => OnItsWord(t[k])

LEMMA UpsertChanges ==
    ASSUME NEW t \in EdgeTable, NEW k \in EdgeKey, NEW e \in Edge,
           e.st # "REJECTED", e.by # "device"
    PROVE  /\ UpsertMediaEdge(t, k, e)[k] # t[k] => UpsertMediaEdge(t, k, e)[k].st # "REJECTED"
           /\ KeepsOrigin(t, UpsertMediaEdge(t, k, e))
<1>1. CASE Reviewed(t[k])
    BY <1>1 DEF UpsertMediaEdge, KeepsOrigin
<1>2. CASE ~ Reviewed(t[k])
  <2>1. \/ UpsertMediaEdge(t, k, e) = [t EXCEPT ![k] = e]
        \/ UpsertMediaEdge(t, k, e) = [t EXCEPT ![k] = [t[k] EXCEPT !.on = TRUE]]
      BY <1>2 DEF UpsertMediaEdge
  <2> DEFINE u == UpsertMediaEdge(t, k, e)
  <2>2. \A x \in EdgeKey : x # k => u[x] = t[x]
      BY UpsertType
  <2>3. \/ u[k] = e
        \/ u[k].st = t[k].st /\ u[k].by = t[k].by
      BY <2>1 DEF EdgeTable, Edge
  <2>4. t[k].st # "REJECTED"
      BY <1>2 DEF Reviewed
  <2> HIDE DEF u
  <2>5. u[k] # t[k] => u[k].st # "REJECTED"
      BY <2>3, <2>4
  <2>6. KeepsOrigin(t, u)
      BY <2>2, <2>3 DEF KeepsOrigin, OnItsWord
  <2> QED BY <2>5, <2>6 DEF u
<1> QED BY <1>1, <1>2

LEMMA MergeKeeps ==
    ASSUME NEW t \in EdgeTable, NEW before, NEW c \in ResolverCandidate,
           KeepsLineage(t, before.edges, before.touched), KeepsOrigin(t, before.edges)
    PROVE  /\ KeepsLineage(t, Merge(before, c).edges, Merge(before, c).touched)
           /\ KeepsOrigin(t, Merge(before, c).edges)
<1> DEFINE k     == c.key
           u     == before.edges
           edge  == NewEdge(Verdict(c.tier, c.conf), c.conf, "resolver")
           after == UpsertMediaEdge(u, k, edge)
           also  == IF after[k].st = "REJECTED" THEN {} ELSE {k.dst}
<1>1. k \in EdgeKey /\ c.tier \in 1..3 /\ c.conf \in 1..Certain
    BY DEF ResolverCandidate
<1>2. c.conf \in 0..Certain /\ Verdict(c.tier, c.conf) \in ReviewState \ {"REJECTED"}
    BY <1>1 DEF Verdict, ReviewState
<1>3. edge \in Edge /\ edge.st # "REJECTED" /\ edge.by # "device"
    BY <1>2, NewEdgeType DEF NewEdge, Origin
<1>4. u \in EdgeTable
    BY DEF KeepsLineage
<1> HIDE DEF edge
<1>5. /\ after \in EdgeTable
      /\ \A x \in EdgeKey : x # k => after[x] = u[x]
      /\ \A x \in EdgeKey : Reviewed(u[x]) => after[x] = u[x]
    BY <1>3, <1>4, UpsertType
<1>6. /\ after[k] # u[k] => after[k].st # "REJECTED"
      /\ KeepsOrigin(u, after)
    BY <1>1, <1>3, <1>4, UpsertChanges
<1>7. CASE c.conf < Floor \/ WouldCreateCycle(u, k.src, k.dst)
  <2>1. Merge(before, c) = before
      BY <1>7 DEF Merge
  <2> QED BY <2>1
<1>8. CASE ~ (c.conf < Floor \/ WouldCreateCycle(u, k.src, k.dst))
  <2>1. Merge(before, c).edges = after /\ Merge(before, c).touched = before.touched \cup also
      BY <1>8 DEF Merge, edge
  <2>2. ~ Cyclic(u) => ~ Cyclic(after)
      BY <1>5, <1>8, NoCycleByOne
  <2> HIDE DEF after
  <2>3. \A x \in EdgeKey : Reviewed(t[x]) => after[x] = t[x]
      BY <1>5 DEF KeepsLineage
  <2>4. \A x \in EdgeKey : after[x] # t[x] => x.dst \in before.touched \cup also
      BY <1>5, <1>6 DEF KeepsLineage
  <2>5. KeepsLineage(t, after, before.touched \cup also)
    <3> HIDE DEF also
    <3> QED BY <1>5, <2>2, <2>3, <2>4 DEF KeepsLineage
  <2>6. KeepsOrigin(t, after)
      BY <1>6 DEF KeepsOrigin
  <2> QED BY <2>1, <2>5, <2>6
<1> QED BY <1>7, <1>8

\* Whatever the resolvers find: a person's reviews stay, every edge that changes
\* leads into a row that gets a new status, and no cycle is closed.
LEMMA ResolvedKeeps ==
    ASSUME NEW cs \in Seq(ResolverCandidate), edges \in EdgeTable
    PROVE  /\ KeepsLineage(edges, Resolved(cs).edges, Resolved(cs).touched)
           /\ KeepsOrigin(edges, Resolved(cs).edges)
<1> DEFINE L == Len(cs)
           Kept(out) == KeepsLineage(edges, out.edges, out.touched) /\ KeepsOrigin(edges, out.edges)
           Bad(f) == {i \in 0..L : ~ Kept(f[i])}
<1>1. L \in Nat /\ \A i \in 1..L : cs[i] \in ResolverCandidate
    OBVIOUS
<1>2. PICK f : Merges(f, cs, L) /\ Resolved(cs) = f[L]
    BY <1>1, ResolvedMerges
<1>3. \A i \in 0..L : f[i] = IF i = 0 THEN Start ELSE Merge(f[i - 1], cs[i])
    BY <1>2 DEF Merges
<1> HIDE DEF L
<1>4. SUFFICES ASSUME Bad(f) # {} PROVE FALSE
    BY <1>1, <1>2
<1>5. PICK b \in Bad(f) : \A y \in Bad(f) : b <= y
  <2>1. Bad(f) \in SUBSET Nat
      BY <1>1
  <2> HIDE DEF Bad
  <2> QED BY <1>4, <2>1, LeastExists
<1>6. Kept(Start)
    BY DEF Start, KeepsLineage, KeepsOrigin
<1>7. b # 0
    BY <1>1, <1>3, <1>5, <1>6
<1>8. b - 1 \in 0..L /\ b - 1 \notin Bad(f) /\ b \in 1..L
    BY <1>1, <1>5, <1>7
<1>9. Kept(f[b - 1])
    BY <1>8
<1>10. Kept(Merge(f[b - 1], cs[b]))
    BY <1>1, <1>8, <1>9, MergeKeeps
<1>11. f[b] = Merge(f[b - 1], cs[b])
    BY <1>3, <1>7, <1>8
<1> HIDE DEF Kept
<1> QED BY <1>5, <1>10, <1>11

----------------------------------------------------------------------------
\* The status of every row follows its edges; it stays so if every row with an
\* edge that changes is among those whose status is derived again.
StatusTrue == status \in [Node -> GraphStatus] /\ \A n \in Node : status[n] = StatusOf(edges, n)

LEMMA StatusMoves ==
    ASSUME edges \in EdgeTable, StatusTrue, NEW S, edges' \in EdgeTable,
           \A k \in EdgeKey : edges'[k] # edges[k] => k.dst \in S,
           status' = Recomputed(edges', S)
    PROVE  StatusTrue'
<1>2. ASSUME NEW n \in Node
      PROVE  status'[n] = StatusOf(edges', n)
  <2>1. CASE n \in S
      BY <2>1 DEF Recomputed
  <2>2. CASE n \notin S
    <3>1. \A k \in EdgeKey : k.dst = n => edges[k] = edges'[k]
        BY <2>2
    <3>2. StatusOf(edges, n) = StatusOf(edges', n)
        BY <3>1, StatusFollows
    <3> QED BY <2>2, <3>2 DEF Recomputed, StatusTrue
  <2> QED BY <2>1, <2>2
<1>3. status' \in [Node -> GraphStatus]
    BY StatusType DEF Recomputed, StatusTrue
<1>4. \A n \in Node : status'[n] = StatusOf(edges, n)'
    BY <1>2
<1> QED BY <1>3, <1>4 DEF StatusTrue

LEMMA StatusStays ==
    ASSUME edges \in EdgeTable, StatusTrue, UNCHANGED lineage
    PROVE  edges' \in EdgeTable /\ StatusTrue'
<1>1. edges' = edges /\ status' = status
    BY DEF lineage
<1>2. \A n \in Node : StatusOf(edges, n)' = StatusOf(edges, n)
    BY <1>1 DEF StatusOf
<1> QED BY <1>1, <1>2 DEF StatusTrue

LEMMA LineageInitTrue ==
    ASSUME LineageInit
    PROVE  edges \in EdgeTable /\ StatusTrue /\ ~ Cyclic(edges)
BY StatusType DEF LineageInit, StatusTrue

\* Whatever candidates the resolvers find, and in whatever order, one transaction
\* of ResolveAndCommit leaves every reviewed edge as it is, closes no cycle of
\* active edges, and leaves every row with the status its edges make.
THEOREM ResolveAndCommitKeeps ==
    ASSUME edges \in EdgeTable, StatusTrue, NEW cs \in Seq(ResolverCandidate),
           ResolveAndCommit(cs)
    PROVE  /\ edges' \in EdgeTable /\ StatusTrue'
           /\ \A k \in EdgeKey : Reviewed(edges[k]) => edges'[k] = edges[k]
           /\ ~ Cyclic(edges) => ~ Cyclic(edges')
           /\ KeepsOrigin(edges, edges')
<1>1. /\ KeepsLineage(edges, Resolved(cs).edges, Resolved(cs).touched)
      /\ KeepsOrigin(edges, Resolved(cs).edges)
    BY ResolvedKeeps
<1>2. edges' = Resolved(cs).edges /\ status' = Recomputed(edges', Resolved(cs).touched)
    BY DEF ResolveAndCommit
<1>3. edges' \in EdgeTable /\ StatusTrue'
    BY <1>1, <1>2, StatusMoves DEF KeepsLineage
<1> QED BY <1>1, <1>2, <1>3 DEF KeepsLineage

\* What people do to edges closes no cycle, and their statuses follow.
LEMMA SetReviewKeeps ==
    ASSUME NEW t \in EdgeTable, NEW k \in EdgeKey, NEW st \in ReviewState,
           st # "AUTO_ACCEPTED"
    PROVE  /\ SetReview(t, k, st) \in EdgeTable
           /\ \A x \in EdgeKey : SetReview(t, k, st)[x] # t[x] => x.dst \in {k.dst}
           /\ ~ Cyclic(t) => ~ Cyclic(SetReview(t, k, st))
           /\ KeepsOrigin(t, SetReview(t, k, st))
<1> DEFINE u == SetReview(t, k, st)
<1>1. u \in EdgeTable /\ \A x \in EdgeKey : x # k => u[x] = t[x]
    BY DEF SetReview, EdgeTable, Edge
<1>2. u[k].on = t[k].on /\ u[k].st = st
    BY DEF SetReview, EdgeTable, Edge
<1> HIDE DEF u
<1>3. On(u) \subseteq On(t)
    BY <1>1, <1>2 DEF On
<1>4. ~ Cyclic(t) => ~ Cyclic(u)
    BY <1>3, FewerEdges
<1>5. KeepsOrigin(t, u)
    BY <1>1, <1>2 DEF KeepsOrigin, OnItsWord
<1> QED BY <1>1, <1>4, <1>5 DEF u

LEMMA PersonReviewsKeeps ==
    ASSUME edges \in EdgeTable, StatusTrue, PersonReviews
    PROVE  /\ edges' \in EdgeTable /\ StatusTrue'
           /\ ~ Cyclic(edges) => ~ Cyclic(edges')
           /\ KeepsOrigin(edges, edges')
<1>1. PICK k \in EdgeKey :
          CreateEdge(k) \/ Review(k, "CONFIRMED") \/ Review(k, "REJECTED") \/ ResetReview(k)
    BY DEF PersonReviews
<1>2. CASE CreateEdge(k)
  <2>1. /\ ~ WouldCreateCycle(edges, k.src, k.dst)
        /\ edges' = CreateManualMediaEdge(edges, k)
        /\ status' = Recomputed(edges', {k.dst})
      BY <1>2 DEF CreateEdge
  <2>2. NewEdge("CONFIRMED", Certain, "manual") \in Edge
      BY NewEdgeType DEF ReviewState, Origin
  <2>3. /\ edges' \in EdgeTable
        /\ \A x \in EdgeKey : x # k => edges'[x] = edges[x]
        /\ edges'[k] = NewEdge("CONFIRMED", Certain, "manual")
      BY <2>1, <2>2 DEF CreateManualMediaEdge, EdgeTable
  <2>4. ~ Cyclic(edges) => ~ Cyclic(edges')
      BY <2>1, <2>3, NoCycleByOne
  <2>5. KeepsOrigin(edges, edges')
      BY <2>3 DEF KeepsOrigin, OnItsWord, NewEdge
  <2>6. StatusTrue'
      BY <2>1, <2>3, StatusMoves
  <2> QED BY <2>3, <2>4, <2>5, <2>6
<1>3. CASE Review(k, "CONFIRMED") \/ Review(k, "REJECTED") \/ ResetReview(k)
  <2>1. PICK st \in ReviewState : /\ st # "AUTO_ACCEPTED"
                                  /\ edges' = SetReview(edges, k, st)
                                  /\ status' = Recomputed(edges', {k.dst})
      BY <1>3 DEF Review, ResetReview, ReviewState
  <2>2. /\ edges' \in EdgeTable
        /\ \A x \in EdgeKey : edges'[x] # edges[x] => x.dst \in {k.dst}
        /\ ~ Cyclic(edges) => ~ Cyclic(edges')
        /\ KeepsOrigin(edges, edges')
      BY <2>1, SetReviewKeeps
  <2>3. StatusTrue'
      BY <2>1, <2>2, StatusMoves
  <2> QED BY <2>2, <2>3
<1> QED BY <1>1, <1>2, <1>3

----------------------------------------------------------------------------
\* ORDER BY: every number once, in increasing order.

Rank(S, i) == Cardinality({j \in S : j < i})

LEMMA RankGrows ==
    ASSUME NEW S \in SUBSET Nat, IsFiniteSet(S), NEW i \in S, NEW j \in S, i < j
    PROVE  Rank(S, i) \in Nat /\ Rank(S, j) \in Nat /\ Rank(S, i) < Rank(S, j)
<1> DEFINE I == {x \in S : x < i}
           J == {x \in S : x < j}
<1>0. i \in Nat /\ j \in Nat /\ \A x \in S : x \in Nat
    OBVIOUS
<1>1. IsFiniteSet(I) /\ IsFiniteSet(J)
    BY FS_Subset
<1>2. Cardinality(I \cup {i}) = Cardinality(I) + 1
  <2>1. i \notin I
      BY <1>0
  <2> HIDE DEF I
  <2> QED BY <1>1, <2>1, FS_AddElement
<1>3. I \cup {i} \subseteq J
  <2>1. ASSUME NEW x \in Nat, x < i \/ x = i
        PROVE  x < j
      BY <1>0, <2>1
  <2> QED BY <1>0, <2>1
<1>4. Cardinality(I \cup {i}) <= Cardinality(J)
    BY <1>1, <1>3, FS_Subset
<1>5. Cardinality(I) \in Nat /\ Cardinality(J) \in Nat
    BY <1>1, FS_CardinalityType
<1>6. Cardinality(I) < Cardinality(J)
  <2> HIDE DEF I, J
  <2> QED BY <1>2, <1>4, <1>5
<1> QED BY <1>5, <1>6 DEF Rank

LEMMA RankBounded ==
    ASSUME NEW S \in SUBSET Nat, IsFiniteSet(S), NEW i \in S
    PROVE  Rank(S, i) \in 0..(Cardinality(S) - 1)
<1> DEFINE I == {x \in S : x < i}
<1>1. IsFiniteSet(I) /\ IsFiniteSet(S \ {i})
    BY FS_Subset
<1>2. Cardinality(S \ {i}) = Cardinality(S) - 1
    BY FS_RemoveElement
<1>3. I \subseteq S \ {i}
    OBVIOUS
<1>4. Cardinality(I) <= Cardinality(S \ {i})
    BY <1>1, <1>3, FS_Subset
<1>5. Cardinality(I) \in Nat /\ Cardinality(S) \in Nat
    BY <1>1, FS_CardinalityType
<1> HIDE DEF I
<1>6. Cardinality(I) \in 0..(Cardinality(S) - 1)
    BY <1>2, <1>4, <1>5
<1> QED BY <1>6 DEF Rank, I

LEMMA EveryRank ==
    ASSUME NEW S \in SUBSET Nat, IsFiniteSet(S), NEW r \in 1..Cardinality(S)
    PROVE  \E i \in S : Rank(S, i) = r - 1
<1> DEFINE n == Cardinality(S)
           f == [i \in S |-> Rank(S, i)]
<1>1. n \in Nat
    BY FS_CardinalityType
<1> HIDE DEF n
<1>2. f \in [S -> 0..(n - 1)]
    BY RankBounded DEF n
<1>3. ASSUME NEW i \in S, NEW j \in S, f[i] = f[j]
      PROVE  i = j
  <2>1. ~ (i < j)
      BY <1>3, RankGrows
  <2>2. ~ (j < i)
      BY <1>3, RankGrows
  <2>3. i \in Nat /\ j \in Nat
      OBVIOUS
  <2> QED BY <2>1, <2>2, <2>3
<1>4. f \in Injection(S, 0..(n - 1))
    BY <1>2, <1>3 DEF Injection, IsInjective
<1>5. 0 \in Int /\ n - 1 \in Int
    BY <1>1
<1>6. IsFiniteSet(0..(n - 1)) /\ Cardinality(0..(n - 1)) = n
  <2>1. /\ IsFiniteSet(0..(n - 1))
        /\ Cardinality(0..(n - 1)) = IF 0 > n - 1 THEN 0 ELSE n - 1 - 0 + 1
      BY <1>5, FS_Interval
  <2> QED BY <1>1, <2>1
<1>7. f \in Surjection(S, 0..(n - 1))
    BY <1>4, <1>6, FS_Injection DEF n
<1>8. r - 1 \in 0..(n - 1)
    BY <1>1 DEF n
<1>9. \E i \in S : f[i] = r - 1
    BY <1>7, <1>8 DEF Surjection
<1> QED BY <1>9

LEMMA OldestFirstOrders ==
    ASSUME NEW S \in SUBSET Nat, IsFiniteSet(S)
    PROVE  /\ Cardinality(S) \in Nat
           /\ OldestFirst(S) \in [1..Cardinality(S) -> S]
           /\ \A r, q \in 1..Cardinality(S) : r < q => OldestFirst(S)[r] < OldestFirst(S)[q]
           /\ \A i \in S : \E r \in 1..Cardinality(S) : OldestFirst(S)[r] = i
<1> DEFINE n == Cardinality(S)
           s == OldestFirst(S)
<1>1. n \in Nat
    BY FS_CardinalityType
<1>2. s = [r \in 1..n |-> CHOOSE i \in S : Rank(S, i) = r - 1]
    BY DEF OldestFirst, Rank
<1>3. ASSUME NEW r \in 1..n
      PROVE  s[r] \in S /\ Rank(S, s[r]) = r - 1
  <2>1. \E i \in S : Rank(S, i) = r - 1
      BY EveryRank
  <2>2. s[r] = CHOOSE i \in S : Rank(S, i) = r - 1
      BY <1>2
  <2> HIDE DEF s
  <2> QED BY <2>1, <2>2
<1>4. s \in [1..n -> S]
    BY <1>2, <1>3
<1> HIDE DEF s, n
<1>5. ASSUME NEW r \in 1..n, NEW q \in 1..n, r < q
      PROVE  s[r] < s[q]
  <2>1. Rank(S, s[r]) = r - 1 /\ Rank(S, s[q]) = q - 1 /\ s[r] \in S /\ s[q] \in S
      BY <1>3
  <2>2. ~ (s[q] < s[r])
    <3>1. SUFFICES ASSUME s[q] < s[r] PROVE FALSE
        OBVIOUS
    <3>2. Rank(S, s[q]) < Rank(S, s[r])
        BY <2>1, <3>1, RankGrows
    <3> QED BY <1>5, <2>1, <3>2
  <2>3. s[q] # s[r]
    <3>1. r - 1 # q - 1
        BY <1>1, <1>5
    <3> QED BY <2>1, <3>1
  <2>4. s[q] \in Nat /\ s[r] \in Nat
      BY <2>1
  <2> QED BY <2>2, <2>3, <2>4
<1>6. ASSUME NEW i \in S
      PROVE  \E r \in 1..n : s[r] = i
  <2>1. Rank(S, i) \in 0..(n - 1)
      BY RankBounded DEF n
  <2>2. Rank(S, i) + 1 \in 1..n
      BY <1>1, <2>1
  <2>3. s[Rank(S, i) + 1] \in S /\ Rank(S, s[Rank(S, i) + 1]) = Rank(S, i)
      BY <1>3, <2>1, <2>2
  <2>4. ~ (s[Rank(S, i) + 1] < i) /\ ~ (i < s[Rank(S, i) + 1])
    <3> DEFINE x == s[Rank(S, i) + 1]
    <3>1. x \in S /\ Rank(S, x) = Rank(S, i) /\ Rank(S, i) \in Nat
        BY <2>1, <2>3
    <3> HIDE DEF x
    <3>2. ASSUME x < i PROVE FALSE
      <4>1. Rank(S, x) < Rank(S, i)
          BY <3>1, <3>2, RankGrows
      <4> QED BY <3>1, <4>1
    <3>3. ASSUME i < x PROVE FALSE
      <4>1. Rank(S, i) < Rank(S, x)
          BY <3>1, <3>3, RankGrows
      <4> QED BY <3>1, <4>1
    <3> QED BY <3>2, <3>3 DEF x
  <2>5. s[Rank(S, i) + 1] = i
    <3>1. s[Rank(S, i) + 1] \in Nat /\ i \in Nat
        BY <2>3
    <3> QED BY <2>4, <3>1
  <2> QED BY <2>2, <2>5
<1> QED BY <1>1, <1>4, <1>5, <1>6 DEF s, n

----------------------------------------------------------------------------
\* The inductive invariant.

\* The rows, and who made them; an edge that counts on the word of a device was
\* attached by the device that made its target.
Rows ==
    /\ nodes \in Table /\ disk \in [Path -> File]
    /\ node_uuid \in [Node -> Node \cup Uuid]
    /\ creator \in [Node -> Device \cup {NoDevice}]
    /\ alias \in [Uuid -> [node : 0..MaxNode, agent : Device \cup {NoDevice}]]
    /\ author \in [EdgeKey -> Device \cup {NoDevice}]

Owned ==
    /\ \A n \in Node : creator[n] # NoDevice => Exists(nodes[n])
    /\ \A u \in Uuid : alias[u].node # 0 => Exists(nodes[alias[u].node])
    /\ \A k \in EdgeKey : OnItsWord(edges[k]) => author[k] \in Device /\ creator[k.dst] = author[k]

Lined == edges \in EdgeTable /\ StatusTrue /\ NoOtherCycle

Item == [at : Nat, retries : 0..MaxRetries]

QueueType ==
    /\ queue \in Seq(Event) /\ posted \in [Device -> Nat]
    /\ DOMAIN drainer = {"phase", "todo", "outcome", "made"}
    /\ drainer.phase \in {"idle", "run", "settle", "resolve"}
    /\ drainer.todo \in Seq(Item)

\* The batch: rows of the queue, in order, with the retries they have.
Batch ==
    /\ drainer.phase # "idle" => drainer.todo # <<>>
    /\ \A s \in DOMAIN drainer.todo :
          /\ drainer.todo[s].at \in DOMAIN queue
          /\ queue[drainer.todo[s].at].retries = drainer.todo[s].retries
    /\ \A r, s \in DOMAIN drainer.todo : r < s => drainer.todo[r].at < drainer.todo[s].at
    /\ drainer.phase = "resolve" => queue[drainer.todo[1].at].st = "PROCESSED"

\* An event nothing has happened to yet.
Fresh(i) == queue[i].st = "PENDING" /\ queue[i].retries = 0 /\ i \notin lost

\* It is due, nothing after it has been applied, and nothing after it is in the
\* batch without it.
InTurn ==
    \A i \in DOMAIN queue : Fresh(i) =>
        /\ queue[i].due
        /\ \A j \in DOMAIN queue : i < j => queue[j].st # "PROCESSED"
        /\ \A s \in DOMAIN drainer.todo : i < drainer.todo[s].at =>
              \E r \in DOMAIN drainer.todo : r < s /\ drainer.todo[r].at = i

Inv == Rows /\ Owned /\ Lined /\ QueueType /\ Batch /\ InTurn

----------------------------------------------------------------------------
\* The queue.

LEMMA Bounds ==
    MaxRetries \in Nat /\ BatchSize \in Nat /\ 1 <= BatchSize /\ 0 \in 0..MaxRetries
BY AgentAssumption

LEMMA ScriptType ==
    \A a \in Device : Script[a] \in Seq(SUBSET Payload)
BY AgentAssumption

LEMMA IdleDrainer ==
    /\ DOMAIN Idle = {"phase", "todo", "outcome", "made"}
    /\ Idle.phase = "idle" /\ Idle.todo = <<>> /\ Idle.todo \in Seq(Item)
    /\ DOMAIN Idle.todo = {}
BY DEF Idle

\* No event nothing has happened to is before the head of the batch.
LEMMA NoneBefore ==
    ASSUME QueueType, Batch, InTurn, drainer.phase # "idle"
    PROVE  /\ 1 \in DOMAIN drainer.todo
           /\ drainer.todo[1].at \in DOMAIN queue
           /\ \A i \in DOMAIN queue : Fresh(i) => ~ (i < drainer.todo[1].at)
<1>1. 1 \in DOMAIN drainer.todo
    BY DEF QueueType, Batch
<1>2. DOMAIN drainer.todo \subseteq Nat \ {0}
    BY DEF QueueType
<1>3. ~ \E r \in DOMAIN drainer.todo : r < 1
    BY <1>2
<1> QED BY <1>1, <1>3 DEF Batch, InTurn

LEMMA EventAt ==
    ASSUME QueueType
    PROVE  \A i \in DOMAIN queue : queue[i] \in Event /\ i \in 1..Len(queue)
BY DEF QueueType

LEMMA EventReplaced ==
    ASSUME NEW q \in Seq(Event), NEW h \in DOMAIN q, NEW e \in Event
    PROVE  /\ [q EXCEPT ![h] = e] \in Seq(Event) /\ DOMAIN [q EXCEPT ![h] = e] = DOMAIN q
           /\ [q EXCEPT ![h] = e][h] = e
           /\ \A i \in DOMAIN q : i # h => [q EXCEPT ![h] = e][i] = q[i]
<1>1. h \in 1..Len(q)
    OBVIOUS
<1>2. [q EXCEPT ![h] = e] \in Seq(Event)
    BY <1>1, ExceptSeq
<1> QED BY <1>2

LEMMA MoreThanOne ==
    ASSUME NEW m \in Nat, 1 \in 1..m, m # 1
    PROVE  1 \in 1..(m - 1)
OBVIOUS

\* The head of the batch is dealt with.
LEMMA AdvanceKeeps ==
    ASSUME QueueType, Batch, InTurn, drainer.phase # "idle",
           drainer' = Advance(drainer),
           queue' \in Seq(Event), DOMAIN queue' = DOMAIN queue,
           NEW h, h = drainer.todo[1].at,
           \A i \in DOMAIN queue : i # h => queue'[i] = queue[i],
           lost \subseteq lost', ~ Fresh(h)', UNCHANGED posted
    PROVE  QueueType' /\ Batch' /\ InTurn'
<1> DEFINE todo == drainer.todo
<1>1. /\ 1 \in DOMAIN todo /\ h \in DOMAIN queue
      /\ \A i \in DOMAIN queue : Fresh(i) => ~ (i < h)
    BY NoneBefore
<1>2. \A i \in DOMAIN queue : Fresh(i)' => Fresh(i) /\ i # h /\ queue'[i] = queue[i]
    BY DEF Fresh
<1>3. \A i \in DOMAIN queue : Fresh(i)' =>
          queue'[i].due /\ \A j \in DOMAIN queue : i < j => queue'[j].st # "PROCESSED"
    BY <1>1, <1>2 DEF InTurn
<1>4. todo \in Seq(Item) /\ Len(todo) \in Nat /\ DOMAIN todo = 1..Len(todo)
    BY DEF QueueType
<1>5. \A r, s \in DOMAIN todo : r < s => todo[r].at < todo[s].at
    BY DEF Batch
<1>6. \A s \in DOMAIN todo : todo[s].at \in DOMAIN queue /\ queue[todo[s].at].retries = todo[s].retries
    BY DEF Batch
<1>7. \A i \in DOMAIN queue : Fresh(i) => \A s \in DOMAIN todo : i < todo[s].at =>
          \E r \in DOMAIN todo : r < s /\ todo[r].at = i
    BY DEF InTurn
<1>8. CASE Len(todo) = 1
  <2>1. drainer' = Idle
      BY <1>8 DEF Advance
  <2>2. QueueType' /\ Batch'
      BY <2>1, IdleDrainer DEF QueueType, Batch
  <2>3. DOMAIN drainer'.todo = {}
      BY <2>1, IdleDrainer
  <2>4. InTurn'
      BY <1>3, <2>3 DEF InTurn
  <2> QED BY <2>2, <2>4
<1>9. CASE Len(todo) # 1
  <2> DEFINE rest == Tail(todo)
  <2>1. /\ rest \in Seq(Item) /\ rest # <<>> /\ DOMAIN rest = 1..(Len(todo) - 1)
        /\ \A s \in DOMAIN rest : s + 1 \in DOMAIN todo /\ rest[s] = todo[s + 1]
    <3>1. todo # <<>> /\ Len(todo) - 1 \in Nat
        BY <1>1, <1>4
    <3>2. /\ rest \in Seq(Item) /\ Len(rest) = Len(todo) - 1
          /\ \A s \in 1..(Len(todo) - 1) : rest[s] = todo[s + 1]
        BY <1>4, <3>1, HeadTailProperties
    <3>3. DOMAIN rest = 1..(Len(todo) - 1)
        BY <3>2
    <3> HIDE DEF rest
    <3>4. rest # <<>>
      <4>1. 1 \in 1..(Len(todo) - 1)
        <5>1. 1 \in 1..Len(todo) /\ Len(todo) \in Nat
            BY <1>1, <1>4
        <5> QED BY <5>1, <1>9, MoreThanOne
      <4>2. DOMAIN <<>> = {}
          OBVIOUS
      <4> QED BY <4>1, <4>2, <3>3
    <3>5. \A s \in 1..(Len(todo) - 1) : s + 1 \in 1..Len(todo)
        BY ONLY <1>4
    <3>6. \A s \in DOMAIN rest : s + 1 \in DOMAIN todo /\ rest[s] = todo[s + 1]
        BY ONLY <1>4, <3>2, <3>3, <3>5
    <3> QED BY <3>2, <3>3, <3>4, <3>6
  <2>2. /\ drainer'.todo = rest /\ drainer'.phase = "run"
        /\ DOMAIN drainer' = {"phase", "todo", "outcome", "made"}
      BY <1>9 DEF Advance, Idle
  <2> HIDE DEF rest
  <2>3. \A s \in DOMAIN rest : s \in Nat /\ 1 < s + 1 /\ h < todo[s + 1].at
    <3>1. \A s \in DOMAIN rest : s \in Nat /\ 1 < s + 1 /\ s + 1 \in DOMAIN todo
      <4>1. \A s \in 1..(Len(todo) - 1) : s \in Nat /\ 1 < s + 1
          BY <1>4
      <4> QED BY <4>1, <2>1
    <3> QED BY <3>1, <1>1, <1>5
  <2>4. h \in Nat /\ \A s \in DOMAIN todo : todo[s].at \in Nat
    <3>1. DOMAIN queue \subseteq Nat
        BY DEF QueueType
    <3>2. \A s \in DOMAIN todo : todo[s] \in Item
        BY <1>4
    <3>3. \A s \in DOMAIN todo : todo[s].at \in Nat
        BY <3>2 DEF Item
    <3> QED BY <3>1, <3>3, <1>1
  <2>5. \A s \in DOMAIN rest : rest[s].at \in DOMAIN queue /\ rest[s].at # h
                               /\ queue'[rest[s].at].retries = rest[s].retries
    <3>1. \A s \in DOMAIN rest : todo[s + 1].at # h
        BY <2>1, <2>3, <2>4
    <3> QED BY SMTT(30), <2>1, <3>1, <1>6
  <2>6. \A r, s \in DOMAIN rest : r < s => rest[r].at < rest[s].at
    <3>1. \A r, s \in DOMAIN rest : r < s => r + 1 < s + 1
        BY <2>3
    <3> QED BY <2>1, <3>1, <1>5
  <2>7. \A i \in DOMAIN queue : Fresh(i)' => \A s \in DOMAIN rest : i < rest[s].at =>
            \E r \in DOMAIN rest : r < s /\ rest[r].at = i
    <3>1. SUFFICES ASSUME NEW i \in DOMAIN queue, Fresh(i)', NEW s \in DOMAIN rest,
                          i < rest[s].at
                   PROVE  \E r \in DOMAIN rest : r < s /\ rest[r].at = i
        OBVIOUS
    <3>2. PICK q \in DOMAIN todo : q < s + 1 /\ todo[q].at = i
        BY <3>1, <1>2, <1>7, <2>1
    <3>3. q # 1
        BY <3>1, <3>2, <1>2
    <3>4. q - 1 \in DOMAIN rest /\ q - 1 < s /\ (q - 1) + 1 = q
        BY SMTT(30), <3>2, <3>3, <1>4, <2>1, <2>3
    <3>5. rest[q - 1] = todo[q]
        BY <3>4, <2>1
    <3> QED BY <3>2, <3>4, <3>5
  <2>8. QueueType'
      BY <2>1, <2>2 DEF QueueType
  <2>9. Batch'
      BY <2>1, <2>2, <2>5, <2>6 DEF Batch
  <2>10. InTurn'
      BY <1>3, <2>2, <2>7 DEF InTurn
  <2> QED BY <2>8, <2>9, <2>10
<1> QED BY <1>8, <1>9

LEMMA QueueStays ==
    ASSUME QueueType, Batch, InTurn, UNCHANGED <<queue, posted, drainer, lost>>
    PROVE  QueueType' /\ Batch' /\ InTurn'
BY DEF QueueType, Batch, InTurn, Fresh

LEMMA PostKeeps ==
    ASSUME QueueType, Batch, InTurn, NEW a \in Device, Post(a)
    PROVE  QueueType' /\ Batch' /\ InTurn'
<1>1. PICK p \in Script[a][posted[a] + 1] :
          queue' = Append(queue, [agent |-> a, payload |-> p, st |-> "PENDING",
                                  retries |-> 0, due |-> TRUE])
    BY DEF Post
<1>2. posted[a] + 1 \in DOMAIN Script[a]
    BY ScriptType DEF Post, QueueType
<1>3. p \in Payload
  <2>1. Script[a][posted[a] + 1] \in SUBSET Payload
      BY <1>2, ScriptType
  <2> QED BY <1>1, <2>1
<1> DEFINE e == [agent |-> a, payload |-> p, st |-> "PENDING", retries |-> 0, due |-> TRUE]
           n == Len(queue) + 1
<1>4. e \in Event
    BY <1>3, Bounds DEF Event
<1>5. n \in Nat /\ n - 1 \in Nat /\ DOMAIN queue = 1..(n - 1)
    BY DEF QueueType
<1>6. /\ queue' \in Seq(Event) /\ DOMAIN queue' = 1..n /\ queue'[n] = e
      /\ \A i \in DOMAIN queue : queue'[i] = queue[i]
    BY <1>1, <1>4 DEF QueueType
<1>7. posted' \in [Device -> Nat] /\ drainer' = drainer /\ lost' = lost
    BY DEF Post, QueueType, outside
<1> HIDE DEF n
<1>8. DOMAIN queue \subseteq DOMAIN queue'
    BY <1>5, <1>6
<1>9. QueueType'
    BY <1>6, <1>7 DEF QueueType
<1>10. Batch'
  <2>1. drainer.phase = "resolve" => 1 \in DOMAIN drainer.todo
      BY DEF Batch, QueueType
  <2> QED BY <1>6, <1>7, <1>8, <2>1 DEF Batch
<1>11. ASSUME NEW i \in DOMAIN queue', Fresh(i)'
       PROVE  /\ queue'[i].due
              /\ \A j \in DOMAIN queue' : i < j => queue'[j].st # "PROCESSED"
              /\ \A s \in DOMAIN drainer.todo : i < drainer.todo[s].at =>
                    \E r \in DOMAIN drainer.todo : r < s /\ drainer.todo[r].at = i
  <2>1. CASE i \in DOMAIN queue
    <3>1. Fresh(i)
        BY <1>6, <1>7, <1>11, <2>1 DEF Fresh
    <3>2. \A j \in DOMAIN queue' : j \in DOMAIN queue \/ j = n
        BY <1>5, <1>6
    <3>3. /\ queue[i].due
          /\ \A j \in DOMAIN queue : i < j => queue[j].st # "PROCESSED"
          /\ \A s \in DOMAIN drainer.todo : i < drainer.todo[s].at =>
                \E r \in DOMAIN drainer.todo : r < s /\ drainer.todo[r].at = i
        BY <2>1, <3>1 DEF InTurn
    <3>4. queue'[n].st # "PROCESSED"
        BY <1>6
    <3> QED BY <1>6, <2>1, <3>2, <3>3, <3>4
  <2>2. CASE i \notin DOMAIN queue
    <3>1. i = n /\ ~ \E j \in DOMAIN queue' : i < j
        BY <1>5, <1>6, <2>2
    <3>2. \A s \in DOMAIN drainer.todo : ~ (n < drainer.todo[s].at)
      <4>1. \A s \in DOMAIN drainer.todo : drainer.todo[s].at \in 1..(n - 1)
          BY <1>5 DEF Batch
      <4>2. \A x \in 1..(n - 1) : ~ (n < x)
          BY <1>5
      <4> QED BY <4>1, <4>2
    <3> QED BY <1>6, <3>1, <3>2
  <2> QED BY <2>1, <2>2
<1>12. InTurn'
    BY <1>7, <1>11 DEF InTurn
<1> QED BY <1>9, <1>10, <1>12

LEMMA ListKeeps ==
    ASSUME QueueType, Batch, InTurn, List
    PROVE  QueueType' /\ Batch' /\ InTurn'
<1> DEFINE n    == Cardinality(Due)
           due  == OldestFirst(Due)
           m    == IF Len(due) < BatchSize THEN Len(due) ELSE BatchSize
           rows == SubSeq(due, 1, m)
           todo == [i \in DOMAIN rows |-> [at |-> rows[i], retries |-> queue[rows[i]].retries]]
<1>1. Due \in SUBSET Nat /\ IsFiniteSet(Due)
  <2>1. DOMAIN queue = 1..Len(queue) /\ Len(queue) \in Nat
      BY DEF QueueType
  <2>2. IsFiniteSet(1..Len(queue))
      BY <2>1, RangeFinite
  <2>3. Due \subseteq 1..Len(queue)
      BY <2>1 DEF Due
  <2>4. Due \in SUBSET Nat
      BY <2>1, <2>3
  <2> QED BY <2>2, <2>3, <2>4, FS_Subset
<1>2. /\ n \in Nat /\ due \in [1..n -> Due]
      /\ \A r, q \in 1..n : r < q => due[r] < due[q]
      /\ \A i \in Due : \E r \in 1..n : due[r] = i
    BY <1>1, OldestFirstOrders
<1>3. due \in Seq(Due) /\ Len(due) = n
  <2> HIDE DEF n, due
  <2> QED BY SMTT(30), <1>2
<1>4. n # 0
    BY <1>1, FS_EmptySet DEF List
<1> HIDE DEF n, due
<1>5. m \in Nat /\ 1 <= m /\ m <= n
    BY <1>2, <1>3, <1>4, Bounds
<1>6. DOMAIN rows = 1..m /\ \A r \in 1..m : rows[r] = due[r] /\ r \in 1..n
  <2> HIDE DEF m
  <2>1. Len(rows) = m /\ rows \in Seq(Due)
      BY <1>3, <1>5, SubSeqProperties
  <2>2. \A r \in 1..m : rows[r] = due[r]
      BY <1>3, <1>5
  <2>3. \A r \in 1..m : r \in 1..n
      BY <1>2, <1>5
  <2> HIDE DEF rows
  <2> QED BY <2>1, <2>2, <2>3
<1> HIDE DEF m, rows
<1>7. \A r \in 1..m : due[r] \in Due /\ due[r] \in DOMAIN queue /\ due[r] \in Nat
    BY <1>1, <1>2, <1>6 DEF Due
<1>8. /\ DOMAIN todo = 1..m
      /\ \A r \in 1..m : todo[r].at = due[r] /\ todo[r].retries = queue[due[r]].retries
    BY <1>6
<1>9. todo \in Seq(Item) /\ todo # <<>>
  <2>1. \A r \in 1..m : queue[due[r]] \in Event
      BY <1>7, EventAt
  <2>2. \A r \in 1..m : todo[r] \in Item
      BY <1>6, <1>7, <2>1 DEF Item, Event
  <2>3. todo \in Seq(Item)
    <3> HIDE DEF todo
    <3>1. todo \in [1..m -> Item]
      <4>1. todo = [r \in DOMAIN rows |-> [at |-> rows[r], retries |-> queue[rows[r]].retries]]
          BY DEF todo
      <4> QED BY <4>1, <1>8, <2>2
    <3> QED BY <3>1, <1>5
  <2>4. 1 \in DOMAIN todo
      BY <1>5, <1>8
  <2> HIDE DEF todo
  <2> QED BY <2>3, <2>4
<1>10. /\ drainer'.todo = todo /\ drainer'.phase = "run"
       /\ DOMAIN drainer' = {"phase", "todo", "outcome", "made"}
    BY DEF List, Idle, due, m, rows
<1>11. queue' = queue /\ posted' = posted /\ lost' = lost
    BY DEF List, outside
<1> HIDE DEF todo
<1>12. QueueType'
    BY <1>9, <1>10, <1>11 DEF QueueType
<1>13. Batch'
  <2>1. \A r, q \in 1..m : r < q => todo[r].at < todo[q].at
      BY <1>2, <1>6, <1>8
  <2>2. \A r \in 1..m : todo[r].at \in DOMAIN queue /\ queue[todo[r].at].retries = todo[r].retries
      BY <1>7, <1>8
  <2> QED BY ONLY <1>8, <1>9, <1>10, <1>11, <2>1, <2>2 DEF Batch
<1>14. ASSUME NEW i \in DOMAIN queue, Fresh(i), NEW q \in 1..m, i < due[q]
       PROVE  \E r \in 1..m : r < q /\ due[r] = i
  <2>1. i \in Due
      BY <1>14 DEF InTurn, Fresh, Due
  <2>2. PICK r \in 1..n : due[r] = i
      BY <1>2, <2>1
  <2>3. ~ (q < r) /\ q # r
    <3>1. q \in 1..n /\ due[q] \in Nat /\ i \in Nat
        BY <1>1, <1>6, <1>7, <2>1
    <3>2. ~ (due[q] < due[r]) /\ due[q] # due[r]
        BY <3>1, <2>2, <1>14
    <3> QED BY <3>1, <3>2, <1>2
  <2>4. r < q /\ r \in 1..m
    <3>1. q \in Nat /\ r \in Nat /\ 1 <= r /\ q <= m
        BY <1>2, <1>5
    <3> QED BY <3>1, <2>3, <1>5
  <2> QED BY <2>2, <2>4
<1>15. InTurn'
  <2>1. \A i \in DOMAIN queue : Fresh(i)' => Fresh(i)
      BY <1>11 DEF Fresh
  <2>2. DOMAIN drainer'.todo = 1..m /\ \A r \in 1..m : drainer'.todo[r].at = due[r]
      BY <1>8, <1>10
  <2>3. ASSUME NEW i \in DOMAIN queue, Fresh(i)
        PROVE  /\ queue'[i].due
               /\ \A j \in DOMAIN queue' : i < j => queue'[j].st # "PROCESSED"
               /\ \A q \in DOMAIN drainer'.todo : i < drainer'.todo[q].at =>
                     \E r \in DOMAIN drainer'.todo : r < q /\ drainer'.todo[r].at = i
    <3>1. \A q \in 1..m : i < due[q] => \E r \in 1..m : r < q /\ due[r] = i
        BY <1>14, <2>3
    <3>2. queue[i].due /\ \A j \in DOMAIN queue : i < j => queue[j].st # "PROCESSED"
        BY <2>3 DEF InTurn
    <3>3. \A q \in DOMAIN drainer'.todo : i < drainer'.todo[q].at =>
              \E r \in DOMAIN drainer'.todo : r < q /\ drainer'.todo[r].at = i
        BY <2>2, <3>1
    <3> QED BY <1>11, <3>2, <3>3
  <2> QED BY <1>11, <2>1, <2>3 DEF InTurn
<1> QED BY <1>12, <1>13, <1>15

LEMMA SettleKeeps ==
    ASSUME QueueType, Batch, InTurn, Settle
    PROVE  QueueType' /\ Batch' /\ InTurn'
<1>1. drainer.phase # "idle" /\ drainer' = Advance(drainer) /\ UNCHANGED posted
    BY DEF Settle, outside
<1>2. PICK h \in DOMAIN queue : h = drainer.todo[1].at
    BY <1>1, NoneBefore
<1>3. 1 \in DOMAIN drainer.todo
    BY <1>1, NoneBefore
<1>4. CASE lost' = lost /\ queue' = [queue EXCEPT ![h] =
                                        IF GivesUp(drainer.todo[1]) THEN [@ EXCEPT !.st = "FAILED"]
                                        ELSE Retried(@)]
  <2> DEFINE e    == queue[h]
             item == drainer.todo[1]
             e2   == IF GivesUp(item) THEN [e EXCEPT !.st = "FAILED"] ELSE Retried(e)
  <2>0. e \in Event /\ item \in Item /\ e.retries = item.retries
      BY <1>2, <1>3 DEF QueueType, Batch
  <2>1. e2 \in Event /\ (e2.st = "FAILED" \/ e2.retries # 0)
    <3>1. CASE GivesUp(item)
        BY <3>1, <2>0 DEF Event
    <3>2. CASE ~ GivesUp(item)
      <4>1. item.retries + 1 < MaxRetries /\ item.retries \in Nat /\ MaxRetries \in Nat
          BY <3>2, <2>0, Bounds DEF GivesUp, Item
      <4>2. e.retries + 1 \in 0..MaxRetries /\ e.retries + 1 # 0
          BY <4>1, <2>0
      <4>3. e2 = [e EXCEPT !.retries = e.retries + 1, !.due = FALSE]
          BY <3>2 DEF Retried
      <4> HIDE DEF e2
      <4> QED BY <4>2, <4>3, <2>0 DEF Event
    <3> QED BY <3>1, <3>2
  <2>2. queue' = [queue EXCEPT ![h] = e2]
      BY <1>4
  <2> HIDE DEF e2
  <2>3. /\ queue' \in Seq(Event) /\ DOMAIN queue' = DOMAIN queue
        /\ queue'[h] = e2
        /\ \A i \in DOMAIN queue : i # h => queue'[i] = queue[i]
    <3>1. queue \in Seq(Event)
        BY DEF QueueType
    <3> QED BY <2>1, <2>2, <3>1, <1>2, EventReplaced
  <2>4. ~ Fresh(h)'
      BY <2>1, <2>3 DEF Fresh
  <2> QED BY <1>1, <1>2, <1>4, <2>3, <2>4, AdvanceKeeps
<1>5. CASE lost' = lost \cup {h} /\ queue' = queue
  <2>1. ~ Fresh(h)'
      BY <1>5 DEF Fresh
  <2>2. queue' \in Seq(Event)
      BY <1>5 DEF QueueType
  <2> QED BY <1>1, <1>2, <1>5, <2>1, <2>2, AdvanceKeeps
<1> QED BY <1>2, <1>4, <1>5 DEF Settle

\* An event that is applied, with or without edges left to find for its row.
LEMMA ProcessedKeeps ==
    ASSUME QueueType, Batch, InTurn, drainer.phase = "run",
           NEW h \in DOMAIN queue, h = drainer.todo[1].at,
           NEW e2 \in Event, e2.st = "PROCESSED", e2.retries = queue[h].retries,
           queue' = [queue EXCEPT ![h] = e2],
           \/ drainer' = Advance(drainer)
           \/ \E m : drainer' = [drainer EXCEPT !.phase = "resolve", !.made = m],
           UNCHANGED <<posted, lost>>
    PROVE  QueueType' /\ Batch' /\ InTurn'
<1>5. /\ queue' \in Seq(Event) /\ DOMAIN queue' = DOMAIN queue
      /\ queue'[h] = e2
      /\ \A i \in DOMAIN queue : i # h => queue'[i] = queue[i]
  <2>1. queue \in Seq(Event)
      BY DEF QueueType
  <2> QED BY <2>1, EventReplaced
<1>6. ~ Fresh(h)'
    BY <1>5 DEF Fresh
<1>7. CASE drainer' = Advance(drainer)
    BY <1>5, <1>6, <1>7, AdvanceKeeps
<1>8. ASSUME NEW m, drainer' = [drainer EXCEPT !.phase = "resolve", !.made = m]
      PROVE  QueueType' /\ Batch' /\ InTurn'
  <2>1. /\ drainer'.todo = drainer.todo /\ drainer'.phase = "resolve"
        /\ DOMAIN drainer' = {"phase", "todo", "outcome", "made"}
      BY <1>8 DEF QueueType
  <2>2. QueueType'
      BY <1>5, <2>1 DEF QueueType
  <2>3. \A i \in DOMAIN queue : queue'[i].retries = queue[i].retries
      BY <1>5
  <2>4. Batch'
    <3>1. queue'[drainer.todo[1].at].st = "PROCESSED"
        BY <1>5
    <3>2. \A s \in DOMAIN drainer.todo : drainer.todo[s].at \in DOMAIN queue
              /\ queue[drainer.todo[s].at].retries = drainer.todo[s].retries
        BY DEF Batch
    <3>3. \A r, s \in DOMAIN drainer.todo : r < s => drainer.todo[r].at < drainer.todo[s].at
        BY DEF Batch
    <3>4. drainer.todo # <<>>
        BY DEF Batch
    <3>5. \A s \in DOMAIN drainer'.todo : drainer'.todo[s].at \in DOMAIN queue'
              /\ queue'[drainer'.todo[s].at].retries = drainer'.todo[s].retries
      <4>1. \A s \in DOMAIN drainer.todo : drainer.todo[s].at \in DOMAIN queue'
                /\ queue'[drainer.todo[s].at].retries = drainer.todo[s].retries
          BY <1>5, <2>3, <3>2
      <4> QED BY ONLY <2>1, <4>1
    <3>6. \A r, s \in DOMAIN drainer'.todo : r < s => drainer'.todo[r].at < drainer'.todo[s].at
        BY <2>1, <3>3
    <3>7. drainer'.phase = "resolve" => queue'[drainer'.todo[1].at].st = "PROCESSED"
        BY <2>1, <3>1
    <3>8. drainer'.phase # "idle" => drainer'.todo # <<>>
        BY <2>1, <3>4
    <3> QED BY ONLY <3>5, <3>6, <3>7, <3>8 DEF Batch
  <2>5. \A i \in DOMAIN queue : Fresh(i)' => Fresh(i) /\ i # h /\ ~ (i < h)
      BY <1>5, <1>6, NoneBefore DEF Fresh
  <2>6. InTurn'
    <3>1. \A i \in DOMAIN queue : Fresh(i) =>
              /\ queue[i].due
              /\ \A j \in DOMAIN queue : i < j => queue[j].st # "PROCESSED"
              /\ \A s \in DOMAIN drainer.todo : i < drainer.todo[s].at =>
                    \E r \in DOMAIN drainer.todo : r < s /\ drainer.todo[r].at = i
        BY DEF InTurn
    <3>2. \A i \in DOMAIN queue : Fresh(i)' =>
              /\ queue'[i].due
              /\ \A j \in DOMAIN queue : i < j => queue'[j].st # "PROCESSED"
      <4>1. SUFFICES ASSUME NEW i \in DOMAIN queue, Fresh(i)'
                     PROVE  /\ queue'[i].due
                            /\ \A j \in DOMAIN queue : i < j => queue'[j].st # "PROCESSED"
          OBVIOUS
      <4>2. Fresh(i) /\ i # h /\ ~ (i < h)
          BY <2>5, <4>1
      <4>3. /\ queue[i].due
            /\ \A j \in DOMAIN queue : i < j => queue[j].st # "PROCESSED"
          BY <3>1, <4>2
      <4>4. \A j \in DOMAIN queue : i < j => queue'[j] = queue[j]
          BY <1>5, <4>2
      <4> QED BY <1>5, <4>2, <4>3, <4>4
    <3>3. \A i \in DOMAIN queue : Fresh(i)' => \A s \in DOMAIN drainer'.todo : i < drainer'.todo[s].at =>
              \E r \in DOMAIN drainer'.todo : r < s /\ drainer'.todo[r].at = i
      <4>1. \A i \in DOMAIN queue : Fresh(i)' => \A s \in DOMAIN drainer.todo : i < drainer.todo[s].at =>
                \E r \in DOMAIN drainer.todo : r < s /\ drainer.todo[r].at = i
          BY ONLY <2>5, <3>1
      <4> QED BY ONLY <2>1, <4>1
    <3>4. ASSUME NEW i \in DOMAIN queue', Fresh(i)'
          PROVE  /\ queue'[i].due
                 /\ \A j \in DOMAIN queue' : i < j => queue'[j].st # "PROCESSED"
                 /\ \A s \in DOMAIN drainer'.todo : i < drainer'.todo[s].at =>
                       \E r \in DOMAIN drainer'.todo : r < s /\ drainer'.todo[r].at = i
      <4>1. i \in DOMAIN queue
          BY <1>5
      <4>2. /\ queue'[i].due
            /\ \A j \in DOMAIN queue : i < j => queue'[j].st # "PROCESSED"
          BY <3>2, <3>4, <4>1
      <4>3. \A s \in DOMAIN drainer'.todo : i < drainer'.todo[s].at =>
                \E r \in DOMAIN drainer'.todo : r < s /\ drainer'.todo[r].at = i
          BY <3>3, <3>4, <4>1
      <4> QED BY <1>5, <4>2, <4>3
    <3> QED BY ONLY <3>4 DEF InTurn
  <2> QED BY <2>2, <2>4, <2>6
<1> QED BY <1>7, <1>8

LEMMA ElapseKeeps ==
    ASSUME QueueType, Batch, InTurn, NEW i \in DOMAIN queue, Elapse(i)
    PROVE  QueueType' /\ Batch' /\ InTurn'
<1> DEFINE e2 == [queue[i] EXCEPT !.due = TRUE]
<1>1. queue[i] \in Event
    BY DEF QueueType
<1>2. e2 \in Event /\ e2.st = queue[i].st /\ e2.retries = queue[i].retries /\ e2.due
    BY <1>1 DEF Event
<1>3. queue' = [queue EXCEPT ![i] = e2] /\ UNCHANGED <<posted, drainer, lost>>
    BY DEF Elapse, outside
<1> HIDE DEF e2
<1>4. /\ queue' \in Seq(Event) /\ DOMAIN queue' = DOMAIN queue
      /\ queue'[i] = e2
      /\ \A j \in DOMAIN queue : j # i => queue'[j] = queue[j]
  <2>1. queue \in Seq(Event)
      BY DEF QueueType
  <2> QED BY <1>2, <1>3, <2>1, EventReplaced
<1>5. \A j \in DOMAIN queue :
          queue'[j].st = queue[j].st /\ queue'[j].retries = queue[j].retries
          /\ (queue[j].due => queue'[j].due)
    BY <1>2, <1>4
<1>6. QueueType'
    BY <1>3, <1>4 DEF QueueType
<1>7. Batch'
  <2>1. drainer.phase = "resolve" => drainer.todo[1].at \in DOMAIN queue
      BY NoneBefore
  <2> QED BY <1>3, <1>4, <1>5, <2>1 DEF Batch
<1>8. InTurn'
    BY <1>3, <1>4, <1>5 DEF InTurn, Fresh
<1> QED BY <1>6, <1>7, <1>8

LEMMA RestartKeeps ==
    ASSUME QueueType, Batch, InTurn, Restart
    PROVE  QueueType' /\ Batch' /\ InTurn'
<1>1. drainer' = Idle /\ UNCHANGED <<queue, posted, lost>>
    BY DEF Restart, outside
<1>2. QueueType' /\ Batch'
    BY <1>1, IdleDrainer DEF QueueType, Batch
<1>3. DOMAIN drainer'.todo = {}
    BY <1>1, IdleDrainer
<1>4. InTurn'
    BY <1>1, <1>3 DEF InTurn, Fresh
<1> QED BY <1>2, <1>4

\* An attempt that fails leaves the batch to Settle.
LEMMA FailedKeeps ==
    ASSUME QueueType, Batch, InTurn, drainer.phase = "run",
           NEW how, drainer' = [drainer EXCEPT !.phase = "settle", !.outcome = how],
           UNCHANGED <<queue, posted, lost>>
    PROVE  QueueType' /\ Batch' /\ InTurn'
<1>1. /\ drainer'.todo = drainer.todo /\ drainer'.phase = "settle"
      /\ DOMAIN drainer' = {"phase", "todo", "outcome", "made"}
    BY DEF QueueType
<1>2. QueueType' /\ Batch'
    BY <1>1 DEF QueueType, Batch
<1>3. InTurn'
    BY <1>1 DEF InTurn, Fresh
<1> QED BY <1>2, <1>3

\* The row an event made has its edges, or not.
LEMMA ResolveQueueKeeps ==
    ASSUME QueueType, Batch, InTurn, drainer.phase = "resolve",
           drainer' = Advance(drainer), UNCHANGED <<queue, posted, lost>>
    PROVE  QueueType' /\ Batch' /\ InTurn'
<1>1. PICK h \in DOMAIN queue : h = drainer.todo[1].at
    BY NoneBefore
<1>2. ~ Fresh(h)'
    BY <1>1 DEF Batch, Fresh
<1>3. queue' \in Seq(Event)
    BY DEF QueueType
<1> QED BY <1>1, <1>2, <1>3, AdvanceKeeps

----------------------------------------------------------------------------
\* The store.

\* What an event of device a may do to the rows that are there.
Touches(a, t) ==
    \A n \in Node : Exists(nodes[n]) /\ t[n] # nodes[n] =>
        \/ Live(nodes[n]) /\ creator[n] = a
        \/ /\ t[n].state = "TRASHED"
           /\ \E k \in EdgeKey : k.dst = n /\ creator[k.src] = a /\ Vouches(a, k)

\* What a transaction for device a may make of the store.
StoreOK(a, s) ==
    /\ s.nodes \in Table /\ s.disk \in [Path -> File]
    /\ s.uuid \in [Node -> Node \cup Uuid]
    /\ s.creator \in [Node -> Device \cup {NoDevice}]
    /\ s.alias \in [Uuid -> [node : 0..MaxNode, agent : Device \cup {NoDevice}]]
    /\ s.author \in [EdgeKey -> Device \cup {NoDevice}]
    /\ \A n \in Node : s.creator[n] # NoDevice => Exists(s.nodes[n])
    /\ \A u \in Uuid : s.alias[u].node # 0 => Exists(s.nodes[s.alias[u].node])
    /\ \A k \in EdgeKey : OnItsWord(s.edges[k]) =>
          s.author[k] \in Device /\ s.creator[k.dst] = s.author[k]
    /\ KeepsLineage(edges, s.edges, s.changed)
    /\ Touches(a, s.nodes)

LEMMA NothingChanged ==
    ASSUME edges \in EdgeTable
    PROVE  KeepsLineage(edges, edges, {})
BY DEF KeepsLineage

\* A transaction that leaves all but rows and files as they are.
LEMMA RowsOnly ==
    ASSUME Rows, Owned, Lined, NEW a, NEW s, s.nodes \in Table, s.disk \in [Path -> File],
           s.edges = edges, s.uuid = node_uuid, s.creator = creator, s.alias = alias,
           s.author = author, s.changed = {},
           \A n \in Node : Exists(nodes[n]) => Exists(s.nodes[n]),
           Touches(a, s.nodes)
    PROVE  StoreOK(a, s)
<1>1. KeepsLineage(edges, s.edges, s.changed)
    BY NothingChanged DEF Lined
<1>2. \A n \in Node : s.creator[n] # NoDevice => Exists(s.nodes[n])
    BY DEF Owned
<1>3. ASSUME NEW u \in Uuid, alias[u].node # 0
      PROVE  Exists(s.nodes[alias[u].node])
  <2>1. alias[u].node \in Node /\ Exists(nodes[alias[u].node])
    <3>1. alias[u].node \in 0..MaxNode
        BY DEF Rows
    <3>2. alias[u].node \in Node
        BY <1>3, <3>1, NodeStoreAssumption DEF Node
    <3> QED BY <1>3, <3>2 DEF Owned
  <2> QED BY <2>1
<1>4. \A k \in EdgeKey : OnItsWord(s.edges[k]) =>
          s.author[k] \in Device /\ s.creator[k.dst] = s.author[k]
    BY DEF Owned
<1>5. /\ s.uuid \in [Node -> Node \cup Uuid]
      /\ s.creator \in [Node -> Device \cup {NoDevice}]
      /\ s.alias \in [Uuid -> [node : 0..MaxNode, agent : Device \cup {NoDevice}]]
      /\ s.author \in [EdgeKey -> Device \cup {NoDevice}]
    BY DEF Rows
<1> QED BY <1>1, <1>2, <1>3, <1>4, <1>5 DEF StoreOK

LEMMA StoreStays ==
    ASSUME Rows, Owned, Lined, NEW a
    PROVE  StoreOK(a, Store)
<1>1. /\ Store.nodes = nodes /\ Store.disk = disk /\ Store.edges = edges
      /\ Store.uuid = node_uuid /\ Store.creator = creator /\ Store.alias = alias
      /\ Store.author = author /\ Store.changed = {}
    BY DEF Store
<1>2. nodes \in Table /\ disk \in [Path -> File]
    BY DEF Rows
<1>3. Touches(a, nodes)
    BY DEF Touches
<1> HIDE DEF Store
<1> QED BY <1>1, <1>2, <1>3, RowsOnly

\* One live row of the device's own changes.
LEMMA OwnRowChanges ==
    ASSUME Rows, Owned, Lined, NEW a, NEW n \in Node, Live(nodes[n]), creator[n] = a,
           NEW t \in Table, Exists(t[n]), \A m \in Node : m # n => t[m] = nodes[m]
    PROVE  StoreOK(a, [Store EXCEPT !.nodes = t])
<1> DEFINE s == [Store EXCEPT !.nodes = t]
<1>1. /\ s.nodes = t /\ s.disk = disk /\ s.edges = edges
      /\ s.uuid = node_uuid /\ s.creator = creator /\ s.alias = alias
      /\ s.author = author /\ s.changed = {}
    BY DEF Store
<1>2. disk \in [Path -> File]
    BY DEF Rows
<1>3. Touches(a, t)
    BY DEF Touches
<1>4. \A m \in Node : Exists(nodes[m]) => Exists(t[m])
    OBVIOUS
<1> HIDE DEF s
<1>5. StoreOK(a, s)
    BY <1>1, <1>2, <1>3, <1>4, RowsOnly
<1> QED BY <1>5 DEF s

LEMMA NamedRow ==
    ASSUME NEW u, Named(u) # {}
    PROVE  The(Named(u)) \in Node /\ Exists(nodes[The(Named(u))])
<1>1. The(Named(u)) \in Named(u)
    BY DEF The
<1> QED BY <1>1 DEF Named

LEMMA RecordAliasOK ==
    ASSUME Rows, Owned, Lined, NEW a \in Device, NEW p \in Payload, FullOf(p) # NoHash,
           Owners(nodes, FullOf(p)) # {}
    PROVE  StoreOK(a, RecordAlias(a, p))
<1> DEFINE n == The(Owners(nodes, FullOf(p)))
           e == IF alias[p.uuid].node # 0 THEN alias[p.uuid] ELSE [node |-> n, agent |-> a]
           s == RecordAlias(a, p)
<1>1. n \in Node /\ Exists(nodes[n])
  <2>1. n \in Owners(nodes, FullOf(p))
      BY DEF The
  <2> HIDE DEF n
  <2> QED BY <2>1 DEF Owners, Exists
<1>2. p.uuid \in Uuid
    BY DEF Payload
<1>3. /\ s.nodes = nodes /\ s.disk = disk /\ s.edges = edges
      /\ s.uuid = node_uuid /\ s.creator = creator
      /\ s.author = author /\ s.changed = {}
      /\ s.alias = [alias EXCEPT ![p.uuid] = e]
    BY DEF RecordAlias, Store
<1>4. e \in [node : 0..MaxNode, agent : Device \cup {NoDevice}]
  <2>1. alias[p.uuid] \in [node : 0..MaxNode, agent : Device \cup {NoDevice}]
      BY <1>2 DEF Rows
  <2>2. n \in 0..MaxNode
      BY <1>1, NodeStoreAssumption DEF Node
  <2> HIDE DEF n
  <2> QED BY <2>1, <2>2
<1>5. Exists(nodes[e.node])
  <2> HIDE DEF n
  <2> QED BY <1>1, <1>2 DEF Owned
<1> HIDE DEF s, e, n
<1>6. s.alias \in [Uuid -> [node : 0..MaxNode, agent : Device \cup {NoDevice}]]
    BY <1>3, <1>4 DEF Rows
<1>7. \A u \in Uuid : s.alias[u].node # 0 => Exists(s.nodes[s.alias[u].node])
    BY <1>2, <1>3, <1>5 DEF Owned, Rows
<1>8. KeepsLineage(edges, s.edges, s.changed)
    BY <1>3, NothingChanged DEF Lined
<1>9. Touches(a, s.nodes)
    BY <1>3 DEF Touches
<1>10. /\ s.nodes \in Table /\ s.disk \in [Path -> File]
       /\ s.uuid \in [Node -> Node \cup Uuid]
       /\ s.creator \in [Node -> Device \cup {NoDevice}]
       /\ s.author \in [EdgeKey -> Device \cup {NoDevice}]
    BY <1>3 DEF Rows
<1>11. /\ \A m \in Node : s.creator[m] # NoDevice => Exists(s.nodes[m])
       /\ \A k \in EdgeKey : OnItsWord(s.edges[k]) =>
             s.author[k] \in Device /\ s.creator[k.dst] = s.author[k]
    BY <1>3 DEF Owned
<1>12. StoreOK(a, s)
    BY <1>6, <1>7, <1>8, <1>9, <1>10, <1>11 DEF StoreOK
<1> QED BY <1>12 DEF s

LEMMA RecordAgentKeeps ==
    ASSUME NEW t \in Table, NEW n \in Node, NEW h \in FullHash
    PROVE  /\ RecordFullHashSource(t, n, h, "AGENT") \in Table
           /\ \A m \in Node : RecordFullHashSource(t, n, h, "AGENT")[m].state = t[m].state
           /\ \A m \in Node : m # n => RecordFullHashSource(t, n, h, "AGENT")[m] = t[m]
BY DEF RecordFullHashSource, Table, Row, Source

LEMMA FullOfType ==
    ASSUME NEW p \in Payload
    PROVE  FullOf(p) \in FullHash
BY DEF FullOf, FullHash, Payload

LEMMA RefuseEnds ==
    /\ Store.end = "done" /\ Refuse.end = "fatal" /\ Retry.end = "retry"
    /\ \A s : Checked(s).end = "done" => Checked(s) = s
<1>1. /\ Store.end = "done" /\ Refuse.end = "fatal" /\ Retry.end = "retry"
    BY DEF Store, Refuse, Retry
<1>2. \A s : Checked(s) = s \/ Checked(s) = Refuse
    BY DEF Checked
<1> QED BY <1>1, <1>2

LEMMA InsertForOK ==
    ASSUME Rows, Owned, Lined, Room, NEW a \in Device, NEW p \in Payload,
           NEW fast \in FastHash, NEW full \in FullHash,
           InsertFor(a, p, fast, full).end = "done"
    PROVE  StoreOK(a, InsertFor(a, p, fast, full))
<1> DEFINE n == NextId(nodes)
           t == InsertMediaNode(nodes, p.path, fast, full, NoProvenance)
           u == RecordFullHashSource(t, n, full, "AGENT")
           s == [Store EXCEPT !.nodes = u,
                              !.stat[n] = IF fast = NoFast THEN NoFile ELSE p.content,
                              !.uuid[n] = p.uuid, !.creator[n] = a, !.made = n]
<1>1. InsertFor(a, p, fast, full) = s
    BY RefuseEnds DEF InsertFor
<1>2. n \in Node /\ ~ Exists(nodes[n])
    BY NextIdFree DEF Rows, Room, FreeIds
<1>3. t \in Table /\ t[n].state = "ACTIVE" /\ \A m \in Node : m # n => t[m] = nodes[m]
  <2>1. t \in Table /\ t[n].state = "ACTIVE"
      BY InsertKeeps DEF Rows, Room, Payload
  <2>2. \A m \in Node : m # n => t[m] = nodes[m]
      BY DEF InsertMediaNode, Rows, Table
  <2> QED BY <2>1, <2>2
<1> HIDE DEF t
<1>4. u \in Table /\ u[n].state = "ACTIVE" /\ \A m \in Node : m # n => u[m] = nodes[m]
    BY <1>2, <1>3, RecordAgentKeeps
<1>5. /\ s.nodes = u /\ s.disk = disk /\ s.edges = edges
      /\ s.uuid = [node_uuid EXCEPT ![n] = p.uuid]
      /\ s.creator = [creator EXCEPT ![n] = a] /\ s.alias = alias
      /\ s.author = author /\ s.changed = {}
  <2> HIDE DEF u, n
  <2> QED BY DEF Store
<1> HIDE DEF s, u, n
<1>6. p.uuid \in Uuid
    BY DEF Payload
<1>7. /\ s.nodes \in Table /\ s.disk \in [Path -> File]
      /\ s.alias \in [Uuid -> [node : 0..MaxNode, agent : Device \cup {NoDevice}]]
      /\ s.author \in [EdgeKey -> Device \cup {NoDevice}]
    BY <1>4, <1>5 DEF Rows
<1>8. /\ s.uuid \in [Node -> Node \cup Uuid]
      /\ s.creator \in [Node -> Device \cup {NoDevice}]
      /\ s.creator[n] = a /\ \A m \in Node : m # n => s.creator[m] = creator[m]
    BY <1>2, <1>5, <1>6 DEF Rows
<1>9. \A m \in Node : Exists(nodes[m]) \/ m = n => Exists(s.nodes[m])
    BY <1>2, <1>4, <1>5 DEF Exists
<1>10. \A m \in Node : s.creator[m] # NoDevice => Exists(s.nodes[m])
    BY <1>8, <1>9 DEF Owned
<1>11. ASSUME NEW v \in Uuid, s.alias[v].node # 0
       PROVE  Exists(s.nodes[s.alias[v].node])
  <2>1. alias[v].node \in Node /\ Exists(nodes[alias[v].node])
    <3>1. alias[v].node \in 0..MaxNode
        BY DEF Rows
    <3>2. alias[v].node \in Node
        BY <1>5, <1>11, <3>1, NodeStoreAssumption DEF Node
    <3> QED BY <1>5, <1>11, <3>2 DEF Owned
  <2> QED BY <1>5, <1>9, <2>1
<1>12. ASSUME NEW k \in EdgeKey, OnItsWord(s.edges[k])
       PROVE  s.author[k] \in Device /\ s.creator[k.dst] = s.author[k]
  <2>1. author[k] \in Device /\ creator[k.dst] = author[k] /\ k.dst \in Node
      BY <1>5, <1>12, LineageAssumption DEF Owned
  <2>2. k.dst # n
      BY <1>2, <2>1, AgentAssumption DEF Owned
  <2> QED BY <1>5, <1>8, <2>1, <2>2
<1>13. KeepsLineage(edges, s.edges, s.changed)
    BY <1>5, NothingChanged DEF Lined
<1>14. Touches(a, s.nodes)
    BY <1>2, <1>4, <1>5 DEF Touches
<1>15. StoreOK(a, s)
    BY <1>7, <1>8, <1>10, <1>11, <1>12, <1>13, <1>14 DEF StoreOK
<1> QED BY <1>1, <1>15

LEMMA IntroduceOK ==
    ASSUME Rows, Owned, Lined, Room, NEW a \in Device, NEW p \in Payload,
           Introduce(a, p).end = "done"
    PROVE  StoreOK(a, Introduce(a, p))
<1>1. FastOf[p.content] \in FastHash
    BY NodeStoreAssumption DEF Payload
<1> QED BY <1>1, FullOfType, RecordAliasOK, InsertForOK DEF Introduce

\* An edge: a new one ends in a row of the device, or waits for review.
LEMMA EdgeAttachedOK ==
    ASSUME Rows, Owned, Lined, NEW a \in Device, NEW p \in Payload,
           EdgeAttached(a, p).end = "done"
    PROVE  StoreOK(a, EdgeAttached(a, p))
<1> DEFINE src == The(Lookup(a, p.src))
           dst == The(Lookup(a, p.dst))
           k   == [src |-> src, dst |-> dst, rel |-> p.rel]
           st  == VerdictFor(a, dst, p)
           e   == NewEdge(st, p.conf, "device")
           t   == CreateMediaEdge(edges, k, e)
           w   == IF edges[k].st = "NONE" THEN [author EXCEPT ![k] = a] ELSE author
           s   == EdgeAttached(a, p)
<1>1. /\ ~ WouldCreateCycle(edges, src, dst)
      /\ s = [Store EXCEPT !.edges = t, !.author = w, !.changed = {dst}]
  <2> DEFINE good == [Store EXCEPT !.edges = t, !.author = w, !.changed = {dst}]
  <2>1. s = Refuse \/ s = Retry \/ (~ WouldCreateCycle(edges, src, dst) /\ s = good)
      BY DEF EdgeAttached
  <2> HIDE DEF s, good, src, dst
  <2>2. s # Refuse /\ s # Retry
      BY RefuseEnds DEF s
  <2> QED BY <2>1, <2>2 DEF good
<1>2. st \in {"AUTO_ACCEPTED", "NEEDS_REVIEW"} /\ (st = "AUTO_ACCEPTED" => creator[dst] = a)
    BY DEF VerdictFor, Verdict, Owns
<1>3. e \in Edge /\ e.st = st /\ e.by = "device"
  <2>1. p.conf \in 0..Certain
      BY EdgeStoreAssumption DEF Payload
  <2> HIDE DEF st
  <2> QED BY <1>2, <2>1, NewEdgeType DEF NewEdge, ReviewState, Origin
<1>4. edges \in EdgeTable
    BY DEF Lined
<1>5. /\ s.nodes = nodes /\ s.disk = disk /\ s.edges = t
      /\ s.uuid = node_uuid /\ s.creator = creator /\ s.alias = alias
      /\ s.author = w /\ s.changed = {dst}
  <2> HIDE DEF s, t, w, dst
  <2> QED BY <1>1 DEF Store
<1> HIDE DEF s, e, st, src, dst
<1>6. /\ t \in EdgeTable
      /\ \A x \in EdgeKey : x # k => t[x] = edges[x]
      /\ \A x \in EdgeKey : edges[x].st # "NONE" => t[x] = edges[x]
  <2> HIDE DEF k
  <2> QED BY <1>3, <1>4, CreateType
<1>7. ~ Cyclic(edges) => ~ Cyclic(t)
  <2>1. k.src = src /\ k.dst = dst
      OBVIOUS
  <2> HIDE DEF k, t
  <2> QED BY <1>1, <1>6, <2>1, NoCycleByOne
<1>8. KeepsLineage(edges, t, {dst})
  <2>1. \A x \in EdgeKey : Reviewed(edges[x]) => t[x] = edges[x]
      BY <1>6 DEF Reviewed
  <2>2. \A x \in EdgeKey : t[x] # edges[x] => x.dst \in {dst}
      BY <1>6
  <2> HIDE DEF k, t
  <2> QED BY <1>6, <1>7, <2>1, <2>2 DEF KeepsLineage
<1>9. ASSUME NEW x \in EdgeKey, OnItsWord(t[x])
      PROVE  w[x] \in Device /\ creator[x.dst] = w[x]
  <2>1. CASE x = k /\ edges[k].st = "NONE"
    <3>1. t[x] = e /\ w[x] = a /\ x.dst = dst
      <4>1. x.dst = dst
          BY <1>9, <2>1
      <4> HIDE DEF k
      <4>2. t = [edges EXCEPT ![k] = e] /\ w = [author EXCEPT ![k] = a]
          BY <2>1 DEF CreateMediaEdge
      <4> HIDE DEF t, w
      <4> QED BY <1>4, <1>9, <2>1, <4>1, <4>2 DEF EdgeTable, Rows
    <3>2. st = "AUTO_ACCEPTED"
        BY <1>3, <1>9, <3>1 DEF OnItsWord
    <3> QED BY <1>2, <3>1, <3>2
  <2>2. CASE ~ (x = k /\ edges[k].st = "NONE")
    <3> HIDE DEF k
    <3>1. t[x] = edges[x] /\ w[x] = author[x]
        BY <1>6, <2>2 DEF Rows
    <3> QED BY <1>9, <3>1 DEF Owned
  <2> QED BY <2>1, <2>2
<1>10. w \in [EdgeKey -> Device \cup {NoDevice}]
  <2> HIDE DEF k
  <2> QED BY DEF Rows
<1> HIDE DEF t, w
<1>11. /\ s.nodes \in Table /\ s.disk \in [Path -> File]
       /\ s.uuid \in [Node -> Node \cup Uuid]
       /\ s.creator \in [Node -> Device \cup {NoDevice}]
       /\ s.alias \in [Uuid -> [node : 0..MaxNode, agent : Device \cup {NoDevice}]]
       /\ s.author \in [EdgeKey -> Device \cup {NoDevice}]
    BY <1>5, <1>10 DEF Rows
<1>12. /\ \A m \in Node : s.creator[m] # NoDevice => Exists(s.nodes[m])
       /\ \A u \in Uuid : s.alias[u].node # 0 => Exists(s.nodes[s.alias[u].node])
    BY <1>5 DEF Owned
<1>13. Touches(a, s.nodes)
    BY <1>5 DEF Touches
<1>14. StoreOK(a, s)
    BY <1>5, <1>8, <1>9, <1>11, <1>12, <1>13 DEF StoreOK
<1> QED BY <1>14 DEF s

LEMMA RebaseByUUIDKeeps ==
    ASSUME Rows, NEW n \in Node, NEW path \in Path
    PROVE  /\ RebaseByUUID(n, path) \in Table /\ Exists(RebaseByUUID(n, path)[n])
           /\ \A m \in Node : m # n => RebaseByUUID(n, path)[m] = nodes[m]
<1> DEFINE r == [nodes[n] EXCEPT !.path = path, !.state = "ACTIVE"]
<1>1. nodes[n] \in Row /\ nodes \in Table
    BY DEF Rows, Table
<1>2. r \in Row /\ r.state = "ACTIVE"
    BY <1>1 DEF Row, LifecycleState
<1>3. RebaseByUUID(n, path) = [nodes EXCEPT ![n] = r]
    BY <1>1 DEF RebaseByUUID, Table
<1> HIDE DEF r
<1> QED BY <1>1, <1>2, <1>3 DEF Table, Exists

LEMMA PayloadFields ==
    ASSUME NEW p \in Payload
    PROVE  p.uuid \in Uuid /\ p.path \in Path /\ FastOf[p.content] \in FastHash
BY NodeStoreAssumption DEF Payload

\* A row that is there, not retired and the device's own is live.
LEMMA OwnLive ==
    ASSUME NEW a, NEW n, Exists(nodes[n]), ~ Retired(n), Owns(a, n)
    PROVE  Live(nodes[n]) /\ creator[n] = a
BY DEF Exists, Retired, Owns, Live

LEMMA NodeMovedOK ==
    ASSUME Rows, Owned, Lined, NEW a \in Device, NEW p \in Payload,
           NodeMoved(a, p).end = "done"
    PROVE  StoreOK(a, NodeMoved(a, p))
<1> DEFINE n == The(Named(p.uuid))
           t == RebaseByUUID(n, p.path)
<1>1. \/ NodeMoved(a, p) = Retry
      \/ NodeMoved(a, p) = Store
      \/ NodeMoved(a, p) = Refuse
      \/ /\ Named(p.uuid) # {} /\ ~ Retired(n) /\ Owns(a, n)
         /\ NodeMoved(a, p) = Checked([Store EXCEPT !.nodes = t])
    BY DEF NodeMoved, Lookup
<1>2. CASE /\ Named(p.uuid) # {} /\ ~ Retired(n) /\ Owns(a, n)
           /\ NodeMoved(a, p) = Checked([Store EXCEPT !.nodes = t])
  <2>1. n \in Node /\ Live(nodes[n]) /\ creator[n] = a
      BY <1>2, NamedRow, OwnLive
  <2>2. NodeMoved(a, p) = [Store EXCEPT !.nodes = t]
      BY <1>2, RefuseEnds
  <2> HIDE DEF n
  <2>3. t \in Table /\ Exists(t[n]) /\ \A m \in Node : m # n => t[m] = nodes[m]
      BY <2>1, PayloadFields, RebaseByUUIDKeeps
  <2> HIDE DEF t
  <2>4. StoreOK(a, [Store EXCEPT !.nodes = t])
      BY <2>1, <2>3, OwnRowChanges
  <2> QED BY ONLY <2>2, <2>4
<1> QED BY <1>1, <1>2, RefuseEnds, StoreStays

LEMMA RebaseKnownOK ==
    ASSUME Rows, Owned, Lined, NEW a \in Device, NEW n \in Node, Exists(nodes[n]),
           NEW p \in Payload, RebaseKnown(a, n, p).end = "done"
    PROVE  StoreOK(a, RebaseKnown(a, n, p))
<1> DEFINE moved  == RebaseByUUID(n, p.path)
           filled == UpdateMediaNodeFullHash(moved, n, FullOf(p))
           hashed == RecordFullHashSource(filled, n, FullOf(p), "AGENT")
<1>1. /\ ~ Retired(n) /\ Owns(a, n)
      /\ \/ RebaseKnown(a, n, p) = [Store EXCEPT !.nodes = hashed]
         \/ RebaseKnown(a, n, p) = [Store EXCEPT !.nodes = moved]
  <2>1. \/ RebaseKnown(a, n, p) = Refuse
        \/ /\ ~ Retired(n) /\ Owns(a, n)
           /\ \/ RebaseKnown(a, n, p) = Checked([Store EXCEPT !.nodes = hashed])
              \/ RebaseKnown(a, n, p) = Checked([Store EXCEPT !.nodes = moved])
    <3> HIDE DEF hashed
    <3>1. CASE FullOf(p) # NoHash /\ nodes[n].full = NoHash
        BY <3>1 DEF RebaseKnown, hashed
    <3>2. CASE ~ (FullOf(p) # NoHash /\ nodes[n].full = NoHash)
        BY <3>2 DEF RebaseKnown
    <3> QED BY <3>1, <3>2
  <2> HIDE DEF hashed, moved
  <2> QED BY <2>1, RefuseEnds
<1>2. Live(nodes[n]) /\ creator[n] = a
    BY <1>1, OwnLive
<1>3. moved \in Table /\ Exists(moved[n]) /\ \A m \in Node : m # n => moved[m] = nodes[m]
    BY PayloadFields, RebaseByUUIDKeeps
<1> HIDE DEF moved
<1>4. filled \in Table /\ Exists(filled[n]) /\ \A m \in Node : m # n => filled[m] = nodes[m]
  <2>1. filled \in Table
      BY <1>3, FullOfType, UpdateFullHashKeeps
  <2> QED BY <1>3, <2>1 DEF UpdateMediaNodeFullHash, Table, Exists
<1> HIDE DEF filled
<1>5. hashed \in Table /\ Exists(hashed[n]) /\ \A m \in Node : m # n => hashed[m] = nodes[m]
    BY <1>4, FullOfType, RecordAgentKeeps DEF Exists
<1> HIDE DEF hashed
<1>6. StoreOK(a, [Store EXCEPT !.nodes = moved])
    BY <1>2, <1>3, OwnRowChanges
<1>7. StoreOK(a, [Store EXCEPT !.nodes = hashed])
    BY <1>2, <1>5, OwnRowChanges
<1> QED BY ONLY <1>1, <1>6, <1>7

LEMMA PathRebasedOK ==
    ASSUME Rows, Owned, Lined, Room, NEW a \in Device, NEW p \in Payload,
           PathRebased(a, p).end = "done"
    PROVE  StoreOK(a, PathRebased(a, p))
<1>1. \/ PathRebased(a, p) = Store
      \/ PathRebased(a, p) = Retry
      \/ Named(p.uuid) # {} /\ PathRebased(a, p) = RebaseKnown(a, The(Named(p.uuid)), p)
      \/ PathRebased(a, p) = Introduce(a, p)
    BY DEF PathRebased
<1> QED BY <1>1, RefuseEnds, StoreStays, NamedRow, RebaseKnownOK, IntroduceOK

LEMMA TrashedRows ==
    ASSUME Rows, NEW n \in Node
    PROVE  /\ Trashed(n).nodes \in Table /\ Trashed(n).disk \in [Path -> File]
           /\ \A m \in Node : Exists(nodes[m]) => Exists(Trashed(n).nodes[m])
           /\ \A m \in Node : Trashed(n).nodes[m] # nodes[m] =>
                 /\ Trashed(n).nodes[m].state = "TRASHED"
                 /\ m = n \/ \E k \in EdgeKey : k.src = n /\ k.dst = m /\ Accepted(edges[k])
           /\ Trashed(n).edges = edges /\ Trashed(n).uuid = node_uuid
           /\ Trashed(n).creator = creator /\ Trashed(n).alias = alias
           /\ Trashed(n).author = author /\ Trashed(n).changed = {}
<1> DEFINE s    == Trashed(n)
           gone == {n} \cup CascadeExports(n)
           t    == [m \in Node |-> IF m \in gone THEN [nodes[m] EXCEPT !.state = "TRASHED"]
                                   ELSE nodes[m]]
           Emptied(q) == \E m \in gone : nodes[m].path = q /\ LocOf[q] \notin Tier3
           d    == [q \in Path |-> IF Emptied(q) THEN NoFile ELSE disk[q]]
<1>1. s = [Store EXCEPT !.nodes = t, !.disk = d]
    BY DEF Trashed
<1>2. \A m \in gone : m = n \/ \E k \in EdgeKey : k.src = n /\ k.dst = m /\ Accepted(edges[k])
    BY DEF CascadeExports
<1> HIDE DEF gone
<1>3. t \in Table
  <2>1. \A m \in Node : nodes[m] \in Row
      BY DEF Rows, Table
  <2>2. \A r \in Row : [r EXCEPT !.state = "TRASHED"] \in Row
      BY DEF Row, LifecycleState
  <2> QED BY <2>1, <2>2 DEF Table
<1>4. d \in [Path -> File]
  <2> HIDE DEF Emptied
  <2> QED BY DEF Rows, File
<1>5. \A m \in Node : m \in gone => t[m].state = "TRASHED"
    BY DEF Rows, Table, Row
<1>6. \A m \in Node : m \notin gone => t[m] = nodes[m]
    OBVIOUS
<1>7. /\ s.nodes = t /\ s.disk = d /\ s.edges = edges
      /\ s.uuid = node_uuid /\ s.creator = creator /\ s.alias = alias
      /\ s.author = author /\ s.changed = {}
  <2> HIDE DEF s, t, d
  <2> QED BY <1>1 DEF Store
<1> HIDE DEF t, d
<1>8. \A m \in Node : Exists(nodes[m]) => Exists(t[m])
    BY <1>5, <1>6 DEF Exists
<1>9. \A m \in Node : t[m] # nodes[m] =>
          /\ t[m].state = "TRASHED"
          /\ m = n \/ \E k \in EdgeKey : k.src = n /\ k.dst = m /\ Accepted(edges[k])
    BY <1>2, <1>5, <1>6
<1> QED BY <1>3, <1>4, <1>7, <1>8, <1>9

\* A device's delete takes along the exports of a row of its own; what only the
\* device itself says about an export is about one of its own rows.
LEMMA TrashedOK ==
    ASSUME Rows, Owned, Lined, NEW a \in Device, NEW n \in Node, Live(nodes[n]),
           creator[n] = a
    PROVE  StoreOK(a, Trashed(n))
<1> DEFINE s == Trashed(n)
           t == s.nodes
<1>1. /\ t \in Table /\ s.disk \in [Path -> File]
      /\ \A m \in Node : Exists(nodes[m]) => Exists(t[m])
      /\ \A m \in Node : t[m] # nodes[m] =>
            /\ t[m].state = "TRASHED"
            /\ m = n \/ \E k \in EdgeKey : k.src = n /\ k.dst = m /\ Accepted(edges[k])
      /\ s.edges = edges /\ s.uuid = node_uuid /\ s.creator = creator
      /\ s.alias = alias /\ s.author = author /\ s.changed = {}
    BY TrashedRows
<1> HIDE DEF s
<1>2. ASSUME NEW k \in EdgeKey, creator[k.src] = a, Accepted(edges[k])
      PROVE  Vouches(a, k)
  <2>1. CASE edges[k].by = "device" /\ edges[k].st = "AUTO_ACCEPTED"
      BY <2>1 DEF Owned, OnItsWord, Vouches
  <2>2. CASE ~ (edges[k].by = "device" /\ edges[k].st = "AUTO_ACCEPTED")
      BY <1>2, <2>2 DEF Accepted, Vouches
  <2> QED BY <2>1, <2>2
<1>3. Touches(a, t)
  <2> SUFFICES ASSUME NEW m \in Node, Exists(nodes[m]), t[m] # nodes[m]
               PROVE  \/ Live(nodes[m]) /\ creator[m] = a
                      \/ /\ t[m].state = "TRASHED"
                         /\ \E k \in EdgeKey : k.dst = m /\ creator[k.src] = a /\ Vouches(a, k)
      BY DEF Touches
  <2>1. /\ t[m].state = "TRASHED"
        /\ m = n \/ \E k \in EdgeKey : k.src = n /\ k.dst = m /\ Accepted(edges[k])
      BY <1>1
  <2>2. CASE m = n
      BY <2>2
  <2>3. CASE \E k \in EdgeKey : k.src = n /\ k.dst = m /\ Accepted(edges[k])
      BY <1>2, <2>1, <2>3
  <2> QED BY <2>1, <2>2, <2>3
<1>4. StoreOK(a, s)
    BY <1>1, <1>3, RowsOnly
<1> QED BY <1>4 DEF s

LEMMA NodeDeletedOK ==
    ASSUME Rows, Owned, Lined, NEW a \in Device, NEW p \in Payload,
           NodeDeleted(a, p).end = "done"
    PROVE  StoreOK(a, NodeDeleted(a, p))
<1> DEFINE n == The(Named(p.uuid))
<1>1. \/ NodeDeleted(a, p) = Retry
      \/ NodeDeleted(a, p) = Store
      \/ NodeDeleted(a, p) = Refuse
      \/ /\ Named(p.uuid) # {} /\ ~ Retired(n) /\ Owns(a, n)
         /\ NodeDeleted(a, p) = Checked(Trashed(n))
    BY DEF NodeDeleted, Lookup
<1>2. CASE /\ Named(p.uuid) # {} /\ ~ Retired(n) /\ Owns(a, n)
           /\ NodeDeleted(a, p) = Checked(Trashed(n))
  <2>1. n \in Node /\ Live(nodes[n]) /\ creator[n] = a
      BY <1>2, NamedRow, OwnLive
  <2>2. NodeDeleted(a, p) = Trashed(n)
      BY <1>2, RefuseEnds
  <2> HIDE DEF n
  <2> QED BY <2>1, <2>2, TrashedOK
<1> QED BY <1>1, <1>2, RefuseEnds, StoreStays

LEMMA VirtualNodeCreatedOK ==
    ASSUME Rows, Owned, Lined, Room, NEW a \in Device, NEW p \in Payload,
           VirtualNodeCreated(a, p).end = "done"
    PROVE  StoreOK(a, VirtualNodeCreated(a, p))
<1> DEFINE m == The(LiveAt(nodes, p.path))
           s == [Store EXCEPT !.made = m]
<1>1. \/ VirtualNodeCreated(a, p) = Store
      \/ VirtualNodeCreated(a, p) = Refuse
      \/ VirtualNodeCreated(a, p) = InsertFor(a, p, NoFast, NoHash)
      \/ VirtualNodeCreated(a, p) = s
    BY DEF VirtualNodeCreated
<1>2. CASE VirtualNodeCreated(a, p) = s
  <2> HIDE DEF m
  <2>1. /\ s.nodes = nodes /\ s.disk = disk /\ s.edges = edges
        /\ s.uuid = node_uuid /\ s.creator = creator /\ s.alias = alias
        /\ s.author = author /\ s.changed = {}
      BY DEF Store
  <2>2. nodes \in Table /\ disk \in [Path -> File]
      BY DEF Rows
  <2>3. Touches(a, nodes)
      BY DEF Touches
  <2> HIDE DEF s
  <2>4. StoreOK(a, s)
      BY <2>1, <2>2, <2>3, RowsOnly
  <2> QED BY <1>2, <2>4
<1>3. NoFast \in FastHash /\ NoHash \in FullHash
    BY AgentAssumption DEF FullHash
<1> QED BY <1>1, <1>2, <1>3, RefuseEnds, StoreStays, InsertForOK

\* Whatever an event makes of the store, it keeps to what its device may touch.
LEMMA ApplyOK ==
    ASSUME Rows, Owned, Lined, Room, NEW a \in Device, NEW p \in Payload,
           Apply(a, p).end = "done"
    PROVE  StoreOK(a, Apply(a, p))
<1>1. p.type \in {"created", "edge", "moved", "deleted", "rebased", "virtual"}
    BY DEF Payload
<1>2. CASE p.type = "created"
  <2>1. Apply(a, p) = Store \/ Apply(a, p) = Introduce(a, p)
      BY <1>2 DEF Apply, NodeCreated
  <2> QED BY <2>1, StoreStays, IntroduceOK
<1>3. CASE p.type = "edge"
  <2>1. Apply(a, p) = EdgeAttached(a, p)
      BY <1>3 DEF Apply
  <2> QED BY <2>1, EdgeAttachedOK
<1>4. CASE p.type = "moved"
  <2>1. Apply(a, p) = NodeMoved(a, p)
      BY <1>4 DEF Apply
  <2> QED BY <2>1, NodeMovedOK
<1>5. CASE p.type = "deleted"
  <2>1. Apply(a, p) = NodeDeleted(a, p)
      BY <1>5 DEF Apply
  <2> QED BY <2>1, NodeDeletedOK
<1>6. CASE p.type = "rebased"
  <2>1. Apply(a, p) = PathRebased(a, p)
      BY <1>6 DEF Apply
  <2> QED BY <2>1, PathRebasedOK
<1>7. CASE p.type = "virtual"
  <2>1. Apply(a, p) = VirtualNodeCreated(a, p)
      BY <1>7 DEF Apply
  <2> QED BY <2>1, VirtualNodeCreatedOK
<1> QED BY <1>1, <1>2, <1>3, <1>4, <1>5, <1>6, <1>7

----------------------------------------------------------------------------
\* The steps.

\* People's decisions stand.
Decided == \A k \in EdgeKey : Reviewed(edges[k]) => edges'[k] = edges[k]

LEMMA CommitsKeeps ==
    ASSUME Rows, Owned, Lined, NEW a, NEW s, StoreOK(a, s), Commits(s), UNCHANGED refreshed
    PROVE  Rows' /\ Owned' /\ Lined' /\ Decided /\ Touches(a, nodes')
<1>1. /\ nodes' = s.nodes /\ disk' = s.disk
      /\ edges' = s.edges /\ status' = Recomputed(s.edges, s.changed)
      /\ node_uuid' = s.uuid /\ creator' = s.creator /\ alias' = s.alias /\ author' = s.author
    BY DEF Commits
<1>2. KeepsLineage(edges, edges', s.changed) /\ status' = Recomputed(edges', s.changed)
    BY <1>1 DEF StoreOK
<1>3. Rows'
    BY <1>1 DEF StoreOK, Rows
<1>4. Owned'
    BY <1>1 DEF StoreOK, Owned
<1>5. edges' \in EdgeTable /\ StatusTrue'
    BY <1>2, StatusMoves DEF Lined, KeepsLineage
<1>6. NoOtherCycle'
    BY <1>2 DEF Lined, NoOtherCycle, KeepsLineage
<1>7. Decided
    BY <1>2 DEF Decided, KeepsLineage
<1> QED BY <1>1, <1>3, <1>4, <1>5, <1>6, <1>7 DEF StoreOK, Lined

\* A step of the lineage alone.
LEMMA LineageMoves ==
    ASSUME Rows, Owned, Lined, UNCHANGED <<nodes, disk, ids, refreshed>>,
           edges' \in EdgeTable, StatusTrue', ~ Cyclic(edges) => ~ Cyclic(edges'),
           KeepsOrigin(edges, edges')
    PROVE  Rows' /\ Owned' /\ Lined'
<1>1. Rows'
    BY DEF Rows, ids
<1>2. Owned'
    BY DEF Owned, ids, KeepsOrigin
<1>3. Lined'
    BY DEF Lined, NoOtherCycle
<1> QED BY <1>1, <1>2, <1>3

LEMMA LineageStays ==
    ASSUME Lined, UNCHANGED <<lineage, refreshed>>
    PROVE  Lined' /\ Decided
BY StatusStays DEF Lined, NoOtherCycle, lineage, Decided

\* A step of the rows and the files alone.
LEMMA RowsMove ==
    ASSUME Rows, Owned, Lined, nodes' \in Table, disk' \in [Path -> File],
           \A n \in Node : Exists(nodes[n]) => Exists(nodes'[n]),
           UNCHANGED <<lineage, ids, refreshed>>
    PROVE  Rows' /\ Owned' /\ Lined' /\ Decided
<1>1. Rows'
    BY DEF Rows, ids
<1>2. ASSUME NEW u \in Uuid, alias[u].node # 0
      PROVE  Exists(nodes'[alias[u].node])
  <2>1. alias[u].node \in 0..MaxNode
      BY DEF Rows
  <2>2. alias[u].node \in Node
      BY <1>2, <2>1, NodeStoreAssumption DEF Node
  <2> QED BY <1>2, <2>2 DEF Owned
<1>3. Owned'
    BY <1>2 DEF Owned, ids, lineage
<1> QED BY <1>1, <1>3, LineageStays

\* Nothing of the store moves.
LEMMA StoreKept ==
    ASSUME Rows, Owned, Lined, UNCHANGED <<nodes, disk, lineage, ids, refreshed>>
    PROVE  Rows' /\ Owned' /\ Lined' /\ Decided
BY RowsMove DEF Rows

LEMMA CandidatesType ==
    ASSUME NEW n
    PROVE  Candidates(n) \in Seq(ResolverCandidate)
<1> DEFINE S  == {i \in DOMAIN Guesses : Proposed(n, Guesses[i])}
           at == OldestFirst(S)
           m  == Cardinality(S)
<1>1. Guesses \in Seq(ResolverCandidate)
    BY AgentAssumption DEF ResolverCandidate
<1>2. S \in SUBSET Nat /\ IsFiniteSet(S) /\ S \subseteq DOMAIN Guesses
  <2>1. DOMAIN Guesses = 1..Len(Guesses) /\ Len(Guesses) \in Nat
      BY <1>1
  <2>2. IsFiniteSet(1..Len(Guesses))
      BY <2>1, RangeFinite
  <2>3. S \subseteq 1..Len(Guesses)
      BY <2>1
  <2>4. S \in SUBSET Nat
      BY <2>1, <2>3
  <2> QED BY <2>1, <2>2, <2>3, <2>4, FS_Subset
<1> HIDE DEF S
<1>3. m \in Nat /\ at \in [1..m -> S]
    BY <1>2, OldestFirstOrders
<1> HIDE DEF at, m
<1>4. \A r \in 1..m : Guesses[at[r]] \in ResolverCandidate
  <2>1. \A i \in DOMAIN Guesses : Guesses[i] \in ResolverCandidate
      BY <1>1
  <2>2. \A r \in 1..m : at[r] \in DOMAIN Guesses
      BY <1>2, <1>3
  <2> QED BY ONLY <2>1, <2>2
<1>5. Candidates(n) = [r \in 1..m |-> Guesses[at[r]]]
  <2>1. Candidates(n) = [r \in DOMAIN at |-> Guesses[at[r]]]
      BY DEF Candidates, at, S
  <2>2. DOMAIN at = 1..m
      BY <1>3
  <2> QED BY <2>1, <2>2
<1>6. Candidates(n) \in [1..m -> ResolverCandidate]
    BY <1>4, <1>5
<1> QED BY SMTT(30), <1>3, <1>6

LEMMA ResolvingKeeps ==
    ASSUME Rows, Owned, Lined, NEW n, ResolveAndCommit(Candidates(n)),
           UNCHANGED <<nodes, disk, ids, refreshed>>
    PROVE  Rows' /\ Owned' /\ Lined' /\ Decided
<1>1. /\ edges' \in EdgeTable /\ StatusTrue'
      /\ \A k \in EdgeKey : Reviewed(edges[k]) => edges'[k] = edges[k]
      /\ ~ Cyclic(edges) => ~ Cyclic(edges')
      /\ KeepsOrigin(edges, edges')
    BY CandidatesType, ResolveAndCommitKeeps DEF Lined
<1>2. Decided
    BY <1>1 DEF Decided
<1> QED BY <1>1, <1>2, LineageMoves

LEMMA ReviewingKeeps ==
    ASSUME Rows, Owned, Lined, PersonReviews, UNCHANGED <<ids, refreshed>>
    PROVE  Rows' /\ Owned' /\ Lined'
<1>1. /\ edges' \in EdgeTable /\ StatusTrue'
      /\ ~ Cyclic(edges) => ~ Cyclic(edges')
      /\ KeepsOrigin(edges, edges')
    BY PersonReviewsKeeps DEF Lined
<1>2. UNCHANGED <<nodes, disk>>
    BY DEF PersonReviews
<1> QED BY <1>1, <1>2, LineageMoves

\* What events change, they change for their device.
KeptOut == \A i \in DOMAIN queue : queue[i].st # queue'[i].st => Touches(queue[i].agent, nodes')

LEMMA QueueSame ==
    ASSUME UNCHANGED queue
    PROVE  KeptOut
BY DEF KeptOut

LEMMA ProcessDone ==
    ASSUME Inv, NEW h \in DOMAIN queue, h = drainer.todo[1].at, drainer.phase = "run",
           NEW s, s = Apply(queue[h].agent, queue[h].payload), s.end = "done", Commits(s),
           queue' = [queue EXCEPT ![h].st = "PROCESSED"],
           drainer' = IF s.made # 0 THEN [drainer EXCEPT !.phase = "resolve", !.made = s.made]
                      ELSE Advance(drainer),
           UNCHANGED <<posted, scopes, refreshed, lost>>
    PROVE  Inv' /\ Decided /\ KeptOut
<1> DEFINE a  == queue[h].agent
           e2 == [queue[h] EXCEPT !.st = "PROCESSED"]
<1>1. queue[h] \in Event
    BY EventAt DEF Inv
<1>2. a \in Device /\ queue[h].payload \in Payload
    BY <1>1 DEF Event
<1>3. StoreOK(a, s)
    BY <1>2, ApplyOK DEF Commits, Inv
<1>4. Rows' /\ Owned' /\ Lined' /\ Decided /\ Touches(a, nodes')
    BY <1>3, CommitsKeeps DEF Inv
<1>5. e2 \in Event /\ e2.st = "PROCESSED" /\ e2.retries = queue[h].retries
    BY <1>1 DEF Event
<1>6. queue' = [queue EXCEPT ![h] = e2]
    OBVIOUS
<1> HIDE DEF e2
<1>7. \/ drainer' = Advance(drainer)
      \/ \E m : drainer' = [drainer EXCEPT !.phase = "resolve", !.made = m]
    OBVIOUS
<1>8. QueueType' /\ Batch' /\ InTurn'
    BY <1>5, <1>6, <1>7, ProcessedKeeps DEF Inv
<1>9. \A i \in DOMAIN queue : i # h => queue'[i] = queue[i]
    BY <1>6
<1>10. KeptOut
    BY <1>4, <1>9 DEF KeptOut
<1> QED BY <1>4, <1>8, <1>10 DEF Inv

LEMMA ProcessKeeps ==
    ASSUME Inv, Process
    PROVE  Inv' /\ Decided /\ KeptOut
<1>1. PICK h \in DOMAIN queue : h = drainer.todo[1].at
    BY NoneBefore DEF Inv, Process
<1> DEFINE s == Apply(queue[h].agent, queue[h].payload)
<1>2. drainer.phase = "run" /\ UNCHANGED <<posted, scopes, refreshed, lost>>
    BY DEF Process, outside
<1>3. \/ /\ s.end = "done" /\ Commits(s)
         /\ queue' = [queue EXCEPT ![h].st = "PROCESSED"]
         /\ drainer' = IF s.made # 0 THEN [drainer EXCEPT !.phase = "resolve", !.made = s.made]
                       ELSE Advance(drainer)
      \/ \E how : /\ drainer' = [drainer EXCEPT !.phase = "settle", !.outcome = how]
                  /\ UNCHANGED <<nodes, stat, disk, lineage, ids, queue>>
    BY <1>1 DEF Process
<1> HIDE DEF s
<1>4. CASE /\ s.end = "done" /\ Commits(s)
           /\ queue' = [queue EXCEPT ![h].st = "PROCESSED"]
           /\ drainer' = IF s.made # 0 THEN [drainer EXCEPT !.phase = "resolve", !.made = s.made]
                         ELSE Advance(drainer)
    BY <1>1, <1>2, <1>4, ProcessDone DEF s
<1>5. ASSUME NEW how, drainer' = [drainer EXCEPT !.phase = "settle", !.outcome = how],
             UNCHANGED <<nodes, stat, disk, lineage, ids, queue>>
      PROVE  Inv' /\ Decided /\ KeptOut
  <2>1. QueueType' /\ Batch' /\ InTurn'
      BY <1>2, <1>5, FailedKeeps DEF Inv
  <2>2. Rows' /\ Owned' /\ Lined' /\ Decided
      BY <1>2, <1>5, StoreKept DEF Inv
  <2> QED BY <1>5, <2>1, <2>2, QueueSame DEF Inv
<1> QED BY <1>3, <1>4, <1>5

LEMMA SyncRebaseKeeps ==
    ASSUME Inv, NEW a \in Device, NEW p \in Rebases[a], SyncRebase(a, p)
    PROVE  Inv' /\ Decided /\ KeptOut
<1>1. p \in Payload
    BY AgentAssumption
<1>2. UNCHANGED <<queue, posted, drainer, lost, refreshed>>
    BY DEF SyncRebase, outside
<1>3. PICK s : /\ s.end = "done" /\ Commits(s)
               /\ \/ s = Store
                  \/ s = Retry
                  \/ s = Refuse
                  \/ Named(p.uuid) # {} /\ s = RebaseKnown(a, The(Named(p.uuid)), p)
                  \/ s = InsertFor(a, p, FastOf[p.content], FullOf(p))
  <2> DEFINE s == CASE Aliased(a, p.uuid) # {} -> Store
                    [] Aliased(a, p.uuid) = {} ->
                          IF ~TargetReady(p.path) THEN Retry
                          ELSE IF Named(p.uuid) # {} THEN RebaseKnown(a, The(Named(p.uuid)), p)
                          ELSE IF FullOf(p) # NoHash /\ Owners(nodes, FullOf(p)) # {} THEN Refuse
                          ELSE InsertFor(a, p, FastOf[p.content], FullOf(p))
  <2>1. s.end = "done" /\ Commits(s)
      BY DEF SyncRebase
  <2>2. \/ s = Store
        \/ s = Retry
        \/ s = Refuse
        \/ Named(p.uuid) # {} /\ s = RebaseKnown(a, The(Named(p.uuid)), p)
        \/ s = InsertFor(a, p, FastOf[p.content], FullOf(p))
      OBVIOUS
  <2> HIDE DEF s
  <2> QED BY <2>1, <2>2
<1>4. Room
    BY <1>3 DEF Commits
<1>5. StoreOK(a, s)
  <2>1. s # Retry /\ s # Refuse
      BY <1>3, RefuseEnds
  <2>2. CASE s = Store
      BY <2>2, StoreStays DEF Inv
  <2>3. CASE Named(p.uuid) # {} /\ s = RebaseKnown(a, The(Named(p.uuid)), p)
      BY <1>1, <1>3, <2>3, NamedRow, RebaseKnownOK DEF Inv
  <2>4. CASE s = InsertFor(a, p, FastOf[p.content], FullOf(p))
      BY <1>1, <1>3, <1>4, <2>4, InsertForOK, PayloadFields, FullOfType DEF Inv
  <2> QED BY <1>3, <2>1, <2>2, <2>3, <2>4
<1>6. Rows' /\ Owned' /\ Lined' /\ Decided
    BY <1>2, <1>3, <1>5, CommitsKeeps DEF Inv
<1>7. QueueType' /\ Batch' /\ InTurn'
    BY <1>2, QueueStays DEF Inv
<1> QED BY <1>2, <1>6, <1>7, QueueSame DEF Inv

----------------------------------------------------------------------------
\* The snapshot.

LEMMA ReconcileOne ==
    ASSUME NEW t \in EdgeTable, NEW k \in EdgeKey, NEW tl, NEW keep, NEW guarded, NEW e,
           e = Reconcile(t, tl, keep, guarded)[k]
    PROVE  /\ e \in Edge
           /\ e # t[k] => k.dst = tl
           /\ Reviewed(t[k]) => e = t[k]
           /\ OnItsWord(e) => OnItsWord(t[k])
           /\ e.on /\ ~ t[k].on =>
                 \/ t[k].st # "NONE" /\ k.src \in keep
                 \/ t[k].st = "NONE" /\ k.src \in keep /\ k = Sidecar(k.src, tl)
<1>1. t[k] \in Edge
    BY DEF EdgeTable
<1>2. Certain \in 0..Certain
    BY EdgeStoreAssumption
<1>3. k.dst = tl /\ k.rel = "PROJECT_SIDECAR" => k = Sidecar(k.src, tl)
    BY EdgeStoreAssumption DEF Sidecar
<1> DEFINE made == NewEdge("AUTO_ACCEPTED", Certain, "snapshot")
           up   == RefreshResolveEdge(t, k)[k]
           down == InactivateResolveEdge(t, k)[k]
<1>4. \/ e = t[k]
      \/ /\ k.dst = tl /\ k = Sidecar(k.src, tl) /\ k.src \in keep
         /\ \/ t[k].st = "NONE" /\ e = made
            \/ t[k].st # "NONE" /\ e = up
      \/ k.dst = tl /\ e = down
  <2> HIDE DEF made, up, down
  <2>1. e = CASE k.dst # tl \/ k.rel # "PROJECT_SIDECAR" -> t[k]
              [] k = Sidecar(k.src, tl) /\ k.src \in keep -> IF t[k].st = "NONE" THEN made ELSE up
              [] k = Sidecar(k.src, tl) /\ k.src \notin keep -> IF k.src \in guarded THEN t[k] ELSE down
      BY DEF Reconcile, ReconciledEdge, made, up, down
  <2>2. CASE k.dst # tl \/ k.rel # "PROJECT_SIDECAR"
    <3>1. ~ (k = Sidecar(k.src, tl))
      <4>1. Sidecar(k.src, tl).dst = tl /\ Sidecar(k.src, tl).rel = "PROJECT_SIDECAR"
          BY DEF Sidecar
      <4> QED BY <2>2, <4>1
    <3> QED BY <2>1, <2>2, <3>1
  <2>3. CASE k.dst = tl /\ k.rel = "PROJECT_SIDECAR"
    <3>1. k = Sidecar(k.src, tl)
        BY <1>3, <2>3
    <3> QED BY <2>1, <2>3, <3>1
  <2> QED BY <2>2, <2>3
<1>5. made \in Edge /\ made.st = "AUTO_ACCEPTED" /\ made.by = "snapshot" /\ made.on
    BY <1>2, NewEdgeType DEF NewEdge, ReviewState, Origin
<1>6. /\ up \in Edge /\ (up # t[k] => SnapshotOwns(t[k]) /\ up.by = "snapshot")
      /\ down \in Edge /\ (down # t[k] => SnapshotOwns(t[k]) /\ down.by = "snapshot" /\ ~ down.on)
  <2>1. up = t[k] \/ (SnapshotOwns(t[k]) /\ up = [t[k] EXCEPT !.on = TRUE])
      BY DEF RefreshResolveEdge, EdgeTable
  <2>2. down = t[k] \/ (SnapshotOwns(t[k]) /\ down = [t[k] EXCEPT !.on = FALSE])
      BY DEF InactivateResolveEdge, EdgeTable
  <2> HIDE DEF up, down
  <2> QED BY <1>1, <2>1, <2>2 DEF Edge, SnapshotOwns
<1> HIDE DEF made, up, down
<1>7. e \in Edge
    BY <1>1, <1>4, <1>5, <1>6
<1>8. e # t[k] => k.dst = tl
    BY <1>4
<1>9. Reviewed(t[k]) => e = t[k]
    BY <1>4, <1>6 DEF Reviewed, SnapshotOwns
<1>10. OnItsWord(e) => OnItsWord(t[k])
    BY <1>4, <1>5, <1>6 DEF OnItsWord
<1>11. e.on /\ ~ t[k].on =>
          \/ t[k].st # "NONE" /\ k.src \in keep
          \/ t[k].st = "NONE" /\ k.src \in keep /\ k = Sidecar(k.src, tl)
    BY <1>4, <1>6
<1> QED BY <1>7, <1>8, <1>9, <1>10, <1>11

LEMMA SnapshotKeeps ==
    ASSUME Inv, NEW r \in Snapshots, Snapshot(r)
    PROVE  Inv' /\ Decided /\ KeptOut
<1> DEFINE known  == Named(r.uuid)
           tl     == IF known # {} THEN The(known) ELSE NextId(nodes)
           rows   == IF known # {} THEN nodes
                     ELSE InsertMediaNode(nodes, r.path, NoFast, NoHash, NoProvenance)
           keep   == UNION {Named(u) : u \in r.keep}
           held   == UNION {Named(u) : u \in r.guarded}
           others == {n \in Node : <<r.agent, n>> \in scopes /\ n # tl}
           mine   == Reconcile(edges, tl, keep, held)
           after  == [k \in EdgeKey |->
                        IF k.dst \in others THEN Reconcile(mine, k.dst, {}, {})[k] ELSE mine[k]]
<1>1. /\ Room /\ ~ SnapshotConflict(edges, tl, keep)
      /\ nodes' = rows /\ node_uuid' = [node_uuid EXCEPT ![tl] = r.uuid]
      /\ edges' = after /\ status' = Recomputed(after, others \cup {tl})
      /\ refreshed' = (refreshed \/ \E k \in EdgeKey :
                          edges[k].st # "NONE" /\ ~ edges[k].on /\ after[k].on)
      /\ UNCHANGED <<disk, creator, alias, author, queue, posted, drainer, lost>>
    BY DEF Snapshot
<1>2. r.uuid \in Uuid /\ r.path \in Path
    BY AgentAssumption
<1>3. tl \in Node
    BY <1>1, NamedRow, NextIdFree DEF Room, FreeIds, Inv, Rows
<1>4. rows \in Table /\ \A n \in Node : Exists(nodes[n]) => Exists(rows[n])
  <2>1. NoFast \in FastHash /\ NoHash \in FullHash
      BY AgentAssumption DEF FullHash
  <2>2. nodes \in Table /\ FreeIds(nodes) # {}
      BY <1>1 DEF Room, Inv, Rows
  <2> QED BY <1>2, <2>1, <2>2, InsertKeeps DEF KeepsRetired, Exists
<1> HIDE DEF known, tl, rows, keep, held, others
<1>5. edges \in EdgeTable
    BY DEF Inv, Lined
<1>6. mine \in EdgeTable
  <2>1. \A k \in EdgeKey : mine[k] \in Edge
    <3> HIDE DEF mine
    <3>1. \A k \in EdgeKey : mine[k] = Reconcile(edges, tl, keep, held)[k]
        BY DEF mine
    <3> QED BY <1>5, <3>1, ReconcileOne
  <2>2. mine = [k \in EdgeKey |-> mine[k]]
      BY DEF Reconcile
  <2> HIDE DEF mine
  <2> QED BY <2>1, <2>2 DEF EdgeTable
<1>7. ASSUME NEW k \in EdgeKey
      PROVE  /\ after[k] \in Edge
             /\ after[k] # edges[k] => k.dst \in others \cup {tl}
             /\ Reviewed(edges[k]) => after[k] = edges[k]
             /\ OnItsWord(after[k]) => OnItsWord(edges[k])
             /\ after[k].on /\ ~ edges[k].on =>
                   \/ edges[k].st # "NONE"
                   \/ edges[k].st = "NONE" /\ k.src \in keep /\ k = Sidecar(k.src, tl)
  <2>1. /\ mine[k] \in Edge
        /\ mine[k] # edges[k] => k.dst = tl
        /\ Reviewed(edges[k]) => mine[k] = edges[k]
        /\ OnItsWord(mine[k]) => OnItsWord(edges[k])
        /\ mine[k].on /\ ~ edges[k].on =>
              \/ edges[k].st # "NONE" /\ k.src \in keep
              \/ edges[k].st = "NONE" /\ k.src \in keep /\ k = Sidecar(k.src, tl)
    <3> HIDE DEF mine
    <3>1. mine[k] = Reconcile(edges, tl, keep, held)[k]
        BY DEF mine
    <3> QED BY <1>5, <3>1, ReconcileOne
  <2> HIDE DEF mine
  <2>2. CASE k.dst \in others
    <3>1. after[k] = Reconcile(mine, k.dst, {}, {})[k]
        BY <2>2
    <3> HIDE DEF after
    <3>2. /\ after[k] \in Edge
          /\ Reviewed(mine[k]) => after[k] = mine[k]
          /\ OnItsWord(after[k]) => OnItsWord(mine[k])
          /\ ~ (after[k].on /\ ~ mine[k].on)
        BY <1>6, <3>1, ReconcileOne
    <3> QED BY <2>1, <2>2, <3>2
  <2>3. CASE k.dst \notin others
    <3>1. after[k] = mine[k]
        BY <2>3
    <3> HIDE DEF after
    <3> QED BY <2>1, <3>1
  <2> QED BY <2>2, <2>3
<1>8. after \in EdgeTable
  <2>1. after = [k \in EdgeKey |-> after[k]]
      OBVIOUS
  <2> HIDE DEF after
  <2> QED BY <1>7, <2>1 DEF EdgeTable
<1> HIDE DEF after, mine
<1>9. Decided
    BY <1>1, <1>7 DEF Decided
<1>10. StatusTrue'
  <2>1. \A k \in EdgeKey : edges'[k] # edges[k] => k.dst \in others \cup {tl}
      BY <1>1, <1>7
  <2>2. edges' \in EdgeTable /\ status' = Recomputed(edges', others \cup {tl})
      BY <1>1, <1>8
  <2> QED BY <2>1, <2>2, StatusMoves DEF Inv, Lined
<1>11. NoOtherCycle'
  <2>1. SUFFICES ASSUME ~ refreshed' PROVE ~ Cyclic(edges')
      BY DEF NoOtherCycle
  <2>2. ~ refreshed /\ ~ Cyclic(edges)
      BY <1>1, <2>1 DEF Inv, Lined, NoOtherCycle
  <2>3. ASSUME NEW k \in On(after)
        PROVE  k \in On(edges) \/ (k.dst = tl /\ k.src \notin Descendants(edges, tl))
    <3>1. k \in EdgeKey /\ after[k].on
        BY DEF On
    <3>2. ~ (edges[k].st # "NONE" /\ ~ edges[k].on /\ after[k].on)
        BY <1>1, <2>1, <3>1
    <3>3. CASE edges[k].on
        BY <3>1, <3>3 DEF On
    <3>4. CASE ~ edges[k].on
      <4>1. edges[k].st = "NONE" /\ k.src \in keep /\ k = Sidecar(k.src, tl)
          BY <1>7, <3>1, <3>2, <3>4
      <4>2. edges[Sidecar(k.src, tl)].st = "NONE"
          BY <4>1
      <4>3. k.src \notin Descendants(edges, tl)
          BY <1>1, <4>1, <4>2 DEF SnapshotConflict
      <4>4. Sidecar(k.src, tl).dst = tl
          BY DEF Sidecar
      <4> QED BY <4>1, <4>3, <4>4
    <3> QED BY <3>3, <3>4
  <2>4. ~ Cyclic(after)
      BY <2>2, <2>3, NoCycleMade
  <2> QED BY <1>1, <2>4
<1>12. Lined'
    BY <1>1, <1>8, <1>10, <1>11 DEF Lined
<1>13. Rows'
    BY <1>1, <1>2, <1>3, <1>4 DEF Inv, Rows
<1>14. Owned'
  <2>1. ASSUME NEW u \in Uuid, alias[u].node # 0
        PROVE  Exists(nodes'[alias[u].node])
    <3>1. alias[u].node \in 0..MaxNode
        BY DEF Inv, Rows
    <3>2. alias[u].node \in Node
        BY <2>1, <3>1, NodeStoreAssumption DEF Node
    <3> QED BY <1>1, <1>4, <2>1, <3>2 DEF Inv, Owned
  <2>2. \A k \in EdgeKey : OnItsWord(edges'[k]) => author[k] \in Device /\ creator[k.dst] = author[k]
      BY <1>1, <1>7 DEF Inv, Owned
  <2>3. \A n \in Node : creator[n] # NoDevice => Exists(nodes'[n])
      BY <1>1, <1>4 DEF Inv, Owned
  <2>4. creator' = creator /\ alias' = alias /\ author' = author
      BY <1>1
  <2> QED BY <2>1, <2>2, <2>3, <2>4 DEF Owned
<1>15. QueueType' /\ Batch' /\ InTurn'
    BY <1>1, QueueStays DEF Inv
<1>16. KeptOut
    BY <1>1, QueueSame
<1> QED BY <1>9, <1>12, <1>13, <1>14, <1>15, <1>16 DEF Inv

----------------------------------------------------------------------------
\* Scans and people.

\* A batch of one result.
LEMMA BatchOfOne ==
    ASSUME NEW x
    PROVE  CommitBatch(<<x>>).nodes = CommitOne(nodes, x).nodes
<1> DEFINE first == [ok |-> TRUE, nodes |-> nodes, stat |-> stat, seen |-> {}]
           Next1(before, r) ==
               LET out == CommitOne(before.nodes, r)
               IN  IF ~before.ok THEN before
                   ELSE [ok    |-> out.ok,
                         nodes |-> out.nodes,
                         stat  |-> [n \in Node |-> IF n \in out.seen THEN r.stat
                                                   ELSE before.stat[n]],
                         seen  |-> before.seen \cup out.seen]
           F(g) == [i \in 0..Len(<<x>>) |-> IF i = 0 THEN first ELSE Next1(g[i - 1], <<x>>[i])]
<1>1. CommitBatch(<<x>>) = (CHOOSE g : g = F(g))[Len(<<x>>)]
    BY DEF CommitBatch
<1>2. Len(<<x>>) = 1 /\ <<x>>[1] = x
    OBVIOUS
<1>3. first.ok /\ first.nodes = nodes
    OBVIOUS
<1>4. \A r : Next1(first, r).nodes = CommitOne(nodes, r).nodes
    BY <1>3
<1> HIDE DEF first, Next1
<1> DEFINE w == [i \in 0..1 |-> IF i = 0 THEN first ELSE Next1(first, x)]
<1>5. w = F(w)
  <2>1. w[0] = first
      OBVIOUS
  <2>2. \A i \in 0..1 : i = 0 \/ i = 1
      OBVIOUS
  <2>3. \A i \in 0..1 : (IF i = 0 THEN first ELSE Next1(w[i - 1], <<x>>[i]))
                        = IF i = 0 THEN first ELSE Next1(first, x)
      BY <1>2, <2>1, <2>2
  <2> QED BY <1>2, <2>3
<1> HIDE DEF w
<1> DEFINE g == CHOOSE h : h = F(h)
<1>6. g = F(g)
    BY <1>5
<1>7. g[1] = Next1(first, x)
  <2> HIDE DEF g
  <2>1. 0 \in 0..1 /\ 1 \in 0..1
      OBVIOUS
  <2>2. g[0] = first
      BY <1>2, <1>6, <2>1
  <2>3. g[1] = Next1(g[0], x)
      BY <1>2, <1>6, <2>1
  <2> QED BY <2>2, <2>3
<1> HIDE DEF F
<1> QED BY <1>1, <1>2, <1>4, <1>7

LEMMA ScanKeeps ==
    ASSUME Inv, NEW p \in Path, Scan(p)
    PROVE  Inv' /\ Decided /\ KeptOut
<1> DEFINE x == Processed(p, disk[p])
<1>1. /\ nodes' = CommitOne(nodes, x).nodes
      /\ UNCHANGED <<disk, lineage, ids, queue, posted, refreshed, drainer, lost>>
    BY BatchOfOne DEF Scan, outside
<1>2. disk[p] \in Content /\ nodes \in Table
    BY DEF Scan, Inv, Rows, File
<1>3. Hashed(x)
  <2>1. FastOf[disk[p]] \in FastHash
      BY <1>2, NodeStoreAssumption
  <2> QED BY <1>2, <2>1 DEF Hashed, Processed, HashedAs, FullHash
<1>4. FreeIds(nodes) # {}
  <2>1. Cardinality(Uuid) \in Nat
      BY FS_CardinalityType, AgentAssumption
  <2>2. Cardinality({}) = 0
      BY FS_EmptySet
  <2>3. Cardinality(FreeIds(nodes)) > Cardinality(Uuid)
      BY DEF Scan
  <2>4. SUFFICES ASSUME FreeIds(nodes) = {} PROVE FALSE
      OBVIOUS
  <2>5. 0 > Cardinality(Uuid)
      BY <2>2, <2>3, <2>4
  <2> QED BY ONLY <2>1, <2>5
<1> HIDE DEF x
<1>5. nodes' \in Table /\ KeepsRetired(nodes, nodes')
    BY <1>1, <1>2, <1>3, <1>4, CommitKeepsRetired
<1>6. \A n \in Node : Exists(nodes[n]) => Exists(nodes'[n])
    BY <1>5 DEF KeepsRetired, Exists
<1>7. disk' \in [Path -> File]
    BY <1>1 DEF Inv, Rows
<1>8. Rows' /\ Owned' /\ Lined' /\ Decided
    BY <1>1, <1>5, <1>6, <1>7, RowsMove DEF Inv
<1>9. QueueType' /\ Batch' /\ InTurn'
    BY <1>1, QueueStays DEF Inv
<1> QED BY <1>1, <1>8, <1>9, QueueSame DEF Inv

LEMMA SweepKeeps ==
    ASSUME Inv, NEW n \in Node, Sweep(n)
    PROVE  Inv' /\ Decided /\ KeptOut
<1>1. /\ nodes' = SetState(nodes, n, "MISSING") /\ nodes[n].state = "ACTIVE"
      /\ UNCHANGED <<disk, lineage, ids, queue, posted, refreshed, drainer, lost>>
    BY DEF Sweep, MarkNodeMissing, outside
<1>2. nodes \in Table /\ "MISSING" \in LifecycleState
    BY DEF Inv, Rows, LifecycleState
<1>3. nodes' \in Table /\ KeepsRetired(nodes, nodes')
    BY <1>1, <1>2, SetStateKeeps
<1>4. \A m \in Node : Exists(nodes[m]) => Exists(nodes'[m])
    BY <1>3 DEF KeepsRetired, Exists
<1>5. disk' \in [Path -> File]
    BY <1>1 DEF Inv, Rows
<1>6. Rows' /\ Owned' /\ Lined' /\ Decided
    BY <1>1, <1>3, <1>4, <1>5, RowsMove DEF Inv
<1>7. QueueType' /\ Batch' /\ InTurn'
    BY <1>1, QueueStays DEF Inv
<1> QED BY <1>1, <1>6, <1>7, QueueSame DEF Inv

LEMMA RetireKeeps ==
    ASSUME Inv, NEW n \in Node, Retire(n)
    PROVE  Inv' /\ Decided /\ KeptOut
<1>1. UNCHANGED <<lineage, ids, queue, posted, refreshed, drainer, lost>>
    BY DEF Retire, outside
<1>2. /\ nodes' \in Table /\ disk' \in [Path -> File]
      /\ \A m \in Node : Exists(nodes[m]) => Exists(nodes'[m])
  <2>1. CASE nodes' = Trashed(n).nodes /\ disk' = Trashed(n).disk
      BY <2>1, TrashedRows DEF Inv
  <2>2. CASE nodes' = ArchiveMediaNode(nodes, n) /\ UNCHANGED disk
    <3>1. nodes \in Table /\ "ARCHIVED" \in LifecycleState /\ disk' \in [Path -> File]
        BY <2>2 DEF Inv, Rows, LifecycleState
    <3>2. nodes[n].state # "TRASHED"
        BY DEF Retire, Live
    <3>3. nodes' \in Table /\ KeepsRetired(nodes, nodes')
        BY <2>2, <3>1, <3>2, SetStateKeeps DEF ArchiveMediaNode
    <3> QED BY <3>1, <3>3 DEF KeepsRetired, Exists
  <2> QED BY <2>1, <2>2 DEF Retire
<1>3. Rows' /\ Owned' /\ Lined' /\ Decided
    BY <1>1, <1>2, RowsMove DEF Inv
<1>4. QueueType' /\ Batch' /\ InTurn'
    BY <1>1, QueueStays DEF Inv
<1> QED BY <1>1, <1>3, <1>4, QueueSame DEF Inv

LEMMA WriteKeeps ==
    ASSUME Inv, NEW p \in Path, NEW c \in File, Write(p, c)
    PROVE  Inv' /\ Decided /\ KeptOut
<1>1. /\ UNCHANGED <<nodes, lineage, ids, queue, posted, refreshed, drainer, lost>>
      /\ disk' = [disk EXCEPT ![p] = c]
    BY DEF Write, outside
<1>2. nodes' \in Table /\ disk' \in [Path -> File]
    BY <1>1 DEF Inv, Rows
<1>3. \A n \in Node : Exists(nodes[n]) => Exists(nodes'[n])
    BY <1>1
<1>4. Rows' /\ Owned' /\ Lined' /\ Decided
    BY <1>1, <1>2, <1>3, RowsMove DEF Inv
<1>5. QueueType' /\ Batch' /\ InTurn'
    BY <1>1, QueueStays DEF Inv
<1> QED BY <1>1, <1>4, <1>5, QueueSame DEF Inv

----------------------------------------------------------------------------
\* The theorems.

LEMMA InitInv ==
    ASSUME Init
    PROVE  Inv
<1>1. nodes = InitNodes /\ disk = InitDisk
    BY DEF Init, LibraryInit, LibraryStarts
<1>2. Rows
  <2>1. nodes \in Table /\ disk \in [Path -> File]
      BY <1>1, LibraryAssumption
  <2>2. 0 \in 0..MaxNode
      BY NodeStoreAssumption
  <2> QED BY <2>1, <2>2 DEF Init, Rows, NoAlias
<1>3. Owned
  <2>1. \A k \in EdgeKey : ~ OnItsWord(edges[k])
      BY AgentAssumption DEF Init, LineageInit, OnItsWord
  <2> QED BY <2>1 DEF Init, Owned, NoAlias
<1>4. Lined
    BY LineageInitTrue DEF Init, Lined, NoOtherCycle
<1>5. queue = <<>> /\ drainer = Idle /\ posted = [d \in Device |-> 0]
    BY DEF Init
<1>6. QueueType /\ Batch
    BY <1>5, IdleDrainer DEF QueueType, Batch
<1>7. DOMAIN queue = {}
    BY <1>5
<1>8. InTurn
    BY <1>7 DEF InTurn
<1> QED BY <1>2, <1>3, <1>4, <1>6, <1>8 DEF Inv

\* Only the head of the batch is marked by Settle, and no row changes with it.
LEMMA SettlesKeep ==
    ASSUME Inv, Settle
    PROVE  Inv' /\ Decided /\ KeptOut
<1>1. UNCHANGED <<nodes, disk, lineage, ids, refreshed>>
    BY DEF Settle, outside
<1>2. QueueType' /\ Batch' /\ InTurn'
    BY SettleKeeps DEF Inv
<1>3. Rows' /\ Owned' /\ Lined' /\ Decided
    BY <1>1, StoreKept DEF Inv
<1>4. KeptOut
    BY <1>1 DEF KeptOut, Touches
<1> QED BY <1>2, <1>3, <1>4 DEF Inv

LEMMA StepKeeps ==
    ASSUME Inv, Next
    PROVE  Inv' /\ (Decided \/ PersonReviews) /\ KeptOut
<1>1. CASE List
  <2>1. UNCHANGED <<nodes, disk, lineage, ids, refreshed, queue>>
      BY <1>1 DEF List, library, outside
  <2>2. QueueType' /\ Batch' /\ InTurn'
      BY <1>1, ListKeeps DEF Inv
  <2>3. Rows' /\ Owned' /\ Lined' /\ Decided
      BY <2>1, StoreKept DEF Inv
  <2> QED BY <2>1, <2>2, <2>3, QueueSame DEF Inv
<1>2. CASE Process
    BY <1>2, ProcessKeeps
<1>3. CASE Settle
    BY <1>3, SettlesKeep
<1>4. CASE Resolve
  <2>1. /\ drainer.phase = "resolve" /\ drainer' = Advance(drainer)
        /\ UNCHANGED <<nodes, disk, ids, refreshed, queue, posted, lost>>
        /\ ResolveAndCommit(Candidates(drainer.made)) \/ UNCHANGED lineage
      BY <1>4 DEF Resolve, outside
  <2>2. QueueType' /\ Batch' /\ InTurn'
      BY <2>1, ResolveQueueKeeps DEF Inv
  <2>3. Rows' /\ Owned' /\ Lined' /\ Decided
      BY <2>1, ResolvingKeeps, StoreKept DEF Inv
  <2> QED BY <2>1, <2>2, <2>3, QueueSame DEF Inv
<1>5. CASE Restart
  <2>1. UNCHANGED <<nodes, disk, lineage, ids, refreshed, queue>>
      BY <1>5 DEF Restart, outside
  <2>2. QueueType' /\ Batch' /\ InTurn'
      BY <1>5, RestartKeeps DEF Inv
  <2>3. Rows' /\ Owned' /\ Lined' /\ Decided
      BY <2>1, StoreKept DEF Inv
  <2> QED BY <2>1, <2>2, <2>3, QueueSame DEF Inv
<1>6. ASSUME NEW i \in DOMAIN queue, Elapse(i)
      PROVE  Inv' /\ Decided /\ KeptOut
  <2>1. UNCHANGED <<nodes, disk, lineage, ids, refreshed>>
      BY <1>6 DEF Elapse, library, outside
  <2>2. QueueType' /\ Batch' /\ InTurn'
      BY <1>6, ElapseKeeps DEF Inv
  <2>3. Rows' /\ Owned' /\ Lined' /\ Decided
      BY <2>1, StoreKept DEF Inv
  <2>4. KeptOut
      BY <2>1 DEF KeptOut, Touches
  <2> QED BY <2>2, <2>3, <2>4 DEF Inv
<1>7. ASSUME NEW a \in Device, Post(a)
      PROVE  Inv' /\ Decided /\ KeptOut
  <2>1. UNCHANGED <<nodes, disk, lineage, ids, refreshed>>
      BY <1>7 DEF Post, library
  <2>2. QueueType' /\ Batch' /\ InTurn'
      BY <1>7, PostKeeps DEF Inv
  <2>3. Rows' /\ Owned' /\ Lined' /\ Decided
      BY <2>1, StoreKept DEF Inv
  <2>4. KeptOut
      BY <2>1 DEF KeptOut, Touches
  <2> QED BY <2>2, <2>3, <2>4 DEF Inv
<1>8. CASE PersonReviews /\ UNCHANGED <<ids, queue, drainer, outside, lost>>
  <2>1. UNCHANGED <<ids, refreshed, queue, posted, drainer, lost>>
      BY <1>8 DEF outside
  <2>2. QueueType' /\ Batch' /\ InTurn'
      BY <2>1, QueueStays DEF Inv
  <2>3. Rows' /\ Owned' /\ Lined'
      BY <1>8, <2>1, ReviewingKeeps DEF Inv
  <2> QED BY <1>8, <2>1, <2>2, <2>3, QueueSame DEF Inv
<1>9. ASSUME NEW n \in Node, ScanResolves(n)
      PROVE  Inv' /\ Decided /\ KeptOut
  <2>1. UNCHANGED <<nodes, disk, ids, refreshed, queue, posted, drainer, lost>>
        /\ ResolveAndCommit(Candidates(n))
      BY <1>9 DEF ScanResolves, library, outside
  <2>2. QueueType' /\ Batch' /\ InTurn'
      BY <2>1, QueueStays DEF Inv
  <2>3. Rows' /\ Owned' /\ Lined' /\ Decided
      BY <2>1, ResolvingKeeps DEF Inv
  <2> QED BY <2>1, <2>2, <2>3, QueueSame DEF Inv
<1> QED BY <1>1, <1>2, <1>3, <1>4, <1>5, <1>6, <1>7, <1>8, <1>9,
           SyncRebaseKeeps, SnapshotKeeps, SweepKeeps, RetireKeeps, ScanKeeps, WriteKeeps
        DEF Next, DrainerStep, DeviceStep

LEMMA StutterKeeps ==
    ASSUME Inv, UNCHANGED vars
    PROVE  Inv' /\ Decided /\ KeptOut
<1>1. UNCHANGED <<nodes, disk, lineage, ids, refreshed, queue, posted, drainer, lost>>
    BY DEF vars, library
<1>2. QueueType' /\ Batch' /\ InTurn'
    BY <1>1, QueueStays DEF Inv
<1>3. Rows' /\ Owned' /\ Lined' /\ Decided
    BY <1>1, StoreKept DEF Inv
<1> QED BY <1>1, <1>2, <1>3, QueueSame DEF Inv

LEMMA AlwaysInv == Spec => []Inv
<1>1. Inv /\ [Next]_vars => Inv'
    BY StepKeeps, StutterKeeps
<1> QED BY InitInv, <1>1, PTL DEF Spec

\* Whatever resolvers, devices, snapshots, scans and people did to the edges of a
\* row last, in whatever order, its graph_status is what its edges make it
\* (RecomputeStatusFromPersistedEdges in every transaction that writes edges).
THEOREM StatusFollowsEdges == Spec => []StatusAgrees
<1>1. Inv => StatusAgrees
    BY DEF Inv, Lined, StatusTrue, StatusAgrees
<1> QED BY <1>1, AlwaysInv, PTL

\* As long as no snapshot has switched an inactive edge back on, the active edges
\* have no cycle (WouldCreateCycle, asked in the transaction that writes the edge).
THEOREM NoCycle == Spec => []NoOtherCycle
<1>1. Inv => NoOtherCycle
    BY DEF Inv, Lined
<1> QED BY <1>1, AlwaysInv, PTL

\* What a person decided on an edge, only a person undoes.
THEOREM DecisionsStand == Spec => HumanDecides
<1>1. Inv /\ [Next]_vars =>
          [PersonReviews \/ \A k \in EdgeKey : Reviewed(edges[k]) => edges'[k] = edges[k]]_vars
    BY StepKeeps, StutterKeeps DEF Decided
<1> QED BY <1>1, AlwaysInv, PTL DEF Spec, HumanDecides

\* No event of a device reaches a row of somebody else, nor brings a retired row
\* back (RequireNodeOwner and the retired states in internal/agent/apply.go).
THEOREM EventsKeepOut == Spec => DevicesKeepOut
<1>1. Inv /\ [Next]_vars =>
        [\A i \in DOMAIN queue : queue[i].st # queue'[i].st =>
           \A n \in Node : Exists(nodes[n]) /\ nodes'[n] # nodes[n] =>
              \/ Live(nodes[n]) /\ creator[n] = queue[i].agent
              \/ /\ nodes'[n].state = "TRASHED"
                 /\ \E k \in EdgeKey :
                       k.dst = n /\ creator[k.src] = queue[i].agent /\ Vouches(queue[i].agent, k)]_vars
    BY StepKeeps, StutterKeeps DEF KeptOut, Touches
<1> QED BY <1>1, AlwaysInv, PTL DEF Spec, DevicesKeepOut

\* Events take effect in the order they were posted, but for those that failed
\* before (ListPendingAgentEvents and the batches of ProcessPending).
THEOREM EventsInOrder == Spec => AppliedInOrder
<1>1. Inv =>
        [\A i, j \in DOMAIN queue :
           /\ i < j /\ queue[j].st = "PROCESSED"
           /\ queue[i].st = "PENDING" /\ queue'[i].st = "PROCESSED"
           => queue[i].retries > 0 \/ i \in lost]_vars
  <2> SUFFICES ASSUME Inv, NEW i \in DOMAIN queue, NEW j \in DOMAIN queue, i < j,
                      queue[j].st = "PROCESSED", queue[i].st = "PENDING",
                      ~ (queue[i].retries > 0), i \notin lost
               PROVE  FALSE
      OBVIOUS
  <2>1. queue[i] \in Event
      BY EventAt DEF Inv
  <2>2. queue[i].retries = 0
    <3>1. queue[i].retries \in Nat
        BY <2>1 DEF Event
    <3> QED BY <3>1
  <2>3. Fresh(i)
      BY <2>2 DEF Fresh
  <2> QED BY <2>3 DEF Inv, InTurn
<1> QED BY <1>1, AlwaysInv, PTL DEF Spec, AppliedInOrder

----------------------------------------------------------------------------
\* The rows of a library whose files never change.

\* Every row describes the file of its path, and none is missing.
Describes(t) ==
    \A n \in Node : Exists(t[n]) =>
        /\ t[n].state \in {"ACTIVE", "ARCHIVED"}
        /\ t[n].fast = FastOf[BytesOf[t[n].path]]
        /\ t[n].full \in {NoHash, BytesOf[t[n].path]}

\* What a row is about, it stays about.
KeepsRows(t, u) ==
    \A n \in Node : Exists(t[n]) => Exists(u[n]) /\ u[n].path = t[n].path

NoRowAt(t, p) == \A n \in Node : Exists(t[n]) => t[n].path # p

\* No id is used, or one for a row at path p that had none.
Uses(t, u, p) ==
    \/ FreeIds(u) = FreeIds(t)
    \/ NoRowAt(t, p) /\ \E k \in FreeIds(t) : FreeIds(u) = FreeIds(t) \ {k} /\ u[k].path = p

\* A result for the file of path p.
Reads(r, p) ==
    /\ r.path = p /\ r.fast = FastOf[BytesOf[p]] /\ r.full \in {NoHash, BytesOf[p]}

LEMMA ReadsHashed ==
    ASSUME NEW p \in Path, NEW r, Reads(r, p)
    PROVE  Hashed(r)
BY NodeStoreAssumption, FamiliesAssumption DEF Reads, Hashed, FullHash

LEMMA LatestExists ==
    ASSUME NEW t \in Table, NEW p, LatestAt(t, p) = {}
    PROVE  NoRowAt(t, p)
<1> DEFINE S == {n \in Node : Exists(t[n]) /\ t[n].path = p}
           R == {MaxNode - n : n \in S}
<1>1. SUFFICES ASSUME S # {} PROVE FALSE
    BY DEF NoRowAt
<1>2. MaxNode \in Nat /\ \A n \in S : n \in 1..MaxNode
    BY NodeStoreAssumption DEF Node
<1>3. R \in SUBSET Nat /\ R # {}
    BY <1>1, <1>2
<1>4. PICK x \in R : \A y \in R : x <= y
  <2> HIDE DEF R
  <2> QED BY <1>3, LeastExists
<1>5. PICK n \in S : x = MaxNode - n
    BY <1>4
<1>6. \A m \in S : MaxNode - n <= MaxNode - m
    BY <1>4, <1>5
<1>7. \A m \in S : m <= n
    BY <1>2, <1>6
<1>8. n \in LatestAt(t, p)
    BY <1>7 DEF LatestAt
<1> QED BY <1>8

LEMMA TouchFiles ==
    ASSUME NEW t \in Table, Describes(t), NEW p \in Path, NEW r, Reads(r, p),
           NEW n \in LiveAt(t, p)
    PROVE  /\ TouchSeen(t, n, r).nodes \in Table /\ Describes(TouchSeen(t, n, r).nodes)
           /\ KeepsRows(t, TouchSeen(t, n, r).nodes)
           /\ FreeIds(TouchSeen(t, n, r).nodes) = FreeIds(t)
<1> DEFINE hashed == UpdateMediaNodeFullHash(t, n, r.full)
           u == TouchSeen(t, n, r).nodes
<1>0. n \in Node /\ Live(t[n]) /\ t[n].path = p
    BY DEF LiveAt
<1>1. TouchMediaNode(t, n) = t
    BY <1>0 DEF TouchMediaNode, Describes, Live, Exists
<1>2. u \in Table
    BY ReadsHashed, TouchSeenKeeps, <1>0
<1>3. hashed \in Table /\ \A m \in Node : /\ hashed[m].state = t[m].state
                                          /\ hashed[m].path = t[m].path
                                          /\ hashed[m].fast = t[m].fast
                                          /\ hashed[m].full = IF m = n THEN r.full ELSE t[m].full
  <2>1. r.full \in FullHash
      BY ReadsHashed DEF Hashed
  <2> QED BY <1>0, <2>1, UpdateFullHashKeeps DEF UpdateMediaNodeFullHash, Table, Row
<1>4. ASSUME NEW v \in Table, NEW h
      PROVE  \A m \in Node : /\ RecordFullHashSource(v, n, h, "SERVER")[m].state = v[m].state
                             /\ RecordFullHashSource(v, n, h, "SERVER")[m].path = v[m].path
                             /\ RecordFullHashSource(v, n, h, "SERVER")[m].fast = v[m].fast
                             /\ RecordFullHashSource(v, n, h, "SERVER")[m].full = v[m].full
    BY <1>0 DEF RecordFullHashSource, Table, Row
<1>5. \A m \in Node : /\ ClearDisprovedFullHash(t, n)[m].state = t[m].state
                      /\ ClearDisprovedFullHash(t, n)[m].path = t[m].path
                      /\ ClearDisprovedFullHash(t, n)[m].fast = t[m].fast
                      /\ ClearDisprovedFullHash(t, n)[m].full \in {NoHash, t[m].full}
    BY <1>0 DEF ClearDisprovedFullHash, Table, Row
<1>6. \/ u = t
      \/ u = RecordFullHashSource(t, n, r.full, "SERVER")
      \/ u = ClearDisprovedFullHash(t, n)
      \/ u = RecordFullHashSource(hashed, n, r.full, "SERVER")
    BY <1>1 DEF TouchSeen, Outcome
<1> HIDE DEF u, hashed
<1>7. \A m \in Node : /\ u[m].state = t[m].state /\ u[m].path = t[m].path
                      /\ u[m].fast = t[m].fast
                      /\ \/ u[m].full \in {NoHash, t[m].full}
                         \/ m = n /\ u[m].full = r.full
    BY <1>3, <1>4, <1>5, <1>6
<1>8. \A m \in Node : Exists(u[m]) <=> Exists(t[m])
    BY <1>7 DEF Exists
<1>9. Describes(u)
  <2> SUFFICES ASSUME NEW m \in Node, Exists(u[m])
               PROVE  /\ u[m].state \in {"ACTIVE", "ARCHIVED"}
                      /\ u[m].fast = FastOf[BytesOf[u[m].path]]
                      /\ u[m].full \in {NoHash, BytesOf[u[m].path]}
      BY DEF Describes
  <2>1. Exists(t[m])
      BY <1>8
  <2>2. /\ t[m].state \in {"ACTIVE", "ARCHIVED"}
        /\ t[m].fast = FastOf[BytesOf[t[m].path]]
        /\ t[m].full \in {NoHash, BytesOf[t[m].path]}
      BY <2>1 DEF Describes
  <2> QED BY <1>0, <1>7, <2>2 DEF Reads
<1>10. KeepsRows(t, u)
    BY <1>7, <1>8 DEF KeepsRows
<1>11. FreeIds(u) = FreeIds(t)
    BY <1>8 DEF FreeIds
<1> QED BY <1>2, <1>9, <1>10, <1>11 DEF u

LEMMA InsertFiles ==
    ASSUME NEW t \in Table, Describes(t), NEW p \in Path, NEW r, Reads(r, p), FreeIds(t) # {}
    PROVE  /\ InsertNewNode(t, r) \in Table /\ Describes(InsertNewNode(t, r))
           /\ KeepsRows(t, InsertNewNode(t, r))
           /\ NextId(t) \in FreeIds(t) /\ InsertNewNode(t, r)[NextId(t)].path = p
           /\ FreeIds(InsertNewNode(t, r)) = FreeIds(t) \ {NextId(t)}
           /\ Exists(InsertNewNode(t, r)[NextId(t)])
<1> DEFINE k == NextId(t)
           i == InsertMediaNode(t, r.path, r.fast, r.full, NoProvenance)
           u == InsertNewNode(t, r)
<1>0. k \in Node /\ k \in FreeIds(t) /\ Hashed(r)
    BY NextIdFree, ReadsHashed DEF FreeIds
<1>1. i \in Table
    BY <1>0, InsertKeeps DEF Hashed
<1>2. /\ i[k].state = "ACTIVE" /\ i[k].path = p /\ i[k].fast = r.fast /\ i[k].full = r.full
      /\ \A m \in Node \ {k} : i[m] = t[m]
    BY <1>0 DEF InsertMediaNode, Table, Reads
<1>3. u = RecordFullHashSource(i, k, r.full, "SERVER")
    BY DEF InsertNewNode
<1>4. u \in Table
    BY <1>0, InsertNewNodeKeeps
<1> HIDE DEF i
<1>5. \A m \in Node : /\ u[m].state = i[m].state /\ u[m].path = i[m].path
                      /\ u[m].fast = i[m].fast /\ u[m].full = i[m].full
  <2> HIDE DEF k
  <2> QED BY <1>0, <1>1, <1>3 DEF RecordFullHashSource, Table, Row
<1> HIDE DEF u, k
<1>6. Exists(u[k]) /\ \A m \in Node \ {k} : Exists(u[m]) <=> Exists(t[m])
    BY <1>0, <1>2, <1>5 DEF Exists
<1>7. Describes(u)
  <2> SUFFICES ASSUME NEW m \in Node, Exists(u[m])
               PROVE  /\ u[m].state \in {"ACTIVE", "ARCHIVED"}
                      /\ u[m].fast = FastOf[BytesOf[u[m].path]]
                      /\ u[m].full \in {NoHash, BytesOf[u[m].path]}
      BY DEF Describes
  <2>1. CASE m = k
      BY <1>2, <1>5, <2>1 DEF Reads
  <2>2. CASE m # k
    <3>1. Exists(t[m])
        BY <1>6, <2>2
    <3>2. /\ t[m].state \in {"ACTIVE", "ARCHIVED"}
          /\ t[m].fast = FastOf[BytesOf[t[m].path]]
          /\ t[m].full \in {NoHash, BytesOf[t[m].path]}
        BY <3>1 DEF Describes
    <3> QED BY <1>2, <1>5, <2>2, <3>2
  <2> QED BY <2>1, <2>2
<1>8. KeepsRows(t, u)
    BY <1>0, <1>2, <1>5, <1>6 DEF KeepsRows, FreeIds
<1>9. FreeIds(u) = FreeIds(t) \ {k}
    BY <1>0, <1>6 DEF FreeIds
<1> QED BY <1>0, <1>2, <1>4, <1>5, <1>6, <1>7, <1>8, <1>9 DEF u, k

LEMMA CommitFiles ==
    ASSUME NEW t \in Table, Describes(t), NEW p \in Path, NEW r, Reads(r, p),
           NoRowAt(t, p) => FreeIds(t) # {}
    PROVE  /\ CommitOne(t, r).nodes \in Table /\ Describes(CommitOne(t, r).nodes)
           /\ KeepsRows(t, CommitOne(t, r).nodes) /\ Uses(t, CommitOne(t, r).nodes, p)
<1> DEFINE n == Oldest(LiveAt(t, p))
           latest == LatestAt(t, p)
           u == CommitOne(t, r).nodes
<1>1. CASE LiveAt(t, p) # {}
  <2>1. n \in LiveAt(t, p)
      BY <1>1, OldestIn DEF LiveAt
  <2>2. n \in Node /\ Exists(t[n]) /\ t[n].path = p /\ Live(t[n])
      BY <2>1 DEF LiveAt, Live, Exists
  <2>3. t[n].fast = r.fast /\ ~ FullHashContradicts(t[n], r.full)
      BY <2>2 DEF Describes, Reads, FullHashContradicts
  <2>4. CommitOne(t, r) = TouchSeen(t, n, r)
      BY <1>1, <2>3 DEF CommitOne, Reads
  <2> HIDE DEF n
  <2> QED BY <2>1, <2>4, TouchFiles DEF Uses
<1>2. CASE LiveAt(t, p) = {}
  <2>1. CommitOne(t, r) = CommitNoLiveNode(t, r)
      BY <1>2 DEF CommitOne, Reads
  <2>2. CASE latest # {}
    <3>1. \A m \in latest : t[m].state = "ARCHIVED" /\ t[m].fast = r.fast
      <4> SUFFICES ASSUME NEW m \in latest
                   PROVE  t[m].state = "ARCHIVED" /\ t[m].fast = r.fast
          OBVIOUS
      <4>1. m \in Node /\ Exists(t[m]) /\ t[m].path = p
          BY DEF LatestAt
      <4>2. t[m].state # "ACTIVE"
          BY <1>2, <4>1 DEF LiveAt, Live
      <4> QED BY <4>1, <4>2 DEF Describes, Reads
    <3>2. CommitNoLiveNode(t, r) = Unchanged(t)
        BY <2>2, <3>1 DEF CommitNoLiveNode, Reads
    <3>3. u = t
        BY <2>1, <3>2 DEF Unchanged, Outcome
    <3> QED BY <3>3 DEF KeepsRows, Uses
  <2>3. CASE latest = {}
    <3>1. NoRowAt(t, p)
        BY <2>3, LatestExists
    <3>2. MoveCandidates(t, r) = {}
      <4>1. \A m \in Node : t[m].state # "MISSING"
          BY DEF Describes, Exists
      <4> QED BY <4>1 DEF MoveCandidates, MissingWithFast
    <3>3. \/ CommitNoLiveNode(t, r) = Unchanged(t)
          \/ CommitNoLiveNode(t, r) = Outcome({}, InsertNewNode(t, r), {NextId(t)})
        BY <2>3, <3>2 DEF CommitNoLiveNode, Reads
    <3>4. u = t \/ u = InsertNewNode(t, r)
        BY <2>1, <3>3 DEF Unchanged, Outcome
    <3>5. CASE u = t
        BY <3>5 DEF KeepsRows, Uses
    <3>6. CASE u = InsertNewNode(t, r)
      <4>1. FreeIds(t) # {}
          BY <3>1
      <4> HIDE DEF u
      <4> QED BY <3>1, <3>6, <4>1, InsertFiles DEF Uses, u
    <3> QED BY <3>4, <3>5, <3>6
  <2> QED BY <2>2, <2>3
<1> QED BY <1>1, <1>2

----------------------------------------------------------------------------
\* A batch.

Begun == [ok |-> TRUE, nodes |-> nodes, stat |-> stat, seen |-> {}]

Further(before, r) ==
    LET out == CommitOne(before.nodes, r)
    IN  IF ~before.ok THEN before
        ELSE [ok    |-> out.ok,
              nodes |-> out.nodes,
              stat  |-> [n \in Node |-> IF n \in out.seen THEN r.stat ELSE before.stat[n]],
              seen  |-> before.seen \cup out.seen]

BatchSteps(f, rs, m) ==
    f = [i \in 0..m |-> IF i = 0 THEN Begun ELSE Further(f[i - 1], rs[i])]

LEMMA BatchStepsExist ==
    ASSUME NEW rs, NEW m \in Nat
    PROVE  \E f : BatchSteps(f, rs, m)
<1> DEFINE Bad == {i \in Nat : ~ \E f : BatchSteps(f, rs, i)}
<1>1. SUFFICES ASSUME Bad # {} PROVE FALSE
    OBVIOUS
<1>2. PICK b \in Bad : \A y \in Bad : b <= y
  <2>1. Bad \in SUBSET Nat
      OBVIOUS
  <2> HIDE DEF Bad
  <2> QED BY <1>1, <2>1, LeastExists
<1>3. CASE b = 0
  <2>1. BatchSteps([i \in 0..0 |-> Begun], rs, 0)
      BY DEF BatchSteps
  <2> QED BY <1>3, <2>1
<1>4. CASE b # 0
  <2>1. b - 1 \in Nat /\ b - 1 \notin Bad
      BY <1>2, <1>4
  <2>2. PICK f : BatchSteps(f, rs, b - 1)
      BY <2>1
  <2> DEFINE g == [i \in 0..b |-> IF i = b THEN Further(f[b - 1], rs[b]) ELSE f[i]]
  <2>3. \A i \in 0..b : g[i] = IF i = 0 THEN Begun ELSE Further(g[i - 1], rs[i])
    <3>1. TAKE i \in 0..b
    <3>2. CASE i = b
        BY <3>2, <1>4
    <3>3. CASE i # b
      <4>1. i \in 0..(b - 1) /\ g[i] = f[i]
          BY <3>3
      <4>2. f[i] = IF i = 0 THEN Begun ELSE Further(f[i - 1], rs[i])
          BY <2>2, <4>1 DEF BatchSteps
      <4>3. i # 0 => g[i - 1] = f[i - 1]
          BY <3>3
      <4> QED BY <4>1, <4>2, <4>3
    <3> QED BY <3>2, <3>3
  <2>4. g = [i \in 0..b |-> g[i]]
      OBVIOUS
  <2>5. BatchSteps(g, rs, b)
    <3> HIDE DEF g
    <3> QED BY <2>3, <2>4 DEF BatchSteps
  <2> QED BY <2>5
<1> QED BY <1>3, <1>4

LEMMA BatchIsSteps ==
    ASSUME NEW rs, Len(rs) \in Nat
    PROVE  \E f : BatchSteps(f, rs, Len(rs)) /\ CommitBatch(rs) = f[Len(rs)]
<1> DEFINE f == CHOOSE g : BatchSteps(g, rs, Len(rs))
<1>1. BatchSteps(f, rs, Len(rs))
    BY BatchStepsExist
<1>2. CommitBatch(rs) = (CHOOSE g : g = [i \in 0..Len(rs) |->
                          IF i = 0 THEN Begun ELSE Further(g[i - 1], rs[i])])[Len(rs)]
    BY DEF CommitBatch, Begun, Further
<1>3. CommitBatch(rs) = f[Len(rs)]
    BY <1>2 DEF BatchSteps
<1> HIDE DEF f
<1> QED BY <1>1, <1>3

\* The files of ps after the first i that had no row.
Waiting(ps, i) == {ps[j] : j \in {x \in DOMAIN ps : i < x}} \cap {p \in Path : NoRowAt(nodes, p)}

\* After i files: the table is as described, and room for those that wait.
GoneWell(out, ps, i) ==
    /\ out.nodes \in Table /\ Describes(out.nodes) /\ KeepsRows(nodes, out.nodes)
    /\ IsFiniteSet(FreeIds(out.nodes))
    /\ Cardinality(Waiting(ps, i)) <= Cardinality(FreeIds(out.nodes))

LEMMA FurtherGoesWell ==
    ASSUME NEW S \in SUBSET Path, IsFiniteSet(S), NEW ps \in Orders(S),
           NEW rs, NEW i \in Nat, i + 1 \in DOMAIN ps, Reads(rs[i + 1], ps[i + 1]),
           NEW out, GoneWell(out, ps, i)
    PROVE  GoneWell(Further(out, rs[i + 1]), ps, i + 1)
<1> DEFINE p == ps[i + 1]
           r == rs[i + 1]
           t == out.nodes
           u == CommitOne(t, r).nodes
           W == Waiting(ps, i)
           V == Waiting(ps, i + 1)
<1>1. p \in S /\ p \in Path /\ DOMAIN ps = 1..Cardinality(S) /\ Cardinality(S) \in Nat
    BY FS_CardinalityType DEF Orders
<1>2. W \subseteq S /\ V \subseteq W
    BY <1>1 DEF Waiting, Orders
<1>3. IsFiniteSet(W) /\ IsFiniteSet(V)
    BY <1>2, FS_Subset
<1>4. p \notin V
  <2>1. \A j \in DOMAIN ps : i + 1 < j => ps[j] # p
      BY <1>1 DEF Orders
  <2> QED BY <2>1 DEF Waiting
<1>5. t \in Table /\ Describes(t) /\ KeepsRows(nodes, t) /\ IsFiniteSet(FreeIds(t))
      /\ Cardinality(W) <= Cardinality(FreeIds(t))
    BY DEF GoneWell
<1>6. NoRowAt(t, p) => p \in W
  <2>1. NoRowAt(t, p) => NoRowAt(nodes, p)
      BY <1>5 DEF NoRowAt, KeepsRows
  <2> QED BY <1>1, <2>1 DEF Waiting
<1>7. /\ Cardinality(W) \in Nat /\ Cardinality(V) \in Nat /\ Cardinality(FreeIds(t)) \in Nat
      /\ Cardinality(V) <= Cardinality(W)
    BY <1>2, <1>3, <1>5, FS_CardinalityType, FS_Subset
<1>8. p \in W => Cardinality(V) + 1 <= Cardinality(W)
  <2>1. SUFFICES ASSUME p \in W PROVE Cardinality(V) + 1 <= Cardinality(W)
      OBVIOUS
  <2>2. V \cup {p} \subseteq W
      BY <1>2, <2>1
  <2>3. Cardinality(V \cup {p}) = Cardinality(V) + 1
      BY <1>3, <1>4, FS_AddElement
  <2>4. Cardinality(V \cup {p}) <= Cardinality(W)
      BY <1>3, <2>2, FS_Subset
  <2> QED BY <2>3, <2>4
<1>9. NoRowAt(t, p) => FreeIds(t) # {}
  <2>1. NoRowAt(t, p) => Cardinality(FreeIds(t)) # 0
      BY <1>5, <1>6, <1>7, <1>8
  <2> QED BY <2>1, FS_EmptySet
<1>10. u \in Table /\ Describes(u) /\ KeepsRows(t, u) /\ Uses(t, u, p)
    BY <1>1, <1>5, <1>9, CommitFiles
<1>11. KeepsRows(nodes, u)
    BY <1>5, <1>10 DEF KeepsRows
<1>12. IsFiniteSet(FreeIds(u)) /\ Cardinality(V) <= Cardinality(FreeIds(u))
  <2>1. CASE FreeIds(u) = FreeIds(t)
      BY <1>5, <1>7, <2>1
  <2>2. CASE NoRowAt(t, p) /\ \E k \in FreeIds(t) : FreeIds(u) = FreeIds(t) \ {k}
    <3>1. PICK k \in FreeIds(t) : FreeIds(u) = FreeIds(t) \ {k}
        BY <2>2
    <3>2. IsFiniteSet(FreeIds(u)) /\ Cardinality(FreeIds(u)) = Cardinality(FreeIds(t)) - 1
        BY <1>5, <3>1, FS_RemoveElement
    <3>3. Cardinality(V) + 1 <= Cardinality(W)
        BY <1>6, <1>8, <2>2
    <3> HIDE DEF V, W, t, u
    <3> QED BY <1>5, <1>7, <3>2, <3>3
  <2> QED BY <1>10, <2>1, <2>2 DEF Uses
<1>13. CASE out.ok
  <2>1. Further(out, r).nodes = u
      BY <1>13 DEF Further
  <2> QED BY <1>10, <1>11, <1>12, <2>1 DEF GoneWell
<1>14. CASE ~ out.ok
  <2>1. Further(out, r) = out
      BY <1>14 DEF Further
  <2>2. Cardinality(V) <= Cardinality(FreeIds(t))
      BY <1>5, <1>7
  <2> QED BY <1>5, <2>1, <2>2 DEF GoneWell
<1> QED BY <1>13, <1>14

\* A batch of files that never change describes the rows it inserts, and leaves
\* every row there is about what it was about.
LEMMA BatchFiles ==
    ASSUME nodes \in Table, Describes(nodes), NEW S \in SUBSET Path, NEW ps \in Orders(S),
           NEW rs, Len(rs) = Cardinality(S), \A i \in DOMAIN ps : Reads(rs[i], ps[i]),
           RoomFor(S)
    PROVE  /\ CommitBatch(rs).nodes \in Table /\ Describes(CommitBatch(rs).nodes)
           /\ KeepsRows(nodes, CommitBatch(rs).nodes)
<1> DEFINE L == Cardinality(S)
           Bad(f) == {i \in 0..L : ~ GoneWell(f[i], ps, i)}
<1>1. IsFiniteSet(S) /\ L \in Nat /\ DOMAIN ps = 1..L
    BY FamiliesAssumption, FS_Subset, FS_CardinalityType DEF Orders
<1>2. PICK f : BatchSteps(f, rs, L) /\ CommitBatch(rs) = f[L]
    BY <1>1, BatchIsSteps
<1>3. \A i \in 0..L : f[i] = IF i = 0 THEN Begun ELSE Further(f[i - 1], rs[i])
    BY <1>2 DEF BatchSteps
<1>4. GoneWell(Begun, ps, 0)
  <2>1. IsFiniteSet(FreeIds(nodes))
    <3>1. IsFiniteSet(Node)
        BY RangeFinite, NodeStoreAssumption DEF Node
    <3> QED BY <3>1, FS_Subset DEF FreeIds
  <2> DEFINE U == {p \in S : LatestAt(nodes, p) = {}}
  <2>2. Waiting(ps, 0) \subseteq U
    <3>1. \A p : NoRowAt(nodes, p) => LatestAt(nodes, p) = {}
        BY DEF NoRowAt, LatestAt
    <3> QED BY <3>1 DEF Waiting, Orders
  <2>3. IsFiniteSet(U)
      BY <1>1, FS_Subset
  <2>4. Cardinality(Waiting(ps, 0)) <= Cardinality(U) /\ IsFiniteSet(Waiting(ps, 0))
      BY <2>2, <2>3, FS_Subset
  <2>5. Cardinality(U) <= Cardinality(FreeIds(nodes))
      BY DEF RoomFor
  <2>6. /\ Cardinality(Waiting(ps, 0)) \in Nat /\ Cardinality(U) \in Nat
        /\ Cardinality(FreeIds(nodes)) \in Nat
      BY <2>1, <2>3, <2>4, FS_CardinalityType
  <2>7. Cardinality(Waiting(ps, 0)) <= Cardinality(FreeIds(nodes))
    <3> HIDE DEF U
    <3> QED BY <2>4, <2>5, <2>6
  <2> QED BY <2>1, <2>7 DEF GoneWell, Begun, KeepsRows
<1> HIDE DEF L
<1>5. SUFFICES ASSUME Bad(f) # {} PROVE FALSE
    BY <1>1, <1>2 DEF GoneWell
<1>6. PICK b \in Bad(f) : \A y \in Bad(f) : b <= y
  <2>1. Bad(f) \in SUBSET Nat
      BY <1>1
  <2> HIDE DEF Bad
  <2> QED BY <1>5, <2>1, LeastExists
<1>7. b # 0
    BY <1>1, <1>3, <1>4, <1>6
<1>8. b - 1 \in Nat /\ b - 1 \in 0..L /\ b - 1 \notin Bad(f) /\ b \in 1..L /\ (b - 1) + 1 = b
    BY <1>1, <1>6, <1>7
<1>9. GoneWell(f[b - 1], ps, b - 1)
    BY <1>8
<1>10. Reads(rs[b], ps[b]) /\ (b - 1) + 1 \in DOMAIN ps
    BY <1>1, <1>8
<1>11. GoneWell(Further(f[b - 1], rs[b]), ps, b)
  <2> DEFINE i == b - 1
  <2>1. i \in Nat /\ i + 1 = b /\ i + 1 \in DOMAIN ps /\ Reads(rs[i + 1], ps[i + 1])
      BY <1>8, <1>10
  <2>2. GoneWell(Further(f[i], rs[i + 1]), ps, i + 1)
    <3> HIDE DEF i
    <3>1. GoneWell(f[i], ps, i)
        BY <1>9 DEF i
    <3> QED BY <1>1, <2>1, <3>1, FurtherGoesWell
  <2> QED BY <2>1, <2>2
<1>12. f[b] = Further(f[b - 1], rs[b])
    BY <1>3, <1>7, <1>8
<1>13. b \in 0..L /\ ~ GoneWell(f[b], ps, b)
    BY <1>6
<1> QED BY <1>11, <1>12, <1>13

----------------------------------------------------------------------------
\* What the resolvers propose.

\* No raw is named as a proxy: proxyName is about the name alone.
PlainRaws == \A p \in Path : IsRaw(About[p]) => ~ About[p].proxyName

\* The child f and the parent g are what their names make them.
InRole(f, g, st) ==
    /\ IsProxy(g) => IsProxy(f) \/ f.ext = "srt"
    /\ IsExport(g) /\ IsRaw(f) => f.mark = "role"
    /\ g.mark = "index" => SameShot(f, g)
    /\ f.mark = "index" /\ ~ SameShot(f, g) => st # "AUTO_ACCEPTED"

\* An edge between rows, in its role unless more than names speaks for it.
Fits(t, k, st) ==
    /\ k.src \in Node /\ k.dst \in Node /\ Exists(t[k.src]) /\ Exists(t[k.dst])
    /\ k.rel # "PROJECT_SIDECAR" /\ ~ Known(Of(t, k.dst).orig, Of(t, k.src).doc)
       => InRole(Of(t, k.dst), Of(t, k.src), st)

Fitting == {c \in ResolverCandidate : Fits(nodes, c.key, Verdict(c.tier, c.conf))}

\* ORDER BY id: every member of S once.
LEMMA ByIdOrders ==
    ASSUME NEW S \in SUBSET Nat, IsFiniteSet(S)
    PROVE  Cardinality(S) \in Nat /\ ById(S) \in [1..Cardinality(S) -> S]
<1>1. Cardinality(S) \in Nat
    BY FS_CardinalityType
<1>2. ById(S) = [r \in 1..Cardinality(S) |-> CHOOSE i \in S : Rank(S, i) = r - 1]
    BY DEF ById, Rank
<1>3. \A r \in 1..Cardinality(S) : (CHOOSE i \in S : Rank(S, i) = r - 1) \in S
  <2> SUFFICES ASSUME NEW r \in 1..Cardinality(S)
               PROVE  (CHOOSE i \in S : Rank(S, i) = r - 1) \in S
      OBVIOUS
  <2>1. \E i \in S : Rank(S, i) = r - 1
      BY EveryRank
  <2> QED BY <2>1
<1> QED BY <1>1, <1>2, <1>3

LEMMA RowsById ==
    ASSUME NEW S \in SUBSET Node
    PROVE  IsFiniteSet(S) /\ Cardinality(S) \in Nat /\ ById(S) \in [1..Cardinality(S) -> S]
<1>1. IsFiniteSet(Node) /\ S \in SUBSET Nat
    BY RangeFinite, NodeStoreAssumption DEF Node
<1>2. IsFiniteSet(S)
    BY <1>1, FS_Subset
<1> QED BY <1>1, <1>2, ByIdOrders

LEMMA OfType ==
    ASSUME nodes \in Table, NEW n \in Node
    PROVE  Of(nodes, n) \in Traits /\ \E p \in Path : Of(nodes, n) = About[p]
<1>1. nodes[n].path \in Path
    BY DEF Table, Row
<1> QED BY <1>1, ResolversAssumption DEF Of

LEMMA LiveExists ==
    ASSUME NEW n \in LiveRows(nodes)
    PROVE  n \in Node /\ Exists(nodes[n])
BY DEF LiveRows, Live, Exists

\* A candidate between two rows is one of the table's.
LEMMA CandidateType ==
    ASSUME NEW p \in Node, NEW c \in Node, p # c, NEW rel \in Relationship,
           NEW tier \in 1..3, NEW conf \in 1..100
    PROVE  Candidate(p, c, rel, tier, conf) \in ResolverCandidate
<1>1. [src |-> p, dst |-> c, rel |-> rel] \in EdgeKey /\ Certain = 100
    BY FamiliesAssumption
<1> QED BY <1>1 DEF Candidate, ResolverCandidate

LEMMA RelationshipType ==
    ASSUME NEW f, NEW g
    PROVE  inferRelationship(f, g) \in Relationship \ {"PROJECT_SIDECAR"}
BY DEF inferRelationship, Relationship

LEMMA XMPFits ==
    ASSUME nodes \in Table, NEW n \in Node, Exists(nodes[n])
    PROVE  XMPOriginalDocumentIDResolver(nodes, n) \in Seq(Fitting)
<1> DEFINE S == {p \in LiveRows(nodes) \ {n} : Known(Of(nodes, n).orig, Of(nodes, p).doc)}
           C(p) == Candidate(p, n, inferRelationship(Of(nodes, n), Of(nodes, p)), 2, 95)
           X == XMPOriginalDocumentIDResolver(nodes, n)
<1>1. S \in SUBSET Node
    BY DEF LiveRows
<1>2. ASSUME NEW p \in S
      PROVE  C(p) \in Fitting
  <2>1. p \in Node /\ Exists(nodes[p]) /\ p # n
      BY LiveExists
  <2>2. C(p) \in ResolverCandidate
      BY <2>1, RelationshipType, CandidateType
  <2>3. C(p).key.src = p /\ C(p).key.dst = n
      BY DEF Candidate
  <2>4. Known(Of(nodes, n).orig, Of(nodes, p).doc)
      OBVIOUS
  <2> HIDE DEF C, S
  <2> QED BY <2>1, <2>2, <2>3, <2>4 DEF Fitting, Fits
<1>3. Cardinality(S) \in Nat /\ ById(S) \in [1..Cardinality(S) -> S]
    BY <1>1, RowsById
<1>4. X = [i \in DOMAIN ById(S) |-> C(ById(S)[i])]
    BY DEF XMPOriginalDocumentIDResolver, EachById
<1> HIDE DEF S, C, X
<1>5. X \in [1..Cardinality(S) -> Fitting]
    BY <1>2, <1>3, <1>4
<1>6. X \in Seq(Fitting)
    BY <1>3, <1>5
<1> QED BY <1>6 DEF X

\* The members of S, each mapped by g, in the order of S.
LEMMA EachByIdType ==
    ASSUME NEW S \in SUBSET Nat, IsFiniteSet(S), NEW T, NEW g \in [S -> T]
    PROVE  [i \in DOMAIN ById(S) |-> g[ById(S)[i]]] \in Seq(T)
<1>1. Cardinality(S) \in Nat /\ ById(S) \in [1..Cardinality(S) -> S]
    BY ByIdOrders
<1> DEFINE X == [i \in DOMAIN ById(S) |-> g[ById(S)[i]]]
           L == Cardinality(S)
<1>2. X \in [1..L -> T]
  <2>1. DOMAIN ById(S) = 1..L /\ \A i \in 1..L : ById(S)[i] \in S
      BY <1>1
  <2> QED BY <2>1
<1> HIDE DEF X, L
<1>3. L \in Nat
    BY <1>1 DEF L
<1>4. X \in Seq(T)
    BY <1>2, <1>3
<1> QED BY <1>4 DEF X

LEMMA ReferredLive ==
    ASSUME NEW ref
    PROVE  Referred(nodes, ref) \subseteq LiveRows(nodes)
<1>1. \A p : LiveAt(nodes, p) \subseteq LiveRows(nodes)
    BY DEF LiveAt, LiveRows
<1>2. {n \in LiveRows(nodes) : Known(ref.name, Of(nodes, n).name)} \subseteq LiveRows(nodes)
    OBVIOUS
<1> QED BY <1>1, <1>2 DEF Referred

LEMMA ProjectFits ==
    ASSUME nodes \in Table, NEW n \in Node, Exists(nodes[n])
    PROVE  ProjectSidecarResolver(nodes, n) \in Seq(Fitting)
<1> DEFINE f == Of(nodes, n)
           R == LiveRows(nodes) \ {n}
           referred == [i \in DOMAIN f.refs |-> Referred(nodes, f.refs[i]) \ {n}]
           upTo(i) == UNION {referred[j] : j \in 1..i}
           beside == IF f.ext = "xmp" THEN Siblings(nodes, n) \ upTo(Len(f.refs)) ELSE {}
           first == {i \in DOMAIN f.refs : referred[i] # {} /\ referred[i] \cap upTo(i - 1) = {}}
           Parent(i) == CHOOSE p \in referred[i] : TRUE
           byRef == [i \in DOMAIN ById(first) |-> Parent(ById(first)[i])]
           parents == byRef \o ById(beside)
           C(p) == Candidate(p, n, "PROJECT_SIDECAR", 1, 100)
           X == ProjectSidecarResolver(nodes, n)
<1>1. f.refs \in Seq([paths : Seq(Path), name : Nat])
    BY OfType DEF Traits
<1>2. Len(f.refs) \in Nat /\ DOMAIN f.refs = 1..Len(f.refs)
    BY <1>1
<1>3. \A i \in DOMAIN f.refs : referred[i] \subseteq R
    BY ReferredLive
<1>4. beside \in SUBSET R
    BY DEF Siblings
<1>5. first \in SUBSET Nat /\ IsFiniteSet(first) /\ \A i \in first : Parent(i) \in R
  <2>1. first \subseteq 1..Len(f.refs)
      BY <1>2
  <2>2. IsFiniteSet(1..Len(f.refs)) /\ 1..Len(f.refs) \subseteq Nat
      BY <1>2, RangeFinite
  <2>3. IsFiniteSet(first)
    <3> HIDE DEF first
    <3> QED BY <2>1, <2>2, FS_Subset
  <2>4. \A i \in first : Parent(i) \in referred[i] /\ i \in DOMAIN f.refs
      OBVIOUS
  <2> QED BY <1>3, <2>1, <2>2, <2>3, <2>4
<1>6. byRef \in Seq(R)
  <2> DEFINE g == [i \in first |-> Parent(i)]
  <2>1. g \in [first -> R]
      BY <1>5
  <2>2. [i \in DOMAIN ById(first) |-> g[ById(first)[i]]] \in Seq(R)
    <3> HIDE DEF g, first
    <3> QED BY <1>5, <2>1, EachByIdType
  <2>3. ById(first) \in [1..Cardinality(first) -> first]
    <3> HIDE DEF first
    <3> QED BY <1>5, ByIdOrders
  <2>4. \A i \in DOMAIN ById(first) : g[ById(first)[i]] = Parent(ById(first)[i])
    <3> HIDE DEF first, Parent
    <3> QED BY <2>3 DEF g
  <2> HIDE DEF first, Parent, g
  <2> QED BY <2>2, <2>4
<1>7. ById(beside) \in Seq(R)
  <2>1. R \in SUBSET Node
      BY DEF LiveRows
  <2>2. Cardinality(beside) \in Nat /\ ById(beside) \in [1..Cardinality(beside) -> beside]
    <3>1. beside \in SUBSET Node
        BY <1>4, <2>1
    <3> HIDE DEF beside
    <3> QED BY <3>1, RowsById
  <2> HIDE DEF beside
  <2>3. ById(beside) \in [1..Cardinality(beside) -> R]
      BY <1>4, <2>2
  <2> QED BY <2>2, <2>3
<1>8. parents \in Seq(R)
  <2> HIDE DEF byRef, beside
  <2> QED BY <1>6, <1>7
<1>9. ASSUME NEW p \in R
      PROVE  C(p) \in Fitting
  <2>1. p \in Node /\ Exists(nodes[p]) /\ p # n
      BY LiveExists
  <2>2. C(p) \in ResolverCandidate
      BY <2>1, CandidateType DEF Relationship
  <2>3. C(p).key.src = p /\ C(p).key.dst = n /\ C(p).key.rel = "PROJECT_SIDECAR"
      BY DEF Candidate
  <2> HIDE DEF C, R
  <2> QED BY <2>1, <2>2, <2>3 DEF Fitting, Fits
<1>10. X = IF IsProject(f) THEN [i \in DOMAIN parents |-> C(parents[i])] ELSE <<>>
    BY DEF ProjectSidecarResolver, EachById
<1> HIDE DEF parents, C, R, X
<1>11. CASE IsProject(f)
  <2>1. DOMAIN parents = 1..Len(parents) /\ Len(parents) \in Nat
        /\ \A i \in DOMAIN parents : parents[i] \in R
      BY <1>8
  <2>2. X \in [1..Len(parents) -> Fitting]
      BY <1>9, <1>10, <1>11, <2>1
  <2>3. X \in Seq(Fitting)
      BY <2>1, <2>2
  <2> QED BY <2>3 DEF X
<1>12. CASE ~ IsProject(f)
  <2>1. X \in Seq(Fitting)
      BY <1>10, <1>12
  <2> QED BY <2>1 DEF X
<1> QED BY <1>11, <1>12

\* Among numbers at most m there is a greatest, and a first of those.
LEMMA FirstBest ==
    ASSUME NEW m \in Nat, NEW J \in SUBSET Nat, J # {}, NEW c, \A j \in J : c[j] \in 0..m
    PROVE  \E b \in J : \A j \in J : c[j] < c[b] \/ (c[j] = c[b] /\ b <= j)
<1> DEFINE R == {m - c[j] : j \in J}
<1>1. R \in SUBSET Nat /\ R # {}
    OBVIOUS
<1>2. PICK x \in R : \A y \in R : x <= y
  <2> HIDE DEF R
  <2> QED BY <1>1, LeastExists
<1>3. \A j \in J : x <= m - c[j]
    BY <1>2
<1> DEFINE K == {j \in J : m - c[j] = x}
<1>4. K \in SUBSET Nat /\ K # {}
    BY <1>2
<1>5. PICK b \in K : \A y \in K : b <= y
  <2> HIDE DEF K
  <2> QED BY <1>4, LeastExists
<1>6. b \in J /\ m - c[b] = x
    OBVIOUS
<1> SUFFICES ASSUME NEW j \in J
             PROVE  c[j] < c[b] \/ (c[j] = c[b] /\ b <= j)
    BY <1>6
<1>7. c[j] \in Nat /\ c[b] \in Nat /\ c[j] <= c[b]
    BY <1>3, <1>6
<1>8. c[j] = c[b] => b <= j
    BY <1>5, <1>6
<1> QED BY <1>7, <1>8

\* What a merge keeps of a list of candidates is in the list.
LEMMA MergeType ==
    ASSUME NEW T, NEW cs \in Seq(T), \A c \in T : c.conf \in 1..Certain
    PROVE  mergeCandidates(cs) \in Seq(T)
<1> DEFINE Best(i) == \A j \in DOMAIN cs : cs[j].key = cs[i].key =>
                      cs[j].conf < cs[i].conf \/ (cs[j].conf = cs[i].conf /\ i <= j)
           first == {i \in DOMAIN cs : \A j \in 1..(i - 1) : cs[j].key # cs[i].key}
           Winner(i) == cs[CHOOSE j \in DOMAIN cs : cs[j].key = cs[i].key /\ Best(j)]
           g == [i \in first |-> Winner(i)]
           X == mergeCandidates(cs)
<1>1. Len(cs) \in Nat /\ DOMAIN cs = 1..Len(cs) /\ \A i \in DOMAIN cs : cs[i] \in T
    OBVIOUS
<1>2. \A i \in DOMAIN cs : cs[i].conf \in Nat /\ cs[i].conf <= Certain
  <2>1. \A c \in T : c.conf \in Nat /\ c.conf <= Certain
      BY EdgeStoreAssumption
  <2> QED BY <1>1, <2>1
<1>3. ASSUME NEW i \in DOMAIN cs
      PROVE  \E j \in DOMAIN cs : cs[j].key = cs[i].key /\ Best(j)
  <2> DEFINE J == {j \in DOMAIN cs : cs[j].key = cs[i].key}
             conf == [j \in DOMAIN cs |-> cs[j].conf]
  <2>1. J \in SUBSET Nat /\ J # {}
    <3>1. i \in J /\ J \subseteq DOMAIN cs
        BY <1>3
    <3> HIDE DEF J
    <3> QED BY <1>1, <3>1
  <2>2. Certain \in Nat /\ \A j \in J : conf[j] \in 0..Certain
      BY <1>2, EdgeStoreAssumption
  <2>3. PICK b \in J : \A j \in J : conf[j] < conf[b] \/ (conf[j] = conf[b] /\ b <= j)
    <3> HIDE DEF J, conf
    <3> QED BY <2>1, <2>2, FirstBest
  <2>4. b \in DOMAIN cs /\ cs[b].key = cs[i].key
      OBVIOUS
  <2>5. Best(b)
      BY <2>3, <2>4
  <2> QED BY <2>4, <2>5
<1>4. first \in SUBSET Nat /\ IsFiniteSet(first)
  <2>1. IsFiniteSet(DOMAIN cs) /\ DOMAIN cs \subseteq Nat
      BY <1>1, RangeFinite
  <2>2. first \subseteq DOMAIN cs
      OBVIOUS
  <2> HIDE DEF first
  <2> QED BY <2>1, <2>2, FS_Subset
<1>5. g \in [first -> T]
  <2>1. \A i \in first : Winner(i) \in T
    <3> SUFFICES ASSUME NEW i \in first PROVE Winner(i) \in T
        OBVIOUS
    <3>1. i \in DOMAIN cs
        OBVIOUS
    <3> HIDE DEF Best, first
    <3>2. (CHOOSE j \in DOMAIN cs : cs[j].key = cs[i].key /\ Best(j)) \in DOMAIN cs
        BY <1>3, <3>1
    <3> QED BY <1>1, <3>2
  <2> HIDE DEF first, Winner
  <2> QED BY <2>1
<1>6. X = [i \in DOMAIN ById(first) |-> Winner(ById(first)[i])]
    BY DEF mergeCandidates, EachById
<1>7. ById(first) \in [1..Cardinality(first) -> first]
  <2> HIDE DEF first
  <2> QED BY <1>4, ByIdOrders
<1>8. X = [i \in DOMAIN ById(first) |-> g[ById(first)[i]]]
  <2> HIDE DEF first, Winner, X
  <2>1. \A i \in DOMAIN ById(first) : g[ById(first)[i]] = Winner(ById(first)[i])
      BY <1>7
  <2> HIDE DEF g
  <2> QED BY <1>6, <2>1
<1> HIDE DEF first, g, X
<1>9. X \in Seq(T)
    BY <1>4, <1>5, <1>8, EachByIdType
<1> QED BY <1>9 DEF X

LEMMA HeuristicFits ==
    ASSUME nodes \in Table, PlainRaws, NEW n \in Node, Exists(nodes[n])
    PROVE  HeuristicSpatialTemporalResolver(nodes, n) \in Seq(Fitting)
<1> DEFINE f == Of(nodes, n)
           raws == {p \in LiveRows(nodes) \ {n} : SameShot(f, Of(nodes, p))}
           Ranks(p) == <<-HeuristicScore(f, Of(nodes, p)), Distance(f, Of(nodes, p)),
                         Apart(f, Of(nodes, p)), p>>
           Before(x, y) == \E i \in 1..4 : x[i] < y[i] /\ \A j \in 1..(i - 1) : x[j] = y[j]
           best == {p \in raws : \A q \in raws \ {p} : Before(Ranks(p), Ranks(q))}
           C(p) == Candidate(p, n, inferRelationship(f, Of(nodes, p)), 3,
                             HeuristicScore(f, Of(nodes, p)))
           X == HeuristicSpatialTemporalResolver(nodes, n)
           g == [p \in best |-> C(p)]
<1>1. best \subseteq raws /\ raws \subseteq Node
    BY DEF LiveRows
<1>2. best \in SUBSET Node
    BY <1>1
<1>3. ASSUME NEW p \in raws
      PROVE  C(p) \in Fitting
  <2>1. p \in Node /\ Exists(nodes[p]) /\ p # n
      BY LiveExists
  <2>2. HeuristicScore(f, Of(nodes, p)) \in 1..100
      BY DEF HeuristicScore, Boost, Capped
  <2>3. C(p) \in ResolverCandidate
      BY <2>1, <2>2, RelationshipType, CandidateType
  <2>4. C(p).key.src = p /\ C(p).key.dst = n
      BY DEF Candidate
  <2>5. SameShot(f, Of(nodes, p))
      OBVIOUS
  <2>6. IsRaw(Of(nodes, p)) /\ ~ Of(nodes, p).proxyName
      BY <2>1, <2>5, OfType DEF SameShot, PlainRaws
  <2>7. ASSUME NEW st PROVE InRole(f, Of(nodes, p), st)
    <3> DEFINE h == Of(nodes, p)
    <3>1. SameShot(f, h) /\ IsRaw(h) /\ ~ h.proxyName
        BY <2>5, <2>6
    <3> HIDE DEF h, f
    <3>2. ~ IsProxy(h) /\ ~ IsExport(h)
        BY <3>1 DEF IsRaw, IsProxy, IsExport
    <3>3. InRole(f, h, st)
        BY <3>1, <3>2 DEF InRole
    <3> QED BY <3>3 DEF f, h
  <2> HIDE DEF C, raws
  <2> QED BY <2>1, <2>3, <2>4, <2>7 DEF Fitting, Fits
<1>4. X = [i \in DOMAIN ById(best) |-> C(ById(best)[i])]
    BY DEF HeuristicSpatialTemporalResolver, EachById
<1> HIDE DEF best, C, raws, X
<1>5. IsFiniteSet(best) /\ best \in SUBSET Nat /\ ById(best) \in [1..Cardinality(best) -> best]
    BY <1>2, RowsById DEF Node
<1>6. g \in [best -> Fitting]
    BY <1>1, <1>3
<1>7. X = [i \in DOMAIN ById(best) |-> g[ById(best)[i]]]
    BY <1>4, <1>5
<1>8. X \in Seq(Fitting)
  <2> HIDE DEF g
  <2> QED BY <1>5, <1>6, <1>7, EachByIdType
<1> QED BY <1>8 DEF X

\* A match by name proposes an edge in its role, whichever side was asked about.
LEMMA StemPairFits ==
    ASSUME nodes \in Table, PlainRaws, NEW c \in Node, NEW p \in Node, c # p,
           Exists(nodes[c]), Exists(nodes[p]), NEW x \in StemPair(nodes, c, p)
    PROVE  x \in Fitting
<1> DEFINE f == Of(nodes, c)
           g == Of(nodes, p)
           gated == IndexGated(f, g)
           conf1 == 70 + (Boost(sameCaptureDay(f, g), 15) + Boost(Known(f.camera, g.camera), 10))
           conf2 == 60 + (Boost(sameCaptureDay(f, g), 15) + Boost(Known(f.camera, g.camera), 10))
                       + Boost(Known(f.dir, g.dir), 10)
           S(conf) == StemClamp(f, g, conf)
<1>0. /\ f \in Traits /\ g \in Traits
      /\ IsRaw(f) => ~ f.proxyName
      /\ IsRaw(g) => ~ g.proxyName
    BY OfType DEF PlainRaws
<1>1. ASSUME NEW conf \in 1..100
      PROVE  S(conf) \in 1..100 /\ (gated => Verdict(2, S(conf)) = "NEEDS_REVIEW")
  <2>1. S(conf) \in 1..100 /\ (gated => S(conf) <= IndexCap)
      BY DEF StemClamp, Capped, IndexCap
  <2>2. gated => ~ (S(conf) >= AcceptAt[2])
    <3>1. AcceptAt[2] \in Int
        BY LineageAssumption, EdgeStoreAssumption
    <3> HIDE DEF S
    <3> QED BY <2>1, <3>1, FamiliesAssumption DEF IndexCap
  <2> HIDE DEF S, gated
  <2> QED BY <2>1, <2>2 DEF Verdict
<1>2. conf1 \in 1..100 /\ conf2 \in 1..100
    BY DEF Boost
<1>3. \/ /\ gated => f.mark = "index" /\ g.mark = "none"
         /\ f.ext = "srt" /\ g.ext = "video" /\ ~ (f.ext = g.ext)
         /\ x = Candidate(p, c, "PROXY_OF", 2, S(conf1))
      \/ /\ g.ext = "srt" /\ f.ext = "video" /\ ~ gated
         /\ x = Candidate(c, p, "PROXY_OF", 2, S(conf1))
      \/ /\ gated => f.mark = "index" /\ g.mark = "none"
         /\ ~ Swapped(f, g)
         /\ x = Candidate(p, c, inferRelationship(f, g), 2, S(conf2))
      \/ /\ Swapped(f, g) /\ ~ gated
         /\ x = Candidate(c, p, inferRelationship(g, f), 2, S(conf2))
    BY DEF StemPair
<1>4. ASSUME NEW conf \in 1..100, NEW a \in Node, NEW b \in Node, a # b,
             Exists(nodes[a]), Exists(nodes[b]), NEW rel \in Relationship,
             InRole(Of(nodes, b), Of(nodes, a), Verdict(2, S(conf))),
             x = Candidate(a, b, rel, 2, S(conf))
      PROVE  x \in Fitting
  <2>1. x \in ResolverCandidate
    <3>1. S(conf) \in 1..100
        BY <1>1
    <3> HIDE DEF S
    <3> QED BY <1>4, <3>1, CandidateType
  <2>2. x.key.src = a /\ x.key.dst = b /\ x.tier = 2 /\ x.conf = S(conf)
      BY <1>4 DEF Candidate
  <2> HIDE DEF S
  <2> QED BY <1>4, <2>1, <2>2 DEF Fitting, Fits
<1>5. gated <=> f.mark = "index" \/ g.mark = "index"
    BY DEF IndexGated
<1> HIDE DEF S, conf1, conf2, gated
<1>6. CASE /\ gated => f.mark = "index" /\ g.mark = "none"
           /\ f.ext = "srt" /\ g.ext = "video" /\ ~ (f.ext = g.ext)
           /\ x = Candidate(p, c, "PROXY_OF", 2, S(conf1))
  <2>1. InRole(f, g, Verdict(2, S(conf1)))
    <3> HIDE DEF f, g
    <3> QED BY <1>1, <1>2, <1>5, <1>6 DEF InRole, IsRaw
  <2> QED BY <1>2, <1>4, <1>6, <2>1 DEF Relationship
<1>7. CASE /\ g.ext = "srt" /\ f.ext = "video" /\ ~ gated
           /\ x = Candidate(c, p, "PROXY_OF", 2, S(conf1))
  <2>1. InRole(g, f, Verdict(2, S(conf1)))
    <3> HIDE DEF f, g
    <3> QED BY <1>5, <1>7 DEF InRole, IsRaw
  <2> QED BY <1>2, <1>4, <1>7, <2>1 DEF Relationship
<1>8. CASE /\ gated => f.mark = "index" /\ g.mark = "none"
           /\ ~ Swapped(f, g)
           /\ x = Candidate(p, c, inferRelationship(f, g), 2, S(conf2))
  <2>1. InRole(f, g, Verdict(2, S(conf2)))
    <3> HIDE DEF f, g
    <3>1. IsProxy(g) => IsProxy(f)
        BY <1>8 DEF Swapped
    <3>2. IsRaw(f) => ~ IsProxy(f)
        BY <1>0 DEF IsRaw, IsProxy
    <3>3. ~ (IsExport(g) /\ IsRaw(f))
        BY <1>8, <3>1, <3>2 DEF Swapped
    <3>4. g.mark # "index"
        BY <1>5, <1>8
    <3>5. f.mark = "index" => Verdict(2, S(conf2)) # "AUTO_ACCEPTED"
        BY <1>1, <1>2, <1>5
    <3> QED BY <3>1, <3>3, <3>4, <3>5 DEF InRole
  <2> QED BY <1>2, <1>4, <1>8, <2>1, RelationshipType
<1>9. CASE /\ Swapped(f, g) /\ ~ gated
           /\ x = Candidate(c, p, inferRelationship(g, f), 2, S(conf2))
  <2>1. InRole(g, f, Verdict(2, S(conf2)))
    <3> HIDE DEF f, g
    <3>1. ~ IsProxy(f)
        BY <1>9 DEF Swapped
    <3>2. IsRaw(g) => ~ IsProxy(g)
        BY <1>0 DEF IsRaw, IsProxy
    <3>3. IsExport(f) => ~ IsRaw(f)
        BY DEF IsExport, IsRaw
    <3>4. IsExport(f) /\ IsRaw(g) => g.mark = "role"
        BY <1>9, <3>2, <3>3 DEF Swapped
    <3> QED BY <1>5, <1>9, <3>1, <3>4 DEF InRole
  <2> QED BY <1>2, <1>4, <1>9, <2>1, RelationshipType
<1> QED BY <1>3, <1>6, <1>7, <1>8, <1>9

LEMMA StemFits ==
    ASSUME nodes \in Table, PlainRaws, NEW n \in Node, Exists(nodes[n])
    PROVE  FilenameStemResolver(nodes, n) \in Seq(Fitting)
<1> DEFINE found == {p \in LiveRows(nodes) \ {n} :
                       /\ Known(Of(nodes, n).stem, Of(nodes, p).stem)
                       /\ StemPair(nodes, n, p) # {}}
           C(p) == CHOOSE x \in StemPair(nodes, n, p) : TRUE
           g == [p \in found |-> C(p)]
           X == FilenameStemResolver(nodes, n)
<1>1. found \in SUBSET Node
    BY DEF LiveRows
<1>2. ASSUME NEW p \in found
      PROVE  C(p) \in Fitting
  <2>1. p \in Node /\ Exists(nodes[p]) /\ p # n
      BY LiveExists
  <2>2. C(p) \in StemPair(nodes, n, p)
      OBVIOUS
  <2> HIDE DEF C, found
  <2> QED BY <2>1, <2>2, StemPairFits
<1>3. X = [i \in DOMAIN ById(found) |-> C(ById(found)[i])]
    BY DEF FilenameStemResolver, EachById
<1> HIDE DEF found, C, X
<1>4. IsFiniteSet(found) /\ found \in SUBSET Nat
      /\ ById(found) \in [1..Cardinality(found) -> found]
    BY <1>1, RowsById DEF Node
<1>5. g \in [found -> Fitting]
    BY <1>2
<1>6. X = [i \in DOMAIN ById(found) |-> g[ById(found)[i]]]
    BY <1>3, <1>4
<1>7. X \in Seq(Fitting)
  <2> HIDE DEF g
  <2> QED BY <1>4, <1>5, <1>6, EachByIdType
<1> QED BY <1>7 DEF X

\* What is proposed for a row is in its role.
LEMMA FoundFits ==
    ASSUME nodes \in Table, PlainRaws, NEW n \in Node, Exists(nodes[n])
    PROVE  Found(n) \in Seq(Fitting)
<1> DEFINE cs == ProposedFor(nodes, n)
<1>1. \A c \in Fitting : c.conf \in 1..Certain
    BY DEF Fitting, ResolverCandidate
<1>2. ProjectSidecarResolver(nodes, n) \o XMPOriginalDocumentIDResolver(nodes, n)
        \o FilenameStemResolver(nodes, n) \o HeuristicSpatialTemporalResolver(nodes, n)
        \in Seq(Fitting)
    BY ProjectFits, XMPFits, StemFits, HeuristicFits
<1>3. cs \in Seq(Fitting)
    BY <1>1, <1>2, MergeType DEF ProposedFor
<1> QED BY <1>3 DEF Found

\* Every edge a resolver supplied is in its role.
InRoles(t) == \A k \in EdgeKey : t[k].by = "resolver" => Fits(nodes, k, t[k].st)

LEMMA ReviewFits ==
    ASSUME NEW k, NEW st, NEW so, Fits(nodes, k, st), so # "AUTO_ACCEPTED"
    PROVE  Fits(nodes, k, so)
BY DEF Fits, InRole

LEMMA MergeInRole ==
    ASSUME NEW before, before.edges \in EdgeTable, InRoles(before.edges), NEW c \in Fitting
    PROVE  Merge(before, c).edges \in EdgeTable /\ InRoles(Merge(before, c).edges)
<1> DEFINE k     == c.key
           t     == before.edges
           edge  == NewEdge(Verdict(c.tier, c.conf), c.conf, "resolver")
           after == UpsertMediaEdge(t, k, edge)
<1>1. /\ k \in EdgeKey /\ c.tier \in 1..3 /\ c.conf \in 1..Certain
      /\ Fits(nodes, k, Verdict(c.tier, c.conf))
    BY DEF Fitting, ResolverCandidate
<1>2. edge \in Edge /\ edge.st = Verdict(c.tier, c.conf) /\ edge.by = "resolver"
  <2>1. Verdict(c.tier, c.conf) \in ReviewState
      BY DEF Verdict, ReviewState
  <2>2. c.conf \in 0..Certain
      BY <1>1
  <2> QED BY <2>1, <2>2, NewEdgeType DEF NewEdge, Origin
<1> HIDE DEF edge
<1>3. after \in EdgeTable /\ \A x \in EdgeKey : x # k => after[x] = t[x]
    BY <1>1, <1>2, UpsertType
<1>4. \/ after[k] = edge
      \/ after[k].st = t[k].st /\ after[k].by = t[k].by
  <2>1. \/ after = t
        \/ after = [t EXCEPT ![k] = edge]
        \/ after = [t EXCEPT ![k] = [t[k] EXCEPT !.on = TRUE]]
      BY DEF UpsertMediaEdge
  <2>2. t \in [EdgeKey -> Edge] /\ t[k] \in Edge
      BY <1>1 DEF EdgeTable
  <2>3. [t[k] EXCEPT !.on = TRUE].st = t[k].st /\ [t[k] EXCEPT !.on = TRUE].by = t[k].by
      BY <2>2 DEF Edge
  <2> HIDE DEF after, t
  <2>4. \/ after[k] = t[k]
        \/ after[k] = edge
        \/ after[k] = [t[k] EXCEPT !.on = TRUE]
      BY <1>1, <2>1, <2>2
  <2> QED BY <2>3, <2>4
<1> HIDE DEF after
<1>5. InRoles(after)
  <2> SUFFICES ASSUME NEW x \in EdgeKey, after[x].by = "resolver"
               PROVE  Fits(nodes, x, after[x].st)
      BY DEF InRoles
  <2>1. CASE x # k
      BY <1>3, <2>1 DEF InRoles
  <2>2. CASE x = k
      BY <1>1, <1>2, <1>4, <2>2 DEF InRoles
  <2> QED BY <2>1, <2>2
<1>6. Merge(before, c).edges = t \/ Merge(before, c).edges = after
    BY DEF Merge, after, edge
<1> QED BY <1>3, <1>5, <1>6

\* One transaction of ResolveAndCommit leaves every edge of a resolver in its role.
LEMMA ResolvedInRole ==
    ASSUME NEW cs \in Seq(Fitting), edges \in EdgeTable, InRoles(edges)
    PROVE  InRoles(Resolved(cs).edges)
<1> DEFINE L == Len(cs)
           Kept(out) == out.edges \in EdgeTable /\ InRoles(out.edges)
           Bad(f) == {i \in 0..L : ~ Kept(f[i])}
<1>1. L \in Nat /\ \A i \in 1..L : cs[i] \in Fitting
    OBVIOUS
<1>2. PICK f : Merges(f, cs, L) /\ Resolved(cs) = f[L]
    BY <1>1, ResolvedMerges
<1>3. \A i \in 0..L : f[i] = IF i = 0 THEN Start ELSE Merge(f[i - 1], cs[i])
    BY <1>2 DEF Merges
<1> HIDE DEF L
<1>4. SUFFICES ASSUME Bad(f) # {} PROVE FALSE
    BY <1>1, <1>2
<1>5. PICK b \in Bad(f) : \A y \in Bad(f) : b <= y
  <2>1. Bad(f) \in SUBSET Nat
      BY <1>1
  <2> HIDE DEF Bad
  <2> QED BY <1>4, <2>1, LeastExists
<1>6. Kept(Start)
    BY DEF Start
<1>7. b # 0
    BY <1>1, <1>3, <1>5, <1>6
<1>8. b - 1 \in 0..L /\ b - 1 \notin Bad(f) /\ b \in 1..L
    BY <1>1, <1>5, <1>7
<1>9. Kept(f[b - 1])
    BY <1>8
<1>10. Kept(Merge(f[b - 1], cs[b]))
    BY <1>1, <1>8, <1>9, MergeInRole
<1>11. f[b] = Merge(f[b - 1], cs[b])
    BY <1>3, <1>7, <1>8
<1> HIDE DEF Kept
<1> QED BY <1>5, <1>10, <1>11

\* Nor does a person's decision take one out of it.
LEMMA PersonKeepsRoles ==
    ASSUME edges \in EdgeTable, InRoles(edges), PersonReviews
    PROVE  InRoles(edges')
<1>1. PICK k \in EdgeKey :
          CreateEdge(k) \/ Review(k, "CONFIRMED") \/ Review(k, "REJECTED") \/ ResetReview(k)
    BY DEF PersonReviews
<1>2. CASE CreateEdge(k)
  <2>1. edges' = [edges EXCEPT ![k] = NewEdge("CONFIRMED", Certain, "manual")]
      BY <1>2 DEF CreateEdge, CreateManualMediaEdge
  <2>2. edges'[k].by = "manual" /\ \A x \in EdgeKey : x # k => edges'[x] = edges[x]
      BY <2>1 DEF NewEdge, EdgeTable
  <2> QED BY <2>2 DEF InRoles
<1>3. CASE Review(k, "CONFIRMED") \/ Review(k, "REJECTED") \/ ResetReview(k)
  <2>1. PICK st \in ReviewState : st # "AUTO_ACCEPTED" /\ edges' = SetReview(edges, k, st)
      BY <1>3 DEF Review, ResetReview, ReviewState
  <2>2. /\ edges'[k].by = edges[k].by /\ edges'[k].st = st
        /\ \A x \in EdgeKey : x # k => edges'[x] = edges[x]
      BY <2>1 DEF SetReview, EdgeTable, Edge
  <2> SUFFICES ASSUME NEW x \in EdgeKey, edges'[x].by = "resolver"
               PROVE  Fits(nodes, x, edges'[x].st)
      BY DEF InRoles
  <2>3. CASE x = k
      BY <2>1, <2>2, <2>3, ReviewFits DEF InRoles
  <2>4. CASE x # k
      BY <2>2, <2>4 DEF InRoles
  <2> QED BY <2>3, <2>4
<1> QED BY <1>1, <1>2, <1>3

----------------------------------------------------------------------------
\* The invariant.

\* The rows there are.
Existing == {n \in Node : Exists(nodes[n])}

FilesStay ==
    /\ nodes \in Table /\ Describes(nodes)
    /\ \A p \in Path : disk[p] \in {NoFile, BytesOf[p]}
    /\ DOMAIN disk = Path

EdgesRight == edges \in EdgeTable /\ StatusTrue /\ ~ Cyclic(edges) /\ InRoles(edges)

ScanRight ==
    /\ DOMAIN scan = DOMAIN NoScan
    /\ scan.todo \subseteq {p \in Path : disk[p] # NoFile}
    /\ scan.job \in Seq(Existing)
    /\ scan.at = "look" => scan.job # <<>>
    /\ scan.found \in Seq(Fitting)

UploadRight ==
    /\ DOMAIN upload = DOMAIN NoUpload
    /\ upload.at # "idle" => upload.row \in Existing
    /\ upload.found \in Seq(Fitting)

FamiliesInv == FilesStay /\ EdgesRight /\ ScanRight /\ UploadRight

LEMMA RolesFollow ==
    ASSUME edges \in EdgeTable, InRoles(edges)
    PROVE  NamesKeepRoles
<1> SUFFICES ASSUME NEW k \in EdgeKey, OnlyNames(k)
             PROVE  LET f == Of(nodes, k.dst)
                        g == Of(nodes, k.src)
                    IN  /\ IsProxy(g) => IsProxy(f) \/ f.ext = "srt"
                        /\ IsExport(g) /\ IsRaw(f) => f.mark = "role"
                        /\ g.mark = "index" => SameShot(f, g)
                        /\ f.mark = "index" /\ ~SameShot(f, g) => edges[k].st = "NEEDS_REVIEW"
    BY DEF NamesKeepRoles
<1>1. Fits(nodes, k, edges[k].st)
    BY DEF OnlyNames, InRoles
<1>2. InRole(Of(nodes, k.dst), Of(nodes, k.src), edges[k].st)
    BY <1>1 DEF OnlyNames, Fits
<1> QED BY <1>2 DEF InRole, OnlyNames

LEMMA SeqGrows ==
    ASSUME NEW S, NEW T, S \subseteq T, NEW s \in Seq(S)
    PROVE  s \in Seq(T)
<1>1. s \in [1..Len(s) -> S] /\ Len(s) \in Nat
    OBVIOUS
<1>2. s \in [1..Len(s) -> T]
    BY <1>1
<1> QED BY <1>1, <1>2

\* What is said of the rows there are stays true of more.
LEMMA RowsKept ==
    ASSUME nodes \in Table, KeepsRows(nodes, nodes')
    PROVE  /\ Existing \subseteq Existing' /\ Fitting \subseteq Fitting'
           /\ edges' = edges /\ InRoles(edges) => InRoles(edges)'
<1>1. ASSUME NEW k, NEW st, Fits(nodes, k, st)
      PROVE  Fits(nodes', k, st)
  <2>1. /\ Exists(nodes'[k.src]) /\ nodes'[k.src].path = nodes[k.src].path
        /\ Exists(nodes'[k.dst]) /\ nodes'[k.dst].path = nodes[k.dst].path
      BY <1>1 DEF Fits, KeepsRows
  <2>2. /\ Of(nodes', k.dst) = Of(nodes, k.dst)
        /\ Of(nodes', k.src) = Of(nodes, k.src)
      BY <2>1 DEF Of
  <2> QED BY <1>1, <2>1, <2>2 DEF Fits
<1>2. Existing \subseteq Existing'
    BY DEF Existing, KeepsRows
<1>3. Fitting \subseteq Fitting'
    BY <1>1 DEF Fitting
<1>4. edges' = edges /\ InRoles(edges) => InRoles(edges)'
    BY <1>1 DEF InRoles
<1> QED BY <1>2, <1>3, <1>4

LEMMA LineageKept ==
    ASSUME nodes \in Table, KeepsRows(nodes, nodes'), EdgesRight, UNCHANGED lineage
    PROVE  EdgesRight'
<1>1. edges' = edges /\ edges' \in EdgeTable /\ StatusTrue'
    BY StatusStays DEF EdgesRight, lineage
<1>2. Cyclic(edges)' <=> Cyclic(edges)
    BY <1>1 DEF Cyclic
<1>3. InRoles(edges)'
    BY <1>1, RowsKept DEF EdgesRight
<1> QED BY <1>1, <1>2, <1>3 DEF EdgesRight

LEMMA RolesSame ==
    ASSUME nodes' = nodes, InRoles(edges')
    PROVE  InRoles(edges)'
BY DEF InRoles

LEMMA LineageResolves ==
    ASSUME EdgesRight, NEW cs, cs \in Seq(Fitting), ResolveAndCommit(cs), nodes' = nodes
    PROVE  EdgesRight'
<1>1. cs \in Seq(ResolverCandidate)
  <2>1. Fitting \subseteq ResolverCandidate
      BY DEF Fitting
  <2> QED BY <2>1, SeqGrows
<1>2. edges' \in EdgeTable /\ StatusTrue' /\ ~ Cyclic(edges')
    BY <1>1, ResolveAndCommitKeeps DEF EdgesRight
<1>3. InRoles(edges')
    BY ResolvedInRole DEF EdgesRight, ResolveAndCommit
<1>4. InRoles(edges)'
    BY <1>3, RolesSame
<1>5. Cyclic(edges)' <=> Cyclic(edges')
    BY DEF Cyclic
<1> QED BY <1>2, <1>4, <1>5 DEF EdgesRight

LEMMA LineageReviewed ==
    ASSUME EdgesRight, PersonReviews
    PROVE  EdgesRight'
<1>1. nodes' = nodes
    BY DEF PersonReviews
<1>2. edges' \in EdgeTable /\ StatusTrue' /\ ~ Cyclic(edges')
    BY PersonReviewsKeeps DEF EdgesRight
<1>3. InRoles(edges')
    BY PersonKeepsRoles DEF EdgesRight
<1>4. InRoles(edges)'
    BY <1>1, <1>3, RolesSame
<1>5. Cyclic(edges)' <=> Cyclic(edges')
    BY DEF Cyclic
<1> QED BY <1>2, <1>4, <1>5 DEF EdgesRight

\* A scan that at most loses what it had to do.
LEMMA ScanKept ==
    ASSUME ScanRight, nodes \in Table, KeepsRows(nodes, nodes'),
           \A p \in Path : disk[p] # NoFile => disk'[p] # NoFile,
           DOMAIN scan' = DOMAIN scan, scan'.todo \subseteq scan.todo,
           scan'.job \in {scan.job, <<>>}, scan'.found \in {scan.found, <<>>},
           scan'.at = "look" => scan.at = "look" /\ scan'.job = scan.job
    PROVE  ScanRight'
<1>1. scan'.todo \subseteq {p \in Path : disk'[p] # NoFile}
    BY DEF ScanRight
<1>2. scan'.job \in Seq(Existing)' /\ scan'.found \in Seq(Fitting)'
  <2>1. /\ scan.job \in Seq(Existing') /\ scan.found \in Seq(Fitting')
      BY RowsKept, SeqGrows DEF ScanRight
  <2>2. <<>> \in Seq(Existing') /\ <<>> \in Seq(Fitting')
      OBVIOUS
  <2> QED BY <2>1, <2>2
<1> QED BY <1>1, <1>2 DEF ScanRight, NoScan

LEMMA UploadKept ==
    ASSUME UploadRight, nodes \in Table, KeepsRows(nodes, nodes'), upload' = upload
    PROVE  UploadRight'
<1>1. upload.found \in Seq(Fitting')
    BY RowsKept, SeqGrows DEF UploadRight
<1>2. upload.at # "idle" => upload.row \in Existing'
    BY RowsKept DEF UploadRight
<1> QED BY <1>1, <1>2 DEF UploadRight, NoUpload

LEMMA FilesKept ==
    ASSUME FilesStay, UNCHANGED nodes, UNCHANGED disk
    PROVE  FilesStay' /\ KeepsRows(nodes, nodes')
           /\ \A p \in Path : disk[p] # NoFile => disk'[p] # NoFile
BY DEF FilesStay, KeepsRows, Describes

----------------------------------------------------------------------------
\* The steps of a scan.

LEMMA StartScanKeeps ==
    ASSUME FamiliesInv, NEW kind, NEW loc, StartScan(kind, loc)
    PROVE  FamiliesInv'
<1>1. UNCHANGED nodes /\ UNCHANGED disk /\ UNCHANGED lineage /\ UNCHANGED upload
    BY DEF StartScan, library
<1>2. FilesStay' /\ KeepsRows(nodes, nodes') /\ nodes \in Table
    BY <1>1, FilesKept DEF FamiliesInv, FilesStay
<1>3. EdgesRight' /\ UploadRight'
    BY <1>1, <1>2, LineageKept, UploadKept DEF FamiliesInv
<1>4. ScanRight'
  <2>1. /\ DOMAIN scan' = DOMAIN NoScan /\ scan'.at = "walk" /\ scan'.job = <<>>
        /\ scan'.found = <<>> /\ scan'.todo \subseteq {p \in Path : disk[p] # NoFile}
      BY DEF StartScan, NoScan
  <2>2. scan'.todo \subseteq {p \in Path : disk'[p] # NoFile}
      BY <1>1, <2>1
  <2>3. <<>> \in Seq(Existing') /\ <<>> \in Seq(Fitting')
      OBVIOUS
  <2> QED BY <2>1, <2>2, <2>3 DEF ScanRight, NoScan
<1> QED BY <1>2, <1>3, <1>4 DEF FamiliesInv

LEMMA CommitSomeKeeps ==
    ASSUME FamiliesInv, CommitSome
    PROVE  FamiliesInv'
<1>1. PICK S \in SUBSET scan.todo : \E ps \in Orders(S) :
          LET rs   == [i \in DOMAIN ps |-> Processed(ps[i], disk[ps[i]])]
              took == [scan EXCEPT !.todo = @ \ S]
              kept == SelectSeq(ps, LAMBDA p : IsProject(About[p]))
          IN  /\ RoomFor(S)
              /\ IF CommitBatch(rs).ok
                   THEN /\ nodes' = CommitBatch(rs).nodes
                        /\ scan' = [took EXCEPT !.at = "fetch", !.batch = ps,
                                       !.sidecars = @ \o kept,
                                       !.fresh = @ \/ FreeIds(CommitBatch(rs).nodes) # FreeIds(nodes),
                                       !.read = @ \cup S]
                   ELSE UNCHANGED <<nodes, stat>> /\ scan' = took
    BY DEF CommitSome
<1>2. PICK ps \in Orders(S) :
          LET rs   == [i \in DOMAIN ps |-> Processed(ps[i], disk[ps[i]])]
              took == [scan EXCEPT !.todo = @ \ S]
              kept == SelectSeq(ps, LAMBDA p : IsProject(About[p]))
          IN  /\ RoomFor(S)
              /\ IF CommitBatch(rs).ok
                   THEN /\ nodes' = CommitBatch(rs).nodes
                        /\ scan' = [took EXCEPT !.at = "fetch", !.batch = ps,
                                       !.sidecars = @ \o kept,
                                       !.fresh = @ \/ FreeIds(CommitBatch(rs).nodes) # FreeIds(nodes),
                                       !.read = @ \cup S]
                   ELSE UNCHANGED <<nodes, stat>> /\ scan' = took
    BY <1>1
<1> DEFINE rs == [i \in DOMAIN ps |-> Processed(ps[i], disk[ps[i]])]
           out == CommitBatch(rs)
<1>3. disk' = disk /\ UNCHANGED lineage /\ UNCHANGED upload
    BY DEF CommitSome
<1>4. /\ DOMAIN scan' = DOMAIN scan /\ scan'.todo \subseteq scan.todo
      /\ scan'.job = scan.job /\ scan'.found = scan.found
      /\ scan'.at = "look" => scan.at = "look"
  <2>1. DOMAIN scan = DOMAIN NoScan
      BY DEF FamiliesInv, ScanRight
  <2> DEFINE took == [scan EXCEPT !.todo = @ \ S]
  <2>2. /\ DOMAIN took = DOMAIN scan /\ took.todo \subseteq scan.todo /\ took.job = scan.job
        /\ took.found = scan.found /\ took.at = scan.at
      BY <2>1 DEF NoScan
  <2> DEFINE next(sidecars, fresh, read) ==
                 [took EXCEPT !.at = "fetch", !.batch = ps, !.sidecars = sidecars,
                              !.fresh = fresh, !.read = read]
  <2>3. scan' = took \/ \E sidecars, fresh, read : scan' = next(sidecars, fresh, read)
      BY <1>2
  <2>4. ASSUME NEW sidecars, NEW fresh, NEW read
        PROVE  /\ DOMAIN next(sidecars, fresh, read) = DOMAIN took
               /\ next(sidecars, fresh, read).todo = took.todo
               /\ next(sidecars, fresh, read).job = took.job
               /\ next(sidecars, fresh, read).found = took.found
               /\ next(sidecars, fresh, read).at = "fetch"
    <3>1. {"at", "todo", "job", "found"} \subseteq DOMAIN took
        BY <2>1, <2>2 DEF NoScan
    <3> HIDE DEF took
    <3> QED BY <3>1
  <2> HIDE DEF took, next
  <2>5. CASE scan' = took
      BY <2>2, <2>5
  <2>6. CASE \E sidecars, fresh, read : scan' = next(sidecars, fresh, read)
    <3>1. PICK sidecars, fresh, read : scan' = next(sidecars, fresh, read)
        BY <2>6
    <3> QED BY <2>2, <2>4, <3>1
  <2> QED BY <2>3, <2>5, <2>6
<1>5. nodes' = out.nodes \/ nodes' = nodes
    BY <1>2
<1>6. S \in SUBSET Path /\ \A p \in S : disk[p] = BytesOf[p]
    BY DEF FamiliesInv, FilesStay, ScanRight
<1>7. Len(rs) = Cardinality(S) /\ \A i \in DOMAIN ps : Reads(rs[i], ps[i])
  <2>1. Cardinality(S) \in Nat /\ DOMAIN ps = 1..Cardinality(S)
        /\ \A i \in DOMAIN ps : ps[i] \in S
      BY <1>6, FamiliesAssumption, FS_Subset, FS_CardinalityType DEF Orders
  <2>2. rs \in Seq({rs[i] : i \in DOMAIN ps})
    <3>1. rs \in [1..Cardinality(S) -> {rs[i] : i \in DOMAIN ps}]
        BY <2>1
    <3> HIDE DEF rs, out
    <3> QED BY <2>1, <3>1, SeqDef
  <2>3. Len(rs) = Cardinality(S)
    <3>1. DOMAIN rs = 1..Cardinality(S)
        BY <2>1
    <3> HIDE DEF rs
    <3> QED BY <2>1, <2>2, <3>1
  <2>4. ASSUME NEW i \in DOMAIN ps PROVE Reads(rs[i], ps[i])
    <3>1. rs[i] = Processed(ps[i], BytesOf[ps[i]])
        BY <1>6, <2>1
    <3> QED BY <3>1 DEF Processed, HashedAs, Reads
  <2> QED BY <2>3, <2>4
<1>8. RoomFor(S)
    BY <1>2
<1>9. nodes' \in Table /\ Describes(nodes') /\ KeepsRows(nodes, nodes')
  <2>1. nodes \in Table /\ Describes(nodes)
      BY DEF FamiliesInv, FilesStay
  <2>2. out.nodes \in Table /\ Describes(out.nodes) /\ KeepsRows(nodes, out.nodes)
    <3> HIDE DEF rs
    <3> QED BY <1>6, <1>7, <1>8, <2>1, BatchFiles
  <2>3. KeepsRows(nodes, nodes)
      BY DEF KeepsRows
  <2> HIDE DEF out
  <2> QED BY <1>5, <2>1, <2>2, <2>3
<1>10. FilesStay' /\ nodes \in Table
    BY <1>3, <1>9 DEF FamiliesInv, FilesStay, Describes
<1>11. EdgesRight' /\ UploadRight' /\ ScanRight'
    BY <1>3, <1>4, <1>9, <1>10, LineageKept, UploadKept, ScanKept DEF FamiliesInv
<1> QED BY <1>10, <1>11 DEF FamiliesInv

\* A step that leaves rows and files alone keeps what is right of them.
LEMMA RestKept ==
    ASSUME FamiliesInv, UNCHANGED nodes, UNCHANGED disk
    PROVE  /\ nodes \in Table /\ KeepsRows(nodes, nodes') /\ FilesStay'
           /\ \A p \in Path : disk[p] # NoFile => disk'[p] # NoFile
           /\ UNCHANGED lineage => EdgesRight'
           /\ upload' = upload => UploadRight'
           /\ Existing' = Existing /\ Fitting' = Fitting
<1>1. FilesStay' /\ KeepsRows(nodes, nodes') /\ nodes \in Table
      /\ \A p \in Path : disk[p] # NoFile => disk'[p] # NoFile
    BY FilesKept DEF FamiliesInv, FilesStay
<1>2. Existing' = Existing /\ Fitting' = Fitting
    BY DEF Existing, Fitting, Fits
<1> QED BY <1>1, <1>2, LineageKept, UploadKept DEF FamiliesInv

LEMMA OnwardKeeps ==
    ASSUME DOMAIN scan = DOMAIN NoScan, NEW s, s = scan, scan' = Onward(s)
    PROVE  /\ DOMAIN scan' = DOMAIN scan /\ scan'.todo = scan.todo /\ scan'.job = <<>>
           /\ scan'.found = <<>> /\ scan'.at # "look"
BY DEF Onward, NoScan

LEMMA EndWalkKeeps ==
    ASSUME FamiliesInv, EndWalk
    PROVE  FamiliesInv'
<1>1. UNCHANGED nodes /\ UNCHANGED disk /\ UNCHANGED lineage /\ UNCHANGED upload
    BY DEF EndWalk, library
<1>2. /\ DOMAIN scan' = DOMAIN scan /\ scan'.todo = scan.todo /\ scan'.job = scan.job
      /\ scan'.found = scan.found /\ scan'.at # "look"
    BY DEF EndWalk, FamiliesInv, ScanRight, NoScan
<1> QED BY <1>1, <1>2, RestKept, ScanKept DEF FamiliesInv

LEMMA FetchKeeps ==
    ASSUME FamiliesInv, PlainRaws, Fetch
    PROVE  FamiliesInv'
<1> DEFINE live == LiveAt(nodes, Head(scan.batch))
           n == Oldest(live)
<1>1. UNCHANGED nodes /\ UNCHANGED disk /\ UNCHANGED lineage /\ UNCHANGED upload
    BY DEF Fetch, library
<1>2. ScanRight'
  <2>1. CASE live = {}
    <3>1. scan' = Onward(scan)
        BY <2>1 DEF Fetch
    <3>2. /\ DOMAIN scan' = DOMAIN scan /\ scan'.todo = scan.todo /\ scan'.job = <<>>
          /\ scan'.found = <<>> /\ scan'.at # "look"
        BY <3>1, OnwardKeeps DEF FamiliesInv, ScanRight
    <3> QED BY <1>1, <3>2, RestKept, ScanKept DEF FamiliesInv
  <2>2. CASE live # {}
    <3>1. /\ scan' = [scan EXCEPT !.at = "apply", !.job = <<n>>, !.leads = TRUE, !.found = Found(n)]
        BY <2>2 DEF Fetch
    <3>2. n \in live
        BY <2>2, OldestIn DEF LiveAt
    <3>3. n \in Existing /\ n \in Node /\ Exists(nodes[n])
        BY <3>2 DEF LiveAt, Live, Exists, Existing
    <3> HIDE DEF n
    <3>4. Found(n) \in Seq(Fitting)
        BY <3>3, FoundFits DEF FamiliesInv, FilesStay
    <3>5. <<n>> \in Seq(Existing)
        BY <3>3
    <3>6. /\ DOMAIN scan' = DOMAIN NoScan /\ scan'.todo = scan.todo /\ scan'.job = <<n>>
          /\ scan'.found = Found(n) /\ scan'.at = "apply"
        BY <3>1 DEF FamiliesInv, ScanRight, NoScan
    <3>7. scan'.todo \subseteq {p \in Path : disk'[p] # NoFile}
        BY <1>1, <3>6 DEF FamiliesInv, ScanRight
    <3>8. scan'.job \in Seq(Existing') /\ scan'.found \in Seq(Fitting')
        BY <1>1, <3>4, <3>5, <3>6, RestKept
    <3> QED BY <3>6, <3>7, <3>8 DEF ScanRight, NoScan
  <2> QED BY <2>1, <2>2
<1> QED BY <1>1, <1>2, RestKept DEF FamiliesInv

LEMMA ListSiblingsKeeps ==
    ASSUME FamiliesInv, ListSiblings
    PROVE  FamiliesInv'
<1> DEFINE sibs == Revisits(Head(scan.job), scan.revisited)
<1>1. UNCHANGED nodes /\ UNCHANGED disk /\ UNCHANGED lineage /\ UNCHANGED upload
    BY DEF ListSiblings, library
<1>2. ScanRight'
  <2>1. CASE sibs = {}
    <3>1. scan' = Onward(scan)
        BY <2>1 DEF ListSiblings
    <3>2. /\ DOMAIN scan' = DOMAIN scan /\ scan'.todo = scan.todo /\ scan'.job = <<>>
          /\ scan'.found = <<>> /\ scan'.at # "look"
        BY <3>1, OnwardKeeps DEF FamiliesInv, ScanRight
    <3> QED BY <1>1, <3>2, RestKept, ScanKept DEF FamiliesInv
  <2>2. CASE sibs # {}
    <3>1. scan' = [scan EXCEPT !.at = "look", !.job = ById(sibs), !.leads = FALSE,
                      !.revisited = IF scan.retry THEN @ ELSE @ \cup sibs]
        BY <2>2 DEF ListSiblings
    <3>2. sibs \in SUBSET Existing /\ sibs \in SUBSET Node
      <4>1. sibs \subseteq LiveRows(nodes)
          BY DEF Revisits, Unlinked
      <4>2. LiveRows(nodes) \subseteq Existing /\ Existing \subseteq Node
          BY DEF LiveRows, Existing, Live, Exists
      <4> QED BY <4>1, <4>2
    <3> HIDE DEF sibs
    <3>3. /\ IsFiniteSet(sibs) /\ Cardinality(sibs) \in Nat
          /\ ById(sibs) \in [1..Cardinality(sibs) -> sibs]
        BY <3>2, RowsById
    <3>4. Cardinality(sibs) # 0
        BY <2>2, <3>3, FS_EmptySet
    <3>5. ById(sibs) \in Seq(Existing) /\ ById(sibs) # <<>>
      <4>1. ById(sibs) \in [1..Cardinality(sibs) -> Existing]
          BY <3>2, <3>3
      <4> QED BY <3>3, <3>4, <4>1
    <3>6. /\ DOMAIN scan' = DOMAIN NoScan /\ scan'.todo = scan.todo /\ scan'.job = ById(sibs)
          /\ scan'.found = scan.found
        BY <3>1 DEF FamiliesInv, ScanRight, NoScan
    <3>7. /\ scan'.todo \subseteq {p \in Path : disk'[p] # NoFile}
          /\ scan'.found \in Seq(Fitting)
        BY <1>1, <3>6 DEF FamiliesInv, ScanRight
    <3>8. scan'.job \in Seq(Existing') /\ scan'.found \in Seq(Fitting')
        BY <1>1, <3>5, <3>6, <3>7, RestKept
    <3> QED BY <3>5, <3>6, <3>7, <3>8 DEF ScanRight, NoScan
  <2> QED BY <2>1, <2>2
<1> QED BY <1>1, <1>2, RestKept DEF FamiliesInv

LEMMA LookKeeps ==
    ASSUME FamiliesInv, PlainRaws, Look
    PROVE  FamiliesInv'
<1> DEFINE n == Head(scan.job)
<1>1. UNCHANGED nodes /\ UNCHANGED disk /\ UNCHANGED lineage /\ UNCHANGED upload
    BY DEF Look, library
<1>2. scan' = [scan EXCEPT !.at = "apply", !.found = Found(n)] /\ scan.at = "look"
    BY DEF Look
<1>3. n \in Existing
  <2>1. scan.job \in Seq(Existing) /\ scan.job # <<>>
      BY <1>2 DEF FamiliesInv, ScanRight
  <2> QED BY <2>1
<1> HIDE DEF n
<1>4. Found(n) \in Seq(Fitting)
    BY <1>3, FoundFits DEF FamiliesInv, FilesStay, Existing
<1>5. /\ DOMAIN scan' = DOMAIN NoScan /\ scan'.todo = scan.todo /\ scan'.job = scan.job
      /\ scan'.found = Found(n) /\ scan'.at = "apply"
    BY <1>2 DEF FamiliesInv, ScanRight, NoScan
<1>6. scan'.todo \subseteq {p \in Path : disk'[p] # NoFile} /\ scan'.job \in Seq(Existing)
    BY <1>1, <1>5 DEF FamiliesInv, ScanRight
<1>7. scan'.job \in Seq(Existing') /\ scan'.found \in Seq(Fitting')
    BY <1>1, <1>4, <1>5, <1>6, RestKept
<1>8. ScanRight'
    BY <1>5, <1>6, <1>7 DEF ScanRight, NoScan
<1> QED BY <1>1, <1>8, RestKept DEF FamiliesInv

LEMMA TailLeft ==
    ASSUME NEW S, NEW s \in Seq(S), Len(s) > 1
    PROVE  Tail(s) \in Seq(S) /\ Tail(s) # <<>>
<1>1. s # <<>> /\ Len(s) \in Nat
    BY LenProperties, EmptySeq
<1>2. Tail(s) \in Seq(S) /\ Len(Tail(s)) = Len(s) - 1
    BY <1>1, HeadTailProperties
<1>3. Len(Tail(s)) # 0
    BY <1>1, <1>2
<1>4. Len(<<>>) = 0
    BY EmptySeq
<1> QED BY <1>2, <1>3, <1>4

\* What is left of a job when its head is done.
LEMMA AppliedKeeps ==
    ASSUME FamiliesInv, UNCHANGED nodes, UNCHANGED disk, NEW ok \in BOOLEAN,
           \/ scan' = Applied(scan, ok)
           \/ scan' = [Applied(scan, ok) EXCEPT !.whole = FALSE]
    PROVE  ScanRight'
<1> DEFINE s == Applied(scan, ok)
<1>1. DOMAIN scan = DOMAIN NoScan /\ scan.job \in Seq(Existing)
    BY DEF FamiliesInv, ScanRight
<1>2. /\ DOMAIN s = DOMAIN NoScan /\ s.todo = scan.todo /\ s.found = <<>>
      /\ s.job \in Seq(Existing)
      /\ s.at = "look" => s.job # <<>>
  <2>1. CASE scan.leads /\ ok
    <3>1. s = [scan EXCEPT !.at = "list", !.found = <<>>]
        BY <2>1 DEF Applied
    <3> QED BY <1>1, <3>1 DEF NoScan
  <2>2. CASE ~ scan.leads /\ Len(scan.job) > 1
    <3>1. s = [scan EXCEPT !.at = "look", !.job = Tail(scan.job), !.found = <<>>]
        BY <2>2 DEF Applied
    <3>2. Tail(scan.job) \in Seq(Existing) /\ Tail(scan.job) # <<>>
        BY <1>1, <2>2, TailLeft
    <3> QED BY <1>1, <3>1, <3>2 DEF NoScan
  <2>3. CASE ~ (scan.leads /\ ok) /\ ~ (~ scan.leads /\ Len(scan.job) > 1)
    <3>1. s = Onward(scan)
        BY <2>3 DEF Applied
    <3>2. <<>> \in Seq(Existing)
        OBVIOUS
    <3> QED BY <1>1, <3>1, <3>2 DEF NoScan, Onward
  <2> QED BY <2>1, <2>2, <2>3
<1> HIDE DEF s
<1>3. /\ DOMAIN scan' = DOMAIN NoScan /\ scan'.todo = s.todo /\ scan'.found = s.found
      /\ scan'.job = s.job /\ scan'.at = s.at
  <2>1. scan' = s \/ scan' = [s EXCEPT !.whole = FALSE]
      BY DEF s
  <2> QED BY <1>2, <2>1 DEF NoScan
<1>4. scan'.todo \subseteq {p \in Path : disk'[p] # NoFile}
    BY <1>2, <1>3 DEF FamiliesInv, ScanRight
<1>5. scan'.job \in Seq(Existing') /\ scan'.found \in Seq(Fitting')
  <2>1. <<>> \in Seq(Fitting')
      OBVIOUS
  <2>2. Existing' = Existing
      BY DEF Existing
  <2> QED BY <1>2, <1>3, <2>1, <2>2
<1> QED BY <1>2, <1>3, <1>4, <1>5 DEF ScanRight, NoScan

LEMMA ApplyFoundKeeps ==
    ASSUME FamiliesInv, ApplyFound
    PROVE  FamiliesInv'
<1>1. UNCHANGED nodes /\ UNCHANGED disk /\ UNCHANGED upload
    BY DEF ApplyFound, library
<1>2. ResolveAndCommit(scan.found) /\ scan' = Applied(scan, TRUE)
    BY DEF ApplyFound
<1>3. EdgesRight'
    BY <1>1, <1>2, LineageResolves DEF FamiliesInv, ScanRight
<1>4. ScanRight'
    BY <1>1, <1>2, AppliedKeeps
<1> QED BY <1>1, <1>3, <1>4, RestKept DEF FamiliesInv

LEMMA ApplyFailsKeeps ==
    ASSUME FamiliesInv, ApplyFails
    PROVE  FamiliesInv'
<1>1. UNCHANGED nodes /\ UNCHANGED disk /\ UNCHANGED upload /\ UNCHANGED lineage
    BY DEF ApplyFails
<1>2. scan' = [Applied(scan, FALSE) EXCEPT !.whole = FALSE]
    BY DEF ApplyFails
<1>3. ScanRight'
    BY <1>1, <1>2, AppliedKeeps
<1> QED BY <1>1, <1>3, RestKept DEF FamiliesInv

----------------------------------------------------------------------------
\* What happens beside it.

LEMMA DisturbKeeps ==
    ASSUME FamiliesInv, nodes \in Table, KeepsRows(nodes, nodes'), Disturb,
           \A p \in Path : disk[p] # NoFile => disk'[p] # NoFile
    PROVE  ScanRight'
<1>1. /\ DOMAIN scan' = DOMAIN scan /\ scan'.todo = scan.todo /\ scan'.job = scan.job
      /\ scan'.found = scan.found /\ scan'.at = scan.at
    BY DEF FamiliesInv, ScanRight, NoScan, Disturb
<1> QED BY <1>1, ScanKept DEF FamiliesInv

LEMMA BesideType ==
    ASSUME NEW p \in DOMAIN Beside
    PROVE  p \in Path
BY FamiliesAssumption DEF Beside

LEMMA ArriveKeeps ==
    ASSUME FamiliesInv, NEW p \in DOMAIN Beside, Arrive(p)
    PROVE  FamiliesInv'
<1>1. UNCHANGED nodes /\ UNCHANGED lineage /\ UNCHANGED upload /\ Disturb
      /\ disk' = [disk EXCEPT ![p] = BytesOf[p]]
    BY DEF Arrive
<1>2. BytesOf[p] # NoFile
    BY BesideType, FamiliesAssumption, LibraryAssumption
<1>3. /\ \A q \in Path : disk'[q] \in {NoFile, BytesOf[q]}
      /\ DOMAIN disk' = Path
      /\ \A q \in Path : disk[q] # NoFile => disk'[q] # NoFile
    BY <1>1, <1>2 DEF FamiliesInv, FilesStay
<1>4. nodes \in Table /\ KeepsRows(nodes, nodes') /\ FilesStay'
    BY <1>1, <1>3 DEF FamiliesInv, FilesStay, KeepsRows, Describes
<1>5. EdgesRight' /\ UploadRight' /\ ScanRight'
    BY <1>1, <1>3, <1>4, LineageKept, UploadKept, DisturbKeeps DEF FamiliesInv
<1> QED BY <1>4, <1>5 DEF FamiliesInv

LEMMA UploadInsertsKeeps ==
    ASSUME FamiliesInv, NEW p \in DOMAIN Beside, UploadInserts(p)
    PROVE  FamiliesInv'
<1> DEFINE r == HashedAs(p, BytesOf[p], TRUE)
           k == NextId(nodes)
<1>1. /\ UNCHANGED lineage /\ Disturb /\ disk' = [disk EXCEPT ![p] = BytesOf[p]]
      /\ nodes' = InsertNewNode(nodes, r) /\ FreeIds(nodes) # {}
      /\ upload' = [upload EXCEPT !.at = "inserted", !.row = k]
    BY DEF UploadInserts
<1>2. BytesOf[p] # NoFile /\ p \in Path
    BY BesideType, FamiliesAssumption, LibraryAssumption
<1>3. /\ \A q \in Path : disk'[q] \in {NoFile, BytesOf[q]}
      /\ DOMAIN disk' = Path
      /\ \A q \in Path : disk[q] # NoFile => disk'[q] # NoFile
    BY <1>1, <1>2 DEF FamiliesInv, FilesStay
<1>4. Reads(r, p) /\ nodes \in Table /\ Describes(nodes)
    BY DEF HashedAs, Reads, FamiliesInv, FilesStay
<1> HIDE DEF r
<1>5. /\ nodes' \in Table /\ Describes(nodes') /\ KeepsRows(nodes, nodes')
      /\ k \in Node /\ Exists(nodes'[k])
    BY <1>1, <1>2, <1>4, InsertFiles DEF FreeIds
<1>6. FilesStay'
    BY <1>3, <1>5 DEF FilesStay, Describes
<1>7. EdgesRight' /\ ScanRight'
    BY <1>1, <1>3, <1>4, <1>5, LineageKept, DisturbKeeps DEF FamiliesInv
<1>8. UploadRight'
  <2> HIDE DEF k
  <2>1. /\ DOMAIN upload' = DOMAIN NoUpload /\ upload'.found = upload.found /\ upload'.row = k
      BY <1>1 DEF FamiliesInv, UploadRight, NoUpload
  <2>2. upload'.row \in Existing'
      BY <1>5, <2>1 DEF Existing
  <2>3. upload'.found \in Seq(Fitting')
      BY <1>4, <1>5, <2>1, RowsKept, SeqGrows DEF FamiliesInv, UploadRight
  <2> QED BY <2>1, <2>2, <2>3 DEF UploadRight, NoUpload
<1> QED BY <1>6, <1>7, <1>8 DEF FamiliesInv

LEMMA UploadLooksKeeps ==
    ASSUME FamiliesInv, PlainRaws, UploadLooks
    PROVE  FamiliesInv'
<1>1. UNCHANGED nodes /\ UNCHANGED disk /\ UNCHANGED lineage /\ Disturb
    BY DEF UploadLooks, library
<1>2. /\ upload.row \in Existing /\ DOMAIN upload = DOMAIN NoUpload
      /\ upload' = [upload EXCEPT !.at = "looked", !.found = Found(upload.row)]
    BY DEF UploadLooks, FamiliesInv, UploadRight
<1>3. Found(upload.row) \in Seq(Fitting)
    BY <1>2, FoundFits DEF FamiliesInv, FilesStay, Existing
<1>4. /\ DOMAIN upload' = DOMAIN NoUpload /\ upload'.found = Found(upload.row)
      /\ upload'.row = upload.row
    BY <1>2 DEF NoUpload
<1>5. upload'.found \in Seq(Fitting') /\ upload'.row \in Existing'
    BY <1>1, <1>2, <1>3, <1>4, RestKept
<1>6. UploadRight'
    BY <1>4, <1>5 DEF UploadRight, NoUpload
<1> QED BY <1>1, <1>6, RestKept, DisturbKeeps DEF FamiliesInv

LEMMA UploadResolvesKeeps ==
    ASSUME FamiliesInv, UploadResolves
    PROVE  FamiliesInv'
<1>1. UNCHANGED nodes /\ UNCHANGED disk /\ Disturb
      /\ ResolveAndCommit(upload.found) /\ upload' = NoUpload
    BY DEF UploadResolves, library
<1>2. EdgesRight'
    BY <1>1, LineageResolves DEF FamiliesInv, UploadRight
<1>3. UploadRight'
  <2>1. <<>> \in Seq(Fitting')
      OBVIOUS
  <2> QED BY <1>1, <2>1 DEF UploadRight, NoUpload
<1> QED BY <1>1, <1>2, <1>3, RestKept, DisturbKeeps DEF FamiliesInv

LEMMA ArchiveKeeps ==
    ASSUME FamiliesInv, NEW n \in Node, Archive(n)
    PROVE  FamiliesInv'
<1>1. UNCHANGED disk /\ UNCHANGED lineage /\ UNCHANGED upload /\ Disturb
      /\ nodes' = ArchiveMediaNode(nodes, n) /\ nodes[n].state = "ACTIVE"
    BY DEF Archive
<1>2. nodes \in Table /\ Describes(nodes)
    BY DEF FamiliesInv, FilesStay
<1>3. nodes' \in Table
    BY <1>1, <1>2 DEF ArchiveMediaNode, SetState, Table, Row, LifecycleState
<1>4. \A m \in Node : /\ nodes'[m].path = nodes[m].path /\ nodes'[m].fast = nodes[m].fast
                      /\ nodes'[m].full = nodes[m].full
                      /\ nodes'[m].state = IF m = n THEN "ARCHIVED" ELSE nodes[m].state
    BY <1>1, <1>2 DEF ArchiveMediaNode, SetState, Table, Row
<1>5. \A m \in Node : Exists(nodes'[m]) <=> Exists(nodes[m])
    BY <1>1, <1>4 DEF Exists
<1>6. Describes(nodes') /\ KeepsRows(nodes, nodes')
    BY <1>2, <1>4, <1>5 DEF Describes, KeepsRows
<1>7. FilesStay'
    BY <1>1, <1>3, <1>6 DEF FamiliesInv, FilesStay, Describes
<1>8. \A p \in Path : disk[p] # NoFile => disk'[p] # NoFile
    BY <1>1
<1> QED BY <1>1, <1>2, <1>6, <1>7, <1>8, LineageKept, UploadKept, DisturbKeeps DEF FamiliesInv

LEMMA ReviewsKeeps ==
    ASSUME FamiliesInv, Reviews
    PROVE  FamiliesInv'
<1>1. PersonReviews /\ Disturb /\ UNCHANGED upload /\ UNCHANGED nodes /\ UNCHANGED disk
    BY DEF Reviews, PersonReviews
<1> QED BY <1>1, LineageReviewed, RestKept, DisturbKeeps DEF FamiliesInv

----------------------------------------------------------------------------
\* The theorems.

\* The library a process starts with: its rows describe the files of their paths,
\* and what edges the resolvers supplied before are in their roles.
SoundLibrary ==
    /\ Describes(InitNodes)
    /\ \A k \in EdgeKey : InitEdges[k].by = "resolver" => Fits(InitNodes, k, InitEdges[k].st)

LEMMA FamiliesBegin ==
    ASSUME SoundLibrary, FamiliesInit
    PROVE  FamiliesInv
<1>1. PICK f \in Together : \E present \in {f.files, f.files \ f.late} :
          LibraryStarts(InitNodes, [p \in Path |-> IF p \in present THEN BytesOf[p] ELSE NoFile])
    BY DEF FamiliesInit
<1>2. PICK present : LibraryStarts(InitNodes,
                         [p \in Path |-> IF p \in present THEN BytesOf[p] ELSE NoFile])
    BY <1>1
<1>3. FilesStay
    BY <1>2, LibraryAssumption DEF LibraryStarts, FilesStay, SoundLibrary
<1>4. EdgesRight
  <2>1. edges = InitEdges /\ edges \in EdgeTable /\ StatusTrue /\ ~ Cyclic(edges)
      BY LineageInitTrue DEF FamiliesInit, LineageInit
  <2>2. nodes = InitNodes
      BY <1>2 DEF LibraryStarts
  <2>3. InRoles(edges)
      BY <2>1, <2>2 DEF InRoles, SoundLibrary
  <2> QED BY <2>1, <2>3 DEF EdgesRight
<1>5. <<>> \in Seq(Existing) /\ <<>> \in Seq(Fitting)
    OBVIOUS
<1>6. ScanRight /\ UploadRight
    BY <1>5 DEF FamiliesInit, ScanRight, UploadRight, NoScan, NoUpload
<1> QED BY <1>3, <1>4, <1>6 DEF FamiliesInv

LEMMA FamiliesStep ==
    ASSUME FamiliesInv, PlainRaws, [FamiliesNext]_familiesVars
    PROVE  FamiliesInv'
<1>1. CASE ScanStep
    BY <1>1, StartScanKeeps, CommitSomeKeeps, EndWalkKeeps, FetchKeeps, ListSiblingsKeeps,
       LookKeeps, ApplyFoundKeeps, ApplyFailsKeeps DEF ScanStep
<1>2. CASE World
    BY <1>2, ArriveKeeps, UploadInsertsKeeps, UploadLooksKeeps, UploadResolvesKeeps,
       ArchiveKeeps, ReviewsKeeps DEF World
<1>3. CASE UNCHANGED familiesVars
  <2>1. UNCHANGED nodes /\ UNCHANGED disk /\ UNCHANGED lineage /\ UNCHANGED upload /\ scan' = scan
      BY <1>3 DEF familiesVars, library
  <2> QED BY <2>1, RestKept, ScanKept DEF FamiliesInv
<1> QED BY <1>1, <1>2, <1>3 DEF FamiliesNext

LEMMA FamiliesAlways ==
    ASSUME PlainRaws, SoundLibrary
    PROVE  FamiliesSpec => []FamiliesInv
<1>1. FamiliesInit => FamiliesInv
    BY FamiliesBegin
<1>2. FamiliesInv /\ [FamiliesNext]_familiesVars => FamiliesInv'
    BY FamiliesStep
<1> QED BY <1>1, <1>2, PTL DEF FamiliesSpec

\* However files arrive, fall into batches and are looked at again, and whatever
\* uploads and people do beside the scans, no edge that only names speak for makes
\* a proxy the parent of its original, an export that of its raw, or a numbered
\* copy that of another file, and none accepts a numbered copy without a person:
\* FilenameStemResolver swaps and caps what it proposes by the names of both ends,
\* and the transaction of ResolveAndCommit, reviews and new rows keep it so. It
\* takes that no raw is itself named as a proxy, which the heuristic and the swap
\* of a raw with its export do not ask.
THEOREM NamesKept ==
    ASSUME PlainRaws, SoundLibrary
    PROVE  FamiliesSpec => []NamesKeepRoles
<1>1. FamiliesInv => NamesKeepRoles
    BY RolesFollow DEF FamiliesInv, EdgesRight
<1> QED BY <1>1, FamiliesAlways, PTL
=============================================================================
