------------------------------- MODULE Agent -------------------------------
(***************************************************************************)
(* The events and requests of paired workstations: event_queue and the     *)
(* drainer of internal/agent, the synchronous rebase and the Resolve       *)
(* snapshot of internal/httpapi, over the library and its lineage, next to *)
(* scans, sweeps and people.                                               *)
(*                                                                         *)
(* node_uuid[n] names row n: a device's name, or n itself for a row the    *)
(* server made.  Devices post their events in order (Script).              *)
(***************************************************************************)
EXTENDS Lineage

CONSTANTS
    Device,      \* paired devices (agent ids)
    Uuid,        \* the node uuids devices mint, integers above MaxNode
    NoDevice,
    Script,      \* what devices post, [Device -> Seq(SUBSET Payload)]: one of each set
    Rebases,     \* synchronous rebase requests, [Device -> SUBSET Payload]
    Snapshots,   \* Resolve snapshots, [agent, uuid, path, keep, guarded]
    Guesses,     \* what the resolvers find with every row live, a sequence of candidates
    Virtual,     \* the paths below virtual locations
    OwnVirtual,  \* [Device -> SUBSET Path]: virtual paths with its segment, or none
    NoFast,      \* a NULL fast_hash
    MaxRetries,
    BatchSize,
    Foreign      \* what other programs may write: <<path, content or NoFile>>

VARIABLES
    node_uuid, \* the uuid of each row
    creator,   \* node_creators
    alias,     \* node_uuid_aliases
    author,    \* the device that attached an edge, which no table records
    queue,     \* event_queue, in order of created_at and id
    posted,    \* how many events each device has posted
    drainer,   \* the pass of the drainer
    scopes,    \* resolve_timeline_scopes: <<device, node>>
    lost,      \* events whose outcome could not be written
    refreshed  \* a snapshot has switched an inactive edge back on

ids == <<node_uuid, creator, alias, author>>
outside == <<posted, scopes, refreshed>>
vars == <<library, lineage, ids, queue, posted, drainer, scopes, lost, refreshed>>

\* A device's payload; which fields count depends on its type.
Payload == [type : {"created", "edge", "moved", "deleted", "rebased", "virtual"},
            uuid : Uuid, path : Path, content : Content, hashed : BOOLEAN,
            src : Uuid \cup Node, dst : Uuid \cup Node, rel : {k.rel : k \in EdgeKey},
            tier : 1..2, conf : 1..Certain]

ASSUME AgentAssumption ==
    /\ IsFiniteSet(Uuid) /\ Uuid \cap Node = {} /\ NoDevice \notin Device
    /\ Script \in [Device -> Seq(SUBSET Payload)]
    /\ Rebases \in [Device -> SUBSET Payload]
    /\ Snapshots \subseteq [agent : Device, uuid : Uuid, path : Path,
                             keep : SUBSET (Uuid \cup Node), guarded : SUBSET (Uuid \cup Node)]
    /\ Guesses \in Seq([key : EdgeKey, tier : 1..3, conf : 1..Certain])
    /\ \A k \in EdgeKey : InitEdges[k].by # "device"
    /\ Virtual \subseteq Path
    /\ NoFast \in FastHash /\ \A c \in Content : FastOf[c] # NoFast
    /\ MaxRetries \in Nat \ {0} /\ BatchSize \in Nat \ {0}

Event == [agent : Device, payload : Payload,
          st : {"PENDING", "PROCESSED", "FAILED"}, retries : 0..MaxRetries, due : BOOLEAN]

\* todo: the rows the pass listed, with their retry counts as listed.
Idle == [phase |-> "idle", todo |-> <<>>, outcome |-> "none", made |-> 0]

NoAlias == [node |-> 0, agent |-> NoDevice]

TypeOK ==
    /\ nodes \in Table /\ Schema(nodes) /\ stat \in [Node -> File] /\ disk \in [Path -> File]
    /\ LineageType
    /\ node_uuid \in [Node -> Node \cup Uuid]
    /\ \A m, n \in Node : node_uuid[m] = node_uuid[n] => m = n
    /\ creator \in [Node -> Device \cup {NoDevice}]
    /\ alias \in [Uuid -> [node : 0..MaxNode, agent : Device \cup {NoDevice}]]
    /\ author \in [EdgeKey -> Device \cup {NoDevice}]
    /\ queue \in Seq(Event) /\ posted \in [Device -> Nat]
    /\ drainer \in [phase : {"idle", "run", "settle", "resolve"},
                    todo : Seq([at : DOMAIN queue, retries : 0..MaxRetries]),
                    outcome : {"none", "fatal", "retry"}, made : 0..MaxNode]
    /\ scopes \subseteq Device \X Node
    /\ lost \subseteq DOMAIN queue /\ refreshed \in BOOLEAN
    /\ mishaps \in 0..MaxMishap

Init ==
    /\ LibraryInit /\ LineageInit
    /\ node_uuid = [n \in Node |-> n]
    /\ creator = [n \in Node |-> NoDevice]
    /\ alias = [u \in Uuid |-> NoAlias]
    /\ author = [k \in EdgeKey |-> NoDevice]
    /\ queue = <<>> /\ posted = [d \in Device |-> 0]
    /\ drainer = Idle
    /\ scopes = {} /\ lost = {} /\ refreshed = FALSE

----------------------------------------------------------------------------
\* What applying a payload makes of the store.
Store == [nodes |-> nodes, stat |-> stat, disk |-> disk, edges |-> edges,
          uuid |-> node_uuid, creator |-> creator, alias |-> alias, author |-> author,
          end |-> "done", made |-> 0, changed |-> {}]

Refuse == [Store EXCEPT !.end = "fatal"]
Retry  == [Store EXCEPT !.end = "retry"]

\* A statement that breaks the schema: "constraint failed" is in the fatal set.
Checked(s) == IF Schema(s.nodes) THEN s ELSE Refuse

\* GetMediaNodeByUUID
Named(u) == {n \in Node : Exists(nodes[n]) /\ node_uuid[n] = u}

\* The node an alias of device a leads to.
Aliased(a, u) ==
    IF u \in Uuid /\ Named(u) = {} /\ alias[u].node # 0 /\ alias[u].agent = a
      THEN {alias[u].node} ELSE {}

\* LookupNodeByUUID
Lookup(a, u) == Named(u) \cup Aliased(a, u)

The(S) == CHOOSE n \in S : TRUE

\* RequireNodeOwner
Owns(a, n) == creator[n] = a

FullOf(p) == IF p.hashed THEN p.content ELSE NoHash

\* recordContentAlias: first writer wins.
RecordAlias(a, p) ==
    [Store EXCEPT !.alias[p.uuid] =
        IF @.node # 0 THEN @ ELSE [node |-> The(Owners(nodes, FullOf(p))), agent |-> a]]

\* InsertMediaNode with SetNodeCreator and RecordFullHashSource
InsertFor(a, p, fast, full) ==
    LET n == NextId(nodes)
        t == InsertMediaNode(nodes, p.path, fast, full, NoProvenance)
    IN  Checked([Store EXCEPT !.nodes = RecordFullHashSource(t, n, full, "AGENT"),
                              !.stat[n] = IF fast = NoFast THEN NoFile ELSE p.content,
                              !.uuid[n] = p.uuid, !.creator[n] = a, !.made = n])

\* Content the library has already becomes an alias, anything else a row.
Introduce(a, p) ==
    IF FullOf(p) # NoHash /\ Owners(nodes, FullOf(p)) # {}
      THEN RecordAlias(a, p)
      ELSE InsertFor(a, p, FastOf[p.content], FullOf(p))

\* applyNodeCreated
NodeCreated(a, p) == IF Lookup(a, p.uuid) # {} THEN Store ELSE Introduce(a, p)

\* An edge to a row of somebody else waits for review.
VerdictFor(a, n, p) == IF Owns(a, n) THEN Verdict(p.tier, p.conf) ELSE "NEEDS_REVIEW"

\* applyEdgeAttached
EdgeAttached(a, p) ==
    LET src == The(Lookup(a, p.src))
        dst == The(Lookup(a, p.dst))
        k   == [src |-> src, dst |-> dst, rel |-> p.rel]
    IN  IF p.conf < Floor THEN Refuse
        ELSE IF Lookup(a, p.src) = {} \/ Lookup(a, p.dst) = {} THEN Retry
        ELSE IF WouldCreateCycle(edges, src, dst) THEN Refuse
        ELSE [Store EXCEPT
                !.edges = CreateMediaEdge(edges, k, NewEdge(VerdictFor(a, dst, p), p.conf, "device")),
                !.author = IF edges[k].st = "NONE" THEN [author EXCEPT ![k] = a] ELSE author,
                !.changed = {dst}]

\* resolveRebaseTarget: bytes must be in the archive before a row can point there.
TargetReady(path) == LocOf[path] \in Tier3 => disk[path] # NoFile

\* FullHashUpdate: an empty hash is filled, another hash is not overwritten.
HashConflict(n, p) ==
    FullOf(p) # NoHash /\ nodes[n].full # NoHash /\ nodes[n].full # FullOf(p)

\* RebaseNodePathByUUID: whatever state the row is in, it becomes ACTIVE.
RebaseByUUID(n, path) == [nodes EXCEPT ![n].path = path, ![n].state = "ACTIVE"]

Retired(n) == nodes[n].state \in {"ARCHIVED", "TRASHED"}

\* applyNodeMoved
NodeMoved(a, p) ==
    LET n == The(Named(p.uuid))
    IN  CASE Lookup(a, p.uuid) = {} -> Retry
          [] Aliased(a, p.uuid) # {} -> Store
          [] Named(p.uuid) # {} ->
                IF Retired(n) \/ ~Owns(a, n) THEN Refuse
                ELSE IF ~TargetReady(p.path) THEN Retry
                ELSE Checked([Store EXCEPT !.nodes = RebaseByUUID(n, p.path)])

\* Mutant: only an archived row is left alone.
RebaseTrashed(a, n, p) ==
    IF nodes[n].state = "ARCHIVED" \/ ~Owns(a, n) \/ HashConflict(n, p) THEN Refuse
    ELSE Checked([Store EXCEPT !.nodes = RebaseByUUID(n, p.path)])

\* applyPathRebased and handleAgentRebase on a row that is there.
RebaseKnown(a, n, p) ==
    LET moved  == RebaseByUUID(n, p.path)
        hashed == RecordFullHashSource(UpdateMediaNodeFullHash(moved, n, FullOf(p)),
                                       n, FullOf(p), "AGENT")
    IN  IF Retired(n) \/ ~Owns(a, n) \/ HashConflict(n, p) THEN Refuse
        ELSE IF ~Schema(moved) THEN Refuse
        ELSE Checked([Store EXCEPT !.nodes =
                 IF FullOf(p) # NoHash /\ nodes[n].full = NoHash THEN hashed ELSE moved])

\* applyPathRebased
PathRebased(a, p) ==
    CASE Aliased(a, p.uuid) # {} -> Store
      [] Aliased(a, p.uuid) = {} ->
            IF ~TargetReady(p.path) THEN Retry
            ELSE IF Named(p.uuid) # {} THEN RebaseKnown(a, The(Named(p.uuid)), p)
            ELSE Introduce(a, p)

\* purgeLinkedExports
CascadeExports(n) ==
    {k.dst : k \in {x \in EdgeKey :
        /\ x.src = n /\ x.rel = "FINAL_EXPORT" /\ Accepted(edges[x])
        /\ nodes[x.dst].state \notin {"TRASHED", "MISSING"}
        /\ LocOf[nodes[x.dst].path] \notin Tier3 /\ nodes[x.dst].path \notin Virtual}}

\* TrashAssetTx, keepExports false: rows and files of n and its exports.
Trashed(n) ==
    LET gone == {n} \cup CascadeExports(n)
        Emptied(q) == \E m \in gone : nodes[m].path = q /\ LocOf[q] \notin Tier3
    IN  [Store EXCEPT
            !.nodes = [m \in Node |-> IF m \in gone THEN [nodes[m] EXCEPT !.state = "TRASHED"]
                                      ELSE nodes[m]],
            !.disk = [q \in Path |-> IF Emptied(q) THEN NoFile ELSE disk[q]]]

\* applyNodeDeleted
NodeDeleted(a, p) ==
    LET n == The(Named(p.uuid))
    IN  CASE Lookup(a, p.uuid) = {} -> Retry
          [] Aliased(a, p.uuid) # {} -> Store
          [] Named(p.uuid) # {} ->
                IF ~Owns(a, n) THEN Refuse
                ELSE IF Retired(n) THEN Store ELSE Checked(Trashed(n))

\* applyVirtualNodeCreated: a path its own device named before is reused, and
\* its row resolved again.
VirtualNodeCreated(a, p) ==
    LET made == InsertFor(a, p, NoFast, NoHash)
    IN  IF Named(p.uuid) # {} THEN Store
        ELSE IF p.path \notin Virtual THEN Refuse
        ELSE IF made.end = "done" THEN made
        ELSE IF p.path \in OwnVirtual[a]
               THEN [Store EXCEPT !.made = The(LiveAt(nodes, p.path))]
               ELSE Refuse

\* applyEvent
Apply(a, p) ==
    CASE p.type = "created" -> NodeCreated(a, p)
      [] p.type = "edge"    -> EdgeAttached(a, p)
      [] p.type = "moved"   -> NodeMoved(a, p)
      [] p.type = "deleted" -> NodeDeleted(a, p)
      [] p.type = "rebased" -> PathRebased(a, p)
      [] p.type = "virtual" -> VirtualNodeCreated(a, p)

\* Bound: a row is left to insert.
Room == FreeIds(nodes) # {}

\* A transaction that leaves s.
Commits(s) ==
    /\ Room
    /\ nodes' = s.nodes /\ stat' = s.stat /\ disk' = s.disk
    /\ edges' = s.edges /\ status' = Recomputed(s.edges, s.changed)
    /\ node_uuid' = s.uuid /\ creator' = s.creator /\ alias' = s.alias /\ author' = s.author

----------------------------------------------------------------------------
\* handleAgentEvent.  A repeated post finds the row of its event uuid, before
\* the insert or, by the unique index, after it.
Post(a) ==
    /\ posted[a] < Len(Script[a])
    /\ posted' = [posted EXCEPT ![a] = @ + 1]
    /\ \E p \in Script[a][posted[a] + 1] :
          queue' = Append(queue, [agent |-> a, payload |-> p, st |-> "PENDING",
                                  retries |-> 0, due |-> TRUE])
    /\ UNCHANGED <<library, lineage, ids, drainer, scopes, lost, refreshed>>

Due == {i \in DOMAIN queue : queue[i].st = "PENDING" /\ queue[i].due}

\* Mutant: the newest events first.
NewestFirst(S) ==
    [r \in 1..Cardinality(S) |-> CHOOSE i \in S : Cardinality({j \in S : j > i}) = r - 1]

\* The numbers of S in increasing order: ORDER BY created_at, id.
OldestFirst(S) ==
    [r \in 1..Cardinality(S) |-> CHOOSE i \in S : Cardinality({j \in S : j < i}) = r - 1]

\* ProcessPending lists a batch of due rows; DrainAll repeats it.
List ==
    /\ drainer.phase = "idle" /\ Due # {}
    /\ LET due  == OldestFirst(Due)
           rows == SubSeq(due, 1, IF Len(due) < BatchSize THEN Len(due) ELSE BatchSize)
       IN  drainer' = [Idle EXCEPT !.phase = "run",
                          !.todo = [i \in DOMAIN rows |->
                                      [at |-> rows[i], retries |-> queue[rows[i]].retries]]]
    /\ UNCHANGED <<library, lineage, ids, queue, outside, lost>>

\* The rest of the batch.
Advance(d) == IF Len(d.todo) = 1 THEN Idle
              ELSE [Idle EXCEPT !.phase = "run", !.todo = Tail(d.todo)]

\* One event and its PROCESSED mark, in one transaction.  A rollback puts the
\* files back.
Process ==
    LET i == drainer.todo[1].at
        s == Apply(queue[i].agent, queue[i].payload)
        Failed(how) ==
            /\ drainer' = [drainer EXCEPT !.phase = "settle", !.outcome = how]
            /\ UNCHANGED <<nodes, stat, disk, lineage, ids, queue>>
    IN  /\ drainer.phase = "run"
        /\ \/ /\ s.end = "done"
              /\ Commits(s)
              /\ queue' = [queue EXCEPT ![i].st = "PROCESSED"]
              /\ drainer' = IF s.made # 0
                              THEN [drainer EXCEPT !.phase = "resolve", !.made = s.made]
                              ELSE Advance(drainer)
              /\ UNCHANGED mishaps
           \/ s.end # "done" /\ Failed(s.end) /\ UNCHANGED mishaps
           \/ Mishap /\ Failed("retry")
        /\ UNCHANGED <<outside, lost>>

\* Fatal, or the last of maxRetries attempts.
GivesUp(item) == drainer.outcome = "fatal" \/ item.retries + 1 >= MaxRetries

\* Mutant: the attempt is not counted.
Uncounted(e) == [e EXCEPT !.due = FALSE]

\* ScheduleAgentEventRetry
Retried(e) == [e EXCEPT !.retries = @ + 1, !.due = FALSE]

\* MarkAgentEventFailed or ScheduleAgentEventRetry; the write may fail.
Settle ==
    LET item == drainer.todo[1]
    IN  /\ drainer.phase = "settle"
        /\ \/ /\ queue' = [queue EXCEPT ![item.at] =
                     IF GivesUp(item) THEN [@ EXCEPT !.st = "FAILED"]
                     ELSE Retried(@)]
              /\ UNCHANGED <<lost, mishaps>>
           \/ Mishap /\ lost' = lost \cup {item.at} /\ UNCHANGED queue
        /\ drainer' = Advance(drainer)
        /\ UNCHANGED <<nodes, stat, disk, lineage, ids, outside>>

\* The candidates found for node n: the other end is looked up among live rows.
Proposed(n, g) ==
    /\ n \in {g.key.src, g.key.dst}
    /\ g.conf >= Floor
    /\ \A m \in {g.key.src, g.key.dst} \ {n} : Live(nodes[m])

Candidates(n) ==
    LET at == OldestFirst({i \in DOMAIN Guesses : Proposed(n, Guesses[i])})
    IN  [r \in DOMAIN at |-> Guesses[at[r]]]

\* The row an event made gets its edges, in a transaction of its own that is
\* not repeated when it fails.
Resolve ==
    /\ drainer.phase = "resolve"
    /\ \/ ResolveAndCommit(Candidates(drainer.made)) /\ UNCHANGED mishaps
       \/ Mishap /\ UNCHANGED lineage
    /\ drainer' = Advance(drainer)
    /\ UNCHANGED <<nodes, stat, disk, ids, queue, outside, lost>>

\* next_attempt_at passes.
Elapse(i) ==
    /\ i \in DOMAIN queue /\ queue[i].st = "PENDING" /\ ~queue[i].due
    /\ queue' = [queue EXCEPT ![i].due = TRUE]
    /\ UNCHANGED <<library, lineage, ids, drainer, outside, lost>>

\* A shutdown or crash between two events; the next start drains at once.
Restart ==
    /\ drainer # Idle /\ Mishap
    /\ drainer' = Idle
    /\ UNCHANGED <<nodes, stat, disk, lineage, ids, queue, outside, lost>>

----------------------------------------------------------------------------
\* handleAgentRebase.  Unlike an event, it records no alias and is not retried.
SyncRebase(a, p) ==
    LET known == Named(p.uuid)
        s == CASE Aliased(a, p.uuid) # {} -> Store
               [] Aliased(a, p.uuid) = {} ->
                     IF ~TargetReady(p.path) THEN Retry
                     ELSE IF known # {} THEN RebaseKnown(a, The(known), p)
                     ELSE IF FullOf(p) # NoHash /\ Owners(nodes, FullOf(p)) # {} THEN Refuse
                     ELSE InsertFor(a, p, FastOf[p.content], FullOf(p))
    IN  /\ Mishap
        /\ s.end = "done" /\ Commits(s)
        /\ UNCHANGED <<queue, drainer, outside, lost>>

\* reconcileResolveTimeline: the edges into timeline tl become those from keep;
\* edges whose media the client could not resolve (guarded) stay.
Sidecar(n, tl) == [src |-> n, dst |-> tl, rel |-> "PROJECT_SIDECAR"]

ReconciledEdge(t, k, tl, keep, guarded) ==
    CASE k.dst # tl \/ k.rel # "PROJECT_SIDECAR" -> t[k]
      [] k = Sidecar(k.src, tl) /\ k.src \in keep ->
            IF t[k].st = "NONE" THEN NewEdge("AUTO_ACCEPTED", Certain, "snapshot")
            ELSE RefreshResolveEdge(t, k)[k]
      [] k = Sidecar(k.src, tl) /\ k.src \notin keep ->
            IF k.src \in guarded THEN t[k] ELSE InactivateResolveEdge(t, k)[k]

Reconcile(t, tl, keep, guarded) ==
    [k \in EdgeKey |-> ReconciledEdge(t, k, tl, keep, guarded)]

SnapshotConflict(t, tl, keep) ==
    \E n \in keep :
        \/ ~Live(nodes[n])
        \/ n = tl
        \/ t[Sidecar(n, tl)].st # "NONE" /\ t[Sidecar(n, tl)].by # "snapshot"
        \/ t[Sidecar(n, tl)].st = "NONE" /\ n \in Descendants(t, tl)

\* AgentCreatedVirtualNode
CreatedVirtual(a, u) ==
    \E i \in DOMAIN queue :
        /\ queue[i].agent = a /\ queue[i].st = "PROCESSED"
        /\ queue[i].payload.type = "virtual" /\ queue[i].payload.uuid = u

\* handleResolveSnapshot with one timeline r.uuid at r.path; the other
\* timelines of the scope have lost their members.
Snapshot(r) ==
    LET known  == Named(r.uuid)
        tl     == IF known # {} THEN The(known) ELSE NextId(nodes)
        rows   == IF known # {} THEN nodes
                  ELSE InsertMediaNode(nodes, r.path, NoFast, NoHash, NoProvenance)
        keep   == UNION {Named(u) : u \in r.keep}
        held   == UNION {Named(u) : u \in r.guarded}
        others == {n \in Node : <<r.agent, n>> \in scopes /\ n # tl}
        mine   == Reconcile(edges, tl, keep, held)
        after  == [k \in EdgeKey |->
                     IF k.dst \in others THEN Reconcile(mine, k.dst, {}, {})[k] ELSE mine[k]]
    IN  /\ Mishap /\ Room
        /\ Schema(rows)
        /\ known = {} \/ /\ nodes[tl].path = r.path
                         /\ <<r.agent, tl>> \in scopes \/ CreatedVirtual(r.agent, r.uuid)
        /\ \A u \in r.keep : Named(u) # {}
        /\ ~SnapshotConflict(edges, tl, keep)
        /\ nodes' = rows /\ node_uuid' = [node_uuid EXCEPT ![tl] = r.uuid]
        /\ edges' = after /\ status' = Recomputed(after, others \cup {tl})
        /\ scopes' = scopes \cup {<<r.agent, tl>>}
        /\ refreshed' = (refreshed \/ \E k \in EdgeKey :
                            edges[k].st # "NONE" /\ ~edges[k].on /\ after[k].on)
        /\ UNCHANGED <<stat, disk, creator, alias, author, queue, posted, drainer, lost>>
----------------------------------------------------------------------------
\* A scan of one file: processFile and commitOne.  Rows are kept free for the
\* devices' uuids.
Scan(p) ==
    LET out == CommitBatch(<<Processed(p, disk[p])>>)
    IN  /\ disk[p] # NoFile /\ p \notin Virtual
        /\ Cardinality(FreeIds(nodes)) > Cardinality(Uuid)
        /\ out.ok
        /\ nodes' = out.nodes /\ stat' = out.stat
        /\ UNCHANGED <<disk, mishaps, lineage, ids, queue, drainer, outside, lost>>

\* resolveEdgesForBatch: every scan resolves the rows it has seen.
ScanResolves(n) ==
    /\ Live(nodes[n])
    /\ ResolveAndCommit(Candidates(n))
    /\ UNCHANGED <<library, ids, queue, drainer, outside, lost>>

\* The sweep of a scan; virtual locations are not scanned.
Sweep(n) ==
    /\ nodes[n].state = "ACTIVE"
    /\ nodes[n].path \notin Virtual /\ disk[nodes[n].path] = NoFile
    /\ nodes' = MarkNodeMissing(nodes, n)
    /\ UNCHANGED <<stat, disk, mishaps, lineage, ids, queue, drainer, outside, lost>>

\* A person trashes or archives an asset.
Retire(n) ==
    /\ Live(nodes[n]) /\ Mishap
    /\ \/ /\ Schema(Trashed(n).nodes)
          /\ nodes' = Trashed(n).nodes /\ disk' = Trashed(n).disk
       \/ nodes' = ArchiveMediaNode(nodes, n) /\ UNCHANGED disk
    /\ UNCHANGED <<stat, lineage, ids, queue, drainer, outside, lost>>

\* Another program, or a device's file copy.
Write(p, c) ==
    /\ <<p, c>> \in Foreign /\ disk[p] # c
    /\ Mishap
    /\ disk' = [disk EXCEPT ![p] = c]
    /\ UNCHANGED <<nodes, stat, lineage, ids, queue, drainer, outside, lost>>

DrainerStep == List \/ Process \/ Settle \/ Resolve

DeviceStep(a) ==
    \/ Post(a)
    \/ \E p \in Rebases[a] : SyncRebase(a, p)

Next ==
    \/ DrainerStep
    \/ Restart
    \/ \E i \in DOMAIN queue : Elapse(i)
    \/ \E a \in Device : DeviceStep(a)
    \/ \E r \in Snapshots : Snapshot(r)
    \/ PersonReviews /\ UNCHANGED <<ids, queue, drainer, outside, lost>>
    \/ \E n \in Node : ScanResolves(n) \/ Sweep(n) \/ Retire(n)
    \/ \E p \in Path : Scan(p)
    \/ \E p \in Path, c \in File : Write(p, c)

Spec == Init /\ [][Next]_vars

\* The drainer's goroutine runs, and the clock reaches next_attempt_at.  This is
\* WF_vars(DrainerStep) with the condition that enables it written out.
FairSpec ==
    /\ Spec
    /\ []<>(drainer = Idle /\ Due = {}) \/ []<><<DrainerStep>>_vars
    /\ WF_vars(\E i \in DOMAIN queue : Elapse(i))

----------------------------------------------------------------------------
\* A person's decision on an edge is undone by a person only: resolvers, scans,
\* devices and snapshots leave CONFIRMED and REJECTED edges as they are
\* (UpsertMediaEdge, InactivateResolveEdge, CreateMediaEdge).
HumanDecides ==
    [][PersonReviews \/ \A k \in EdgeKey : Reviewed(edges[k]) => edges'[k] = edges[k]]_vars

\* graph_status is what the row's edges make of it, whichever of the resolvers,
\* devices, snapshots and people touched them last.
StatusAgrees == \A n \in Node : status[n] = StatusOf(edges, n)

\* Every edge is checked against the active edges before it is put in, in the
\* same transaction: no cycle arises, unless a snapshot has switched an edge
\* back on, which nothing checks (agent_resolve_snapshot.go:377).
NoOtherCycle == refreshed \/ ~Cyclic(edges)

\* Device a owns the target of edge k, or somebody else stands for the edge: a
\* person, a resolver, or another device that attached it.
Vouches(a, k) ==
    \/ creator[k.dst] = a
    \/ edges[k].by # "device" \/ author[k] # a
    \/ edges[k].st = "CONFIRMED"

\* What an event of a device changes in rows that are there: live rows the
\* device itself created, and the exports trashed with them along edges
\* somebody else vouches for.  In particular no late event brings back what was
\* trashed or archived meanwhile, and none reaches through an alias.
DevicesKeepOut ==
    [][\A i \in DOMAIN queue : queue[i].st # queue'[i].st =>
         \A n \in Node : Exists(nodes[n]) /\ nodes'[n] # nodes[n] =>
            \/ Live(nodes[n]) /\ creator[n] = queue[i].agent
            \/ /\ nodes'[n].state = "TRASHED"
               /\ \E k \in EdgeKey :
                     k.dst = n /\ creator[k.src] = queue[i].agent /\ Vouches(queue[i].agent, k)]_vars

\* Events take effect in the order they were posted: an event is applied after
\* a later one only if it failed before, or its failure could not be written.
AppliedInOrder ==
    [][\A i, j \in DOMAIN queue :
         /\ i < j /\ queue[j].st = "PROCESSED"
         /\ queue[i].st = "PENDING" /\ queue'[i].st = "PROCESSED"
         => queue[i].retries > 0 \/ i \in lost]_vars

\* Every event is applied or given up: no poisoned event blocks the queue, and
\* no retry goes on for ever.
EventsSettle == <>[](\A i \in DOMAIN queue : queue[i].st # "PENDING")
=============================================================================
