------------------------------ MODULE Lineage ------------------------------
(***************************************************************************)
(* The lineage of a library: what internal/graph does with the candidates  *)
(* of its resolvers, and what people do to edges through internal/httpapi. *)
(* A candidate is [key, tier, conf].                                       *)
(***************************************************************************)
EXTENDS Library, EdgeStore

CONSTANTS
    Floor,       \* NeedsReviewFloor
    AcceptAt,    \* [1..3 -> 1..Certain]: AutoAcceptThresholdForTier
    ManualKey,   \* the edges people draw
    InitEdges

ASSUME LineageAssumption ==
    /\ \A k \in EdgeKey : k.src \in Node /\ k.dst \in Node
    /\ Floor \in 1..Certain /\ AcceptAt \in [1..3 -> 1..Certain]
    /\ ManualKey \subseteq EdgeKey
    /\ InitEdges \in EdgeTable /\ ~Cyclic(InitEdges)

VARIABLES
    edges,     \* media_edges
    status     \* graph_status of each row

lineage == <<edges, status>>

GraphStatus == {"UNLINKED", "NEEDS_REVIEW", "LINKED"}

LineageType == edges \in EdgeTable /\ status \in [Node -> GraphStatus]

LineageInit ==
    /\ edges = InitEdges
    /\ status = [n \in Node |-> StatusOf(InitEdges, n)]

\* What a resolver proposes.
ResolverCandidate == [key : EdgeKey, tier : 1..3, conf : 1..Certain]

\* Mutant: no status is derived from what is left.
KeepStatus(t, S) == status

\* The rows S get the status their edges in t make.
Recomputed(t, S) ==
    [n \in Node |-> IF n \in S THEN StatusOf(t, n) ELSE status[n]]

Verdict(tier, conf) == IF conf >= AcceptAt[tier] THEN "AUTO_ACCEPTED" ELSE "NEEDS_REVIEW"

\* What the transaction of ResolveAndCommit makes of the candidates cs, in order.
Resolved(cs) ==
    LET step[i \in 0..Len(cs)] ==
            IF i = 0 THEN [edges |-> edges, touched |-> {}]
            ELSE LET before == step[i - 1]
                     k      == cs[i].key
                     edge   == NewEdge(Verdict(cs[i].tier, cs[i].conf), cs[i].conf, "resolver")
                     after  == UpsertMediaEdge(before.edges, k, edge)
                 IN  IF cs[i].conf < Floor \/ WouldCreateCycle(before.edges, k.src, k.dst)
                       THEN before
                     ELSE [edges   |-> after,
                           touched |-> before.touched \cup
                                       IF after[k].st = "REJECTED" THEN {} ELSE {k.dst}]
    IN  step[Len(cs)]

ResolveAndCommit(cs) ==
    LET last == Resolved(cs)
    IN  /\ edges' = last.edges
        /\ status' = Recomputed(last.edges, last.touched)

----------------------------------------------------------------------------
\* handleCreateEdge; both ends are read before the transaction.
CreateEdge(k) ==
    /\ k \in ManualKey
    /\ \A n \in {k.src, k.dst} : Exists(nodes[n]) /\ nodes[n].state # "ARCHIVED"
    /\ ~WouldCreateCycle(edges, k.src, k.dst)
    /\ edges' = CreateManualMediaEdge(edges, k)
    /\ status' = Recomputed(edges', {k.dst})

\* handleConfirmEdge and handleRejectEdge
Review(k, st) ==
    /\ edges[k].st # "NONE"
    /\ edges' = SetReview(edges, k, st)
    /\ status' = Recomputed(edges', {k.dst})

\* handleResetEdgeReview
ResetReview(k) ==
    /\ Reviewed(edges[k])
    /\ edges' = SetReview(edges, k, "NEEDS_REVIEW")
    /\ status' = Recomputed(edges', {k.dst})

\* What people do to lineage.
PersonReviews ==
    /\ Mishap
    /\ \E k \in EdgeKey :
          CreateEdge(k) \/ Review(k, "CONFIRMED") \/ Review(k, "REJECTED") \/ ResetReview(k)
    /\ UNCHANGED <<nodes, stat, disk>>
=============================================================================
