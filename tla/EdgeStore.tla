----------------------------- MODULE EdgeStore -----------------------------
(***************************************************************************)
(* The media_edges table and the statements of internal/db/queries that    *)
(* read and write it.  As in NodeStore, every operator takes a table and   *)
(* returns the table the statement leaves.                                 *)
(*                                                                         *)
(* Confidences are ranks: only their order, and which of them a tier       *)
(* accepts without review, matter.                                         *)
(***************************************************************************)
EXTENDS Integers, FiniteSets, Sequences

CONSTANTS
    EdgeKey,     \* the possible [src, dst, rel], src the parent of dst
    Certain      \* confidence 1.0, the highest rank

ASSUME EdgeStoreAssumption ==
    /\ \A k \in EdgeKey : k = [src |-> k.src, dst |-> k.dst, rel |-> k.rel] /\ k.src # k.dst
    /\ Certain \in Nat \ {0}

ReviewState == {"AUTO_ACCEPTED", "NEEDS_REVIEW", "CONFIRMED", "REJECTED"}

\* Who put an edge there, as resolver records it.
Origin == {"resolver", "device", "snapshot", "manual"}

\* on is is_active; the state "NONE" says that there is no row.
Edge == [st : ReviewState \cup {"NONE"}, on : BOOLEAN, conf : 0..Certain,
         by : Origin \cup {"none"}]

EdgeTable == [EdgeKey -> Edge]

NoEdge == [st |-> "NONE", on |-> FALSE, conf |-> 0, by |-> "none"]

NewEdge(st, conf, by) == [st |-> st, on |-> TRUE, conf |-> conf, by |-> by]

\* A person has decided.
Reviewed(e) == e.st \in {"CONFIRMED", "REJECTED"}

Accepted(e) == e.on /\ e.st \in {"AUTO_ACCEPTED", "CONFIRMED"}

----------------------------------------------------------------------------
\* The recursive walk of WouldCreateCycle and DescendantNodeIDs: whatever
\* active edges lead to from n, itself included.
Descendants(t, n) ==
    LET on     == {k \in EdgeKey : t[k].on}
        levels == Cardinality({k.src : k \in on})
        step[i \in 0..levels] ==
            IF i = 0 THEN {n}
            ELSE LET found == step[i - 1]
                 IN  found \cup {k.dst : k \in {x \in on : x.src \in found}}
    IN  step[levels]

\* Mutant: only the edge's own ends are compared.
SelfEdge(t, parent, child) == parent = child

WouldCreateCycle(t, parent, child) == parent \in Descendants(t, child)

\* A cycle through active edges.
Cyclic(t) == \E k \in EdgeKey : t[k].on /\ k.src \in Descendants(t, k.dst)

\* CreateMediaEdge; on a row that is there, a constraint failure.
CreateMediaEdge(t, k, e) == IF t[k].st = "NONE" THEN [t EXCEPT ![k] = e] ELSE t

\* CreateManualMediaEdge
CreateManualMediaEdge(t, k) ==
    [t EXCEPT ![k] = NewEdge("CONFIRMED", Certain, "manual")]

\* Mutant: the update is not gated on the review state.
UpsertOverReview(t, k, e) == [t EXCEPT ![k] = e]

\* Mutant: the last to look supplies the row.
UpsertLatest(t, k, e) == IF Reviewed(t[k]) THEN t ELSE [t EXCEPT ![k] = e]

\* UpsertMediaEdge: a person's decision stands, and otherwise the more
\* confident side supplies the row; a tie goes to the new side unless that
\* would send an accepted edge back to review.
UpsertMediaEdge(t, k, e) ==
    LET old  == t[k]
        wins == \/ e.conf > old.conf
                \/ e.conf = old.conf
                   /\ ~(old.st = "AUTO_ACCEPTED" /\ e.st = "NEEDS_REVIEW")
    IN  IF Reviewed(old) THEN t
        ELSE [t EXCEPT ![k] = IF wins THEN e ELSE [old EXCEPT !.on = TRUE]]

\* ConfirmMediaEdge, RejectMediaEdge and ResetMediaEdgeReview leave is_active alone.
SetReview(t, k, st) == [t EXCEPT ![k].st = st]

\* RefreshResolveEdge and InactivateResolveEdge
SnapshotOwns(e) == e.by = "snapshot" /\ ~Reviewed(e)
RefreshResolveEdge(t, k) == IF SnapshotOwns(t[k]) THEN [t EXCEPT ![k].on = TRUE] ELSE t
InactivateResolveEdge(t, k) == IF SnapshotOwns(t[k]) THEN [t EXCEPT ![k].on = FALSE] ELSE t

\* RecomputeStatusFromPersistedEdges
StatusOf(t, n) ==
    LET parents == {t[k] : k \in {x \in EdgeKey : x.dst = n /\ t[x].on}}
    IN  CASE \E e \in parents : Accepted(e) -> "LINKED"
          [] (\A e \in parents : ~Accepted(e)) /\ (\E e \in parents : e.st # "REJECTED") ->
                "NEEDS_REVIEW"
          [] OTHER -> "UNLINKED"
=============================================================================
