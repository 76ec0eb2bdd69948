------------------------------ MODULE Inherit ------------------------------
(***************************************************************************)
(* Metadata inheritance: internal/pipeline/inherit.go.  A child takes the  *)
(* identity of its parent: exiftool rewrites its file in place, and the    *)
(* row is then made to describe the new bytes, so that no scan takes them  *)
(* for another version.                                                    *)
(***************************************************************************)
EXTENDS Lineage, Thumbs

CONSTANTS
    Inheritor,    \* the requests that inherit, each of them once
    AutoInherit,  \* those made when an edge is accepted, not asked for
    TierOf,       \* [EdgeKey -> 1..3]: the tier an edge is found by
    Tagged,       \* [Content -> Content]: the file once the tags are written
    ReadOnly      \* the locations that take no writes

ASSUME InheritAssumption ==
    /\ AutoInherit \subseteq Inheritor
    /\ TierOf \in [EdgeKey -> 1..3]
    /\ Tagged \in [Content -> Content]
    /\ ReadOnly \subseteq Loc

VARIABLES
    heir,       \* the inheritance each request is at
    derived     \* derived_from_id of each row, 0 for none

inheriting == <<heir, derived>>

NoHeir == [at |-> "idle", child |-> 0, path |-> CHOOSE p \in Path : TRUE, from |-> 0, parent |-> 0]

InheritType ==
    /\ heir \in [Inheritor ->
          [at : {"idle", "loaded", "writing", "written", "retry", "refreshed", "done"},
           child : 0..MaxNode, path : Path, from : 0..MaxNode, parent : 0..MaxNode]]
    /\ derived \in [Node -> 0..MaxNode]

InheritInit ==
    /\ heir = [i \in Inheritor |-> NoHeir]
    /\ derived = [n \in Node |-> 0]

AncestryRelationship == {"DERIVED_FROM", "FINAL_EXPORT", "PROXY_OF"}

\* PickWinningParent, by its edge: the most confident, a person's before a resolver's.
EligibleParent(k, n) ==
    /\ k.dst = n /\ Accepted(edges[k])
    /\ TierOf[k] # 3 /\ k.rel \in AncestryRelationship

BetterParent(k, l) ==
    \/ edges[k].conf > edges[l].conf
    \/ edges[k].conf = edges[l].conf /\ (edges[k].by = "manual" \/ edges[l].by # "manual")

WinningParents(n) ==
    {k \in EdgeKey : EligibleParent(k, n) /\ \A l \in EdgeKey : EligibleParent(l, n) => BetterParent(k, l)}

\* nodeLocker: one writer per child.
Locked(n) ==
    \E i \in Inheritor : heir[i].child = n /\ heir[i].at \in {"writing", "written", "refreshed"}

Away(i) == heir' = [heir EXCEPT ![i] = [NoHeir EXCEPT !.at = "done"]]
At(i, s) == heir' = [heir EXCEPT ![i].at = s]

----------------------------------------------------------------------------
\* loadInheritChild, before the lock.
LoadChild(i, n) ==
    /\ heir[i].at = "idle"
    /\ nodes[n].state = "ACTIVE" /\ LocOf[nodes[n].path] \notin ReadOnly
    /\ heir' = [heir EXCEPT ![i] = [at |-> "loaded", child |-> n, path |-> nodes[n].path,
                                    from |-> derived[n], parent |-> 0]]
    /\ UNCHANGED <<library, lineage, thumbs, derived>>

\* planInheritFor and checkTagWritePossible, under the lock; with the parent
\* recorded already there is nothing to write.
PlanInherit(i) ==
    LET n    == heir[i].child
        wins == WinningParents(n)
        from == (CHOOSE k \in wins : TRUE).src
    IN  /\ heir[i].at = "loaded" /\ ~Locked(n)
        /\ IF wins = {} THEN Away(i)
           ELSE IF nodes[from].state \in {"ARCHIVED", "MISSING"} \/ heir[i].from = from
                   \/ disk[heir[i].path] = NoFile
             THEN Away(i)
             ELSE heir' = [heir EXCEPT ![i].at = "writing", ![i].parent = from]
        /\ UNCHANGED <<library, lineage, thumbs, derived>>

\* WriteTags: exiftool writes beside the file and renames over it, or fails.
WriteTags(i) ==
    LET p == heir[i].path
    IN  /\ heir[i].at = "writing"
        /\ \/ /\ disk[p] # NoFile
              /\ disk' = [disk EXCEPT ![p] = Tagged[@]]
              /\ At(i, "written") /\ UNCHANGED mishaps
           \/ /\ \/ disk[p] = NoFile /\ UNCHANGED mishaps
                 \/ disk[p] # NoFile /\ Mishap
              /\ Away(i) /\ UNCHANGED disk
        /\ UNCHANGED <<nodes, stat, lineage, thumbs, derived>>

\* Mutant: size and mtime only.
RefreshStat(t, n, c) == [t EXCEPT ![n].full = NoHash]

\* RefreshMediaNodeAfterInPlaceWrite; the provenance row stays.
RefreshMediaNodeAfterInPlaceWrite(t, n, c) == [t EXCEPT ![n].fast = FastOf[c], ![n].full = NoHash]

\* RefreshNodeAfterInPlaceWrite: the file is opened and hashed again and the
\* row written by id, whatever its state.
RefreshNode(n, p) ==
    LET c == disk[p]
    IN  /\ c # NoFile
        /\ nodes' = RefreshMediaNodeAfterInPlaceWrite(nodes, n, c)
        /\ stat' = [stat EXCEPT ![n] = c]
        /\ thumb' = InvalidateThumbnail(n)
        /\ UNCHANGED <<disk, mishaps, lineage, cached, making, derived>>

Refresh(i) ==
    /\ heir[i].at = "written"
    /\ RefreshNode(heir[i].child, heir[i].path)
    /\ At(i, "refreshed")

\* ErrPostWriteRefreshFailed: the file is written and the row is not.
RefreshFails(i) ==
    /\ heir[i].at = "written"
    /\ IF disk[heir[i].path] = NoFile THEN UNCHANGED mishaps ELSE Mishap
    /\ IF i \in AutoInherit THEN At(i, "retry") ELSE Away(i)
    /\ UNCHANGED <<nodes, stat, disk, lineage, thumbs, derived>>

\* autoInherit tries once more, after the lock is gone and on the row it reads
\* again; whether that works is not looked at.
RetryRefresh(i) ==
    /\ heir[i].at = "retry"
    /\ RefreshNode(heir[i].child, nodes[heir[i].child].path)
    /\ Away(i)

RetryFails(i) ==
    /\ heir[i].at = "retry"
    /\ IF disk[nodes[heir[i].child].path] = NoFile THEN UNCHANGED mishaps ELSE Mishap
    /\ Away(i)
    /\ UNCHANGED <<nodes, stat, disk, lineage, thumbs, derived>>

\* The backfill and UpdateMediaNodePromotedColumns, whose failure is only logged.
Backfill(i) ==
    /\ heir[i].at = "refreshed"
    /\ \/ derived' = [derived EXCEPT ![heir[i].child] = heir[i].parent] /\ UNCHANGED mishaps
       \/ Mishap /\ UNCHANGED derived
    /\ Away(i)
    /\ UNCHANGED <<nodes, stat, disk, lineage, thumbs>>

InheritStep(i) ==
    \/ \E n \in Node : LoadChild(i, n)
    \/ PlanInherit(i) \/ WriteTags(i) \/ Refresh(i) \/ RefreshFails(i)
    \/ RetryRefresh(i) \/ RetryFails(i) \/ Backfill(i)
=============================================================================
