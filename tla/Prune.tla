------------------------------- MODULE Prune -------------------------------
(***************************************************************************)
(* Cache pruning: internal/prune/engine.go, asked for by handlePrune of    *)
(* internal/httpapi/routes.go.  A purge plans, takes its plan again, and   *)
(* then takes each candidate through five steps, with no transaction open  *)
(* while it touches the disk.                                              *)
(***************************************************************************)
EXTENDS Lineage

CONSTANTS
    Prunable,    \* the locations that are prunable and have a cacheTtlHours
    Aged,        \* the versions whose mtime is before the cutoff
    NotCached    \* the paths of project files and .xmp sidecars

ASSUME PruneAssumption ==
    /\ Prunable \subseteq Loc /\ Prunable \cap Tier3 = {}
    /\ Aged \subseteq Content /\ NotCached \subseteq Path

VARIABLES
    purge,     \* the request under way
    calm       \* nothing has changed the disk since it looked at the files,
               \* nor rows or edges since it read them for the last time

pruning == <<purge, calm>>

CacheRelationship == {"PROXY_OF", "DERIVED_FROM", "DUPLICATE_OF"}

Candidate == [id : Node, path : Path, stat : File]
Master == [id : Node, path : Path, stat : File]

NoPurge == [at |-> "idle", todo |-> <<>>, masters |-> {}, gone |-> FALSE]

PruneType ==
    /\ purge \in [at : {"idle", "planned", "next", "looking", "rereading", "unlinking", "marking"},
                  todo : Seq(Candidate),
                  masters : SUBSET Master, gone : BOOLEAN]
    /\ calm \in BOOLEAN

PruneInit == purge = NoPurge /\ calm = FALSE

----------------------------------------------------------------------------
\* The walk of both queries from a node to what it is a cache of.
CacheLineage(n) ==
    LET up(S) == {k.src : k \in {x \in EdgeKey :
                     /\ x.dst \in S /\ x.rel \in CacheRelationship
                     /\ Accepted(edges[x]) /\ nodes[x.src].state = "ACTIVE"}}
        walk[i \in 0..Cardinality(Node)] ==
            IF i = 0 THEN {n} ELSE walk[i - 1] \cup up(walk[i - 1])
    IN  walk[Cardinality(Node)]

\* ListVerifiedTier3Ancestors, with the columns it returns.
VerifiedMasters(n) ==
    {[id |-> a, path |-> nodes[a].path, stat |-> stat[a]] :
        a \in {x \in CacheLineage(n) \ {n} :
                  /\ LocOf[nodes[x].path] \in Tier3
                  /\ nodes[x].state = "ACTIVE" /\ Vouched(nodes[x])}}

\* ListPrunableNodes of one location.
PrunableNodes(loc) ==
    {n \in Node : /\ nodes[n].state = "ACTIVE" /\ LocOf[nodes[n].path] = loc
                  /\ stat[n] \in Aged /\ nodes[n].path \notin NotCached
                  /\ VerifiedMasters(n) # {}}

\* Plan: in the order of their ids.
PlanOf(S) ==
    LET at[i \in 0..MaxNode] ==
            IF i = 0 THEN <<>>
            ELSE IF i \in S
              THEN Append(at[i - 1], [id |-> i, path |-> nodes[i].path, stat |-> stat[i]])
              ELSE at[i - 1]
    IN  at[MaxNode]

\* The candidate under way is finished with, one way or another.
NextCandidate ==
    IF Len(purge.todo) = 1 THEN NoPurge
    ELSE [NoPurge EXCEPT !.at = "next", !.todo = Tail(purge.todo)]

----------------------------------------------------------------------------
\* handlePrune with execute: the nodes asked for, or all of them.  A dry run
\* ends here.
RequestPurge(loc, want) ==
    LET S == PrunableNodes(loc) \cap want
    IN  /\ purge.at = "idle" /\ loc \in Prunable /\ S # {}
        /\ Mishap
        /\ purge' = [NoPurge EXCEPT !.at = "planned", !.todo = PlanOf(S)]
        /\ UNCHANGED <<nodes, stat, disk, lineage, calm>>

\* execute takes the plan once more for all candidates.
Eligible ==
    LET loc  == LocOf[purge.todo[1].path]
        left == SelectSeq(purge.todo, LAMBDA c : c.id \in PrunableNodes(loc))
    IN  /\ purge.at = "planned"
        /\ purge' = IF left = <<>> THEN NoPurge ELSE [purge EXCEPT !.at = "next", !.todo = left]
        /\ UNCHANGED <<library, lineage, calm>>

\* Phase 1: the masters, on the writer's connection.
ReadMasters ==
    LET masters == VerifiedMasters(purge.todo[1].id)
    IN  /\ purge.at = "next"
        /\ purge' = IF masters = {} THEN NextCandidate
                    ELSE [purge EXCEPT !.at = "looking", !.masters = masters]
        /\ UNCHANGED <<library, lineage, calm>>

\* Mutant: only the candidate is looked at.
CandidateAsPlanned(c, masters) == disk[c.path] \in {NoFile, c.stat}

\* verifyOnDisk: every master's file has the size and mtime of its row, and
\* the candidate's file those of the plan, unless it has gone.
VerifyOnDisk(c, masters) ==
    /\ \A a \in masters : disk[a.path] = a.stat
    /\ disk[c.path] \in {NoFile, c.stat}

\* Phase 2
Look ==
    LET c == purge.todo[1]
    IN  /\ purge.at = "looking"
        /\ IF VerifyOnDisk(c, purge.masters)
             THEN /\ purge' = [purge EXCEPT !.at = "rereading", !.gone = disk[c.path] = NoFile]
                  /\ calm' = TRUE
             ELSE /\ purge' = NextCandidate
                  /\ UNCHANGED calm
        /\ UNCHANGED <<library, lineage>>

\* Phase 2.5: sameAncestors
Reread ==
    /\ purge.at = "rereading"
    /\ purge' = IF VerifiedMasters(purge.todo[1].id) # purge.masters THEN NextCandidate
                ELSE [purge EXCEPT !.at = IF purge.gone THEN "marking" ELSE "unlinking"]
    /\ UNCHANGED <<library, lineage, calm>>

\* guard.Remove: an error ends the candidate, one that has gone included.
Unlink ==
    LET c == purge.todo[1]
    IN  /\ purge.at = "unlinking"
        /\ \/ /\ disk[c.path] # NoFile
              /\ disk' = [disk EXCEPT ![c.path] = NoFile]
              /\ purge' = [purge EXCEPT !.at = "marking"]
              /\ UNCHANGED mishaps
           \/ /\ disk[c.path] = NoFile \/ mishaps < MaxMishap
              /\ mishaps' = IF disk[c.path] = NoFile THEN mishaps ELSE mishaps + 1
              /\ purge' = NextCandidate
              /\ UNCHANGED disk
        /\ UNCHANGED <<nodes, stat, lineage, calm>>

\* Phase 3, by id and in a transaction of its own, which may fail.
Mark ==
    /\ purge.at = "marking"
    /\ \/ nodes' = MarkNodeMissing(nodes, purge.todo[1].id) /\ UNCHANGED mishaps
       \/ Mishap /\ UNCHANGED nodes
    /\ purge' = NextCandidate
    /\ UNCHANGED <<stat, disk, lineage, calm>>

PruneStep ==
    \/ \E loc \in Loc, want \in SUBSET Node : RequestPurge(loc, want)
    \/ Eligible \/ ReadMasters \/ Look \/ Reread \/ Unlink \/ Mark

----------------------------------------------------------------------------
\* What another component does beside a purge: calm ends when it touches what
\* the purge relies on.
Beside ==
    /\ purge' = purge
    /\ calm' = /\ calm /\ disk' = disk
               /\ purge.at # "unlinking" \/ (nodes' = nodes /\ edges' = edges)
=============================================================================
