------------------------------- MODULE Commit -------------------------------
(***************************************************************************)
(* internal/pipeline/commit.go: what one scan result does to media_nodes.  *)
(* CommitOne is a function of the table and the result; it says whether    *)
(* the enclosing transaction survives (a statement that breaks the schema  *)
(* fails the whole batch), the table it leaves, and the rows whose         *)
(* last_seen_at it bumps.                                                  *)
(***************************************************************************)
EXTENDS NodeStore

\* A processed file: its path, its fast hash and, when the policy asked for
\* it, its full hash (Result in internal/pipeline/result.go).
Result == [path : Path, fast : FastHash, full : FullHash]

\* Every statement of a branch must leave a legal table; the last one is the
\* result of the branch.
Outcome(steps, last, seen) ==
    [ok |-> \A t \in steps \cup {last} : Schema(t), nodes |-> last, seen |-> seen]

Unchanged(t) == Outcome({}, t, {})

\* skipDuplicateContent: the content is owned by a live row other than self.
DuplicateContent(t, h, self) == h # NoHash /\ Owners(t, h) \ {self} # {}

\* fullHashContradicts
FullHashContradicts(row, h) == h # NoHash /\ row.full # NoHash /\ row.full # h

\* movePlausible
MovePlausible(row, r) ==
    IF row.full # NoHash /\ r.full # NoHash
      THEN row.full = r.full
      ELSE LocOf[row.path] = LocOf[r.path]

\* insertNewNode: a new ACTIVE row whose full hash the server computed.
InsertNewNode(t, r) ==
    LET inserted == InsertMediaNode(t, r.path, r.fast, r.full, NoProvenance)
    IN  RecordFullHashSource(inserted, NextId(t), r.full, "SERVER")

----------------------------------------------------------------------------
\* The touched branch of commitOne: the same content, seen again.
TouchSeen(t, n, r) ==
    LET touched == TouchMediaNode(t, n)
        hashed  ==
            CASE r.full = NoHash -> touched
              [] r.full # NoHash /\ t[n].full = r.full ->
                    RecordFullHashSource(touched, n, r.full, "SERVER")
              [] r.full # NoHash /\ t[n].full # r.full
                    /\ DuplicateContent(touched, r.full, n) ->
                    ClearDisprovedFullHash(touched, n)
              [] OTHER ->
                    RecordFullHashSource(
                        UpdateMediaNodeFullHash(touched, n, r.full),
                        n, r.full, "SERVER")
    IN  Outcome({touched}, hashed, {n})

\* commitContentChange and the fast-hash branch of commitOne: the row no
\* longer describes the bytes at its path.  It is archived whatever happens,
\* and superseded by a new row unless the new content is indexed elsewhere.
Supersede(t, n, r) ==
    LET archived == ArchiveMediaNode(t, n)
        inserted == InsertNewNode(archived, r)
        linked   == SetSupersededBy(inserted, n, NextId(archived))
    IN  IF DuplicateContent(t, r.full, n)
          THEN Outcome({}, archived, {})
          ELSE Outcome({archived, inserted}, linked, {NextId(archived)})

\* A changed file at the path of an ARCHIVED row: the successor inherits the
\* archive, so the file does not come back by itself.
ArchivedSuccessor(t, n, r) ==
    LET inserted == InsertNewNode(t, r)
        archived == ArchiveMediaNode(inserted, NextId(t))
        linked   == SetSupersededBy(archived, n, NextId(t))
    IN  IF DuplicateContent(t, r.full, 0)
          THEN Unchanged(t)
          ELSE Outcome({inserted, archived}, linked, {NextId(t)})

\* Pillar 5: the oldest plausible MISSING row with this fast hash moves here.
RebaseMoved(t, n, r) ==
    LET rebased == RebaseMissingNodePath(t, n, r.path)
        hashed  == IF r.full = NoHash THEN rebased
                   ELSE RecordFullHashSource(
                            UpdateMediaNodeFullHash(rebased, n, r.full),
                            n, r.full, "SERVER")
    IN  IF DuplicateContent(t, r.full, n)
          THEN Unchanged(t)
          ELSE Outcome({rebased}, hashed, {n})

MoveCandidates(t, r) ==
    {n \in MissingWithFast(t, r.fast) : MovePlausible(t[n], r)}

Oldest(S) == CHOOSE n \in S : \A m \in S : n <= m

\* commitNoLiveNode
CommitNoLiveNode(t, r) ==
    LET latest == LatestAt(t, r.path)
        In(s)  == \E n \in latest : t[n].state = s
        Same   == \E n \in latest : t[n].fast = r.fast
    IN  CASE In("ARCHIVED") /\ ~Same -> ArchivedSuccessor(t, Oldest(latest), r)
          [] (In("ARCHIVED") \/ In("TRASHED")) /\ Same -> Unchanged(t)
          [] OTHER ->
                IF MoveCandidates(t, r) # {}
                  THEN RebaseMoved(t, Oldest(MoveCandidates(t, r)), r)
                  ELSE IF DuplicateContent(t, r.full, 0)
                         THEN Unchanged(t)
                         ELSE Outcome({}, InsertNewNode(t, r), {NextId(t)})

\* commitOne
CommitOne(t, r) ==
    LET live == LiveAt(t, r.path)
        n    == Oldest(live)
    IN  IF live = {} THEN CommitNoLiveNode(t, r)
        ELSE IF /\ t[n].fast = r.fast
                /\ ~(FullHashContradicts(t[n], r.full) /\ Vouched(t[n]))
               THEN TouchSeen(t, n, r)
               ELSE Supersede(t, n, r)

----------------------------------------------------------------------------
\* From table t to u, no row enters or leaves the trash, none in it moves to
\* another path, no row leaves the archive and none is deleted: what a person
\* retired stays retired, and where it was, until a person restores it.
KeepsRetired(t, u) ==
    \A n \in Node : /\ t[n].state = "ARCHIVED" => u[n].state = "ARCHIVED"
                    /\ t[n].state = "TRASHED" <=> u[n].state = "TRASHED"
                    /\ t[n].state = "TRASHED" => u[n].path = t[n].path
                    /\ t[n].state # "NONE" => u[n].state # "NONE"
=============================================================================
