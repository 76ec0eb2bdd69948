------------------------------ MODULE Families ------------------------------
(***************************************************************************)
(* How files that belong together find each other: the resolution of edges *)
(* a scan runs after each batch (resolveEdgesForBatch of                   *)
(* internal/pipeline/scan.go), with its second look at unlinked siblings   *)
(* and its retry of project files, next to uploads, other programs and     *)
(* people.                                                                 *)
(***************************************************************************)
EXTENDS Lineage, Resolvers

CONSTANTS
    BytesOf,     \* [Path -> Content]: the file of each path
    Together,    \* bound: the families, [files, late, mishaps]: what may be there from
                 \* the start or come later, the bounded events it does without
    Kinds,       \* bound: the kinds of scans that are started
    ScanBatch

ASSUME FamiliesAssumption ==
    /\ BytesOf \in [Path -> Content] /\ IsFiniteSet(Path)
    /\ \A f \in Together : f.files \subseteq Path /\ f.late \subseteq f.files /\ f.mishaps \in Nat
    /\ Kinds \subseteq {"FULL_SCAN", "INCREMENTAL"}
    /\ ScanBatch \in Nat \ {0}
    /\ \A p, c \in Node : p # c =>
          \A rel \in Relationship : [src |-> p, dst |-> c, rel |-> rel] \in EdgeKey
    /\ Certain = 100 /\ IndexCap < AcceptAt[2]

VARIABLES
    scan,      \* the scan under way, or the last one
    upload     \* the upload under way

familiesVars == <<library, lineage, scan, upload>>

\* todo: to be read; batch: the paths still to be resolved; job: the rows
\* resolveNodeEdges is about, the path's own first, while leads; found: what the
\* resolvers have for the first; sidecars: the project files seen. whole: nothing
\* else has happened since it began; fresh: it inserted a row; read: what it committed.
ScanState == [at : {"idle", "walk", "fetch", "look", "apply", "list"},
              kind : Kinds, loc : Loc,
              todo : SUBSET Path, batch : Seq(Path), job : Seq(Node), leads : BOOLEAN,
              found : Seq(ResolverCandidate), revisited : SUBSET Node,
              sidecars : Seq(Path), retry : BOOLEAN,
              whole : BOOLEAN, fresh : BOOLEAN, read : SUBSET Path]

Upload == [at : {"idle", "inserted", "looked"}, row : 0..MaxNode, found : Seq(ResolverCandidate)]

FamiliesType == LineageType /\ scan \in ScanState /\ upload \in Upload

NoScan == [at |-> "idle", kind |-> CHOOSE k \in Kinds : TRUE, loc |-> CHOOSE l \in Loc : TRUE,
           todo |-> {}, batch |-> <<>>, job |-> <<>>, leads |-> FALSE, found |-> <<>>,
           revisited |-> {}, sidecars |-> <<>>, retry |-> FALSE,
           whole |-> FALSE, fresh |-> FALSE, read |-> {}]

NoUpload == [at |-> "idle", row |-> 0, found |-> <<>>]

FamiliesInit ==
    /\ \E f \in Together : \E present \in {f.files, f.files \ f.late} :
          /\ LibraryStarts(InitNodes,
                           [p \in Path |-> IF p \in present THEN BytesOf[p] ELSE NoFile])
          /\ mishaps = f.mishaps
    /\ LineageInit
    /\ scan = NoScan /\ upload = NoUpload

----------------------------------------------------------------------------
\* The scan.

\* sweepUnchanged
sweepUnchanged(p) ==
    \E n \in LiveAt(nodes, p) : nodes[n].state = "ACTIVE" /\ stat[n] = disk[p]

StartScan(kind, loc) ==
    LET files == {p \in Path : LocOf[p] = loc /\ disk[p] # NoFile}
    IN  /\ scan.at = "idle"
        /\ scan' = [NoScan EXCEPT !.at = "walk", !.kind = kind, !.loc = loc, !.whole = TRUE,
                       !.todo = {p \in files : kind = "INCREMENTAL" => ~sweepUnchanged(p)}]
        /\ UNCHANGED <<library, lineage, upload>>

\* Mutant: a project file is looked at in its own batch only.
NeverRetried(sidecars) == <<>>

\* What the end of the walk hands to resolveNodeEdges once more.
HandedBack(sidecars) == sidecars

\* Bound: a row is left for every file of S that has none.
RoomFor(S) == Cardinality({p \in S : LatestAt(nodes, p) = {}}) <= Cardinality(FreeIds(nodes))

\* The members of S, each once.
Orders(S) == {s \in [1..Cardinality(S) -> S] : \A i, j \in DOMAIN s : i # j => s[i] # s[j]}

\* The results of a batch come in any order; a batch that fails is not resolved.
CommitSome ==
    /\ scan.at = "walk" /\ scan.todo # {}
    /\ \E S \in SUBSET scan.todo : \E ps \in Orders(S) :
          LET out  == CommitBatch([i \in DOMAIN ps |-> Processed(ps[i], disk[ps[i]])])
              took == [scan EXCEPT !.todo = @ \ S]
              kept == SelectSeq(ps, LAMBDA p : IsProject(About[p]))
          IN  /\ RoomFor(S)
              /\ Cardinality(S) <= ScanBatch
              /\ Cardinality(S) = ScanBatch \/ S = scan.todo
              /\ IF out.ok
                   THEN /\ nodes' = out.nodes /\ stat' = out.stat
                        /\ scan' = [took EXCEPT !.at = "fetch", !.batch = ps,
                                       !.sidecars = @ \o kept,
                                       !.fresh = @ \/ FreeIds(out.nodes) # FreeIds(nodes),
                                       !.read = @ \cup S]
                   ELSE UNCHANGED <<nodes, stat>> /\ scan' = took
    /\ UNCHANGED <<disk, mishaps, lineage, upload>>

EndWalk ==
    /\ scan.at = "walk" /\ scan.todo = {}
    /\ LET again == HandedBack(scan.sidecars)
       IN  scan' = [scan EXCEPT !.at = IF again = <<>> THEN "idle" ELSE "fetch",
                                !.retry = again # <<>>, !.batch = again, !.sidecars = <<>>]
    /\ UNCHANGED <<library, lineage, upload>>

\* The path at the head of the batch is done.
Onward(s) ==
    LET rest == Tail(s.batch)
        after == IF rest # <<>> THEN "fetch" ELSE IF s.retry THEN "idle" ELSE "walk"
    IN  [s EXCEPT !.at = after, !.batch = rest, !.job = <<>>, !.found = <<>>, !.leads = FALSE,
                  !.revisited = IF rest = <<>> THEN {} ELSE @,
                  !.retry = @ /\ rest # <<>>]

\* What ResolveAndCommit finds for row n before its transaction.
Found(n) == ProposedFor(nodes, n)

\* resolveNodeEdges
Fetch ==
    LET live == LiveAt(nodes, Head(scan.batch))
        n    == Oldest(live)
    IN  /\ scan.at = "fetch"
        /\ scan' = IF live = {} THEN Onward(scan)
                   ELSE [scan EXCEPT !.at = "apply", !.job = <<n>>, !.leads = TRUE,
                                     !.found = Found(n)]
        /\ UNCHANGED <<library, lineage, upload>>

\* Siblings that have no parent yet.
Unlinked(n) ==
    {m \in LiveRows(nodes) \ {n} :
        /\ Known(Of(nodes, n).stem, Of(nodes, m).stem)
        /\ LocOf[nodes[m].path] = LocOf[nodes[n].path]
        /\ status[m] = "UNLINKED"}

\* Mutant: there is no reverse pass.
NoRevisit(n, done) == {}

\* The siblings the reverse pass of row n looks at.
Revisits(n, done) == Unlinked(n) \ done

ListSiblings ==
    LET sibs == Revisits(Head(scan.job), scan.revisited)
    IN  /\ scan.at = "list"
        /\ scan' = IF sibs = {} THEN Onward(scan)
                   ELSE [scan EXCEPT !.at = "look", !.job = ById(sibs), !.leads = FALSE,
                            !.revisited = IF scan.retry THEN @ ELSE @ \cup sibs]
        /\ UNCHANGED <<library, lineage, upload>>

Look ==
    /\ scan.at = "look"
    /\ scan' = [scan EXCEPT !.at = "apply", !.found = Found(Head(scan.job))]
    /\ UNCHANGED <<library, lineage, upload>>

\* The row at the head of the job is done; a lead's siblings follow it if it was resolved.
Applied(s, ok) ==
    CASE s.leads /\ ok -> [s EXCEPT !.at = "list", !.found = <<>>]
      [] ~s.leads /\ Len(s.job) > 1 -> [s EXCEPT !.at = "look", !.job = Tail(@), !.found = <<>>]
      [] OTHER -> Onward(s)

ApplyFound ==
    /\ scan.at = "apply"
    /\ ResolveAndCommit(scan.found)
    /\ scan' = Applied(scan, TRUE)
    /\ UNCHANGED <<library, upload>>

ApplyFails ==
    /\ scan.at = "apply" /\ \E i \in DOMAIN scan.found : scan.found[i].conf >= Floor
    /\ Mishap
    /\ scan' = [Applied(scan, FALSE) EXCEPT !.whole = FALSE]
    /\ UNCHANGED <<nodes, stat, disk, lineage, upload>>

ScanStep ==
    \/ \E kind \in Kinds, loc \in Loc : StartScan(kind, loc)
    \/ CommitSome \/ EndWalk \/ Fetch \/ ListSiblings \/ Look \/ ApplyFound \/ ApplyFails

----------------------------------------------------------------------------
\* Beside it.

Disturb == scan' = [scan EXCEPT !.whole = FALSE]

\* Another file of a family that is there.
Beside == [p \in UNION {f.late : f \in Together} |->
              UNION {f.files : f \in {g \in Together : p \in g.late}}]

Late(p) == disk[p] = NoFile /\ \E q \in Beside[p] : disk[q] # NoFile

\* Another program writes it.
Arrive(p) ==
    /\ Late(p)
    /\ disk' = [disk EXCEPT ![p] = BytesOf[p]]
    /\ Disturb /\ UNCHANGED <<nodes, stat, mishaps, lineage, upload>>

\* It is uploaded: the file, the row, and then its edges, without a reverse pass.
UploadInserts(p) ==
    LET r == HashedAs(p, BytesOf[p], TRUE)
        t == InsertNewNode(nodes, r)
    IN  /\ upload.at = "idle" /\ Late(p) /\ LiveAt(nodes, p) = {} /\ FreeIds(nodes) # {}
        /\ disk' = [disk EXCEPT ![p] = BytesOf[p]]
        /\ nodes' = t /\ stat' = [stat EXCEPT ![NextId(nodes)] = r.stat]
        /\ upload' = [upload EXCEPT !.at = "inserted", !.row = NextId(nodes)]
        /\ Disturb /\ UNCHANGED <<mishaps, lineage>>

UploadLooks ==
    /\ upload.at = "inserted"
    /\ upload' = [upload EXCEPT !.at = "looked", !.found = Found(upload.row)]
    /\ Disturb /\ UNCHANGED <<library, lineage>>

UploadResolves ==
    /\ upload.at = "looked"
    /\ ResolveAndCommit(upload.found)
    /\ upload' = NoUpload
    /\ Disturb /\ UNCHANGED library

\* A person archives a row.
Archive(n) ==
    /\ nodes[n].state = "ACTIVE"
    /\ Mishap
    /\ nodes' = ArchiveMediaNode(nodes, n)
    /\ Disturb /\ UNCHANGED <<stat, disk, lineage, upload>>

Reviews == PersonReviews /\ Disturb /\ UNCHANGED upload

World ==
    \/ \E p \in DOMAIN Beside : Arrive(p) \/ UploadInserts(p)
    \/ UploadLooks \/ UploadResolves
    \/ \E n \in Node : Archive(n)
    \/ Reviews

FamiliesNext == ScanStep \/ World

FamiliesSpec == FamiliesInit /\ [][FamiliesNext]_familiesVars

----------------------------------------------------------------------------
\* Properties.

\* An edge that only names speak for: nothing in the files or in a project says so.
OnlyNames(k) ==
    LET f == Of(nodes, k.dst)
        g == Of(nodes, k.src)
    IN  /\ edges[k].st \in {"AUTO_ACCEPTED", "NEEDS_REVIEW"} /\ edges[k].by = "resolver"
        /\ k.rel # "PROJECT_SIDECAR" /\ ~Known(f.orig, g.doc)

\* Whichever side was resolved, first or last and how often: a proxy is never
\* the parent of its original (but of its telemetry, whatever the video is named),
\* an export never of its raw (unless the raw is marked as edited), a numbered copy
\* never of anything but an export of the same shot, and but for those none is
\* accepted without a person (FilenameStemResolver, resolvers.go:147-330).
NamesKeepRoles ==
    \A k \in EdgeKey : OnlyNames(k) =>
        LET f == Of(nodes, k.dst)
            g == Of(nodes, k.src)
        IN  /\ IsProxy(g) => IsProxy(f) \/ f.ext = "srt"
            /\ IsExport(g) /\ IsRaw(f) => f.mark = "role"
            /\ g.mark = "index" => SameShot(f, g)
            /\ f.mark = "index" /\ ~SameShot(f, g) => edges[k].st = "NEEDS_REVIEW"

\* A scan nothing else happened beside.
Undisturbed == scan.at = "idle" /\ scan.whole

\* The edge is recorded, or refused for the cycle it would close.
Settled(c) == edges[c.key].st # "NONE" \/ WouldCreateCycle(edges, c.key.src, c.key.dst)

Settles(cs) == \A i \in DOMAIN cs : cs[i].conf >= Floor => Settled(cs[i])

\* However the files fell into batches: after a scan every project file it read
\* is connected with all it refers to, and a sibling of a row it read that is
\* still unlinked has no match left to record (scan.go:557-574, 937-960).
ScanLeavesNoneBehind ==
    Undisturbed => \A p \in scan.read : \A n \in LiveAt(nodes, p) :
        /\ Settles(ProjectSidecarResolver(nodes, n))
        /\ \A m \in Unlinked(n) : Settles(FilenameStemResolver(nodes, m))

\* Resolving again is safe: after a full scan that found no new file, one more
\* look at any of its rows, in any order, changes no edge and no status, also
\* where two resolvers or two sides differ about an edge (scan.go:566-568).
ResolvedAgain ==
    Undisturbed /\ scan.kind = "FULL_SCAN" /\ ~scan.fresh =>
        \A p \in scan.read : \A n \in LiveAt(nodes, p) :
            LET again == Resolved(Found(n))
            IN  again.edges = edges /\ Recomputed(again.edges, again.touched) = status
=============================================================================
