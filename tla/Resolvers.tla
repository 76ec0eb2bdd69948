----------------------------- MODULE Resolvers -----------------------------
(***************************************************************************)
(* internal/graph/resolvers.go: the four resolvers, each a function from   *)
(* the index and one row to the edges it proposes for that row, and how    *)
(* ResolveAndCommit merges them.                                           *)
(*                                                                         *)
(* What the resolvers compare is what a row records of its file, About.    *)
(* Names, stems, directories and document ids are numbers, 0 for none;     *)
(* confidences are hundredths.                                             *)
(***************************************************************************)
EXTENDS NodeStore, Sequences

CONSTANTS
    About,       \* [Path -> Traits]
    Hamming      \* [Nat \X Nat -> Nat], the distance of two perceptual hashes

\* The extensions the resolvers tell apart: rawExts, exportExts without and with
\* picture, proxyExts, and those of the project files.
Extension == {"raw", "image", "video", "lrf", "srt", "xmp", "project", "other"}

\* bare: the name without its extension; alt: the stem of an .xmp named after a
\* whole file name; mark: naming.Kind; proxyName: "_proxy" is in the name; dji:
\* an .srt that sniffs as telemetry; refs: what a project file refers to, each
\* the paths tried in order and the bare file name.
Traits == [name : Nat, bare : Nat, stem : Nat, alt : Nat, dir : Nat, ext : Extension,
           mark : {"none", "index", "role"}, proxyName : BOOLEAN, dji : BOOLEAN,
           time : Nat, camera : Nat, serial : Nat, lens : Nat, phash : Nat,
           doc : Nat, orig : Nat, refs : Seq([paths : Seq(Path), name : Nat])]

ASSUME ResolversAssumption == About \in [Path -> Traits]

Of(t, n) == About[t[n].path]

LiveRows(t) == {n \in Node : Live(t[n])}

\* A lookup by index, in the order of the ids.
ById(S) ==
    [i \in 1..Cardinality(S) |-> CHOOSE n \in S : Cardinality({m \in S : m < n}) = i - 1]

EachById(S, Match(_)) == LET ids == ById(S) IN [i \in DOMAIN ids |-> Match(ids[i])]

Capped(conf, top) == IF conf > top THEN top ELSE conf

----------------------------------------------------------------------------
\* Roles of files.

IsRaw(f) == f.ext = "raw"
IsExport(f) == f.ext \in {"image", "video"}
IsProxy(f) == f.ext = "lrf" \/ f.proxyName
IsProject(f) == f.ext \in {"xmp", "project"}

Relationship == {"PROJECT_SIDECAR", "PROXY_OF", "FINAL_EXPORT", "DERIVED_FROM"}

inferRelationship(child, parent) ==
    CASE child.proxyName \/ (child.ext = "lrf" /\ parent.ext # "lrf") -> "PROXY_OF"
      [] ~child.proxyName /\ IsRaw(parent) /\ IsExport(child) -> "FINAL_EXPORT"
      [] OTHER -> "DERIVED_FROM"

Known(a, b) == a # 0 /\ a = b

sameCaptureDay(f, g) == f.time # 0 /\ g.time # 0 /\ f.time \div 86400 = g.time \div 86400

Boost(holds, by) == IF holds THEN by ELSE 0

Candidate(p, c, rel, tier, conf) ==
    [key |-> [src |-> p, dst |-> c, rel |-> rel], tier |-> tier, conf |-> conf]

----------------------------------------------------------------------------
\* XMPOriginalDocumentIDResolver
XMPOriginalDocumentIDResolver(t, n) ==
    LET parents == {p \in LiveRows(t) \ {n} : Known(Of(t, n).orig, Of(t, p).doc)}
        Match(p) == Candidate(p, n, inferRelationship(Of(t, n), Of(t, p)), 2, 95)
    IN  EachById(parents, Match)

----------------------------------------------------------------------------
\* FilenameStemResolver

\* indexMatchConfidenceCap
IndexCap == 89

\* Mutant: a copy is trusted like any other match.
FullTrust(f, g, conf) == Capped(conf, 90)

\* One side is a numbered copy.
IndexGated(f, g) == "index" \in {f.mark, g.mark}

\* The clamp of a stem match.
StemClamp(f, g, conf) == Capped(conf, IF IndexGated(f, g) THEN IndexCap ELSE 90)

\* The row asked about is the parent after all.
Swapped(child, parent) ==
    \/ IsProxy(parent) /\ ~IsProxy(child)
    \/ /\ ~IsProxy(parent) /\ ~IsProxy(child)
       /\ \/ parent.mark = "role" /\ child.mark = "none"
          \/ IsRaw(child) /\ IsExport(parent)

\* What the resolver, asked about row c, proposes for c and another row p.
StemPair(t, c, p) ==
    LET f == Of(t, c)
        g == Of(t, p)
        anchored == IndexGated(f, g) => f.mark = "index" /\ g.mark = "none"
        boost == Boost(sameCaptureDay(f, g), 15) + Boost(Known(f.camera, g.camera), 10)
        sameDir == Known(f.dir, g.dir)
        Pair(child, parent, rel, conf) ==
            {Candidate(parent, child, rel, 2, StemClamp(f, g, conf))}
    IN  CASE ~anchored \/ (f.ext = "srt" /\ g.ext = "srt") -> {}
          [] anchored /\ "srt" \in {f.ext, g.ext} /\ f.ext # g.ext ->
                LET srt == IF f.ext = "srt" THEN c ELSE p
                    video == IF f.ext = "srt" THEN p ELSE c
                IN  IF Of(t, video).ext = "video" /\ sameDir /\ Of(t, srt).dji
                       /\ ~(srt = p /\ IndexGated(f, g))
                      THEN Pair(srt, video, "PROXY_OF", 70 + boost) ELSE {}
          [] OTHER ->
                LET conf == 60 + boost + Boost(sameDir, 10)
                IN  CASE ~Swapped(f, g) -> Pair(c, p, inferRelationship(f, g), conf)
                      [] Swapped(f, g) /\ ~IndexGated(f, g) ->
                            Pair(p, c, inferRelationship(g, f), conf)
                      [] OTHER -> {}

FilenameStemResolver(t, n) ==
    LET found == {p \in LiveRows(t) \ {n} :
                    Known(Of(t, n).stem, Of(t, p).stem) /\ StemPair(t, n, p) # {}}
        Match(p) == CHOOSE x \in StemPair(t, n, p) : TRUE
    IN  EachById(found, Match)

----------------------------------------------------------------------------
\* HeuristicSpatialTemporalResolver: camera and two seconds; the best raw only.

Apart(f, g) == IF f.time > g.time THEN f.time - g.time ELSE g.time - f.time

\* MaxInt in the code: a hash is missing.
Far == 1000

Distance(f, g) == IF f.phash = 0 \/ g.phash = 0 THEN Far ELSE Hamming[f.phash, g.phash]

HeuristicScore(f, g) ==
    LET lens == 70 + Boost(Known(f.lens, g.lens), 10)
    IN  IF Distance(f, g) = Far THEN Capped(lens, 79) ELSE Capped(lens + 9, 89)

\* f may be an export of the raw g.
SameShot(f, g) ==
    /\ Known(f.serial, g.serial) /\ f.time # 0 /\ g.time # 0 /\ Apart(f, g) <= 2
    /\ IsRaw(g) /\ IsExport(f)
    /\ Distance(f, g) <= 10 \/ Distance(f, g) = Far

HeuristicSpatialTemporalResolver(t, n) ==
    LET f == Of(t, n)
        raws == {p \in LiveRows(t) \ {n} : SameShot(f, Of(t, p))}
        \* the order of betterThanBest
        Rank(p) == <<-HeuristicScore(f, Of(t, p)), Distance(f, Of(t, p)), Apart(f, Of(t, p)), p>>
        Before(x, y) ==
            \E i \in 1..4 : x[i] < y[i] /\ \A j \in 1..(i - 1) : x[j] = y[j]
        best == {p \in raws : \A q \in raws \ {p} : Before(Rank(p), Rank(q))}
        Match(p) == Candidate(p, n, inferRelationship(f, Of(t, p)), 3, HeuristicScore(f, Of(t, p)))
    IN  EachById(best, Match)

----------------------------------------------------------------------------
\* ProjectSidecarResolver

\* resolveReference: the first path with a live row, or the only row of that name.
Referred(t, ref) ==
    LET at(i) == LiveAt(t, ref.paths[i])
        hits  == {i \in DOMAIN ref.paths : at(i) # {}}
        named == {n \in LiveRows(t) : Known(ref.name, Of(t, n).name)}
    IN  IF hits # {} THEN at(CHOOSE i \in hits : \A j \in hits : i <= j)
        ELSE IF Cardinality(named) = 1 THEN named ELSE {}

\* What an .xmp stands beside.
Siblings(t, n) ==
    LET f == Of(t, n)
    IN  {p \in LiveRows(t) \ {n} :
            LET g == Of(t, p)
            IN  /\ Known(f.stem, g.stem) \/ Known(f.alt, g.stem)
                /\ g.ext # "xmp" /\ g.dir = f.dir
                /\ g.mark = "index" => g.bare = f.bare}

ProjectSidecarResolver(t, n) ==
    LET f == Of(t, n)
        referred == [i \in DOMAIN f.refs |-> Referred(t, f.refs[i]) \ {n}]
        upTo(i)  == UNION {referred[j] : j \in 1..i}
        beside   == IF f.ext = "xmp" THEN Siblings(t, n) \ upTo(Len(f.refs)) ELSE {}
        \* each row once, in the order of the references
        first    == {i \in DOMAIN f.refs : referred[i] # {} /\ referred[i] \cap upTo(i - 1) = {}}
        Parent(i) == CHOOSE p \in referred[i] : TRUE
        byRef    == EachById(first, Parent)
        parents  == byRef \o ById(beside)
    IN  IF IsProject(f) THEN [i \in DOMAIN parents |->
                                 Candidate(parents[i], n, "PROJECT_SIDECAR", 1, 100)]
        ELSE <<>>

----------------------------------------------------------------------------
\* mergeCandidates: per edge the most confident, the first of equals.
mergeCandidates(cs) ==
    LET Best(i) == \A j \in DOMAIN cs : cs[j].key = cs[i].key =>
                      cs[j].conf < cs[i].conf \/ (cs[j].conf = cs[i].conf /\ i <= j)
        first   == {i \in DOMAIN cs : \A j \in 1..(i - 1) : cs[j].key # cs[i].key}
        Winner(i) == cs[CHOOSE j \in DOMAIN cs : cs[j].key = cs[i].key /\ Best(j)]
    IN  EachById(first, Winner)

\* The resolvers in the order NewEngine registers them.
ProposedFor(t, n) ==
    mergeCandidates(ProjectSidecarResolver(t, n) \o XMPOriginalDocumentIDResolver(t, n)
                    \o FilenameStemResolver(t, n) \o HeuristicSpatialTemporalResolver(t, n))
=============================================================================
