------------------------------ MODULE Library ------------------------------
(***************************************************************************)
(* The library a process works on: the rows of media_nodes as last         *)
(* committed, the files on disk, and what every path into the index        *)
(* shares: processFile of internal/pipeline/result.go and the transaction  *)
(* of Commit.                                                              *)
(***************************************************************************)
EXTENDS Commit, Sequences

CONSTANTS
    NoFile,          \* no file at this path
    InitNodes, InitDisk,
    Tier3,           \* the locations that are master archives
    FullHashPolicy,  \* "always", "never" or "tier3_and_collision"
    MaxMishap        \* bound: what happens from outside, faults, crashes

File == Content \cup {NoFile}

ASSUME LibraryAssumption ==
    /\ InitNodes \in Table /\ Schema(InitNodes)
    /\ NoFile \notin Content
    /\ InitDisk \in [Path -> File]
    /\ Tier3 \subseteq Loc
    /\ FullHashPolicy \in {"always", "never", "tier3_and_collision"}
    /\ MaxMishap \in Nat

VARIABLES
    nodes,     \* media_nodes, as last committed
    stat,      \* stat[n]: the version whose size and mtime row n records
    disk,      \* the file at each path
    mishaps    \* bounded events so far

library == <<nodes, stat, disk, mishaps>>

\* The process starts with the table t and the files d.
LibraryStarts(t, d) ==
    /\ nodes = t
    /\ stat = [n \in Node |-> IF t[n].full \in Content THEN t[n].full ELSE NoFile]
    /\ disk = d

LibraryInit == LibraryStarts(InitNodes, InitDisk) /\ mishaps = 0

Mishap == mishaps < MaxMishap /\ mishaps' = mishaps + 1

Elements(s) == {s[i] : i \in DOMAIN s}

----------------------------------------------------------------------------
\* A file's size and mtime stand for its version: a rewrite changes them.
FileResult == [path : Path, fast : FastHash, full : FullHash, stat : Content]

\* Another live row has the fast hash of version c, found at path p.
FastHashCollides(p, c) ==
    \E n \in Node : Live(nodes[n]) /\ nodes[n].fast = FastOf[c] /\ nodes[n].path # p

NeedsFullHash(p, collision) ==
    CASE FullHashPolicy = "always" -> TRUE
      [] FullHashPolicy = "never" -> FALSE
      [] OTHER -> LocOf[p] \in Tier3 \/ collision

FullHashStillValid(p, c) ==
    /\ FullHashPolicy # "always"
    /\ \E n \in LiveAt(nodes, p) : nodes[n].full # NoHash /\ stat[n] = c

\* What processFile makes of version c at path p.
HashedAs(p, c, full) ==
    [path |-> p, fast |-> FastOf[c], stat |-> c, full |-> IF full THEN c ELSE NoHash]

\* processFile with a database to ask.
Processed(p, c) ==
    HashedAs(p, c, NeedsFullHash(p, FastHashCollides(p, c)) /\ ~FullHashStillValid(p, c))

\* The results of a batch, one after the other in one transaction.
CommitBatch(results) ==
    LET step[i \in 0..Len(results)] ==
            IF i = 0 THEN [ok |-> TRUE, nodes |-> nodes, stat |-> stat, seen |-> {}]
            ELSE LET before == step[i - 1]
                     out    == CommitOne(before.nodes, results[i])
                 IN  IF ~before.ok THEN before
                     ELSE [ok    |-> out.ok,
                           nodes |-> out.nodes,
                           stat  |-> [n \in Node |-> IF n \in out.seen
                                                     THEN results[i].stat
                                                     ELSE before.stat[n]],
                           seen  |-> before.seen \cup out.seen]
    IN  step[Len(results)]
=============================================================================
