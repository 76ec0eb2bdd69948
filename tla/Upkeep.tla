------------------------------ MODULE Upkeep ------------------------------
(***************************************************************************)
(* What a server does to a library it has indexed: it purges caches,       *)
(* re-hashes masters, writes tags into files and makes thumbnails, while   *)
(* scans go on, people review edges, devices re-point rows and other       *)
(* programs write files.                                                   *)
(***************************************************************************)
EXTENDS Prune, Rehash, Inherit

CONSTANTS
    Duties,      \* bounds: what goes on together
    Foreign,     \* what others may write, <<path, version>>
    Owned        \* the rows a device created

ASSUME UpkeepAssumption ==
    /\ Duties \subseteq SUBSET {"purge", "rehash", "inherit", "thumbs", "scan", "device", "person"}
    /\ Foreign \subseteq Path \X File
    /\ Owned \subseteq Node

VARIABLES
    found,     \* a scan result that is not committed: <<>> or <<result>>
    clean,     \* and its file has not been written to since
    except,    \* what the properties except, <<reason, row>>
    duty       \* the member of Duties this behaviour is about

vars == <<library, lineage, pruning, rehashing, thumbs, inheriting, found, clean, except, duty>>

\* unread: a device re-pointed the row, and the re-hash worker has not since
\* read, at its path, the version that its hash is of and its mtime stands for.
Reason == {"rewritten", "unread", "unrefreshed"}

TypeOK ==
    /\ nodes \in Table /\ stat \in [Node -> File] /\ disk \in [Path -> File]
    /\ mishaps \in 0..MaxMishap
    /\ LineageType /\ PruneType /\ RehashType /\ ThumbsType /\ InheritType
    /\ found \in {<<>>} \cup {<<r>> : r \in FileResult}
    /\ clean \in BOOLEAN /\ except \subseteq Reason \X Node /\ duty \in Duties

Init ==
    /\ LibraryInit /\ LineageInit
    /\ PruneInit /\ RehashInit /\ ThumbsInit /\ InheritInit
    /\ found = <<>> /\ clean = FALSE /\ except = {} /\ duty \in Duties

On(f) == f \in duty /\ UNCHANGED duty

\* A step of something else than the scan.
NotScan ==
    /\ found' = found
    /\ clean' = (clean /\ disk' = disk)

----------------------------------------------------------------------------
\* A scan hashes a file, on the pool of workers.
ScanReads(p) ==
    /\ found = <<>> /\ disk[p] # NoFile
    /\ found' = <<Processed(p, disk[p])>>
    /\ clean' = ~\E i \in Inheritor : heir[i].at \in {"written", "retry"} /\ heir[i].path = p
    /\ UNCHANGED <<library, lineage, rehashing, thumbs, inheriting, except>>

\* Commit of its batch; a batch that fails is lost.
ScanCommits ==
    LET out == CommitBatch(found)
    IN  /\ found # <<>>
        /\ FreeIds(nodes) # {}
        /\ nodes' = IF out.ok THEN out.nodes ELSE nodes
        /\ stat' = IF out.ok THEN out.stat ELSE stat
        /\ except' = LET seen == {<<"rewritten", n>> : n \in out.seen}
                     IN  IF ~out.ok THEN except
                         ELSE IF clean THEN except \ seen ELSE except \cup seen
        /\ found' = <<>> /\ clean' = FALSE
        /\ UNCHANGED <<disk, mishaps, lineage, rehashing, thumbs, inheriting>>

\* The sweep of a scan.
Sweep(n) ==
    /\ nodes[n].state = "ACTIVE" /\ disk[nodes[n].path] = NoFile
    /\ nodes' = MarkNodeMissing(nodes, n)
    /\ UNCHANGED <<stat, disk, mishaps, lineage, rehashing, thumbs, inheriting, except>>

\* A person archives an asset.
Archive(n) ==
    /\ Live(nodes[n]) /\ Mishap
    /\ nodes' = ArchiveMediaNode(nodes, n)
    /\ UNCHANGED <<stat, disk, lineage, rehashing, thumbs, inheriting, except>>

\* A device re-points a row of its own (see Agent).  The mtime is what the
\* device says it is; a hash it gives fills an empty one only.
DeviceRebases(n, p, h, s) ==
    LET moved  == [nodes EXCEPT ![n].path = p, ![n].state = "ACTIVE"]
        hashed == RecordFullHashSource(UpdateMediaNodeFullHash(moved, n, h), n, h, "AGENT")
        after  == IF nodes[n].full = NoHash /\ h # NoHash THEN hashed ELSE moved
    IN  /\ Live(nodes[n]) /\ Mishap
        /\ disk[p] # NoFile
        /\ h = NoHash \/ nodes[n].full \in {NoHash, h}
        /\ Schema(after)
        /\ nodes' = after
        /\ stat' = [stat EXCEPT ![n] = s]
        /\ except' = except \cup {<<"unread", n>>}
        /\ UNCHANGED <<disk, lineage, rehashing, thumbs, inheriting>>

\* Another program writes, restores or removes a file.
Write(p, c) ==
    /\ <<p, c>> \in Foreign /\ disk[p] # c
    /\ Mishap
    /\ disk' = [disk EXCEPT ![p] = c]
    /\ except' = except \cup {<<"rewritten", n>> : n \in LiveAt(nodes, p)}
    /\ UNCHANGED <<nodes, stat, lineage, rehashing, thumbs, inheriting>>

\* The process dies and is started again.
Restart ==
    /\ Mishap
    /\ purge' = NoPurge /\ calm' = FALSE
    /\ rehash' = [rehash EXCEPT !.batch = <<>>, !.read = FALSE, !.got = NoFile, !.cursor = 0]
    /\ making' = {}
    /\ heir' = [i \in Inheritor |->
                   IF heir[i].at = "idle" THEN heir[i] ELSE [NoHeir EXCEPT !.at = "done"]]
    /\ found' = <<>> /\ clean' = FALSE
    /\ except' = except \cup {<<"unrefreshed", heir[i].child>> :
                     i \in {x \in Inheritor : heir[x].at \in {"written", "retry"}}}
    /\ UNCHANGED <<nodes, stat, disk, lineage, tried, thumb, cached, derived>>

----------------------------------------------------------------------------
Purges ==
    /\ On("purge") /\ PruneStep /\ NotScan
    /\ UNCHANGED <<rehashing, thumbs, inheriting, except>>

\* The row that a step which reads its file finds to be as it says.
Verified ==
    LET c == rehash.batch[1]
    IN  {n \in Node : /\ n = c.id /\ nodes[n].path = c.path
                      /\ {nodes[n].full, stat[n], disk[c.path]} = {c.hash}}

Rehashes ==
    /\ On("rehash") /\ RehashStep
    /\ except' = IF ~rehash.read /\ rehash'.read
                 THEN except \ {<<"unread", n>> : n \in Verified} ELSE except
    /\ UNCHANGED <<lineage, thumbs, inheriting>>
    /\ Beside /\ NotScan

RehashWaits ==
    /\ On("rehash") /\ \E n \in Node : RetryTime(n)
    /\ UNCHANGED <<lineage, thumbs, inheriting, except>>
    /\ Beside /\ NotScan

RehashFault ==
    /\ On("rehash") /\ RecordFails
    /\ UNCHANGED <<lineage, thumbs, inheriting, except>>
    /\ Beside /\ NotScan

Thumbnails ==
    /\ On("thumbs") /\ ThumbStep
    /\ UNCHANGED <<lineage, rehashing, inheriting, except>>
    /\ Beside /\ NotScan

CacheFaults ==
    /\ On("thumbs")
    /\ \/ \E j \in making : SetThumbFails(j)
       \/ \E n \in Node : HealThumb(n) \/ CacheLost(n)
    /\ UNCHANGED <<lineage, rehashing, inheriting, except>>
    /\ Beside /\ NotScan

\* The rows that do not get to describe what this step leaves: after a refresh
\* that failed the child, and after a write any other row that has come to be
\* at the path since the child was loaded.
Unrefreshed(i) ==
    CASE heir[i].at \in {"written", "retry"} /\ heir'[i].at = "done" /\ nodes' = nodes ->
            {heir[i].child}
      [] heir[i].at = "writing" /\ disk' # disk -> LiveAt(nodes, heir[i].path) \ {heir[i].child}
      [] OTHER -> {}

Inherits(i) ==
    /\ On("inherit") /\ InheritStep(i)
    /\ except' = except \cup {<<"unrefreshed", n>> : n \in Unrefreshed(i)}
    /\ UNCHANGED rehashing
    /\ Beside /\ NotScan

Scans == On("scan") /\ ((\E p \in Path : ScanReads(p)) \/ ScanCommits) /\ Beside

Outside ==
    /\ \/ On("scan") /\ \E n \in Node : Sweep(n)
       \/ On("person") /\ \E n \in Node : Archive(n)
       \/ On("person") /\ PersonReviews /\ UNCHANGED <<rehashing, thumbs, inheriting, except>>
       \/ /\ On("device")
          /\ \E n \in Owned, p \in Path, h \in FullHash :
                DeviceRebases(n, p, h, stat[n]) \/ DeviceRebases(n, p, h, disk[p])
       \/ UNCHANGED duty /\ \E p \in Path, c \in File : Write(p, c)
    /\ Beside /\ NotScan

Next ==
    \/ Purges \/ Rehashes \/ RehashWaits \/ RehashFault \/ Thumbnails \/ CacheFaults
    \/ \E i \in Inheritor : Inherits(i)
    \/ Scans \/ Outside
    \/ UNCHANGED duty /\ Restart

Spec == Init /\ [][Next]_vars

\* The workers' goroutines run, and the time of a retry comes.
FairSpec ==
    /\ Spec
    /\ WF_vars(Rehashes) /\ WF_vars(RehashWaits) /\ WF_vars(Thumbnails)

----------------------------------------------------------------------------
Unlinks == purge.at = "unlinking" /\ purge'.at = "marking"

\* What a purge unlinks is the version it planned, and a live master of it
\* holds the bytes its verified hash names (prune.execute), if nothing changed
\* in the instant between the last look and the unlink.  Excepted is a master
\* that a device re-pointed and that is taken for verified though no one has
\* since read the version its mtime stands for: its provenance row was SERVER
\* and stays so, or becomes SERVER when the re-hash worker records what it read
\* at the path the row had before, or there before the device gave the mtime.
PurgeLeavesMaster ==
    [][Unlinks /\ calm =>
         /\ disk[purge.todo[1].path] = purge.todo[1].stat
         /\ \E a \in VerifiedMasters(purge.todo[1].id) :
               \/ disk[a.path] = nodes[a.id].full
               \/ <<"unread", a.id>> \in except]_vars

\* A purge needs a master that the server has read at the path its row names
\* (docs/operations.md:131-136) and that still has the mtime it was verified with
\* (prune/engine.go:356-358): as PurgeLeavesMaster, with no master excepted.
PurgeReadsMaster ==
    [][Unlinks /\ calm =>
         \E a \in VerifiedMasters(purge.todo[1].id) : disk[a.path] = nodes[a.id].full]_vars

\* The server's own rewrite of a file never costs its row the identity that
\* its edges hang on: no scan archives the row for it.  Excepted are a scan that
\* read the file before the write and commits after it, or between the write
\* and the refresh (clean), and a refresh that failed; the comment at
\* inherit.go:258 rules the first out.
InheritKeepsIdentity ==
    [][\A n \in Node :
          /\ found # <<>> /\ found' = <<>> /\ clean
          /\ nodes[n].state = "ACTIVE" /\ nodes'[n].state = "ARCHIVED"
          => \E r \in Reason : <<r, n>> \in except]_vars

\* A master whose file holds what the device asserted.
Unverified(n) ==
    /\ Asserted(nodes[n]) /\ nodes[n].state = "ACTIVE"
    /\ LocOf[nodes[n].path] \in Tier3 /\ disk[nodes[n].path] = nodes[n].full

\* The workers get everything done that they owe: a good master does not stay
\* unverified, whatever an earlier attempt at it found (a good copy restored
\* over a damaged one is read again), and every thumbnail is made, given up
\* after MaxThumbTries, or not wanted any more.
UpkeepSettles ==
    /\ "rehash" \in duty => \A n \in Node : []<>~Unverified(n)
    /\ "thumbs" \in duty => <>[](PendingThumbnails = {} /\ making = {})
=============================================================================
