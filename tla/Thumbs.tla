------------------------------ MODULE Thumbs ------------------------------
(***************************************************************************)
(* Thumbnails: the worker of internal/thumbs/worker.go, its cache of one   *)
(* JPEG per node, and the request that finds the JPEG gone                 *)
(* (internal/httpapi/thumbnail.go).                                        *)
(***************************************************************************)
EXTENDS Library

CONSTANTS
    Unsupported,      \* versions no thumbnail can be made of
    MaxThumbTries,    \* maxAttempts
    ThumbBatch,       \* the most nodes of one pass
    Tier0             \* locations the server does not see

ASSUME ThumbsAssumption ==
    /\ Unsupported \subseteq Content
    /\ {MaxThumbTries, ThumbBatch} \subseteq Nat \ {0}
    /\ Tier0 \subseteq Loc

VARIABLES
    thumb,     \* thumb_state and thumb_attempts
    cached,    \* cached[n]: the version n's JPEG was made of
    making     \* the nodes of the pass that are not done

thumbs == <<thumb, cached, making>>

ThumbState == {"PENDING", "READY", "FAILED", "UNSUPPORTED"}

\* got: what was generated, NoFile for a failure; "wait" before.
Making == [id : Node, path : Path, tries : 0..MaxThumbTries, made : BOOLEAN, got : File]

Pending0 == [st |-> "PENDING", tries |-> 0]

ThumbsType ==
    /\ thumb \in [Node -> [st : ThumbState, tries : 0..MaxThumbTries]]
    /\ cached \in [Node -> File]
    /\ making \in SUBSET Making

ThumbsInit ==
    /\ thumb = [n \in Node |-> Pending0]
    /\ cached = [n \in Node |-> NoFile]
    /\ making = {}

\* ListPendingThumbnails, without its limit.
PendingThumbnails ==
    {n \in Node : /\ thumb[n].st = "PENDING" /\ nodes[n].state = "ACTIVE"
                  /\ thumb[n].tries < MaxThumbTries /\ LocOf[nodes[n].path] \notin Tier0}

\* The limit: the oldest rows first.
FirstOf(S) == {n \in S : Cardinality({m \in S : m < n}) < ThumbBatch}

InvalidateThumbnail(n) == [thumb EXCEPT ![n] = Pending0]

----------------------------------------------------------------------------
\* ProcessPending claims its nodes; the pass before it is over.
ClaimThumbs ==
    /\ making = {} /\ PendingThumbnails # {}
    /\ making' = {[id |-> n, path |-> nodes[n].path, tries |-> thumb[n].tries,
                   made |-> FALSE, got |-> NoFile] : n \in FirstOf(PendingThumbnails)}
    /\ UNCHANGED <<library, thumb, cached>>

\* Generate and cache.Write.  It may fail on a file that is there.
Generate(j) ==
    /\ j \in making /\ ~j.made
    /\ \E got \in {disk[j.path]} \cup (IF mishaps < MaxMishap THEN {NoFile} ELSE {}) :
          /\ mishaps' = IF got = disk[j.path] THEN mishaps ELSE mishaps + 1
          /\ making' = (making \ {j}) \cup {[j EXCEPT !.made = TRUE, !.got = got]}
          /\ cached' = IF got \in Content \ Unsupported
                       THEN [cached EXCEPT ![j.id] = got] ELSE cached
    /\ UNCHANGED <<nodes, stat, disk, thumb>>

\* A failure is retried until it has reached the bound.
FailedAttempt(j) ==
    [st |-> IF j.tries + 1 >= MaxThumbTries THEN "FAILED" ELSE "PENDING", tries |-> j.tries + 1]

\* processOne and its SetThumbState, whatever became of the row meanwhile.
SetThumbState(j) ==
    /\ j \in making /\ j.made
    /\ making' = making \ {j}
    /\ thumb' = [thumb EXCEPT ![j.id] =
                    CASE j.got = NoFile -> FailedAttempt(j)
                      [] j.got \in Unsupported -> [st |-> "UNSUPPORTED", tries |-> 0]
                      [] OTHER -> [st |-> "READY", tries |-> 0]]
    /\ UNCHANGED <<library, cached>>

\* The write fails and the node stays PENDING.
SetThumbFails(j) ==
    /\ j \in making /\ j.made /\ Mishap
    /\ making' = making \ {j}
    /\ UNCHANGED <<nodes, stat, disk, thumb, cached>>

ThumbStep == ClaimThumbs \/ \E j \in making : Generate(j) \/ SetThumbState(j)

\* handleThumbnail finds the row READY and live and its JPEG gone.
HealThumb(n) ==
    /\ thumb[n].st = "READY" /\ nodes[n].state = "ACTIVE" /\ cached[n] = NoFile
    /\ thumb' = InvalidateThumbnail(n)
    /\ UNCHANGED <<library, cached, making>>

\* The cache is lost, as after a restored backup.
CacheLost(n) ==
    /\ cached[n] # NoFile /\ Mishap
    /\ cached' = [cached EXCEPT ![n] = NoFile]
    /\ UNCHANGED <<nodes, stat, disk, thumb, making>>
=============================================================================
