------------------------------ MODULE Rehash ------------------------------
(***************************************************************************)
(* The re-hash worker: internal/rehash/worker.go.  It reads the masters    *)
(* whose hash a device only asserted, one file at a time and outside any   *)
(* transaction, and records what it found under the condition that the row *)
(* still asserts the hash it was claimed with.                             *)
(***************************************************************************)
EXTENDS Library

CONSTANT RehashBatch    \* the most rows of one claim

ASSUME RehashAssumption == RehashBatch \in Nat \ {0}

VARIABLES
    rehash,    \* the batch claimed, what was read of its first row, the cursor
    tried      \* tried[n]: how the last attempt at an asserted hash ended

rehashing == <<rehash, tried>>

Claim == [id : Node, path : Path, hash : Content]

\* due: rehash_retry_at, or an hour after rehash_checked_at, has come.
Attempt == [hash : FullHash, st : {"NONE", "ERROR", "MISMATCH"}, due : BOOLEAN]

NotTried == [hash |-> NoHash, st |-> "NONE", due |-> FALSE]

RehashType ==
    /\ rehash \in [batch : Seq(Claim),
                   full : BOOLEAN, read : BOOLEAN, got : File, cursor : 0..MaxNode]
    /\ tried \in [Node -> Attempt]

RehashInit ==
    /\ rehash = [batch |-> <<>>, full |-> FALSE, read |-> FALSE, got |-> NoFile, cursor |-> 0]
    /\ tried = [n \in Node |-> NotTried]

\* A device asserts the row's hash, and no attempt at it has ended for good.
Asserted(row) == row.full # NoHash /\ row.prov = [src |-> "AGENT", hash |-> row.full]

\* What was recorded of another hash is reset with the hash.
AttemptAt(n) == IF tried[n].hash = nodes[n].full THEN tried[n] ELSE NotTried

\* Mutant: a mismatch is final.
ErrorsOnly(n) ==
    /\ Asserted(nodes[n]) /\ LocOf[nodes[n].path] \in Tier3 /\ nodes[n].state = "ACTIVE"
    /\ AttemptAt(n).st = "NONE" \/ (AttemptAt(n).st = "ERROR" /\ AttemptAt(n).due)

\* ListRehashCandidates, without its cursor and limit.
RehashCandidate(n) ==
    /\ Asserted(nodes[n]) /\ LocOf[nodes[n].path] \in Tier3 /\ nodes[n].state = "ACTIVE"
    /\ AttemptAt(n).st = "NONE" \/ AttemptAt(n).due

\* The first rows after the cursor.
ClaimsAfter(k) ==
    LET at[i \in 0..MaxNode] ==
            IF i = 0 THEN <<>>
            ELSE IF i > k /\ RehashCandidate(i) /\ Len(at[i - 1]) < RehashBatch
              THEN Append(at[i - 1], [id |-> i, path |-> nodes[i].path, hash |-> nodes[i].full])
              ELSE at[i - 1]
    IN  at[MaxNode]

----------------------------------------------------------------------------
\* ProcessBatch begins: a batch that is not full is the last before the cursor
\* starts over.
ClaimBatch ==
    LET claims == ClaimsAfter(rehash.cursor)
    IN  /\ rehash.batch = <<>>
        /\ claims # <<>> \/ rehash.cursor # 0
        /\ rehash' = [rehash EXCEPT !.batch = claims, !.full = Len(claims) = RehashBatch,
                                    !.cursor = IF claims = <<>> THEN 0 ELSE @]
        /\ UNCHANGED <<library, tried>>

\* hashFile, through the guard's read path.
ReadBytes ==
    /\ rehash.batch # <<>> /\ ~rehash.read
    /\ rehash' = [rehash EXCEPT !.read = TRUE, !.got = disk[rehash.batch[1].path]]
    /\ UNCHANGED <<library, tried>>

\* MarkRehashMatched
MarkRehashMatched(t, c) ==
    IF t[c.id].prov = [src |-> "AGENT", hash |-> c.hash]
      THEN [t EXCEPT ![c.id].prov.src = "SERVER"] ELSE t

\* RecordRehashError and RecordRehashMismatch
RecordAttempt(c, st) ==
    IF nodes[c.id].prov = [src |-> "AGENT", hash |-> c.hash]
      THEN [tried EXCEPT ![c.id] = [hash |-> c.hash, st |-> st, due |-> FALSE]] ELSE tried

\* processOne has its answer, and the cursor moves on.
Record ==
    LET c    == rehash.batch[1]
        last == Len(rehash.batch) = 1
    IN  /\ rehash.read
        /\ \/ rehash.got = c.hash
              /\ nodes' = MarkRehashMatched(nodes, c)
              /\ tried' = [tried EXCEPT ![c.id] =
                              IF nodes' = nodes THEN @ ELSE NotTried]
           \/ /\ rehash.got # c.hash
              /\ tried' = RecordAttempt(c, IF rehash.got = NoFile THEN "ERROR" ELSE "MISMATCH")
              /\ UNCHANGED nodes
        /\ rehash' = [rehash EXCEPT !.batch = Tail(@), !.read = FALSE, !.got = NoFile,
                                    !.cursor = IF last /\ ~rehash.full THEN 0 ELSE c.id]
        /\ UNCHANGED <<stat, disk, mishaps>>

\* The transaction fails: ProcessBatch gives up, the cursor stays.
RecordFails ==
    /\ rehash.read /\ Mishap
    /\ rehash' = [rehash EXCEPT !.batch = <<>>, !.read = FALSE, !.got = NoFile]
    /\ UNCHANGED <<nodes, stat, disk, tried>>

RehashStep == ClaimBatch \/ ReadBytes \/ Record

\* The wait after an attempt is over: an hour, or the doubling backoff of a mismatch.
RetryTime(n) ==
    /\ tried[n].st # "NONE" /\ ~tried[n].due
    /\ tried' = [tried EXCEPT ![n].due = TRUE]
    /\ UNCHANGED <<library, rehash>>
=============================================================================
