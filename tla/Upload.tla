------------------------------- MODULE Upload -------------------------------
(***************************************************************************)
(* internal/httpapi/upload_engine.go: processUploadedStream, one upload at *)
(* a time per uploader.  The bytes go to disk first, under a name nothing  *)
(* holds, and the row is inserted after; in between, other uploads, scans  *)
(* and the watcher see the file.  Every error path unlinks what the upload *)
(* wrote, by name.                                                         *)
(***************************************************************************)
EXTENDS Library

CONSTANTS
    Uploader,    \* the requests in flight
    Sent,        \* [Uploader -> Content]: the bytes of the body
    Asked,       \* [Uploader -> Path]: the name the template gives
    Suffixed,    \* [Path -> Path]: the next name when one is taken
    ExportOf,    \* [Path -> Path \cup {NoPath}]: the hardlink for Immich
    NoPath,
    Part         \* what a scan sees of a file still being written

ASSUME UploadAssumption ==
    /\ Sent \in [Uploader -> Content]
    /\ Asked \in [Uploader -> Path]
    /\ Suffixed \in [Path -> Path]
    /\ NoPath \notin Path /\ ExportOf \in [Path -> Path \cup {NoPath}]
    /\ Part \in Content

VARIABLES
    upload,    \* the request of each uploader
    acked,     \* contents some upload was acknowledged for
    excused,   \* contents whose last file may be gone, and the code's doing
    stuck      \* history: paths of files an upload failed to unlink

uploadVars == <<upload, acked, excused, stuck>>

\* linked: the upload made the export at ExportOf[path].
Request == [step   : {"begin", "create", "copy", "dedup", "link", "insert",
                      "undo", "recheck", "done", "died"},
            path   : Path,
            linked : BOOLEAN]

\* The uploads of U are still to come, the others are over.
UploadInit(U) ==
    /\ upload = [u \in Uploader |->
                   [step |-> IF u \in U THEN "begin" ELSE "done", path |-> Asked[u],
                    linked |-> FALSE]]
    /\ acked = {} /\ excused = {} /\ stuck = {}

InDoubt(u) == upload[u].step \notin {"begin", "create", "done", "died"}

To(u, step) == upload' = [upload EXCEPT ![u].step = step]

Acknowledge(u) == To(u, "done") /\ acked' = acked \cup {Sent[u]}

Refuse(u) == To(u, "done") /\ UNCHANGED acked

Export(u) == IF upload[u].linked THEN ExportOf[upload[u].path] ELSE NoPath

\* The files an upload may still unlink.
Held(u) == {upload[u].path, Export(u)} \cap Path

\* dedupUploadResult: the index owns the content, and is taken at its word.
Deduplicated(u) ==
    LET held  == UNION {Held(v) : v \in {w \in Uploader \ {u} : InDoubt(w)}}
        there == {n \in Owners(nodes, Sent[u]) : disk'[nodes[n].path] = Sent[u]}
    IN  /\ Acknowledge(u)
        /\ excused' = IF \E n \in there : nodes[n].path \notin held
                      THEN excused ELSE excused \cup {Sent[u]}

\* removeFile of the paths S, whoever else has come to know the files.  Each
\* removal may fail, and no caller looks at its error.
Unlink(S, kept) ==
    /\ disk' = [p \in Path |-> IF p \in S \ kept THEN NoFile ELSE disk[p]]
    /\ stuck' = stuck \cup kept

\* The files of S whose removal fails.
Kept(S) == SUBSET {p \in S : disk[p] # NoFile}

\* What is lost when someone else takes the files S away.
Taken(S) == ({disk[p] : p \in S} \ {NoFile})
            \cup {Sent[u] : u \in {v \in Uploader : InDoubt(v) /\ upload[v].path \in S}}

----------------------------------------------------------------------------
\* A trusted X-Blake3-Hash of bytes the library owns: nothing is written.
PreDedup(u) ==
    /\ upload[u].step = "begin"
    /\ Owners(nodes, Sent[u]) # {}
    /\ Mishap /\ UNCHANGED <<nodes, stat, disk, stuck>>
    /\ Deduplicated(u)

Begin(u) ==
    /\ upload[u].step = "begin" /\ Mishap
    /\ To(u, "create")
    /\ UNCHANGED <<nodes, stat, disk, acked, excused, stuck>>

\* Mutant: the file is opened without O_EXCL.
NeverTaken(p) == FALSE

\* CreateExcl fails.
NameTaken(p) == disk[p] # NoFile

\* CreateExcl, with the next suffix while the name is taken.
Create(u) ==
    LET p == upload[u].path
    IN  /\ upload[u].step = "create"
        /\ IF NameTaken(p)
             THEN /\ upload' = [upload EXCEPT ![u].path = Suffixed[p]]
                  /\ UNCHANGED <<disk, stuck>>
             ELSE /\ disk' = [disk EXCEPT ![p] = Part]
                  /\ stuck' = stuck \ {p}
                  /\ To(u, "copy")
        /\ UNCHANGED <<nodes, stat, mishaps, acked, excused>>

\* The stream ends; a file unlinked meanwhile takes the bytes with it.
Copy(u) ==
    LET p == upload[u].path
    IN  /\ upload[u].step = "copy"
        /\ disk' = IF disk[p] = Part THEN [disk EXCEPT ![p] = Sent[u]] ELSE disk
        /\ To(u, "dedup")
        /\ UNCHANGED <<nodes, stat, mishaps, acked, excused, stuck>>

\* The stream breaks, is too long, or is not what X-Blake3-Hash announced.
CopyFails(u) ==
    LET p == upload[u].path
    IN  /\ upload[u].step = "copy" /\ Mishap
        /\ \E kept \in Kept({p}) : Unlink({p}, kept)
        /\ Refuse(u)
        /\ UNCHANGED <<nodes, stat, excused>>

\* The duplicate check on the computed hash.
PostDedup(u) ==
    LET p == upload[u].path
    IN  /\ upload[u].step = "dedup"
        /\ IF Owners(nodes, Sent[u]) = {}
             THEN To(u, "link") /\ UNCHANGED <<disk, mishaps, acked, excused, stuck>>
             ELSE \E kept \in Kept({p}) :
                    /\ Unlink({p}, kept) /\ Deduplicated(u)
                    /\ IF kept = {} THEN UNCHANGED mishaps ELSE Mishap
        /\ UNCHANGED <<nodes, stat>>

\* The hardlink into the exports, after the probes; an existing file is left
\* alone, and a failure is only logged.
Link(u) ==
    LET p == upload[u].path
        x == ExportOf[p]
    IN  /\ upload[u].step = "link"
        /\ IF x \in Path /\ disk[x] = NoFile /\ disk[p] # NoFile
             THEN /\ disk' = [disk EXCEPT ![x] = disk[p]]
                  /\ stuck' = stuck \ {x}
                  /\ upload' = [upload EXCEPT ![u].step = "insert", ![u].linked = TRUE]
             ELSE To(u, "insert") /\ UNCHANGED <<disk, stuck>>
        /\ UNCHANGED <<nodes, stat, mishaps, acked, excused>>

\* The transaction: the master's row with the hash the server computed, and
\* the export's row without one.  Its mtime is the time of the insert.
Inserted(u) ==
    LET c      == Sent[u]
        master == InsertNewNode(nodes, [path |-> upload[u].path, fast |-> FastOf[c],
                                        full |-> c])
        both   == InsertMediaNode(master, Export(u), FastOf[c], NoHash, NoProvenance)
    IN  IF Export(u) = NoPath
          THEN Outcome({}, master, {NextId(nodes)})
          ELSE Outcome({master}, both, {NextId(nodes), NextId(master)})

RowsNeeded(u) == IF Export(u) = NoPath THEN 1 ELSE 2

Insert(u) ==
    LET out == Inserted(u)
    IN  /\ upload[u].step = "insert"
        /\ RowsNeeded(u) <= Cardinality(FreeIds(nodes))
        /\ \/ /\ out.ok /\ UNCHANGED mishaps
              /\ nodes' = out.nodes
              /\ stat' = [n \in Node |-> IF n \in out.seen THEN NoFile ELSE stat[n]]
              /\ Acknowledge(u)
           \/ /\ IF out.ok THEN Mishap ELSE UNCHANGED mishaps
              /\ To(u, "undo")
              /\ UNCHANGED <<nodes, stat, acked>>
        /\ UNCHANGED <<disk, excused, stuck>>

\* Mutant: the clean-up forgets the export.
UndoMaster(u) == {upload[u].path}

UndoPaths(u) == Held(u)

\* The clean-up after a failed insert ...
Undo(u) ==
    /\ upload[u].step = "undo"
    /\ \E kept \in Kept(UndoPaths(u)) :
          /\ Unlink(UndoPaths(u), kept)
          /\ IF kept = {} THEN UNCHANGED mishaps ELSE Mishap
    /\ To(u, "recheck")
    /\ UNCHANGED <<nodes, stat, acked, excused>>

\* ... and the answer: a duplicate after all, or an error.
Recheck(u) ==
    /\ upload[u].step = "recheck"
    /\ UNCHANGED <<library, stuck>>
    /\ IF Owners(nodes, Sent[u]) # {} THEN Deduplicated(u)
       ELSE Refuse(u) /\ UNCHANGED excused

UploadStep(u) ==
    \/ PreDedup(u) \/ Begin(u) \/ Create(u) \/ Copy(u) \/ CopyFails(u)
    \/ PostDedup(u) \/ Link(u) \/ Insert(u) \/ Undo(u) \/ Recheck(u)

\* The process dies: the request with it, the files stay.
UploadsDie ==
    upload' = [u \in Uploader |-> [upload[u] EXCEPT
                 !.step = IF @ \in {"begin", "done"} THEN @ ELSE "died"]]

----------------------------------------------------------------------------
\* A content a client was told is stored has a file with its bytes, unless
\* someone else took its file away, or the index was taken at its word where it
\* should not have been: the row that owned the content had no file any more, or
\* its file was that of an upload still to insert its own row, which a scan or
\* the watcher had indexed first and the upload would unlink.
AckedContentKept == \A c \in acked \ excused : \E p \in Path : disk[p] = c
=============================================================================
