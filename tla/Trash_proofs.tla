---------------------------- MODULE Trash_proofs ----------------------------
(***************************************************************************)
(* Theorems about Trash, for every table, set of files, cascade graph and  *)
(* number of clients its assumptions allow.                                *)
(***************************************************************************)
EXTENDS Trash, Commit_proofs, SequenceTheorems

USE NodeStoreAssumption, TrashAssumption

----------------------------------------------------------------------------
\* Types of the operators the actions are built from.

LEMMA BoundFacts ==
    /\ 0 \in 0..MaxNode /\ 0 \in Time /\ 0 \in 0..MaxMishap
    /\ Node \subseteq 0..MaxNode /\ NoFile \in File
BY DEF Time, File, Node

LEMMA IdleType == Idle \in Request
BY BoundFacts DEF Idle, Request

LEMMA RolledBackType ==
    ASSUME NEW r \in Request
    PROVE  RolledBack(r) \in Request
BY IdleType DEF RolledBack, Request, Idle

LEMMA ProceedType ==
    ASSUME req \in [Client -> Request], NEW c \in Client, NEW ok,
           NEW next \in Request, Proceed(c, ok, next)
    PROVE  req' \in [Client -> Request]
BY RolledBackType DEF Proceed

\* One client's step leaves the requests of the others alone.
LEMMA OthersWait ==
    ASSUME req \in [Client -> Request], NEW c \in Client, NEW d \in Client, c # d,
           ClientStep(d)
    PROVE  req'[c] = req[c]
<1>1. PICK r : req' = [req EXCEPT ![d] = r]
    BY DEF ClientStep, BeginTrash, TrashMaster, TrashExport, CommitTrash, BeginRestore,
           RestoreMaster, RestoreExport, RenameBack, CommitRestore, Fault, Undo,
           ReadArchived, Unarchive, MoveToTrash, RestoreFromTrash, Proceed
<1>2. QED
    BY <1>1

LEMMA MovedType ==
    ASSUME NEW r \in Request, NEW p \in Path, NEW n \in Node, NEW dir \in {"in", "out"},
           NEW at \in Time \cup {OldTime}
    PROVE  Moved(r, p, n, dir, at) \in Request
<1>1. Append(r.moves, [path |-> p, node |-> n, dir |-> dir, at |-> at]) \in Seq(Move)
    BY DEF Request, Move
<1>2. QED
    BY <1>1 DEF Moved, Request

LEMMA FlipType ==
    ASSUME NEW t \in Table, NEW S, NEW s \in LifecycleState
    PROVE  Flip(t, S, s) \in Table
BY DEF Flip, Table, Row

LEMMA SetStateType ==
    ASSUME NEW t \in Table, NEW n \in Node, NEW s \in LifecycleState
    PROVE  SetState(t, n, s) \in Table
BY DEF SetState, Table, Row

LEMMA SetStateRows ==
    ASSUME NEW t \in Table, NEW n \in Node, NEW s, NEW m \in Node
    PROVE  SetState(t, n, s)[m].state = IF m = n THEN s ELSE t[m].state
BY DEF SetState, Table, Row

LEMMA RowType ==
    ASSUME TypeOK, NEW n \in Node
    PROVE  nodes[n] \in Row /\ nodes[n].path \in Path
BY DEF TypeOK, Table, Row

FilesType ==
    /\ disk \in [Path -> File]
    /\ bin \in [Path -> [Node -> File]]
    /\ stamp \in [Path -> [Node -> Time \cup {OldTime}]]
    /\ arrived \in SUBSET Path

LEMMA MoveToTrashType ==
    ASSUME TypeOK, NEW c \in Client, NEW n \in Node, NEW ok, NEW next \in Request,
           MoveToTrash(c, n, ok, next)
    PROVE  FilesType' /\ req' \in [Client -> Request]
<1> DEFINE p == nodes[n].path
<1>1. p \in Path
    BY RowType
<1>2. now \in Time
    BY DEF TypeOK
<1>3. CASE disk[p] = NoFile
    BY <1>3, ProceedType DEF MoveToTrash, TypeOK, FilesType, fileVars
<1>4. CASE disk[p] # NoFile
  <2>1. PICK mtime \in {OldTime, now} :
            /\ disk' = [disk EXCEPT ![p] = NoFile]
            /\ bin' = [bin EXCEPT ![p][n] = disk[p]]
            /\ stamp' = [stamp EXCEPT ![p][n] = mtime]
            /\ Proceed(c, ok, Moved(next, p, n, "in", mtime))
            /\ UNCHANGED arrived
    BY <1>4 DEF MoveToTrash
  <2>2. Moved(next, p, n, "in", mtime) \in Request
    BY <1>1, <1>2, <2>1, MovedType
  <2>3. req' \in [Client -> Request]
    BY <2>1, <2>2, ProceedType DEF TypeOK
  <2>4. FilesType'
    BY <1>1, <1>2, <2>1, BoundFacts DEF TypeOK, FilesType
  <2>5. QED
    BY <2>3, <2>4
<1>5. QED
    BY <1>3, <1>4

LEMMA RestoreFromTrashType ==
    ASSUME TypeOK, NEW c \in Client, NEW n \in Node, NEW tolerant, NEW ok,
           NEW next \in Request, RestoreFromTrash(c, n, tolerant, ok, next)
    PROVE  FilesType' /\ req' \in [Client -> Request]
<1> DEFINE p == nodes[n].path
<1>1. p \in Path
    BY RowType
<1>2. CASE Renames(p, n)
  <2>1. /\ req' = [req EXCEPT ![c].aim = {n}]
        /\ arrived' = {} /\ UNCHANGED <<disk, bin, stamp>>
    BY <1>2 DEF RestoreFromTrash
  <2>2. [req[c] EXCEPT !.aim = {n}] \in Request
    BY DEF TypeOK, Request
  <2>3. QED
    BY <2>1, <2>2 DEF TypeOK, FilesType
<1>3. CASE ~Renames(p, n)
  <2>1. /\ \E okay : Proceed(c, okay, next)
        /\ UNCHANGED fileVars
    BY <1>3 DEF RestoreFromTrash
  <2>2. QED
    BY <2>1, ProceedType DEF TypeOK, FilesType, fileVars
<1>4. QED
    BY <1>2, <1>3

LEMMA RenameBackType ==
    ASSUME TypeOK, NEW c \in Client, RenameBack(c)
    PROVE  FilesType' /\ req' \in [Client -> Request]
<1> DEFINE r == req[c]
<1>1. r \in Request
    BY DEF TypeOK
<1>2. PICK n \in r.aim :
          LET p    == nodes[n].path
              next == [r EXCEPT !.begun = TRUE, !.aim = {}, !.todo = @ \ {n},
                                !.marked = @ \cup {n}]
          IN  IF bin[p][n] = NoFile
                THEN Proceed(c, FALSE, r) /\ UNCHANGED fileVars
                ELSE /\ disk' = [disk EXCEPT ![p] = bin[p][n]]
                     /\ bin' = [bin EXCEPT ![p][n] = NoFile]
                     /\ stamp' = [stamp EXCEPT ![p][n] = 0]
                     /\ Proceed(c, MarkAllowed(r, n),
                                Moved(next, p, n, "out", stamp[p][n]))
                     /\ UNCHANGED arrived
    BY DEF RenameBack
<1> DEFINE p    == nodes[n].path
           next == [r EXCEPT !.begun = TRUE, !.aim = {}, !.todo = @ \ {n},
                             !.marked = @ \cup {n}]
<1>3. n \in Node /\ p \in Path
    BY <1>1, <1>2, RowType DEF Request
<1>4. next \in Request
    BY <1>1, <1>3 DEF Request
<1>5. CASE bin[p][n] = NoFile
    BY <1>1, <1>2, <1>5, ProceedType DEF TypeOK, FilesType, fileVars
<1>6. CASE bin[p][n] # NoFile
  <2>1. Moved(next, p, n, "out", stamp[p][n]) \in Request
    BY <1>3, <1>4, MovedType DEF TypeOK
  <2>2. req' \in [Client -> Request]
    BY <1>2, <1>6, <2>1, ProceedType DEF TypeOK
  <2>3. /\ disk' = [disk EXCEPT ![p] = bin[p][n]]
        /\ bin' = [bin EXCEPT ![p][n] = NoFile]
        /\ stamp' = [stamp EXCEPT ![p][n] = 0]
        /\ UNCHANGED arrived
    BY <1>2, <1>6
  <2>4. FilesType'
    BY <1>3, <2>3, BoundFacts DEF TypeOK, FilesType
  <2>5. QED
    BY <2>2, <2>4
<1>7. QED
    BY <1>5, <1>6

----------------------------------------------------------------------------
\* A scan of the file at p writes a table (Commit_proofs) and keeps retired rows.
LEMMA ScanKeeps ==
    ASSUME TypeOK, NEW p \in Path, Scan(p)
    PROVE  nodes' \in Table /\ KeepsRetired(nodes, nodes')
<1>1. PICK full \in {NoHash, disk[p]} :
          nodes' = CommitOne(nodes, [path |-> p, fast |-> FastOf[disk[p]], full |-> full]).nodes
    BY DEF Scan
<1>2. disk[p] \in Content
    BY DEF Scan, TypeOK, File
<1>3. Hashed([path |-> p, fast |-> FastOf[disk[p]], full |-> full])
    BY <1>1, <1>2, NodeStoreAssumption DEF Hashed, FullHash
<1>4. FreeIds(nodes) # {} /\ nodes \in Table
    BY DEF Scan, TypeOK
<1>5. QED
    BY <1>1, <1>3, <1>4, CommitKeepsRetired

LEMMA UndoType ==
    ASSUME TypeOK, NEW c \in Client, Undo(c)
    PROVE  FilesType' /\ req' \in [Client -> Request] /\ mishaps' \in 0..MaxMishap
<1> DEFINE r    == req[c]
           m    == r.moves[Len(r.moves)]
           p    == m.path
           n    == m.node
           file == IF m.dir = "in" THEN bin[p][n] ELSE disk[p]
           rest == [r EXCEPT !.moves = SubSeq(@, 1, Len(@) - 1)]
<1>1. r \in Request
    BY DEF TypeOK
<1>2. r.moves # <<>> /\ r.moves \in Seq(Move)
    BY <1>1 DEF Undo, Request
<1>3. rest \in Request
  <2>1. SubSeq(r.moves, 1, Len(r.moves) - 1) \in Seq(Move)
    <3>1. \A i \in 1 .. Len(r.moves) - 1 : r.moves[i] \in Move
        BY <1>2
    <3>2. Len(r.moves) - 1 \in Int
        BY <1>2
    <3>3. QED
        BY <3>1, <3>2, SubSeqProperties
  <2>2. QED
    BY <1>1, <2>1 DEF Request
<1>4. req' \in [Client -> Request]
  <2>1. Proceed(c, FALSE, rest)
    BY DEF Undo
  <2>2. QED
    BY <1>3, <2>1, ProceedType DEF TypeOK
<1>5. mishaps' \in 0..MaxMishap
  <2>1. mishaps' = mishaps \/ (mishaps < MaxMishap /\ mishaps' = mishaps + 1)
    BY DEF Undo
  <2>2. mishaps \in 0..MaxMishap
    BY DEF TypeOK
  <2>3. QED
    BY <2>1, <2>2
<1>6. FilesType'
  <2>1. CASE UNCHANGED fileVars
    BY <2>1 DEF TypeOK, FilesType, fileVars
  <2>2. CASE /\ disk' = [disk EXCEPT ![p] = IF m.dir = "in" THEN file ELSE NoFile]
             /\ bin' = [bin EXCEPT ![p][n] = IF m.dir = "in" THEN NoFile ELSE file]
             /\ stamp' = [stamp EXCEPT ![p][n] = IF m.dir = "in" THEN 0 ELSE m.at]
             /\ arrived' \in {arrived, arrived \cup {p}}
    <3>1. m \in Move
        BY <1>2
    <3>2. p \in Path /\ n \in Node /\ m.at \in Time \cup {OldTime}
        BY <3>1 DEF Move
    <3>3. file \in File
        BY <3>2 DEF TypeOK
    <3>4. QED
        BY <2>2, <3>2, <3>3, BoundFacts DEF TypeOK, FilesType
  <2>3. QED
    BY <2>1, <2>2 DEF Undo, Arrive
<1>7. QED
    BY <1>4, <1>5, <1>6

----------------------------------------------------------------------------
\* RolledBack never leaves a request that names a node it does not know.
LEMMA ProceedKnown ==
    ASSUME NodeKnown, NEW c \in Client, NEW ok, NEW next, next.node \in Node,
           Proceed(c, ok, next), req \in [Client -> Request]
    PROVE  NodeKnown'
BY DEF Proceed, RolledBack, Idle, NodeKnown

Typed == TypeOK /\ NodeKnown

\* The inductive form of TypeCorrect: a request in progress names a row.
LEMMA Typing == Spec => []Typed
<1>1. Init => Typed
  <2> SUFFICES ASSUME Init PROVE Typed
    OBVIOUS
  <2>1. /\ nodes \in Table /\ disk \in [Path -> File]
        /\ trashedAt \in [Node -> Time \cup {NoTime}]
        /\ cascades \in SUBSET (Node \X Node)
        /\ purger \in SUBSET Lookup /\ arrived \in SUBSET Path
    BY DEF Init
  <2>2. /\ bin \in [Path -> [Node -> File]]
        /\ stamp \in [Path -> [Node -> Time \cup {OldTime}]]
        /\ now \in Time /\ mishaps \in 0..MaxMishap
    BY BoundFacts DEF Init
  <2>3. req \in [Client -> Request]
    BY IdleType DEF Init
  <2>4. NodeKnown
    BY DEF Init, NodeKnown, Idle
  <2>5. QED
    BY <2>1, <2>2, <2>3, <2>4 DEF TypeOK, Typed
<1>2. Typed /\ [Next]_vars => Typed'
  <2> SUFFICES ASSUME TypeOK, NodeKnown, [Next]_vars PROVE TypeOK' /\ NodeKnown'
    BY DEF Typed
  <2> USE DEF dbVars
  <2>0. /\ req \in [Client -> Request]
        /\ \A c \in Client : req[c] \in Request
    BY DEF TypeOK
  <2>1. ASSUME NEW c \in Client, NEW n \in Node, NEW keepExports \in BOOLEAN,
               BeginTrash(c, n, keepExports)
        PROVE  TypeOK' /\ NodeKnown'
    <3> DEFINE r == [Idle EXCEPT !.phase = "run", !.op = "trash", !.node = n,
                                 !.todo = IF keepExports THEN {} ELSE Exports(n)]
    <3>1. Exports(n) \in SUBSET Node
        BY DEF Exports
    <3>2. r \in Request /\ r.node = n
        BY <3>1, IdleType, BoundFacts DEF Request, Idle
    <3>3. req' = [req EXCEPT ![c] = r]
        BY <2>1 DEF BeginTrash
    <3> HIDE DEF r
    <3>4. QED
        BY <2>0, <2>1, <3>2, <3>3 DEF BeginTrash, TypeOK, NodeKnown, fileVars
  <2>2. ASSUME NEW c \in Client, TrashMaster(c)
        PROVE  TypeOK' /\ NodeKnown'
    <3> DEFINE next == [req[c] EXCEPT !.begun = TRUE]
    <3>1. next \in Request /\ next.node = req[c].node /\ req[c].node \in Node
        BY <2>0, <2>2, ZenonT(60) DEF Request, TrashMaster, NodeKnown
    <3>2. \/ MoveToTrash(c, req[c].node, TRUE, next)
          \/ Proceed(c, TRUE, next) /\ UNCHANGED fileVars
        BY <2>2 DEF TrashMaster
    <3>3. FilesType' /\ req' \in [Client -> Request]
        BY <3>1, <3>2, <2>0, MoveToTrashType, ProceedType
        DEF TypeOK, FilesType, fileVars
    <3>4. \E ok, r : r.node \in Node /\ Proceed(c, ok, r)
        BY <3>1, <3>2, <2>0 DEF MoveToTrash, Moved, Request
    <3>5. NodeKnown'
        BY <3>4, <2>0, ProceedKnown
    <3>6. QED
        BY <2>2, <3>3, <3>5 DEF TrashMaster, TypeOK, FilesType
  <2>3. ASSUME NEW c \in Client, NEW e \in Node, TrashExport(c, e)
        PROVE  TypeOK' /\ NodeKnown'
    <3> DEFINE skip == [req[c] EXCEPT !.todo = @ \ {e}]
               times == RecordNodeTrashed(req[c].times, e)
               next == [req[c] EXCEPT !.todo = @ \ {e}, !.marked = @ \cup {e},
                                      !.times = times]
    <3>0. times \in [Node -> Time \cup {NoTime}]
        BY <2>0 DEF RecordNodeTrashed, Request, TypeOK
    <3> HIDE DEF times
    <3>1. /\ skip \in Request /\ skip.node = req[c].node /\ req[c].node \in Node
          /\ next \in Request /\ next.node = req[c].node
        BY <2>0, <2>3, <3>0, ZenonT(60) DEF Request, TrashExport, NodeKnown
    <3>2. \/ MoveToTrash(c, e, MarkAllowed(req[c], e), next)
          \/ Proceed(c, TRUE, skip) /\ UNCHANGED fileVars
        BY <2>3 DEF TrashExport, times
    <3>3. FilesType' /\ req' \in [Client -> Request]
        BY <3>1, <3>2, <2>0, MoveToTrashType, ProceedType
        DEF TypeOK, FilesType, fileVars
    <3>4. \E ok, r : r.node \in Node /\ Proceed(c, ok, r)
        BY <3>1, <3>2, <2>0 DEF MoveToTrash, Moved, Request
    <3>5. NodeKnown'
        BY <3>4, <2>0, ProceedKnown
    <3>6. QED
        BY <2>3, <3>3, <3>5 DEF TrashExport, TypeOK, FilesType
  <2>4. ASSUME NEW c \in Client, CommitTrash(c)
        PROVE  TypeOK' /\ NodeKnown'
    <3>1. req[c].node \in Node /\ req[c].marked \in SUBSET Node
        BY <2>0, <2>4 DEF Request, CommitTrash, NodeKnown
    <3>2. nodes' \in Table
        BY <2>4, FlipType DEF CommitTrash, TypeOK, LifecycleState
    <3>3. trashedAt' \in [Node -> Time \cup {NoTime}]
      <4>1. RecordNodeTrashed(req[c].times, req[c].node) \in [Node -> Time \cup {NoTime}]
          BY <2>0 DEF RecordNodeTrashed, Request, TypeOK
      <4>2. QED
          BY <2>4, <4>1 DEF CommitTrash, TypeOK
    <3>4. cascades' \in SUBSET (Node \X Node)
        BY <2>4, <3>1 DEF CommitTrash, TypeOK
    <3>5. req' \in [Client -> Request] /\ NodeKnown'
        BY <2>0, <2>4, IdleType DEF CommitTrash, NodeKnown, Idle
    <3>6. purger' \in SUBSET Lookup
      <4> DEFINE M == req[c].marked \cup {req[c].node}
      <4>1. purger' = {[x EXCEPT !.late = x.late \/ x.node \in M] : x \in purger}
          BY <2>4 DEF CommitTrash
      <4>2. \A x \in Lookup : [x EXCEPT !.late = x.late \/ x.node \in M] \in Lookup
        <5>1. TAKE x \in Lookup
        <5>2. (x.late \/ x.node \in M) \in BOOLEAN
            OBVIOUS
        <5>3. QED
            BY <5>2, ZenonT(60) DEF Lookup
      <4>3. QED
          BY <4>1, <4>2 DEF TypeOK
    <3>7. QED
        BY <2>4, <3>2, <3>3, <3>4, <3>5, <3>6 DEF CommitTrash, TypeOK, fileVars
  <2>5. ASSUME NEW c \in Client, NEW n \in Node, BeginRestore(c, n)
        PROVE  TypeOK' /\ NodeKnown'
    <3> DEFINE r == [Idle EXCEPT !.phase = "run", !.op = "restore", !.node = n,
                                 !.todo = OpenExports(n) \ {n},
                                 !.closed = OpenExports(n) \cup {n}]
    <3>1. OpenExports(n) \in SUBSET Node
        BY DEF OpenExports, TypeOK
    <3>2. r \in Request /\ r.node = n
        BY <3>1, IdleType, BoundFacts DEF Request, Idle
    <3>3. req' = [req EXCEPT ![c] = r]
        BY <2>5 DEF BeginRestore
    <3> HIDE DEF r
    <3>4. QED
        BY <2>0, <2>5, <3>2, <3>3 DEF BeginRestore, TypeOK, NodeKnown, fileVars
  <2>6. ASSUME NEW c \in Client, RestoreMaster(c)
        PROVE  TypeOK' /\ NodeKnown'
    <3> DEFINE n    == req[c].node
               next == [req[c] EXCEPT !.begun = TRUE, !.marked = {n}]
    <3>1. next \in Request /\ next.node = n /\ n \in Node
        BY <2>0, <2>6, ZenonT(60) DEF Request, RestoreMaster, NodeKnown
    <3>2. RestoreFromTrash(c, n, FALSE, MarkAllowed(req[c], n), next)
        BY <2>6 DEF RestoreMaster
    <3>3. FilesType' /\ req' \in [Client -> Request]
        BY <3>1, <3>2, RestoreFromTrashType
    <3>4. \/ \E ok, r : r.node \in Node /\ Proceed(c, ok, r)
          \/ \E k \in Node : req' = [req EXCEPT ![c].aim = {k}]
        BY <3>1, <3>2 DEF RestoreFromTrash
    <3>5. NodeKnown'
      <4>1. CASE \E k \in Node : req' = [req EXCEPT ![c].aim = {k}]
          BY <4>1, <2>0 DEF NodeKnown, Request
      <4>2. QED
          BY <3>4, <4>1, <2>0, ProceedKnown
    <3>6. QED
        BY <2>6, <3>3, <3>5 DEF RestoreMaster, TypeOK, FilesType
  <2>7. ASSUME NEW c \in Client, NEW e \in Node, RestoreExport(c, e)
        PROVE  TypeOK' /\ NodeKnown'
    <3> DEFINE skip == [req[c] EXCEPT !.todo = @ \ {e}]
               next == [req[c] EXCEPT !.todo = @ \ {e}, !.marked = @ \cup {e}]
    <3>1. /\ skip \in Request /\ skip.node = req[c].node /\ req[c].node \in Node
          /\ next \in Request /\ next.node = req[c].node
        BY <2>0, <2>7 DEF Request, RestoreExport, NodeKnown
    <3>2. \/ RestoreFromTrash(c, e, TRUE, MarkAllowed(req[c], e), next)
          \/ Proceed(c, TRUE, skip) /\ UNCHANGED fileVars
        BY <2>7 DEF RestoreExport
    <3>3. FilesType' /\ req' \in [Client -> Request]
        BY <3>1, <3>2, <2>0, RestoreFromTrashType, ProceedType
        DEF TypeOK, FilesType, fileVars
    <3>4. \/ \E ok, r : r.node \in Node /\ Proceed(c, ok, r)
          \/ \E k \in Node : req' = [req EXCEPT ![c].aim = {k}]
        BY <3>1, <3>2 DEF RestoreFromTrash
    <3>5. NodeKnown'
      <4>1. CASE \E k \in Node : req' = [req EXCEPT ![c].aim = {k}]
          BY <4>1, <2>0 DEF NodeKnown, Request
      <4>2. QED
          BY <3>4, <4>1, <2>0, ProceedKnown
    <3>6. QED
        BY <2>7, <3>3, <3>5 DEF RestoreExport, TypeOK, FilesType
  <2>8. ASSUME NEW c \in Client, RenameBack(c)
         PROVE  TypeOK' /\ NodeKnown'
    <3>1. FilesType' /\ req' \in [Client -> Request]
        BY <2>8, RenameBackType
    <3>2. \E ok, r : r.node = req[c].node /\ Proceed(c, ok, r)
        BY <2>0, <2>8, ZenonT(60) DEF RenameBack, Moved, Request
    <3>3. NodeKnown'
        BY <2>0, <2>8, <3>2, ProceedKnown DEF RenameBack, NodeKnown
    <3>4. QED
        BY <2>8, <3>1, <3>3 DEF RenameBack, TypeOK, FilesType
  <2>9. ASSUME NEW c \in Client, CommitRestore(c)
        PROVE  TypeOK' /\ NodeKnown'
    <3>1. nodes' \in Table
        BY <2>9, FlipType DEF CommitRestore, TypeOK, LifecycleState
    <3>2. trashedAt' \in [Node -> Time \cup {NoTime}]
        BY <2>9 DEF CommitRestore, TypeOK, ClearNodeTrashed
    <3>3. cascades' \in SUBSET (Node \X Node)
        BY <2>9 DEF CommitRestore, TypeOK, CloseCascades
    <3>4. req' \in [Client -> Request] /\ NodeKnown'
        BY <2>0, <2>9, IdleType DEF CommitRestore, NodeKnown, Idle
    <3>5. QED
        BY <2>9, <3>1, <3>2, <3>3, <3>4 DEF CommitRestore, TypeOK, fileVars
  <2>10. ASSUME NEW c \in Client, Fault(c)
        PROVE  TypeOK' /\ NodeKnown'
    <3>1. req' \in [Client -> Request]
        BY <2>0, <2>10, ProceedType DEF Fault
    <3>2. NodeKnown'
        BY <2>0, <2>10, ProceedKnown DEF Fault, NodeKnown
    <3>3. QED
        BY <2>10, <3>1, <3>2 DEF Fault, TypeOK, fileVars
  <2>11. ASSUME NEW c \in Client, Undo(c)
         PROVE  TypeOK' /\ NodeKnown'
    <3>1. FilesType' /\ req' \in [Client -> Request] /\ mishaps' \in 0..MaxMishap
        BY <2>11, UndoType
    <3>2. \E next : Proceed(c, FALSE, next)
        BY <2>11 DEF Undo
    <3>3. NodeKnown'
        BY <2>0, <3>2 DEF Proceed, RolledBack, NodeKnown, Idle
    <3>4. QED
        BY <2>11, <3>1, <3>3 DEF Undo, TypeOK, FilesType
  <2>12. ASSUME NEW c \in Client, NEW n \in Node, ReadArchived(c, n)
         PROVE  TypeOK' /\ NodeKnown'
    <3> DEFINE r == [Idle EXCEPT !.phase = "pending", !.op = "unarchive", !.node = n,
                                 !.read = {nodes[n].path}]
    <3>1. r \in Request /\ r.node = n
        BY RowType, IdleType, BoundFacts, ZenonT(60) DEF Request, Idle
    <3>2. req' = [req EXCEPT ![c] = r]
        BY <2>12 DEF ReadArchived
    <3> HIDE DEF r
    <3>3. QED
        BY <2>0, <2>12, <3>1, <3>2 DEF ReadArchived, TypeOK, NodeKnown, fileVars
  <2>13. ASSUME NEW c \in Client, Unarchive(c)
         PROVE  TypeOK' /\ NodeKnown'
    <3>1. req[c].node \in Node
        BY <2>13 DEF Unarchive, NodeKnown
    <3>2. nodes' \in Table
      <4>1. nodes' = nodes \/ nodes' = SetState(nodes, req[c].node, "ACTIVE")
          BY <2>13 DEF Unarchive, UnarchiveMediaNode
      <4>2. QED
          BY <3>1, <4>1, SetStateType DEF TypeOK, LifecycleState
    <3>3. req' \in [Client -> Request] /\ NodeKnown'
        BY <2>0, <2>13, IdleType DEF Unarchive, NodeKnown, Idle
    <3>4. QED
        BY <2>13, <3>2, <3>3 DEF Unarchive, TypeOK, fileVars
  <2>14. ASSUME NEW p \in Path, NEW n \in Node, PurgeLookup(p, n)
         PROVE  TypeOK' /\ NodeKnown'
    BY <2>14 DEF PurgeLookup, TypeOK, NodeKnown, fileVars, Lookup
  <2>15. ASSUME PurgeRemove
         PROVE  TypeOK' /\ NodeKnown'
    <3>1. PICK x \in Lookup :
              /\ bin' = [bin EXCEPT ![x.path][x.node] = NoFile]
              /\ stamp' = [stamp EXCEPT ![x.path][x.node] = 0]
              /\ purger' = {}
              /\ UNCHANGED <<nodes, trashedAt, cascades, disk, arrived, req, now, mishaps>>
        BY <2>15 DEF PurgeRemove, TypeOK
    <3>2. /\ bin' \in [Path -> [Node -> File]]
          /\ stamp' \in [Path -> [Node -> Time \cup {OldTime}]]
        BY <3>1, BoundFacts DEF TypeOK, Lookup
    <3>3. QED
        BY <3>1, <3>2 DEF TypeOK, NodeKnown
  <2>16. ASSUME NEW p \in Path, Scan(p)
         PROVE  TypeOK' /\ NodeKnown'
    BY <2>16, ScanKeeps DEF Scan, TypeOK, NodeKnown, fileVars
  <2>17. ASSUME NEW p \in Path, Sweep(p)
         PROVE  TypeOK' /\ NodeKnown'
    <3>1. nodes' \in Table
      <4>1. \E n \in Node : nodes' = nodes \/ nodes' = SetState(nodes, n, "MISSING")
          BY <2>17 DEF Sweep, LiveAt, MarkNodeMissing
      <4>2. QED
          BY <4>1, SetStateType DEF TypeOK, LifecycleState
    <3>2. QED
        BY <2>17, <3>1 DEF Sweep, TypeOK, NodeKnown, fileVars
  <2>18. ASSUME NEW p \in Path, NEW f \in File, ExternalWrite(p, f)
         PROVE  TypeOK' /\ NodeKnown'
    BY <2>18 DEF ExternalWrite, TypeOK, NodeKnown, Arrive
  <2>19. ASSUME Tick
         PROVE  TypeOK' /\ NodeKnown'
    BY <2>19 DEF Tick, TypeOK, NodeKnown, Time, fileVars
  <2>20. ASSUME Crash
         PROVE  TypeOK' /\ NodeKnown'
    BY <2>20, IdleType DEF Crash, TypeOK, NodeKnown, Idle, fileVars
  <2>21. CASE UNCHANGED vars
    BY <2>21 DEF vars, TypeOK, NodeKnown
  <2>22. QED
    BY <2>1, <2>2, <2>3, <2>4, <2>5, <2>6, <2>7, <2>8, <2>9, <2>10, <2>11, <2>12, <2>13,
       <2>14, <2>15, <2>16, <2>17, <2>18, <2>19, <2>20, <2>21
    DEF Next, ClientStep, OtherStep
<1>3. QED
    BY <1>1, <1>2, PTL DEF Spec

\* Every variable of Trash keeps its type, whatever the clients, the purge
\* worker, the scans, other programs and crashes do.
THEOREM TypeCorrect == Spec => []TypeOK
BY Typing, PTL DEF Typed

----------------------------------------------------------------------------
\* The recorded trash time (node_trash_times), for any number of clients.

\* A trash in progress has recorded a time for every row it has marked.
RunTimes ==
    \A c \in Client : req[c].phase = "run" /\ req[c].op = "trash"
        => \A n \in req[c].marked : req[c].times[n] # NoTime

LEMMA ProceedTimes ==
    ASSUME RunTimes, req \in [Client -> Request], NEW c \in Client, NEW ok, NEW next,
           Proceed(c, ok, next),
           next.phase = "run" /\ next.op = "trash"
           => \A n \in next.marked : next.times[n] # NoTime
    PROVE  RunTimes'
BY DEF Proceed, RolledBack, Idle, RunTimes

\* Recording a rename leaves the marks and their times alone.
LEMMA MovedMarks ==
    ASSUME NEW next \in Request, NEW p, NEW n, NEW dir, NEW at
    PROVE  LET m == Moved(next, p, n, dir, at)
           IN  /\ m.phase = next.phase /\ m.op = next.op
               /\ m.marked = next.marked /\ m.times = next.times
BY DEF Moved, Request

\* The two ways a restore visits a node, and the two ends of its rename.
LEMMA RestoreSteps ==
    ASSUME TypeOK, NEW c \in Client,
           RestoreMaster(c) \/ \E e \in Node : RestoreExport(c, e)
    PROVE  \/ \E ok, next : Proceed(c, ok, next) /\ next.op = "restore" /\ next.aim = {}
           \/ \E n : req' = [req EXCEPT ![c].aim = {n}]
<1>1. req[c] \in Request
    BY DEF TypeOK
<1>2. CASE RestoreMaster(c)
  <2> DEFINE next == [req[c] EXCEPT !.begun = TRUE, !.marked = {req[c].node}]
  <2>1. next.op = "restore" /\ next.aim = {}
    BY <1>1, <1>2 DEF RestoreMaster, Request
  <2>2. \/ \E ok : Proceed(c, ok, next)
        \/ req' = [req EXCEPT ![c].aim = {req[c].node}]
    BY <1>2 DEF RestoreMaster, RestoreFromTrash
  <2> HIDE DEF next
  <2>3. QED
    BY <2>1, <2>2
<1>3. ASSUME NEW e \in Node, RestoreExport(c, e)
      PROVE  \/ \E ok, next : Proceed(c, ok, next) /\ next.op = "restore" /\ next.aim = {}
             \/ \E n : req' = [req EXCEPT ![c].aim = {n}]
  <2> DEFINE skip == [req[c] EXCEPT !.todo = @ \ {e}]
             next == [req[c] EXCEPT !.todo = @ \ {e}, !.marked = @ \cup {e}]
  <2>1. next.op = "restore" /\ next.aim = {} /\ skip.op = "restore" /\ skip.aim = {}
    BY <1>1, <1>3 DEF RestoreExport, Request
  <2>2. \/ \E ok : Proceed(c, ok, next)
        \/ Proceed(c, TRUE, skip)
        \/ req' = [req EXCEPT ![c].aim = {e}]
    BY <1>3 DEF RestoreExport, RestoreFromTrash
  <2> HIDE DEF next, skip
  <2>3. QED
    BY <2>1, <2>2
<1>4. QED
    BY <1>2, <1>3

LEMMA RenameBackSteps ==
    ASSUME TypeOK, NEW c \in Client, RenameBack(c)
    PROVE  /\ req[c].phase = "run"
           /\ \E ok, next : /\ Proceed(c, ok, next) /\ next.op = "restore"
                            /\ ok = FALSE \/ next.aim = {}
<1>1. req[c] \in Request /\ req[c].phase = "run" /\ req[c].op = "restore"
    BY DEF TypeOK, RenameBack
<1>2. PICK n \in req[c].aim :
          LET next == [req[c] EXCEPT !.begun = TRUE, !.aim = {}, !.todo = @ \ {n},
                                     !.marked = @ \cup {n}]
          IN  \/ Proceed(c, FALSE, req[c])
              \/ Proceed(c, MarkAllowed(req[c], n),
                         Moved(next, nodes[n].path, n, "out", stamp[nodes[n].path][n]))
    BY DEF RenameBack
<1> DEFINE next == [req[c] EXCEPT !.begun = TRUE, !.aim = {}, !.todo = @ \ {n},
                                  !.marked = @ \cup {n}]
           m == Moved(next, nodes[n].path, n, "out", stamp[nodes[n].path][n])
<1>3. m.op = "restore" /\ m.aim = {}
    BY <1>1 DEF Moved, Request
<1> HIDE DEF m
<1>4. \/ Proceed(c, FALSE, req[c])
      \/ Proceed(c, MarkAllowed(req[c], n), m)
    BY <1>2 DEF m
<1>5. QED
    BY <1>1, <1>3, <1>4

\* A step of a client that ends with no row marked.
LEMMA OtherTimes ==
    ASSUME RunTimes, NEW c \in Client, req'[c].marked = {},
           \A d \in Client \ {c} : req'[d] = req[d]
    PROVE  RunTimes'
<1> SUFFICES ASSUME NEW d \in Client, req'[d].phase = "run", req'[d].op = "trash",
                    NEW n \in req'[d].marked
             PROVE  req'[d].times[n] # NoTime
    BY DEF RunTimes
<1>1. d # c
    OBVIOUS
<1>2. req'[d] = req[d]
    BY <1>1
<1>3. QED
    BY <1>2 DEF RunTimes

LEMMA MoveToTrashTimes ==
    ASSUME RunTimes, req \in [Client -> Request], NEW c \in Client, NEW n, NEW ok,
           NEW next \in Request, MoveToTrash(c, n, ok, next),
           \A m \in next.marked : next.times[m] # NoTime
    PROVE  RunTimes'
<1>1. \/ Proceed(c, ok, next)
      \/ \E mtime : Proceed(c, ok, Moved(next, nodes[n].path, n, "in", mtime))
    BY DEF MoveToTrash
<1>2. QED
    BY <1>1, ProceedTimes, MovedMarks

\* Steps that end a request, or are not part of a trash, keep RunTimes.
LEMMA RunTimesKept ==
    ASSUME Typed, RunTimes, Next
    PROVE  RunTimes'
<1> USE DEF Typed
<1>0. req \in [Client -> Request] /\ \A c \in Client : req[c] \in Request
    BY DEF TypeOK
<1>1. ASSUME NEW c \in Client, NEW n \in Node, NEW keepExports \in BOOLEAN,
             BeginTrash(c, n, keepExports) \/ BeginRestore(c, n) \/ ReadArchived(c, n)
      PROVE  RunTimes'
  <2>1. req'[c].marked = {}
    BY <1>0, <1>1 DEF BeginTrash, BeginRestore, ReadArchived, Idle
  <2>2. \A d \in Client \ {c} : req'[d] = req[d]
    BY <1>0, <1>1 DEF BeginTrash, BeginRestore, ReadArchived
  <2>3. QED
    BY <2>1, <2>2, OtherTimes
<1>2. ASSUME NEW c \in Client, TrashMaster(c)
      PROVE  RunTimes'
  <2> DEFINE next == [req[c] EXCEPT !.begun = TRUE]
  <2>1. next \in Request /\ next.marked = req[c].marked /\ next.times = req[c].times
    BY <1>0 DEF Request
  <2>2. req[c].phase = "run" /\ req[c].op = "trash"
    BY <1>2 DEF TrashMaster
  <2>3. \/ MoveToTrash(c, req[c].node, TRUE, next)
        \/ Proceed(c, TRUE, next)
    BY <1>2 DEF TrashMaster
  <2>4. \A n \in next.marked : next.times[n] # NoTime
    BY <2>1, <2>2 DEF RunTimes
  <2> HIDE DEF next
  <2>5. QED
    BY <1>0, <2>1, <2>3, <2>4, MoveToTrashTimes, ProceedTimes
<1>3. ASSUME NEW c \in Client, NEW e \in Node, TrashExport(c, e)
      PROVE  RunTimes'
  <2> DEFINE skip  == [req[c] EXCEPT !.todo = @ \ {e}]
             times == RecordNodeTrashed(req[c].times, e)
             next  == [req[c] EXCEPT !.todo = @ \ {e}, !.marked = @ \cup {e},
                                     !.times = times]
  <2>1. req[c].phase = "run" /\ req[c].op = "trash"
    BY <1>3 DEF TrashExport
  <2>2. /\ times \in [Node -> Time \cup {NoTime}]
        /\ times[e] # NoTime
        /\ \A n \in Node \ {e} : times[n] = req[c].times[n]
    BY <1>0 DEF RecordNodeTrashed, Request, TypeOK, Time, NoTime
  <2>3. \/ MoveToTrash(c, e, MarkAllowed(req[c], e), next)
        \/ Proceed(c, TRUE, skip)
    BY <1>3 DEF TrashExport
  <2> HIDE DEF times
  <2>4. /\ next \in Request /\ next.marked = req[c].marked \cup {e}
        /\ next.times = times
        /\ skip.marked = req[c].marked /\ skip.times = req[c].times
        /\ req[c].marked \subseteq Node
    <3>1. req[c].marked \cup {e} \in SUBSET Node /\ req[c].todo \ {e} \in SUBSET Node
        BY <1>0 DEF Request
    <3>2. skip.marked = req[c].marked /\ skip.times = req[c].times
        BY <1>0 DEF Request
    <3>3. req[c] \in Request
        BY <1>0
    <3>4. next \in Request /\ next.marked = req[c].marked \cup {e} /\ next.times = times
        BY <2>2, <3>1, <3>3, ZenonT(60) DEF Request
    <3> HIDE DEF skip, next
    <3>5. QED
        BY <3>1, <3>2, <3>4
  <2>5. \A n \in req[c].marked : req[c].times[n] # NoTime
    BY <2>1 DEF RunTimes
  <2> HIDE DEF next, skip
  <2>6. \A n \in next.marked : next.times[n] # NoTime
    BY <2>2, <2>4, <2>5
  <2>7. QED
    BY <1>0, <2>3, <2>4, <2>5, <2>6, MoveToTrashTimes, ProceedTimes
<1>4. ASSUME NEW c \in Client, RestoreMaster(c) \/ \E e \in Node : RestoreExport(c, e)
      PROVE  RunTimes'
  <2>1. \/ \E ok, next : Proceed(c, ok, next) /\ next.op = "restore"
        \/ \E n : req' = [req EXCEPT ![c].aim = {n}]
    BY <1>4, RestoreSteps DEF Typed
  <2>2. req[c].op = "restore"
    BY <1>4 DEF RestoreMaster, RestoreExport
  <2>3. CASE \E n : req' = [req EXCEPT ![c].aim = {n}]
    BY <1>0, <2>2, <2>3 DEF RunTimes, Request
  <2>4. QED
    BY <1>0, <2>1, <2>3, ProceedTimes
<1>5. ASSUME NEW c \in Client, RenameBack(c)
      PROVE  RunTimes'
  <2>1. \E ok, next : Proceed(c, ok, next) /\ next.op = "restore"
    BY <1>5, RenameBackSteps DEF Typed
  <2>2. QED
    BY <1>0, <2>1, ProceedTimes
<1>6. ASSUME NEW c \in Client, Fault(c)
      PROVE  RunTimes'
    BY <1>0, <1>6, ProceedTimes DEF Fault, RunTimes
<1>7. ASSUME NEW c \in Client, Undo(c)
      PROVE  RunTimes'
  <2>1. \E next : Proceed(c, FALSE, next)
    BY <1>7 DEF Undo
  <2>2. QED
    BY <1>0, <2>1 DEF Proceed, RolledBack, Idle, RunTimes
<1>8. ASSUME NEW c \in Client, CommitTrash(c) \/ CommitRestore(c) \/ Unarchive(c)
      PROVE  RunTimes'
  <2>1. req' = [req EXCEPT ![c] = Idle]
    BY <1>8 DEF CommitTrash, CommitRestore, Unarchive
  <2>2. req'[c] = Idle /\ \A d \in Client \ {c} : req'[d] = req[d]
    BY <1>0, <2>1
  <2>3. Idle.marked = {}
    BY DEF Idle
  <2>4. QED
    BY <2>2, <2>3, OtherTimes
<1>9. CASE OtherStep
  <2>1. req' = req \/ Crash
    BY <1>9 DEF OtherStep, PurgeLookup, PurgeRemove, Scan, Sweep, ExternalWrite, Tick
  <2>2. CASE req' = req
    BY <2>2 DEF RunTimes
  <2>3. CASE Crash
    BY <2>3 DEF Crash, RunTimes, Idle
  <2>4. QED
    BY <2>1, <2>2, <2>3
<1>10. QED
    BY <1>1, <1>2, <1>3, <1>4, <1>5, <1>6, <1>7, <1>8, <1>9 DEF Next, ClientStep

\* A step changes rows or trash times only by one of these.
LEMMA RowsWritten ==
    ASSUME Next, ~UNCHANGED dbVars
    PROVE  \/ \E c \in Client : CommitTrash(c) \/ CommitRestore(c) \/ Unarchive(c)
           \/ \E p \in Path : Scan(p) \/ Sweep(p)
BY ZenonT(60)
DEF Next, ClientStep, OtherStep, dbVars, BeginTrash, TrashMaster, TrashExport, BeginRestore,
    RestoreMaster, RestoreExport, RenameBack, Fault, Undo, ReadArchived, PurgeLookup,
    PurgeRemove, ExternalWrite, Tick, Crash

\* A trash records the times it has collected, and the present for its master.
LEMMA CommitTimes ==
    ASSUME TypeOK, RunTimes, NEW c \in Client, CommitTrash(c)
    PROVE  LET M == req[c].marked \cup {req[c].node}
           IN  /\ \A n \in Node \ M : trashedAt'[n] = trashedAt[n]
               /\ \A n \in Node \cap M : trashedAt'[n] # NoTime
               /\ \A n \in Node : nodes'[n].path = nodes[n].path
               /\ \A n \in Node : nodes'[n].state =
                      IF n \in M THEN "TRASHED" ELSE nodes[n].state
<1> DEFINE M     == req[c].marked \cup {req[c].node}
           times == RecordNodeTrashed(req[c].times, req[c].node)
<1>1. req[c].times \in [Node -> Time \cup {NoTime}] /\ now # NoTime
    BY DEF TypeOK, Request, Time, NoTime
<1>2. \A n \in req[c].marked : req[c].times[n] # NoTime
    BY DEF CommitTrash, RunTimes
<1>3. \A n \in Node \cap M : times[n] # NoTime
    BY <1>1, <1>2 DEF RecordNodeTrashed
<1> HIDE DEF times
<1>4. trashedAt' = [n \in Node |-> IF n \in M THEN times[n] ELSE trashedAt[n]]
    BY DEF CommitTrash, times
<1>5. nodes' = Flip(nodes, M, "TRASHED") /\ nodes \in Table
    BY DEF CommitTrash, TypeOK
<1>6. \A n \in Node : /\ nodes'[n].path = nodes[n].path
                      /\ nodes'[n].state = IF n \in M THEN "TRASHED" ELSE nodes[n].state
    BY <1>5 DEF Flip, Table, Row
<1>7. QED
    BY <1>3, <1>4, <1>6

\* A TRASHED row always has a recorded trash time: a trash and its cascade
\* record one in the same transaction, only a restore clears it, and no scan,
\* sweep or unarchive makes a row TRASHED.
TimesRecorded == TrashedHasTime /\ RunTimes

LEMMA TimesRecordedHolds == Spec => []TimesRecorded
<1>1. Init => TimesRecorded
    BY DEF Init, TrashedHasTime, RunTimes, Idle, TimesRecorded
<1>2. Typed /\ TimesRecorded /\ [Next]_vars => TimesRecorded'
  <2> SUFFICES ASSUME TypeOK, NodeKnown, TrashedHasTime, RunTimes, [Next]_vars
               PROVE  TimesRecorded'
    BY DEF Typed, TimesRecorded
  <2>0. RunTimes'
    BY RunTimesKept DEF Typed, vars, RunTimes
  <2>1. CASE UNCHANGED dbVars
    BY <2>0, <2>1 DEF dbVars, TrashedHasTime, TimesRecorded
  <2>2. ASSUME NEW c \in Client, CommitTrash(c)
        PROVE  TrashedHasTime'
    BY <2>2, CommitTimes DEF TrashedHasTime
  <2>3. ASSUME NEW c \in Client, CommitRestore(c)
        PROVE  TrashedHasTime'
    BY <2>3 DEF CommitRestore, Flip, ClearNodeTrashed, TrashedHasTime, TypeOK, Table, Row
  <2>4. ASSUME NEW c \in Client, Unarchive(c)
        PROVE  TrashedHasTime'
    <3>1. nodes' = nodes \/ nodes' = SetState(nodes, req[c].node, "ACTIVE")
        BY <2>4 DEF Unarchive, UnarchiveMediaNode
    <3>2. req[c].node \in Node /\ trashedAt' = trashedAt /\ nodes \in Table
        BY <2>4 DEF Unarchive, NodeKnown, TypeOK
    <3>3. QED
        BY <3>1, <3>2, SetStateRows DEF TrashedHasTime
  <2>5. ASSUME NEW p \in Path, Scan(p)
        PROVE  TrashedHasTime'
    BY <2>5, ScanKeeps DEF Scan, KeepsRetired, TrashedHasTime
  <2>6. ASSUME NEW p \in Path, Sweep(p)
        PROVE  TrashedHasTime'
    <3>1. \E n \in Node : nodes' = nodes \/ nodes' = SetState(nodes, n, "MISSING")
        BY <2>6 DEF Sweep, LiveAt, MarkNodeMissing
    <3>2. QED
        BY <2>6, <3>1, ZenonT(60) DEF Sweep, SetState, TrashedHasTime, TypeOK, Table, Row
  <2>7. QED
    BY <2>0, <2>1, <2>2, <2>3, <2>4, <2>5, <2>6, RowsWritten DEF vars, dbVars, TimesRecorded
<1>3. QED
    BY <1>1, <1>2, Typing, PTL DEF Spec

\* A TRASHED row has a recorded trash time, for any number of clients.
THEOREM TrashTimeRecorded == Spec => []TrashedHasTime
BY TimesRecordedHolds, PTL DEF TimesRecorded

----------------------------------------------------------------------------
\* Retention, for any number of clients.

\* The copy the purge worker has looked up belongs to no row within its
\* retention, unless the row's trash has been committed since.
PurgeAged ==
    \A x \in purger :
        /\ nodes[x.node].state = "TRASHED" /\ nodes[x.node].path = x.path /\ ~x.late
        => Expired(trashedAt[x.node])

\* A step that leaves the purge worker's copy alone cannot make it fresh unless
\* it trashes the row: a row in the trash was there before, as old as it is now.
LEMMA AgedStable ==
    ASSUME TypeOK, PurgeAged, purger' = purger, now' = now \/ now' = now + 1,
           \A n \in Node : nodes'[n].state = "TRASHED"
               => /\ nodes[n].state = "TRASHED" /\ nodes[n].path = nodes'[n].path
                  /\ trashedAt'[n] = trashedAt[n]
    PROVE  PurgeAged'
<1> SUFFICES ASSUME NEW x \in purger, nodes'[x.node].state = "TRASHED",
                    nodes'[x.node].path = x.path, ~x.late
             PROVE  Expired(trashedAt[x.node])'
    BY DEF PurgeAged
<1>1. x.node \in Node
    BY DEF TypeOK, Lookup
<1>2. trashedAt'[x.node] = trashedAt[x.node] /\ Expired(trashedAt[x.node])
    BY <1>1 DEF PurgeAged
<1>3. trashedAt[x.node] \in Int /\ now \in Int /\ Retention \in Int
    BY <1>1 DEF TypeOK, Time, NoTime
<1>4. QED
    BY <1>2, <1>3 DEF Expired

\* PurgeTrash unlinks a copy of a row still within its retention only if the
\* row's trash was committed after it had looked: whatever other clients, scans,
\* sweeps and crashes do between its look and its unlink.
THEOREM PurgeHonoursRetention == Spec => PurgeSparesFresh
<1>1. Init => PurgeAged
    BY DEF Init, PurgeAged
<1>2. Typed /\ TimesRecorded /\ PurgeAged /\ [Next]_vars => PurgeAged'
  <2> SUFFICES ASSUME TypeOK, NodeKnown, TrashedHasTime, RunTimes, PurgeAged, [Next]_vars
               PROVE  PurgeAged'
    BY DEF Typed, TimesRecorded
  <2>0. now \in Int
    BY DEF TypeOK, Time
  <2>1. ASSUME NEW p \in Path, NEW n \in Node, PurgeLookup(p, n)
        PROVE  PurgeAged'
    <3>1. /\ purger' = {[path |-> p, node |-> n, late |-> FALSE]}
          /\ Expired(CopyTime(p, n))
          /\ UNCHANGED <<nodes, trashedAt, now>>
        BY <2>1 DEF PurgeLookup, dbVars
    <3>2. nodes[n].state = "TRASHED" /\ nodes[n].path = p => CopyTime(p, n) = trashedAt[n]
        BY DEF CopyTime, TrashedHasTime
    <3>3. QED
        BY <3>1, <3>2 DEF PurgeAged, Expired
  <2>2. ASSUME PurgeRemove \/ Crash
        PROVE  PurgeAged'
    BY <2>2 DEF PurgeRemove, Crash, PurgeAged
  <2>3. ASSUME NEW c \in Client, CommitTrash(c)
        PROVE  PurgeAged'
    <3> DEFINE M == req[c].marked \cup {req[c].node}
    <3>1. purger' = {[x EXCEPT !.late = @ \/ x.node \in M] : x \in purger} /\ now' = now
        BY <2>3 DEF CommitTrash
    <3> SUFFICES ASSUME NEW y \in purger', nodes'[y.node].state = "TRASHED",
                        nodes'[y.node].path = y.path, ~y.late
                 PROVE  Expired(trashedAt[y.node])'
        BY DEF PurgeAged
    <3>2. PICK x \in purger : y = [x EXCEPT !.late = @ \/ x.node \in M]
        BY <3>1
    <3>3. x \in Lookup
        BY DEF TypeOK
    <3>4. x.node = y.node /\ x.path = y.path /\ ~x.late /\ x.node \in Node \ M
        BY <3>2, <3>3 DEF Lookup
    <3>5. /\ nodes[x.node].state = "TRASHED" /\ nodes[x.node].path = x.path
          /\ trashedAt'[x.node] = trashedAt[x.node]
        BY <2>3, <3>4, CommitTimes
    <3>6. QED
        BY <3>1, <3>4, <3>5 DEF PurgeAged, Expired
  <2>4. ASSUME NEW c \in Client, CommitRestore(c)
        PROVE  PurgeAged'
    <3>1. \A n \in Node : nodes'[n].state = "TRASHED"
              => /\ nodes[n].state = "TRASHED" /\ nodes[n].path = nodes'[n].path
                 /\ trashedAt'[n] = trashedAt[n]
        BY <2>4 DEF CommitRestore, Flip, ClearNodeTrashed, TypeOK, Table, Row
    <3>2. QED
        BY <2>4, <3>1, AgedStable DEF CommitRestore
  <2>5. ASSUME NEW c \in Client, Unarchive(c)
        PROVE  PurgeAged'
    <3>1. nodes' = nodes \/ nodes' = SetState(nodes, req[c].node, "ACTIVE")
        BY <2>5 DEF Unarchive, UnarchiveMediaNode
    <3>2. \A n \in Node : nodes'[n].state = "TRASHED"
              => nodes[n].state = "TRASHED" /\ nodes[n].path = nodes'[n].path
        BY <3>1, ZenonT(60) DEF SetState, TypeOK, Table, Row
    <3>3. QED
        BY <2>5, <3>2, AgedStable DEF Unarchive
  <2>6. ASSUME NEW p \in Path, Scan(p)
        PROVE  PurgeAged'
    <3>1. \A n \in Node : nodes'[n].state = "TRASHED"
              => nodes[n].state = "TRASHED" /\ nodes[n].path = nodes'[n].path
        BY <2>6, ScanKeeps DEF KeepsRetired
    <3>2. QED
        BY <2>6, <3>1, AgedStable DEF Scan
  <2>7. ASSUME NEW p \in Path, Sweep(p)
        PROVE  PurgeAged'
    <3>1. \E n \in Node : nodes' = nodes \/ nodes' = SetState(nodes, n, "MISSING")
        BY <2>7 DEF Sweep, LiveAt, MarkNodeMissing
    <3>2. \A n \in Node : nodes'[n].state = "TRASHED"
              => nodes[n].state = "TRASHED" /\ nodes[n].path = nodes'[n].path
        BY <3>1, ZenonT(60) DEF SetState, TypeOK, Table, Row
    <3>3. QED
        BY <2>7, <3>2, AgedStable DEF Sweep
  <2>8. CASE UNCHANGED <<dbVars, purger>> /\ (now' = now \/ now' = now + 1)
    BY <2>8, AgedStable DEF dbVars
  <2>9. QED
    BY <2>1, <2>2, <2>3, <2>4, <2>5, <2>6, <2>7, <2>8, ZenonT(60)
    DEF Next, ClientStep, OtherStep, vars, dbVars, BeginTrash, TrashMaster, TrashExport,
        BeginRestore, RestoreMaster, RestoreExport, RenameBack, Fault, Undo, ReadArchived,
        ExternalWrite, Tick
<1>3. Typed /\ PurgeAged /\ [Next]_vars
      => [\A x \in purger \ purger' :
            /\ bin[x.path][x.node] # NoFile /\ bin'[x.path][x.node] = NoFile
            /\ nodes[x.node].state = "TRASHED" /\ nodes[x.node].path = x.path
            => x.late \/ Expired(trashedAt[x.node])]_vars
    BY DEF PurgeAged, vars
<1>4. QED
    BY <1>1, <1>2, <1>3, Typing, TimesRecordedHolds, PTL DEF Spec, PurgeSparesFresh

----------------------------------------------------------------------------
\* Bytes, for any number of clients.

LEMMA UnchangedHolds ==
    ASSUME UNCHANGED <<disk, bin>>
    PROVE  Held \ {NoFile} \subseteq Held'
BY DEF Held

\* One transaction at a time; only its restore aims at a path, and the path is
\* still free unless a file has come to it since the restore looked.
AimInv ==
    /\ \A c, d \in Client : req[c].phase = "run" /\ req[d].phase = "run" => c = d
    /\ \A c \in Client : req[c].aim # {} => req[c].phase = "run" /\ req[c].op = "restore"
    /\ \A c \in Client : \A n \in req[c].aim :
          disk[nodes[n].path] = NoFile \/ nodes[n].path \in arrived

\* The writer's step that leaves no aim, or one that takes the free writer.
LEMMA AimSettled ==
    ASSUME AimInv, NEW c \in Client, req[c].phase = "run" \/ WriterFree,
           req'[c].aim = {}, \A d \in Client \ {c} : req'[d] = req[d]
    PROVE  AimInv'
<1>1. \A d \in Client \ {c} : req[d].phase # "run"
    BY DEF AimInv, WriterFree
<1>2. \A d \in Client : req'[d].aim = {}
    BY <1>1 DEF AimInv
<1>3. QED
    BY <1>1, <1>2 DEF AimInv

\* A step outside the transactions: files may only come to a path that is noted.
LEMMA AimKept ==
    ASSUME TypeOK, AimInv, UNCHANGED nodes,
           \A d \in Client : \/ req'[d] = req[d]
                           \/ (req'[d].phase # "run" /\ req'[d].aim = {}),
           \A q \in Path :
              \/ disk'[q] = disk[q] \/ disk'[q] = NoFile \/ q \in arrived'
              \/ \A d \in Client : req[d].aim = {},
           arrived \subseteq arrived'
    PROVE  AimInv'
<1>1. \A d \in Client : req'[d].aim # {} => req'[d] = req[d]
    OBVIOUS
<1>2. \A d \in Client : req'[d].phase = "run" => req[d].phase = "run"
    OBVIOUS
<1>3. ASSUME NEW d \in Client, NEW n \in req'[d].aim
      PROVE  disk'[nodes[n].path] = NoFile \/ nodes[n].path \in arrived'
  <2>1. n \in req[d].aim
    BY <1>1, <1>3
  <2>2. disk[nodes[n].path] = NoFile \/ nodes[n].path \in arrived
    BY <2>1 DEF AimInv
  <2>3. nodes[n].path \in Path
    BY <2>1, RowType DEF TypeOK, Request
  <2>4. QED
    BY <2>1, <2>2, <2>3
<1>4. QED
    BY <1>1, <1>2, <1>3 DEF AimInv

\* restoreFromTrash's look.
LEMMA LookAims ==
    ASSUME TypeOK, AimInv, NEW c \in Client, NEW n \in Node, NEW tolerant, NEW ok,
           NEW next, RestoreFromTrash(c, n, tolerant, ok, next), next.aim = {},
           req[c].phase = "run", req[c].op = "restore", UNCHANGED nodes
    PROVE  AimInv'
<1>1. CASE Renames(nodes[n].path, n)
  <2>1. /\ req' = [req EXCEPT ![c].aim = {n}] /\ disk' = disk
        /\ disk[nodes[n].path] = NoFile
    BY <1>1 DEF RestoreFromTrash, Renames
  <2>2. /\ req'[c].aim = {n} /\ req'[c].phase = "run" /\ req'[c].op = "restore"
        /\ \A d \in Client \ {c} : req'[d] = req[d]
    BY <2>1 DEF TypeOK, Request
  <2>3. \A d \in Client \ {c} : req[d].phase # "run" /\ req[d].aim = {}
    BY DEF AimInv
  <2>4. QED
    BY <2>1, <2>2, <2>3 DEF AimInv
<1>2. CASE ~Renames(nodes[n].path, n)
  <2>1. \E okay : Proceed(c, okay, next)
    BY <1>2 DEF RestoreFromTrash
  <2>2. req'[c].aim = {} /\ \A d \in Client \ {c} : req'[d] = req[d]
    BY <2>1 DEF Proceed, RolledBack, Idle, TypeOK
  <2>3. QED
    BY <2>2, AimSettled
<1>3. QED
    BY <1>1, <1>2

\* A proceeding or failing step whose request aims at nothing.
LEMMA ProceedSettles ==
    ASSUME TypeOK, AimInv, NEW c \in Client, req[c].phase = "run", NEW ok, NEW next,
           next.aim = {}, Proceed(c, ok, next)
    PROVE  AimInv'
<1>1. req'[c].aim = {} /\ \A d \in Client \ {c} : req'[d] = req[d]
    BY DEF Proceed, RolledBack, Idle, TypeOK
<1>2. QED
    BY <1>1, AimSettled

LEMMA TrashSteps ==
    ASSUME TypeOK, NEW c \in Client, req[c].aim = {},
           TrashMaster(c) \/ \E e \in Node : TrashExport(c, e)
    PROVE  \E ok, next : Proceed(c, ok, next) /\ next.aim = {}
<1>1. req[c] \in Request
    BY DEF TypeOK
<1>2. ASSUME NEW n, NEW ok, NEW r \in Request, r.aim = {}, MoveToTrash(c, n, ok, r)
      PROVE  \E okay, next : Proceed(c, okay, next) /\ next.aim = {}
  <2>1. \/ Proceed(c, ok, r)
        \/ \E p, at : Proceed(c, ok, Moved(r, p, n, "in", at))
    BY <1>2 DEF MoveToTrash
  <2>2. \A p, at : Moved(r, p, n, "in", at).aim = {}
    BY <1>2 DEF Moved, Request
  <2>3. QED
    BY <1>2, <2>1, <2>2
<1>3. CASE TrashMaster(c)
  <2> DEFINE next == [req[c] EXCEPT !.begun = TRUE]
  <2>1. next \in Request /\ next.aim = {}
    BY <1>1 DEF Request
  <2>2. MoveToTrash(c, req[c].node, TRUE, next) \/ Proceed(c, TRUE, next)
    BY <1>3 DEF TrashMaster
  <2> HIDE DEF next
  <2>3. QED
    BY <1>2, <2>1, <2>2
<1>4. ASSUME NEW e \in Node, TrashExport(c, e)
      PROVE  \E okay, next : Proceed(c, okay, next) /\ next.aim = {}
  <2> DEFINE skip  == [req[c] EXCEPT !.todo = @ \ {e}]
             times == RecordNodeTrashed(req[c].times, e)
             next  == [req[c] EXCEPT !.todo = @ \ {e}, !.marked = @ \cup {e},
                                     !.times = times]
  <2>1. times \in [Node -> Time \cup {NoTime}]
    BY <1>1 DEF RecordNodeTrashed, Request, TypeOK
  <2> HIDE DEF times
  <2>2. req[c].marked \cup {e} \in SUBSET Node /\ req[c].todo \ {e} \in SUBSET Node
    BY <1>1 DEF Request
  <2>3. next \in Request /\ next.aim = req[c].aim
    BY <1>1, <2>1, <2>2, ZenonT(60) DEF Request
  <2>4. skip.aim = {}
    BY <1>1 DEF Request
  <2>5. MoveToTrash(c, e, MarkAllowed(req[c], e), next) \/ Proceed(c, TRUE, skip)
    BY <1>4 DEF TrashExport, times
  <2> HIDE DEF next, skip
  <2>6. next.aim = {}
    BY <2>3
  <2>7. QED
    BY <1>2, <2>3, <2>4, <2>5, <2>6
<1>5. QED
    BY <1>3, <1>4

LEMMA AimHolds == Spec => []AimInv
<1>1. Init => AimInv
    BY DEF Init, AimInv, Idle
<1>2. Typed /\ AimInv /\ [Next]_vars => AimInv'
  <2> SUFFICES ASSUME TypeOK, NodeKnown, AimInv, [Next]_vars PROVE AimInv'
    BY DEF Typed
  <2>0. req \in [Client -> Request] /\ \A c \in Client : req[c] \in Request
    BY DEF TypeOK
  <2>1. ASSUME NEW c \in Client, NEW n \in Node, NEW keepExports \in BOOLEAN,
               BeginTrash(c, n, keepExports) \/ BeginRestore(c, n)
        PROVE  AimInv'
    <3>1. req'[c].aim = {} /\ \A d \in Client \ {c} : req'[d] = req[d]
        BY <2>0, <2>1 DEF BeginTrash, BeginRestore, Idle
    <3>2. QED
        BY <2>1, <3>1, AimSettled DEF BeginTrash, BeginRestore
  <2>2. ASSUME NEW c \in Client, TrashMaster(c) \/ \E e \in Node : TrashExport(c, e)
        PROVE  AimInv'
    <3>1. req[c].phase = "run" /\ req[c].op = "trash"
        BY <2>2 DEF TrashMaster, TrashExport
    <3>2. req[c].aim = {}
        BY <3>1 DEF AimInv
    <3>3. \E ok, next : Proceed(c, ok, next) /\ next.aim = {}
        BY <2>2, <3>2, TrashSteps
    <3>4. QED
        BY <3>1, <3>3, ProceedSettles
  <2>3. ASSUME NEW c \in Client, CommitTrash(c) \/ CommitRestore(c) \/ Unarchive(c)
        PROVE  AimInv'
    <3>1. req'[c].aim = {} /\ \A d \in Client \ {c} : req'[d] = req[d]
        BY <2>0, <2>3 DEF CommitTrash, CommitRestore, Unarchive, Idle
    <3>2. QED
        BY <2>3, <3>1, AimSettled DEF CommitTrash, CommitRestore, Unarchive
  <2>4. ASSUME NEW c \in Client, RestoreMaster(c)
        PROVE  AimInv'
    <3> DEFINE next == [req[c] EXCEPT !.begun = TRUE, !.marked = {req[c].node}]
    <3>1. /\ req[c].phase = "run" /\ req[c].op = "restore" /\ req[c].aim = {}
          /\ req[c].node \in Node /\ nodes' = nodes
        BY <2>4 DEF RestoreMaster, NodeKnown, dbVars
    <3>2. next.aim = {}
        BY <2>0, <3>1 DEF Request
    <3>3. RestoreFromTrash(c, req[c].node, FALSE, MarkAllowed(req[c], req[c].node), next)
        BY <2>4 DEF RestoreMaster
    <3> HIDE DEF next
    <3>4. QED
        BY <3>1, <3>2, <3>3, LookAims
  <2>5. ASSUME NEW c \in Client, NEW e \in Node, RestoreExport(c, e)
        PROVE  AimInv'
    <3> DEFINE skip == [req[c] EXCEPT !.todo = @ \ {e}]
               next == [req[c] EXCEPT !.todo = @ \ {e}, !.marked = @ \cup {e}]
    <3>1. /\ req[c].phase = "run" /\ req[c].op = "restore" /\ req[c].aim = {}
          /\ nodes' = nodes
        BY <2>5 DEF RestoreExport, dbVars
    <3>2. next.aim = {} /\ skip.aim = {}
        BY <2>0, <3>1 DEF Request
    <3>3. \/ RestoreFromTrash(c, e, TRUE, MarkAllowed(req[c], e), next)
          \/ Proceed(c, TRUE, skip)
        BY <2>5 DEF RestoreExport
    <3> HIDE DEF next, skip
    <3>4. QED
        BY <3>1, <3>2, <3>3, LookAims, ProceedSettles
  <2>6. ASSUME NEW c \in Client, RenameBack(c)
        PROVE  AimInv'
    <3>1. /\ req[c].phase = "run"
          /\ \E ok, next : Proceed(c, ok, next) /\ (ok = FALSE \/ next.aim = {})
        BY <2>6, RenameBackSteps
    <3>2. req'[c].aim = {} /\ \A d \in Client \ {c} : req'[d] = req[d]
        BY <2>0, <3>1 DEF Proceed, RolledBack, Idle
    <3>3. QED
        BY <3>1, <3>2, AimSettled
  <2>7. ASSUME NEW c \in Client, Fault(c)
        PROVE  AimInv'
    <3>1. req'[c].aim = {} /\ \A d \in Client \ {c} : req'[d] = req[d]
        BY <2>0, <2>7 DEF Fault, Proceed, RolledBack, Idle
    <3>2. QED
        BY <2>7, <3>1, AimSettled DEF Fault
  <2>8. ASSUME NEW c \in Client, Undo(c)
        PROVE  AimInv'
    <3>1. /\ req'[c].phase # "run" /\ req'[c].aim = {}
          /\ \A d \in Client \ {c} : req'[d] = req[d]
        BY <2>0, <2>8 DEF Undo, Proceed, RolledBack, Idle
    <3>2. /\ arrived \subseteq arrived'
          /\ \A q \in Path :
                \/ disk'[q] = disk[q] \/ disk'[q] = NoFile \/ q \in arrived'
                \/ \A d \in Client : req[d].aim = {}
      <4> DEFINE m == req[c].moves[Len(req[c].moves)]
      <4>1. \/ disk' = disk /\ arrived' = arrived
            \/ /\ disk' = [disk EXCEPT ![m.path] = NoFile] /\ arrived' = arrived
            \/ /\ \E f : disk' = [disk EXCEPT ![m.path] = f]
               /\ arrived' = Arrive(m.path)
          BY <2>8 DEF Undo, fileVars
      <4>2. QED
          BY <4>1 DEF Arrive, TypeOK
    <3>3. nodes' = nodes
        BY <2>8 DEF Undo, dbVars
    <3>4. QED
        BY <3>1, <3>2, <3>3, AimKept
  <2>9. ASSUME NEW c \in Client, NEW n \in Node, ReadArchived(c, n)
        PROVE  AimInv'
    <3>1. /\ req'[c].phase # "run" /\ req'[c].aim = {}
          /\ \A d \in Client \ {c} : req'[d] = req[d]
        BY <2>0, <2>9 DEF ReadArchived, Idle
    <3>2. QED
        BY <2>9, <3>1, AimKept DEF ReadArchived, dbVars, fileVars
  <2>10. ASSUME NEW p \in Path, Scan(p) \/ Sweep(p)
         PROVE  AimInv'
    <3>1. /\ req' = req
          /\ \A c \in Client : req[c].phase # "run"
        BY <2>10 DEF Scan, Sweep, WriterFree
    <3>2. QED
        BY <3>1 DEF AimInv
  <2>11. ASSUME NEW p \in Path, NEW f \in File, ExternalWrite(p, f)
         PROVE  AimInv'
    <3>1. /\ arrived \subseteq arrived' /\ req' = req /\ nodes' = nodes
          /\ \A q \in Path :
                \/ disk'[q] = disk[q] \/ disk'[q] = NoFile \/ q \in arrived'
                \/ \A d \in Client : req[d].aim = {}
        BY <2>11 DEF ExternalWrite, Arrive, dbVars, TypeOK
    <3>2. QED
        BY <3>1, AimKept
  <2>12. CASE Crash
    BY <2>12 DEF Crash, AimInv, Idle
  <2>13. CASE \/ \E p \in Path, n \in Node : PurgeLookup(p, n)
              \/ PurgeRemove \/ Tick \/ UNCHANGED vars
    <3>1. UNCHANGED <<nodes, disk, arrived, req>>
        BY <2>13 DEF PurgeLookup, PurgeRemove, Tick, vars, dbVars, fileVars
    <3>2. QED
        BY <3>1 DEF AimInv
  <2>14. QED
    BY <2>1, <2>2, <2>3, <2>4, <2>5, <2>6, <2>7, <2>8, <2>9, <2>10, <2>11, <2>12, <2>13
    DEF Next, ClientStep, OtherStep
<1>3. QED
    BY <1>1, <1>2, Typing, PTL DEF Spec

\* What the rename back may destroy: a file that came to the path in between.
LEMMA RenameHolds ==
    ASSUME TypeOK, AimInv, NEW c \in Client, RenameBack(c), NEW x \in Held \ {NoFile}
    PROVE  \/ x \in Held'
           \/ \E n \in req[c].aim : nodes[n].path \in arrived /\ disk[nodes[n].path] = x
<1>1. PICK n \in req[c].aim :
          LET p == nodes[n].path
          IN  \/ UNCHANGED fileVars
              \/ /\ disk' = [disk EXCEPT ![p] = bin[p][n]]
                 /\ bin' = [bin EXCEPT ![p][n] = NoFile]
    BY DEF RenameBack
<1> DEFINE p == nodes[n].path
<1>2. n \in Node /\ p \in Path
  <2>1. n \in Node
    BY DEF TypeOK, Request
  <2>2. QED
    BY <2>1, RowType
<1>3. CASE UNCHANGED fileVars
    BY <1>3, UnchangedHolds DEF fileVars
<1>4. CASE /\ disk' = [disk EXCEPT ![p] = bin[p][n]]
           /\ bin' = [bin EXCEPT ![p][n] = NoFile]
  <2>1. disk[p] = NoFile \/ p \in arrived
    BY DEF AimInv
  <2>2. \A q \in Path \ {p} : disk'[q] = disk[q]
    BY <1>2, <1>4 DEF TypeOK
  <2>3. \A q \in Path, k \in Node :
            bin[q][k] = bin'[q][k] \/ bin[q][k] = disk'[p]
    <3>1. TAKE q \in Path, k \in Node
    <3>2. CASE q = p /\ k = n
        BY <1>2, <1>4, <3>2 DEF TypeOK
    <3>3. CASE ~(q = p /\ k = n)
        BY <1>2, <1>4, <3>3 DEF TypeOK
    <3>4. QED
        BY <3>2, <3>3
  <2>4. CASE \E q \in Path : disk[q] = x
    BY <1>2, <2>1, <2>2, <2>4 DEF Held
  <2>5. CASE \E q \in Path, k \in Node : bin[q][k] = x
    BY <1>2, <2>3, <2>5 DEF Held
  <2>6. QED
    BY <2>4, <2>5 DEF Held
<1>5. QED
    BY <1>1, <1>3, <1>4

\* A restore overwrites or drops the last copy of a file's bytes only if the file
\* came to the path between restoreFromTrash's look and its rename, whatever
\* other clients, crashes and programs have done.
THEOREM RestoreLosesNothing == Spec => RestoreKeepsBytes
<1>1. Typed /\ AimInv /\ [Next]_vars
      => [\A c \in Client :
            req[c].phase = "run" /\ req[c].op = "restore" /\ req'[c] # req[c]
            => \A x \in Held \ {NoFile} :
                 \/ x \in Held'
                 \/ \E n \in req[c].aim :
                      nodes[n].path \in arrived /\ disk[nodes[n].path] = x]_vars
  <2> SUFFICES ASSUME TypeOK, NodeKnown, AimInv, Next, NEW c \in Client,
                      req[c].phase = "run", req[c].op = "restore", req'[c] # req[c],
                      NEW x \in Held \ {NoFile}
               PROVE  \/ x \in Held'
                      \/ \E n \in req[c].aim :
                           nodes[n].path \in arrived /\ disk[nodes[n].path] = x
    BY DEF Typed, vars
  <2>1. ClientStep(c) \/ Crash
    <3>1. CASE \E d \in Client \ {c} : ClientStep(d)
        BY <3>1, OthersWait DEF TypeOK
    <3>2. CASE OtherStep
        BY <3>2
        DEF OtherStep, PurgeLookup, PurgeRemove, Scan, Sweep, ExternalWrite, Tick
    <3>3. QED
        BY <3>1, <3>2 DEF Next
  <2>2. RenameBack(c) \/ UNCHANGED <<disk, bin>>
    BY <2>1, ZenonT(60)
    DEF ClientStep, BeginTrash, TrashMaster, TrashExport, CommitTrash, BeginRestore,
        RestoreMaster, RestoreExport, RestoreFromTrash, CommitRestore, Fault, Undo,
        ReadArchived, Unarchive, Crash, fileVars
  <2>3. QED
    BY <2>2, RenameHolds, UnchangedHolds
<1>2. QED
    BY <1>1, Typing, AimHolds, PTL DEF Spec, RestoreKeepsBytes

----------------------------------------------------------------------------
\* Cascades, when requests are served one at a time.  (With two clients an
\* unarchive that read the row before the cascade breaks them: README.)

SingleClient == \A c, d \in Client : c = d

CascadeInv ==
    /\ Running /\ Pending
    /\ CascadesMatch /\ TimeOnlyTrashed /\ NoCascadeChain

Rows == CascadesMatch /\ TimeOnlyTrashed /\ NoCascadeChain

\* A step that neither trashes nor untrashes a row leaves the cascades right.
LEMMA RowsStable ==
    ASSUME TypeOK, Rows, UNCHANGED <<trashedAt, cascades>>,
           \A n \in Node : nodes'[n].state = "TRASHED" <=> nodes[n].state = "TRASHED"
    PROVE  Rows'
<1>1. \A x \in cascades : x[1] \in Node /\ x[2] \in Node
    BY DEF TypeOK
<1>2. QED
    BY <1>1 DEF Rows, CascadesMatch, TimeOnlyTrashed, NoCascadeChain

\* A step inside a transaction, and the rollback it may end in.
LEMMA ProceedRuns ==
    ASSUME TypeOK, SingleClient, NEW c \in Client, NEW ok, NEW next,
           Proceed(c, ok, next), UNCHANGED <<nodes, cascades, now>>,
           ok => /\ next.phase = "run"
                 /\ next.op = "trash" => TrashRuns(next)
                 /\ next.op = "restore" => RestoreRuns(next)
    PROVE  Running' /\ Pending'
<1>1. \/ req'[c].phase \in {"idle", "undo"}
      \/ req'[c] = next /\ ok
    BY DEF Proceed, RolledBack, Idle, TypeOK
<1>2. \A d \in Client : req'[d] = req'[c]
    BY DEF SingleClient
<1>3. QED
    BY <1>1, <1>2 DEF Running, Pending, TrashRuns, RestoreRuns, OpenExports

\* Recording a rename changes nothing the transaction's rows depend on.
LEMMA MovedRuns ==
    ASSUME NEW next \in Request, NEW p, NEW n, NEW dir, NEW at
    PROVE  LET m == Moved(next, p, n, dir, at)
           IN  /\ m.phase = next.phase /\ m.op = next.op
               /\ TrashRuns(m) <=> TrashRuns(next)
               /\ RestoreRuns(m) <=> RestoreRuns(next)
BY DEF Moved, Request, TrashRuns, RestoreRuns

LEMMA MoveToTrashRuns ==
    ASSUME TypeOK, SingleClient, NEW c \in Client, NEW n \in Node, NEW ok,
           NEW next \in Request, MoveToTrash(c, n, ok, next), UNCHANGED <<dbVars, now>>,
           ok => next.phase = "run" /\ next.op = "trash" /\ TrashRuns(next)
    PROVE  Running' /\ Pending'
<1>1. \/ Proceed(c, ok, next)
      \/ \E mtime \in {OldTime, now} :
            Proceed(c, ok, Moved(next, nodes[n].path, n, "in", mtime))
    BY DEF MoveToTrash
<1>2. QED
    BY <1>1, ProceedRuns, MovedRuns DEF dbVars

LEMMA RestoreFromTrashRuns ==
    ASSUME TypeOK, SingleClient, NEW c \in Client, NEW n \in Node, NEW tolerant,
           NEW ok, NEW next \in Request, RestoreFromTrash(c, n, tolerant, ok, next),
           UNCHANGED <<dbVars, now>>, n \in req[c].closed,
           req[c].phase = "run" /\ req[c].op = "restore" /\ RestoreRuns(req[c]),
           next.phase = "run" /\ next.op = "restore" /\ RestoreRuns(next)
    PROVE  Running' /\ Pending'
<1>1. CASE req' = [req EXCEPT ![c].aim = {n}]
  <2> DEFINE r == [req[c] EXCEPT !.aim = {n}]
  <2>1. req[c] \in Request
    BY DEF TypeOK
  <2>2. Proceed(c, TRUE, r)
    BY <1>1 DEF Proceed, TypeOK
  <2>3. /\ r.phase = "run" /\ r.op = "restore" /\ r.node = req[c].node
        /\ r.marked = req[c].marked /\ r.todo = req[c].todo
        /\ r.closed = req[c].closed /\ r.aim = {n}
    BY <2>1 DEF Request
  <2> HIDE DEF r
  <2>4. RestoreRuns(r)
    BY <2>3 DEF RestoreRuns
  <2>5. QED
    BY <2>2, <2>3, <2>4, ProceedRuns DEF dbVars
<1>2. CASE \E okay : Proceed(c, okay, next)
    BY <1>2, ProceedRuns DEF dbVars
<1>3. QED
    BY <1>1, <1>2 DEF RestoreFromTrash

LEMMA RenameBackRuns ==
    ASSUME TypeOK, SingleClient, NEW c \in Client, RenameBack(c), RestoreRuns(req[c])
    PROVE  Running' /\ Pending'
<1>1. /\ req[c] \in Request /\ req[c].phase = "run" /\ req[c].op = "restore"
      /\ UNCHANGED <<nodes, cascades, now>>
    BY DEF TypeOK, RenameBack, dbVars
<1>2. PICK n \in req[c].aim :
          LET next == [req[c] EXCEPT !.begun = TRUE, !.aim = {}, !.todo = @ \ {n},
                                     !.marked = @ \cup {n}]
          IN  \/ Proceed(c, FALSE, req[c])
              \/ Proceed(c, MarkAllowed(req[c], n),
                         Moved(next, nodes[n].path, n, "out", stamp[nodes[n].path][n]))
    BY DEF RenameBack
<1> DEFINE next == [req[c] EXCEPT !.begun = TRUE, !.aim = {}, !.todo = @ \ {n},
                                  !.marked = @ \cup {n}]
           m == Moved(next, nodes[n].path, n, "out", stamp[nodes[n].path][n])
<1>3. n \in Node
    BY <1>1 DEF Request
<1>4. /\ next \in Request /\ next.phase = "run" /\ next.op = "restore"
      /\ next.node = req[c].node /\ next.closed = req[c].closed
      /\ next.aim = {} /\ next.todo = req[c].todo \ {n}
      /\ next.marked = req[c].marked \cup {n}
    BY <1>1, <1>3, ZenonT(60) DEF Request
<1>5. RestoreRuns(next)
  <2> HIDE DEF next
  <2> QED
    BY <1>2, <1>4 DEF RestoreRuns
<1>6. m.phase = "run" /\ m.op = "restore" /\ RestoreRuns(m)
  <2> HIDE DEF next
  <2> QED
    BY <1>4, <1>5, MovedRuns
<1>7. Proceed(c, FALSE, req[c]) \/ Proceed(c, MarkAllowed(req[c], n), m)
    BY <1>2
<1> HIDE DEF m
<1>8. QED
    BY <1>1, <1>6, <1>7, ProceedRuns

LEMMA CommitTrashRows ==
    ASSUME TypeOK, Running, Rows, NEW c \in Client, CommitTrash(c), req[c].node \in Node
    PROVE  Rows'
<1> DEFINE r == req[c]
           M == r.marked \cup {r.node}
           new == {<<r.node, e>> : e \in r.marked}
<1>1. /\ r.marked \in SUBSET Node /\ M \in SUBSET Node
      /\ TrashRuns(r)
    BY DEF CommitTrash, Running, TypeOK, Request
<1>2. \A n \in M : nodes[n].state # "TRASHED"
    BY <1>1 DEF TrashRuns
<1>3. /\ \A n \in Node : nodes'[n].state = IF n \in M THEN "TRASHED" ELSE nodes[n].state
      /\ cascades' = cascades \cup new
    BY DEF CommitTrash, Flip, TypeOK, Table, Row
<1>4. /\ trashedAt'[r.node] = now
      /\ \A n \in r.marked : trashedAt'[n] \in 0..now
      /\ \A n \in Node \ M : trashedAt'[n] = trashedAt[n]
  <2> DEFINE times == RecordNodeTrashed(r.times, r.node)
  <2>1. r.times \in [Node -> Time \cup {NoTime}]
    BY DEF TypeOK, Request
  <2>2. times[r.node] = now /\ \A n \in Node \ {r.node} : times[n] = r.times[n]
    BY <2>1 DEF RecordNodeTrashed
  <2> HIDE DEF times
  <2>3. trashedAt' = [n \in Node |-> IF n \in M THEN times[n] ELSE trashedAt[n]]
    BY DEF CommitTrash, times
  <2>4. \A n \in r.marked : n \in Node \ {r.node} /\ r.times[n] \in 0..now
    BY <1>1 DEF TrashRuns
  <2>5. QED
    BY <2>2, <2>3, <2>4
<1>5. now \in Nat /\ \A n \in 0..now : n <= now /\ n # NoTime
    BY DEF TypeOK, Time, NoTime
<1>6. \A x \in cascades :
          /\ x[1] \in Node \ M /\ x[2] \in Node \ M
          /\ nodes[x[1]].state = "TRASHED" /\ nodes[x[2]].state = "TRASHED"
          /\ trashedAt[x[2]] <= trashedAt[x[1]]
    BY <1>2 DEF Rows, CascadesMatch, TypeOK
<1>7. \A x \in new : x[1] = r.node /\ x[2] \in r.marked /\ x[2] # r.node /\ x = <<r.node, x[2]>>
    BY <1>1 DEF TrashRuns
<1>8. CascadesMatch'
  <2> SUFFICES ASSUME NEW x \in cascades'
               PROVE  /\ nodes'[x[1]].state = "TRASHED" /\ nodes'[x[2]].state = "TRASHED"
                      /\ trashedAt'[x[2]] <= trashedAt'[x[1]]
                      /\ \A y \in cascades' : y[2] = x[2] => y = x
    BY DEF CascadesMatch
  <2> HIDE DEF M, new
  <2>1. CASE x \in cascades
    <3>1. \A y \in cascades' : y[2] = x[2] => y = x
        BY <1>3, <1>6, <1>7, <2>1 DEF Rows, CascadesMatch, M
    <3>2. x[1] \in Node \ M /\ x[2] \in Node \ M
        BY <1>6, <2>1
    <3>3. nodes'[x[1]].state = "TRASHED" /\ nodes'[x[2]].state = "TRASHED"
        BY <1>3, <1>6, <2>1, <3>2
    <3>4. trashedAt'[x[2]] <= trashedAt'[x[1]]
        BY <1>4, <1>6, <2>1, <3>2
    <3>5. QED
        BY <3>1, <3>3, <3>4
  <2>2. CASE x \in new
    <3>1. x[1] \in M /\ x[2] \in M /\ x[1] \in Node /\ x[2] \in Node
        BY <1>1, <1>7, <2>2 DEF M
    <3>2. \A y \in cascades' : y[2] = x[2] => y = x
        BY <1>3, <1>6, <1>7, <2>2, <3>1
    <3>3. trashedAt'[x[2]] <= trashedAt'[x[1]]
        BY <1>4, <1>5, <1>7, <2>2
    <3>4. QED
        BY <1>3, <3>1, <3>2, <3>3
  <2>3. QED
    BY <1>3, <2>1, <2>2
<1>9. TimeOnlyTrashed'
  <2> SUFFICES ASSUME NEW n \in Node, trashedAt'[n] # NoTime
               PROVE  nodes'[n].state = "TRASHED"
    BY DEF TimeOnlyTrashed
  <2> HIDE DEF M, new
  <2>1. CASE n \in M
    BY <1>3, <2>1
  <2>2. CASE n \notin M
    <3>1. trashedAt'[n] = trashedAt[n]
        BY <1>4, <2>2
    <3>2. nodes[n].state = "TRASHED"
        BY <3>1 DEF Rows, TimeOnlyTrashed
    <3>3. QED
        BY <1>3, <2>2, <3>2
  <2>3. QED
    BY <2>1, <2>2
<1>10. NoCascadeChain'
  <2> SUFFICES ASSUME NEW x \in cascades', NEW y \in cascades' PROVE x[2] # y[1]
    BY DEF NoCascadeChain
  <2> HIDE DEF M, new
  <2>1. CASE x \in cascades /\ y \in cascades
    BY <2>1 DEF Rows, NoCascadeChain
  <2>2. CASE x \in new \/ y \in new
    BY <1>3, <1>6, <1>7, <2>2 DEF M
  <2>3. QED
    BY <1>3, <2>1, <2>2
<1>11. QED
    BY <1>8, <1>9, <1>10 DEF Rows

LEMMA CommitRestoreRows ==
    ASSUME TypeOK, Running, Rows, NEW c \in Client, CommitRestore(c), req[c].node \in Node
    PROVE  Rows'
<1> DEFINE r == req[c]
<1>1. /\ r.marked \in SUBSET Node
      /\ r.marked \subseteq r.closed
      /\ r.closed = OpenExports(r.node) \cup {r.node}
    BY DEF CommitRestore, Running, RestoreRuns, TypeOK, Request
<1>2. /\ \A n \in Node : nodes'[n].state = IF n \in r.marked THEN "ACTIVE" ELSE nodes[n].state
      /\ \A n \in Node : trashedAt'[n] = IF n \in r.marked THEN NoTime ELSE trashedAt[n]
      /\ cascades' = {x \in cascades : x[2] \notin r.closed}
    BY DEF CommitRestore, Flip, ClearNodeTrashed, CloseCascades, TypeOK, Table, Row
<1>3. \A x \in cascades' : x[1] \notin r.marked /\ x[2] \notin r.marked
  <2> SUFFICES ASSUME NEW x \in cascades' PROVE x[1] \notin r.marked /\ x[2] \notin r.marked
    OBVIOUS
  <2>1. x \in cascades /\ x[2] \notin r.closed
    BY <1>2
  <2>2. x[1] # r.node
    BY <1>1, <2>1 DEF OpenExports
  <2>3. x[1] \notin OpenExports(r.node)
    BY <2>1 DEF Rows, NoCascadeChain, OpenExports
  <2>4. QED
    BY <1>1, <2>1, <2>2, <2>3
<1>4. \A x \in cascades' : x \in cascades /\ x[1] \in Node /\ x[2] \in Node
    BY <1>2 DEF TypeOK
<1>5. CascadesMatch'
    BY <1>2, <1>3, <1>4 DEF Rows, CascadesMatch
<1>6. TimeOnlyTrashed'
    BY <1>2 DEF Rows, TimeOnlyTrashed
<1>7. NoCascadeChain'
    BY <1>2 DEF Rows, NoCascadeChain
<1>8. QED
    BY <1>5, <1>6, <1>7 DEF Rows

\* The inductive invariant behind the three theorems on requests served one at a
\* time.
LEMMA SequentialInv ==
    ASSUME SingleClient
    PROVE  Spec => []CascadeInv
<1>1. Init => CascadeInv
    BY DEF Init, CascadeInv, Running, Pending, CascadesMatch, TimeOnlyTrashed,
           NoCascadeChain, Idle
<1>2. Typed /\ CascadeInv /\ [Next]_vars => CascadeInv'
  <2> SUFFICES ASSUME TypeOK, NodeKnown, Running, Pending, Rows, [Next]_vars
               PROVE  Running' /\ Pending' /\ Rows'
    BY DEF Typed, CascadeInv, Rows
  <2>0. \A c \in Client : req[c] \in Request
    BY DEF TypeOK
  <2>1. ASSUME NEW c \in Client, NEW n \in Node, NEW keepExports \in BOOLEAN,
               BeginTrash(c, n, keepExports)
        PROVE  Running' /\ Pending' /\ Rows'
    <3> DEFINE r == [Idle EXCEPT !.phase = "run", !.op = "trash", !.node = n,
                                 !.todo = IF keepExports THEN {} ELSE Exports(n)]
    <3>1. UNCHANGED <<dbVars, now>> /\ Proceed(c, TRUE, r)
        BY <2>1 DEF BeginTrash, Proceed
    <3>2. n \notin Exports(n)
        BY DEF Exports
    <3>3. r.phase = "run" /\ r.op = "trash" /\ TrashRuns(r)
        BY <2>1, <3>2 DEF BeginTrash, Idle, TrashRuns
    <3> HIDE DEF r
    <3>4. QED
        BY <3>1, <3>3, ProceedRuns, RowsStable DEF dbVars
  <2>2. ASSUME NEW c \in Client, TrashMaster(c)
        PROVE  Running' /\ Pending' /\ Rows'
    <3> DEFINE next == [req[c] EXCEPT !.begun = TRUE]
    <3>1. /\ next \in Request /\ next.phase = "run" /\ next.op = "trash"
          /\ TrashRuns(next) /\ req[c].node \in Node
        BY <2>0, <2>2, ZenonT(60) DEF Request, TrashMaster, NodeKnown, Running, TrashRuns
    <3>2. \/ MoveToTrash(c, req[c].node, TRUE, next)
          \/ Proceed(c, TRUE, next)
        BY <2>2 DEF TrashMaster
    <3>3. UNCHANGED <<dbVars, now>>
        BY <2>2 DEF TrashMaster
    <3> HIDE DEF next
    <3>4. Running' /\ Pending'
        BY <3>1, <3>2, <3>3, MoveToTrashRuns, ProceedRuns DEF dbVars
    <3>5. QED
        BY <3>3, <3>4, RowsStable DEF dbVars
  <2>3. ASSUME NEW c \in Client, NEW e \in Node, TrashExport(c, e)
        PROVE  Running' /\ Pending' /\ Rows'
    <3> DEFINE skip  == [req[c] EXCEPT !.todo = @ \ {e}]
               times == RecordNodeTrashed(req[c].times, e)
               next  == [req[c] EXCEPT !.todo = @ \ {e}, !.marked = @ \cup {e},
                                       !.times = times]
    <3>1. TrashRuns(req[c]) /\ e \in req[c].todo
        BY <2>3 DEF TrashExport, Running
    <3>2. /\ times \in [Node -> Time \cup {NoTime}]
          /\ times[e] \in 0..now
          /\ \A n \in Node \ {e} : times[n] = req[c].times[n]
        BY <2>0 DEF RecordNodeTrashed, Request, TypeOK, Time
    <3>3. \/ ~SkipExport(req[c], e) /\ MoveToTrash(c, e, MarkAllowed(req[c], e), next)
          \/ Proceed(c, TRUE, skip)
        BY <2>3 DEF TrashExport
    <3> HIDE DEF times
    <3>4. /\ skip \in Request /\ skip.phase = "run" /\ skip.op = "trash" /\ TrashRuns(skip)
          /\ next \in Request /\ next.phase = "run" /\ next.op = "trash"
        BY <2>0, <2>3, <3>1, <3>2, ZenonT(60) DEF Request, TrashExport, TrashRuns
    <3>5. ~SkipExport(req[c], e) => TrashRuns(next)
      <4>0. req[c] \in Request /\ req[c].op = "trash"
          BY <2>0, <2>3 DEF TrashExport
      <4>1. ~SkipExport(req[c], e) => nodes[e].state # "TRASHED"
        <5>1. e \notin req[c].marked => View(req[c])[e] = nodes[e]
            BY DEF View, Flip
        <5>2. nodes[e].state = "TRASHED" => e \notin req[c].marked
            BY <3>1 DEF TrashRuns
        <5>3. QED
            BY <5>1, <5>2 DEF SkipExport
      <4>2. /\ next.node = req[c].node /\ next.todo = req[c].todo \ {e}
            /\ next.marked = req[c].marked \cup {e} /\ next.times = times
            /\ req[c].marked \subseteq Node
          BY <4>0, <3>2 DEF Request
      <4> HIDE DEF next
      <4>3. QED
          BY <3>1, <3>2, <4>1, <4>2 DEF TrashRuns
    <3>6. UNCHANGED <<dbVars, now>>
        BY <2>3 DEF TrashExport
    <3> HIDE DEF skip, next
    <3>7. Running' /\ Pending'
        BY <3>4, <3>5, <3>3, <3>6, MoveToTrashRuns, ProceedRuns DEF dbVars
    <3>8. QED
        BY <3>6, <3>7, RowsStable DEF dbVars
  <2>4. ASSUME NEW c \in Client, CommitTrash(c)
        PROVE  Running' /\ Pending' /\ Rows'
    <3>1. Rows'
        BY <2>4, CommitTrashRows DEF CommitTrash, NodeKnown
    <3>2. \A d \in Client : req'[d] = Idle
        BY <2>4 DEF CommitTrash, SingleClient, TypeOK
    <3>3. QED
        BY <3>1, <3>2 DEF Running, Pending, Idle
  <2>5. ASSUME NEW c \in Client, NEW n \in Node, BeginRestore(c, n)
        PROVE  Running' /\ Pending' /\ Rows'
    <3> DEFINE r == [Idle EXCEPT !.phase = "run", !.op = "restore", !.node = n,
                                 !.todo = OpenExports(n) \ {n},
                                 !.closed = OpenExports(n) \cup {n}]
    <3>1. UNCHANGED <<dbVars, now>> /\ Proceed(c, TRUE, r)
        BY <2>5 DEF BeginRestore, Proceed
    <3>2. r.phase = "run" /\ r.op = "restore" /\ RestoreRuns(r)
        BY DEF Idle, RestoreRuns
    <3> HIDE DEF r
    <3>3. QED
        BY <3>1, <3>2, ProceedRuns, RowsStable DEF dbVars
  <2>6. ASSUME NEW c \in Client, RestoreMaster(c)
        PROVE  Running' /\ Pending' /\ Rows'
    <3> DEFINE n    == req[c].node
               next == [req[c] EXCEPT !.begun = TRUE, !.marked = {n}]
    <3>1. /\ req[c].phase = "run" /\ req[c].op = "restore" /\ RestoreRuns(req[c])
          /\ n \in req[c].closed
        BY <2>6 DEF RestoreMaster, Running, RestoreRuns
    <3>2. /\ next \in Request /\ next.phase = "run" /\ next.op = "restore" /\ n \in Node
          /\ next.node = n /\ next.closed = req[c].closed /\ next.marked = {n}
          /\ next.todo = req[c].todo /\ next.aim = req[c].aim
        BY <2>0, <2>6, <3>1, ZenonT(60) DEF Request, RestoreMaster, NodeKnown
    <3>3. /\ RestoreFromTrash(c, n, FALSE, MarkAllowed(req[c], n), next)
          /\ UNCHANGED <<dbVars, now>>
        BY <2>6 DEF RestoreMaster
    <3> HIDE DEF next
    <3>4. RestoreRuns(next)
        BY <3>1, <3>2 DEF RestoreRuns
    <3>5. QED
        BY <3>1, <3>2, <3>3, <3>4, RestoreFromTrashRuns, RowsStable DEF dbVars
  <2>7. ASSUME NEW c \in Client, NEW e \in Node, RestoreExport(c, e)
        PROVE  Running' /\ Pending' /\ Rows'
    <3> DEFINE skip == [req[c] EXCEPT !.todo = @ \ {e}]
               next == [req[c] EXCEPT !.todo = @ \ {e}, !.marked = @ \cup {e}]
    <3>1. /\ req[c].phase = "run" /\ req[c].op = "restore" /\ RestoreRuns(req[c])
          /\ e \in req[c].todo /\ e \in req[c].closed
        BY <2>7 DEF RestoreExport, Running, RestoreRuns
    <3>2. /\ skip \in Request /\ skip.phase = "run" /\ skip.op = "restore"
          /\ next \in Request /\ next.phase = "run" /\ next.op = "restore"
        BY <2>0, <2>7, ZenonT(60) DEF Request, RestoreExport
    <3>3. RestoreRuns(skip) /\ RestoreRuns(next)
      <4>1. /\ skip.node = req[c].node /\ skip.todo = req[c].todo \ {e}
            /\ skip.marked = req[c].marked /\ skip.closed = req[c].closed
            /\ skip.aim = req[c].aim
          BY <2>0 DEF Request
      <4>2. /\ next.node = req[c].node /\ next.todo = req[c].todo \ {e}
            /\ next.marked = req[c].marked \cup {e} /\ next.closed = req[c].closed
            /\ next.aim = req[c].aim
          BY <2>0 DEF Request
      <4> HIDE DEF skip, next
      <4>3. QED
          BY <3>1, <4>1, <4>2 DEF RestoreRuns
    <3>4. \/ RestoreFromTrash(c, e, TRUE, MarkAllowed(req[c], e), next)
          \/ Proceed(c, TRUE, skip)
        BY <2>7 DEF RestoreExport
    <3>5. UNCHANGED <<dbVars, now>>
        BY <2>7 DEF RestoreExport
    <3> HIDE DEF skip, next
    <3>6. Running' /\ Pending'
        BY <3>1, <3>2, <3>3, <3>4, <3>5, RestoreFromTrashRuns, ProceedRuns DEF dbVars
    <3>7. QED
        BY <3>5, <3>6, RowsStable DEF dbVars
  <2>8. ASSUME NEW c \in Client, CommitRestore(c)
        PROVE  Running' /\ Pending' /\ Rows'
    <3>1. Rows'
        BY <2>8, CommitRestoreRows DEF CommitRestore, NodeKnown
    <3>2. \A d \in Client : req'[d] = Idle
        BY <2>8 DEF CommitRestore, SingleClient, TypeOK
    <3>3. QED
        BY <3>1, <3>2 DEF Running, Pending, Idle
  <2>9. ASSUME NEW c \in Client, Fault(c) \/ Undo(c)
        PROVE  Running' /\ Pending' /\ Rows'
    <3>1. UNCHANGED <<dbVars, now>> /\ \E next : Proceed(c, FALSE, next)
        BY <2>9 DEF Fault, Undo
    <3>2. QED
        BY <3>1, ProceedRuns, RowsStable DEF dbVars
  <2>10. ASSUME NEW c \in Client, NEW n \in Node, ReadArchived(c, n)
         PROVE  Running' /\ Pending' /\ Rows'
    <3>1. UNCHANGED dbVars /\ nodes[n].state = "ARCHIVED"
        BY <2>10 DEF ReadArchived
    <3>2. req'[c].phase = "pending" /\ req'[c].node = n
        BY <2>10 DEF ReadArchived, Idle, TypeOK
    <3>3. \A d \in Client : d = c
        BY DEF SingleClient
    <3>4. QED
        BY <3>1, <3>2, <3>3, RowsStable DEF dbVars, Running, Pending
  <2>11. ASSUME NEW c \in Client, Unarchive(c)
         PROVE  Running' /\ Pending' /\ Rows'
    <3> DEFINE n == req[c].node
    <3>1. nodes' = nodes \/ nodes' = SetState(nodes, n, "ACTIVE")
        BY <2>11 DEF Unarchive, UnarchiveMediaNode
    <3>2. n \in Node /\ nodes[n].state # "TRASHED" /\ nodes \in Table
        BY <2>11 DEF Unarchive, NodeKnown, Pending, TypeOK
    <3>3. Rows'
        BY <2>11, <3>1, <3>2, SetStateRows, RowsStable DEF Unarchive
    <3>4. \A d \in Client : req'[d] = Idle
        BY <2>11 DEF Unarchive, SingleClient, TypeOK
    <3>5. QED
        BY <3>3, <3>4 DEF Running, Pending, Idle
  <2>12. ASSUME NEW p \in Path, Scan(p)
         PROVE  Running' /\ Pending' /\ Rows'
    BY <2>12, ScanKeeps, RowsStable
    DEF Scan, KeepsRetired, WriterFree, Running, Pending, NodeKnown
  <2>13. ASSUME NEW p \in Path, Sweep(p)
         PROVE  Running' /\ Pending' /\ Rows'
    <3>1. PICK m \in Node : \/ nodes' = nodes
                             \/ /\ nodes' = SetState(nodes, m, "MISSING")
                                /\ nodes[m].state = "ACTIVE"
        BY <2>13 DEF Sweep, LiveAt, MarkNodeMissing
    <3>2. \A n \in Node : nodes'[n].state = "TRASHED" <=> nodes[n].state = "TRASHED"
      <4>1. nodes \in Table
          BY DEF TypeOK
      <4>2. CASE nodes' = SetState(nodes, m, "MISSING") /\ nodes[m].state = "ACTIVE"
          BY <4>1, <4>2, SetStateRows
      <4>3. QED
          BY <3>1, <4>2
    <3>3. QED
        BY <2>13, <3>2, RowsStable DEF Sweep, WriterFree, Running, Pending, NodeKnown
  <2>14. CASE Crash
    BY <2>14, RowsStable DEF Crash, dbVars, Running, Pending, Idle
  <2>15. CASE UNCHANGED <<nodes, trashedAt, cascades, req>> /\ now' \in {now, now + 1}
    <3>1. now \in Nat /\ \A n \in 0..now : n \in 0..now'
        BY <2>15 DEF TypeOK, Time
    <3>2. ASSUME NEW c \in Client, req[c].phase = "run"
          PROVE  /\ req[c].op = "trash" => TrashRuns(req[c])'
                 /\ req[c].op = "restore" => RestoreRuns(req[c])'
        BY <2>15, <3>1, <3>2 DEF Running, TrashRuns, RestoreRuns, OpenExports
    <3>3. Running'
        BY <2>15, <3>2 DEF Running
    <3>4. QED
        BY <2>15, <3>3, RowsStable DEF Pending
  <2>16. CASE \E c \in Client : ClientStep(c)
    <3>1. ASSUME NEW c \in Client, RenameBack(c)
          PROVE  Running' /\ Pending' /\ Rows'
      <4>1. RestoreRuns(req[c]) /\ UNCHANGED dbVars
          BY <3>1 DEF RenameBack, Running
      <4>2. QED
          BY <3>1, <4>1, RenameBackRuns, RowsStable DEF dbVars
    <3>2. QED
        BY <2>1, <2>2, <2>3, <2>4, <2>5, <2>6, <2>7, <2>8, <2>9, <2>10, <2>11, <2>16, <3>1
        DEF ClientStep
  <2>17. CASE OtherStep
    BY <2>12, <2>13, <2>14, <2>15, <2>17
    DEF OtherStep, PurgeLookup, PurgeRemove, ExternalWrite, Tick, dbVars
  <2>18. QED
    BY <2>15, <2>16, <2>17 DEF Next, vars
<1>3. QED
    BY <1>1, <1>2, Typing, PTL DEF Spec

\* When requests are served one at a time, an open trash_cascades row always
\* stands for one trash: both its rows are in the trash, the export since no later
\* than the master, and no other open row names the export.
THEOREM SequentialCascades ==
    ASSUME SingleClient
    PROVE  Spec => []CascadesMatch
<1>1. CascadeInv => CascadesMatch
    BY DEF CascadeInv
<1>2. QED
    BY <1>1, SequentialInv, PTL

\* And a row has a trash time exactly while it is TRASHED: neither a scan that
\* returns to the row nor an unarchive takes it out of the trash without clearing
\* the time the purge worker goes by.
THEOREM SequentialClock ==
    ASSUME SingleClient
    PROVE  Spec => []TrashClock
<1>1. CascadeInv => TimeOnlyTrashed
    BY DEF CascadeInv
<1>2. TrashedHasTime /\ TimeOnlyTrashed => TrashClock
    BY DEF TrashClock
<1>3. QED
    BY <1>1, <1>2, SequentialInv, TrashTimeRecorded, PTL

----------------------------------------------------------------------------
\* The rows and the disk, when requests are served one at a time and nothing
\* outside the program interferes.

\* The rows no other row supersedes.
Current(t) == {n \in Node : Exists(t[n]) /\ t[n].sup = 0}

\* CHECK (superseded_by IS NULL OR lifecycle_state = 'ARCHIVED')
OnlyArchived(t) == \A n \in Node : t[n].sup # 0 => t[n].state = "ARCHIVED"

\* Ids are handed out without gaps, a superseded row is archived, and the row that
\* is not superseded is the newest of its path.
Book(t) ==
    /\ \A m, n \in Node : Exists(t[n]) /\ m < n => Exists(t[m])
    /\ OnlyArchived(t)
    /\ \A n \in Current(t), m \in Node : Exists(t[m]) /\ t[m].path = t[n].path => m <= n

\* A current row whose file is there has its fast hash.
Fits(t, d) ==
    \A n \in Current(t) : d[t[n].path] # NoFile => t[n].fast = FastOf[d[t[n].path]]

\* The process starts over an index that describes the disk.
Settled == Book(InitNodes) /\ Fits(InitNodes, InitDisk)

----------------------------------------------------------------------------
\* What a scan result does to the paths, the hashes and the links of the rows.

Alike(a, b) ==
    (Exists(a) <=> Exists(b)) /\ b.path = a.path /\ b.fast = a.fast /\ b.sup = a.sup

AllAlike(t, u) == \A n \in Node : Alike(t[n], u[n])

LEMMA AlikeTransitive ==
    ASSUME NEW t, NEW u, NEW v, AllAlike(t, u), AllAlike(u, v)
    PROVE  AllAlike(t, v)
BY DEF AllAlike, Alike

LEMMA SetStateAlike ==
    ASSUME NEW t \in Table, NEW n \in Node, NEW s \in LifecycleState, s # "NONE",
           Exists(t[n])
    PROVE  AllAlike(t, SetState(t, n, s))
BY DEF SetState, AllAlike, Alike, Exists, Table, Row

LEMMA UpdateFullHashAlike ==
    ASSUME NEW t \in Table, NEW n \in Node, NEW h \in FullHash
    PROVE  AllAlike(t, UpdateMediaNodeFullHash(t, n, h))
BY DEF UpdateMediaNodeFullHash, AllAlike, Alike, Exists, Table, Row

LEMMA RecordSourceAlike ==
    ASSUME NEW t \in Table, NEW n \in Node, NEW h \in FullHash
    PROVE  AllAlike(t, RecordFullHashSource(t, n, h, "SERVER"))
BY DEF RecordFullHashSource, AllAlike, Alike, Exists, Table, Row

LEMMA ClearAlike ==
    ASSUME NEW t \in Table, NEW n \in Node
    PROVE  AllAlike(t, ClearDisprovedFullHash(t, n))
BY DEF ClearDisprovedFullHash, AllAlike, Alike, Exists, Table, Row

LEMMA TouchSeenAlike ==
    ASSUME NEW t \in Table, NEW n \in Node, NEW r, Hashed(r)
    PROVE  AllAlike(t, TouchSeen(t, n, r).nodes)
<1> DEFINE touched == TouchMediaNode(t, n)
           hashed  == UpdateMediaNodeFullHash(touched, n, r.full)
<1>1. r.full \in FullHash
    BY DEF Hashed
<1>2. touched \in Table
    BY TouchKeeps
<1>3. AllAlike(t, touched)
  <2>1. AllAlike(t, t)
    BY DEF AllAlike, Alike
  <2>2. CASE t[n].state = "MISSING"
    BY <2>2, SetStateAlike DEF TouchMediaNode, LifecycleState, Exists
  <2>3. QED
    BY <2>1, <2>2 DEF TouchMediaNode
<1>4. hashed \in Table /\ AllAlike(t, hashed)
  <2> HIDE DEF touched
  <2> QED BY <1>1, <1>2, <1>3, UpdateFullHashKeeps, UpdateFullHashAlike, AlikeTransitive
<1>5. \/ TouchSeen(t, n, r).nodes = touched
      \/ TouchSeen(t, n, r).nodes = RecordFullHashSource(touched, n, r.full, "SERVER")
      \/ TouchSeen(t, n, r).nodes = ClearDisprovedFullHash(touched, n)
      \/ TouchSeen(t, n, r).nodes = RecordFullHashSource(hashed, n, r.full, "SERVER")
    BY DEF TouchSeen, Outcome
<1> HIDE DEF touched, hashed
<1>6. QED
    BY <1>1, <1>2, <1>3, <1>4, <1>5, RecordSourceAlike, ClearAlike, AlikeTransitive

\* u is t with a new row for path p, which supersedes the rows in S.
Inserted(t, u, p, f, S) ==
    LET x == NextId(t)
    IN  /\ x \in FreeIds(t)
        /\ Exists(u[x]) /\ u[x].path = p /\ u[x].fast = f /\ u[x].sup = 0
        /\ \A m \in Node \ {x} :
             /\ (Exists(t[m]) <=> Exists(u[m])) /\ u[m].path = t[m].path /\ u[m].fast = t[m].fast
             /\ u[m].sup = IF m \in S THEN x ELSE t[m].sup

LEMMA InsertNewNodeInserts ==
    ASSUME NEW t \in Table, FreeIds(t) # {}, NEW r, Hashed(r)
    PROVE  Inserted(t, InsertNewNode(t, r), r.path, r.fast, {})
<1> DEFINE u == InsertMediaNode(t, r.path, r.fast, r.full, NoProvenance)
<1>1. NextId(t) \in FreeIds(t)
    BY NextIdFree
<1>2. r.path \in Path /\ r.fast \in FastHash /\ r.full \in FullHash
    BY DEF Hashed
<1>3. u \in Table
    BY <1>2, InsertKeeps
<1>4. Inserted(t, u, r.path, r.fast, {})
    BY <1>1 DEF InsertMediaNode, Inserted, FreeIds, Exists, Table
<1>5. InsertNewNode(t, r) = RecordFullHashSource(u, NextId(t), r.full, "SERVER")
    BY DEF InsertNewNode
<1>6. NextId(t) \in Node
    BY <1>1 DEF FreeIds
<1> HIDE DEF u
<1>7. AllAlike(u, InsertNewNode(t, r))
    BY <1>2, <1>3, <1>5, <1>6, RecordSourceAlike
<1>8. QED
    BY <1>4, <1>6, <1>7 DEF Inserted, AllAlike, Alike

LEMMA SupersedeInserts ==
    ASSUME NEW t \in Table, NEW n \in Node, Live(t[n]), FreeIds(t) # {}, NEW r, Hashed(r)
    PROVE  \/ AllAlike(t, Supersede(t, n, r).nodes)
           \/ Inserted(t, Supersede(t, n, r).nodes, r.path, r.fast, {n})
<1> DEFINE archived == ArchiveMediaNode(t, n)
           inserted == InsertNewNode(archived, r)
           linked   == SetSupersededBy(inserted, n, NextId(archived))
<1>1. archived \in Table /\ AllAlike(t, archived)
    BY SetStateKeeps, SetStateAlike DEF ArchiveMediaNode, Live, LifecycleState, Exists
<1>2. FreeIds(archived) = FreeIds(t)
    BY <1>1 DEF FreeIds, AllAlike, Alike
<1>3. NextId(archived) = NextId(t)
    BY <1>2 DEF NextId
<1>4. \/ Supersede(t, n, r).nodes = archived
      \/ Supersede(t, n, r).nodes = linked
    BY DEF Supersede, Outcome
<1> HIDE DEF archived
<1>5. inserted \in Table /\ Inserted(archived, inserted, r.path, r.fast, {})
    BY <1>1, <1>2, InsertNewNodeKeeps, InsertNewNodeInserts
<1>6. n # NextId(t) /\ NextId(t) \in Node
    BY <1>2, <1>3, <1>5 DEF Inserted, FreeIds, Live, Exists
<1> HIDE DEF inserted
<1>7. Inserted(t, linked, r.path, r.fast, {n})
  <2>1. \A m \in Node : /\ linked[m].state = inserted[m].state /\ linked[m].path = inserted[m].path
                        /\ linked[m].fast = inserted[m].fast
                        /\ linked[m].sup = IF m = n THEN NextId(t) ELSE inserted[m].sup
    BY <1>3, <1>5 DEF SetSupersededBy, Table, Row
  <2>2. NextId(t) \in FreeIds(t)
    BY <1>2, <1>3, <1>5 DEF Inserted
  <2> HIDE DEF linked
  <2>3. \A m \in Node \ {NextId(t)} :
             /\ (Exists(t[m]) <=> Exists(linked[m]))
             /\ linked[m].path = t[m].path /\ linked[m].fast = t[m].fast
             /\ linked[m].sup = IF m \in {n} THEN NextId(t) ELSE t[m].sup
    BY <1>1, <1>3, <1>5, <2>1 DEF Inserted, AllAlike, Alike, Exists
  <2>4. LET x == NextId(t) IN Exists(linked[x]) /\ linked[x].path = r.path
                              /\ linked[x].fast = r.fast /\ linked[x].sup = 0
    BY <1>3, <1>5, <1>6, <2>1 DEF Inserted, Exists
  <2>5. QED
    BY <2>2, <2>3, <2>4 DEF Inserted
<1>8. QED
    BY <1>1, <1>4, <1>7

LEMMA ArchivedSuccessorInserts ==
    ASSUME NEW t \in Table, NEW n \in Node, Exists(t[n]), FreeIds(t) # {}, NEW r, Hashed(r)
    PROVE  \/ AllAlike(t, ArchivedSuccessor(t, n, r).nodes)
           \/ Inserted(t, ArchivedSuccessor(t, n, r).nodes, r.path, r.fast, {n})
<1> DEFINE inserted == InsertNewNode(t, r)
           archived == ArchiveMediaNode(inserted, NextId(t))
           linked   == SetSupersededBy(archived, n, NextId(t))
<1>0. \/ ArchivedSuccessor(t, n, r).nodes = t
      \/ ArchivedSuccessor(t, n, r).nodes = linked
    BY DEF ArchivedSuccessor, Outcome, Unchanged
<1>1. /\ inserted \in Table /\ Inserted(t, inserted, r.path, r.fast, {})
      /\ NextId(t) \in Node /\ Exists(inserted[NextId(t)])
    BY InsertNewNodeKeeps, InsertNewNodeInserts DEF Exists
<1>2. n # NextId(t)
    BY <1>1 DEF Inserted, FreeIds
<1> HIDE DEF inserted
<1>3. archived \in Table /\ AllAlike(inserted, archived)
    BY <1>1, SetStateType, SetStateAlike DEF ArchiveMediaNode, LifecycleState
<1> HIDE DEF archived
<1>4. Inserted(t, linked, r.path, r.fast, {n})
  <2>1. \A m \in Node : /\ linked[m].state = archived[m].state /\ linked[m].path = archived[m].path
                        /\ linked[m].fast = archived[m].fast
                        /\ linked[m].sup = IF m = n THEN NextId(t) ELSE archived[m].sup
    BY <1>3 DEF SetSupersededBy, Table, Row
  <2>2. NextId(t) \in FreeIds(t)
    BY <1>1 DEF Inserted
  <2> HIDE DEF linked
  <2>3. \A m \in Node \ {NextId(t)} :
             /\ (Exists(t[m]) <=> Exists(linked[m]))
             /\ linked[m].path = t[m].path /\ linked[m].fast = t[m].fast
             /\ linked[m].sup = IF m \in {n} THEN NextId(t) ELSE t[m].sup
    BY <1>1, <1>3, <2>1 DEF Inserted, AllAlike, Alike, Exists
  <2>4. LET x == NextId(t) IN Exists(linked[x]) /\ linked[x].path = r.path
                              /\ linked[x].fast = r.fast /\ linked[x].sup = 0
    BY <1>1, <1>2, <1>3, <2>1 DEF Inserted, AllAlike, Alike, Exists
  <2>5. QED
    BY <2>2, <2>3, <2>4 DEF Inserted
<1>5. AllAlike(t, t)
    BY DEF AllAlike, Alike
<1>6. QED
    BY <1>0, <1>4, <1>5

\* u is t with the row n, which was live, at path p.
Rebased(t, u, n, p) ==
    /\ Exists(u[n]) /\ u[n].path = p /\ u[n].fast = t[n].fast /\ u[n].sup = t[n].sup
    /\ \A m \in Node \ {n} : Alike(t[m], u[m])

LEMMA RebaseMovedMoves ==
    ASSUME NEW t \in Table, NEW n \in Node, Live(t[n]), NEW r, Hashed(r)
    PROVE  LET u == RebaseMoved(t, n, r).nodes
           IN  AllAlike(t, u) \/ Rebased(t, u, n, r.path)
<1> DEFINE rebased == RebaseMissingNodePath(t, n, r.path)
           hashed  == UpdateMediaNodeFullHash(rebased, n, r.full)
<1>1. r.full \in FullHash /\ r.path \in Path
    BY DEF Hashed
<1>2. rebased \in Table /\ Rebased(t, rebased, n, r.path)
  <2>1. rebased \in Table
    BY <1>1, RebaseKeeps
  <2>2. QED
    BY <2>1 DEF RebaseMissingNodePath, Rebased, Alike, Exists, Table, Row
<1>3. hashed \in Table /\ AllAlike(rebased, hashed)
  <2> HIDE DEF rebased
  <2> QED BY <1>1, <1>2, UpdateFullHashKeeps, UpdateFullHashAlike
<1>4. \/ RebaseMoved(t, n, r).nodes = t
      \/ RebaseMoved(t, n, r).nodes = rebased
      \/ RebaseMoved(t, n, r).nodes = RecordFullHashSource(hashed, n, r.full, "SERVER")
    BY DEF RebaseMoved, Outcome, Unchanged
<1>5. AllAlike(t, t)
    BY DEF AllAlike, Alike
<1> HIDE DEF rebased, hashed
<1>6. AllAlike(rebased, RecordFullHashSource(hashed, n, r.full, "SERVER"))
    BY <1>1, <1>3, RecordSourceAlike, AlikeTransitive
<1>7. QED
    BY <1>2, <1>4, <1>5, <1>6 DEF Rebased, AllAlike, Alike

\* What such a table says of the current rows.
Tells(t, u, p, f) ==
    /\ \A n \in Node : Exists(t[n]) => Exists(u[n]) /\ u[n].fast = t[n].fast
    /\ \A n \in Node : t[n].state = "TRASHED" => u[n].path = t[n].path
    /\ \A n \in Current(u) :
         \/ n \in Current(t) /\ u[n].path = t[n].path /\ u[n].fast = t[n].fast
         \/ u[n].path = p /\ u[n].fast = f

LEMMA AlikeTells ==
    ASSUME NEW t \in Table, NEW u, NEW p, NEW f, Book(t), OnlyArchived(u),
           AllAlike(t, u)
    PROVE  Book(u) /\ Tells(t, u, p, f)
<1>1. Current(u) = Current(t)
    BY DEF AllAlike, Alike, Current
<1>2. \A n \in Current(t) : n \in Node
    BY DEF Current
<1>3. Book(u)
    BY <1>1, <1>2 DEF Book, OnlyArchived, AllAlike, Alike
<1>4. Tells(t, u, p, f)
  <2>1. \A n \in Node : t[n].state = "TRASHED" => Exists(t[n])
    BY DEF Exists
  <2>2. QED
    BY <1>1, <1>2, <2>1 DEF Tells, AllAlike, Alike
<1>5. QED
    BY <1>3, <1>4

LEMMA InsertedTells ==
    ASSUME NEW t \in Table, NEW u, NEW p, NEW f, NEW S, Book(t), OnlyArchived(u),
           Inserted(t, u, p, f, S),
           \A n \in Current(t) : t[n].path = p => n \in S
    PROVE  Book(u) /\ Tells(t, u, p, f)
<1> DEFINE x == NextId(t)
<1>1. /\ x \in Node /\ ~Exists(t[x]) /\ x # 0 /\ x \in Nat
      /\ \A m \in FreeIds(t) : x <= m
  <2>1. FreeIds(t) \in SUBSET Nat /\ FreeIds(t) # {}
    BY NodeStoreAssumption DEF FreeIds, Node, Inserted
  <2>2. \E y \in FreeIds(t) : \A m \in FreeIds(t) : y <= m
    BY <2>1, LeastExists
  <2>3. x \in FreeIds(t) /\ \A m \in FreeIds(t) : x <= m
    BY <2>2 DEF NextId
  <2>4. QED
    BY <2>3, NodeStoreAssumption DEF FreeIds, Node
<1>2. /\ Exists(u[x]) /\ u[x].path = p /\ u[x].fast = f /\ u[x].sup = 0
      /\ \A m \in Node \ {x} :
           /\ (Exists(t[m]) <=> Exists(u[m])) /\ u[m].path = t[m].path /\ u[m].fast = t[m].fast
           /\ u[m].sup = IF m \in S THEN x ELSE t[m].sup
    BY DEF Inserted
<1> HIDE DEF x
<1>3. Node \subseteq Nat
    BY NodeStoreAssumption DEF Node
<1>4. \A m \in Node : Exists(t[m]) => m # x /\ m < x
  <2> SUFFICES ASSUME NEW m \in Node, Exists(t[m]) PROVE m # x /\ m < x
    OBVIOUS
  <2>1. ~(x < m)
    BY <1>1 DEF Book
  <2>2. m # x
    BY <1>1
  <2>3. QED
    BY <1>1, <1>3, <2>1, <2>2
<1>5. \A m, n \in Node : Exists(u[n]) /\ m < n => Exists(u[m])
  <2> SUFFICES ASSUME NEW m \in Node, NEW n \in Node, Exists(u[n]), m < n PROVE Exists(u[m])
    OBVIOUS
  <2>1. CASE n = x
    <3>1. ~(x <= m)
        BY <1>1, <1>3, <2>1
    <3>2. Exists(t[m])
        BY <1>1, <3>1 DEF FreeIds
    <3>3. QED
        BY <1>2, <1>4, <3>2
  <2>2. CASE n # x
    <3>1. Exists(t[n])
        BY <1>2, <2>2
    <3>2. Exists(t[m])
        BY <3>1 DEF Book
    <3>3. QED
        BY <1>2, <1>4, <3>2
  <2>3. QED
    BY <2>1, <2>2
<1>6. \A n \in Node : u[n].sup # 0 => u[n].state = "ARCHIVED"
    BY DEF OnlyArchived
<1>7. \A n \in Current(u) : n # x => n \in Current(t) /\ n \notin S
    BY <1>1, <1>2 DEF Current
<1>8. \A n \in Current(u), m \in Node : Exists(u[m]) /\ u[m].path = u[n].path => m <= n
  <2> SUFFICES ASSUME NEW n \in Current(u), NEW m \in Node, Exists(u[m]), u[m].path = u[n].path
               PROVE  m <= n
    OBVIOUS
  <2>0. n \in Node
    BY DEF Current
  <2>1. CASE n = x
    <3>1. m = x \/ Exists(t[m])
        BY <1>2
    <3>2. QED
        BY <1>1, <1>3, <1>4, <2>1, <3>1
  <2>2. CASE n # x /\ m = x
    BY <1>2, <1>7, <2>0, <2>2
  <2>3. CASE n # x /\ m # x
    <3>1. Exists(t[m]) /\ t[m].path = t[n].path /\ n \in Current(t)
        BY <1>2, <1>7, <2>0, <2>3
    <3>2. QED
        BY <3>1 DEF Book
  <2>4. QED
    BY <2>1, <2>2, <2>3
<1>9. Tells(t, u, p, f)
  <2>1. \A n \in Node : Exists(t[n]) => Exists(u[n]) /\ u[n].fast = t[n].fast
    BY <1>2, <1>4
  <2>2. \A n \in Node : t[n].state = "TRASHED" => u[n].path = t[n].path
    BY <1>1, <1>2 DEF Exists
  <2>3. \A n \in Current(u) : n \in Node
    BY DEF Current
  <2>4. \A n \in Current(u) :
         \/ n \in Current(t) /\ u[n].path = t[n].path /\ u[n].fast = t[n].fast
         \/ u[n].path = p /\ u[n].fast = f
    BY <1>2, <1>7, <2>3
  <2>5. QED
    BY <2>1, <2>2, <2>4 DEF Tells
<1>10. QED
    BY <1>5, <1>6, <1>8, <1>9 DEF Book, OnlyArchived

LEMMA RebasedTells ==
    ASSUME NEW t \in Table, NEW u, NEW p, NEW n \in Node, Book(t), OnlyArchived(u),
           Live(t[n]), Rebased(t, u, n, p), \A m \in Node : Exists(t[m]) => t[m].path # p
    PROVE  Book(u) /\ Tells(t, u, p, t[n].fast)
<1>1. /\ Exists(u[n]) /\ u[n].path = p /\ u[n].fast = t[n].fast /\ u[n].sup = t[n].sup
      /\ Exists(t[n]) /\ t[n].state # "TRASHED"
      /\ \A m \in Node \ {n} : Alike(t[m], u[m])
    BY DEF Rebased, Live, Exists
<1>2. \A m \in Node : Exists(t[m]) <=> Exists(u[m])
    BY <1>1 DEF Alike
<1>3. Current(u) = Current(t)
    BY <1>1, <1>2 DEF Current, Alike
<1>4. \A k \in Current(u), m \in Node : Exists(u[m]) /\ u[m].path = u[k].path => m <= k
  <2> SUFFICES ASSUME NEW k \in Current(u), NEW m \in Node, Exists(u[m]), u[m].path = u[k].path
               PROVE  m <= k
    OBVIOUS
  <2>1. k \in Node /\ Exists(t[k]) /\ Exists(t[m])
    BY <1>2, <1>3 DEF Current
  <2>2. k \in Nat /\ m \in Nat
    BY <2>1, NodeStoreAssumption DEF Node
  <2>3. CASE k = m
    BY <2>2, <2>3
  <2>4. CASE k # m
    <3>1. k # n /\ m # n
        BY <1>1, <2>1, <2>4 DEF Alike
    <3>2. t[m].path = t[k].path
        BY <1>1, <2>1, <3>1 DEF Alike
    <3>3. QED
        BY <1>3, <2>1, <3>2 DEF Book
  <2>5. QED
    BY <2>3, <2>4
<1>5. Book(u)
    BY <1>2, <1>4 DEF Book, OnlyArchived
<1>6. Tells(t, u, p, t[n].fast)
  <2>1. \A m \in Node : Exists(t[m]) => Exists(u[m]) /\ u[m].fast = t[m].fast
    BY <1>1, <1>2 DEF Alike
  <2>2. \A m \in Node : t[m].state = "TRASHED" => u[m].path = t[m].path
    BY <1>1 DEF Alike
  <2>3. \A m \in Current(u) :
         \/ m \in Current(t) /\ u[m].path = t[m].path /\ u[m].fast = t[m].fast
         \/ u[m].path = p /\ u[m].fast = t[n].fast
    BY <1>1, <1>3 DEF Current, Alike
  <2>4. QED
    BY <2>1, <2>2, <2>3 DEF Tells
<1>7. QED
    BY <1>5, <1>6

\* A path with a row has a latest one.
LEMMA LatestExists ==
    ASSUME NEW t, NEW p, NEW n \in Node, Exists(t[n]), t[n].path = p
    PROVE  \E m \in Node : m \in LatestAt(t, p)
<1> DEFINE At == {m \in Node : Exists(t[m]) /\ t[m].path = p}
           S  == {MaxNode - m : m \in At}
<1>1. S \in SUBSET Nat /\ S # {} /\ At \in SUBSET Nat
    BY NodeStoreAssumption DEF Node
<1>2. PICK x \in S : \A y \in S : x <= y
    BY <1>1, LeastExists
<1>3. PICK m \in At : x = MaxNode - m
    BY <1>2
<1>4. \A k \in At : k <= m
  <2> SUFFICES ASSUME NEW k \in At PROVE k <= m
    OBVIOUS
  <2>1. MaxNode - m <= MaxNode - k
    BY <1>2, <1>3
  <2>2. k \in Nat /\ m \in Nat /\ MaxNode \in Nat
    BY <1>1, <1>3, NodeStoreAssumption
  <2>3. QED
    BY <2>1, <2>2
<1>5. QED
    BY <1>3, <1>4 DEF LatestAt

LEMMA CommitTells ==
    ASSUME NEW t \in Table, Book(t), FreeIds(t) # {}, NEW r, Hashed(r), CommitOne(t, r).ok,
           \A n \in Current(t) : t[n].path = r.path => t[n].fast = r.fast
    PROVE  Book(CommitOne(t, r).nodes) /\ Tells(t, CommitOne(t, r).nodes, r.path, r.fast)
<1> DEFINE u == CommitOne(t, r).nodes
           p == r.path
           f == r.fast
           l == LatestAt(t, p)
           n == Oldest(LiveAt(t, p))
           k == Oldest(MoveCandidates(t, r))
<1>0. LiveAt(t, p) \in SUBSET Node /\ l \in SUBSET Node /\ MoveCandidates(t, r) \in SUBSET Node
    BY DEF LiveAt, LatestAt, MoveCandidates, MissingWithFast
<1>1. OnlyArchived(u)
  <2>1. /\ \A s, x, y : Outcome(s, x, y).ok => Schema(Outcome(s, x, y).nodes)
        /\ Unchanged(t).ok => Schema(Unchanged(t).nodes)
    BY DEF Outcome, Unchanged
  <2>2. \E s, x, y : CommitOne(t, r) = Outcome(s, x, y)
    <3>1. \A m : \E s, x, y : TouchSeen(t, m, r) = Outcome(s, x, y)
        BY DEF TouchSeen
    <3>2. \A m : \E s, x, y : Supersede(t, m, r) = Outcome(s, x, y)
        BY DEF Supersede
    <3>3. \A m : \E s, x, y : ArchivedSuccessor(t, m, r) = Outcome(s, x, y)
        BY DEF ArchivedSuccessor, Unchanged
    <3>4. \A m : \E s, x, y : RebaseMoved(t, m, r) = Outcome(s, x, y)
        BY DEF RebaseMoved, Unchanged
    <3>5. \E s, x, y : CommitNoLiveNode(t, r) = Outcome(s, x, y)
        BY <3>3, <3>4 DEF CommitNoLiveNode, Unchanged
    <3>6. QED
        BY <3>1, <3>2, <3>5 DEF CommitOne
  <2>3. QED
    BY <2>1, <2>2 DEF Schema, SupersededIsArchived, OnlyArchived
<1>2. AllAlike(t, t)
    BY DEF AllAlike, Alike
<1>3. CASE LiveAt(t, p) # {}
  <2>1. n \in Node /\ Live(t[n]) /\ t[n].path = p
    <3>1. n \in LiveAt(t, p)
        BY <1>0, <1>3, OldestIn
    <3>2. QED
        BY <3>1 DEF LiveAt
  <2>2. \A m \in Current(t) : t[m].path = p => m = n
    <3>1. n \in Current(t)
        BY <2>1 DEF Current, Book, OnlyArchived, Live, Exists
    <3>2. \A m \in Current(t) : t[m].path = p => m \in Node /\ Exists(t[m])
        BY DEF Current
    <3>3. \A m \in Current(t) : t[m].path = p => m <= n /\ n <= m
        BY <2>1, <3>1, <3>2 DEF Book
    <3>4. \A m \in Node : m \in Nat
        BY NodeStoreAssumption DEF Node
    <3>5. QED
        BY <2>1, <3>2, <3>3, <3>4
  <2>3. u = TouchSeen(t, n, r).nodes \/ u = Supersede(t, n, r).nodes
    BY <1>3 DEF CommitOne
  <2> HIDE DEF u, n
  <2>4. AllAlike(t, u) \/ Inserted(t, u, p, f, {n})
    <3>1. AllAlike(t, TouchSeen(t, n, r).nodes)
        BY <2>1, TouchSeenAlike
    <3>2. \/ AllAlike(t, Supersede(t, n, r).nodes)
          \/ Inserted(t, Supersede(t, n, r).nodes, r.path, r.fast, {n})
        BY <2>1, SupersedeInserts
    <3>3. QED
        BY <2>3, <3>1, <3>2
  <2>5. CASE AllAlike(t, u)
    <3>1. Book(u) /\ Tells(t, u, p, f)
        BY <1>1, <2>5, AlikeTells
    <3>2. QED
        BY <3>1 DEF u
  <2>6. CASE Inserted(t, u, p, f, {n})
    <3>1. \A m \in Current(t) : t[m].path = p => m \in {n}
        BY <2>2
    <3>2. Book(u) /\ Tells(t, u, p, f)
        BY <1>1, <2>6, <3>1, InsertedTells
    <3>3. QED
        BY <3>2 DEF u
  <2>7. QED
    BY <2>4, <2>5, <2>6
<1>4. CASE LiveAt(t, p) = {}
  <2>1. CommitOne(t, r) = CommitNoLiveNode(t, r)
    BY <1>4 DEF CommitOne
  <2>2. \A m \in Current(t) : t[m].path = p =>
            m \in l /\ t[m].fast = f /\ t[m].state \in {"ARCHIVED", "TRASHED"}
    <3> SUFFICES ASSUME NEW m \in Current(t), t[m].path = p
                 PROVE  m \in l /\ t[m].fast = f /\ t[m].state \in {"ARCHIVED", "TRASHED"}
        OBVIOUS
    <3>1. m \in Node /\ Exists(t[m])
        BY DEF Current
    <3>2. m \in l
        BY <3>1 DEF LatestAt, Book
    <3>3. t[m].state \in {"ARCHIVED", "TRASHED"}
        BY <1>4, <3>1 DEF LiveAt, Live, Exists
    <3>4. QED
        BY <3>2, <3>3
  <2>3. \A m \in l : m \in Node /\ Exists(t[m]) /\ t[m].path = p
    BY DEF LatestAt
  <2>4. \A m, j \in l : m = j
    <3>1. \A m, j \in l : m <= j /\ j <= m
        BY DEF LatestAt
    <3>2. \A m \in l : m \in Nat
        BY <2>3, NodeStoreAssumption DEF Node
    <3>3. QED
        BY <3>1, <3>2
  <2>5. \/ /\ l # {} /\ (\E m \in l : t[m].state = "ARCHIVED")
           /\ ~(\E m \in l : t[m].fast = f)
           /\ u = ArchivedSuccessor(t, Oldest(l), r).nodes
        \/ u = t
        \/ /\ ~((\E m \in l : t[m].state \in {"ARCHIVED", "TRASHED"})
                /\ (\E m \in l : t[m].fast = f))
           /\ ~(\E m \in l : t[m].state = "ARCHIVED")
           /\ \/ MoveCandidates(t, r) # {} /\ u = RebaseMoved(t, k, r).nodes
              \/ u = InsertNewNode(t, r)
    BY <2>1 DEF CommitNoLiveNode, Unchanged, Outcome
  <2>6. CASE /\ l # {} /\ (\E m \in l : t[m].state = "ARCHIVED")
             /\ ~(\E m \in l : t[m].fast = f)
             /\ u = ArchivedSuccessor(t, Oldest(l), r).nodes
    <3>1. Oldest(l) \in Node /\ Exists(t[Oldest(l)])
        BY <1>0, <2>3, <2>6, OldestIn
    <3>2. \A m \in Current(t) : t[m].path = p => m \in {Oldest(l)}
        BY <2>2, <2>6
    <3> HIDE DEF u
    <3>3. AllAlike(t, u) \/ Inserted(t, u, p, f, {Oldest(l)})
        BY <2>6, <3>1, ArchivedSuccessorInserts
    <3>4. QED
        BY <1>1, <3>2, <3>3, AlikeTells, InsertedTells DEF u
  <2>7. CASE u = t
    <3> HIDE DEF u
    <3>1. AllAlike(t, u)
        BY <1>2, <2>7
    <3>2. QED
        BY <1>1, <3>1, AlikeTells DEF u
  <2>8. CASE /\ ~((\E m \in l : t[m].state \in {"ARCHIVED", "TRASHED"})
                  /\ (\E m \in l : t[m].fast = f))
             /\ ~(\E m \in l : t[m].state = "ARCHIVED")
             /\ \/ MoveCandidates(t, r) # {} /\ u = RebaseMoved(t, k, r).nodes
                \/ u = InsertNewNode(t, r)
    <3>1. \A m \in Current(t) : t[m].path # p
        BY <2>2, <2>8
    <3>2. CASE u = InsertNewNode(t, r)
      <4> HIDE DEF u
      <4>1. Inserted(t, u, p, f, {})
          BY <3>2, InsertNewNodeInserts
      <4>2. QED
          BY <1>1, <3>1, <4>1, InsertedTells DEF u
    <3>3. CASE MoveCandidates(t, r) # {} /\ u = RebaseMoved(t, k, r).nodes
      <4>1. k \in Node /\ Live(t[k]) /\ t[k].fast = f
        <5>1. k \in MoveCandidates(t, r)
            BY <1>0, <3>3, OldestIn
        <5>2. QED
            BY <5>1 DEF MoveCandidates, MissingWithFast, Live
      <4>2. \A m \in Node : Exists(t[m]) => t[m].path # p
        <5> SUFFICES ASSUME NEW m \in Node, Exists(t[m]), t[m].path = p PROVE FALSE
            OBVIOUS
        <5>1. PICK j \in Node : j \in l
            BY LatestExists
        <5>2. j \notin LiveAt(t, p) /\ Exists(t[j]) /\ t[j].path = p
            BY <1>4, <2>3, <5>1
        <5>3. t[j].state \in {"ARCHIVED", "TRASHED"}
            BY <5>2 DEF LiveAt, Live, Exists
        <5>4. t[j].state = "TRASHED"
            BY <2>8, <5>1, <5>3
        <5>5. t[j].sup = 0
            BY <5>4 DEF Book, OnlyArchived
        <5>6. j \in Current(t)
            BY <5>2, <5>5 DEF Current
        <5>7. QED
            BY <3>1, <5>2, <5>6
      <4> HIDE DEF u, k
      <4>3. AllAlike(t, u) \/ Rebased(t, u, k, p)
          BY <3>3, <4>1, RebaseMovedMoves
      <4>4. QED
          BY <1>1, <4>1, <4>2, <4>3, AlikeTells, RebasedTells DEF u
    <3>4. QED
        BY <2>8, <3>2, <3>3
  <2>9. QED
    BY <2>5, <2>6, <2>7, <2>8
<1>5. QED
    BY <1>3, <1>4

Has(q, p, n, dir) == \E i \in DOMAIN q : q[i].path = p /\ q[i].node = n /\ q[i].dir = dir

\* The way back of a file in .trash is free, and no row at its path is at odds with it.
InUndoable(m) ==
    /\ disk[m.path] = NoFile
    /\ \A n \in Current(nodes) : nodes[n].path = m.path =>
         /\ nodes[n].state # "TRASHED"
         /\ bin[m.path][m.node] # NoFile => nodes[n].fast = FastOf[bin[m.path][m.node]]

\* A file taken out of .trash is at its path, and its row still in the trash.
OutUndoable(m) ==
    /\ disk[m.path] # NoFile
    /\ nodes[m.node].state = "TRASHED" /\ nodes[m.node].path = m.path

Undoable(q) ==
    /\ \A i, j \in DOMAIN q : q[i].path = q[j].path => i = j
    /\ \A i \in DOMAIN q :
         /\ Kind[q[i].path] = "local"
         /\ q[i].dir = "in" => InUndoable(q[i])
         /\ q[i].dir = "out" => OutUndoable(q[i])

\* What is in .trash: the file of a row in the trash, or one the log moved there.
BinsKnown(q) ==
    \A p \in Path, n \in Node : bin[p][n] # NoFile =>
        /\ Kind[p] = "local"
        /\ \/ Has(q, p, n, "in")
           \/ /\ nodes[n].state = "TRASHED" /\ nodes[n].path = p
              /\ nodes[n].fast = FastOf[bin[p][n]]

\* A row in the trash has no file at its path, unless the log put it there.
TrashGone(q) ==
    \A n \in Node : /\ nodes[n].state = "TRASHED" /\ Kind[nodes[n].path] = "local"
                    /\ disk[nodes[n].path] # NoFile
                    => Has(q, nodes[n].path, n, "out")

Visited(r) == r.marked \cup (IF r.begun THEN {r.node} ELSE {})

\* What a transaction has done so far.
TrashDone(r) ==
    /\ \A i \in DOMAIN r.moves :
         /\ r.moves[i].dir = "in" /\ r.moves[i].node \in Visited(r)
         /\ nodes[r.moves[i].node].path = r.moves[i].path
    /\ \A n \in Visited(r) :
         /\ n \in Current(nodes)
         /\ Kind[nodes[n].path] = "local" => disk[nodes[n].path] = NoFile

RestoreDone(r) ==
    /\ nodes[r.node].state = "TRASHED"
    /\ \A n \in r.aim : nodes[n].state = "TRASHED" /\ disk[nodes[n].path] = NoFile
    /\ ~r.begun => r.marked = {}
    /\ \A i \in DOMAIN r.moves : r.moves[i].dir = "out" /\ r.moves[i].node \in r.marked
    /\ \A n \in r.marked : nodes[n].state = "TRASHED" /\ bin[nodes[n].path][n] = NoFile

Whole(r) ==
    /\ r.phase \in {"idle", "pending"} => r.moves = <<>>
    /\ Undoable(r.moves) /\ BinsKnown(r.moves) /\ TrashGone(r.moves)
    /\ r.phase = "run" /\ r.op = "trash" => TrashDone(r)
    /\ r.phase = "run" /\ r.op = "restore" => RestoreDone(r)
    /\ r.phase = "pending" => Exists(nodes[r.node])

Tidy == mishaps = 0 => Book(nodes) /\ Fits(nodes, disk) /\ \A c \in Client : Whole(req[c])

\* The move log of a client's request.
Log(c) ==
    /\ Undoable(req[c].moves) /\ BinsKnown(req[c].moves) /\ TrashGone(req[c].moves)

LEMMA MovesType ==
    ASSUME TypeOK, NEW c \in Client
    PROVE  /\ req[c] \in Request /\ req[c].moves \in Seq(Move)
           /\ DOMAIN req[c].moves = 1..Len(req[c].moves) /\ Len(req[c].moves) \in Nat
           /\ \A i \in DOMAIN req[c].moves :
                /\ req[c].moves[i].path \in Path /\ req[c].moves[i].node \in Node
                /\ req[c].moves[i].dir \in {"in", "out"}
<1>1. req[c] \in Request
    BY DEF TypeOK
<1>2. req[c].moves \in Seq(Move)
    BY <1>1 DEF Request
<1>3. /\ DOMAIN req[c].moves = 1..Len(req[c].moves) /\ Len(req[c].moves) \in Nat
      /\ \A i \in DOMAIN req[c].moves : req[c].moves[i] \in Move
    BY <1>2
<1>4. QED
    BY <1>1, <1>2, <1>3 DEF Move

LEMMA AppendHas ==
    ASSUME NEW q \in Seq(Move), NEW p \in Path, NEW n \in Node, NEW dir \in {"in", "out"},
           NEW at \in Time \cup {OldTime}, NEW r,
           r = Append(q, [path |-> p, node |-> n, dir |-> dir, at |-> at])
    PROVE  /\ DOMAIN r = DOMAIN q \cup {Len(q) + 1} /\ Len(q) + 1 \notin DOMAIN q
           /\ \A i \in DOMAIN q : r[i] = q[i]
           /\ r[Len(q) + 1] = [path |-> p, node |-> n, dir |-> dir, at |-> at]
<1>1. [path |-> p, node |-> n, dir |-> dir, at |-> at] \in Move
    BY DEF Move
<1>2. DOMAIN q = 1..Len(q) /\ Len(q) \in Nat
    OBVIOUS
<1>3. /\ DOMAIN r = 1..(Len(q) + 1)
      /\ \A i \in 1..Len(q) : r[i] = q[i]
      /\ r[Len(q) + 1] = [path |-> p, node |-> n, dir |-> dir, at |-> at]
    BY <1>1, <1>2
<1>4. QED
    BY <1>2, <1>3

\* A file goes to .trash: it came from a path no row in the trash claims.
LEMMA MoveInLog ==
    ASSUME TypeOK, NEW c \in Client, Log(c), Fits(nodes, disk),
           \A i \in DOMAIN req[c].moves : req[c].moves[i].dir = "in",
           NEW n \in Node, NEW p, p = nodes[n].path, Kind[p] = "local", disk[p] # NoFile,
           NEW at \in Time \cup {OldTime},
           nodes' = nodes,
           disk' = [disk EXCEPT ![p] = NoFile],
           bin' = [bin EXCEPT ![p][n] = disk[p]],
           req'[c].moves = Append(req[c].moves,
                               [path |-> p, node |-> n, dir |-> "in", at |-> at])
    PROVE  Log(c)' /\ Fits(nodes, disk)'
<1> DEFINE q == req[c].moves
           r == req'[c].moves
           z == Len(q) + 1
<1>1. p \in Path
    BY RowType
<1>2. q \in Seq(Move) /\ \A i \in DOMAIN q : q[i].path \in Path /\ q[i].node \in Node
    BY MovesType
<1>3. /\ DOMAIN r = DOMAIN q \cup {z} /\ z \notin DOMAIN q
      /\ \A i \in DOMAIN q : r[i] = q[i]
      /\ r[z].path = p /\ r[z].node = n /\ r[z].dir = "in"
  <2> HIDE DEF q, r
  <2>1. r = Append(q, [path |-> p, node |-> n, dir |-> "in", at |-> at])
    BY DEF q, r
  <2>2. "in" \in {"in", "out"}
    OBVIOUS
  <2>3. QED
    BY <1>1, <1>2, <2>1, <2>2, AppendHas
<1>4. /\ \A x \in Path : disk'[x] = IF x = p THEN NoFile ELSE disk[x]
      /\ \A x \in Path, m \in Node :
            bin'[x][m] = IF x = p /\ m = n THEN disk[p] ELSE bin[x][m]
    BY <1>1 DEF TypeOK
<1>5. /\ Undoable(q) /\ BinsKnown(q) /\ TrashGone(q)
      /\ \A i \in DOMAIN q : q[i].dir = "in"
    BY DEF Log
<1>6. \A m \in Node : nodes[m].path \in Path
    BY RowType
<1>7. \A m \in Current(nodes) : m \in Node
    BY DEF Current
<1> HIDE DEF q, r, z
<1>8. \A i \in DOMAIN q : q[i].path # p /\ disk[q[i].path] = NoFile
    BY <1>5 DEF Undoable, InUndoable
<1>9. \A m \in Node : nodes[m].path = p => nodes[m].state # "TRASHED"
    BY <1>5 DEF TrashGone, Has
<1>10. \A i \in DOMAIN r : InUndoable(req[c].moves[i])'
  <2> SUFFICES ASSUME NEW i \in DOMAIN r
               PROVE  /\ disk'[r[i].path] = NoFile
                      /\ \A m \in Current(nodes) : nodes[m].path = r[i].path =>
                           /\ nodes[m].state # "TRASHED"
                           /\ bin'[r[i].path][r[i].node] # NoFile
                                => nodes[m].fast = FastOf[bin'[r[i].path][r[i].node]]
    BY DEF InUndoable, r
  <2>1. CASE i = z
    <3>1. \A m \in Current(nodes) : nodes[m].path = p =>
              nodes[m].state # "TRASHED" /\ nodes[m].fast = FastOf[disk[p]]
        BY <1>7, <1>9 DEF Fits
    <3>2. r[i].path = p /\ disk'[p] = NoFile /\ bin'[r[i].path][r[i].node] = disk[p]
        BY <1>1, <1>3, <1>4, <2>1
    <3>3. QED
        BY <3>1, <3>2
  <2>2. CASE i \in DOMAIN q
    <3>1. InUndoable(q[i]) /\ q[i].path # p /\ q[i].path \in Path /\ q[i].node \in Node
        BY <1>2, <1>5, <1>8, <2>2 DEF Undoable
    <3>2. r[i] = q[i]
        BY <1>3, <2>2
    <3>3. /\ disk'[q[i].path] = disk[q[i].path]
          /\ bin'[q[i].path][q[i].node] = bin[q[i].path][q[i].node]
        BY <1>4, <3>1
    <3>4. QED
        BY <3>1, <3>2, <3>3 DEF InUndoable
  <2>3. QED
    BY <1>3, <2>1, <2>2
<1>11. Undoable(req[c].moves)'
  <2>1. \A i \in DOMAIN r : Kind[r[i].path] = "local" /\ r[i].dir = "in"
    BY <1>3, <1>5 DEF Undoable
  <2>2. \A i, j \in DOMAIN r : r[i].path = r[j].path => i = j
    <3>1. \A i, j \in DOMAIN q : r[i].path = r[j].path => i = j
        BY <1>3, <1>5 DEF Undoable
    <3>2. \A i \in DOMAIN q : r[i].path # p
        BY <1>3, <1>8
    <3>3. QED
        BY <1>3, <3>1, <3>2
  <2>3. QED
    BY <1>10, <2>1, <2>2 DEF Undoable, r
<1>12. \A x \in Path, m \in Node, d \in {"in", "out"} : Has(q, x, m, d) => Has(r, x, m, d)
    BY <1>3 DEF Has
<1>13. BinsKnown(req[c].moves)'
  <2> SUFFICES ASSUME NEW x \in Path, NEW m \in Node, bin'[x][m] # NoFile
               PROVE  /\ Kind[x] = "local"
                      /\ \/ Has(r, x, m, "in")
                         \/ /\ nodes[m].state = "TRASHED" /\ nodes[m].path = x
                            /\ nodes[m].fast = FastOf[bin'[x][m]]
    BY DEF BinsKnown, r
  <2>1. CASE x = p /\ m = n
    BY <1>3, <2>1 DEF Has
  <2>2. CASE ~(x = p /\ m = n)
    BY <1>4, <1>5, <1>12, <2>2 DEF BinsKnown
  <2>3. QED
    BY <2>1, <2>2
<1>14. TrashGone(req[c].moves)'
  <2> SUFFICES ASSUME NEW m \in Node, nodes[m].state = "TRASHED",
                      Kind[nodes[m].path] = "local", disk'[nodes[m].path] # NoFile
               PROVE  Has(r, nodes[m].path, m, "out")
    BY DEF TrashGone, r
  <2>1. disk[nodes[m].path] # NoFile
    BY <1>4, <1>6
  <2>2. QED
    BY <1>5, <1>6, <1>12, <2>1 DEF TrashGone
<1>15. Fits(nodes, disk)'
    BY <1>4, <1>6, <1>7 DEF Fits
<1>16. QED
    BY <1>11, <1>13, <1>14, <1>15 DEF Log

\* A copy goes back to its free path: it is the one of the row that is there.
LEMMA MoveOutLog ==
    ASSUME TypeOK, NEW c \in Client, Log(c), Book(nodes), Fits(nodes, disk),
           \A i \in DOMAIN req[c].moves : req[c].moves[i].dir = "out",
           NEW n \in Node, NEW p, p = nodes[n].path, nodes[n].state = "TRASHED",
           disk[p] = NoFile, bin[p][n] # NoFile,
           NEW at \in Time \cup {OldTime},
           nodes' = nodes,
           disk' = [disk EXCEPT ![p] = bin[p][n]],
           bin' = [bin EXCEPT ![p][n] = NoFile],
           req'[c].moves = Append(req[c].moves,
                               [path |-> p, node |-> n, dir |-> "out", at |-> at])
    PROVE  Log(c)' /\ Fits(nodes, disk)'
<1> DEFINE q == req[c].moves
           r == req'[c].moves
           z == Len(q) + 1
<1>1. p \in Path
    BY RowType
<1>2. q \in Seq(Move) /\ \A i \in DOMAIN q : q[i].path \in Path /\ q[i].node \in Node
    BY MovesType
<1>3. /\ DOMAIN r = DOMAIN q \cup {z} /\ z \notin DOMAIN q
      /\ \A i \in DOMAIN q : r[i] = q[i]
      /\ r[z].path = p /\ r[z].node = n /\ r[z].dir = "out"
  <2> HIDE DEF q, r
  <2>1. r = Append(q, [path |-> p, node |-> n, dir |-> "out", at |-> at])
    BY DEF q, r
  <2>2. "out" \in {"in", "out"}
    OBVIOUS
  <2>3. QED
    BY <1>1, <1>2, <2>1, <2>2, AppendHas
<1>4. /\ \A x \in Path : disk'[x] = IF x = p THEN bin[p][n] ELSE disk[x]
      /\ \A x \in Path, m \in Node :
            bin'[x][m] = IF x = p /\ m = n THEN NoFile ELSE bin[x][m]
    BY <1>1 DEF TypeOK
<1>5. /\ Undoable(q) /\ BinsKnown(q) /\ TrashGone(q)
      /\ \A i \in DOMAIN q : q[i].dir = "out"
    BY DEF Log
<1>6. \A m \in Node : nodes[m].path \in Path
    BY RowType
<1>7. \A m \in Current(nodes) : m \in Node /\ Exists(nodes[m])
    BY DEF Current
<1>8. \A m \in Node : nodes[m].state = "TRASHED" => m \in Current(nodes)
    BY DEF Current, Book, OnlyArchived, Exists
<1> HIDE DEF q, r, z
<1>9. \A i \in DOMAIN q : q[i].path # p /\ disk[q[i].path] # NoFile
    BY <1>5 DEF Undoable, OutUndoable
<1>10. \A m \in Current(nodes) : nodes[m].path = p => m = n
  <2>1. \A m \in Current(nodes) : nodes[m].path = p => m <= n /\ n <= m
    BY <1>7, <1>8 DEF Book
  <2>2. \A m \in Node : m \in Nat
    BY NodeStoreAssumption DEF Node
  <2>3. QED
    BY <1>7, <2>1, <2>2
<1>11. Kind[p] = "local" /\ nodes[n].fast = FastOf[bin[p][n]]
  <2>1. ~Has(q, p, n, "in")
    BY <1>5 DEF Has
  <2>2. QED
    BY <1>1, <1>5, <2>1 DEF BinsKnown
<1>12. \A i \in DOMAIN r : OutUndoable(req[c].moves[i])'
  <2> SUFFICES ASSUME NEW i \in DOMAIN r PROVE OutUndoable(req[c].moves[i])'
    OBVIOUS
  <2>1. CASE i = z
    BY <1>1, <1>3, <1>4, <2>1 DEF OutUndoable, r
  <2>2. CASE i \in DOMAIN q
    <3>1. OutUndoable(q[i]) /\ q[i].path # p /\ q[i].path \in Path /\ q[i].node \in Node
        BY <1>2, <1>5, <1>9, <2>2 DEF Undoable
    <3>2. r[i] = q[i]
        BY <1>3, <2>2
    <3>3. QED
        BY <1>4, <3>1, <3>2 DEF OutUndoable, r
  <2>3. QED
    BY <1>3, <2>1, <2>2
<1>13. Undoable(req[c].moves)'
  <2>1. \A i \in DOMAIN r : Kind[r[i].path] = "local" /\ r[i].dir = "out"
    BY <1>3, <1>5, <1>11 DEF Undoable
  <2>2. \A i, j \in DOMAIN r : r[i].path = r[j].path => i = j
    <3>1. \A i, j \in DOMAIN q : r[i].path = r[j].path => i = j
        BY <1>3, <1>5 DEF Undoable
    <3>2. \A i \in DOMAIN q : r[i].path # p
        BY <1>3, <1>9
    <3>3. QED
        BY <1>3, <3>1, <3>2
  <2>3. QED
    BY <1>12, <2>1, <2>2 DEF Undoable, r
<1>14. \A x \in Path, m \in Node, d \in {"in", "out"} : Has(q, x, m, d) => Has(r, x, m, d)
    BY <1>3 DEF Has
<1>15. BinsKnown(req[c].moves)'
  <2> SUFFICES ASSUME NEW x \in Path, NEW m \in Node, bin'[x][m] # NoFile
               PROVE  /\ Kind[x] = "local"
                      /\ \/ Has(r, x, m, "in")
                         \/ /\ nodes[m].state = "TRASHED" /\ nodes[m].path = x
                            /\ nodes[m].fast = FastOf[bin'[x][m]]
    BY DEF BinsKnown, r
  <2>1. bin'[x][m] = bin[x][m]
    BY <1>4
  <2>2. QED
    BY <1>5, <1>14, <2>1 DEF BinsKnown
<1>16. TrashGone(req[c].moves)'
  <2> SUFFICES ASSUME NEW m \in Node, nodes[m].state = "TRASHED",
                      Kind[nodes[m].path] = "local", disk'[nodes[m].path] # NoFile
               PROVE  Has(r, nodes[m].path, m, "out")
    BY DEF TrashGone, r
  <2>1. CASE nodes[m].path = p
    <3>1. m = n
        BY <1>8, <1>10, <2>1
    <3>2. QED
        BY <1>3, <2>1, <3>1 DEF Has
  <2>2. CASE nodes[m].path # p
    <3>1. disk[nodes[m].path] # NoFile
        BY <1>4, <1>6, <2>2
    <3>2. QED
        BY <1>5, <1>6, <1>14, <3>1 DEF TrashGone
  <2>3. QED
    BY <2>1, <2>2
<1>17. Fits(nodes, disk)'
    BY <1>4, <1>6, <1>7, <1>10, <1>11 DEF Fits
<1>18. QED
    BY <1>13, <1>15, <1>16, <1>17 DEF Log

LEMMA RolledBackLog ==
    ASSUME NEW r \in Request
    PROVE  /\ RolledBack(r).moves = r.moves
           /\ RolledBack(r).phase \in {"idle", "undo"}
           /\ RolledBack(r).phase = "idle" => RolledBack(r).moves = <<>>
BY DEF RolledBack, Idle, Request

\* A rename that is undone leaves the others as they were.
LEMMA UndoLog ==
    ASSUME TypeOK, NEW c \in Client, Log(c), Book(nodes), Fits(nodes, disk),
           Undo(c), mishaps' = mishaps
    PROVE  /\ Log(c)' /\ Fits(nodes, disk)'
           /\ req'[c].phase \in {"idle", "undo"}
           /\ req'[c].phase = "idle" => req'[c].moves = <<>>
<1> DEFINE q == req[c].moves
           r == req'[c].moves
           z == Len(q)
           m == q[z]
           p == m.path
           n == m.node
<1>0. nodes' = nodes
    BY DEF Undo, dbVars
<1>1. /\ q \in Seq(Move) /\ DOMAIN q = 1..z /\ z \in Nat /\ req[c] \in Request
      /\ \A i \in DOMAIN q : /\ q[i].path \in Path /\ q[i].node \in Node
                             /\ q[i].dir \in {"in", "out"}
    BY MovesType
<1>2. z \in DOMAIN q /\ q # <<>>
  <2>1. q # <<>>
    BY DEF Undo
  <2> HIDE DEF q
  <2>2. QED
    BY <1>1, <2>1
<1>3. /\ r = SubSeq(q, 1, z - 1)
      /\ req'[c].phase \in {"idle", "undo"}
      /\ req'[c].phase = "idle" => req'[c].moves = <<>>
  <2> DEFINE rest == [req[c] EXCEPT !.moves = SubSeq(@, 1, Len(@) - 1)]
  <2>1. SubSeq(q, 1, z - 1) \in Seq(Move)
    BY <1>1
  <2>2. rest \in Request /\ rest.moves = SubSeq(q, 1, z - 1)
    BY <1>1, <2>1 DEF Request
  <2>3. req'[c] = RolledBack(rest)
    BY DEF Undo, Proceed, TypeOK
  <2> HIDE DEF rest
  <2>4. QED
    BY <2>2, <2>3, RolledBackLog
<1>4. DOMAIN r = 1..(z - 1) /\ \A i \in DOMAIN r : r[i] = q[i] /\ i \in DOMAIN q /\ i # z
  <2> HIDE DEF q, r
  <2>1. z - 1 \in Nat
    BY <1>1, <1>2
  <2>2. SubSeq(q, 1, z - 1) = [i \in 1..(z - 1) |-> q[i]]
    BY <1>1, <2>1
  <2>3. QED
    BY <1>1, <1>3, <2>1, <2>2
<1>5. \A i \in DOMAIN q : i \in DOMAIN r \/ i = z
  <2> HIDE DEF q, r
  <2> QED BY <1>1, <1>4
<1>6. /\ nodes' = nodes
      /\ \/ /\ m.dir = "in" /\ bin[p][n] # NoFile
            /\ disk' = [disk EXCEPT ![p] = bin[p][n]]
            /\ bin' = [bin EXCEPT ![p][n] = NoFile]
         \/ /\ m.dir = "out" /\ disk[p] # NoFile
            /\ disk' = [disk EXCEPT ![p] = NoFile]
            /\ bin' = [bin EXCEPT ![p][n] = disk[p]]
         \/ /\ m.dir = "in" /\ bin[p][n] = NoFile
            /\ disk' = disk /\ bin' = bin
         \/ /\ m.dir = "out" /\ disk[p] = NoFile
            /\ disk' = disk /\ bin' = bin
  <2>1. mishaps' # mishaps + 1
    BY DEF TypeOK
  <2>2. m.dir \in {"in", "out"}
    BY <1>1, <1>2
  <2>3. QED
    BY <2>1, <2>2 DEF Undo, dbVars, fileVars
<1>7. /\ Undoable(q) /\ BinsKnown(q) /\ TrashGone(q)
    BY DEF Log
<1>8. p \in Path /\ n \in Node /\ m.dir \in {"in", "out"}
    BY <1>1, <1>2
<1>9. \A k \in Node : nodes[k].path \in Path
    BY RowType
<1>10. \A k \in Current(nodes) : k \in Node
    BY DEF Current
<1>11. \A k \in Node : nodes[k].state = "TRASHED" => k \in Current(nodes)
    BY DEF Current, Book, OnlyArchived, Exists
<1>12. /\ \A x \in Path : x # p => disk'[x] = disk[x]
       /\ \A x \in Path, k \in Node : ~(x = p /\ k = n) => bin'[x][k] = bin[x][k]
       /\ m.dir = "out" => disk'[p] = NoFile /\ bin'[p][n] = disk[p]
       /\ m.dir = "in" => disk'[p] = bin[p][n] /\ bin'[p][n] = NoFile
  <2>1. m.dir = "in" => disk[p] = NoFile
    BY <1>2, <1>7 DEF Undoable, InUndoable
  <2>2. m.dir = "out" => disk[p] # NoFile
    BY <1>2, <1>7 DEF Undoable, OutUndoable
  <2> HIDE DEF m, q
  <2>3. QED
    BY <1>6, <1>8, <2>1, <2>2 DEF TypeOK
<1>13. m.dir = "in" => InUndoable(m)
    BY <1>2, <1>7 DEF Undoable
<1>14. m.dir = "out" => OutUndoable(m)
    BY <1>2, <1>7 DEF Undoable
<1>15. \A i \in DOMAIN r : q[i].path # p /\ q[i].path \in Path /\ q[i].node \in Node
    BY <1>1, <1>2, <1>4, <1>7 DEF Undoable
<1>16. Kind[p] = "local"
    BY <1>2, <1>7 DEF Undoable
<1>17. Undoable(req[c].moves)'
  <2>1. \A i, j \in DOMAIN r : r[i].path = r[j].path => i = j
    BY <1>4, <1>7 DEF Undoable
  <2>2. \A i \in DOMAIN r : Kind[r[i].path] = "local"
    BY <1>4, <1>7 DEF Undoable
  <2> HIDE DEF q, r, m
  <2>3. \A i \in DOMAIN r : r[i].dir = "in" => InUndoable(req[c].moves[i])'
    <3> SUFFICES ASSUME NEW i \in DOMAIN r, r[i].dir = "in"
                 PROVE  /\ disk'[r[i].path] = NoFile
                        /\ \A k \in Current(nodes) : nodes[k].path = r[i].path =>
                             /\ nodes[k].state # "TRASHED"
                             /\ bin'[r[i].path][r[i].node] # NoFile
                                  => nodes[k].fast = FastOf[bin'[r[i].path][r[i].node]]
        BY <1>6 DEF InUndoable, r
    <3>1. InUndoable(q[i]) /\ r[i] = q[i]
        BY <1>4, <1>7 DEF Undoable
    <3>2. /\ disk'[q[i].path] = disk[q[i].path]
          /\ bin'[q[i].path][q[i].node] = bin[q[i].path][q[i].node]
        BY <1>12, <1>15
    <3>3. QED
        BY <3>1, <3>2 DEF InUndoable
  <2>4. \A i \in DOMAIN r : r[i].dir = "out" => OutUndoable(req[c].moves[i])'
    <3> SUFFICES ASSUME NEW i \in DOMAIN r, r[i].dir = "out"
                 PROVE  /\ disk'[r[i].path] # NoFile
                        /\ nodes[r[i].node].state = "TRASHED"
                        /\ nodes[r[i].node].path = r[i].path
        BY <1>6 DEF OutUndoable, r
    <3>1. OutUndoable(q[i]) /\ r[i] = q[i]
        BY <1>4, <1>7 DEF Undoable
    <3>2. disk'[q[i].path] = disk[q[i].path]
        BY <1>12, <1>15
    <3>3. QED
        BY <3>1, <3>2 DEF OutUndoable
  <2>5. QED
    BY <2>1, <2>2, <2>3, <2>4 DEF Undoable, r
<1>18. \A x \in Path, k \in Node, d \in {"in", "out"} :
          Has(q, x, k, d) => Has(r, x, k, d) \/ (x = p /\ k = n /\ d = m.dir)
  <2> HIDE DEF r
  <2> QED BY <1>4, <1>5 DEF Has
<1>19. BinsKnown(req[c].moves)'
  <2> SUFFICES ASSUME NEW x \in Path, NEW k \in Node, bin'[x][k] # NoFile
               PROVE  /\ Kind[x] = "local"
                      /\ \/ Has(r, x, k, "in")
                         \/ /\ nodes[k].state = "TRASHED" /\ nodes[k].path = x
                            /\ nodes[k].fast = FastOf[bin'[x][k]]
    BY <1>0 DEF BinsKnown
  <2> HIDE DEF q, r, m
  <2>1. CASE ~(x = p /\ k = n)
    BY <1>7, <1>12, <1>18, <2>1 DEF BinsKnown
  <2>2. CASE x = p /\ k = n
    <3>1. m.dir = "out"
        BY <1>8, <1>12, <2>2
    <3>2. nodes[n].state = "TRASHED" /\ nodes[n].path = p /\ disk[p] # NoFile
        BY <1>14, <3>1 DEF OutUndoable
    <3>3. nodes[n].fast = FastOf[disk[p]]
        BY <1>8, <1>11, <3>2 DEF Fits
    <3>4. QED
        BY <1>12, <1>16, <2>2, <3>1, <3>2, <3>3
  <2>3. QED
    BY <2>1, <2>2
<1>20. TrashGone(req[c].moves)'
  <2> SUFFICES ASSUME NEW k \in Node, nodes[k].state = "TRASHED",
                      Kind[nodes[k].path] = "local", disk'[nodes[k].path] # NoFile
               PROVE  Has(r, nodes[k].path, k, "out")
    BY <1>6 DEF TrashGone
  <2> HIDE DEF q, r, m
  <2>1. nodes[k].path # p
    <3>1. CASE m.dir = "in"
        BY <1>11, <1>13, <3>1 DEF InUndoable
    <3>2. CASE m.dir = "out"
        BY <1>12, <3>2
    <3>3. QED
        BY <1>8, <3>1, <3>2
  <2>2. disk[nodes[k].path] # NoFile
    BY <1>9, <1>12, <2>1
  <2>3. QED
    BY <1>7, <1>9, <1>18, <2>1, <2>2 DEF TrashGone
<1>21. Fits(nodes, disk)'
  <2> SUFFICES ASSUME NEW k \in Current(nodes), disk'[nodes[k].path] # NoFile
               PROVE  nodes[k].fast = FastOf[disk'[nodes[k].path]]
    BY <1>6 DEF Fits
  <2> HIDE DEF q, r, m
  <2>1. CASE nodes[k].path # p
    BY <1>9, <1>10, <1>12, <2>1 DEF Fits
  <2>2. CASE nodes[k].path = p
    <3>1. m.dir = "in"
        BY <1>8, <1>12, <2>2
    <3>2. QED
        BY <1>12, <1>13, <2>2, <3>1 DEF InUndoable
  <2>3. QED
    BY <2>1, <2>2
<1>22. QED
    BY <1>3, <1>17, <1>19, <1>20, <1>21 DEF Log

\* What a step leaves to the rows of a log that it does not touch: rows in the
\* trash stay as they are, and a row that comes to a path fits the file there.
Follows ==
    /\ \A n \in Node : Exists(nodes[n]) => Exists(nodes'[n])
    /\ \A n \in Node : nodes'[n].state = "TRASHED" <=> nodes[n].state = "TRASHED"
    /\ \A n \in Node : nodes[n].state = "TRASHED" =>
         nodes'[n].path = nodes[n].path /\ nodes'[n].fast = nodes[n].fast
    /\ \A n \in Current(nodes') :
         \/ /\ n \in Current(nodes)
            /\ nodes'[n].path = nodes[n].path /\ nodes'[n].fast = nodes[n].fast
         \/ /\ disk[nodes'[n].path] # NoFile
            /\ nodes'[n].fast = FastOf[disk[nodes'[n].path]]

LEMMA FollowsLog ==
    ASSUME TypeOK, NEW c \in Client, Log(c), Fits(nodes, disk), Follows,
           disk' = disk, bin' = bin, req'[c].moves = req[c].moves
    PROVE  Log(c)' /\ Fits(nodes, disk)'
<1> DEFINE q == req[c].moves
<1>1. /\ Undoable(q) /\ BinsKnown(q) /\ TrashGone(q)
    BY DEF Log
<1>2. \A i \in DOMAIN q : q[i].path \in Path /\ q[i].node \in Node /\ q[i].dir \in {"in", "out"}
    BY MovesType
<1>3. \A k \in Current(nodes') : k \in Node
    BY DEF Current
<1> HIDE DEF q
<1>4. \A i \in DOMAIN q : q[i].dir = "in" => InUndoable(req[c].moves[i])'
  <2> SUFFICES ASSUME NEW i \in DOMAIN q, q[i].dir = "in"
               PROVE  /\ disk[q[i].path] = NoFile
                      /\ \A k \in Current(nodes') : nodes'[k].path = q[i].path =>
                           /\ nodes'[k].state # "TRASHED"
                           /\ bin[q[i].path][q[i].node] # NoFile
                                => nodes'[k].fast = FastOf[bin[q[i].path][q[i].node]]
    BY ZenonT(60) DEF InUndoable, q
  <2>1. InUndoable(q[i])
    BY <1>1 DEF Undoable
  <2>2. \A k \in Current(nodes') : nodes'[k].path = q[i].path =>
            /\ k \in Current(nodes) /\ k \in Node
            /\ nodes'[k].path = nodes[k].path /\ nodes'[k].fast = nodes[k].fast
    BY <1>3, <2>1 DEF Follows, InUndoable
  <2>3. QED
    BY <2>1, <2>2 DEF Follows, InUndoable
<1>5. \A i \in DOMAIN q : q[i].dir = "out" => OutUndoable(req[c].moves[i])'
  <2> SUFFICES ASSUME NEW i \in DOMAIN q, q[i].dir = "out"
               PROVE  /\ disk[q[i].path] # NoFile
                      /\ nodes'[q[i].node].state = "TRASHED"
                      /\ nodes'[q[i].node].path = q[i].path
    BY DEF OutUndoable, q
  <2>1. OutUndoable(q[i])
    BY <1>1 DEF Undoable
  <2>2. QED
    BY <1>2, <2>1 DEF Follows, OutUndoable
<1>6. Undoable(req[c].moves)'
    BY <1>1, <1>4, <1>5 DEF Undoable, q
<1>7. BinsKnown(req[c].moves)'
  <2> SUFFICES ASSUME NEW x \in Path, NEW k \in Node, bin[x][k] # NoFile
               PROVE  /\ Kind[x] = "local"
                      /\ \/ Has(q, x, k, "in")
                         \/ /\ nodes'[k].state = "TRASHED" /\ nodes'[k].path = x
                            /\ nodes'[k].fast = FastOf[bin[x][k]]
    BY DEF BinsKnown, q
  <2> QED BY <1>1 DEF BinsKnown, Follows
<1>8. TrashGone(req[c].moves)'
  <2> SUFFICES ASSUME NEW k \in Node, nodes'[k].state = "TRASHED",
                      Kind[nodes'[k].path] = "local", disk[nodes'[k].path] # NoFile
               PROVE  Has(q, nodes'[k].path, k, "out")
    BY DEF TrashGone, q
  <2> QED BY <1>1 DEF TrashGone, Follows
<1>9. Fits(nodes, disk)'
  <2> SUFFICES ASSUME NEW k \in Current(nodes'), disk[nodes'[k].path] # NoFile
               PROVE  nodes'[k].fast = FastOf[disk[nodes'[k].path]]
    BY DEF Fits
  <2> QED BY DEF Fits, Follows
<1>10. QED
    BY <1>6, <1>7, <1>8, <1>9 DEF Log

\* The purge worker removes a copy.
LEMMA PurgedLog ==
    ASSUME TypeOK, NEW c \in Client, Log(c), nodes' = nodes, disk' = disk,
           \A p \in Path, n \in Node : bin'[p][n] \in {bin[p][n], NoFile},
           req'[c].moves = req[c].moves
    PROVE  Log(c)'
<1> DEFINE q == req[c].moves
<1>1. /\ Undoable(q) /\ BinsKnown(q) /\ TrashGone(q)
    BY DEF Log
<1>2. \A i \in DOMAIN q : q[i].path \in Path /\ q[i].node \in Node /\ q[i].dir \in {"in", "out"}
    BY MovesType
<1> HIDE DEF q
<1>3. \A i \in DOMAIN q : q[i].dir = "in" => InUndoable(req[c].moves[i])'
  <2> SUFFICES ASSUME NEW i \in DOMAIN q, q[i].dir = "in"
               PROVE  /\ disk[q[i].path] = NoFile
                      /\ \A k \in Current(nodes) : nodes[k].path = q[i].path =>
                           /\ nodes[k].state # "TRASHED"
                           /\ bin'[q[i].path][q[i].node] # NoFile
                                => nodes[k].fast = FastOf[bin'[q[i].path][q[i].node]]
    BY ZenonT(60) DEF InUndoable, q
  <2>1. InUndoable(q[i])
    BY <1>1 DEF Undoable
  <2>2. QED
    BY <1>2, <2>1 DEF InUndoable
<1>4. \A i \in DOMAIN q : q[i].dir = "out" => OutUndoable(req[c].moves[i])'
    BY <1>1 DEF Undoable, OutUndoable, q
<1>5. Undoable(req[c].moves)'
    BY <1>1, <1>3, <1>4 DEF Undoable, q
<1>6. BinsKnown(req[c].moves)'
  <2> SUFFICES ASSUME NEW x \in Path, NEW k \in Node, bin'[x][k] # NoFile
               PROVE  /\ Kind[x] = "local"
                      /\ \/ Has(q, x, k, "in")
                         \/ /\ nodes[k].state = "TRASHED" /\ nodes[k].path = x
                            /\ nodes[k].fast = FastOf[bin'[x][k]]
    BY DEF BinsKnown, q
  <2> QED BY <1>1 DEF BinsKnown
<1>7. TrashGone(req[c].moves)'
    BY <1>1 DEF TrashGone, q
<1>8. QED
    BY <1>5, <1>6, <1>7 DEF Log

----------------------------------------------------------------------------
\* The steps of the requests.

LEMMA SameLog ==
    ASSUME TypeOK, NEW c \in Client, Log(c), nodes' = nodes, disk' = disk, bin' = bin,
           req'[c].moves = req[c].moves
    PROVE  Log(c)'
BY PurgedLog

\* A rolled-back request has its log and nothing else.
LEMMA SealedWhole ==
    ASSUME NEW c \in Client, Log(c)', req'[c].phase \in {"idle", "undo"},
           req'[c].phase = "idle" => req'[c].moves = <<>>
    PROVE  Whole(req[c])'
BY DEF Whole, Log

\* The transaction of request c has dealt with row n and goes on as next, or fails.
LEMMA TrashStepWhole ==
    ASSUME TypeOK, NEW c \in Client, Whole(req[c]), Fits(nodes, disk),
           req[c].phase = "run", req[c].op = "trash",
           NEW n \in Node, NEW ok, NEW next \in Request,
           next.phase = "run", next.op = "trash", next.moves = req[c].moves,
           Visited(next) = Visited(req[c]) \cup {n}, ok => n \in Current(nodes),
           UNCHANGED dbVars,
           \/ Kind[nodes[n].path] = "local" /\ MoveToTrash(c, n, ok, next)
           \/ /\ Kind[nodes[n].path] # "local"
              /\ Proceed(c, ok, next) /\ UNCHANGED fileVars
    PROVE  Whole(req[c])' /\ Fits(nodes, disk)'
<1> DEFINE p == nodes[n].path
<1>1. /\ Log(c) /\ TrashDone(req[c])
      /\ nodes' = nodes
    BY DEF Whole, Log, dbVars
<1>2. /\ p \in Path /\ now \in Time /\ \A m \in Node : nodes[m].path \in Path
      /\ \A m \in Current(nodes) : m \in Node
    BY RowType DEF TypeOK, Current
<1>3. CASE disk[p] # NoFile /\ Kind[p] = "local"
  <2>1. PICK mtime \in {OldTime, now} :
            /\ disk' = [disk EXCEPT ![p] = NoFile]
            /\ bin' = [bin EXCEPT ![p][n] = disk[p]]
            /\ Proceed(c, ok, Moved(next, p, n, "in", mtime))
    BY <1>3 DEF MoveToTrash
  <2> DEFINE after == Moved(next, p, n, "in", mtime)
  <2>2. /\ after \in Request /\ after.phase = "run" /\ after.op = "trash"
        /\ after.moves = Append(req[c].moves,
                             [path |-> p, node |-> n, dir |-> "in", at |-> mtime])
        /\ Visited(after) = Visited(next)
    <3> DEFINE m == [path |-> p, node |-> n, dir |-> "in", at |-> mtime]
    <3>1. "in" \in {"in", "out"} /\ mtime \in Time \cup {OldTime}
        BY <1>2, <2>1
    <3>2. after \in Request
        BY <1>2, <3>1, MovedType
    <3>3. after = [next EXCEPT !.moves = Append(next.moves, m)]
        BY DEF Moved
    <3> HIDE DEF m, after
    <3>4. /\ after.phase = "run" /\ after.op = "trash"
          /\ after.moves = Append(req[c].moves, m)
          /\ after.marked = next.marked /\ after.node = next.node /\ after.begun = next.begun
        BY <3>3 DEF Request
    <3>5. QED
        BY <3>2, <3>4 DEF Visited, m
  <2>3. req'[c] = IF ok THEN after ELSE RolledBack(after)
    BY <2>1 DEF Proceed, TypeOK
  <2> HIDE DEF after
  <2>4. req'[c].moves = after.moves
    BY <2>2, <2>3, RolledBackLog
  <2>5. Log(c)' /\ Fits(nodes, disk)'
    <3>1. \A i \in DOMAIN req[c].moves : req[c].moves[i].dir = "in"
        BY <1>1 DEF TrashDone
    <3>2. mtime \in Time \cup {OldTime}
        BY <1>2, <2>1
    <3> HIDE DEF p
    <3>3. QED
        BY <1>1, <1>2, <1>3, <2>1, <2>2, <2>4, <3>1, <3>2, MoveInLog DEF p
  <2>6. CASE ok
    <3> DEFINE q == req[c].moves
               r == after.moves
    <3>1. req'[c] = after /\ n \in Current(nodes)
        BY <2>3, <2>6
    <3>2. /\ DOMAIN r = DOMAIN q \cup {Len(q) + 1}
          /\ \A i \in DOMAIN q : r[i] = q[i]
          /\ r[Len(q) + 1] = [path |-> p, node |-> n, dir |-> "in", at |-> mtime]
      <4>1. q \in Seq(Move) /\ mtime \in Time \cup {OldTime} /\ "in" \in {"in", "out"}
          BY <1>2, <2>1, MovesType
      <4> HIDE DEF q, r, p
      <4>2. r = Append(q, [path |-> p, node |-> n, dir |-> "in", at |-> mtime])
          BY <2>2 DEF q, r
      <4>3. QED
          BY <1>2, <4>1, <4>2, AppendHas
    <3>3. \A i \in DOMAIN r :
             /\ r[i].dir = "in" /\ r[i].node \in Visited(after)
             /\ nodes[r[i].node].path = r[i].path
      <4>1. \A i \in DOMAIN q : /\ q[i].dir = "in" /\ q[i].node \in Visited(after)
                                /\ nodes[q[i].node].path = q[i].path
          BY <1>1, <2>2 DEF TrashDone
      <4> HIDE DEF q, r
      <4>2. QED
          BY <2>2, <3>2, <4>1
    <3>4. \A m \in Visited(after) :
             /\ m \in Current(nodes)
             /\ Kind[nodes[m].path] = "local" => disk'[nodes[m].path] = NoFile
      <4>1. \A m \in Visited(after) : m = n \/ m \in Visited(req[c])
          BY <2>2
      <4>2. \A x \in Path : disk'[x] = IF x = p THEN NoFile ELSE disk[x]
          BY <1>2, <2>1 DEF TypeOK
      <4>3. QED
          BY <1>1, <1>2, <3>1, <4>1, <4>2 DEF TrashDone
    <3> HIDE DEF q
    <3>5. TrashDone(req[c])'
      <4>1. nodes' = nodes /\ req'[c] = after
          BY <1>1, <3>1
      <4>2. QED
          BY <3>3, <3>4, <4>1 DEF TrashDone, Visited
    <3>6. req'[c].phase = "run" /\ req'[c].op = "trash"
        BY <2>2, <3>1
    <3>7. QED
        BY <2>5, <3>5, <3>6 DEF Whole, Log
  <2>7. CASE ~ok
    <3>1. /\ req'[c].phase \in {"idle", "undo"}
          /\ req'[c].phase = "idle" => req'[c].moves = <<>>
        BY <2>2, <2>3, <2>7, RolledBackLog
    <3>2. QED
        BY <2>5, <3>1, SealedWhole
  <2>8. QED
    BY <2>5, <2>6, <2>7
<1>4. CASE ~(disk[p] # NoFile /\ Kind[p] = "local")
  <2>1. Proceed(c, ok, next) /\ disk' = disk /\ bin' = bin
    BY <1>4 DEF MoveToTrash, fileVars
  <2>2. req'[c] = IF ok THEN next ELSE RolledBack(next)
    BY <2>1 DEF Proceed, TypeOK
  <2>3. req'[c].moves = req[c].moves
    BY <2>2, RolledBackLog
  <2>4. Log(c)' /\ Fits(nodes, disk)'
    BY <1>1, <2>1, <2>3, SameLog
  <2>5. CASE ok
    <3>1. req'[c] = next /\ n \in Current(nodes)
        BY <2>2, <2>5
    <3>2. \A m \in Visited(next) :
             /\ m \in Current(nodes)
             /\ Kind[nodes[m].path] = "local" => disk[nodes[m].path] = NoFile
        BY <1>1, <1>4, <3>1 DEF TrashDone
    <3>3. TrashDone(req[c])'
        BY <1>1, <2>1, <3>1, <3>2 DEF TrashDone, Visited
    <3>4. req'[c].phase = "run" /\ req'[c].op = "trash"
        BY <3>1
    <3>5. QED
        BY <2>4, <3>3, <3>4 DEF Whole, Log
  <2>6. CASE ~ok
    <3>1. /\ req'[c].phase \in {"idle", "undo"}
          /\ req'[c].phase = "idle" => req'[c].moves = <<>>
        BY <2>2, <2>6, RolledBackLog
    <3>2. QED
        BY <2>4, <3>1, SealedWhole
  <2>7. QED
    BY <2>4, <2>5, <2>6
<1>5. QED
    BY <1>3, <1>4

\* A restore looks at row n: it goes on to rename, takes the row as it is, or fails.
LEMMA RestoreStepWhole ==
    ASSUME TypeOK, NEW c \in Client, Whole(req[c]), Book(nodes), Fits(nodes, disk),
           req[c].phase = "run", req[c].op = "restore",
           NEW n \in Node, nodes[n].state = "TRASHED", NEW tolerant, NEW ok,
           NEW next \in Request,
           next.phase = "run", next.op = "restore", next.moves = req[c].moves,
           next.node = req[c].node, next.marked = req[c].marked \cup {n}, next.begun,
           next.aim = {},
           UNCHANGED dbVars, RestoreFromTrash(c, n, tolerant, ok, next)
    PROVE  Whole(req[c])' /\ Fits(nodes, disk)'
<1> DEFINE p == nodes[n].path
<1>1. /\ Log(c) /\ RestoreDone(req[c]) /\ BinsKnown(req[c].moves)
      /\ nodes' = nodes
    BY DEF Whole, Log, dbVars
<1>2. /\ p \in Path /\ stamp[p][n] \in Time \cup {OldTime}
      /\ \A m \in Node : nodes[m].path \in Path
      /\ req[c].marked \in SUBSET Node
    BY RowType DEF TypeOK, Request
<1>3. CASE Renames(p, n)
  <2>1. /\ req' = [req EXCEPT ![c].aim = {n}] /\ disk' = disk /\ bin' = bin
        /\ disk[p] = NoFile
    BY <1>3 DEF RestoreFromTrash, Renames
  <2>2. /\ req'[c].aim = {n} /\ req'[c].phase = "run" /\ req'[c].op = "restore"
        /\ req'[c].moves = req[c].moves /\ req'[c].marked = req[c].marked
        /\ req'[c].node = req[c].node /\ req'[c].begun = req[c].begun
    BY <2>1, MovesType DEF TypeOK, Request
  <2>3. Log(c)' /\ Fits(nodes, disk)'
    BY <1>1, <2>1, <2>2, SameLog
  <2>4. RestoreDone(req[c])'
    BY <1>1, <2>1, <2>2 DEF RestoreDone
  <2>5. QED
    BY <2>2, <2>3, <2>4 DEF Whole, Log
<1>4. CASE ~Renames(p, n)
  <2> DEFINE inPlace == \/ Kind[p] = "virtual"
                        \/ bin[p][n] = NoFile /\ (disk[p] # NoFile \/ tolerant)
  <2>1. Proceed(c, inPlace /\ ok, next) /\ disk' = disk /\ bin' = bin
    BY <1>4 DEF RestoreFromTrash, fileVars
  <2>2. req'[c] = IF inPlace /\ ok THEN next ELSE RolledBack(next)
    BY <2>1 DEF Proceed, TypeOK
  <2>3. req'[c].moves = req[c].moves
    BY <2>2, RolledBackLog
  <2>4. Log(c)' /\ Fits(nodes, disk)'
    BY <1>1, <2>1, <2>3, SameLog
  <2>5. CASE inPlace /\ ok
    <3>1. req'[c] = next
        BY <2>2, <2>5
    <3>2. bin[p][n] = NoFile
        BY <1>1, <1>2, <2>5 DEF BinsKnown
    <3>3. RestoreDone(req[c])'
        BY <1>1, <2>1, <3>1, <3>2 DEF RestoreDone
    <3>4. req'[c].phase = "run" /\ req'[c].op = "restore"
        BY <3>1
    <3>5. QED
        BY <2>4, <3>3, <3>4 DEF Whole, Log
  <2>6. CASE ~(inPlace /\ ok)
    <3>1. /\ req'[c].phase \in {"idle", "undo"}
          /\ req'[c].phase = "idle" => req'[c].moves = <<>>
        BY <2>2, <2>6, RolledBackLog
    <3>2. QED
        BY <2>4, <3>1, SealedWhole
  <2>7. QED
    BY <2>4, <2>5, <2>6
<1>5. QED
    BY <1>3, <1>4

\* The rename it has decided on: the path is still free.
LEMMA RenameBackWhole ==
    ASSUME TypeOK, NEW c \in Client, Whole(req[c]), Book(nodes), Fits(nodes, disk),
           RenameBack(c)
    PROVE  Whole(req[c])' /\ Fits(nodes, disk)'
<1>0. /\ req[c] \in Request /\ req[c].phase = "run" /\ req[c].op = "restore"
      /\ nodes' = nodes
    BY DEF RenameBack, TypeOK, dbVars
<1>1. Log(c) /\ RestoreDone(req[c])
    BY <1>0 DEF Whole, Log
<1>2. PICK n \in req[c].aim :
          LET p    == nodes[n].path
              next == [req[c] EXCEPT !.begun = TRUE, !.aim = {}, !.todo = @ \ {n},
                                     !.marked = @ \cup {n}]
          IN  IF bin[p][n] = NoFile
                THEN Proceed(c, FALSE, req[c]) /\ UNCHANGED fileVars
                ELSE /\ disk' = [disk EXCEPT ![p] = bin[p][n]]
                     /\ bin' = [bin EXCEPT ![p][n] = NoFile]
                     /\ stamp' = [stamp EXCEPT ![p][n] = 0]
                     /\ Proceed(c, MarkAllowed(req[c], n),
                                Moved(next, p, n, "out", stamp[p][n]))
                     /\ UNCHANGED arrived
    BY DEF RenameBack
<1> DEFINE p    == nodes[n].path
           next == [req[c] EXCEPT !.begun = TRUE, !.aim = {}, !.todo = @ \ {n},
                                  !.marked = @ \cup {n}]
           ok   == MarkAllowed(req[c], n)
<1>3. /\ n \in Node /\ p \in Path /\ stamp[p][n] \in Time \cup {OldTime}
      /\ req[c].marked \in SUBSET Node
      /\ nodes[n].state = "TRASHED" /\ disk[p] = NoFile
      /\ \A m \in Node : nodes[m].path \in Path
  <2>1. n \in Node /\ req[c].marked \in SUBSET Node
    BY <1>0, <1>2 DEF Request
  <2>2. p \in Path /\ \A m \in Node : nodes[m].path \in Path
    BY <2>1, RowType
  <2>3. QED
    BY <1>1, <1>2, <2>1, <2>2 DEF RestoreDone, TypeOK
<1>4. /\ next \in Request /\ next.phase = "run" /\ next.op = "restore"
      /\ next.moves = req[c].moves /\ next.node = req[c].node
      /\ next.marked = req[c].marked \cup {n} /\ next.begun /\ next.aim = {}
    BY <1>0, <1>3, ZenonT(60) DEF Request
<1>5. CASE bin[p][n] = NoFile
  <2>1. req'[c] = RolledBack(req[c]) /\ disk' = disk /\ bin' = bin
    BY <1>2, <1>5 DEF Proceed, TypeOK, fileVars
  <2>2. /\ req'[c].moves = req[c].moves /\ req'[c].phase \in {"idle", "undo"}
        /\ req'[c].phase = "idle" => req'[c].moves = <<>>
    BY <1>0, <2>1, RolledBackLog
  <2>3. Log(c)' /\ Fits(nodes, disk)'
    BY <1>0, <1>1, <2>1, <2>2, SameLog
  <2>4. QED
    BY <2>2, <2>3, SealedWhole
<1>6. CASE bin[p][n] # NoFile
  <2>1. /\ disk' = [disk EXCEPT ![p] = bin[p][n]]
        /\ bin' = [bin EXCEPT ![p][n] = NoFile]
        /\ Proceed(c, ok, Moved(next, p, n, "out", stamp[p][n]))
    BY <1>2, <1>6
  <2> HIDE DEF next, ok
  <2> DEFINE after == Moved(next, p, n, "out", stamp[p][n])
             q == req[c].moves
             r == after.moves
  <2>2. /\ after \in Request /\ after.phase = "run" /\ after.op = "restore"
        /\ r = Append(q, [path |-> p, node |-> n, dir |-> "out", at |-> stamp[p][n]])
        /\ after.marked = next.marked /\ after.node = next.node /\ after.begun = next.begun
        /\ after.aim = next.aim
    <3> DEFINE m == [path |-> p, node |-> n, dir |-> "out", at |-> stamp[p][n]]
    <3>1. "out" \in {"in", "out"}
        OBVIOUS
    <3>2. after \in Request
        BY <1>3, <1>4, <3>1, MovedType
    <3>3. after = [next EXCEPT !.moves = Append(next.moves, m)]
        BY DEF Moved
    <3> HIDE DEF m, after
    <3>4. /\ after.phase = "run" /\ after.op = "restore"
          /\ after.moves = Append(req[c].moves, m)
          /\ after.marked = next.marked /\ after.node = next.node /\ after.begun = next.begun
          /\ after.aim = next.aim
        BY <1>4, <3>3 DEF Request
    <3>5. QED
        BY <3>2, <3>4 DEF m
  <2>3. req'[c] = IF ok THEN after ELSE RolledBack(after)
    BY <2>1 DEF Proceed, TypeOK
  <2>4. req'[c].moves = r
    <3> HIDE DEF after
    <3> QED BY <2>2, <2>3, RolledBackLog
  <2>5. Log(c)' /\ Fits(nodes, disk)'
    <3>1. \A i \in DOMAIN req[c].moves : req[c].moves[i].dir = "out"
        BY <1>1 DEF RestoreDone
    <3>2. disk[p] = NoFile /\ bin[p][n] # NoFile
        BY <1>3, <1>6
    <3>3. req'[c].moves = Append(req[c].moves,
                        [path |-> p, node |-> n, dir |-> "out", at |-> stamp[p][n]])
      <4> HIDE DEF after
      <4> QED BY <1>4, <2>2, <2>4
    <3>4. QED
        BY <1>0, <1>1, <1>3, <2>1, <3>1, <3>2, <3>3, MoveOutLog
  <2>6. CASE ok
    <3>1. req'[c] = after
        BY <2>3, <2>6
    <3>2. /\ DOMAIN r = DOMAIN q \cup {Len(q) + 1}
          /\ \A i \in DOMAIN q : r[i] = q[i]
          /\ r[Len(q) + 1] = [path |-> p, node |-> n, dir |-> "out", at |-> stamp[p][n]]
      <4>1. q \in Seq(Move) /\ "out" \in {"in", "out"}
          BY MovesType
      <4> HIDE DEF q, r, p, after
      <4>2. QED
          BY <1>3, <2>2, <4>1, AppendHas
    <3>3. \A i \in DOMAIN r : r[i].dir = "out" /\ r[i].node \in after.marked
      <4>1. \A i \in DOMAIN q : q[i].dir = "out" /\ q[i].node \in next.marked
          BY <1>1, <1>4 DEF RestoreDone
      <4>2. n \in next.marked
          BY <1>4
      <4> HIDE DEF q, r, after
      <4>3. QED
          BY <2>2, <3>2, <4>1, <4>2
    <3>4. \A m \in after.marked :
             nodes[m].state = "TRASHED" /\ bin'[nodes[m].path][m] = NoFile
      <4>1. \A m \in after.marked : m \in Node /\ (m = n \/ m \in req[c].marked)
        <5> HIDE DEF after
        <5> QED BY <1>3, <1>4, <2>2
      <4>2. \A x \in Path, m \in Node :
               bin'[x][m] = IF x = p /\ m = n THEN NoFile ELSE bin[x][m]
          BY <1>3, <2>1 DEF TypeOK
      <4> HIDE DEF after
      <4>3. QED
          BY <1>1, <1>3, <4>1, <4>2 DEF RestoreDone
    <3>5. nodes[after.node].state = "TRASHED" /\ after.begun /\ after.aim = {}
      <4> HIDE DEF after
      <4> QED BY <1>1, <1>4, <2>2 DEF RestoreDone
    <3>6. RestoreDone(req[c])'
      <4> HIDE DEF after
      <4>1. nodes' = nodes /\ req'[c] = after
          BY <1>0, <3>1
      <4>2. QED
          BY <3>3, <3>4, <3>5, <4>1 DEF RestoreDone
    <3>7. req'[c].phase = "run" /\ req'[c].op = "restore"
      <4> HIDE DEF after
      <4> QED BY <2>2, <3>1
    <3>8. QED
        BY <2>5, <3>6, <3>7 DEF Whole, Log
  <2>7. CASE ~ok
    <3>1. /\ req'[c].phase \in {"idle", "undo"}
          /\ req'[c].phase = "idle" => req'[c].moves = <<>>
      <4> HIDE DEF after
      <4> QED BY <2>2, <2>3, <2>7, RolledBackLog
    <3>2. QED
        BY <2>5, <3>1, SealedWhole
  <2>8. QED
    BY <2>5, <2>6, <2>7
<1>7. QED
    BY <1>5, <1>6

LEMMA FlipRows ==
    ASSUME NEW t \in Table, NEW S, NEW s \in LifecycleState
    PROVE  \A n \in Node : LET u == Flip(t, S, s)
              IN  /\ u[n].state = IF n \in S THEN s ELSE t[n].state
                  /\ u[n].path = t[n].path /\ u[n].fast = t[n].fast /\ u[n].sup = t[n].sup
BY DEF Flip, Table, Row

\* A state in which nobody has moved anything.
LEMMA QuietWhole ==
    ASSUME NEW c \in Client, req'[c] = Idle, BinsKnown(<<>>)', TrashGone(<<>>)'
    PROVE  Whole(req[c])'
<1>1. Idle.moves = <<>> /\ Idle.phase = "idle"
    BY DEF Idle
<1>2. Undoable(<<>>)'
    BY DEF Undoable
<1>3. QED
    BY <1>1, <1>2 DEF Whole

LEMMA CommitTrashWhole ==
    ASSUME TypeOK, NEW c \in Client, Whole(req[c]), Book(nodes), Fits(nodes, disk),
           CommitTrash(c), req[c].node \in Node
    PROVE  Whole(req[c])' /\ Book(nodes)' /\ Fits(nodes, disk)'
<1> DEFINE M == Visited(req[c])
           q == req[c].moves
<1>1. /\ Undoable(q) /\ BinsKnown(q) /\ TrashGone(q) /\ TrashDone(req[c])
    BY DEF Whole, CommitTrash
<1>2. nodes' = Flip(nodes, M, "TRASHED") /\ disk' = disk /\ bin' = bin /\ req'[c] = Idle
    BY DEF CommitTrash, Visited, fileVars, TypeOK
<1>3. M \in SUBSET Node
    BY MovesType DEF Visited, Request
<1>4. \A n \in M : n \in Current(nodes)
    BY <1>1 DEF TrashDone
<1>5. \A n \in Node : /\ nodes'[n].state = IF n \in M THEN "TRASHED" ELSE nodes[n].state
                      /\ nodes'[n].path = nodes[n].path /\ nodes'[n].fast = nodes[n].fast
                      /\ nodes'[n].sup = nodes[n].sup
  <2>1. "TRASHED" \in LifecycleState /\ nodes \in Table
    BY DEF LifecycleState, TypeOK
  <2> HIDE DEF M
  <2>2. QED
    BY <1>2, <2>1, FlipRows
<1> HIDE DEF M, q
<1>6. \A n \in Node : Exists(nodes'[n]) <=> Exists(nodes[n])
    BY <1>4, <1>5 DEF Exists, Current
<1>7. Current(nodes') = Current(nodes)
    BY <1>5, <1>6 DEF Current
<1>8. Book(nodes')
  <2>1. OnlyArchived(nodes')
    BY <1>4, <1>5 DEF Book, OnlyArchived, Current
  <2>2. \A n \in Current(nodes) : n \in Node
    BY DEF Current
  <2>3. QED
    BY <1>5, <1>6, <1>7, <2>1, <2>2 DEF Book
<1>9. Fits(nodes', disk')
  <2>1. \A n \in Current(nodes) : n \in Node
    BY DEF Current
  <2>2. QED
    BY <1>2, <1>5, <1>7, <2>1 DEF Fits
<1>10. BinsKnown(<<>>)'
  <2> SUFFICES ASSUME NEW x \in Path, NEW k \in Node, bin[x][k] # NoFile
               PROVE  /\ Kind[x] = "local"
                      /\ nodes'[k].state = "TRASHED" /\ nodes'[k].path = x
                      /\ nodes'[k].fast = FastOf[bin[x][k]]
    BY <1>2 DEF BinsKnown
  <2>1. CASE Has(q, x, k, "in")
    <3>1. PICK i \in DOMAIN q : q[i].path = x /\ q[i].node = k /\ q[i].dir = "in"
        BY <2>1 DEF Has
    <3>2. k \in M /\ nodes[k].path = x
        BY <1>1, <3>1 DEF TrashDone, M, q
    <3>3. InUndoable(q[i]) /\ Kind[x] = "local"
        BY <1>1, <3>1 DEF Undoable
    <3>4. nodes[k].fast = FastOf[bin[x][k]]
        BY <1>4, <3>1, <3>2, <3>3 DEF InUndoable
    <3>5. QED
        BY <1>5, <3>2, <3>3, <3>4
  <2>2. CASE ~Has(q, x, k, "in")
    BY <1>1, <1>5, <2>2 DEF BinsKnown
  <2>3. QED
    BY <2>1, <2>2
<1>11. TrashGone(<<>>)'
  <2> SUFFICES ASSUME NEW k \in Node, nodes'[k].state = "TRASHED",
                      Kind[nodes'[k].path] = "local", disk[nodes'[k].path] # NoFile
               PROVE  FALSE
    BY <1>2 DEF TrashGone
  <2>1. nodes'[k].path = nodes[k].path
    BY <1>5
  <2>2. k \notin M
    BY <1>1, <2>1 DEF TrashDone, M
  <2>3. Has(q, nodes[k].path, k, "out")
    BY <1>1, <1>5, <2>1, <2>2 DEF TrashGone
  <2>4. \A i \in DOMAIN q : q[i].dir = "in"
    BY <1>1 DEF TrashDone, q
  <2>5. QED
    BY <2>3, <2>4 DEF Has
<1>12. QED
    BY <1>2, <1>8, <1>9, <1>10, <1>11, QuietWhole

LEMMA CommitRestoreWhole ==
    ASSUME TypeOK, NEW c \in Client, Whole(req[c]), Book(nodes), Fits(nodes, disk),
           CommitRestore(c)
    PROVE  Whole(req[c])' /\ Book(nodes)' /\ Fits(nodes, disk)'
<1> DEFINE M == req[c].marked
           q == req[c].moves
<1>1. /\ Undoable(q) /\ BinsKnown(q) /\ TrashGone(q) /\ RestoreDone(req[c])
    BY DEF Whole, CommitRestore
<1>2. nodes' = Flip(nodes, M, "ACTIVE") /\ disk' = disk /\ bin' = bin /\ req'[c] = Idle
    BY DEF CommitRestore, fileVars, TypeOK
<1>3. \A n \in Node : /\ nodes'[n].state = IF n \in M THEN "ACTIVE" ELSE nodes[n].state
                      /\ nodes'[n].path = nodes[n].path /\ nodes'[n].fast = nodes[n].fast
                      /\ nodes'[n].sup = nodes[n].sup
  <2>1. "ACTIVE" \in LifecycleState /\ nodes \in Table
    BY DEF LifecycleState, TypeOK
  <2> HIDE DEF M
  <2>2. QED
    BY <1>2, <2>1, FlipRows
<1>4. \A n \in M : nodes[n].state = "TRASHED" /\ bin[nodes[n].path][n] = NoFile
    BY <1>1 DEF RestoreDone
<1>5. \A i \in DOMAIN q : q[i].dir = "out" /\ q[i].node \in M
    BY <1>1 DEF RestoreDone
<1> HIDE DEF M, q
<1>6. \A n \in Node : Exists(nodes'[n]) <=> Exists(nodes[n])
    BY <1>3, <1>4 DEF Exists
<1>7. Current(nodes') = Current(nodes)
    BY <1>3, <1>6 DEF Current
<1>8. Book(nodes')
  <2>1. OnlyArchived(nodes')
    BY <1>3, <1>4 DEF Book, OnlyArchived
  <2>2. \A n \in Current(nodes) : n \in Node
    BY DEF Current
  <2>3. QED
    BY <1>3, <1>6, <1>7, <2>1, <2>2 DEF Book
<1>9. Fits(nodes', disk')
  <2>1. \A n \in Current(nodes) : n \in Node
    BY DEF Current
  <2>2. QED
    BY <1>2, <1>3, <1>7, <2>1 DEF Fits
<1>10. BinsKnown(<<>>)'
  <2> SUFFICES ASSUME NEW x \in Path, NEW k \in Node, bin[x][k] # NoFile
               PROVE  /\ Kind[x] = "local"
                      /\ nodes'[k].state = "TRASHED" /\ nodes'[k].path = x
                      /\ nodes'[k].fast = FastOf[bin[x][k]]
    BY <1>2 DEF BinsKnown
  <2>1. ~Has(q, x, k, "in")
    BY <1>5 DEF Has
  <2>2. /\ Kind[x] = "local"
        /\ nodes[k].state = "TRASHED" /\ nodes[k].path = x /\ nodes[k].fast = FastOf[bin[x][k]]
    BY <1>1, <2>1 DEF BinsKnown
  <2>3. k \notin M
    BY <1>4, <2>2
  <2>4. QED
    BY <1>3, <2>2, <2>3
<1>11. TrashGone(<<>>)'
  <2> SUFFICES ASSUME NEW k \in Node, nodes'[k].state = "TRASHED",
                      Kind[nodes'[k].path] = "local", disk[nodes'[k].path] # NoFile
               PROVE  FALSE
    BY <1>2 DEF TrashGone
  <2>1. k \notin M /\ nodes[k].state = "TRASHED" /\ nodes'[k].path = nodes[k].path
    BY <1>3
  <2>2. Has(q, nodes[k].path, k, "out")
    BY <1>1, <2>1 DEF TrashGone
  <2>3. QED
    BY <1>5, <2>1, <2>2 DEF Has
<1>12. QED
    BY <1>2, <1>8, <1>9, <1>10, <1>11, QuietWhole

\* A request that is not inside its transaction, when the index changes around it.
LEMMA FollowsWhole ==
    ASSUME TypeOK, NodeKnown, NEW c \in Client, Whole(req[c]), Fits(nodes, disk), Follows,
           disk' = disk, bin' = bin, req[c].phase # "run",
           \/ req'[c] = req[c]
           \/ req'[c] = Idle /\ req[c].phase = "pending"
    PROVE  Whole(req[c])' /\ Fits(nodes, disk)'
<1>1. Log(c)
    BY DEF Whole, Log
<1>2. /\ req'[c].moves = req[c].moves /\ req'[c].phase # "run"
      /\ req'[c].phase \in {"idle", "pending"} => req'[c].moves = <<>>
    BY DEF Whole, Idle
<1>3. Log(c)' /\ Fits(nodes, disk)'
    BY <1>1, <1>2, FollowsLog
<1>4. req'[c].phase = "pending" => Exists(nodes'[req'[c].node])
  <2>1. CASE req'[c] = req[c] /\ req[c].phase = "pending"
    <3>1. Exists(nodes[req[c].node])
        BY <2>1 DEF Whole
    <3>2. QED
        BY <2>1, <3>1 DEF Follows, NodeKnown
  <2>2. QED
    BY <2>1 DEF Idle
<1>5. QED
    BY <1>2, <1>3, <1>4 DEF Whole, Log

LEMMA AlikeFollows ==
    ASSUME TypeOK, Book(nodes), OnlyArchived(nodes'), AllAlike(nodes, nodes'),
           \A n \in Node : nodes'[n].state = "TRASHED" <=> nodes[n].state = "TRASHED"
    PROVE  Book(nodes') /\ Follows
<1>1. nodes \in Table
    BY DEF TypeOK
<1>2. \A p, f : Book(nodes') /\ Tells(nodes, nodes', p, f)
    BY <1>1, AlikeTells
<1>3. Current(nodes') = Current(nodes) /\ \A n \in Current(nodes) : n \in Node
    BY DEF AllAlike, Alike, Current
<1>4. Follows
    BY <1>3 DEF AllAlike, Alike, Follows
<1>5. QED
    BY <1>2, <1>4

LEMMA ScanFollows ==
    ASSUME TypeOK, Book(nodes), Fits(nodes, disk), NEW p \in Path, Scan(p)
    PROVE  Book(nodes') /\ Follows
<1>1. PICK full \in {NoHash, disk[p]} :
          /\ CommitOne(nodes, [path |-> p, fast |-> FastOf[disk[p]], full |-> full]).ok
          /\ nodes' = CommitOne(nodes, [path |-> p, fast |-> FastOf[disk[p]],
                                        full |-> full]).nodes
    BY DEF Scan
<1> DEFINE r == [path |-> p, fast |-> FastOf[disk[p]], full |-> full]
<1>2. disk[p] \in Content /\ disk[p] # NoFile
    BY DEF Scan, TypeOK, File
<1>3. Hashed(r)
    BY <1>1, <1>2, NodeStoreAssumption DEF Hashed, FullHash
<1>4. FreeIds(nodes) # {} /\ nodes \in Table
    BY DEF Scan, TypeOK
<1>5. \A n \in Current(nodes) : nodes[n].path = r.path => nodes[n].fast = r.fast
    BY <1>2 DEF Fits
<1>6. r.path = p /\ r.fast = FastOf[disk[p]] /\ CommitOne(nodes, r).ok
      /\ nodes' = CommitOne(nodes, r).nodes
    BY <1>1
<1> HIDE DEF r
<1>7. Book(nodes') /\ Tells(nodes, nodes', p, FastOf[disk[p]])
    BY <1>3, <1>4, <1>5, <1>6, CommitTells
<1>8. \A n \in Node : nodes'[n].state = "TRASHED" <=> nodes[n].state = "TRASHED"
    BY ScanKeeps DEF KeepsRetired
<1>9. \A n \in Node : nodes[n].state = "TRASHED" => Exists(nodes[n])
    BY DEF Exists
<1>10. Follows
    BY <1>2, <1>7, <1>8, <1>9 DEF Tells, Follows
<1>11. QED
    BY <1>7, <1>10

----------------------------------------------------------------------------
LEMMA TidyKeeps ==
    ASSUME Typed, SingleClient, Client # {}, Running, Pending, Tidy, [Next]_vars
    PROVE  Tidy'
<1> DEFINE Neat == Book(nodes) /\ Fits(nodes, disk) /\ \A c \in Client : Whole(req[c])
<1>0. TypeOK /\ NodeKnown
    BY DEF Typed
<1>1. mishaps' \in {mishaps, mishaps + 1} /\ mishaps \in Nat
  <2>1. mishaps \in Nat
    BY <1>0 DEF TypeOK
  <2>2. mishaps' \in {mishaps, mishaps + 1}
    BY ZenonT(60) DEF Next, vars, ClientStep, OtherStep, BeginTrash, TrashMaster, TrashExport,
           CommitTrash, BeginRestore, RestoreMaster, RestoreExport, RenameBack,
           CommitRestore, Fault, Undo, ReadArchived, Unarchive, PurgeLookup, PurgeRemove,
           Scan, Sweep, ExternalWrite, Tick, Crash
  <2>3. QED
    BY <2>1, <2>2
<1> SUFFICES ASSUME mishaps' = 0 PROVE Neat'
    BY DEF Tidy
<1>2. mishaps' = mishaps /\ Neat
    BY <1>1 DEF Tidy
<1>3. \A c \in Client : req[c] \in Request
    BY <1>0 DEF TypeOK
<1>4. \A c \in Client : Whole(req[c]) => Log(c)
    BY DEF Whole, Log
<1> HIDE DEF Neat
<1>5. Book(nodes) /\ Fits(nodes, disk) /\ \A c \in Client : Whole(req[c])
    BY <1>2 DEF Neat
\* One client and its step settle the matter.
<1>6. ASSUME NEW c \in Client, Whole(req[c])', Book(nodes)', Fits(nodes, disk)'
      PROVE  Neat'
    BY <1>6 DEF SingleClient, Neat
<1>7. ASSUME NEW c \in Client, UNCHANGED <<nodes, disk, bin>>,
             req'[c].moves = req[c].moves,
             req'[c].phase \in {"idle", "pending"} => req'[c].moves = <<>>,
             req'[c].phase = "run" /\ req'[c].op = "trash" => TrashDone(req[c])',
             req'[c].phase = "run" /\ req'[c].op = "restore" => RestoreDone(req[c])',
             req'[c].phase = "pending" => Exists(nodes'[req'[c].node])
      PROVE  Neat'
  <2>1. Log(c)'
    BY <1>0, <1>4, <1>5, <1>7, SameLog
  <2>2. Whole(req[c])'
    BY <1>7, <2>1 DEF Whole, Log
  <2>3. QED
    BY <1>5, <1>6, <1>7, <2>2
<1>8. ASSUME NEW c \in Client, NEW n \in Node, NEW keepExports \in BOOLEAN,
             BeginTrash(c, n, keepExports)
      PROVE  Neat'
  <2>1. /\ req'[c].phase = "run" /\ req'[c].op = "trash" /\ req'[c].moves = <<>>
        /\ req'[c].marked = {} /\ req'[c].begun = FALSE
        /\ req[c].moves = <<>>
    BY <1>0, <1>5, <1>8 DEF BeginTrash, Idle, TypeOK, Whole
  <2>2. TrashDone(req[c])'
    BY <2>1 DEF TrashDone, Visited
  <2>3. QED
    BY <1>7, <1>8, <2>1, <2>2 DEF BeginTrash, dbVars, fileVars
<1>9. ASSUME NEW c \in Client, TrashMaster(c)
      PROVE  Neat'
  <2> DEFINE n    == req[c].node
             next == [req[c] EXCEPT !.begun = TRUE]
  <2>1. /\ next \in Request /\ next.phase = "run" /\ next.op = "trash"
        /\ next.moves = req[c].moves /\ next.marked = req[c].marked
        /\ next.begun = TRUE /\ next.node = n /\ n \in Node /\ req[c].begun = FALSE
    BY <1>0, <1>3, <1>9, ZenonT(60) DEF TrashMaster, NodeKnown, Request
  <2>2. n \in Current(nodes)
    <3>1. nodes[n].state \in {"ACTIVE", "MISSING"}
        BY <1>9 DEF TrashMaster, Running, TrashRuns
    <3>2. QED
        BY <1>5, <2>1, <3>1 DEF Current, Exists, Book, OnlyArchived
  <2>3. \/ Kind[nodes[n].path] = "local" /\ MoveToTrash(c, n, TRUE, next)
        \/ Kind[nodes[n].path] # "local" /\ Proceed(c, TRUE, next) /\ UNCHANGED fileVars
    BY <1>9 DEF TrashMaster
  <2>4. UNCHANGED dbVars /\ req[c].phase = "run" /\ req[c].op = "trash"
    BY <1>9 DEF TrashMaster
  <2> HIDE DEF next
  <2>5. Visited(next) = Visited(req[c]) \cup {n}
    BY <2>1 DEF Visited
  <2>6. Whole(req[c])' /\ Fits(nodes, disk)'
    BY <1>0, <1>5, <2>1, <2>2, <2>3, <2>4, <2>5, TrashStepWhole
  <2>7. QED
    BY <1>5, <1>6, <2>4, <2>6 DEF dbVars
<1>10. ASSUME NEW c \in Client, NEW e \in Node, TrashExport(c, e)
       PROVE  Neat'
  <2> DEFINE skip  == [req[c] EXCEPT !.todo = @ \ {e}]
             times == RecordNodeTrashed(req[c].times, e)
             next  == [req[c] EXCEPT !.todo = @ \ {e}, !.marked = @ \cup {e},
                                     !.times = times]
  <2>0. times \in [Node -> Time \cup {NoTime}]
    BY <1>0, <1>3 DEF RecordNodeTrashed, Request, TypeOK
  <2>1. /\ UNCHANGED dbVars /\ req[c].phase = "run" /\ req[c].op = "trash"
        /\ \/ Proceed(c, TRUE, skip) /\ UNCHANGED fileVars
           \/ ~SkipExport(req[c], e) /\ MoveToTrash(c, e, MarkAllowed(req[c], e), next)
    BY <1>10 DEF TrashExport
  <2> HIDE DEF times
  <2>2. CASE Proceed(c, TRUE, skip) /\ UNCHANGED fileVars
    <3>1. req'[c] = skip
        BY <1>0, <2>2 DEF Proceed, TypeOK
    <3>2. /\ skip.phase = "run" /\ skip.op = "trash" /\ skip.moves = req[c].moves
          /\ skip.marked = req[c].marked /\ skip.node = req[c].node
          /\ skip.begun = req[c].begun
        BY <1>3, <2>1 DEF Request
    <3> HIDE DEF skip
    <3>3. TrashDone(req[c])
        BY <1>5, <2>1 DEF Whole
    <3>4. nodes' = nodes /\ disk' = disk /\ bin' = bin
        BY <2>1, <2>2 DEF dbVars, fileVars
    <3>5. TrashDone(req[c])'
        BY <3>1, <3>2, <3>3, <3>4 DEF TrashDone, Visited
    <3>6. QED
        BY <1>7, <2>1, <3>1, <3>2, <3>4, <3>5
  <2>3. CASE ~SkipExport(req[c], e) /\ MoveToTrash(c, e, MarkAllowed(req[c], e), next)
    <3>1. /\ next \in Request /\ next.phase = "run" /\ next.op = "trash"
          /\ next.moves = req[c].moves /\ next.marked = req[c].marked \cup {e}
          /\ next.begun = req[c].begun /\ next.node = req[c].node
        BY <1>3, <2>0, <2>1, ZenonT(60) DEF Request
    <3>2. Kind[nodes[e].path] = "local"
        BY <2>3 DEF SkipExport
    <3>3. MarkAllowed(req[c], e) => e \in Current(nodes)
      <4>1. /\ "TRASHED" \in LifecycleState /\ nodes \in Table /\ nodes[e] \in Row
            /\ e # 0
          BY <1>0, NodeStoreAssumption DEF LifecycleState, TypeOK, Table, Node
      <4>2. MarkAllowed(req[c], e) => nodes[e].sup = 0
        <5> DEFINE u == Flip(nodes, req[c].marked \cup {e}, "TRASHED")
        <5>1. u[e].state = "TRASHED" /\ u[e].sup = nodes[e].sup
            BY <4>1, FlipRows
        <5>2. MarkAllowed(req[c], e) => Schema(u)
            BY <2>1 DEF MarkAllowed, Target
        <5> HIDE DEF u
        <5>3. QED
            BY <5>1, <5>2 DEF Schema, SupersededIsArchived
      <4>3. Exists(nodes[e])
        <5>1. View(req[c])[e].state # "NONE"
            BY <2>3 DEF SkipExport
        <5>2. View(req[c])[e].state = IF e \in req[c].marked THEN "TRASHED" ELSE nodes[e].state
            BY <2>1, <4>1, FlipRows DEF View, Target
        <5>3. e \in req[c].marked => e \in Current(nodes)
            BY <1>5, <2>1 DEF Whole, TrashDone, Visited
        <5>4. QED
            BY <5>1, <5>2, <5>3 DEF Exists, Current
      <4>4. QED
          BY <4>2, <4>3 DEF Current
    <3> HIDE DEF next
    <3>4. Visited(next) = Visited(req[c]) \cup {e}
        BY <3>1 DEF Visited
    <3>5. Whole(req[c])' /\ Fits(nodes, disk)'
        BY <1>0, <1>5, <2>1, <2>3, <3>1, <3>2, <3>3, <3>4, TrashStepWhole
    <3>6. QED
        BY <1>5, <1>6, <2>1, <3>5 DEF dbVars
  <2>4. QED
    BY <2>1, <2>2, <2>3
<1>11. ASSUME NEW c \in Client, CommitTrash(c)
       PROVE  Neat'
  <2>1. req[c].node \in Node
    BY <1>0, <1>11 DEF CommitTrash, NodeKnown
  <2>2. QED
    BY <1>0, <1>5, <1>6, <1>11, <2>1, CommitTrashWhole
<1>12. ASSUME NEW c \in Client, NEW n \in Node, BeginRestore(c, n)
       PROVE  Neat'
  <2>1. /\ req'[c].phase = "run" /\ req'[c].op = "restore" /\ req'[c].moves = <<>>
        /\ req'[c].marked = {} /\ req'[c].node = n /\ nodes'[n].state = "TRASHED"
        /\ req'[c].aim = {} /\ req[c].moves = <<>>
    BY <1>0, <1>5, <1>12 DEF BeginRestore, Idle, TypeOK, Whole, dbVars
  <2>2. RestoreDone(req[c])'
    BY <2>1 DEF RestoreDone
  <2>3. QED
    BY <1>7, <1>12, <2>1, <2>2 DEF BeginRestore, dbVars, fileVars
<1>13. ASSUME NEW c \in Client, RestoreMaster(c)
       PROVE  Neat'
  <2> DEFINE n    == req[c].node
             next == [req[c] EXCEPT !.begun = TRUE, !.marked = {n}]
  <2>1. /\ req[c].phase = "run" /\ req[c].op = "restore" /\ ~req[c].begun
        /\ req[c].aim = {} /\ UNCHANGED dbVars
        /\ RestoreFromTrash(c, n, FALSE, MarkAllowed(req[c], n), next)
    BY <1>13 DEF RestoreMaster
  <2>2. n \in Node /\ nodes[n].state = "TRASHED" /\ req[c].marked = {}
    BY <1>0, <1>5, <2>1 DEF NodeKnown, Whole, RestoreDone
  <2>3. /\ next \in Request /\ next.phase = "run" /\ next.op = "restore"
        /\ next.moves = req[c].moves /\ next.node = req[c].node
        /\ next.marked = req[c].marked \cup {n} /\ next.begun /\ next.aim = {}
    BY <1>3, <2>1, <2>2, ZenonT(60) DEF Request
  <2> HIDE DEF next
  <2>4. Whole(req[c])' /\ Fits(nodes, disk)'
    BY <1>0, <1>5, <2>1, <2>2, <2>3, RestoreStepWhole
  <2>5. QED
    BY <1>5, <1>6, <2>1, <2>4 DEF dbVars
<1>14. ASSUME NEW c \in Client, NEW e \in Node, RestoreExport(c, e)
       PROVE  Neat'
  <2> DEFINE skip == [req[c] EXCEPT !.todo = @ \ {e}]
             next == [req[c] EXCEPT !.todo = @ \ {e}, !.marked = @ \cup {e}]
  <2>1. /\ req[c].phase = "run" /\ req[c].op = "restore" /\ req[c].begun
        /\ req[c].aim = {} /\ UNCHANGED dbVars
        /\ \/ Proceed(c, TRUE, skip) /\ UNCHANGED fileVars
           \/ /\ View(req[c])[e].state = "TRASHED"
              /\ RestoreFromTrash(c, e, TRUE, MarkAllowed(req[c], e), next)
    BY <1>14 DEF RestoreExport
  <2>2. CASE Proceed(c, TRUE, skip) /\ UNCHANGED fileVars
    <3>1. req'[c] = skip
        BY <1>0, <2>2 DEF Proceed, TypeOK
    <3>2. /\ skip.phase = "run" /\ skip.op = "restore" /\ skip.moves = req[c].moves
          /\ skip.marked = req[c].marked /\ skip.node = req[c].node
          /\ skip.begun = req[c].begun /\ skip.aim = {}
        BY <1>3, <2>1 DEF Request
    <3> HIDE DEF skip
    <3>3. RestoreDone(req[c])
        BY <1>5, <2>1 DEF Whole
    <3>4. nodes' = nodes /\ disk' = disk /\ bin' = bin
        BY <2>1, <2>2 DEF dbVars, fileVars
    <3>5. RestoreDone(req[c])'
        BY <3>1, <3>2, <3>3, <3>4 DEF RestoreDone
    <3>6. QED
        BY <1>7, <2>1, <3>1, <3>2, <3>4, <3>5
  <2>3. CASE /\ View(req[c])[e].state = "TRASHED"
             /\ RestoreFromTrash(c, e, TRUE, MarkAllowed(req[c], e), next)
    <3>1. /\ next \in Request /\ next.phase = "run" /\ next.op = "restore"
          /\ next.moves = req[c].moves /\ next.marked = req[c].marked \cup {e}
          /\ next.begun /\ next.node = req[c].node /\ next.aim = {}
        BY <1>3, <2>1, ZenonT(60) DEF Request
    <3>2. nodes[e].state = "TRASHED"
      <4>1. "ACTIVE" \in LifecycleState /\ nodes \in Table
          BY <1>0 DEF LifecycleState, TypeOK
      <4>2. View(req[c])[e].state = IF e \in req[c].marked THEN "ACTIVE" ELSE nodes[e].state
          BY <2>1, <4>1, FlipRows DEF View, Target
      <4>3. QED
          BY <2>3, <4>2
    <3> HIDE DEF next
    <3>3. Whole(req[c])' /\ Fits(nodes, disk)'
        BY <1>0, <1>5, <2>1, <2>3, <3>1, <3>2, RestoreStepWhole
    <3>4. QED
        BY <1>5, <1>6, <2>1, <3>3 DEF dbVars
  <2>4. QED
    BY <2>1, <2>2, <2>3
<1>15. ASSUME NEW c \in Client, CommitRestore(c)
       PROVE  Neat'
    BY <1>0, <1>5, <1>6, <1>15, CommitRestoreWhole
<1>16. ASSUME NEW c \in Client, Fault(c)
       PROVE  Neat'
  <2>1. req'[c] = RolledBack(req[c]) /\ nodes' = nodes /\ disk' = disk /\ bin' = bin
    BY <1>0, <1>16 DEF Fault, Proceed, TypeOK, dbVars, fileVars
  <2>2. /\ req'[c].moves = req[c].moves /\ req'[c].phase \in {"idle", "undo"}
        /\ req'[c].phase = "idle" => req'[c].moves = <<>>
    BY <1>3, <2>1, RolledBackLog
  <2>3. Whole(req[c])'
    BY <1>0, <1>4, <1>5, <2>1, <2>2, SameLog, SealedWhole
  <2>4. QED
    BY <1>5, <1>6, <2>1, <2>3
<1>17. ASSUME NEW c \in Client, Undo(c)
       PROVE  Neat'
  <2>1. Whole(req[c])' /\ Fits(nodes, disk)'
    BY <1>0, <1>2, <1>4, <1>5, <1>17, UndoLog, SealedWhole
  <2>2. QED
    BY <1>5, <1>6, <1>17, <2>1 DEF Undo, dbVars
<1>18. ASSUME NEW c \in Client, NEW n \in Node, ReadArchived(c, n)
       PROVE  Neat'
  <2>1. /\ req'[c].phase = "pending" /\ req'[c].op = "unarchive" /\ req'[c].moves = <<>>
        /\ req'[c].node = n /\ Exists(nodes'[n]) /\ req[c].moves = <<>>
    BY <1>0, <1>5, <1>18 DEF ReadArchived, Idle, TypeOK, Whole, dbVars, Exists
  <2>2. QED
    BY <1>7, <1>18, <2>1 DEF ReadArchived, dbVars, fileVars
\* A step that changes the index while no transaction runs.
<1>19. ASSUME NEW c \in Client, req[c].phase # "run", Book(nodes'), Follows,
              disk' = disk, bin' = bin,
              \/ req'[c] = req[c]
              \/ req'[c] = Idle /\ req[c].phase = "pending"
       PROVE  Neat'
  <2>1. Whole(req[c])' /\ Fits(nodes, disk)'
    BY <1>0, <1>5, <1>19, FollowsWhole
  <2>2. QED
    BY <1>6, <1>19, <2>1
<1>20. ASSUME NEW c \in Client, Unarchive(c)
       PROVE  Neat'
  <2> DEFINE n == req[c].node
             u == UnarchiveMediaNode(nodes, n)
  <2>1. /\ req[c].phase = "pending" /\ req'[c] = Idle /\ disk' = disk /\ bin' = bin
        /\ (nodes' = nodes \/ (nodes' = u /\ Schema(u)))
    BY <1>0, <1>20 DEF Unarchive, TypeOK, fileVars
  <2>2. n \in Node /\ nodes[n].state # "TRASHED" /\ Exists(nodes[n]) /\ nodes \in Table
    BY <1>0, <1>5, <2>1 DEF NodeKnown, Pending, Whole, TypeOK
  <2>3. OnlyArchived(nodes')
    BY <1>5, <2>1 DEF Book, OnlyArchived, Schema, SupersededIsArchived
  <2>4. "ACTIVE" \in LifecycleState /\ "ACTIVE" # "NONE"
    BY DEF LifecycleState
  <2>5. AllAlike(nodes, nodes')
    <3>1. AllAlike(nodes, nodes)
        BY DEF AllAlike, Alike
    <3>2. AllAlike(nodes, u)
        BY <2>2, <2>4, SetStateAlike DEF UnarchiveMediaNode
    <3>3. QED
        BY <2>1, <3>1, <3>2
  <2>6. \A m \in Node : nodes'[m].state = "TRASHED" <=> nodes[m].state = "TRASHED"
    BY <2>1, <2>2, <2>4, SetStateRows DEF UnarchiveMediaNode
  <2>7. Book(nodes') /\ Follows
    BY <1>0, <1>5, <2>3, <2>5, <2>6, AlikeFollows
  <2>8. QED
    BY <1>19, <2>1, <2>7
<1>21. ASSUME NEW c \in Client, NEW p \in Path, Scan(p)
       PROVE  Neat'
    BY <1>0, <1>5, <1>19, <1>21, ScanFollows DEF Scan, WriterFree, fileVars
<1>22. ASSUME NEW c \in Client, NEW p \in Path, Sweep(p)
       PROVE  Neat'
  <2>1. PICK m \in Node : /\ m \in LiveAt(nodes, p)
                          /\ nodes' = MarkNodeMissing(nodes, m)
    BY <1>22 DEF Sweep, LiveAt
  <2>2. /\ (nodes' = nodes \/ nodes' = SetState(nodes, m, "MISSING"))
        /\ Exists(nodes[m]) /\ nodes[m].state \notin {"ARCHIVED", "TRASHED"} /\ nodes \in Table
    BY <1>0, <2>1 DEF MarkNodeMissing, LiveAt, Live, Exists, TypeOK
  <2>3. "MISSING" \in LifecycleState /\ "MISSING" # "NONE"
    BY DEF LifecycleState
  <2>4. AllAlike(nodes, nodes')
    <3>1. AllAlike(nodes, nodes)
        BY DEF AllAlike, Alike
    <3>2. AllAlike(nodes, SetState(nodes, m, "MISSING"))
        BY <2>2, <2>3, SetStateAlike
    <3>3. QED
        BY <2>2, <3>1, <3>2
  <2>5. \A k \in Node : /\ nodes'[k].sup = nodes[k].sup
                        /\ \/ nodes'[k].state = nodes[k].state
                           \/ k = m /\ nodes'[k].state = "MISSING"
    BY <2>2 DEF SetState, Table, Row
  <2>6. OnlyArchived(nodes')
    BY <1>5, <2>2, <2>5 DEF Book, OnlyArchived
  <2>7. \A k \in Node : nodes'[k].state = "TRASHED" <=> nodes[k].state = "TRASHED"
    BY <2>2, <2>5
  <2>8. Book(nodes') /\ Follows
    BY <1>0, <1>5, <2>4, <2>6, <2>7, AlikeFollows
  <2>9. QED
    BY <1>19, <1>22, <2>8 DEF Sweep, WriterFree, fileVars
<1>23. ASSUME NEW c \in Client, PurgeRemove
       PROVE  Neat'
  <2>1. /\ nodes' = nodes /\ disk' = disk /\ req' = req
        /\ \A p \in Path, n \in Node : bin'[p][n] \in {bin[p][n], NoFile}
    BY <1>0, <1>23 DEF PurgeRemove, TypeOK, dbVars
  <2>2. Log(c)'
    BY <1>0, <1>4, <1>5, <2>1, PurgedLog
  <2>3. Whole(req[c])'
    <3>1. req[c].phase = "run" /\ req[c].op = "trash" => TrashDone(req[c])'
        BY <1>5, <2>1 DEF Whole, TrashDone
    <3>2. req[c].phase = "run" /\ req[c].op = "restore" => RestoreDone(req[c])'
      <4>1. req[c].marked \in SUBSET Node /\ \A n \in Node : nodes[n].path \in Path
          BY <1>0, <1>3, RowType DEF Request, TypeOK
      <4>2. QED
          BY <1>5, <2>1, <4>1 DEF Whole, RestoreDone
    <3>3. QED
        BY <1>5, <2>1, <2>2, <3>1, <3>2 DEF Whole, Log
  <2>4. QED
    BY <1>5, <1>6, <2>1, <2>3
<1>24. CASE UNCHANGED <<nodes, disk, bin, req>>
  <2>1. PICK c \in Client : TRUE
    OBVIOUS
  <2>2. Whole(req[c])
    BY <1>5
  <2>3. req[c].phase = "run" /\ req[c].op = "trash" => TrashDone(req[c])'
    BY <1>24, <2>2 DEF Whole, TrashDone
  <2>4. req[c].phase = "run" /\ req[c].op = "restore" => RestoreDone(req[c])'
    BY <1>24, <2>2 DEF Whole, RestoreDone
  <2>5. /\ req[c].phase \in {"idle", "pending"} => req[c].moves = <<>>
        /\ req[c].phase = "pending" => Exists(nodes[req[c].node])
    BY <2>2 DEF Whole
  <2>6. QED
    BY <1>7, <1>24, <2>3, <2>4, <2>5
<1>25. ASSUME NEW c \in Client, RenameBack(c)
       PROVE  Neat'
  <2>1. Whole(req[c])' /\ Fits(nodes, disk)' /\ nodes' = nodes
    BY <1>0, <1>5, <1>25, RenameBackWhole DEF RenameBack, dbVars
  <2>2. QED
    BY <1>5, <1>6, <2>1
<1>26. QED
  <2>1. CASE \E c \in Client : ClientStep(c)
    BY <1>8, <1>9, <1>10, <1>11, <1>12, <1>13, <1>14, <1>15, <1>16, <1>17, <1>18, <1>20,
       <1>25, <2>1
    DEF ClientStep
  <2>2. CASE OtherStep
    <3>1. PICK c \in Client : TRUE
        OBVIOUS
    <3>2. ~Crash /\ \A p \in Path, f \in File : ~ExternalWrite(p, f)
        BY <1>1, <1>2 DEF Crash, ExternalWrite
    <3>3. QED
        BY <1>21, <1>22, <1>23, <1>24, <2>2, <3>1, <3>2
        DEF OtherStep, PurgeLookup, Tick, dbVars, fileVars
  <2>3. QED
    BY <1>24, <2>1, <2>2 DEF Next, vars, dbVars, fileVars

LEMMA TidyAtStart ==
    ASSUME Settled, Init
    PROVE  Tidy
<1>1. Book(nodes) /\ Fits(nodes, disk)
    BY DEF Settled, Init
<1>2. ASSUME NEW c \in Client
      PROVE  Whole(req[c])
  <2>1. req[c].phase = "idle" /\ req[c].moves = <<>>
    BY DEF Init, Idle
  <2>2. /\ \A p \in Path, n \in Node : bin[p][n] = NoFile
        /\ \A n \in Node : nodes[n].state # "TRASHED"
    BY DEF Init
  <2>3. Undoable(<<>>)
    BY DEF Undoable
  <2>4. BinsKnown(<<>>) /\ TrashGone(<<>>)
    BY <2>2 DEF BinsKnown, TrashGone
  <2>5. QED
    BY <2>1, <2>3, <2>4 DEF Whole
<1>3. QED
    BY <1>1, <1>2 DEF Tidy

\* When requests are served one at a time, over an index that describes the
\* storage, and nothing outside the program interferes, then whenever no
\* transaction and no undo is under way the rows say where the bytes are, whatever
\* transactions failed and were rolled back and whatever scans, sweeps and purges
\* ran in between.
THEOREM SequentialRowsMatchDisk ==
    ASSUME SingleClient, Client # {}, Settled
    PROVE  Spec => []RowsMatchDisk
<1>1. Init => Tidy
    BY TidyAtStart
<1>2. Typed /\ CascadeInv /\ Tidy /\ [Next]_vars => Tidy'
    BY TidyKeeps DEF CascadeInv
<1>3. Typed /\ Tidy => RowsMatchDisk
  <2> SUFFICES ASSUME Typed, Tidy, mishaps = 0,
                      \A c \in Client : req[c].phase \in {"idle", "pending"},
                      NEW n \in Node
               PROVE  LET p == nodes[n].path
                      IN  /\ nodes[n].state = "ACTIVE" => bin[p][n] = NoFile
                          /\ nodes[n].state = "TRASHED" /\ Kind[p] = "local"
                               => disk[p] = NoFile
    BY DEF RowsMatchDisk
  <2>1. PICK c \in Client : TRUE
    OBVIOUS
  <2>2. BinsKnown(<<>>) /\ TrashGone(<<>>)
    BY <2>1 DEF Tidy, Whole
  <2>3. nodes[n].path \in Path
    BY RowType DEF Typed, TypeOK
  <2>4. QED
    BY <2>2, <2>3 DEF BinsKnown, TrashGone, Has
<1>4. QED
    BY <1>1, <1>2, <1>3, Typing, SequentialInv, PTL DEF Spec

=============================================================================
