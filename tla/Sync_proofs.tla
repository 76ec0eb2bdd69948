----------------------------- MODULE Sync_proofs -----------------------------
(***************************************************************************)
(* Theorems about Sync, for every set of exports, of configurations and    *)
(* every size of the batches: types, what a cancelled worker leaves behind,*)
(* which worker runs, and that the sync implements PushQueue.              *)
(***************************************************************************)
EXTENDS Sync, TLAPS

USE SyncAssumption

----------------------------------------------------------------------------
\* The inductive invariant.

\* A worker holds a batch only while it pushes and settles it.
BatchHeld == worker.phase \notin {"push", "settle"} => worker.batch = {}

\* Only the first request of a drain triggers; the flag ends with the drain.
TriggerHeld == worker.triggered => worker.phase \in {"claim", "push", "settle"}

\* No worker survives its process.
DownIdle == process = "down" => worker.phase = "none"

\* Nobody else touches a claimed row, except that its node may be trashed.
BatchRows == \A n \in worker.batch : row[n].st \in {"PUSHING", "NONE"}

\* Once a request of this drain was accepted, it covers every row: nothing but
\* the worker itself enters rows, and it does so before it claims.
AskedCovers ==
    worker.triggered \/ (worker.phase = "settle" /\ worker.ok) =>
        \A n \in Node : row[n].st # "NONE" => n \in asked

\* A worker is cancelled by a swap that is under way, or with its process.
CancelledWhy == worker.cancelled /\ process = "up" => apply = "join"

\* What Apply has published so far, and what the supervisor has made of it.
Published ==
    /\ apply \in {"notify", "join"} => effective = stored
    /\ apply = "idle" /\ ~unheard => effective = stored
    /\ apply \in {"idle", "reload"} => running = effective

\* Outside a swap, a worker runs exactly if the running configuration is on.
WorkerRuns ==
    process = "up" /\ apply # "join" => (worker.phase = "none" <=> running \in Off)

Control == BatchHeld /\ TriggerHeld /\ DownIdle /\ CancelledWhy /\ Published /\ WorkerRuns

RowsHeld == BatchRows /\ AskedCovers /\ CancelStrandsNothing

Inv == TypeOK /\ Control /\ RowsHeld

----------------------------------------------------------------------------
\* Types.

RowType == row \in [Node -> [st : Status, retry : Nat]]

WorkerSet == [phase : Phase, todo : SUBSET Node, batch : SUBSET Node,
              round : 0..Multiplier - 1, triggered : BOOLEAN,
              tries : 0..TriggerAttempts - 1, ok : BOOLEAN, cancelled : BOOLEAN]

LEMMA Bounds ==
    /\ BatchSize \in Nat \ {0} /\ Multiplier \in Nat \ {0}
    /\ MaxRetries \in Nat \ {0} /\ TriggerAttempts \in Nat \ {0}
    /\ 0 \in 0..Multiplier - 1 /\ 0 \in 0..TriggerAttempts - 1
OBVIOUS

LEMMA FirstWorkers == NoWorker \in WorkerSet /\ Worker \in WorkerSet
<1>1. NoWorker \in WorkerSet
    BY Bounds DEF NoWorker, WorkerSet, Phase
<1>2. QED
    BY <1>1 DEF Worker, WorkerSet, Phase

\* The statements keep the types of the rows.
LEMMA StatementTypes ==
    ASSUME RowType, old \subseteq Node
    PROVE  /\ \A S \in SUBSET Node, s \in Status :
                Upsert(S, s) => RowType' /\ old' \subseteq Node
           /\ \A S \in SUBSET Node : MarkPushed(S) => RowType' /\ old' \subseteq Node
           /\ \A S \in SUBSET Node : MarkFailed(S) => RowType' /\ old' \subseteq Node
           /\ \A S \in SUBSET Node : Requeue(S) => RowType'
<1>1. ASSUME NEW S \in SUBSET Node, NEW s \in Status, Upsert(S, s)
      PROVE  RowType' /\ old' \subseteq Node
    BY <1>1 DEF Upsert, RowType
<1>2. ASSUME NEW S \in SUBSET Node, MarkPushed(S)
      PROVE  RowType' /\ old' \subseteq Node
    BY <1>2 DEF MarkPushed, RowType, Status
<1>3. ASSUME NEW S \in SUBSET Node, MarkFailed(S)
      PROVE  RowType' /\ old' \subseteq Node
  <2> DEFINE hit == S \ Rows("NONE")
  <2>1. /\ row' = [n \in Node |-> IF n \in hit
                     THEN [st |-> "FAILED", retry |-> row[n].retry + 1] ELSE row[n]]
        /\ old' = old \ hit
    BY <1>3 DEF MarkFailed
  <2>2. \A n \in Node : [st |-> "FAILED", retry |-> row[n].retry + 1] \in [st : Status, retry : Nat]
    BY DEF RowType, Status
  <2> HIDE DEF hit
  <2>3. QED
    BY <2>1, <2>2 DEF RowType
<1>4. ASSUME NEW S \in SUBSET Node, Requeue(S)
      PROVE  RowType'
    BY <1>4 DEF Requeue, RowType, Status
<1>5. QED
    BY <1>1, <1>2, <1>3, <1>4

LEMMA InitTypes == Init => TypeOK
<1> SUFFICES ASSUME Init PROVE TypeOK
    OBVIOUS
<1>1. SettingsType /\ running \in Config /\ struck \in BOOLEAN /\ unheard \in BOOLEAN
    BY DEF Init, SettingsType
<1>2. /\ life \in [Node -> {"NONE", "ACTIVE", "TRASHED", "MISSING"}]
      /\ there \subseteq Node /\ old \subseteq Node /\ asked \subseteq Node
      /\ process \in {"up", "stopping", "down"} /\ mishaps \in 0..MaxMishap
    BY DEF Init
<1>3. row \in [Node -> [st : Status, retry : Nat]]
    BY DEF Init, NoRow, Status
<1>4. worker \in WorkerSet
    BY FirstWorkers DEF Init
<1>5. QED
    BY <1>1, <1>2, <1>3, <1>4 DEF TypeOK, WorkerSet

\* Where a worker goes, it remains one.
LEMMA WorkerMoves ==
    ASSUME worker \in WorkerSet
    PROVE  /\ \A phase \in Phase : Go(phase) => worker' \in WorkerSet
           /\ Return => worker' \in WorkerSet
           /\ \A ok \in BOOLEAN : PushEnds(ok) => worker' \in WorkerSet
           /\ NextBatch => worker' \in WorkerSet
           /\ [worker EXCEPT !.cancelled = TRUE] \in WorkerSet
<1>1. ASSUME NEW phase \in Phase, Go(phase) PROVE worker' \in WorkerSet
    BY <1>1 DEF Go, WorkerSet
<1>2. ASSUME Return PROVE worker' \in WorkerSet
    BY <1>2, FirstWorkers DEF Return, WorkerSet, Phase
<1>3. ASSUME NEW ok \in BOOLEAN, PushEnds(ok) PROVE worker' \in WorkerSet
    BY <1>3 DEF PushEnds, WorkerSet, Phase
<1>4. ASSUME NextBatch PROVE worker' \in WorkerSet
  <2>1. CASE Return
    BY <2>1, <1>2
  <2>2. CASE ~Return
    <3>1. /\ worker.round + 1 # Multiplier
          /\ worker' = [worker EXCEPT !.phase = "claim", !.batch = {}, !.triggered = TRUE,
                                      !.round = @ + 1, !.ok = FALSE]
        BY <2>2, <1>4 DEF NextBatch
    <3>2. worker.round + 1 \in 0..Multiplier - 1
        BY <3>1, Bounds DEF WorkerSet
    <3>3. QED
        BY <3>1, <3>2 DEF WorkerSet, Phase
  <2>3. QED
    BY <2>1, <2>2
<1>5. [worker EXCEPT !.cancelled = TRUE] \in WorkerSet
    BY DEF WorkerSet
<1>6. QED
    BY <1>1, <1>2, <1>3, <1>4, <1>5

LEMMA WorkerTypes ==
    ASSUME TypeOK, WorkerStep
    PROVE  /\ RowType' /\ old' \subseteq Node /\ asked' \subseteq Node
           /\ worker' \in WorkerSet /\ mishaps' \in 0..MaxMishap /\ struck' \in BOOLEAN
<1> DEFINE Typed == /\ RowType /\ old \subseteq Node /\ asked \subseteq Node
                    /\ worker \in WorkerSet /\ mishaps \in 0..MaxMishap /\ struck \in BOOLEAN
<1>1. Typed
    BY DEF TypeOK, RowType, WorkerSet
<1>2. InCtx \/ CtxFails \/ OutcomeWritten \/ OutcomeLost \/ UNCHANGED mishaps
         => mishaps' \in 0..MaxMishap
    BY <1>1 DEF InCtx, CtxFails, OutcomeWritten, OutcomeLost, Mishap
<1>3. CASE Recover
  <2>1. Retryable \subseteq Node
    BY DEF Retryable, Rows
  <2>2. RowType'
    BY <1>1, <1>3, <2>1, StatementTypes DEF Recover, RowType
  <2>3. worker' \in WorkerSet
    BY <1>1, <1>3, WorkerMoves DEF Recover, Phase
  <2>4. QED
    BY <1>1, <1>2, <1>3, <2>2, <2>3 DEF Recover
<1>4. CASE List
  <2>1. worker' \in WorkerSet
    <3>1. CASE Go("claim")
        BY <1>1, <3>1, WorkerMoves DEF Phase
    <3>2. CASE \E T \in SUBSET Node : worker' = [worker EXCEPT !.phase = "enqueue", !.todo = T]
        BY <1>1, <3>2 DEF WorkerSet, Phase
    <3>3. Untracked \subseteq Node
        BY DEF Untracked, TypeOK
    <3>4. QED
        BY <1>4, <3>1, <3>2, <3>3 DEF List, FirstOf
  <2>2. QED
    BY <1>1, <1>2, <1>4, <2>1 DEF List, rowVars, RowType
<1>5. CASE EnqueueNext
  <2>1. CASE worker.todo = {}
    BY <1>1, <1>5, <2>1, WorkerMoves DEF EnqueueNext, Phase, RowType
  <2>2. CASE worker.todo # {}
    <3>1. PICK n \in worker.todo :
             Enqueue(n) /\ worker' = [worker EXCEPT !.todo = @ \ {n}]
        BY <1>5, <2>2 DEF EnqueueNext
    <3>2. n \in Node /\ worker' \in WorkerSet
        BY <1>1, <3>1 DEF WorkerSet
    <3>3. RowType' /\ old' \subseteq Node
      <4>1. CASE Upsert({n}, "PENDING")
        BY <1>1, <3>2, <4>1, StatementTypes DEF Status
      <4>2. CASE UNCHANGED <<row, old>>
        BY <1>1, <4>2 DEF RowType
      <4>3. QED
        BY <3>1, <4>1, <4>2 DEF Enqueue
    <3>4. QED
        BY <1>1, <1>2, <1>5, <3>1, <3>2, <3>3 DEF EnqueueNext, Enqueue
  <2>3. QED
    BY <2>1, <2>2
<1>6. CASE Claim
  <2>1. CASE Return /\ UNCHANGED <<row, old>>
    BY <1>1, <1>2, <1>6, <2>1, WorkerMoves DEF Claim, RowType
  <2>2. ASSUME NEW T \in SUBSET Node, Upsert(T, "PUSHING"),
               IF T = {} THEN Return
               ELSE worker' = [worker EXCEPT !.phase = "push", !.batch = T, !.tries = 0]
        PROVE  RowType' /\ old' \subseteq Node /\ worker' \in WorkerSet
    <3>1. RowType' /\ old' \subseteq Node
        BY <1>1, <2>2, StatementTypes DEF Status
    <3>2. worker' \in WorkerSet
        BY <1>1, <2>2, WorkerMoves, Bounds, ZenonT(60) DEF WorkerSet, Phase
    <3>3. QED
        BY <3>1, <3>2
  <2>3. Rows("PENDING") \subseteq Node
    BY DEF Rows
  <2>4. QED
    BY <1>1, <1>2, <1>6, <2>1, <2>2, <2>3 DEF Claim, FirstOf
<1>7. CASE Push
  <2>1. asked' \subseteq Node
    BY <1>1, <1>7 DEF Push, PushEnds, Attempt, Ask
  <2>2. worker' \in WorkerSet
    <3>1. CASE \E ok \in BOOLEAN : PushEnds(ok)
        BY <1>1, <3>1, WorkerMoves
    <3>2. CASE /\ worker.tries + 1 < TriggerAttempts
               /\ worker' = [worker EXCEPT !.tries = @ + 1]
        BY <1>1, <3>2, Bounds DEF WorkerSet
    <3>3. QED
        BY <1>7, <3>1, <3>2 DEF Push, Attempt
  <2>3. QED
    BY <1>1, <1>2, <1>7, <2>1, <2>2 DEF Push, RowType
<1>8. CASE Settle
  <2>1. worker.batch \in SUBSET Node
    BY <1>1 DEF WorkerSet
  <2>2. RowType' /\ old' \subseteq Node
    BY <1>1, <1>8, <2>1, StatementTypes DEF Settle, RowType
  <2>3. worker' \in WorkerSet
    BY <1>1, <1>8, WorkerMoves DEF Settle
  <2>4. QED
    BY <1>1, <1>2, <1>8, <2>2, <2>3 DEF Settle, OutcomeWritten, OutcomeLost
<1>9. CASE Wake
    BY <1>1, <1>9, FirstWorkers DEF Wake, rowVars, RowType
<1>10. QED
    BY <1>3, <1>4, <1>5, <1>6, <1>7, <1>8, <1>9 DEF WorkerStep

LEMMA StartTypes ==
    ASSUME TypeOK, NEW c \in Config, StartWorker(c)
    PROVE  RowType' /\ worker' \in WorkerSet /\ mishaps' \in 0..MaxMishap
<1>1. Stale \subseteq Node /\ RowType /\ old \subseteq Node /\ mishaps \in 0..MaxMishap
    BY DEF Stale, Rows, TypeOK, RowType
<1>2. CASE c \in Off
    BY <1>1, <1>2, FirstWorkers DEF StartWorker, RowType
<1>3. CASE c \notin Off
    BY <1>1, <1>3, FirstWorkers, StatementTypes DEF StartWorker, Mishap, RowType
<1>4. QED
    BY <1>2, <1>3

SettingsOrProcess ==
    ChangeSettings \/ SettingsStep \/ Rescan \/ Shutdown \/ Exit \/ Crash \/ Boot \/ Age

LEMMA ProcessTypes ==
    ASSUME TypeOK, SettingsOrProcess
    PROVE  TypeOK'
<1> USE DEF settingsVars, swapVars, rowVars, nodeVars
<1>1. worker \in WorkerSet /\ RowType
    BY DEF TypeOK, WorkerSet, RowType
<1>2. [worker EXCEPT !.cancelled = TRUE] \in WorkerSet
    BY <1>1, WorkerMoves
<1>3. CASE ChangeSettings
    BY <1>3 DEF ChangeSettings, CommitOverrides, Mishap, TypeOK, SettingsType
<1>4. CASE PublishSettings
  <2>1. SettingsType' /\ unheard' \in BOOLEAN /\ mishaps' \in 0..MaxMishap
    <3>1. SettingsType /\ mishaps \in 0..MaxMishap /\ MaxMishap \in Nat
        BY DEF TypeOK
    <3>2. CASE Publish /\ unheard' = FALSE /\ UNCHANGED mishaps
        BY <3>1, <3>2 DEF Publish, SettingsType
    <3>3. CASE ReloadFails /\ unheard' = TRUE /\ Mishap
        BY <3>1, <3>3 DEF ReloadFails, Mishap, SettingsType
    <3>4. QED
        BY <1>4, <3>2, <3>3 DEF PublishSettings
  <2>2. QED
    BY <1>4, <2>1 DEF PublishSettings, TypeOK
<1>5. CASE Reload
  <2>1. worker' \in WorkerSet
    BY <1>1, <1>2, <1>5 DEF Reload
  <2>2. QED
    BY <1>5, <2>1 DEF Reload, TypeOK, SettingsType, WorkerSet
<1>6. CASE Restart
  <2>1. RowType' /\ worker' \in WorkerSet /\ mishaps' \in 0..MaxMishap
    <3>1. CASE UNCHANGED <<worker, row, mishaps>>
        BY <1>1, <3>1 DEF TypeOK, RowType
    <3>2. CASE StartWorker(effective)
        BY <3>2, StartTypes DEF TypeOK, SettingsType
    <3>3. QED
        BY <1>6, <3>1, <3>2 DEF Restart
  <2>2. QED
    BY <1>6, <2>1 DEF Restart, TypeOK, SettingsType, WorkerSet, RowType
<1>7. CASE Rescan
    BY <1>7 DEF Rescan, Ask, TypeOK, SettingsType
<1>8. CASE Shutdown
  <2>1. worker' \in WorkerSet
    BY <1>1, <1>2, <1>8 DEF Shutdown
  <2>2. QED
    BY <1>8, <2>1 DEF Shutdown, Mishap, TypeOK, SettingsType, WorkerSet
<1>9. CASE Exit
    BY <1>9 DEF Exit, TypeOK, SettingsType
<1>10. CASE Crash
  <2>1. worker' \in WorkerSet
    BY <1>10, FirstWorkers DEF Crash
  <2>2. QED
    BY <1>10, <2>1 DEF Crash, Mishap, TypeOK, SettingsType, WorkerSet
<1>11. CASE Boot
  <2>1. RowType' /\ worker' \in WorkerSet /\ mishaps' \in 0..MaxMishap
    BY <1>11, StartTypes DEF Boot, TypeOK, SettingsType
  <2>2. QED
    BY <1>11, <2>1 DEF Boot, LoadSettings, TypeOK, SettingsType, WorkerSet, RowType
<1>12. CASE Age
    BY <1>12 DEF Age, TypeOK, SettingsType
<1>13. QED
    BY <1>3, <1>4, <1>5, <1>6, <1>7, <1>8, <1>9, <1>10, <1>11, <1>12
    DEF SettingsOrProcess, SettingsStep

NodeStep(n) == Index(n) \/ Trash(n) \/ Untrash(n) \/ Absent(n) \/ Retry(n)

LEMMA NodeTypes ==
    ASSUME TypeOK, NEW n \in Node, NodeStep(n)
    PROVE  TypeOK'
<1> USE DEF settingsVars, swapVars, rowVars, nodeVars
<1>1. CASE Index(n)
    BY <1>1 DEF Index, TypeOK, SettingsType
<1>2. CASE Trash(n)
  <2>1. NoRow \in [st : Status, retry : Nat]
    BY DEF NoRow, Status
  <2>2. RowType' /\ mishaps' \in 0..MaxMishap
    BY <1>2, <2>1 DEF Trash, RowType, TypeOK, Mishap
  <2>3. /\ life' \in [Node -> {"NONE", "ACTIVE", "TRASHED", "MISSING"}]
        /\ there' \subseteq Node /\ old' \subseteq Node /\ asked' \subseteq Node
    BY <1>2 DEF Trash, TypeOK
  <2>4. QED
    BY <1>2, <2>2, <2>3 DEF Trash, RowType, TypeOK, SettingsType
<1>3. CASE Untrash(n)
    BY <1>3 DEF Untrash, TypeOK, SettingsType
<1>4. CASE Absent(n)
  <2>1. /\ life' \in [Node -> {"NONE", "ACTIVE", "TRASHED", "MISSING"}]
        /\ there' \subseteq Node
    BY <1>4 DEF Absent, TypeOK
  <2>2. mishaps' \in 0..MaxMishap
    BY <1>4 DEF Absent, Mishap, TypeOK
  <2>3. QED
    BY <1>4, <2>1, <2>2 DEF Absent, TypeOK, SettingsType
<1>5. CASE Retry(n)
  <2>1. [st |-> "PENDING", retry |-> 0] \in [st : Status, retry : Nat]
    BY DEF Status
  <2>2. RowType' /\ mishaps' \in 0..MaxMishap
    BY <1>5, <2>1 DEF Retry, RowType, TypeOK, Mishap
  <2>3. QED
    BY <1>5, <2>2 DEF Retry, RowType, TypeOK, SettingsType
<1>6. QED
    BY <1>1, <1>2, <1>3, <1>4, <1>5 DEF NodeStep

\* How the proofs below take a step apart.
LEMMA Steps ==
    ASSUME [Next]_vars
    PROVE  \/ WorkerStep \/ SettingsOrProcess \/ (\E n \in Node : NodeStep(n))
           \/ UNCHANGED vars
BY DEF Next, SettingsOrProcess, NodeStep

LEMMA TypeStep == TypeOK /\ [Next]_vars => TypeOK'
<1> SUFFICES ASSUME TypeOK, [Next]_vars PROVE TypeOK'
    OBVIOUS
<1> USE DEF settingsVars, swapVars, rowVars, nodeVars
<1>1. CASE WorkerStep
  <2>1. UNCHANGED <<nodeVars, swapVars, process, unheard>>
    BY <1>1 DEF WorkerStep, Recover, List, EnqueueNext, Claim, Push, Settle, Wake
  <2>2. QED
    BY <1>1, <2>1, WorkerTypes DEF TypeOK, SettingsType, RowType, WorkerSet
<1>2. CASE UNCHANGED vars
    BY <1>2 DEF vars, TypeOK, SettingsType
<1>3. QED
    BY <1>1, <1>2, Steps, ProcessTypes, NodeTypes

\* Every variable keeps its type; in particular a drain never takes more rounds
\* and a request never more attempts than the limits say (worker.go, drain).
THEOREM TypeCorrect == Spec => []TypeOK
BY InitTypes, TypeStep, PTL DEF Spec

----------------------------------------------------------------------------
\* The control of the worker, the supervisor and the settings.

LEMMA InitControl == Init => Control
BY DEF Init, Control, BatchHeld, TriggerHeld, DownIdle, CancelledWhy, Published, WorkerRuns,
       NoWorker, Worker

\* Where a worker's step leaves it.
LEMMA WorkerControl ==
    ASSUME TypeOK, BatchHeld, TriggerHeld, WorkerStep
    PROVE  /\ BatchHeld' /\ TriggerHeld'
           /\ process # "down"
           /\ worker.phase # "none"
           /\ worker'.phase = "none" => worker.cancelled
           /\ worker'.cancelled => worker.cancelled
           /\ UNCHANGED <<nodeVars, swapVars, process, unheard>>
<1> USE DEF settingsVars, swapVars, rowVars, nodeVars
<1>1. worker \in WorkerSet
    BY DEF TypeOK, WorkerSet
<1>2. UNCHANGED <<nodeVars, swapVars, process, unheard>> /\ process # "down"
    BY DEF WorkerStep, Recover, List, EnqueueNext, Claim, Push, Settle, Wake, At
<1>3. CASE Recover
    BY <1>1, <1>2, <1>3 DEF Recover, At, Go, BatchHeld, TriggerHeld, WorkerSet
<1>4. CASE List
    BY <1>1, <1>2, <1>4 DEF List, At, Go, BatchHeld, TriggerHeld, WorkerSet
<1>5. CASE EnqueueNext
    BY <1>1, <1>2, <1>5 DEF EnqueueNext, At, Go, BatchHeld, TriggerHeld, WorkerSet
<1>6. CASE Return /\ At(worker.phase) /\ worker.phase # "none"
    BY <1>1, <1>2, <1>6 DEF Return, Worker, NoWorker, BatchHeld, TriggerHeld, WorkerSet
<1>7. CASE Claim
  <2>1. At("claim") /\ worker.phase = "claim"
    BY <1>7 DEF Claim, At
  <2>2. CASE Return
    BY <1>6, <2>1, <2>2, <1>2 DEF At
  <2>3. CASE \E T \in SUBSET Node :
                worker' = [worker EXCEPT !.phase = "push", !.batch = T, !.tries = 0]
    BY <1>1, <1>2, <2>1, <2>3 DEF BatchHeld, TriggerHeld, WorkerSet
  <2>4. Rows("PENDING") \subseteq Node
    BY DEF Rows
  <2>5. QED
    BY <1>7, <2>2, <2>3, <2>4 DEF Claim, FirstOf
<1>8. CASE Push
    BY <1>1, <1>2, <1>8, ZenonT(60) DEF Push, At, Attempt, PushEnds, BatchHeld, TriggerHeld, WorkerSet
<1>9. CASE Settle
  <2>1. At("settle") /\ worker.phase = "settle"
    BY <1>9 DEF Settle, At
  <2>2. CASE Return
    BY <1>6, <2>1, <2>2, <1>2 DEF At
  <2>3. CASE NextBatch
    BY <1>1, <1>2, <2>1, <2>2, <2>3, ZenonT(60) DEF NextBatch, BatchHeld, TriggerHeld, WorkerSet
  <2>4. QED
    BY <1>9, <2>2, <2>3 DEF Settle
<1>10. CASE Wake
    BY <1>1, <1>2, <1>10 DEF Wake, At, Worker, NoWorker, BatchHeld, TriggerHeld
<1>11. QED
    BY <1>3, <1>4, <1>5, <1>7, <1>8, <1>9, <1>10 DEF WorkerStep

\* What the start of a worker makes of it.
LEMMA StartControl ==
    ASSUME NEW c \in Config, StartWorker(c)
    PROVE  /\ worker' = IF c \in Off THEN NoWorker ELSE Worker
           /\ worker'.phase = "none" <=> c \in Off
           /\ worker'.batch = {} /\ ~worker'.triggered /\ ~worker'.cancelled
           /\ worker'.phase # "settle"
<1>1. worker' = IF c \in Off THEN NoWorker ELSE Worker
    BY DEF StartWorker
<1>2. QED
    BY <1>1 DEF NoWorker, Worker

LEMMA ControlStep ==
    ASSUME TypeOK, Control, [Next]_vars
    PROVE  Control'
<1> USE DEF settingsVars, swapVars, rowVars, nodeVars, Control
<1>1. worker \in WorkerSet /\ stored \in Config /\ effective \in Config
    BY DEF TypeOK, WorkerSet, SettingsType
<1>2. CASE WorkerStep
    BY <1>2, WorkerControl DEF DownIdle, CancelledWhy, Published, WorkerRuns
<1>3. CASE \E n \in Node : NodeStep(n)
    BY <1>3 DEF NodeStep, Index, Trash, Untrash, Absent, Retry, BatchHeld, TriggerHeld,
                DownIdle, CancelledWhy, Published, WorkerRuns
<1>4. CASE ChangeSettings
    BY <1>4 DEF ChangeSettings, CommitOverrides, BatchHeld, TriggerHeld, DownIdle,
                CancelledWhy, Published, WorkerRuns
<1>5. CASE PublishSettings
    BY <1>5 DEF PublishSettings, Publish, ReloadFails, BatchHeld, TriggerHeld, DownIdle,
                CancelledWhy, Published, WorkerRuns
<1>6. CASE Reload
    BY <1>1, <1>6 DEF Reload, BatchHeld, TriggerHeld, DownIdle, CancelledWhy, Published,
                      WorkerRuns, WorkerSet
<1>7. CASE Restart
  <2>1. CASE process = "stopping"
    BY <1>7, <2>1 DEF Restart, BatchHeld, TriggerHeld, DownIdle, CancelledWhy, Published,
                      WorkerRuns
  <2>2. CASE process # "stopping"
    BY <1>1, <1>7, <2>2, StartControl
    DEF Restart, BatchHeld, TriggerHeld, DownIdle, CancelledWhy, Published, WorkerRuns
  <2>3. QED
    BY <2>1, <2>2
<1>8. CASE Rescan \/ Age \/ Exit \/ UNCHANGED vars
    BY <1>8 DEF Rescan, Age, Exit, vars, BatchHeld, TriggerHeld, DownIdle, CancelledWhy,
                Published, WorkerRuns
<1>9. CASE Shutdown
    BY <1>1, <1>9 DEF Shutdown, BatchHeld, TriggerHeld, DownIdle, CancelledWhy, Published,
                      WorkerRuns, WorkerSet
<1>10. CASE Crash
    BY <1>10 DEF Crash, NoWorker, BatchHeld, TriggerHeld, DownIdle, CancelledWhy, Published,
                 WorkerRuns
<1>11. CASE Boot
    BY <1>1, <1>11, StartControl
    DEF Boot, LoadSettings, BatchHeld, TriggerHeld, DownIdle, CancelledWhy, Published,
        WorkerRuns
<1>12. QED
    BY <1>2, <1>3, <1>4, <1>5, <1>6, <1>7, <1>8, <1>9, <1>10, <1>11, Steps
    DEF SettingsOrProcess, SettingsStep

----------------------------------------------------------------------------
\* The rows, the batch that claims some of them, and what the remote was asked.

\* What the statements make of each row.
LEMMA StatementRows ==
    ASSUME RowType, NEW n \in Node
    PROVE  /\ \A S, s : Upsert(S, s) => row'[n].st = IF n \in S THEN s ELSE row[n].st
           /\ \A S : MarkPushed(S) =>
                row'[n].st = IF n \in S /\ row[n].st # "NONE" THEN "PUSHED" ELSE row[n].st
           /\ \A S : MarkFailed(S) =>
                row'[n].st = IF n \in S /\ row[n].st # "NONE" THEN "FAILED" ELSE row[n].st
           /\ \A S : Requeue(S) => row'[n].st = IF n \in S THEN "PENDING" ELSE row[n].st
<1>1. ASSUME NEW S, NEW s, Upsert(S, s)
      PROVE  row'[n].st = IF n \in S THEN s ELSE row[n].st
    BY <1>1 DEF Upsert, RowType
<1>2. ASSUME NEW S, MarkPushed(S)
      PROVE  row'[n].st = IF n \in S /\ row[n].st # "NONE" THEN "PUSHED" ELSE row[n].st
    BY <1>2 DEF MarkPushed, RowType, Rows
<1>3. ASSUME NEW S, MarkFailed(S)
      PROVE  row'[n].st = IF n \in S /\ row[n].st # "NONE" THEN "FAILED" ELSE row[n].st
    BY <1>3 DEF MarkFailed, RowType, Rows
<1>4. ASSUME NEW S, Requeue(S)
      PROVE  row'[n].st = IF n \in S THEN "PENDING" ELSE row[n].st
    BY <1>4 DEF Requeue, RowType
<1>5. QED
    BY <1>1, <1>2, <1>3, <1>4

LEMMA InitRows == Init => RowsHeld
BY DEF Init, RowsHeld, BatchRows, AskedCovers, CancelStrandsNothing, Orphaned, NoWorker,
       Worker, NoRow

LEMMA WorkerRows ==
    ASSUME Inv, WorkerStep
    PROVE  RowsHeld'
<1> USE DEF rowVars, RowsHeld, BatchRows, AskedCovers, CancelStrandsNothing, Orphaned
<1>1. /\ worker \in WorkerSet /\ RowType /\ BatchHeld /\ TriggerHeld
      /\ RowsHeld /\ worker.batch \subseteq Node
    BY DEF Inv, Control, TypeOK, WorkerSet, RowType
<1>2. CASE Recover
  <2>1. \A n \in Node : row'[n].st \in {row[n].st, "PENDING"}
                        /\ (row'[n].st # row[n].st => row[n].st = "FAILED")
    BY <1>1, <1>2, StatementRows DEF Recover, Retryable, Rows
  <2>2. worker.phase = "recover" /\ worker.batch = {} /\ ~worker.triggered
    BY <1>1, <1>2 DEF Recover, At, BatchHeld, TriggerHeld
  <2>3. worker' = [worker EXCEPT !.phase = "list"] /\ asked' = asked /\ struck' = struck
    BY <1>2 DEF Recover, Go
  <2>4. worker'.batch = {} /\ ~worker'.triggered /\ worker'.phase = "list"
    BY <1>1, <2>2, <2>3 DEF WorkerSet
  <2>5. QED
    BY <1>1, <2>1, <2>2, <2>3, <2>4
<1>3. CASE List
  <2>1. worker.phase = "list" /\ worker.batch = {} /\ ~worker.triggered
    BY <1>1, <1>3 DEF List, At, BatchHeld, TriggerHeld
  <2>2. worker'.batch = {} /\ ~worker'.triggered /\ worker'.phase \in {"enqueue", "claim"}
    BY <1>1, <1>3, <2>1 DEF List, Go, WorkerSet
  <2>3. QED
    BY <1>1, <1>3, <2>1, <2>2 DEF List
<1>4. CASE EnqueueNext
  <2>1. worker.phase = "enqueue" /\ worker.batch = {} /\ ~worker.triggered
    BY <1>1, <1>4 DEF EnqueueNext, At, BatchHeld, TriggerHeld
  <2>2. worker'.batch = {} /\ ~worker'.triggered /\ worker'.phase \in {"enqueue", "claim"}
    BY <1>1, <1>4, <2>1 DEF EnqueueNext, Go, WorkerSet
  <2>3. \A n \in Node : row'[n].st \in {row[n].st, "PENDING"}
    <3>1. UNCHANGED row \/ \E k \in Node : Upsert({k}, "PENDING")
        BY <1>1, <1>4 DEF EnqueueNext, Enqueue, WorkerSet
    <3>2. QED
        BY <1>1, <3>1, StatementRows
  <2>4. QED
    BY <1>1, <1>4, <2>1, <2>2, <2>3 DEF EnqueueNext
<1>5. CASE Claim
  <2>1. worker.phase = "claim" /\ worker.batch = {}
    BY <1>1, <1>5 DEF Claim, At, BatchHeld
  <2>2. asked' = asked /\ struck' = struck
    BY <1>5 DEF Claim
  <2>3. CASE Return /\ UNCHANGED <<row, old>>
    BY <1>1, <2>1, <2>2, <2>3 DEF Return, Worker, NoWorker
  <2>4. ASSUME NEW T \in SUBSET Rows("PENDING"), Upsert(T, "PUSHING"),
               IF T = {} THEN Return
               ELSE worker' = [worker EXCEPT !.phase = "push", !.batch = T, !.tries = 0]
        PROVE  RowsHeld'
    <3>1. \A n \in Node : row'[n].st = IF n \in T THEN "PUSHING" ELSE row[n].st
        BY <1>1, <2>4, StatementRows
    <3>2. \A n \in T : n \in Node /\ row[n].st = "PENDING"
        BY <2>4 DEF Rows
    <3>3. worker'.batch = T /\ worker'.phase # "settle"
          /\ (worker'.triggered => worker.triggered)
        BY <1>1, <2>1, <2>4, ZenonT(60) DEF Return, Worker, NoWorker, WorkerSet
    <3>4. QED
        BY <1>1, <2>1, <2>2, <3>1, <3>2, <3>3
  <2>5. QED
    BY <1>5, <2>3, <2>4 DEF Claim, FirstOf
<1>6. CASE Push
  <2>1. worker.phase = "push" /\ UNCHANGED <<row, struck>>
    BY <1>6 DEF Push, At
  <2>2. worker'.batch = worker.batch /\ worker'.triggered = worker.triggered
    BY <1>1, <1>6 DEF Push, Attempt, PushEnds, WorkerSet
  <2>3. CASE worker.triggered
    BY <1>1, <1>6, <2>1, <2>2, <2>3 DEF Push
  <2>4. CASE ~worker.triggered /\ Ask
    BY <1>1, <2>1, <2>2, <2>4 DEF Ask, Rows
  <2>5. CASE ~worker.triggered /\ worker'.phase # "settle"
    BY <1>1, <2>1, <2>2, <2>5
  <2>6. CASE ~worker.triggered /\ PushEnds(FALSE)
    <3>1. ~worker'.ok
        BY <1>1, <2>6 DEF PushEnds, WorkerSet
    <3>2. QED
        BY <1>1, <2>1, <2>2, <2>6, <3>1
  <2>7. QED
    BY <1>1, <1>6, <2>1, <2>3, <2>4, <2>5, <2>6 DEF Push, Attempt, WorkerSet
<1>7. CASE Settle
  <2>1. worker.phase = "settle" /\ asked' = asked
    BY <1>7 DEF Settle, At
  <2>2. worker'.batch = {} /\ worker'.phase # "settle" /\ (worker'.triggered => worker.ok)
    <3>1. CASE Return
        BY <3>1 DEF Return, Worker, NoWorker
    <3>2. CASE ~Return
      <4>1. /\ worker.ok
            /\ worker' = [worker EXCEPT !.phase = "claim", !.batch = {}, !.triggered = TRUE,
                                        !.round = @ + 1, !.ok = FALSE]
        BY <1>7, <3>2 DEF Settle, NextBatch
      <4>2. QED
        BY <1>1, <4>1 DEF WorkerSet
    <3>3. QED
        BY <3>1, <3>2
  <2>3. \A n \in Node : row'[n].st # "NONE" => row[n].st # "NONE"
    BY <1>1, <1>7, StatementRows DEF Settle
  <2>4. CASE OutcomeWritten
    <3>1. MarkPushed(worker.batch) \/ MarkFailed(worker.batch)
          \/ (struck' /\ UNCHANGED row)
        BY <1>7 DEF Settle, OutcomeLost
    <3>2. ASSUME NEW n \in Node, row'[n].st = "PUSHING"
          PROVE  struck' \/ (row[n].st = "PUSHING" /\ n \notin worker.batch)
      <4>1. CASE MarkPushed(worker.batch)
        BY <1>1, <3>2, <4>1, StatementRows
      <4>2. CASE MarkFailed(worker.batch)
        BY <1>1, <3>2, <4>2, StatementRows
      <4>3. QED
        BY <3>1, <4>1, <4>2
    <3>3. QED
        BY <1>1, <2>1, <2>2, <2>3, <2>4, <3>2 DEF OutcomeWritten
  <2>5. CASE struck' = TRUE
    BY <1>1, <2>1, <2>2, <2>3, <2>5
  <2>6. QED
    BY <1>7, <2>4, <2>5 DEF Settle, OutcomeLost
<1>8. CASE Wake
  <2>1. worker.batch = {} /\ UNCHANGED <<row, asked, struck>>
    BY <1>1, <1>8 DEF Wake, At, BatchHeld
  <2>2. worker'.batch = {} /\ worker'.phase # "settle" /\ ~worker'.triggered
    BY <1>8 DEF Wake, Worker, NoWorker
  <2>3. QED
    BY <1>1, <2>1, <2>2
<1>9. QED
    BY <1>2, <1>3, <1>4, <1>5, <1>6, <1>7, <1>8 DEF WorkerStep

\* A step that leaves the worker's batch and flags alone, and enters no row.
LEMMA OtherRows ==
    ASSUME RowsHeld,
           worker'.batch = worker.batch, worker'.triggered = worker.triggered,
           worker'.phase = worker.phase, worker'.ok = worker.ok,
           struck' = struck,
           \A n \in Node : row'[n].st = row[n].st \/ row'[n].st = "NONE"
                           \/ (row'[n].st = "PENDING" /\ row[n].st = "FAILED"),
           \A n \in Node : row'[n].st # "NONE" /\ n \in asked => n \in asked',
           worker.batch \subseteq Node
    PROVE  RowsHeld'
BY DEF RowsHeld, BatchRows, AskedCovers, CancelStrandsNothing, Orphaned

\* A step after which no worker holds anything.
LEMMA EmptyHanded ==
    ASSUME RowsHeld, worker.batch = {} \/ struck',
           worker'.batch = {}, ~worker'.triggered, worker'.phase # "settle",
           struck => struck',
           \A n \in Node : row'[n].st = "PUSHING" => row[n].st = "PUSHING"
    PROVE  RowsHeld'
BY DEF RowsHeld, BatchRows, AskedCovers, CancelStrandsNothing, Orphaned

LEMMA ProcessRows ==
    ASSUME Inv, SettingsOrProcess
    PROVE  RowsHeld'
<1> USE DEF rowVars, swapVars, settingsVars, nodeVars
<1>1. /\ worker \in WorkerSet /\ RowType /\ Control /\ RowsHeld
      /\ worker.batch \subseteq Node
    BY DEF Inv, TypeOK, WorkerSet, RowType
<1>2. CASE ChangeSettings \/ PublishSettings \/ Exit \/ Age
    BY <1>1, <1>2, OtherRows DEF ChangeSettings, PublishSettings, Exit, Age
<1>3. CASE Reload \/ Shutdown
  <2>1. worker' \in {worker, [worker EXCEPT !.cancelled = TRUE]}
    BY <1>3 DEF Reload, Shutdown
  <2>2. /\ worker'.batch = worker.batch /\ worker'.triggered = worker.triggered
        /\ worker'.phase = worker.phase /\ worker'.ok = worker.ok
    BY <1>1, <2>1 DEF WorkerSet
  <2>3. QED
    BY <1>1, <1>3, <2>2, OtherRows DEF Reload, Shutdown
<1>4. CASE Restart
  <2>1. worker.batch = {} /\ struck' = struck
    BY <1>1, <1>4 DEF Restart, Control, BatchHeld
  <2>2. CASE process = "stopping"
    BY <1>1, <1>4, <2>2, OtherRows DEF Restart
  <2>3. CASE process # "stopping"
    <3>1. StartWorker(effective) /\ effective \in Config
        BY <1>4, <2>3 DEF Restart, Inv, TypeOK, SettingsType
    <3>2. \A n \in Node : row'[n].st = "PUSHING" => row[n].st = "PUSHING"
        BY <1>1, <3>1, StatementRows DEF StartWorker
    <3>3. QED
        BY <1>1, <2>1, <3>1, <3>2, StartControl, EmptyHanded
  <2>4. QED
    BY <2>2, <2>3
<1>5. CASE Rescan
    BY <1>1, <1>5, OtherRows DEF Rescan, Ask, Rows
<1>6. CASE Crash
    BY <1>1, <1>6, EmptyHanded DEF Crash, NoWorker
<1>7. CASE Boot
  <2>1. worker.batch = {} /\ struck' = struck
    BY <1>1, <1>7 DEF Boot, Control, BatchHeld, DownIdle
  <2>2. StartWorker(stored) /\ stored \in Config
    BY <1>7 DEF Boot, Inv, TypeOK, SettingsType
  <2>3. \A n \in Node : row'[n].st = "PUSHING" => row[n].st = "PUSHING"
    BY <1>1, <2>2, StatementRows DEF StartWorker
  <2>4. QED
    BY <1>1, <2>1, <2>2, <2>3, StartControl, EmptyHanded
<1>8. QED
    BY <1>2, <1>3, <1>4, <1>5, <1>6, <1>7 DEF SettingsOrProcess, SettingsStep

LEMMA NodeRows ==
    ASSUME Inv, NEW n \in Node, NodeStep(n)
    PROVE  RowsHeld'
<1> USE DEF rowVars, swapVars, settingsVars, nodeVars
<1>1. RowType /\ RowsHeld /\ worker.batch \subseteq Node
    BY DEF Inv, TypeOK, RowType
<1>2. CASE Trash(n) \/ Retry(n)
  <2>1. \A m \in Node : row'[m].st = row[m].st \/ row'[m].st = "NONE"
                        \/ (row'[m].st = "PENDING" /\ row[m].st = "FAILED")
    BY <1>1, <1>2 DEF Trash, Retry, NoRow, RowType
  <2>2. \A m \in Node : row'[m].st # "NONE" /\ m \in asked => m \in asked'
    BY <1>1, <1>2 DEF Trash, Retry, NoRow, RowType
  <2>3. QED
    BY <1>1, <1>2, <2>1, <2>2, OtherRows DEF Trash, Retry
<1>3. CASE Index(n) \/ Untrash(n) \/ Absent(n)
    BY <1>1, <1>3, OtherRows DEF Index, Untrash, Absent
<1>4. QED
    BY <1>2, <1>3 DEF NodeStep

LEMMA Invariance == Spec => []Inv
<1>1. Init => Inv
    BY InitTypes, InitControl, InitRows DEF Inv
<1>2. Inv /\ [Next]_vars => Inv'
  <2> SUFFICES ASSUME Inv, [Next]_vars PROVE Inv'
    OBVIOUS
  <2>1. TypeOK' /\ Control'
    BY TypeStep, ControlStep DEF Inv
  <2>2. RowsHeld'
    <3>1. CASE UNCHANGED vars
        BY <3>1, OtherRows DEF vars, rowVars, Inv, TypeOK
    <3>2. QED
        BY <3>1, Steps, WorkerRows, ProcessRows, NodeRows
  <2>3. QED
    BY <2>1, <2>2 DEF Inv
<1>3. QED
    BY <1>1, <1>2, PTL DEF Spec

\* Whatever reloads, shutdowns and trashing do in the middle of a push, a PUSHING
\* row that no worker will settle is the work of a crash or of a lost outcome
\* write (manager.go, setBatchStatus writes on a detached context).
THEOREM StrandsNothing == Spec => []CancelStrandsNothing
BY Invariance, PTL DEF Inv, RowsHeld

\* Between two settings requests the worker that runs is the stored one, or none
\* if that is off, unless a reload failed (supervisor.go, Reload and startLocked).
THEOREM FollowsSettings == Spec => []WorkerFollowsSettings
<1>1. Inv => WorkerFollowsSettings
    BY DEF Inv, Control, Published, WorkerRuns, WorkerFollowsSettings
<1>2. QED
    BY <1>1, Invariance, PTL

----------------------------------------------------------------------------
\* The sync implements PushQueue.

LEMMA Mapping ==
    /\ QueueStatus("NONE") = "none" /\ QueueStatus("PENDING") = "queued"
    /\ QueueStatus("PUSHING") = "queued" /\ QueueStatus("PUSHED") = "pushed"
    /\ QueueStatus("FAILED") = "failed"
BY DEF QueueStatus

\* A step of the queue, read off the rows.
LEMMA MovesRows ==
    ASSUME NEW S \in SUBSET Node, NEW s,
           \A n \in Node : QueueStatus(row'[n].st) = IF n \in S THEN s
                                                     ELSE QueueStatus(row[n].st)
    PROVE  Queue!Move(S, s)
BY DEF Queue!Move

LEMMA WithRows ==
    ASSUME RowType
    PROVE  /\ Queue!With("none") = {n \in Node : row[n].st = "NONE"}
           /\ Queue!With("queued") = {n \in Node : row[n].st \in {"PENDING", "PUSHING"}}
           /\ Queue!With("failed") = {n \in Node : row[n].st = "FAILED"}
<1>1. \A n \in Node : row[n].st \in Status
    BY DEF RowType
<1>2. \A s : Queue!With(s) = {n \in Node : QueueStatus(row[n].st) = s}
    BY DEF Queue!With
<1>3. \A st \in Status : /\ QueueStatus(st) = "none" <=> st = "NONE"
                         /\ QueueStatus(st) = "queued" <=> st \in {"PENDING", "PUSHING"}
                         /\ QueueStatus(st) = "failed" <=> st = "FAILED"
    BY Mapping DEF Status
<1>4. QED
    BY <1>1, <1>2, <1>3

LEMMA QueueStutters ==
    ASSUME \A n \in Node : QueueStatus(row'[n].st) = QueueStatus(row[n].st), asked' = asked
    PROVE  UNCHANGED Queue!vars
BY DEF Queue!vars

\* Rows entered, or failed ones tried again; or neither.
LEMMA QueueEnters ==
    ASSUME RowType, asked' = asked,
           \A n \in Node : \/ row'[n].st = row[n].st
                           \/ row[n].st \in {"NONE", "FAILED"} /\ row'[n].st = "PENDING"
    PROVE  Queue!Queue
<1> DEFINE S == {n \in Node : row'[n].st # row[n].st}
<1>1. \A n \in Node : QueueStatus(row'[n].st) = IF n \in S THEN "queued"
                                                ELSE QueueStatus(row[n].st)
    BY Mapping
<1>2. Queue!Move(S, "queued")
    BY <1>1, MovesRows
<1>3. S \subseteq Queue!With("none") \cup Queue!With("failed")
    BY WithRows
<1>4. QED
    BY <1>2, <1>3 DEF Queue!Queue

LEMMA QueueInit == Init => Queue!Init
<1> SUFFICES ASSUME Init PROVE Queue!Init
    OBVIOUS
<1>1. \A n \in Node : row[n].st = "NONE"
    BY DEF Init, NoRow
<1>2. QED
    BY <1>1, Mapping DEF Init, Queue!Init

LEMMA WorkerImplements ==
    ASSUME Inv, Inv', WorkerStep
    PROVE  [Queue!Next]_(Queue!vars)
<1> USE DEF rowVars, swapVars, settingsVars, nodeVars
<1>1. /\ worker \in WorkerSet /\ RowType /\ worker.batch \subseteq Node
      /\ BatchRows /\ AskedCovers
    BY DEF Inv, RowsHeld, TypeOK, WorkerSet, RowType
<1>2. CASE Recover
  <2>1. \A n \in Node : \/ row'[n].st = row[n].st
                        \/ row[n].st \in {"NONE", "FAILED"} /\ row'[n].st = "PENDING"
    BY <1>1, <1>2, StatementRows DEF Recover, Retryable, Rows
  <2>2. QED
    BY <1>1, <1>2, <2>1, QueueEnters DEF Recover, Queue!Next
<1>3. CASE List \/ Wake
    BY <1>3, QueueStutters DEF List, Wake
<1>4. CASE EnqueueNext
  <2>1. UNCHANGED row \/ \E k \in Node : row[k].st \in {"NONE", "FAILED"} /\ Upsert({k}, "PENDING")
    BY <1>1, <1>4 DEF EnqueueNext, Enqueue, WorkerSet
  <2>2. \A n \in Node : \/ row'[n].st = row[n].st
                        \/ row[n].st \in {"NONE", "FAILED"} /\ row'[n].st = "PENDING"
    <3>1. CASE UNCHANGED row
        BY <3>1
    <3>2. ASSUME NEW k \in Node, row[k].st \in {"NONE", "FAILED"}, Upsert({k}, "PENDING"),
                 NEW n \in Node
          PROVE  \/ row'[n].st = row[n].st
                 \/ row[n].st \in {"NONE", "FAILED"} /\ row'[n].st = "PENDING"
      <4>1. row'[n].st = IF n \in {k} THEN "PENDING" ELSE row[n].st
        BY <1>1, <3>2, StatementRows
      <4>2. QED
        BY <3>2, <4>1
    <3>3. QED
        BY <2>1, <3>1, <3>2
  <2>3. QED
    BY <1>1, <1>4, <2>2, QueueEnters DEF EnqueueNext, Queue!Next
<1>5. CASE Claim
  <2>1. UNCHANGED row \/ \E T \in SUBSET Rows("PENDING") : Upsert(T, "PUSHING")
    BY <1>5 DEF Claim, FirstOf
  <2>2. \A n \in Node : \/ row'[n].st = row[n].st
                        \/ row[n].st = "PENDING" /\ row'[n].st = "PUSHING"
    BY <1>1, <2>1, StatementRows DEF Rows
  <2>3. \A n \in Node : QueueStatus(row'[n].st) = QueueStatus(row[n].st)
    BY <2>2, Mapping
  <2>4. QED
    BY <1>5, <2>3, QueueStutters DEF Claim
<1>6. CASE Push
  <2>1. row' = row
    BY <1>6 DEF Push
  <2>2. CASE UNCHANGED asked
    BY <2>1, <2>2, QueueStutters
  <2>3. CASE Ask
    <3>1. asked' = Node \ Queue!With("none")
        BY <1>1, <2>3, WithRows DEF Ask, Rows
    <3>2. QED
        BY <2>1, <3>1 DEF Queue!Ask, Queue!Next
  <2>4. QED
    BY <1>6, <2>2, <2>3 DEF Push, Attempt
<1>7. CASE Settle
  <2>1. asked' = asked
    BY <1>7 DEF Settle
  <2> DEFINE hit == {n \in worker.batch : row[n].st # "NONE"}
  <2>2. \A n \in hit : n \in Node /\ row[n].st = "PUSHING"
    BY <1>1 DEF BatchRows
  <2>3. CASE worker.ok /\ MarkPushed(worker.batch)
    <3>1. \A n \in Node : QueueStatus(row'[n].st) = IF n \in hit THEN "pushed"
                                                   ELSE QueueStatus(row[n].st)
        BY <1>1, <2>3, StatementRows, Mapping
    <3>2. Queue!Move(hit, "pushed")
        BY <2>2, <3>1, MovesRows
    <3>3. hit \subseteq asked
        BY <1>1, <1>7, <2>2, <2>3 DEF AskedCovers, Settle, At
    <3>4. hit \subseteq Queue!With("queued")
        BY <1>1, <2>2, WithRows
    <3>5. QED
        BY <2>1, <3>2, <3>3, <3>4 DEF Queue!Pushed, Queue!Next
  <2>4. CASE MarkFailed(worker.batch)
    <3>1. \A n \in Node : QueueStatus(row'[n].st) = IF n \in hit THEN "failed"
                                                   ELSE QueueStatus(row[n].st)
        BY <1>1, <2>4, StatementRows, Mapping
    <3>2. Queue!Move(hit, "failed")
        BY <2>2, <3>1, MovesRows
    <3>3. hit \subseteq Queue!With("queued")
        BY <1>1, <2>2, WithRows
    <3>4. QED
        BY <2>1, <3>2, <3>3 DEF Queue!Failed, Queue!Next
  <2>5. CASE UNCHANGED row
    BY <2>1, <2>5, QueueStutters
  <2>6. QED
    BY <1>7, <2>3, <2>4, <2>5 DEF Settle
<1>8. QED
    BY <1>2, <1>3, <1>4, <1>5, <1>6, <1>7 DEF WorkerStep

LEMMA OthersImplement ==
    ASSUME Inv, SettingsOrProcess \/ (\E n \in Node : NodeStep(n))
    PROVE  [Queue!Next]_(Queue!vars)
<1> USE DEF rowVars, swapVars, settingsVars, nodeVars
<1>1. RowType /\ asked \subseteq Node
    BY DEF Inv, TypeOK, RowType
<1>2. ASSUME StartWorker(stored) \/ StartWorker(effective) \/ UNCHANGED row, asked' = asked
      PROVE  UNCHANGED Queue!vars
  <2>1. UNCHANGED row \/ Requeue(Stale)
    BY <1>2 DEF StartWorker
  <2>2. \A n \in Node : \/ row'[n].st = row[n].st
                        \/ row[n].st = "PUSHING" /\ row'[n].st = "PENDING"
    BY <1>1, <2>1, StatementRows DEF Stale, Rows
  <2>3. QED
    BY <1>2, <2>2, Mapping, QueueStutters
<1>3. CASE SettingsOrProcess /\ ~Rescan
    BY <1>2, <1>3
    DEF SettingsOrProcess, ChangeSettings, SettingsStep, PublishSettings, Reload, Restart,
        Shutdown, Exit, Crash, Boot, Age
<1>4. CASE Rescan
  <2>1. asked' = Node \ Queue!With("none")
    BY <1>1, <1>4, WithRows DEF Rescan, Ask, Rows
  <2>2. QED
    BY <1>4, <2>1 DEF Rescan, Queue!Ask, Queue!Next
<1>5. ASSUME NEW n \in Node, NodeStep(n)
      PROVE  [Queue!Next]_(Queue!vars)
  <2>1. CASE Trash(n)
    <3>1. \A m \in Node : QueueStatus(row'[m].st) = IF m \in {n} THEN "none"
                                                   ELSE QueueStatus(row[m].st)
        BY <1>1, <2>1, Mapping DEF Trash, NoRow, RowType
    <3>2. Queue!Move({n}, "none")
        BY <3>1, MovesRows
    <3>3. QED
        BY <2>1, <3>2 DEF Trash, Queue!Forget, Queue!Next
  <2>2. CASE Retry(n)
    <3>1. \A m \in Node : \/ row'[m].st = row[m].st
                          \/ row[m].st \in {"NONE", "FAILED"} /\ row'[m].st = "PENDING"
        BY <1>1, <2>2 DEF Retry, RowType
    <3>2. QED
        BY <1>1, <2>2, <3>1, QueueEnters DEF Retry, Queue!Next
  <2>3. CASE Index(n) \/ Untrash(n) \/ Absent(n)
    BY <2>3, QueueStutters DEF Index, Untrash, Absent
  <2>4. QED
    BY <1>5, <2>1, <2>2, <2>3 DEF NodeStep
<1>6. QED
    BY <1>3, <1>4, <1>5

\* A row is marked pushed only after the remote has accepted a scan requested
\* since the row was made: the sync with its sub-batches, retries, restarts and
\* crashes implements the queue (worker.go, drain; manager.go, ProcessPending).
THEOREM ImplementsQueue == Spec => PushesImplementQueue
<1>1. Inv /\ Inv' /\ [Next]_vars => [Queue!Next]_(Queue!vars)
  <2> SUFFICES ASSUME Inv, Inv', [Next]_vars PROVE [Queue!Next]_(Queue!vars)
    OBVIOUS
  <2>1. CASE UNCHANGED vars
    BY <2>1, QueueStutters DEF vars, rowVars
  <2>2. QED
    BY <2>1, Steps, WorkerImplements, OthersImplement
<1>2. QED
    BY <1>1, QueueInit, Invariance, PTL DEF Spec, PushesImplementQueue, Queue!Spec
=============================================================================
