------------------------------ MODULE PushQueue ------------------------------
(***************************************************************************)
(* What the remote sync of internal/sync promises about one remote: a node *)
(* is queued, then settled as pushed or as failed, and it is never settled *)
(* as pushed unless the remote has accepted a scan request since the node  *)
(* was entered.  The queue says nothing of workers, batches or crashes.    *)
(***************************************************************************)
CONSTANT Node

VARIABLES
    status,  \* status[n]: "none", "queued", "pushed" or "failed"
    asked    \* nodes entered before the latest accepted scan request

vars == <<status, asked>>

With(s) == {n \in Node : status[n] = s}

Init == status = [n \in Node |-> "none"] /\ asked = {}

Move(S, s) == status' = [n \in Node |-> IF n \in S THEN s ELSE status[n]]

\* Entering a node, or trying a failed one again.
Queue == \E S \in SUBSET (With("none") \cup With("failed")) :
            Move(S, "queued") /\ UNCHANGED asked

\* The remote accepts a request to scan everything.
Ask == asked' = Node \ With("none") /\ UNCHANGED status

Pushed == \E S \in SUBSET (With("queued") \cap asked) :
            Move(S, "pushed") /\ UNCHANGED asked

Failed == \E S \in SUBSET With("queued") : Move(S, "failed") /\ UNCHANGED asked

\* A trashed node is forgotten; it is entered anew when it is restored.
Forget == \E n \in Node : Move({n}, "none") /\ asked' = asked \ {n}

Next == Queue \/ Ask \/ Pushed \/ Failed \/ Forget

Spec == Init /\ [][Next]_vars
=============================================================================
