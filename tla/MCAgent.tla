------------------------------ MODULE MCAgent ------------------------------
(***************************************************************************)
(* An instance of Agent for TLC: a laptop that copies a raw file into the  *)
(* archive, ties it to an export the server has and deletes it, a phone    *)
(* that names the same bytes, and a Resolve timeline of the laptop's.      *)
(***************************************************************************)
EXTENDS Agent

CONSTANTS laptop, phone, p1, p2, arch, exp, reel, a, b

MCPath == {p1, p2, arch, exp, reel}
MCLocOf == [p \in Path |-> IF p = arch THEN "archive" ELSE IF p = reel THEN "virtual" ELSE "cache"]
MCContent == {a, b}
MCFastOf == [c \in Content |-> IF c = a THEN 1 ELSE 2]

NoRow == [state |-> "NONE", path |-> exp, fast |-> 0, full |-> NoHash, sup |-> 0,
          prov |-> NoProvenance]

\* The server has indexed an export.
MCInitNodes ==
    [n \in 1..MaxNode |-> IF n = 1 THEN [NoRow EXCEPT !.state = "ACTIVE", !.fast = 2] ELSE NoRow]
MCInitDisk == [p \in Path |-> IF p = exp THEN b ELSE NoFile]

\* Every edge of the instance has the export at one end.
MCEdgeKey ==
    {[src |-> 1, dst |-> n, rel |-> r] : n \in 2..MaxNode, r \in {"FINAL_EXPORT", "PROJECT_SIDECAR"}}
    \cup {[src |-> n, dst |-> 1, rel |-> "FINAL_EXPORT"] : n \in 2..MaxNode}
MCInitEdges == [k \in EdgeKey |-> NoEdge]

MCAcceptAt == [t \in 1..3 |-> IF t = 3 THEN 2 ELSE 3]

\* The uuids of the raw, the phone's file and the timeline.
raw == 11
shot == 12
line == 13
MCUuid == {raw, shot, line}

Sent(type, u) ==
    [type |-> type, uuid |-> u, path |-> p1, content |-> a, hashed |-> TRUE,
     src |-> raw, dst |-> 1, rel |-> "FINAL_EXPORT", tier |-> 1, conf |-> 3]

MCScript ==
    [d \in Device |->
        IF d = laptop
          THEN <<{Sent("created", raw)},
                 {Sent("edge", raw), [Sent("moved", raw) EXCEPT !.path = arch],
                  [Sent("virtual", line) EXCEPT !.path = reel]},
                 {Sent("deleted", raw), [Sent("rebased", raw) EXCEPT !.path = p2]}>>
          ELSE <<{[Sent("rebased", shot) EXCEPT !.path = p2]}, {Sent("deleted", shot)}>>]

MCRebases ==
    [d \in Device |-> IF d = laptop THEN {[Sent("rebased", raw) EXCEPT !.path = p2]} ELSE {}]

MCOwnVirtual == [d \in Device |-> IF d = laptop THEN {reel} ELSE {}]

MCSnapshots ==
    {[agent |-> laptop, uuid |-> line, path |-> reel, keep |-> K, guarded |-> {}] : K \in {{}, {1}}}

\* The export's name suggests the raw; the timeline's the export.
MCGuesses == <<[key |-> [src |-> 2, dst |-> 1, rel |-> "FINAL_EXPORT"], tier |-> 2, conf |-> 2]>>
MCManualKey == {[src |-> 1, dst |-> 2, rel |-> "FINAL_EXPORT"]}

MCForeign == {<<arch, a>>, <<p1, b>>}
=============================================================================
