----------------------------- MODULE MCUpkeep -----------------------------
(***************************************************************************)
(* An instance of Upkeep for TLC: a raw on the archive whose hash a device *)
(* asserted, and an uploaded proxy made from it.  The jobs run in several  *)
(* mixes, so that they add up instead of multiplying.                      *)
(***************************************************************************)
EXTENDS Upkeep

CONSTANTS raw, copy, proxy, a, b, t, x, i1, i2

MCPath == {raw, copy, proxy}
MCLocOf == [p \in Path |-> IF p = proxy THEN "cache" ELSE "archive"]

\* b is a damaged a of the same fast hash; t is x with tags.
MCContent == {a, b, x, t}
MCFastOf == [c \in Content |-> IF c \in {a, b} THEN 1 ELSE IF c = x THEN 2 ELSE 3]
MCTagged == [c \in Content |-> IF c = x THEN t ELSE c]

NoRow == [state |-> "NONE", path |-> proxy, fast |-> 1, full |-> NoHash, sup |-> 0,
          prov |-> NoProvenance]

MCInitNodes ==
    [n \in 1..MaxNode |->
        CASE n = 1 -> [state |-> "ACTIVE", path |-> raw, fast |-> 1, full |-> a, sup |-> 0,
                       prov |-> [src |-> "AGENT", hash |-> a]]
          [] n = 2 -> [NoRow EXCEPT !.state = "ACTIVE", !.fast = 2, !.full = x,
                                   !.prov = [src |-> "SERVER", hash |-> x]]
          [] OTHER -> NoRow]
MCInitDisk == [p \in Path |-> IF p = raw THEN a ELSE IF p = proxy THEN x ELSE NoFile]

MCEdgeKey == {[src |-> 1, dst |-> 2, rel |-> "DERIVED_FROM"]}
MCInitEdges == [k \in EdgeKey |-> NewEdge("AUTO_ACCEPTED", 2, "resolver")]
MCTierOf == [k \in EdgeKey |-> 1]
MCAcceptAt == [i \in 1..3 |-> 2]

MCDuties ==
    {{"purge", "rehash", "scan"}, {"purge", "rehash", "device"}, {"purge", "rehash", "person"},
     {"inherit", "scan"}, {"inherit", "thumbs"}, {"thumbs", "scan"}}

MCDeviceDuty == {{"purge", "rehash", "device"}}

MCForeign == {<<raw, a>>, <<raw, b>>, <<copy, b>>, <<proxy, x>>, <<proxy, NoFile>>}
=============================================================================
