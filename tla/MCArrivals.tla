----------------------------- MODULE MCArrivals -----------------------------
(***************************************************************************)
(* An instance of Arrivals for TLC: an archive and its exports, two        *)
(* uploads of the same file, and one export in a folder.                   *)
(***************************************************************************)
EXTENDS Arrivals

CONSTANTS m1, m2, x1, x2, u1, u2, a, b, part

MCPath == {m1, m2, x1, x2}
MCLocOf == [p \in Path |-> IF p \in {m1, m2} THEN "archive" ELSE "exports"]
MCContent == {a, b, part}

\* b differs from a where the fast hash does not look.
MCFastOf == [c \in MCContent |-> IF c = part THEN 2 ELSE 1]

MCSent == [u \in Uploader |-> a]
MCAsked == [u \in Uploader |-> m1]
MCSuffixed == [p \in Path |-> IF m2 \in Path THEN m2 ELSE m1]
MCExportOf == [p \in Path |-> IF p = m1 THEN x1 ELSE NoPath]

NoRow == [state |-> "NONE", path |-> m1, fast |-> 1, full |-> NoHash, sup |-> 0,
          prov |-> NoProvenance]

\* x2 is indexed, without a full hash.
MCInitNodes ==
    [n \in 1..MaxNode |->
       IF n = 1 THEN [NoRow EXCEPT !.state = "ACTIVE", !.path = x2] ELSE NoRow]
MCInitDisk == [p \in Path |-> IF p = x2 THEN b ELSE NoFile]

\* Two uploads with nobody watching, and one upload with the watcher and a row
\* less to give.
MCMixes ==
    {[uploads |-> {u1, u2}, watched |-> FALSE, rows |-> MCInitNodes],
     [uploads |-> {u1}, watched |-> TRUE,
      rows |-> [MCInitNodes EXCEPT ![MaxNode].state = "ARCHIVED", ![MaxNode].path = m2]]}

MCForeign == {<<x2, NoFile>>, <<x2, a>>, <<x1, b>>, <<m1, NoFile>>}
=============================================================================
