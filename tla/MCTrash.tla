------------------------------- MODULE MCTrash -------------------------------
(***************************************************************************)
(* Instances of Trash for TLC: a master raw and its export jpg in writable  *)
(* storage, and a second master tif, in a protected location, of both.     *)
(***************************************************************************)
EXTENDS Trash

CONSTANTS raw, jpg, tif, a, b, c, d

MCPath == {raw, jpg, tif}
MCContent == {a, b, c, d}
MCKind == [p \in MCPath |-> IF p = tif THEN "protected" ELSE "local"]

\* Masters in the archive tier, exports in another location.
MCLocOf == [p \in MCPath |-> IF p = jpg THEN 2 ELSE 1]

MCFastOf == [x \in MCContent |-> IF x \in {a, d} THEN 1 ELSE IF x = b THEN 2 ELSE 3]

NoRow == [state |-> "NONE", path |-> raw, fast |-> 1, full |-> NoHash, sup |-> 0,
          prov |-> NoProvenance]

Indexed(p, x) ==
    [NoRow EXCEPT !.state = "ACTIVE", !.path = p, !.fast = MCFastOf[x], !.full = x,
                  !.prov = [src |-> "SERVER", hash |-> x]]

\* Deleted; replaced by bytes that are indexed elsewhere, or by new ones with the
\* same fast hash.
MCForeign == {<<jpg, NoFile>>, <<jpg, c>>, <<raw, d>>}

MCInitDisk == [p \in MCPath |-> IF p = raw THEN a ELSE IF p = jpg THEN b ELSE c]

MCInitNodes ==
    [n \in 1..MaxNode |->
        CASE n = 1 -> Indexed(raw, a)
          [] n = 2 -> Indexed(jpg, b)
          [] n = 3 -> Indexed(tif, c)
          [] OTHER -> NoRow]

\* The export was archived as a duplicate, and its file is still there.
MCArchivedExport == [MCInitNodes EXCEPT ![2].state = "ARCHIVED"]

\* A master archived by hand, its file still there.
MCArchivedMaster == [MCInitNodes EXCEPT ![1].state = "ARCHIVED"]

\* tif is a master of both other files, and raw of jpg.
MCCascadeEdges == {<<1, 2>>, <<3, 2>>, <<3, 1>>}
=============================================================================
