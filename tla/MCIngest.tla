------------------------------ MODULE MCIngest ------------------------------
(***************************************************************************)
(* Instances of Ingest for TLC: one location with two or three files.      *)
(***************************************************************************)
EXTENDS Ingest

CONSTANTS raw, jpg, tif, a, b, c

MCPath == {raw, jpg}
MCThreePaths == {raw, jpg, tif}
MCContent == {a, b, c}
MCLocOf == [x \in Path |-> 1]

\* c differs from a where the fast hash does not look.
MCFastOf == [x \in MCContent |-> IF x = b THEN 2 ELSE 1]

NoRow == [state |-> "NONE", path |-> raw, fast |-> 1, full |-> NoHash, sup |-> 0,
          prov |-> NoProvenance]

Indexed(path, x) ==
    [NoRow EXCEPT !.state = "ACTIVE", !.path = path, !.fast = MCFastOf[x], !.full = x,
                  !.prov = [src |-> "SERVER", hash |-> x]]

\* raw is indexed; jpg and tif are new, and tif has the fast hash of raw.
MCInitNodes == [n \in 1..MaxNode |-> IF n = 1 THEN Indexed(raw, a) ELSE NoRow]
MCInitDisk == [x \in Path |-> IF x = raw THEN a ELSE IF x = jpg THEN b ELSE c]
MCVanish == {<<tif, NoFile>>}

\* raw was swept while its file was away, and the file is back; jpg is free.
MCMissingNodes == [MCInitNodes EXCEPT ![1].state = "MISSING"]
MCFreeDisk == [x \in Path |-> IF x = raw THEN a ELSE IF x = jpg THEN NoFile ELSE b]

\* Deleted, restored, rewritten.
MCForeign == {<<raw, NoFile>>, <<raw, a>>, <<raw, c>>, <<jpg, NoFile>>}
MCUploads == {<<jpg, a>>}
MCReturn == {<<tif, c>>}
=============================================================================
