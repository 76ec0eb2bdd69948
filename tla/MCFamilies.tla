---------------------------- MODULE MCFamilies ----------------------------
(***************************************************************************)
(* An instance of Families for TLC: families of three or four files, one   *)
(* of which may be there from the start or come later.                     *)
(***************************************************************************)
EXTENDS Families, TLC

File0 == [name |-> 0, bare |-> 0, stem |-> 0, alt |-> 0, dir |-> 1, ext |-> "other",
          mark |-> "none", proxyName |-> FALSE, dji |-> FALSE, time |-> 0, camera |-> 0,
          serial |-> 0, lens |-> 0, phash |-> 0, doc |-> 0, orig |-> 0, refs |-> <<>>]

\* A file of shot s taken at second t.
Shot(s, ext, t) == [File0 EXCEPT !.stem = s, !.bare = s, !.ext = ext, !.time = t]

\* IMG.arw, IMG.jpg, IMG-2.jpg, and the next frame of the same camera.
Camera(f) == [f EXCEPT !.camera = 1, !.serial = 1]
Photos == [arw  |-> [Camera(Shot(1, "raw", 100)) EXCEPT !.phash = 1],
           jpg  |-> [Camera(Shot(1, "image", 100)) EXCEPT !.phash = 1],
           jpg2 |-> [Camera(Shot(1, "image", 101)) EXCEPT !.mark = "index", !.bare = 2, !.phash = 2],
           next |-> [Camera(Shot(2, "raw", 102)) EXCEPT !.lens = 1]]

\* DJI.mp4, DJI.lrf, DJI.srt, DJI_edit.mp4
Drone == [mp4  |-> Shot(3, "video", 100),
          lrf  |-> Shot(3, "lrf", 100),
          srt  |-> [Shot(3, "srt", 0) EXCEPT !.dji = TRUE],
          edit |-> [Shot(3, "video", 100) EXCEPT !.mark = "role", !.bare = 4]]

\* A cut list that refers to CLIP.mp4 by its path and to CLIP-2.arw by its name,
\* and an .xmp beside them.
Cut == [edl  |-> [Shot(5, "project", 0) EXCEPT !.refs = <<[paths |-> <<"clip">>, name |-> 6],
                                                          [paths |-> <<>>, name |-> 7]>>],
        clip |-> [Shot(6, "video", 100) EXCEPT !.name = 6],
        raw  |-> [Shot(6, "raw", 0) EXCEPT !.name = 7, !.mark = "index", !.bare = 7],
        xmp  |-> Shot(6, "xmp", 0)]

\* A print that names the raw it was made from, and an export of the scan on the
\* other location that names the scan.
Prints == [tif   |-> [Shot(8, "other", 100) EXCEPT !.doc = 1],
           dng   |-> [Shot(8, "raw", 100) EXCEPT !.doc = 2],
           print |-> [Shot(8, "image", 100) EXCEPT !.orig = 2],
           copy  |-> [Shot(8, "image", 0) EXCEPT !.orig = 1, !.dir = 2]]

Files == Photos @@ Drone @@ Cut @@ Prints
Names == DOMAIN Files
Places == [p \in Names |-> IF p = "copy" THEN "exports" ELSE "archive"]
Self == [p \in Names |-> p]
Distances == [p \in (1..2) \X (1..2) |-> IF p[1] = p[2] THEN 0 ELSE 5]

\* A file that comes later, or somebody who interferes.
Groups ==
    {[files |-> DOMAIN Photos, late |-> {"arw"}, mishaps |-> MaxMishap],
     [files |-> DOMAIN Drone, late |-> {"mp4"}, mishaps |-> MaxMishap],
     [files |-> {"edl", "clip", "raw"}, late |-> {"clip"}, mishaps |-> MaxMishap],
     [files |-> {"xmp", "clip", "raw"}, late |-> {"raw"}, mishaps |-> MaxMishap],
     [files |-> DOMAIN Prints, late |-> {"dng"}, mishaps |-> MaxMishap],
     [files |-> {"arw", "jpg", "jpg2"}, late |-> {}, mishaps |-> 0]}

Keys == {[src |-> p[1], dst |-> p[2], rel |-> r] :
            p \in {q \in Node \X Node : q[1] # q[2]},
            r \in {"DERIVED_FROM", "FINAL_EXPORT", "PROXY_OF", "PROJECT_SIDECAR"}}

\* Each a definition of its own above, so that TLC computes it once.
MCAbout == Files
MCPath == Names
MCLocOf == Places
MCSelf == Self
MCHamming == Distances
MCTogether == Groups
MCEdgeKey == Keys

MCInitNodes == [n \in 1..MaxNode |->
                   [state |-> "NONE", path |-> "arw", fast |-> "arw", full |-> NoHash,
                    sup |-> 0, prov |-> NoProvenance]]
MCInitEdges == [k \in EdgeKey |-> NoEdge]
MCInitDisk == [p \in Names |-> NoFile]
MCAcceptAt == [i \in 1..3 |-> IF i = 3 THEN 85 ELSE 90]
=============================================================================
