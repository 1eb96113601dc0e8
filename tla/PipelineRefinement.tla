------------------------- MODULE PipelineRefinement -------------------------
(***************************************************************************)
(* How MediaPipeline implements Library: an asset is in the library while  *)
(* its row names a file that holds its content, so an upload takes effect  *)
(* where it inserts or overwrites its row, a deletion where it removes the *)
(* file.                                                                   *)
(***************************************************************************)
EXTENDS MediaPipeline

AssetIn(q) == [name |-> q.name, content |-> q.content]
AssetAt(r) == [name |-> r.name, content |-> r.hash]

\* The rows a client can read.
Readable == {r \in rows : OnDisk(r.path, r.hash)}

\* The steps at which an operation has taken effect and is not answered yet.
AfterEffect == {"logup", "logover", "cleanup", "announce", "announcephoto",
                "erase", "logdel", "announcedel"}

PhaseAt(label) ==
    IF label \in Ended \cup {"idle"} THEN label
    ELSE IF label \in AfterEffect THEN "done" ELSE "asked"

AssetAsked(o) ==
    IF o \in Uploads
    THEN IF req[o] = None THEN None ELSE AssetIn(req[o])
    ELSE IF found[o] = None THEN None ELSE AssetAt(found[o])

Kept  == {AssetAt(r) : r \in Readable}
Phase == [o \in Ops |-> PhaseAt(pc[o])]
Asked == [o \in Ops |-> AssetAsked(o)]

Promise == INSTANCE Library WITH
    Assets <- {AssetIn(q) : q \in Requests},
    library <- Kept, phase <- Phase, asset <- Asked, answer <- body

-----------------------------------------------------------------------------
(* Properties                                                              *)

\* Over files, rows and events with no transaction around them, uploads,
\* deletions and reads are atomic and answered truthfully: those of clients
\* that wait for their answers, although transfers break and file operations
\* fail; and uploads and reads that overlap, although statements fail and the
\* process dies too, as long as a name stands for one content.
LibraryKept == Promise!Spec
=============================================================================
