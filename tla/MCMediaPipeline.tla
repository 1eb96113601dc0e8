-------------------------- MODULE MCMediaPipeline --------------------------
(* Instances of MediaPipeline for TLC.                                     *)
EXTENDS PipelineRefinement, TLC

CONSTANTS u1, u2, u3, u4, d1, d2, g1   \* operations
CONSTANTS x, y                     \* file names: x is an image's, y is not
CONSTANTS c1, c2                   \* contents
CONSTANTS top, cam, aux, today, tomorrow

Plain(s)        == [stem |-> s, marks |-> <<>>]
Store(dir, s, c) == [dir |-> dir, name |-> Plain(s), content |-> c]

MCPhotos == {x} \X Contents

\* One name with two contents in one directory, and a file that is no photo.
ClashRequests == {Store(cam, x, c1), Store(cam, x, c2), Store(cam, y, c1)}

\* The same file in the empty directory, which goes under the date, and in
\* a directory; another content of that name.
RootRequests == {Store(top, x, c1), Store(cam, x, c1), Store(cam, x, c2)}

\* A name stands for one content within a directory: retries of an upload
\* race, uploads of different contents to one name do not.
RetryRequests == {Store(top, x, c1), Store(top, x, c2), Store(cam, x, c1), Store(aux, x, c2)}

\* The suffixed name the service would give to (x, c2), written by a client.
SuffixRequests ==
    {Store(cam, x, c1), Store(cam, x, c2),
     [dir |-> cam, name |-> WithHashSuffix(Plain(x), c2), content |-> c1]}

\* The same file in two directories.
TwinRequests == {Store(cam, x, c1), Store(aux, x, c1)}

\* Operations of one kind are interchangeable, in the action properties and in
\* Library too. (Not used where a liveness property is checked.)
OpSymmetry == Permutations(Uploads) \cup Permutations(Deletes)

\* No guard reads transfer_events or the broadcast events: states that differ
\* only there have the same future. (Used where no property reads them.)
WithoutJournal == <<stores, history, pc, locals>>
=============================================================================
