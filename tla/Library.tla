------------------------------ MODULE Library ------------------------------
(***************************************************************************)
(* What the media service promises its clients: a set of assets on which   *)
(* each request takes effect in one step or not at all, between being      *)
(* asked and being answered, whatever files, rows and events the service   *)
(* handles on the way. A request that is confirmed took effect; one that   *)
(* is refused did not; one that is lost may have, and is never answered.   *)
(* MediaPipeline implements it; see PipelineRefinement.                    *)
(***************************************************************************)
CONSTANTS
    Uploads, Deletes, Reads,
    Assets,     \* what can be stored, named by client and hash: [name, content]
    None

VARIABLES
    library,    \* the assets a client can have back
    phase,      \* where each request is
    asset,      \* the asset it is about
    answer      \* per read, the content it was given

vars == <<library, phase, asset, answer>>
Ops  == Uploads \cup Deletes \cup Reads

Init ==
    /\ library = {}
    /\ phase = [o \in Ops |-> "idle"]
    /\ asset = [o \in Ops |-> None]
    /\ answer = [r \in Reads |-> None]

Goto(o, label) == phase' = [phase EXCEPT ![o] = label]

\* An upload may be about any asset, the other requests about one there is.
Ask(o, a) ==
    /\ phase[o] = "idle" /\ Goto(o, "asked")
    /\ o \in Uploads \/ a \in library
    /\ asset' = [asset EXCEPT ![o] = a]
    /\ UNCHANGED <<library, answer>>

Store(u) ==
    /\ phase[u] = "asked" /\ Goto(u, "done")
    /\ library' = library \cup {asset[u]}
    /\ UNCHANGED <<asset, answer>>

Remove(d) ==
    /\ phase[d] = "asked" /\ Goto(d, "done")
    /\ asset[d] \in library /\ library' = library \ {asset[d]}
    /\ UNCHANGED <<asset, answer>>

Confirm(o) ==
    /\ phase[o] = "done" /\ Goto(o, "ok")
    /\ UNCHANGED <<library, asset, answer>>

Serve(r) ==
    /\ phase[r] = "asked" /\ Goto(r, "ok")
    /\ asset[r] \in library
    /\ answer' = [answer EXCEPT ![r] = asset[r].content]
    /\ UNCHANGED <<library, asset>>

\* A request is refused, with or without having named an asset.
Refuse(o) ==
    /\ phase[o] \in {"idle", "asked"} /\ Goto(o, "err")
    /\ asset' \in {asset} \cup {[asset EXCEPT ![o] = a] : a \in Assets}
    /\ UNCHANGED <<library, answer>>

\* The service dies: what is in flight is never answered, and what took effect
\* stays so.
Crash ==
    /\ phase' = [o \in Ops |-> IF phase[o] \in {"asked", "done"} THEN "lost" ELSE phase[o]]
    /\ UNCHANGED <<library, asset, answer>>

Next ==
    \/ \E o \in Ops, a \in Assets : Ask(o, a)
    \/ \E u \in Uploads : Store(u)
    \/ \E d \in Deletes : Remove(d)
    \/ \E r \in Reads : Serve(r)
    \/ \E o \in Ops : Confirm(o) \/ Refuse(o)
    \/ Crash

Spec == Init /\ [][Next]_vars
=============================================================================
