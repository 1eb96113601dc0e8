------------------------------ MODULE Listing ------------------------------
(***************************************************************************)
(* The listings GET /api/photos and GET /api/assets, page by page, while   *)
(* rows come, move and go:                                                 *)
(*   api/handlers.go   ListPhotos, ListAssets, parseCursor, buildCursor    *)
(*   db/store.go       ListAssets                                          *)
(* against the statements of the media pipeline on uploaded_at. An upload  *)
(* takes its stamp when its file is closed (manager.go) and writes it      *)
(* later, so stamps reach the table in any order, and an overwrite may     *)
(* move a row forwards or back. A time is a tick of the clock's resolution *)
(* in the database; uploads in one tick tie.                               *)
(* As in MediaPipeline, Name_Fault is a faulty form of Name, which Spec    *)
(* does not use.                                                           *)
(***************************************************************************)
EXTENDS Integers, FiniteSets

CONSTANTS
    Ids,           \* the identifiers of rows, in the order of the database
    Photos,        \* those of the rows that are photos
    Limits,        \* values of the parameter "limit" that clients send
    DefaultLimit,  \* 50
    MaxLimit,      \* 200
    MaxTime,       \* bound: ticks of the clock
    MaxUploads,    \* bound: uploads in flight at once
    None

ASSUME IdsAssumption == Ids \subseteq Nat /\ IsFiniteSet(Ids) /\ Photos \subseteq Ids
ASSUME LimitsAssumption ==
    /\ Limits \subseteq Int
    /\ DefaultLimit \in Nat \ {0} /\ MaxLimit \in Nat /\ DefaultLimit <= MaxLimit
ASSUME BoundsAssumption == MaxTime \in Nat \ {0} /\ MaxUploads \in Nat

Times   == 1 .. MaxTime
Cursors == [at : Times, id : Ids]

ASSUME NoneAssumption == None \notin Cursors

VARIABLES
    now,         \* the clock
    at,          \* uploaded_at of the rows, 1 where there is none
    table,       \* the rows there are
    used,        \* the identifiers given to a row so far
    inflight,    \* closed files and the row each will write
    pc,          \* of the reader: "idle", "reading", "ended"
    limit,       \* its parameter
    onlyPhotos,  \* it reads /api/photos
    cursor,      \* what it sends with the next request
    seen,        \* history: rows it was given
    again,       \* history: those given more than once
    due,         \* history: rows it asked for, there from its start to now, not yet given
    lowered      \* history: rows that went back in time since its start

rows   == <<now, at, table, used, inflight>>
reader == <<pc, limit, onlyPhotos, cursor, seen, again, due, lowered>>
vars   == <<rows, reader>>

TypeOK ==
    /\ now \in Times
    /\ at \in [Ids -> Times]
    /\ table \subseteq used /\ used \subseteq Ids
    /\ inflight \subseteq Ids \X Times
    /\ pc \in {"idle", "reading", "ended"}
    /\ limit \in Limits /\ onlyPhotos \in BOOLEAN
    /\ cursor \in Cursors \cup {None}
    /\ seen \subseteq Ids /\ again \subseteq Ids
    /\ due \subseteq Ids /\ lowered \subseteq Ids

Init ==
    /\ now = 1 /\ at = [i \in Ids |-> 1] /\ table = {} /\ used = {} /\ inflight = {}
    /\ pc = "idle" /\ limit \in Limits /\ onlyPhotos \in BOOLEAN /\ cursor = None
    /\ seen = {} /\ again = {} /\ due = {} /\ lowered = {}

-----------------------------------------------------------------------------
(* The pipeline.                                                           *)

Tick == /\ now < MaxTime /\ now' = now + 1
        /\ UNCHANGED <<at, table, used, inflight, reader>>

\* A transfer is complete. It will write row i: a new one or, when the file
\* is known by then, the one there is.
Close(i) ==
    /\ Cardinality(inflight) < MaxUploads
    /\ inflight' = inflight \cup {<<i, now>>}
    /\ UNCHANGED <<now, at, table, used, reader>>

\* InsertMediaAsset
Insert(i, t) ==
    /\ <<i, t>> \in inflight /\ i \notin used
    /\ inflight' = inflight \ {<<i, t>>}
    /\ at' = [at EXCEPT ![i] = t]
    /\ table' = table \cup {i} /\ used' = used \cup {i}
    /\ UNCHANGED <<now, reader>>

\* UpdateMediaAssetOverwrite; with the row deleted meanwhile it updates nothing.
Overwrite(i, t) ==
    /\ <<i, t>> \in inflight /\ i \in used
    /\ inflight' = inflight \ {<<i, t>>}
    /\ IF i \in table
       THEN /\ at' = [at EXCEPT ![i] = t]
            /\ due' = due \ {i}
            /\ lowered' = IF t < at[i] THEN lowered \cup {i} ELSE lowered
       ELSE UNCHANGED <<at, due, lowered>>
    /\ UNCHANGED <<now, table, used, pc, limit, onlyPhotos, cursor, seen, again>>

\* DeleteMediaByID
Delete(i) ==
    /\ i \in table
    /\ table' = table \ {i} /\ at' = [at EXCEPT ![i] = 1] /\ due' = due \ {i}
    /\ UNCHANGED <<now, used, inflight, pc, limit, onlyPhotos, cursor,
                   seen, again, lowered>>

-----------------------------------------------------------------------------
(* The reader and its requests.                                            *)

Asked(photos) == IF photos THEN Photos ELSE Ids

\* A client starts from the newest row.
Open(n, photos) ==
    /\ pc \in {"idle", "ended"} /\ pc' = "reading"
    /\ limit' = n /\ onlyPhotos' = photos /\ cursor' = None
    /\ seen' = {} /\ again' = {} /\ due' = table \cap Asked(photos) /\ lowered' = {}
    /\ UNCHANGED rows

\* ORDER BY uploaded_at DESC, id DESC
Older(t, i, u, j) == t < u \/ (t = u /\ i < j)

Below_Inclusive == {i \in table \cap Asked(onlyPhotos) :
    cursor # None => ~Older(cursor.at, cursor.id, at[i], i)}

Below_ByTime == {i \in table \cap Asked(onlyPhotos) :
    cursor # None => at[i] < cursor.at}

\* The rows of the WHERE clause.
Below == {i \in table \cap Asked(onlyPhotos) :
    cursor # None => Older(at[i], i, cursor.at, cursor.id)}

\* The limit of the statement: any limit out of range becomes the default.
RowLimit == IF limit \in 1 .. MaxLimit THEN limit ELSE DefaultLimit

IsPage(page) ==
    /\ \A i \in Below \ page, j \in page : Older(at[i], i, at[j], j)
    /\ \/ Cardinality(page) = RowLimit
       \/ Cardinality(page) < RowLimit /\ page = Below

IsLast(i, page) == i \in page /\ \A j \in page \ {i} : Older(at[i], i, at[j], j)

NextCursor_AtLast(page) ==
    /\ cursor' \in {None} \cup {[at |-> at[i], id |-> i] : i \in {j \in page : IsLast(j, page)}}
    /\ (cursor' = None) <=> (page = {})

\* A full page, as the client asked for it, comes with a cursor.
NextCursor(page) ==
    IF Cardinality(page) = limit /\ Cardinality(page) > 0
    THEN \E i \in page : IsLast(i, page) /\ cursor' = [at |-> at[i], id |-> i]
    ELSE cursor' = None

\* A request; the client stops when the answer has no cursor.
ReadPage ==
    /\ pc = "reading"
    /\ \E page \in SUBSET Below :
          /\ IsPage(page) /\ NextCursor(page)
          /\ seen' = seen \cup page
          /\ again' = again \cup (seen \cap page)
          /\ due' = due \ page
    /\ pc' = IF cursor' = None THEN "ended" ELSE "reading"
    /\ UNCHANGED <<rows, limit, onlyPhotos, lowered>>

Next ==
    \/ Tick
    \/ \E i \in Ids : Close(i) \/ Delete(i)
    \/ \E i \in Ids, t \in Times : Insert(i, t) \/ Overwrite(i, t)
    \/ \E n \in Limits, photos \in BOOLEAN : Open(n, photos)
    \/ ReadPage

Spec == Init /\ [][Next]_vars

\* A client that has a cursor asks for the next page.
FairSpec == Spec /\ WF_vars(ReadPage)

-----------------------------------------------------------------------------
(* Properties                                                              *)

\* No row is given twice to a reader, whatever is uploaded, overwritten or
\* deleted between its requests, unless an overwrite moved it back in time.
NoRepeats == again \subseteq lowered

\* With a limit in range, a reader that came to the end was given every row
\* it asked for that stayed in the table unchanged from its first request on.
Complete == pc = "ended" /\ limit \in 1 .. MaxLimit => due = {}

\* A reader comes to an end, however many rows are written meanwhile.
PagingEnds == pc = "reading" ~> pc = "ended"
=============================================================================
