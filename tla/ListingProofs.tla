---------------------------- MODULE ListingProofs ----------------------------
(***************************************************************************)
(* What holds of Listing for any number of rows, clocks and limits.        *)
(***************************************************************************)
EXTENDS Listing, TLAPS

LEMMA TimesNonEmpty == 1 \in Times
  BY BoundsAssumption DEF Times

LEMMA TypeInit == Init => TypeOK
  BY TimesNonEmpty DEF Init, TypeOK

LEMMA TypeNext ==
    ASSUME TypeOK, [Next]_vars  PROVE TypeOK'
  <1> USE DEF TypeOK
  <1>1. ASSUME Tick  PROVE TypeOK'
    BY <1>1, BoundsAssumption DEF Tick, Times, reader
  <1>2. ASSUME NEW i \in Ids, Close(i)  PROVE TypeOK'
    BY <1>2 DEF Close, reader, Times
  <1>3. ASSUME NEW i \in Ids, NEW t \in Times, Insert(i, t)  PROVE TypeOK'
    BY <1>3 DEF Insert, reader
  <1>4. ASSUME NEW i \in Ids, NEW t \in Times, Overwrite(i, t)  PROVE TypeOK'
    BY <1>4 DEF Overwrite
  <1>5. ASSUME NEW i \in Ids, Delete(i)  PROVE TypeOK'
    BY <1>5, TimesNonEmpty DEF Delete
  <1>6. ASSUME NEW n \in Limits, NEW photos \in BOOLEAN, Open(n, photos)  PROVE TypeOK'
    BY <1>6 DEF Open, Asked, rows
  <1>7. ASSUME ReadPage  PROVE TypeOK'
    BY <1>7 DEF ReadPage, NextCursor, IsLast, Below, rows, Cursors
  <1>8. ASSUME UNCHANGED vars  PROVE TypeOK'
    BY <1>8 DEF vars, rows, reader
  <1>9. [Next]_vars
    OBVIOUS
  <1> HIDE DEF TypeOK
  <1> QED
    BY <1>1, <1>2, <1>3, <1>4, <1>5, <1>6, <1>7, <1>8, <1>9 DEF Next

\* Every variable keeps its type.
THEOREM TypeSafety == Spec => []TypeOK
  <1> QED BY TypeInit, TypeNext, PTL DEF Spec

-----------------------------------------------------------------------------
(* The cursor divides the rows a reader asked for: those it was given are  *)
(* not below it, those still due are.                                      *)

\* Row i comes after the cursor.
After(i) == Older(at[i], i, cursor.at, cursor.id)

SeenKnown == seen \subseteq used
SeenAbove == pc = "reading" =>
    \A i \in (seen \cap table) \ lowered : cursor # None /\ ~After(i)
DueBelow  ==
    /\ due \subseteq table \cap Asked(onlyPhotos)
    /\ cursor # None => \A i \in due : After(i)
EndHasNoCursor == pc # "reading" => cursor = None

CursorInv == SeenKnown /\ SeenAbove /\ DueBelow /\ EndHasNoCursor /\ NoRepeats /\ Complete

LEMMA CursorInit == Init => CursorInv
  BY DEF Init, CursorInv, SeenKnown, SeenAbove, DueBelow, EndHasNoCursor, NoRepeats, Complete

LEMMA AskedIsIds == \A photos \in BOOLEAN : Asked(photos) \subseteq Ids
  BY IdsAssumption DEF Asked

LEMMA OlderTransitive ==
    ASSUME NEW t \in Int, NEW i \in Int, NEW u \in Int, NEW j \in Int,
           NEW v \in Int, NEW k \in Int, ~Older(t, i, u, j), Older(v, k, u, j)
    PROVE  ~Older(t, i, v, k)
  BY DEF Older

\* What a page and its cursor are, and what is left of the rows below.
LEMMA PageDivides ==
    ASSUME TypeOK, CursorInv, ReadPage
    PROVE  \E page \in SUBSET Below :
              /\ seen' = seen \cup page /\ again' = again \cup (seen \cap page)
              /\ due' = due \ page
              /\ \/ cursor' = None
                 \/ /\ cursor' \in Cursors
                    /\ \E i \in page : cursor' = [at |-> at[i], id |-> i]
                    /\ \A i \in page : ~After(i)'
                    /\ \A i \in Below \ page : After(i)'
              /\ cursor' = None /\ limit \in 1 .. MaxLimit => page = Below
  <1>1. PICK page \in SUBSET Below :
           /\ IsPage(page) /\ NextCursor(page)
           /\ seen' = seen \cup page /\ again' = again \cup (seen \cap page)
           /\ due' = due \ page
    BY DEF ReadPage
  <1>2. at' = at /\ page \subseteq Ids /\ Below \subseteq Ids
    BY AskedIsIds DEF ReadPage, rows, Below, TypeOK
  <1>3. CASE Cardinality(page) = limit /\ Cardinality(page) > 0
    <2>1. PICK i \in page : IsLast(i, page) /\ cursor' = [at |-> at[i], id |-> i]
      BY <1>1, <1>3 DEF NextCursor
    <2>2. cursor' \in Cursors
      BY <1>2, <2>1 DEF Cursors, TypeOK
    <2>3. \A j \in page : ~After(j)'
      BY <1>2, <2>1, IdsAssumption DEF After, Older, IsLast, TypeOK, Times
    <2>4. \A j \in Below \ page : After(j)'
      BY <1>1, <1>2, <2>1 DEF IsPage, After
    <2> QED
      BY <1>1, <2>1, <2>2, <2>3, <2>4, NoneAssumption
  <1>4. CASE ~(Cardinality(page) = limit /\ Cardinality(page) > 0)
    <2>1. cursor' = None
      BY <1>1, <1>4 DEF NextCursor
    <2>2. ASSUME limit \in 1 .. MaxLimit  PROVE page = Below
      BY <1>1, <1>4, <2>2, LimitsAssumption DEF IsPage, RowLimit
    <2> QED
      BY <1>1, <2>1, <2>2
  <1> QED
    BY <1>3, <1>4

LEMMA CursorNext ==
    ASSUME TypeOK, CursorInv, [Next]_vars  PROVE CursorInv'
  <1>1. ASSUME Tick  PROVE CursorInv'
    BY <1>1 DEF CursorInv, SeenKnown, SeenAbove, DueBelow, EndHasNoCursor, NoRepeats, Complete, After,
       Tick, reader
  <1>2. ASSUME NEW i \in Ids, Close(i)  PROVE CursorInv'
    BY <1>2 DEF CursorInv, SeenKnown, SeenAbove, DueBelow, EndHasNoCursor, NoRepeats, Complete, After,
       Close, reader
  <1>3. ASSUME NEW i \in Ids, NEW t \in Times, Insert(i, t)  PROVE CursorInv'
    BY <1>3 DEF CursorInv, SeenKnown, SeenAbove, DueBelow, EndHasNoCursor, NoRepeats, Complete, After,
       Insert, reader, TypeOK
  <1>4. ASSUME NEW i \in Ids, NEW t \in Times, Overwrite(i, t)  PROVE CursorInv'
    <2>1. SeenKnown' /\ EndHasNoCursor' /\ NoRepeats' /\ Complete'
      BY <1>4 DEF Overwrite, CursorInv, SeenKnown, EndHasNoCursor, NoRepeats, Complete
    <2>2. DueBelow'
      BY <1>4 DEF Overwrite, CursorInv, DueBelow, After, Asked, TypeOK
    <2>3. SeenAbove'
      <3> SUFFICES ASSUME pc = "reading", NEW j \in (seen \cap table) \ lowered'
                   PROVE  cursor # None /\ ~Older(at'[j], j, cursor.at, cursor.id)
        BY <1>4 DEF Overwrite, SeenAbove, After
      <3>1. j \in Ids /\ j \in (seen \cap table) \ lowered
        BY <1>4 DEF Overwrite, TypeOK
      <3>2. cursor # None /\ ~After(j) /\ cursor \in Cursors
        BY <3>1 DEF CursorInv, SeenAbove, TypeOK
      <3>3. at'[j] \in Int /\ at[j] \in Int /\ at'[j] >= at[j]
        BY <1>4, <3>1 DEF Overwrite, TypeOK, Times
      <3> QED
        BY <3>1, <3>2, <3>3, IdsAssumption DEF After, Older, Cursors, Times
    <2> QED
      BY <2>1, <2>2, <2>3 DEF CursorInv
  <1>5. ASSUME NEW i \in Ids, Delete(i)  PROVE CursorInv'
    BY <1>5 DEF CursorInv, SeenKnown, SeenAbove, DueBelow, EndHasNoCursor, NoRepeats, Complete, After,
       Delete, TypeOK
  <1>6. ASSUME NEW n \in Limits, NEW photos \in BOOLEAN, Open(n, photos)  PROVE CursorInv'
    BY <1>6 DEF CursorInv, SeenKnown, SeenAbove, DueBelow, EndHasNoCursor, NoRepeats, Complete, After,
       Open, rows, TypeOK
  <1>7. ASSUME ReadPage  PROVE CursorInv'
    <2>1. PICK page \in SUBSET Below :
              /\ seen' = seen \cup page /\ again' = again \cup (seen \cap page)
              /\ due' = due \ page
              /\ \/ cursor' = None
                 \/ /\ cursor' \in Cursors
                    /\ \E i \in page : cursor' = [at |-> at[i], id |-> i]
                    /\ \A i \in page : ~After(i)'
                    /\ \A i \in Below \ page : After(i)'
              /\ cursor' = None /\ limit \in 1 .. MaxLimit => page = Below
      BY <1>7, PageDivides
    <2>2. /\ pc = "reading" /\ pc' = IF cursor' = None THEN "ended" ELSE "reading"
          /\ UNCHANGED <<at, table, used, limit, onlyPhotos, lowered>>
      BY <1>7 DEF ReadPage, rows
    <2>3. due \subseteq Below /\ page \subseteq table /\ page \subseteq Ids
      BY <2>1, AskedIsIds DEF CursorInv, DueBelow, After, Below, TypeOK
    <2>4. \A i \in (seen \cap table) \ lowered : i \notin Below
      BY <2>2 DEF CursorInv, SeenAbove, After, Below
    <2>5. SeenKnown' /\ EndHasNoCursor' /\ NoRepeats'
      BY <2>1, <2>2, <2>3, <2>4, NoneAssumption
         DEF CursorInv, SeenKnown, EndHasNoCursor, NoRepeats, TypeOK
    <2>6. Complete'
      BY <2>1, <2>2, <2>3 DEF Complete
    <2>7. DueBelow'
      BY <2>1, <2>2, <2>3 DEF CursorInv, DueBelow
    <2>8. SeenAbove'
      <3> SUFFICES ASSUME pc' = "reading", NEW i \in (seen' \cap table') \ lowered'
                   PROVE  cursor' # None /\ ~After(i)'
        BY DEF SeenAbove
      <3>1. cursor' # None /\ cursor' \in Cursors
        BY <2>1, <2>2
      <3>2. CASE i \in page
        BY <2>1, <3>1, <3>2
      <3>3. CASE i \notin page
        <4>1. i \in (seen \cap table) \ lowered /\ i \in Ids
          BY <2>1, <2>2, <3>3 DEF TypeOK
        <4>2. cursor # None /\ ~After(i) /\ cursor \in Cursors
          BY <2>2, <4>1 DEF CursorInv, SeenAbove, TypeOK
        <4>3. PICK j \in page : cursor' = [at |-> at[j], id |-> j]
          BY <2>1, <3>1
        <4>4. Older(at[j], j, cursor.at, cursor.id) /\ j \in Ids
          BY <2>3, <4>2, <4>3 DEF Below
        <4>5. /\ at[i] \in Int /\ at[j] \in Int /\ i \in Int /\ j \in Int
              /\ cursor.at \in Int /\ cursor.id \in Int
          <5>1. i \in Ids /\ j \in Ids /\ cursor \in [at : Times, id : Ids]
            BY <4>1, <4>2, <4>4 DEF Cursors
          <5>2. at \in [Ids -> Times] /\ Ids \subseteq Int /\ Times \subseteq Int
            BY IdsAssumption DEF TypeOK, Times
          <5> QED
            BY <5>1, <5>2
        <4>6. ~Older(at[i], i, at[j], j)
          BY <4>2, <4>4, <4>5, OlderTransitive DEF After
        <4> QED
          BY <2>2, <3>1, <4>3, <4>6 DEF After
      <3> QED
        BY <3>2, <3>3
    <2> QED
      BY <2>5, <2>6, <2>7, <2>8 DEF CursorInv
  <1>8. ASSUME UNCHANGED vars  PROVE CursorInv'
    BY <1>8 DEF CursorInv, SeenKnown, SeenAbove, DueBelow, EndHasNoCursor, NoRepeats, Complete, After,
       vars, rows, reader
  <1>9. [Next]_vars
    OBVIOUS
  <1> QED
    BY <1>1, <1>2, <1>3, <1>4, <1>5, <1>6, <1>7, <1>8, <1>9 DEF Next

\* The cursor divides what a reader was given from what it is still due.
THEOREM CursorDivides == Spec => []CursorInv
  <1> QED BY TypeInit, TypeNext, CursorInit, CursorNext, PTL DEF Spec

\* No row is given twice unless an overwrite moved it back in time.
THEOREM NoRepeatsHolds == Spec => []NoRepeats
  <1>1. CursorInv => NoRepeats
    BY DEF CursorInv
  <1> QED BY <1>1, CursorDivides, PTL

\* A reader with a limit in range that came to the end was given every row
\* that stayed unchanged from its first request on.
THEOREM CompleteHolds == Spec => []Complete
  <1>1. CursorInv => Complete
    BY DEF CursorInv
  <1> QED BY <1>1, CursorDivides, PTL
=============================================================================
